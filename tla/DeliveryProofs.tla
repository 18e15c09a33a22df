--------------------------- MODULE DeliveryProofs ---------------------------
(***************************************************************************)
(* What comes in, for any files, commands, expansions and workers: whoever *)
(* captures a content agrees on its time, tasks name what is in the store  *)
(* (CapturesAgree), and the frontier counts what has a task, each once     *)
(* (FrontierSound), and only grows (FrontierGrows).  What is delivered is  *)
(* a source batch with a row, whose lease is known to its worker (TypeOK). *)
(***************************************************************************)
EXTENDS Delivery, FiniteSetTheorems, TLAPS

Candidate == UNION {ToSet(Candidates[x]) : x \in Expander}
Key == {c.key : c \in Candidate}
Scope == {c.outside : c \in Candidate}
Verdict == Scope \cup {"depth_limit", "already_seen", "entity_limit", "included"}
Decision == Key \X Verdict
Checkpoint == [seen : Seq(Key), decisions : Seq(Decision), revision : Nat]
Expansion == [pc : {"off", "idle", "deciding", "done", "failed"}, next : Nat \ {0}, tries : Nat,
              seen : Seq(Key), decisions : Seq(Decision), revision : Nat]

BatchTask == {"construction"} \X File \X Content
SeedTask == {"researcher"} \X File \X Content \X Content
Submission == BatchTask \cup SeedTask
ChildTask == {"child"} \X Key \X Expander

Command == [pc : {"off", "read", "stamp", "link", "parse", "check", "enqueue", "done", "failed"},
            entry : Nat \ {0}, data : Content \cup {None}, version : Nat,
            record : Producer \cup Worker \cup {None}, staged : Seq(Submission)]

Typed ==
  /\ file \in [File -> Content] /\ edits \in Nat
  /\ stamp \in [Content -> Producer \cup Worker \cup {None}]
  /\ DOMAIN row \subseteq Submission \cup ChildTask
  /\ producer \in [Producer -> Command]
  /\ expander \in [Expander -> Expansion] /\ frontier \in Checkpoint

\* A command that is at a file, and has read it, ...
Reading ==
  \A p \in Producer :
    LET at(pcs) == producer[p].pc \in pcs IN
    /\ at({"read", "stamp", "link", "parse", "check"}) => producer[p].entry <= Len(Jobs[p].inputs)
    /\ at({"stamp", "link", "parse", "check"}) => producer[p].data \in Content
    /\ producer[p].version <= edits
    /\ at({"parse"}) /\ Kind(p) = "xlsx" /\ producer[p].version = edits => producer[p].data = file[Input(p)]
    /\ at({"parse"}) => Kind(p) # "queue"
    /\ at({"check"}) => Kind(p) = "xlsx"

\* ... holds what is in the store and the time that is published for it, ...
Held ==
  \A p \in Producer :
    LET at(pcs) == producer[p].pc \in pcs
        data == producer[p].data
    IN  /\ at({"stamp", "link"}) \/ (at({"parse"}) /\ Kind(p) = "csv") => data \in store
        /\ at({"parse"}) /\ Kind(p) = "xlsx" => producer[p].record = None
        /\ producer[p].record # None => data \in Content /\ data \in store /\ producer[p].record = stamp[data]

\* ... and has staged tasks that name it; those of a workbook that is not edited
\* are of the content that they name.
Staged(p, ts, kept) ==
  \A i \in DOMAIN ts :
    /\ Kind(p) = "queue" => ts[i] \in BatchTask /\ ts[i][3] \in kept
    /\ Kind(p) # "queue" => ts[i] \in SeedTask /\ ts[i][2] \in ToSet(Jobs[p].inputs)
    /\ Kind(p) = "csv" => ts[i][3] \in kept
    /\ Kind(p) = "xlsx" => ts[i][4] \in kept

SeedsNamed(ts) == \A i \in DOMAIN ts : ts[i][3] = ts[i][4]

Staging ==
  \A p \in Producer :
    LET at(pcs) == producer[p].pc \in pcs
        ts == producer[p].staged
    IN  /\ Staged(p, ts, store)
        /\ at({"enqueue"}) => ts # <<>>
        /\ at({"enqueue"}) /\ Kind(p) = "xlsx" => SeedsNamed(ts)
        /\ at({"stamp", "link", "check"}) /\ Kind(p) = "xlsx" =>
             ts # <<>> /\ (producer[p].version = edits => SeedsNamed(ts))

Workbook(f) == \E p \in Producer : Kind(p) = "xlsx" /\ f \in ToSet(Jobs[p].inputs)

Rowed ==
  \A t \in DOMAIN row :
    /\ t \in BatchTask => t[3] \in store
    /\ t \in SeedTask => /\ t[3] \in store \/ t[4] \in store
                         /\ Workbook(t[2]) => t[3] = t[4]

\* The frontier, and what an expansion goes on from, ...
Sound(seen, tasks) ==
  /\ IsInjective(seen) /\ Len(seen) <= MaxEntities
  /\ \A i \in DOMAIN seen : \E x \in Expander : <<"child", seen[i], x>> \in tasks

Extends(s, t) == Len(s) <= Len(t) /\ \A i \in 1..Len(s) : s[i] = t[i]

Ahead ==
  \A x \in Expander : expander[x].pc = "deciding" =>
    /\ expander[x].tries >= 1 /\ Sound(expander[x].seen, DOMAIN row)
    /\ expander[x].revision <= frontier.revision
    /\ expander[x].revision = frontier.revision => /\ Extends(frontier.seen, expander[x].seen)
                                                  /\ Extends(frontier.decisions, expander[x].decisions)

\* ... and where the tasks of an expansion are counted that was called once.
Counted ==
  \A t \in DOMAIN row : t \in ChildTask =>
    LET x == t[3] IN
    /\ expander[x].pc \notin {"off", "idle"} /\ expander[x].tries >= 1
    /\ expander[x].tries = 1 /\ expander[x].pc = "deciding" => t[2] \in ToSet(expander[x].seen)
    /\ expander[x].tries = 1 /\ expander[x].pc = "done" => t[2] \in ToSet(frontier.seen)

IInv == Typed /\ Reading /\ Held /\ Staging /\ Rowed /\ Sound(frontier.seen, DOMAIN row) /\ Ahead /\ Counted

-----------------------------------------------------------------------------
\* What workers do beside the intake.

Beside ==
  /\ UNCHANGED intakeOnly /\ DOMAIN row' = DOMAIN row /\ store \subseteq store'
  /\ stamp' \in [Content -> Producer \cup Worker \cup {None}]
  /\ \A c \in Content : stamp[c] # None => stamp'[c] = stamp[c]

LEMMA RowsStay ==
  ASSUME NEW w \in Worker, Typed
  PROVE  DOMAIN Left(w) = DOMAIN row /\ DOMAIN Released(w) = DOMAIN row /\ DOMAIN Swept = DOMAIN row
<1>1. DOMAIN Left(w) = DOMAIN row /\ DOMAIN Swept = DOMAIN row
  BY DEF Left, Swept
<1>2. DOMAIN Released(w) = DOMAIN row
  BY <1>1 DEF Released
<1> QED BY <1>1, <1>2

LEMMA WorkersBeside ==
  ASSUME NEW w \in Worker, Typed, Begin(w) \/ Step(w) \/ Crash(w)
  PROVE  Beside
<1> USE RowsStay DEF Beside, Typed, intakeOnly, intakeVars, ledger, artifacts
<1>r. ASSUME Raises(w) PROVE DOMAIN row' = DOMAIN row
  BY <1>r DEF Raises
<1>1. CASE Begin(w)
  BY <1>1 DEF Begin
<1>2. CASE Push(w)
  BY <1>2 DEF Push
<1>3. CASE Move(w)
  BY <1>3 DEF Move
<1>4. CASE Claim(w)
  <2>1. DOMAIN row' = DOMAIN row
    BY <1>4 DEF Claim
  <2> QED BY <1>4, <2>1 DEF Claim
<1>5. CASE CheckSource(w)
  BY <1>5, <1>r DEF CheckSource
<1>6. CASE Build(w)
  <2>1. DOMAIN row' = DOMAIN row
    BY <1>6, <1>r DEF Build
  <2>2. store \subseteq store' /\ \E c : stamp' = [stamp EXCEPT ![c] = IF @ = None THEN w ELSE @]
    BY <1>6 DEF Build
  <2>3. PICK c : stamp' = [stamp EXCEPT ![c] = IF @ = None THEN w ELSE @]
    BY <2>2
  <2>4. /\ stamp' \in [Content -> Producer \cup Worker \cup {None}]
        /\ \A d \in Content : stamp[d] # None => stamp'[d] = stamp[d]
    BY <2>3
  <2> QED BY <1>6, <2>1, <2>2, <2>4 DEF Build
<1>7. CASE Integrate(w)
  BY <1>7, <1>r DEF Integrate
<1>8. CASE Acknowledge(w)
  BY <1>8, <1>r DEF Acknowledge
<1>9. CASE BuildFails(w)
  BY <1>9, <1>r DEF BuildFails
<1>10. CASE Crash(w)
  BY <1>10 DEF Crash
<1> QED BY <1>1, <1>2, <1>3, <1>4, <1>5, <1>6, <1>7, <1>8, <1>9, <1>10 DEF Step

\* Every step is one of the intake, or beside it.
LEMMA Steps ==
  ASSUME Typed, [Next]_vars
  PROVE  Beside \/ Edit \/ (\E p \in Producer : Produce(p) \/ ProducerFails(p))
         \/ (\E x \in Expander : ReadFrontier(x) \/ Decide(x) \/ SaveFrontier(x) \/ ExpanderFails(x))
<1>1. CASE UNCHANGED intakeVars
  BY <1>1 DEF Beside, intakeOnly, intakeVars, ledger, artifacts, Typed
<1>2. CASE IntakeNext
  BY <1>2 DEF IntakeNext
<1>3. CASE \E w \in Worker : Begin(w) \/ Step(w) \/ Crash(w)
  BY <1>3, WorkersBeside
<1> QED BY <1>1, <1>2, <1>3 DEF Next, Finished, Lapse, vars

LEMMA InitTyped == DeliveryInit => Typed /\ Reading
<1> SUFFICES ASSUME DeliveryInit PROVE Typed /\ Reading
  OBVIOUS
<1>1. PICK agenda \in Agendas :
        /\ edits = IF "edit" \in agenda THEN 0 ELSE MaxEdits
        /\ producer = [p \in Producer |-> [pc |-> IF p \in agenda THEN "read" ELSE "off", entry |-> 1, data |-> None,
                                           version |-> 0, record |-> None, staged |-> <<>>]]
        /\ expander = [x \in Expander |-> [pc |-> IF x \in agenda THEN "idle" ELSE "off", next |-> 1, tries |-> 0,
                                           seen |-> <<>>, decisions |-> <<>>, revision |-> 0]]
  BY DEF DeliveryInit, Init
<1>2. producer \in [Producer -> Command] /\ expander \in [Expander -> Expansion]
  BY <1>1 DEF Command, Expansion
<1>3. Typed
  <2>1. DOMAIN row = {} /\ file \in [File -> Content] /\ frontier \in Checkpoint /\ edits \in Nat
    BY <1>1, IntakeAssumption DEF DeliveryInit, Init, Checkpoint
  <2>2. stamp \in [Content -> Producer \cup Worker \cup {None}]
    BY DEF DeliveryInit, Init
  <2> QED BY <1>2, <2>1, <2>2 DEF Typed
<1>4. Reading
  <2> SUFFICES ASSUME NEW p \in Producer
               PROVE  /\ producer[p].pc \in {"off", "read"} /\ producer[p].entry = 1 /\ producer[p].version = 0
                      /\ 1 <= Len(Jobs[p].inputs)
    BY <1>3 DEF Reading, Typed
  <2>1. Len(Jobs[p].inputs) >= 1
    BY IntakeAssumption
  <2> QED BY <1>1, <2>1
<1> QED BY <1>3, <1>4

LEMMA ReasonKnown ==
  ASSUME NEW x \in Expander, NEW c \in ToSet(Candidates[x])
  PROVE  /\ Reason(x, c) \in Verdict
         /\ Reason(x, c) = "included" => c.key \notin ToSet(expander[x].seen) /\ ~(Len(expander[x].seen) >= MaxEntities)
<1>1. c.outside # "included" /\ c.outside \in Verdict
  BY IntakeAssumption, Zenon DEF Verdict, Scope, Candidate
<1>2. "depth_limit" # "included" /\ "already_seen" # "included" /\ "entity_limit" # "included"
  OBVIOUS
<1>3. "depth_limit" \in Verdict /\ "already_seen" \in Verdict /\ "entity_limit" \in Verdict /\ "included" \in Verdict
  BY DEF Verdict
<1> QED BY <1>1, <1>2, <1>3, Zenon DEF Reason

-----------------------------------------------------------------------------
\* Types, and where a command reads.

LEMMA InputIsFile ==
  ASSUME NEW p \in Producer, Typed, Reading, producer[p].pc \in {"read", "stamp", "link", "parse", "check"}
  PROVE  Input(p) \in File /\ Input(p) \in ToSet(Jobs[p].inputs) /\ file[Input(p)] \in Content
<1>1. producer[p].entry \in 1..Len(Jobs[p].inputs) /\ Jobs[p].inputs \in Seq(File)
  BY IntakeAssumption DEF Typed, Reading, Command
<1> QED BY <1>1 DEF Input, ToSet, Typed

LEMMA CapturedTyped ==
  ASSUME NEW p \in Producer, Typed, Reading, producer[p].pc \in {"stamp", "link"},
         NEW time \in Producer \cup Worker \cup {None}
  PROVE  /\ Captured(p, time) \in Command
         /\ Captured(p, time).data = producer[p].data /\ Captured(p, time).version = producer[p].version
         /\ Captured(p, time).record = time
         /\ Kind(p) = "queue" =>
              /\ Captured(p, time).pc \in {"read", "enqueue"}
              /\ Captured(p, time).pc = "read" => Captured(p, time).entry <= Len(Jobs[p].inputs)
              /\ Captured(p, time).staged = Append(producer[p].staged, <<"construction", Input(p), producer[p].data>>)
         /\ Kind(p) # "queue" => /\ Captured(p, time).pc = IF Kind(p) = "csv" THEN "parse" ELSE "check"
                                /\ Captured(p, time).entry = producer[p].entry
                                /\ Captured(p, time).staged = producer[p].staged
<1>1. producer[p] \in Command /\ producer[p].data \in Content /\ Input(p) \in File
  BY InputIsFile DEF Typed, Reading
<1> DEFINE batch == <<"construction", Input(p), producer[p].data>>
<1>2. Append(producer[p].staged, batch) \in Seq(Submission)
  <2>1. batch \in Submission
    BY <1>1 DEF BatchTask, Submission
  <2> QED BY <1>1, <2>1 DEF Command
<1>3. CASE Kind(p) = "queue"
  <2> DEFINE more == producer[p].entry < Len(Jobs[p].inputs)
             entry == IF more THEN producer[p].entry + 1 ELSE producer[p].entry
             pc == IF more THEN "read" ELSE "enqueue"
             staged == Append(producer[p].staged, batch)
  <2>1. Captured(p, time) = [producer[p] EXCEPT !.record = time, !.staged = staged, !.entry = entry, !.pc = pc]
    BY <1>3 DEF Captured
  <2>2. entry \in Nat \ {0} /\ pc \in {"read", "enqueue"} /\ staged \in Seq(Submission)
    BY <1>1, <1>2 DEF Command
  <2>3. pc = "read" => entry <= Len(Jobs[p].inputs)
    BY <1>1, IntakeAssumption DEF Command
  <2>4. staged = Append(producer[p].staged, <<"construction", Input(p), producer[p].data>>)
    OBVIOUS
  <2> HIDE DEF entry, pc, staged
  <2> QED BY <1>1, <1>3, <2>1, <2>2, <2>3, <2>4 DEF Command
<1>4. CASE Kind(p) # "queue"
  BY <1>1, <1>4 DEF Captured, Command
<1> QED BY <1>3, <1>4

LEMMA TypedKept == ASSUME IInv, [Next]_vars PROVE Typed'
<1>0. Typed /\ Reading /\ Held /\ Staging
  BY DEF IInv
<1>1. CASE Beside
  BY <1>0, <1>1 DEF Beside, intakeOnly, Typed
<1>2. CASE Edit
  BY <1>0, <1>2 DEF Edit, artifacts, ledger, Typed
<1>3. ASSUME NEW p \in Producer, Produce(p) \/ ProducerFails(p) PROVE Typed'
  <2>p. producer[p] \in Command
    BY <1>0 DEF Typed
  <2>q. ASSUME NEW locals \in Command, Becomes(p, locals) PROVE producer' \in [Producer -> Command]
    BY <1>0, <2>q DEF Becomes, Typed
  <2>1. CASE Read(p)
    <3>1. Input(p) \in File /\ file[Input(p)] \in Content /\ edits \in Nat
      BY <1>0, <2>1, InputIsFile DEF Read, At, Typed
    <3>2. producer' \in [Producer -> Command]
      BY <3>1, <2>1, <2>p, <2>q DEF Read, Command
    <3> QED BY <1>0, <3>2, <2>1 DEF Read, Outside, ledger, Typed
  <2>2. CASE Stamp(p)
    <3>1. producer[p].data \in Content /\ stamp[producer[p].data] \in Producer \cup Worker \cup {None}
      BY <1>0, <2>2 DEF Stamp, At, Reading, Typed
    <3>2. Captured(p, stamp[producer[p].data]) \in Command
      BY <1>0, <2>2, <3>1, CapturedTyped DEF Stamp, At
    <3>3. [producer[p] EXCEPT !.pc = "link"] \in Command
      BY <2>p DEF Command
    <3>4. producer' \in [Producer -> Command]
      BY <2>2, <3>2, <3>3, <2>q DEF Stamp
    <3> QED BY <1>0, <2>2, <3>4 DEF Stamp, Outside, artifacts, ledger, Typed
  <2>3. CASE Link(p)
    <3>1. stamp' \in [Content -> Producer \cup Worker \cup {None}] /\ producer[p].data \in Content
      BY <1>0, <2>3 DEF Link, At, Reading, Typed
    <3>2. Captured(p, stamp'[producer[p].data]) \in Command
      BY <1>0, <2>3, <3>1, CapturedTyped DEF Link, At
    <3>3. producer' \in [Producer -> Command]
      BY <2>3, <3>2, <2>q DEF Link
    <3> QED BY <1>0, <2>3, <3>1, <3>3 DEF Link, Outside, ledger, Typed
  <2>4. CASE Parse(p)
    <3>1. Input(p) \in File /\ file[Input(p)] \in Content /\ producer[p].data \in Content
      BY <1>0, <2>4, InputIsFile DEF Parse, At, Reading
    <3> DEFINE seeds == <<<<"researcher", Input(p), producer[p].data, file[Input(p)]>>>>
    <3>2. seeds \in Seq(Submission)
      BY <3>1 DEF SeedTask, Submission
    <3>3. \/ Becomes(p, [producer[p] EXCEPT !.pc = "stamp", !.data = file[Input(p)], !.staged = seeds])
          \/ Becomes(p, [producer[p] EXCEPT !.pc = "enqueue", !.staged = seeds])
      BY <2>4 DEF Parse
    <3> HIDE DEF seeds
    <3>4. producer' \in [Producer -> Command]
      BY <3>1, <3>2, <3>3, <2>p, <2>q DEF Command
    <3> QED BY <1>0, <2>4, <3>4 DEF Parse, Outside, ledger, Typed
  <2>5. CASE Check(p)
    <3>1. producer' \in [Producer -> Command]
      BY <2>5, <2>p, <2>q DEF Check, Command
    <3> QED BY <1>0, <2>5, <3>1 DEF Check, Outside, artifacts, ledger, Typed
  <2>6. CASE EnqueueNext(p)
    <3>1. producer[p].staged \in Seq(Submission) /\ producer[p].staged # <<>>
      BY <1>0, <2>p, <2>6 DEF EnqueueNext, At, Staging, Command
    <3>2. Head(producer[p].staged) \in Submission /\ Tail(producer[p].staged) \in Seq(Submission)
      BY <3>1
    <3>3. DOMAIN row' \subseteq Submission \cup ChildTask
      BY <1>0, <2>6, <3>2 DEF EnqueueNext, Enqueue, Typed
    <3>4. producer' \in [Producer -> Command]
      BY <2>6, <3>2, <2>p, <2>q DEF EnqueueNext, Command
    <3> QED BY <1>0, <2>6, <3>3, <3>4 DEF EnqueueNext, Outside, artifacts, Typed
  <2>7. CASE ProducerFails(p)
    <3>1. producer' \in [Producer -> Command]
      BY <2>7, <2>p, <2>q DEF ProducerFails, Command
    <3> QED BY <1>0, <2>7, <3>1 DEF ProducerFails, Outside, artifacts, ledger, Typed
  <2> QED BY <1>3, <2>1, <2>2, <2>3, <2>4, <2>5, <2>6, <2>7 DEF Produce
<1>4. ASSUME NEW x \in Expander, ReadFrontier(x) \/ Decide(x) \/ SaveFrontier(x) \/ ExpanderFails(x) PROVE Typed'
  <2>x. expander[x] \in Expansion
    BY <1>0 DEF Typed
  <2>q. ASSUME NEW locals \in Expansion, Decides(x, locals) PROVE expander' \in [Expander -> Expansion]
    BY <1>0, <2>q DEF Decides, Typed
  <2>f. Fails(x) => expander' \in [Expander -> Expansion]
    BY <2>x, <2>q DEF Fails, Expansion
  <2>1. CASE ReadFrontier(x)
    <3>1. expander' \in [Expander -> Expansion]
      <4>1. frontier.seen \in Seq(Key) /\ frontier.decisions \in Seq(Decision) /\ frontier.revision \in Nat
        BY <1>0 DEF Typed, Checkpoint
      <4>2. expander[x].tries + 1 \in Nat /\ 1 \in Nat \ {0}
        BY <2>x DEF Expansion
      <4>3. [pc |-> "deciding", next |-> 1, tries |-> expander[x].tries + 1, seen |-> frontier.seen,
             decisions |-> frontier.decisions, revision |-> frontier.revision] \in Expansion
        BY <4>1, <4>2 DEF Expansion
      <4> QED BY <2>1, <2>q, <4>3 DEF ReadFrontier
    <3> QED BY <1>0, <2>1, <3>1 DEF ReadFrontier, Apart, artifacts, ledger, Typed
  <2>2. CASE Decide(x)
    <3> DEFINE c == Candidates[x][expander[x].next]
               decided == [expander[x] EXCEPT !.next = @ + 1, !.decisions = Append(@, <<c.key, Reason(x, c)>>)]
    <3>1. c \in ToSet(Candidates[x])
      BY <2>2, <2>x, IntakeAssumption DEF Decide, Expansion, ToSet
    <3>2. c.key \in Key /\ Reason(x, c) \in Verdict
      BY <3>1, ReasonKnown DEF Key, Candidate
    <3> DEFINE decisions == Append(expander[x].decisions, <<c.key, Reason(x, c)>>)
               seen == Append(expander[x].seen, c.key)
    <3>3. decided \in Expansion /\ [decided EXCEPT !.seen = seen] \in Expansion
      <4>1. <<c.key, Reason(x, c)>> \in Decision
        BY <3>2 DEF Decision
      <4>2. decisions \in Seq(Decision) /\ seen \in Seq(Key)
        BY <2>x, <3>2, <4>1 DEF Expansion
      <4> DEFINE next == expander[x].next + 1
      <4>3. next \in Nat \ {0}
        BY <2>x DEF Expansion
      <4>4. decided = [expander[x] EXCEPT !.next = next, !.decisions = decisions]
        OBVIOUS
      <4> HIDE DEF decided, decisions, seen, next
      <4>5. decided \in Expansion
        BY <2>x, <4>2, <4>3, <4>4 DEF Expansion
      <4> QED BY <4>2, <4>5 DEF Expansion
    <3>4. [decided EXCEPT !.seen = Append(@, c.key)] = [decided EXCEPT !.seen = seen]
      BY <2>x DEF Expansion
    <3>5. expander' \in [Expander -> Expansion]
      BY <2>2, <2>q, <2>f, <3>3, <3>4 DEF Decide
    <3>6. Child(x, c) \in ChildTask
      BY <3>2 DEF Child, ChildTask
    <3>7. DOMAIN row' \subseteq Submission \cup ChildTask
      BY <1>0, <2>2, <3>6 DEF Decide, Enqueue, ledger, Typed
    <3> QED BY <1>0, <2>2, <3>5, <3>7 DEF Decide, Apart, artifacts, Typed
  <2>3. CASE SaveFrontier(x)
    <3>1. expander' \in [Expander -> Expansion]
      BY <2>3, <2>x, <2>q, <2>f DEF SaveFrontier, Expansion
    <3>2. frontier' \in Checkpoint
      BY <1>0, <2>3, <2>x DEF SaveFrontier, Expansion, Checkpoint, Typed
    <3> QED BY <1>0, <2>3, <3>1, <3>2 DEF SaveFrontier, Apart, artifacts, ledger, Typed
  <2>4. CASE ExpanderFails(x)
    BY <1>0, <2>4, <2>f DEF ExpanderFails, Apart, artifacts, ledger, Typed
  <2> QED BY <1>4, <2>1, <2>2, <2>3, <2>4
<1> QED BY <1>0, <1>1, <1>2, <1>3, <1>4, Steps

LEMMA Others ==
  ASSUME Typed, NEW p \in Producer, Produce(p) \/ ProducerFails(p)
  PROVE  /\ \A q \in Producer : q # p => producer'[q] = producer[q]
         /\ UNCHANGED <<file, edits, expander, frontier>> /\ store \subseteq store'
         /\ \A c \in Content : stamp[c] # None => stamp'[c] = stamp[c]
<1> USE DEF Outside, Becomes, Typed, artifacts
<1>1. CASE Read(p)
  BY <1>1 DEF Read
<1>2. CASE Stamp(p)
  BY <1>2 DEF Stamp
<1>3. CASE Link(p)
  BY <1>3 DEF Link
<1>4. CASE Parse(p)
  BY <1>4 DEF Parse
<1>5. CASE Check(p)
  BY <1>5 DEF Check
<1>6. CASE EnqueueNext(p)
  BY <1>6 DEF EnqueueNext
<1>7. CASE ProducerFails(p)
  BY <1>7 DEF ProducerFails
<1> QED BY <1>1, <1>2, <1>3, <1>4, <1>5, <1>6, <1>7 DEF Produce

LEMMA Parsed ==
  ASSUME NEW p \in Producer, Typed, Parse(p)
  PROVE  LET l == producer[p]
             new == producer'[p]
         IN  /\ l.pc = "parse" /\ new.entry = l.entry /\ new.version = l.version /\ new.record = l.record
             /\ new.staged = <<<<"researcher", Input(p), l.data, file[Input(p)]>>>>
             /\ UNCHANGED <<stamp, ledger>>
             /\ Kind(p) = "xlsx" => /\ store' = store \cup {file[Input(p)]} /\ new.pc = "stamp"
                                   /\ new.data = file[Input(p)]
             /\ Kind(p) # "xlsx" => /\ store' = store /\ new.pc = "enqueue" /\ new.data = l.data
<1> DEFINE seeds == <<<<"researcher", Input(p), producer[p].data, file[Input(p)]>>>>
           content == file[Input(p)]
<1>1. producer[p] \in Command /\ producer[p].pc = "parse" /\ UNCHANGED <<stamp, ledger>>
  BY DEF Parse, At, Typed
<1>2. CASE Kind(p) = "xlsx"
  <2>1. /\ producer'[p] = [producer[p] EXCEPT !.pc = "stamp", !.data = content, !.staged = seeds]
        /\ store' = store \cup {content}
    BY <1>2 DEF Parse, Becomes, Typed
  <2>2. /\ producer'[p].pc = "stamp" /\ producer'[p].data = content /\ producer'[p].staged = seeds
        /\ producer'[p].entry = producer[p].entry /\ producer'[p].version = producer[p].version
        /\ producer'[p].record = producer[p].record
    <3> HIDE DEF seeds, content
    <3> QED BY <1>1, <2>1 DEF Command
  <2> QED BY <1>1, <1>2, <2>1, <2>2
<1>3. CASE Kind(p) # "xlsx"
  <2>1. producer'[p] = [producer[p] EXCEPT !.pc = "enqueue", !.staged = seeds] /\ store' = store
    BY <1>3 DEF Parse, Becomes, Typed
  <2>2. /\ producer'[p].pc = "enqueue" /\ producer'[p].data = producer[p].data /\ producer'[p].staged = seeds
        /\ producer'[p].entry = producer[p].entry /\ producer'[p].version = producer[p].version
        /\ producer'[p].record = producer[p].record
    <3> HIDE DEF seeds
    <3> QED BY <1>1, <2>1 DEF Command
  <2> QED BY <1>1, <1>3, <2>1, <2>2
<1> QED BY <1>2, <1>3

LEMMA ReadingKept == ASSUME IInv, [Next]_vars PROVE Reading'
<1>0. Typed /\ Reading
  BY DEF IInv
<1>1. CASE UNCHANGED <<file, edits, producer>>
  BY <1>0, <1>1 DEF Reading, Input
<1>2. CASE Edit
  <2>1. edits' = edits + 1 /\ UNCHANGED producer /\ edits \in Nat
    BY <1>0, <1>2 DEF Edit, Typed
  <2>2. \A p \in Producer : producer[p].version \in Nat
    BY <1>0 DEF Typed, Command
  <2> QED BY <1>0, <2>1, <2>2 DEF Reading
<1>3. ASSUME NEW p \in Producer, Produce(p) \/ ProducerFails(p) PROVE Reading'
  <2> DEFINE l == producer[p]
             new == producer'[p]
  <2>0. l \in Command /\ UNCHANGED <<file, edits>> /\ Jobs[p].inputs \in Seq(File) /\ Kind(p) \in {"queue", "csv", "xlsx"}
    BY <1>0, <1>3, Others, IntakeAssumption DEF Typed, Kind
  <2> DEFINE Goal ==
               /\ new.pc \in {"read", "stamp", "link", "parse", "check"} => new.entry <= Len(Jobs[p].inputs)
               /\ new.pc \in {"stamp", "link", "parse", "check"} => new.data \in Content
               /\ new.version <= edits
               /\ new.pc = "parse" /\ Kind(p) = "xlsx" /\ new.version = edits => new.data = file[Jobs[p].inputs[new.entry]]
               /\ new.pc = "parse" => Kind(p) # "queue"
               /\ new.pc = "check" => Kind(p) = "xlsx"
  <2> SUFFICES Goal
    BY <1>0, <1>3, <2>0, Others DEF Reading, Input
  <2>1. CASE Read(p)
    <3>1. file[Input(p)] \in Content /\ l.pc = "read" /\ l.entry <= Len(Jobs[p].inputs)
      BY <1>0, <2>1, InputIsFile DEF Read, At, Reading
    <3>2. new = [l EXCEPT !.data = file[Input(p)], !.version = edits, !.record = None,
                          !.pc = IF Kind(p) = "xlsx" THEN "parse" ELSE "stamp"]
      BY <1>0, <2>1 DEF Read, Becomes, Typed
    <3> QED BY <1>0, <2>0, <3>1, <3>2 DEF Input, Command, Typed
  <2>c. ASSUME NEW time \in Producer \cup Worker \cup {None}, l.pc \in {"stamp", "link"}, new = Captured(p, time) PROVE Goal
    <3>1. l.entry <= Len(Jobs[p].inputs) /\ l.data \in Content /\ l.version <= edits
      BY <1>0, <2>c DEF Reading
    <3>2. new.data = l.data /\ new.version = l.version
      BY <1>0, <2>c, CapturedTyped
    <3>3. CASE Kind(p) = "queue"
      <4>1. new.pc \in {"read", "enqueue"} /\ (new.pc = "read" => new.entry <= Len(Jobs[p].inputs))
        BY <1>0, <2>c, <3>3, CapturedTyped
      <4> HIDE DEF new
      <4> QED BY <3>1, <3>2, <4>1
    <3>4. CASE Kind(p) # "queue"
      <4>1. new.entry = l.entry /\ new.pc = IF Kind(p) = "csv" THEN "parse" ELSE "check"
        BY <1>0, <2>c, <3>4, CapturedTyped
      <4> HIDE DEF new
      <4> QED BY <2>0, <3>1, <3>2, <3>4, <4>1
    <3> QED BY <3>3, <3>4
  <2>2. CASE Stamp(p)
    <3>1. l.pc = "stamp" /\ stamp[l.data] \in Producer \cup Worker \cup {None}
      BY <1>0, <2>2 DEF Stamp, At, Reading, Typed
    <3>2. CASE new = [l EXCEPT !.pc = "link"]
      BY <1>0, <2>0, <3>1, <3>2 DEF Reading, Command
    <3> QED BY <1>0, <2>2, <2>c, <3>1, <3>2 DEF Stamp, Becomes, Typed
  <2>3. CASE Link(p)
    <3>1. l.pc = "link" /\ stamp'[l.data] \in Producer \cup Worker \cup {None}
      BY <1>0, <2>3 DEF Link, At, Reading, Typed
    <3> QED BY <1>0, <2>3, <2>c, <3>1 DEF Link, Becomes, Typed
  <2>4. CASE Parse(p)
    <3>1. l.pc = "parse" /\ file[Input(p)] \in Content /\ l.entry <= Len(Jobs[p].inputs) /\ l.version <= edits
          /\ l.data \in Content
      BY <1>0, <2>4, InputIsFile DEF Parse, At, Reading
    <3>2. new.entry = l.entry /\ new.version = l.version /\ new.pc \in {"stamp", "enqueue"} /\ new.data \in Content
      BY <1>0, <2>4, <3>1, Parsed
    <3> HIDE DEF new
    <3> QED BY <3>1, <3>2
  <2>5. CASE Check(p)
    <3>1. l.version <= edits /\ new.pc \in {"enqueue", "failed"} /\ new.version = l.version
      BY <1>0, <2>0, <2>5 DEF Check, Becomes, Reading, Typed, Command
    <3> HIDE DEF new
    <3> QED BY <3>1
  <2>6. CASE EnqueueNext(p)
    <3>1. l.version <= edits /\ new.pc \in {"enqueue", "done"} /\ new.version = l.version
      BY <1>0, <2>0, <2>6 DEF EnqueueNext, Becomes, Reading, Typed, Command
    <3> HIDE DEF new
    <3> QED BY <3>1
  <2>7. CASE ProducerFails(p)
    <3>1. l.version <= edits /\ new.pc = "failed" /\ new.version = l.version
      BY <1>0, <2>0, <2>7 DEF ProducerFails, Becomes, Reading, Typed, Command
    <3> HIDE DEF new
    <3> QED BY <3>1
  <2> QED BY <1>3, <2>1, <2>2, <2>3, <2>4, <2>5, <2>6, <2>7 DEF Produce
<1>4. (\E x \in Expander : ReadFrontier(x) \/ Decide(x) \/ SaveFrontier(x) \/ ExpanderFails(x)) => UNCHANGED <<file, edits, producer>>
  BY DEF ReadFrontier, Decide, SaveFrontier, ExpanderFails, Apart
<1> QED BY <1>0, <1>1, <1>2, <1>3, <1>4, Steps DEF Beside, intakeOnly

-----------------------------------------------------------------------------
\* Captures.

LEMMA Ends ==
  ASSUME NEW p \in Producer, Typed, Check(p) \/ EnqueueNext(p) \/ ProducerFails(p)
  PROVE  /\ producer'[p].pc \in {"enqueue", "done", "failed"}
         /\ producer'[p].data = producer[p].data /\ producer'[p].record = producer[p].record
         /\ UNCHANGED <<store, stamp>>
<1>0. producer[p] \in Command
  BY DEF Typed
<1>1. CASE Check(p)
  BY <1>0, <1>1 DEF Check, Becomes, artifacts, Typed, Command
<1>2. CASE EnqueueNext(p)
  BY <1>0, <1>2 DEF EnqueueNext, Becomes, artifacts, Typed, Command
<1>3. CASE ProducerFails(p)
  BY <1>0, <1>3 DEF ProducerFails, Becomes, artifacts, Typed, Command
<1> QED BY <1>1, <1>2, <1>3

LEMMA HeldKept == ASSUME IInv, [Next]_vars PROVE Held'
<1>0. Typed /\ Reading /\ Held
  BY DEF IInv
<1> DEFINE StampsStay == store \subseteq store' /\ \A c \in Content : stamp[c] # None => stamp'[c] = stamp[c]
<1>1. CASE UNCHANGED producer /\ StampsStay
  BY <1>0, <1>1 DEF Held
<1>2. Edit => UNCHANGED producer /\ StampsStay
  BY DEF Edit, artifacts
<1>3. ASSUME NEW p \in Producer, Produce(p) \/ ProducerFails(p) PROVE Held'
  <2> DEFINE l == producer[p]
             new == producer'[p]
             Goal == /\ new.pc \in {"stamp", "link"} \/ (new.pc = "parse" /\ Kind(p) = "csv") => new.data \in store'
                     /\ new.pc = "parse" /\ Kind(p) = "xlsx" => new.record = None
                     /\ new.record # None => /\ new.data \in Content /\ new.data \in store'
                                             /\ new.record = stamp'[new.data]
  <2>0. l \in Command /\ Kind(p) \in {"queue", "csv", "xlsx"}
    BY <1>0, IntakeAssumption DEF Typed, Kind
  <2> SUFFICES Goal
    BY <1>0, <1>3, Others DEF Held
  <2>1. CASE Read(p)
    <3>1. /\ new.data = file[Input(p)] /\ new.record = None /\ new.pc = IF Kind(p) = "xlsx" THEN "parse" ELSE "stamp"
          /\ Kind(p) # "xlsx" => store' = store \cup {file[Input(p)]}
      BY <1>0, <2>0, <2>1 DEF Read, Becomes, Typed, Command
    <3> HIDE DEF new
    <3> QED BY <3>1
  <2>c. ASSUME NEW time \in Producer \cup Worker \cup {None}, l.pc \in {"stamp", "link"}, new = Captured(p, time),
               time # None => time = stamp'[l.data], store' = store
        PROVE Goal
    <3>1. l.data \in Content /\ l.data \in store /\ new.data = l.data /\ new.record = time
      BY <1>0, <2>c, CapturedTyped DEF Reading, Held
    <3>2. ~(new.pc = "parse" /\ Kind(p) = "xlsx")
      BY <1>0, <2>c, CapturedTyped
    <3> HIDE DEF new
    <3> QED BY <2>c, <3>1, <3>2
  <2>2. CASE Stamp(p)
    <3>1. l.pc = "stamp" /\ stamp[l.data] \in Producer \cup Worker \cup {None} /\ UNCHANGED <<store, stamp>>
      BY <1>0, <2>2 DEF Stamp, At, Reading, Typed, artifacts
    <3>2. CASE new = [l EXCEPT !.pc = "link"]
      <4>1. new.pc = "link" /\ new.data = l.data /\ new.record = l.record
        BY <2>0, <3>2 DEF Command
      <4> HIDE DEF new
      <4> QED BY <1>0, <3>1, <4>1 DEF Held
    <3> QED BY <1>0, <2>2, <2>c, <3>1, <3>2 DEF Stamp, Becomes, Typed
  <2>3. CASE Link(p)
    <3>1. l.pc = "link" /\ stamp'[l.data] \in Producer \cup Worker \cup {None} /\ UNCHANGED store
      BY <1>0, <2>3 DEF Link, At, Reading, Typed
    <3> QED BY <1>0, <2>3, <2>c, <3>1 DEF Link, Becomes, Typed
  <2>4. CASE Parse(p)
    <3>1. l.pc = "parse" /\ Kind(p) # "queue" /\ file[Input(p)] \in Content /\ stamp' = stamp
      BY <1>0, <2>4, Parsed, InputIsFile DEF Reading
    <3>2. CASE Kind(p) = "xlsx"
      <4>1. l.record = None
        BY <1>0, <3>1, <3>2 DEF Held
      <4>2. new.record = None /\ new.data \in store' /\ new.pc = "stamp"
        BY <1>0, <2>4, <3>2, <4>1, Parsed
      <4> HIDE DEF new
      <4> QED BY <4>2
    <3>3. CASE Kind(p) = "csv"
      <4>1. l.record # None => l.data \in Content /\ l.data \in store /\ l.record = stamp[l.data]
        BY <1>0 DEF Held
      <4>2. new.record = l.record /\ new.data = l.data /\ new.pc = "enqueue" /\ store' = store
        BY <1>0, <2>4, <3>3, Parsed
      <4> HIDE DEF new
      <4> QED BY <3>1, <4>1, <4>2
    <3> QED BY <2>0, <3>1, <3>2, <3>3
  <2>5. CASE Check(p) \/ EnqueueNext(p) \/ ProducerFails(p)
    <3>1. l.record # None => l.data \in Content /\ l.data \in store /\ l.record = stamp[l.data]
      BY <1>0 DEF Held
    <3>2. /\ new.pc \in {"enqueue", "done", "failed"} /\ new.data = l.data /\ new.record = l.record
          /\ UNCHANGED <<store, stamp>>
      BY <1>0, <2>5, Ends
    <3> HIDE DEF new
    <3> QED BY <3>1, <3>2
  <2> QED BY <1>3, <2>1, <2>2, <2>3, <2>4, <2>5 DEF Produce
<1>4. (\E x \in Expander : ReadFrontier(x) \/ Decide(x) \/ SaveFrontier(x) \/ ExpanderFails(x))
        => UNCHANGED producer /\ StampsStay
  BY DEF ReadFrontier, Decide, SaveFrontier, ExpanderFails, Apart, artifacts
<1>5. Beside => UNCHANGED producer /\ StampsStay
  BY DEF Beside, intakeOnly
<1> QED BY <1>0, <1>1, <1>2, <1>3, <1>4, <1>5, Steps

-----------------------------------------------------------------------------
\* Tasks.

LEMMA StagedStays ==
  ASSUME NEW p \in Producer, NEW ts, Staged(p, ts, store), store \subseteq store'
  PROVE  Staged(p, ts, store')
BY DEF Staged

LEMMA StagingKept == ASSUME IInv, [Next]_vars PROVE Staging'
<1>0. Typed /\ Reading /\ Held /\ Staging
  BY DEF IInv
<1>1. CASE UNCHANGED <<producer, edits>> /\ store \subseteq store'
  BY <1>0, <1>1 DEF Staging, Staged, Kind
<1>2. CASE Edit
  <2>1. edits' = edits + 1 /\ UNCHANGED <<producer, store>> /\ edits \in Nat
    BY <1>0, <1>2 DEF Edit, artifacts, Typed
  <2>2. \A p \in Producer : producer[p].version \in Nat /\ producer[p].version <= edits
    BY <1>0 DEF Typed, Command, Reading
  <2>3. \A p \in Producer : producer'[p].version # edits'
    BY <2>1, <2>2
  <2> QED BY <1>0, <2>1, <2>3 DEF Staging, Staged, Kind
<1>3. ASSUME NEW p \in Producer, Produce(p) \/ ProducerFails(p) PROVE Staging'
  <2> DEFINE l == producer[p]
             new == producer'[p]
             ts == new.staged
             Goal == /\ Staged(p, ts, store')
                     /\ new.pc = "enqueue" => ts # <<>>
                     /\ new.pc = "enqueue" /\ Kind(p) = "xlsx" => SeedsNamed(ts)
                     /\ new.pc \in {"stamp", "link", "check"} /\ Kind(p) = "xlsx" =>
                          ts # <<>> /\ (new.version = edits => SeedsNamed(ts))
  <2>0. /\ l \in Command /\ Kind(p) \in {"queue", "csv", "xlsx"} /\ store \subseteq store' /\ UNCHANGED edits
        /\ Staged(p, l.staged, store) /\ Staged(p, l.staged, store')
    BY <1>0, <1>3, Others, StagedStays, IntakeAssumption DEF Typed, Kind, Staging
  <2> SUFFICES Goal
    <3>1. \A q \in Producer : q # p => producer'[q] = producer[q] /\ Staged(q, producer[q].staged, store')
      BY <1>0, <1>3, <2>0, Others, StagedStays DEF Staging
    <3> QED BY <1>0, <2>0, <3>1 DEF Staging, Kind
  <2>1. CASE Read(p)
    <3>1. new.staged = l.staged /\ new.pc = IF Kind(p) = "xlsx" THEN "parse" ELSE "stamp"
      BY <1>0, <2>0, <2>1 DEF Read, Becomes, Typed, Command
    <3> HIDE DEF new
    <3> QED BY <2>0, <3>1
  <2>c. ASSUME NEW time \in Producer \cup Worker \cup {None}, l.pc \in {"stamp", "link"}, new = Captured(p, time) PROVE Goal
    <3>1. l.data \in Content /\ l.data \in store /\ Input(p) \in File
      BY <1>0, <2>c, InputIsFile DEF Reading, Held
    <3>2. CASE Kind(p) = "queue"
      <4> DEFINE batch == <<"construction", Input(p), l.data>>
      <4>1. ts = Append(l.staged, batch) /\ new.pc \in {"read", "enqueue"} /\ l.staged \in Seq(Submission)
        BY <1>0, <2>0, <2>c, <3>2, CapturedTyped DEF Command
      <4>2. batch \in BatchTask /\ batch[3] \in store' /\ batch \in Submission
        BY <2>0, <3>1 DEF BatchTask, Submission
      <4> HIDE DEF batch
      <4>3. Staged(p, Append(l.staged, batch), store')
        BY <2>0, <3>2, <4>1, <4>2 DEF Staged, Kind
      <4>4. Append(l.staged, batch) # <<>>
        BY <4>1, <4>2
      <4> HIDE DEF new
      <4> QED BY <3>2, <4>1, <4>3, <4>4
    <3>3. CASE Kind(p) # "queue"
      <4>1. ts = l.staged /\ new.version = l.version /\ new.pc = IF Kind(p) = "csv" THEN "parse" ELSE "check"
        BY <1>0, <2>c, <3>3, CapturedTyped
      <4>2. Kind(p) = "xlsx" => l.staged # <<>> /\ (l.version = edits => SeedsNamed(l.staged))
        BY <1>0, <2>c DEF Staging
      <4> HIDE DEF new
      <4> QED BY <2>0, <4>1, <4>2
    <3> QED BY <3>2, <3>3
  <2>2. CASE Stamp(p)
    <3>1. l.pc = "stamp" /\ stamp[l.data] \in Producer \cup Worker \cup {None}
      BY <1>0, <2>2 DEF Stamp, At, Reading, Typed
    <3>2. CASE new = [l EXCEPT !.pc = "link"]
      <4>1. new.pc = "link" /\ ts = l.staged /\ new.version = l.version
        BY <2>0, <3>2 DEF Command
      <4> HIDE DEF new
      <4> QED BY <1>0, <2>0, <3>1, <4>1 DEF Staging
    <3> QED BY <1>0, <2>2, <2>c, <3>1, <3>2 DEF Stamp, Becomes, Typed
  <2>3. CASE Link(p)
    <3>1. l.pc = "link" /\ stamp'[l.data] \in Producer \cup Worker \cup {None}
      BY <1>0, <2>3 DEF Link, At, Reading, Typed
    <3> QED BY <1>0, <2>3, <2>c, <3>1 DEF Link, Becomes, Typed
  <2>4. CASE Parse(p)
    <3> DEFINE content == file[Input(p)]
               seed == <<"researcher", Input(p), l.data, content>>
    <3>1. /\ l.pc = "parse" /\ Kind(p) # "queue" /\ content \in Content /\ l.data \in Content
          /\ Input(p) \in File /\ Input(p) \in ToSet(Jobs[p].inputs)
      BY <1>0, <2>4, Parsed, InputIsFile DEF Reading
    <3>2. ts = <<seed>> /\ new.version = l.version
      BY <1>0, <2>4, Parsed
    <3>3. seed \in SeedTask /\ seed[2] \in ToSet(Jobs[p].inputs) /\ seed[3] = l.data /\ seed[4] = content
      BY <3>1 DEF SeedTask
    <3> HIDE DEF seed, content
    <3>4. CASE Kind(p) = "xlsx"
      <4>1. new.pc = "stamp" /\ content \in store'
        BY <1>0, <2>4, <3>4, Parsed DEF content
      <4>2. l.version = edits => l.data = content
        BY <1>0, <3>1, <3>4 DEF Reading, content
      <4> HIDE DEF new
      <4> QED BY <3>2, <3>3, <3>4, <4>1, <4>2 DEF Staged, SeedsNamed, Kind
    <3>5. CASE Kind(p) = "csv"
      <4>1. new.pc = "enqueue" /\ l.data \in store'
        BY <1>0, <2>0, <2>4, <3>1, <3>5, Parsed DEF Held
      <4> HIDE DEF new
      <4> QED BY <3>2, <3>3, <3>5, <4>1 DEF Staged, Kind
    <3> QED BY <2>0, <3>1, <3>4, <3>5
  <2>5. CASE Check(p)
    <3>1. /\ l.pc = "check" /\ ts = l.staged /\ new.pc \in {"enqueue", "failed"}
          /\ new.pc = "enqueue" => l.version = edits
      BY <1>0, <2>0, <2>5 DEF Check, At, Unchanged, Becomes, Typed, Command
    <3>2. Kind(p) = "xlsx" /\ l.staged # <<>> /\ (l.version = edits => SeedsNamed(l.staged))
      BY <1>0, <3>1 DEF Reading, Staging
    <3> HIDE DEF new
    <3> QED BY <2>0, <3>1, <3>2
  <2>6. CASE EnqueueNext(p)
    <3>1. /\ l.pc = "enqueue" /\ l.staged \in Seq(Submission) /\ l.staged # <<>>
          /\ Kind(p) = "xlsx" => SeedsNamed(l.staged)
      BY <1>0, <2>0, <2>6 DEF EnqueueNext, At, Staging, Command
    <3>2. ts = Tail(l.staged) /\ new.pc = IF Len(l.staged) = 1 THEN "done" ELSE "enqueue"
      BY <1>0, <2>0, <2>6 DEF EnqueueNext, Becomes, Typed, Command
    <3>3. \A i \in DOMAIN Tail(l.staged) : i + 1 \in DOMAIN l.staged /\ Tail(l.staged)[i] = l.staged[i + 1]
      BY <3>1
    <3>4. Len(l.staged) # 1 => Tail(l.staged) # <<>>
      <4>1. Len(l.staged) \in Nat /\ Len(l.staged) # 0 /\ Len(Tail(l.staged)) = Len(l.staged) - 1
        BY <3>1
      <4>2. Len(l.staged) # 1 => Len(Tail(l.staged)) # 0
        BY <4>1
      <4>3. Len(<<>>) = 0
        OBVIOUS
      <4> QED BY <4>2, <4>3, Zenon
    <3>5. Staged(p, Tail(l.staged), store')
      BY <2>0, <3>3 DEF Staged, Kind
    <3>6. Kind(p) = "xlsx" => SeedsNamed(Tail(l.staged))
      BY <3>1, <3>3 DEF SeedsNamed
    <3> HIDE DEF new
    <3> QED BY <3>2, <3>4, <3>5, <3>6
  <2>7. CASE ProducerFails(p)
    <3>1. ts = l.staged /\ new.pc = "failed"
      BY <1>0, <2>0, <2>7 DEF ProducerFails, Becomes, Typed, Command
    <3> HIDE DEF new
    <3> QED BY <2>0, <3>1
  <2> QED BY <1>3, <2>1, <2>2, <2>3, <2>4, <2>5, <2>6, <2>7 DEF Produce
<1>4. (\E x \in Expander : ReadFrontier(x) \/ Decide(x) \/ SaveFrontier(x) \/ ExpanderFails(x))
        => UNCHANGED <<producer, edits, store>>
  BY DEF ReadFrontier, Decide, SaveFrontier, ExpanderFails, Apart, artifacts
<1>5. Beside => UNCHANGED <<producer, edits>> /\ store \subseteq store'
  BY DEF Beside, intakeOnly
<1> QED BY <1>0, <1>1, <1>2, <1>3, <1>4, <1>5, Steps

LEMMA RowedKept == ASSUME IInv, [Next]_vars PROVE Rowed'
<1>0. Typed /\ Staging /\ Rowed
  BY DEF IInv
<1>1. CASE DOMAIN row' \cap Submission \subseteq DOMAIN row /\ store \subseteq store'
  BY <1>0, <1>1 DEF Rowed, Workbook, Kind, Submission
<1>2. ASSUME NEW p \in Producer, EnqueueNext(p) PROVE Rowed'
  <2> DEFINE ts == producer[p].staged
             t == Head(ts)
  <2>1. ts # <<>> /\ ts \in Seq(Submission) /\ (Kind(p) = "xlsx" => SeedsNamed(ts)) /\ Staged(p, ts, store)
    BY <1>0, <1>2 DEF EnqueueNext, At, Staging, Typed, Command
  <2>2. 1 \in DOMAIN ts /\ t = ts[1] /\ t \in Submission
    BY <2>1
  <2>3. DOMAIN row' \subseteq DOMAIN row \cup {t} /\ store' = store
    BY <1>2 DEF EnqueueNext, Enqueue, artifacts
  <2>4. Kind(p) \in {"queue", "csv", "xlsx"}
    BY IntakeAssumption DEF Kind
  <2> HIDE DEF ts, t
  <2>5. t \in BatchTask => t[3] \in store
    <3>1. t \in BatchTask => t \notin SeedTask
      BY DEF BatchTask, SeedTask
    <3> QED BY <2>1, <2>2, <2>4, <3>1 DEF Staged
  <2>6. t \in SeedTask => (t[3] \in store \/ t[4] \in store) /\ (Workbook(t[2]) => t[3] = t[4])
    <3>1. t \in SeedTask => t \notin BatchTask
      BY DEF BatchTask, SeedTask
    <3>2. CASE Kind(p) = "csv"
      <4>1. ~Workbook(t[2])
        BY <2>1, <2>2, <3>2, IntakeAssumption DEF Staged, Workbook, Kind
      <4> QED BY <2>1, <2>2, <3>2, <4>1 DEF Staged
    <3>3. CASE Kind(p) = "xlsx"
      BY <2>1, <2>2, <3>3 DEF Staged, SeedsNamed
    <3> QED BY <2>1, <2>2, <2>4, <3>1, <3>2, <3>3 DEF Staged
  <2> QED BY <1>0, <2>3, <2>5, <2>6 DEF Rowed, Workbook, Kind
<1>3. ASSUME NEW p \in Producer, Produce(p) \/ ProducerFails(p), ~EnqueueNext(p) PROVE UNCHANGED row
  BY <1>3 DEF Produce, Read, Stamp, Link, Parse, Check, ProducerFails, ledger
<1>4. ASSUME NEW x \in Expander, ReadFrontier(x) \/ Decide(x) \/ SaveFrontier(x) \/ ExpanderFails(x)
      PROVE  DOMAIN row' \cap Submission \subseteq DOMAIN row /\ UNCHANGED store
  <2>1. CASE Decide(x)
    <3>1. UNCHANGED row \/ DOMAIN row' = DOMAIN row \cup {Child(x, Candidates[x][expander[x].next])}
      BY <2>1 DEF Decide, Enqueue, ledger
    <3>2. \A c : Child(x, c) \notin Submission
      BY DEF Child, Submission, BatchTask, SeedTask
    <3> QED BY <2>1, <3>1, <3>2 DEF Decide, Apart, artifacts
  <2> QED BY <1>4, <2>1 DEF ReadFrontier, SaveFrontier, ExpanderFails, Apart, ledger, artifacts
<1>5. ASSUME NEW p \in Producer, Produce(p) \/ ProducerFails(p) PROVE Rowed'
  <2>1. store \subseteq store'
    BY <1>0, <1>5, Others
  <2> QED BY <1>1, <1>2, <1>3, <1>5, <2>1
<1> QED BY <1>0, <1>1, <1>4, <1>5, Steps DEF Beside, Edit, ledger, artifacts

-----------------------------------------------------------------------------
\* The frontier.

LEMMA Appended ==
  ASSUME NEW S, NEW s \in Seq(S), NEW t \in Seq(S), NEW e \in S, Extends(s, t)
  PROVE  Extends(s, Append(t, e)) /\ ToSet(t) \subseteq ToSet(Append(t, e)) /\ e \in ToSet(Append(t, e))
<1>1. /\ Len(Append(t, e)) = Len(t) + 1 /\ DOMAIN Append(t, e) = 1..(Len(t) + 1) /\ DOMAIN t = 1..Len(t)
      /\ Len(t) \in Nat /\ Len(s) \in Nat
      /\ \A i \in 1..Len(t) : Append(t, e)[i] = t[i]
      /\ Append(t, e)[Len(t) + 1] = e
  OBVIOUS
<1> QED BY <1>1 DEF Extends, ToSet

LEMMA SoundAppended ==
  ASSUME NEW seen \in Seq(Key), NEW key \in Key, NEW tasks, NEW x \in Expander, Sound(seen, tasks),
         key \notin ToSet(seen), ~(Len(seen) >= MaxEntities)
  PROVE  Sound(Append(seen, key), tasks \cup {<<"child", key, x>>})
<1> DEFINE more == Append(seen, key)
<1>1. /\ Len(more) = Len(seen) + 1 /\ DOMAIN more = 1..(Len(seen) + 1) /\ DOMAIN seen = 1..Len(seen)
      /\ Len(seen) \in Nat /\ more[Len(seen) + 1] = key
      /\ \A i \in 1..Len(seen) : more[i] = seen[i]
  OBVIOUS
<1> HIDE DEF more
<1>2. \A i \in 1..Len(seen) : seen[i] # key
  BY <1>1 DEF ToSet
<1>3. IsInjective(more)
  BY <1>1, <1>2 DEF Sound, IsInjective
<1>4. \A i \in DOMAIN more : \E y \in Expander : <<"child", more[i], y>> \in tasks \cup {<<"child", key, x>>}
  <2> SUFFICES ASSUME NEW i \in 1..(Len(seen) + 1)
               PROVE  \E y \in Expander : <<"child", more[i], y>> \in tasks \cup {<<"child", key, x>>}
    BY <1>1
  <2>1. CASE i = Len(seen) + 1
    BY <1>1, <2>1
  <2>2. CASE i \in 1..Len(seen)
    BY <1>1, <2>2 DEF Sound
  <2>3. i = Len(seen) + 1 \/ i \in 1..Len(seen)
    BY <1>1
  <2> QED BY <2>1, <2>2, <2>3
<1>5. Len(more) <= MaxEntities
  BY <1>1, IntakeAssumption
<1>6. Sound(more, tasks \cup {<<"child", key, x>>})
  BY <1>3, <1>4, <1>5 DEF Sound
<1> QED BY <1>6 DEF more

LEMMA PrefixOf ==
  ASSUME NEW S, NEW s \in Seq(S), NEW t \in Seq(S), Extends(s, t)
  PROVE  IsPrefix(s, t) /\ ToSet(s) \subseteq ToSet(t)
<1>1. SubSeq(s, 1, Len(s)) = SubSeq(t, 1, Len(s))
  BY DEF Extends
<1> QED BY <1>1 DEF Extends, IsPrefix, ToSet

FrontierInv == Sound(frontier.seen, DOMAIN row) /\ Ahead /\ Counted

\* Whoever else adds a row, it is not that of a child.
LEMMA OtherRows ==
  ASSUME IInv, [Next]_vars, \A x \in Expander : ~(ReadFrontier(x) \/ Decide(x) \/ SaveFrontier(x) \/ ExpanderFails(x))
  PROVE  /\ UNCHANGED <<expander, frontier>> /\ DOMAIN row \subseteq DOMAIN row'
         /\ DOMAIN row' \cap ChildTask \subseteq DOMAIN row
<1>0. Typed /\ Staging
  BY DEF IInv
<1>1. CASE Beside
  BY <1>1 DEF Beside, intakeOnly
<1>2. CASE Edit
  BY <1>2 DEF Edit, ledger
<1>3. ASSUME NEW p \in Producer, Produce(p) \/ ProducerFails(p)
      PROVE  DOMAIN row \subseteq DOMAIN row' /\ DOMAIN row' \cap ChildTask \subseteq DOMAIN row
  <2>1. CASE EnqueueNext(p)
    <3>1. producer[p].staged # <<>> /\ producer[p].staged \in Seq(Submission)
      BY <1>0, <2>1 DEF EnqueueNext, At, Staging, Typed, Command
    <3>2. Head(producer[p].staged) \in Submission
      BY <3>1
    <3>3. \A t \in Submission : t \notin ChildTask
      BY DEF Submission, BatchTask, SeedTask, ChildTask
    <3> QED BY <2>1, <3>2, <3>3 DEF EnqueueNext, Enqueue
  <2>2. CASE ~EnqueueNext(p)
    BY <1>3, <2>2 DEF Produce, Read, Stamp, Link, Parse, Check, ProducerFails, ledger
  <2> QED BY <2>1, <2>2
<1> QED BY <1>0, <1>1, <1>2, <1>3, Steps, Others

LEMMA FrontierKept == ASSUME IInv, [Next]_vars PROVE FrontierInv'
<1>0. Typed /\ Typed' /\ FrontierInv
  BY TypedKept DEF IInv, FrontierInv
<1>s. \A seen, tasks, more : Sound(seen, tasks) /\ tasks \subseteq more => Sound(seen, more)
  BY DEF Sound
<1>t. \A t \in ChildTask : t[2] \in Key /\ t[3] \in Expander
  BY DEF ChildTask
<1>1. CASE \A x \in Expander : ~(ReadFrontier(x) \/ Decide(x) \/ SaveFrontier(x) \/ ExpanderFails(x))
  <2>1. /\ UNCHANGED <<expander, frontier>> /\ DOMAIN row \subseteq DOMAIN row'
        /\ DOMAIN row' \cap ChildTask \subseteq DOMAIN row
    BY <1>1, OtherRows
  <2>2. Sound(frontier.seen, DOMAIN row)' /\ Ahead'
    BY <1>0, <1>s, <2>1 DEF FrontierInv, Ahead
  <2>3. Counted'
    BY <1>0, <2>1 DEF FrontierInv, Counted
  <2> QED BY <2>2, <2>3 DEF FrontierInv
<1>f. ASSUME NEW x \in Expander, Fails(x), UNCHANGED <<row, frontier>> PROVE FrontierInv'
  <2>1. expander'[x].pc = "failed" /\ expander'[x].tries = expander[x].tries
        /\ \A y \in Expander : y # x => expander'[y] = expander[y]
    BY <1>0, <1>f DEF Fails, Decides, Typed, Expansion
  <2>2. Ahead'
    BY <1>0, <1>f, <2>1 DEF FrontierInv, Ahead
  <2>3. Counted'
    BY <1>0, <1>f, <1>t, <2>1 DEF FrontierInv, Counted
  <2> QED BY <1>0, <1>f, <2>2, <2>3 DEF FrontierInv
<1>2. ASSUME NEW x \in Expander, ReadFrontier(x) PROVE FrontierInv'
  <2>1. /\ expander[x].pc \in {"idle", "failed"} /\ UNCHANGED <<row, frontier>>
        /\ expander'[x].pc = "deciding" /\ expander'[x].tries = expander[x].tries + 1
        /\ expander'[x].seen = frontier.seen /\ expander'[x].decisions = frontier.decisions
        /\ expander'[x].revision = frontier.revision
        /\ \A y \in Expander : y # x => expander'[y] = expander[y]
    BY <1>0, <1>2 DEF ReadFrontier, Decides, ledger, Typed
  <2>2. expander[x].tries \in Nat /\ frontier.revision \in Nat /\ frontier.seen \in Seq(Key)
        /\ frontier.decisions \in Seq(Decision)
    BY <1>0 DEF Typed, Expansion, Checkpoint
  <2>3. Extends(frontier.seen, frontier.seen) /\ Extends(frontier.decisions, frontier.decisions)
    BY <2>2 DEF Extends
  <2>4. Ahead'
    BY <1>0, <2>1, <2>2, <2>3 DEF FrontierInv, Ahead
  <2>5. Counted'
    <3> SUFFICES ASSUME NEW t \in DOMAIN row, t \in ChildTask
                 PROVE  /\ expander'[t[3]].pc \notin {"off", "idle"} /\ expander'[t[3]].tries >= 1
                        /\ expander'[t[3]].tries = 1 /\ expander'[t[3]].pc = "deciding" => t[2] \in ToSet(expander'[t[3]].seen)
                        /\ expander'[t[3]].tries = 1 /\ expander'[t[3]].pc = "done" => t[2] \in ToSet(frontier.seen)
      BY <2>1 DEF Counted
    <3>1. CASE t[3] = x
      <4>1. expander[x].tries >= 1
        BY <1>0, <3>1 DEF FrontierInv, Counted
      <4> QED BY <2>1, <2>2, <3>1, <4>1
    <3>2. CASE t[3] # x
      BY <1>0, <1>t, <2>1, <3>2 DEF FrontierInv, Counted
    <3> QED BY <3>1, <3>2
  <2> QED BY <1>0, <2>1, <2>4, <2>5 DEF FrontierInv
<1>3. ASSUME NEW x \in Expander, Decide(x) PROVE FrontierInv'
  <2> DEFINE c == Candidates[x][expander[x].next]
             e == expander[x]
             decisions == Append(e.decisions, <<c.key, Reason(x, c)>>)
  <2>0. e \in Expansion /\ e.pc = "deciding" /\ UNCHANGED frontier
    BY <1>0, <1>3 DEF Decide, Typed
  <2>1. c \in ToSet(Candidates[x])
    BY <1>3, <2>0, IntakeAssumption DEF Decide, Expansion, ToSet
  <2>2. c.key \in Key /\ <<c.key, Reason(x, c)>> \in Decision
        /\ (Reason(x, c) = "included" => c.key \notin ToSet(e.seen) /\ ~(Len(e.seen) >= MaxEntities))
    BY <2>1, ReasonKnown DEF Key, Candidate, Decision
  <2>3. /\ e.tries >= 1 /\ Sound(e.seen, DOMAIN row) /\ e.revision <= frontier.revision
        /\ e.revision = frontier.revision => /\ Extends(frontier.seen, e.seen)
                                            /\ Extends(frontier.decisions, e.decisions)
    BY <1>0, <2>0 DEF FrontierInv, Ahead
  <2>4. e.revision = frontier.revision => Extends(frontier.decisions, decisions)
    BY <1>0, <2>0, <2>2, <2>3, Appended DEF Typed, Expansion, Checkpoint
  <2>5. CASE Fails(x) /\ UNCHANGED ledger
    BY <1>f, <2>0, <2>5 DEF ledger
  <2>6. CASE /\ UNCHANGED ledger
             /\ Decides(x, [e EXCEPT !.next = @ + 1, !.decisions = Append(@, <<c.key, Reason(x, c)>>)])
    <3>1. /\ expander'[x].pc = "deciding" /\ expander'[x].tries = e.tries /\ expander'[x].seen = e.seen
          /\ expander'[x].revision = e.revision /\ expander'[x].decisions = decisions
          /\ \A y \in Expander : y # x => expander'[y] = expander[y]
      BY <1>0, <2>0, <2>6 DEF Decides, Typed, Expansion
    <3> HIDE DEF decisions
    <3>2. Ahead'
      BY <1>0, <2>0, <2>3, <2>4, <2>6, <3>1 DEF FrontierInv, Ahead, ledger
    <3>3. Counted'
      BY <1>0, <1>t, <2>0, <2>6, <3>1 DEF FrontierInv, Counted, ledger
    <3> QED BY <1>0, <2>0, <2>6, <3>2, <3>3 DEF FrontierInv, ledger
  <2>7. CASE /\ Reason(x, c) = "included" /\ Enqueue(Child(x, c))
             /\ Decides(x, [[e EXCEPT !.next = @ + 1, !.decisions = Append(@, <<c.key, Reason(x, c)>>)]
                              EXCEPT !.seen = Append(@, c.key)])
    <3> DEFINE seen == Append(e.seen, c.key)
               child == <<"child", c.key, x>>
    <3>1. /\ expander'[x].pc = "deciding" /\ expander'[x].tries = e.tries /\ expander'[x].seen = seen
          /\ expander'[x].revision = e.revision /\ expander'[x].decisions = decisions
          /\ \A y \in Expander : y # x => expander'[y] = expander[y]
      BY <1>0, <2>0, <2>7 DEF Decides, Typed, Expansion
    <3>2. DOMAIN row' = DOMAIN row \cup {child}
      BY <2>7 DEF Enqueue, Child
    <3>3. Sound(seen, DOMAIN row')
      BY <2>0, <2>2, <2>3, <2>7, <3>2, SoundAppended DEF Expansion
    <3>4. /\ ToSet(e.seen) \subseteq ToSet(seen) /\ c.key \in ToSet(seen)
          /\ e.revision = frontier.revision => Extends(frontier.seen, seen)
      <4>1. Extends(e.seen, e.seen)
        BY <2>0 DEF Extends, Expansion
      <4>2. e.seen \in Seq(Key) /\ frontier.seen \in Seq(Key)
        BY <1>0, <2>0 DEF Typed, Expansion, Checkpoint
      <4> QED BY <2>2, <2>3, <4>1, <4>2, Appended
    <3> HIDE DEF decisions, seen
    <3>5. Ahead'
      BY <1>0, <1>s, <2>0, <2>3, <2>4, <3>1, <3>2, <3>3, <3>4 DEF FrontierInv, Ahead
    <3>6. Counted'
      <4> SUFFICES ASSUME NEW t \in DOMAIN row \cup {child}, t \in ChildTask
                   PROVE  /\ expander'[t[3]].pc \notin {"off", "idle"} /\ expander'[t[3]].tries >= 1
                          /\ expander'[t[3]].tries = 1 /\ expander'[t[3]].pc = "deciding" => t[2] \in ToSet(expander'[t[3]].seen)
                          /\ expander'[t[3]].tries = 1 /\ expander'[t[3]].pc = "done" => t[2] \in ToSet(frontier.seen)
        BY <2>0, <3>2 DEF Counted
      <4>1. CASE t = child
        BY <2>3, <3>1, <3>4, <4>1
      <4>2. CASE t \in DOMAIN row /\ t[3] = x
        BY <1>0, <2>0, <2>3, <3>1, <3>4, <4>2 DEF FrontierInv, Counted
      <4>3. CASE t \in DOMAIN row /\ t[3] # x
        BY <1>0, <1>t, <3>1, <4>3 DEF FrontierInv, Counted
      <4> QED BY <4>1, <4>2, <4>3
    <3> QED BY <1>0, <1>s, <2>0, <3>2, <3>5, <3>6 DEF FrontierInv
  <2> QED BY <1>3, <2>5, <2>6, <2>7 DEF Decide
<1>4. ASSUME NEW x \in Expander, SaveFrontier(x) PROVE FrontierInv'
  <2> DEFINE e == expander[x]
  <2>1. e \in Expansion /\ e.pc = "deciding" /\ UNCHANGED row /\ frontier \in Checkpoint
    BY <1>0, <1>4 DEF SaveFrontier, Decided, ledger, Typed
  <2>2. CASE Fails(x) /\ UNCHANGED frontier
    BY <1>f, <2>1, <2>2
  <2>3. CASE /\ FrontierCurrent(x) /\ Decides(x, [e EXCEPT !.pc = "done"])
             /\ frontier' = [seen |-> e.seen, decisions |-> e.decisions, revision |-> frontier.revision + 1]
    <3>1. /\ e.revision = frontier.revision /\ frontier'.revision = frontier.revision + 1 /\ frontier'.seen = e.seen
          /\ frontier.revision \in Nat
          /\ expander'[x].pc = "done" /\ expander'[x].tries = e.tries
          /\ \A y \in Expander : y # x => expander'[y] = expander[y]
      BY <1>0, <2>1, <2>3 DEF FrontierCurrent, Decides, Typed, Expansion, Checkpoint
    <3>2. Sound(e.seen, DOMAIN row) /\ Extends(frontier.seen, e.seen)
      BY <1>0, <2>1, <3>1 DEF FrontierInv, Ahead
    <3>3. ToSet(frontier.seen) \subseteq ToSet(e.seen)
      BY <2>1, <3>2, PrefixOf DEF Expansion, Checkpoint
    <3>4. Ahead'
      <4>1. \A y \in Expander : expander'[y].pc = "deciding" =>
              expander[y].revision \in Nat /\ expander[y].revision <= frontier.revision /\ y # x
        BY <1>0, <3>1 DEF FrontierInv, Ahead, Typed, Expansion
      <4> QED BY <1>0, <2>1, <3>1, <4>1 DEF FrontierInv, Ahead
    <3>5. Counted'
      <4> SUFFICES ASSUME NEW t \in DOMAIN row, t \in ChildTask
                   PROVE  /\ expander'[t[3]].pc \notin {"off", "idle"} /\ expander'[t[3]].tries >= 1
                          /\ expander'[t[3]].tries = 1 /\ expander'[t[3]].pc = "deciding" => t[2] \in ToSet(expander'[t[3]].seen)
                          /\ expander'[t[3]].tries = 1 /\ expander'[t[3]].pc = "done" => t[2] \in ToSet(e.seen)
        BY <2>1, <3>1 DEF Counted
      <4>1. CASE t[3] = x
        BY <1>0, <2>1, <3>1, <4>1 DEF FrontierInv, Counted
      <4>2. CASE t[3] # x
        BY <1>0, <1>t, <3>1, <3>3, <4>2 DEF FrontierInv, Counted
      <4> QED BY <4>1, <4>2
    <3> QED BY <2>1, <3>1, <3>2, <3>4, <3>5 DEF FrontierInv
  <2> QED BY <1>4, <2>2, <2>3 DEF SaveFrontier
<1>5. ASSUME NEW x \in Expander, ExpanderFails(x) PROVE FrontierInv'
  BY <1>5, <1>f DEF ExpanderFails, ledger
<1> QED BY <1>1, <1>2, <1>3, <1>4, <1>5

LEMMA Inductive == Spec => []IInv
<1>1. DeliveryInit => IInv
  <2> SUFFICES ASSUME DeliveryInit PROVE IInv
    OBVIOUS
  <2>1. /\ DOMAIN row = {} /\ frontier = [seen |-> <<>>, decisions |-> <<>>, revision |-> 0]
        /\ \A p \in Producer : producer[p].pc \in {"read", "off"} /\ producer[p].record = None /\ producer[p].staged = <<>>
        /\ \A x \in Expander : expander[x].pc \in {"idle", "off"}
    BY DEF DeliveryInit, Init
  <2>2. Held
    BY <2>1 DEF Held
  <2>3. Staging
    BY <2>1 DEF Staging, Staged
  <2>4. Rowed /\ Ahead /\ Counted
    BY <2>1 DEF Rowed, Ahead, Counted
  <2>5. Sound(frontier.seen, DOMAIN row)
    BY <2>1, IntakeAssumption DEF Sound, IsInjective
  <2> QED BY <2>2, <2>3, <2>4, <2>5, InitTyped DEF IInv
<1>2. IInv /\ [Next]_vars => IInv'
  <2> SUFFICES ASSUME IInv, [Next]_vars PROVE IInv'
    OBVIOUS
  <2> QED BY TypedKept, ReadingKept, HeldKept, StagingKept, RowedKept, FrontierKept DEF IInv, FrontierInv
<1> QED BY <1>1, <1>2, PTL DEF Spec

-----------------------------------------------------------------------------
\* All who captured a content hold the time that is published for it, what a task
\* names is in the store, and the seeds of a workbook are of the content that they
\* name (artifacts.py:59-80, seeds.py:132-134).
THEOREM CapturesCorrect == Spec => []CapturesAgree
<1>1. IInv => CapturesAgree
  <2> SUFFICES ASSUME IInv PROVE CapturesAgree
    OBVIOUS
  <2>1. \A p \in Producer : producer[p].record # None =>
          producer[p].data \in store /\ producer[p].record = stamp[producer[p].data]
    BY DEF IInv, Held
  <2>2. ASSUME NEW t \in DOMAIN row, t[1] # "child"
        PROVE  /\ t[Len(t)] \in store \/ t[3] \in store
               /\ t[1] = "researcher" /\ Workbook(t[2]) => t[3] = t[4]
    <3>1. CASE t \in BatchTask
      <4>1. Len(t) = 3 /\ t[1] = "construction" /\ t[3] \in store
        BY <3>1 DEF IInv, Rowed, BatchTask
      <4> QED BY <4>1
    <3>2. CASE t \in SeedTask
      <4>1. Len(t) = 4
        BY <3>2 DEF SeedTask
      <4> QED BY <3>2, <4>1 DEF IInv, Rowed
    <3>3. t \notin ChildTask
      BY <2>2 DEF ChildTask
    <3> QED BY <3>1, <3>2, <3>3 DEF IInv, Typed, Submission
  <2> QED BY <2>1, <2>2 DEF CapturesAgree, Workbook
<1> QED BY <1>1, Inductive, PTL

\* Whatever is in the frontier has a task and is there once, within the limit, and
\* a task that it does not count is that of an expansion which is still running or
\* failed, if only at first (seeds.py:70-73).
THEOREM FrontierCounts == Spec => []FrontierSound
<1>1. IInv => FrontierSound
  <2> SUFFICES ASSUME IInv PROVE FrontierSound
    OBVIOUS
  <2>1. ASSUME NEW t \in DOMAIN row, t[1] = "child"
        PROVE  t[2] \in ToSet(frontier.seen) \/ expander[t[3]].pc \in {"deciding", "failed"} \/ expander[t[3]].tries > 1
    <3>1. t \in ChildTask
      BY <2>1 DEF IInv, Typed, Submission, BatchTask, SeedTask
    <3>2. t[3] \in Expander
      BY <3>1 DEF ChildTask
    <3>3. expander[t[3]] \in Expansion
      BY <3>2 DEF IInv, Typed
    <3> QED BY <3>1, <3>3 DEF IInv, Counted, Expansion
  <2> QED BY <2>1 DEF IInv, Sound, FrontierSound
<1> QED BY <1>1, Inductive, PTL

\* No expansion loses what another one saved (durable.py:257-269).
THEOREM FrontierOnlyGrows == Spec => FrontierGrows
<1>1. IInv /\ [Next]_vars =>
        [IsPrefix(frontier.seen, frontier'.seen) /\ IsPrefix(frontier.decisions, frontier'.decisions)]_frontier
  <2> SUFFICES ASSUME IInv, [Next]_vars, frontier' # frontier
               PROVE  IsPrefix(frontier.seen, frontier'.seen) /\ IsPrefix(frontier.decisions, frontier'.decisions)
    OBVIOUS
  <2>0. Typed /\ Ahead
    BY DEF IInv
  <2>1. PICK x \in Expander : SaveFrontier(x)
    <3>1. ASSUME NEW x \in Expander, ReadFrontier(x) \/ Decide(x) \/ ExpanderFails(x) PROVE UNCHANGED frontier
      BY <3>1 DEF ReadFrontier, Decide, ExpanderFails
    <3> QED BY <2>0, <3>1, OtherRows
  <2>2. /\ expander[x].revision = frontier.revision /\ expander[x].pc = "deciding"
        /\ frontier'.seen = expander[x].seen /\ frontier'.decisions = expander[x].decisions
    BY <2>1 DEF SaveFrontier, Decided, FrontierCurrent
  <2>3. Extends(frontier.seen, frontier'.seen) /\ Extends(frontier.decisions, frontier'.decisions)
    BY <2>0, <2>2 DEF Ahead
  <2>4. /\ frontier.seen \in Seq(Key) /\ frontier'.seen \in Seq(Key)
        /\ frontier.decisions \in Seq(Decision) /\ frontier'.decisions \in Seq(Decision)
    BY <2>0, TypedKept DEF Typed, Checkpoint
  <2> QED BY <2>3, <2>4, PrefixOf
<1> QED BY <1>1, Inductive, PTL DEF Spec, FrontierGrows

-----------------------------------------------------------------------------
\* Deliveries: the rows, the pending list, and the locals of the workers.

Tasks == Submission \cup ChildTask
Row == [state : {"pending", "leased", "done", "failed"}, holder : Worker \cup {None, Gone}, attempts : 0..MaxAttempts]
Empty == {"off", "push", "ready", "moved"}               \* places of a worker without a lease
Busy == {"moved", "claimed", "waiting", "building", "built"}   \* and of one with a task
Locals == [pc : Empty \cup Busy, todo : SUBSET BatchTask, task : BatchTask \cup {None},
           handled : 0..(MaxTasks - 1), built : Content \cup {None}]

\* The rows are those created, each once, ...
Listed == /\ created \in Seq(Tasks) /\ ToSet(created) = DOMAIN row /\ IsInjective(created)
          /\ DOMAIN row \subseteq Tasks

RowsTyped == row = [t \in DOMAIN row |-> row[t]] /\ \A t \in DOMAIN row : row[t] \in Row

\* ... what is delivered is a source batch with a row, ...
Queued == pending \in Seq(BatchTask) /\ ToSet(pending) \subseteq DOMAIN row

AtWork == /\ worker \in [Worker -> Locals]
          /\ \A w \in Worker : /\ worker[w].todo \subseteq DOMAIN row
                               /\ worker[w].pc \in Busy => Task(w) \in BatchTask /\ Task(w) \in DOMAIN row
                               /\ In(w, "building") => Task(w) \in DOMAIN intent

\* ... no lease is held by a worker that does not know of it, ...
Unheld == \A w \in Worker : worker[w].pc \in Empty => \A t \in DOMAIN row : row[t].holder # w

\* ... and the tasks that are done are those whose prepared batch is integrated.
Recorded == DOMAIN made = {t \in DOMAIN row : row[t].state = "done"} /\ DOMAIN made \subseteq DOMAIN intent

DInv == Listed /\ RowsTyped /\ Queued /\ AtWork /\ Unheld /\ Recorded

\* Rows that differ from those of the ledger in what an end of w, a release or a
\* sweep may change: fewer leases, and no task done or undone.
Looser(new) ==
  /\ DOMAIN new = DOMAIN row /\ new = [t \in DOMAIN row |-> new[t]]
  /\ \A t \in DOMAIN row : /\ new[t] \in Row
                           /\ new[t].state = "done" <=> row[t].state = "done"
                           /\ \A v \in Worker : new[t].holder = v => row[t].holder = v

\* The invocation of w ends and no row is held by it any more (worker.py:61).
LEMMA LeftLoose ==
  ASSUME RowsTyped, NEW w \in Worker
  PROVE  Looser(Left(w)) /\ \A t \in DOMAIN row : Left(w)[t].holder # w
<1> USE DeliveryAssumption
<1>1. ASSUME NEW t \in DOMAIN row
      PROVE  /\ Left(w)[t] \in Row /\ Left(w)[t].holder # w
             /\ Left(w)[t].state = row[t].state
             /\ \A v \in Worker : Left(w)[t].holder = v => row[t].holder = v
  <2>1. row[t] \in Row /\ Left(w)[t] = IF row[t].holder = w THEN [row[t] EXCEPT !.holder = Gone] ELSE row[t]
    BY DEF RowsTyped, Left
  <2> QED BY <2>1 DEF Row
<1>2. Left(w) = [t \in DOMAIN row |-> Left(w)[t]] /\ DOMAIN Left(w) = DOMAIN row
  BY DEF Left
<1> QED BY <1>1, <1>2 DEF Looser

\* A released task is pending, or the worker's no more (durable.py:239-241).
LEMMA ReleasedLoose ==
  ASSUME RowsTyped, NEW w \in Worker
  PROVE  Looser(Released(w)) /\ \A t \in DOMAIN row : Released(w)[t].holder # w
<1> USE DeliveryAssumption
<1>1. CASE ~Fenced(w)
  BY <1>1, LeftLoose DEF Released
<1>2. CASE Fenced(w)
  <2> DEFINE left == Left(w)
             new == [left EXCEPT ![Task(w)].state = "pending", ![Task(w)].holder = None]
  <2>1. Released(w) = new
    BY <1>2 DEF Released
  <2>2. Looser(left) /\ (\A t \in DOMAIN row : left[t].holder # w) /\ row[Task(w)].state = "leased"
    BY <1>2, LeftLoose DEF Fenced
  <2> HIDE DEF left
  <2>3. ASSUME NEW t \in DOMAIN row
        PROVE  /\ new[t] \in Row /\ new[t].holder # w
               /\ new[t].state = "done" <=> row[t].state = "done"
               /\ \A v \in Worker : new[t].holder = v => row[t].holder = v
    <3>0. /\ left[t] \in Row /\ left[t].holder # w
          /\ left[t].state = "done" <=> row[t].state = "done"
          /\ \A v \in Worker : left[t].holder = v => row[t].holder = v
      BY <2>2 DEF Looser
    <3>1. CASE t = Task(w)
      <4>1. new[t] = [left[t] EXCEPT !.state = "pending", !.holder = None]
        BY <2>2, <3>1 DEF Looser
      <4> HIDE DEF new
      <4>2. /\ new[t].state = "pending" /\ new[t].holder = None /\ new[t] \in Row
            /\ row[t].state = "leased"
        BY <2>2, <3>0, <3>1, <4>1 DEF Row
      <4> QED BY <4>2
    <3>2. CASE t # Task(w)
      <4>1. new[t] = left[t]
        BY <2>2, <3>2 DEF Looser
      <4> QED BY <3>0, <4>1
    <3> QED BY <3>1, <3>2
  <2>4. new = [t \in DOMAIN row |-> new[t]] /\ DOMAIN new = DOMAIN row
    BY <2>2 DEF Looser
  <2> HIDE DEF new
  <2> QED BY <2>1, <2>3, <2>4 DEF Looser
<1> QED BY <1>1, <1>2

\* A claim first gives up what has no attempt left (durable.py:176-178).
LEMMA SweptLoose == RowsTyped => Looser(Swept)
<1> SUFFICES ASSUME RowsTyped PROVE Looser(Swept)
  OBVIOUS
<1>1. ASSUME NEW t \in DOMAIN row
      PROVE  /\ Swept[t] \in Row
             /\ Swept[t].state = "done" <=> row[t].state = "done"
             /\ \A v \in Worker : Swept[t].holder = v => row[t].holder = v
             /\ Swept[t].attempts = row[t].attempts
  <2>1. row[t] \in Row
    BY DEF RowsTyped
  <2>2. Swept[t] = row[t] \/ (Free(t) /\ Swept[t] = [row[t] EXCEPT !.state = "failed"])
    BY DEF Swept
  <2>3. Free(t) => row[t].state # "done"
    BY DEF Free
  <2> QED BY <2>1, <2>2, <2>3 DEF Row
<1>2. Swept = [t \in DOMAIN row |-> Swept[t]] /\ DOMAIN Swept = DOMAIN row
  BY DEF Swept
<1> QED BY <1>1, <1>2 DEF Looser

\* An invocation ends, by itself, an error or a death.
LEMMA EndKeeps ==
  ASSUME DInv, NEW w \in Worker, Looser(row'), \A t \in DOMAIN row : row'[t].holder # w,
         NEW locals \in Locals, Does(w, locals), locals.pc \in {"off", "ready"}, locals.todo = {},
         UNCHANGED <<created, pending, intent, made>>
  PROVE  DInv'
<1> USE DEF DInv
<1>1. Listed'
  BY DEF Listed, Looser
<1>2. RowsTyped'
  BY DEF RowsTyped, Looser
<1>3. Queued'
  BY DEF Queued, Looser
<1>4. worker' \in [Worker -> Locals] /\ worker'[w] = locals /\ \A v \in Worker \ {w} : worker'[v] = worker[v]
  BY DEF AtWork, Does
<1>5. AtWork'
  BY <1>4 DEF AtWork, Looser, Task, In, Busy
<1>6. Unheld'
  BY <1>4 DEF Unheld, Looser
<1>7. Recorded'
  BY DEF Recorded, Looser
<1> QED BY <1>1, <1>2, <1>3, <1>5, <1>6, <1>7

LEMMA OffTyped == Off \in Locals /\ Off.pc = "off" /\ Off.todo = {}
  BY DeliveryAssumption DEF Off, Locals, Empty

LEMMA RaisesKeeps ==
  ASSUME DInv, NEW w \in Worker, Raises(w), UNCHANGED <<created, pending>>
  PROVE  DInv'
<1>1. row' = Released(w) /\ Does(w, Off) /\ UNCHANGED <<intent, made>>
  BY DEF Raises
<1>2. Looser(Released(w)) /\ \A t \in DOMAIN row : Released(w)[t].holder # w
  BY ReleasedLoose DEF DInv
<1> QED BY <1>1, <1>2, OffTyped, EndKeeps

\* A worker goes on, and no row changes.
LEMMA LocalKeeps ==
  ASSUME DInv, NEW w \in Worker, NEW locals \in Locals, Does(w, locals),
         locals.todo \subseteq DOMAIN row,
         locals.pc \in Busy => locals.task \in BatchTask /\ locals.task \in DOMAIN row,
         locals.pc = "building" => locals.task \in DOMAIN intent',
         locals.pc \in Empty => worker[w].pc \in Empty,
         pending' \in Seq(BatchTask), ToSet(pending') \subseteq DOMAIN row,
         DOMAIN intent \subseteq DOMAIN intent', UNCHANGED <<created, row, made>>
  PROVE  DInv'
<1> USE DEF DInv
<1>4. worker' \in [Worker -> Locals] /\ worker'[w] = locals /\ \A v \in Worker \ {w} : worker'[v] = worker[v]
  BY DEF AtWork, Does
<1>5. AtWork'
  <2> SUFFICES ASSUME NEW v \in Worker
               PROVE  /\ worker'[v].todo \subseteq DOMAIN row
                      /\ worker'[v].pc \in Busy => worker'[v].task \in BatchTask /\ worker'[v].task \in DOMAIN row
                      /\ worker'[v].pc = "building" => worker'[v].task \in DOMAIN intent'
    BY <1>4 DEF AtWork, Task, In
  <2>1. CASE v = w
    BY <1>4, <2>1
  <2>2. CASE v # w
    BY <1>4, <2>2 DEF AtWork, Task, In
  <2> QED BY <2>1, <2>2
<1>6. Unheld'
  BY <1>4 DEF Unheld
<1> QED BY <1>5, <1>6 DEF Listed, RowsTyped, Queued, Recorded

\* The invocation pushes a delivery for every source batch that is not settled,
\* and takes the oldest (durable.py:339-352).
LEMMA BatchesKnown ==
  ASSUME Listed, NEW t \in DOMAIN row, t[1] = "construction"
  PROVE  t \in BatchTask
  BY DEF Listed, Tasks, Submission, SeedTask, ChildTask

LEMMA FiniteRows == ASSUME Listed, NEW S \in SUBSET DOMAIN row PROVE Cardinality(S) \in Nat
<1> DEFINE range == {created[i] : i \in 1..Len(created)}
<1>1. created \in Surjection(1..Len(created), range) /\ Len(created) \in Nat
  BY DEF Listed, Surjection
<1>2. IsFiniteSet(1..Len(created))
  BY <1>1, FS_Interval
<1>3. IsFiniteSet(range)
  BY <1>1, <1>2, FS_Surjection
<1>4. DOMAIN row = range
  <2>1. DOMAIN created = 1..Len(created)
    BY DEF Listed
  <2> QED BY <2>1 DEF Listed, ToSet
<1> QED BY <1>3, <1>4, FS_Subset, FS_CardinalityType

LEMMA DeliveriesKeep ==
  ASSUME DInv, NEW w \in Worker, Begin(w) \/ Push(w) \/ Move(w)
  PROVE  DInv'
<1> USE DEF DInv
<1>0. worker[w] \in Locals
  BY DEF AtWork
<1> DEFINE open == {t \in DOMAIN row : t[1] = "construction" /\ Unsettled(t)}
<1>1. CASE Begin(w)
  <2>1. open \subseteq BatchTask /\ open \subseteq DOMAIN row
    BY BatchesKnown
  <2>2. [worker[w] EXCEPT !.pc = "push", !.todo = Reconstructed] \in Locals
    BY <1>0, <2>1 DEF Reconstructed, Locals, Empty
  <2> DEFINE locals == [worker[w] EXCEPT !.pc = "push", !.todo = Reconstructed]
  <2>3. locals.pc = "push" /\ locals.todo = open
    BY <1>0 DEF Reconstructed, Locals
  <2>4. Does(w, locals) /\ UNCHANGED <<created, row, pending, intent, made>> /\ worker[w].pc \in Empty
    BY <1>1 DEF Begin, In, intakeVars, ledger, Empty
  <2>5. pending' \in Seq(BatchTask) /\ ToSet(pending') \subseteq DOMAIN row
    BY <2>4 DEF Queued
  <2>6. locals \in Locals
    BY <2>2
  <2> HIDE DEF locals, open
  <2> QED BY <2>1, <2>3, <2>4, <2>5, <2>6, LocalKeeps DEF Busy
<1>2. CASE Push(w)
  <2> DEFINE todo == worker[w].todo
             locals == [worker[w] EXCEPT !.pc = "ready", !.todo = {}]
  <2>1. todo \subseteq BatchTask /\ todo \subseteq DOMAIN row
    BY <1>0 DEF AtWork, Locals
  <2>2. PICK pushed \in [1..Cardinality(todo) -> todo] : pending' = pushed \o pending
    BY <1>2 DEF Push
  <2>3. Cardinality(todo) \in Nat
    BY <2>1, FiniteRows
  <2> HIDE DEF todo
  <2>4. pushed \in Seq(BatchTask) /\ \A i \in DOMAIN pushed : pushed[i] \in DOMAIN row
    BY <2>1, <2>3
  <2>5. pending' \in Seq(BatchTask)
    BY <2>2, <2>4 DEF Queued
  <2>6. ToSet(pending') \subseteq DOMAIN row
    <3>1. /\ DOMAIN (pushed \o pending) = 1..(Len(pushed) + Len(pending))
          /\ Len(pushed) \in Nat /\ Len(pending) \in Nat
          /\ DOMAIN pushed = 1..Len(pushed) /\ DOMAIN pending = 1..Len(pending)
          /\ \A i \in 1..(Len(pushed) + Len(pending)) :
               (pushed \o pending)[i] = IF i <= Len(pushed) THEN pushed[i] ELSE pending[i - Len(pushed)]
      BY <2>4 DEF Queued
    <3>2. \A i \in 1..Len(pending) : pending[i] \in DOMAIN row
      BY <3>1 DEF Queued, ToSet
    <3> SUFFICES ASSUME NEW i \in 1..(Len(pushed) + Len(pending)) PROVE (pushed \o pending)[i] \in DOMAIN row
      BY <2>2, <3>1 DEF ToSet
    <3>3. CASE i <= Len(pushed)
      BY <2>4, <3>1, <3>3
    <3>4. CASE ~(i <= Len(pushed))
      <4>1. i - Len(pushed) \in 1..Len(pending)
        BY <3>1, <3>4
      <4> QED BY <3>1, <3>2, <3>4, <4>1
    <3> QED BY <3>3, <3>4
  <2>7. locals \in Locals /\ locals.pc = "ready" /\ locals.todo = {}
    BY <1>0 DEF Locals, Empty
  <2>8. Does(w, locals) /\ UNCHANGED <<created, row, intent, made>> /\ worker[w].pc \in Empty
    BY <1>2 DEF Push, In, intakeVars, ledger, Empty
  <2> HIDE DEF locals
  <2> QED BY <2>5, <2>6, <2>7, <2>8, LocalKeeps DEF Busy
<1>3. CASE Move(w)
  <2>0. UNCHANGED <<created, row, intent, made>> /\ worker[w].pc \in Empty
    BY <1>3 DEF Move, In, intakeVars, ledger, Empty
  <2>1. CASE pending = <<>>
    <3>1. Does(w, Off) /\ UNCHANGED pending
      BY <1>3, <2>1 DEF Move
    <3> QED BY <2>0, <3>1, OffTyped, LocalKeeps DEF Queued, Busy
  <2>2. CASE pending # <<>>
    <3> DEFINE locals == [worker[w] EXCEPT !.pc = "moved", !.task = Last(pending)]
    <3>1. pending' = Front(pending) /\ Does(w, locals)
      BY <1>3, <2>2 DEF Move
    <3>2. Len(pending) \in Nat \ {0} /\ pending \in Seq(BatchTask) /\ \A i \in 1..Len(pending) : pending[i] \in DOMAIN row
      BY <2>2 DEF Queued, ToSet
    <3>3. Last(pending) \in BatchTask /\ Last(pending) \in DOMAIN row
      BY <3>2 DEF Last
    <3>4. pending' \in Seq(BatchTask) /\ ToSet(pending') \subseteq DOMAIN row
      BY <3>1, <3>2 DEF Front, ToSet
    <3>5. locals \in Locals /\ locals.pc = "moved" /\ locals.task = Last(pending) /\ locals.todo = worker[w].todo
      BY <1>0, <3>3 DEF Locals, Busy, Empty
    <3>6. worker[w].todo \subseteq DOMAIN row
      BY DEF AtWork
    <3> HIDE DEF locals
    <3> QED BY <2>0, <3>1, <3>3, <3>4, <3>5, <3>6, LocalKeeps DEF Empty
  <2> QED BY <2>1, <2>2
<1> QED BY <1>1, <1>2, <1>3

\* A claim takes the task with one more attempt, or ends the invocation (durable.py:172-193).
LEMMA ClaimKeeps == ASSUME DInv, NEW w \in Worker, Claim(w) PROVE DInv'
<1> USE DEF DInv
<1> DEFINE t == Task(w)
<1>0. /\ worker[w] \in Locals /\ worker[w].pc = "moved" /\ t \in BatchTask /\ t \in DOMAIN row
      /\ UNCHANGED <<created, pending, intent, made>>
  BY DEF Claim, AtWork, In, Busy, intakeVars, ledger
<1>1. Looser(Swept) /\ \A u \in DOMAIN row : row[u].holder # w
  BY <1>0, SweptLoose DEF Unheld, Empty
<1>2. CASE ~Claimable(t)
  <2>1. row' = Swept /\ Does(w, Off)
    BY <1>2 DEF Claim
  <2>2. \A u \in DOMAIN row : Swept[u].holder # w
    BY <1>1 DEF Looser
  <2> QED BY <1>0, <1>1, <2>1, <2>2, OffTyped, EndKeeps
<1>3. CASE Claimable(t)
  <2>1. /\ row' = [Swept EXCEPT ![t] = [state |-> "leased", holder |-> w, attempts |-> @.attempts + 1]]
        /\ Does(w, [worker[w] EXCEPT !.pc = "claimed"])
    BY <1>3 DEF Claim
  <2> HIDE DEF t
  <2>2. row[t] \in Row /\ row[t].state # "done" /\ row[t].attempts < MaxAttempts
    BY <1>0, <1>3 DEF RowsTyped, Claimable, Free
  <2>3. Swept[t] = row[t]
    BY <1>0, <2>2, DeliveryAssumption DEF Swept, Row
  <2>4. /\ DOMAIN row' = DOMAIN row /\ row' = [u \in DOMAIN row |-> row'[u]]
        /\ row'[t] = [state |-> "leased", holder |-> w, attempts |-> row[t].attempts + 1]
        /\ \A u \in DOMAIN row : u # t => row'[u] = Swept[u]
    BY <1>0, <1>1, <2>1, <2>3 DEF Looser
  <2>5. row'[t] \in Row /\ row'[t].state = "leased" /\ row'[t].holder = w
    BY <2>2, <2>4, DeliveryAssumption DEF Row
  <2>6. /\ worker' \in [Worker -> Locals] /\ worker'[w].pc = "claimed" /\ worker'[w].todo = worker[w].todo
        /\ worker'[w].task = t
        /\ \A v \in Worker \ {w} : worker'[v] = worker[v]
    <3>1. [worker[w] EXCEPT !.pc = "claimed"] \in Locals
      BY <1>0 DEF Locals, Busy
    <3> QED BY <1>0, <2>1, <3>1 DEF Does, AtWork, Task, Locals, t
  <2>7. Listed' /\ Queued'
    BY <1>0, <2>4 DEF Listed, Queued
  <2>8. RowsTyped'
    BY <1>1, <2>4, <2>5 DEF RowsTyped, Looser
  <2>9. AtWork'
    BY <1>0, <2>4, <2>6 DEF AtWork, Task, In
  <2>10. Unheld'
    <3> SUFFICES ASSUME NEW v \in Worker, worker'[v].pc \in Empty, NEW u \in DOMAIN row PROVE row'[u].holder # v
      BY <2>4 DEF Unheld
    <3>1. v # w /\ row[u].holder # v
      BY <2>6 DEF Unheld, Empty
    <3> QED BY <1>1, <2>4, <2>5, <3>1 DEF Looser
  <2>11. Recorded'
    <3>1. \A u \in DOMAIN row : row'[u].state = "done" <=> row[u].state = "done"
      BY <1>1, <2>2, <2>4, <2>5 DEF Looser
    <3> QED BY <1>0, <2>4, <3>1 DEF Recorded
  <2> QED BY <2>7, <2>8, <2>9, <2>10, <2>11
<1> QED BY <1>2, <1>3

\* The source is checked and built, one worker at a time (worker.py:83-94).
LEMMA BuildKeeps ==
  ASSUME DInv, Typed, NEW w \in Worker, CheckSource(w) \/ Build(w)
  PROVE  DInv'
<1> USE DEF DInv
<1>0. /\ worker[w] \in Locals /\ Task(w) \in BatchTask /\ Task(w) \in DOMAIN row
      /\ worker[w].pc \in {"claimed", "waiting"} /\ worker[w].todo \subseteq DOMAIN row
      /\ UNCHANGED <<created, pending>>
  BY DEF CheckSource, Build, AtWork, In, Busy
<1>r. ASSUME Raises(w) PROVE DInv'
  BY <1>0, <1>r, RaisesKeeps
<1>1. CASE CheckSource(w) /\ ~Raises(w)
  <2> DEFINE locals == [worker[w] EXCEPT !.pc = "waiting"]
  <2>1. Does(w, locals) /\ UNCHANGED <<row, intent, made>>
    BY <1>1 DEF CheckSource
  <2>2. locals \in Locals /\ locals.pc = "waiting" /\ locals.todo = worker[w].todo /\ locals.task = worker[w].task
    BY <1>0 DEF Locals, Busy
  <2> HIDE DEF locals
  <2> QED BY <1>0, <2>1, <2>2, LocalKeeps DEF Queued, Empty, Task
<1>2. CASE Build(w) /\ ~Raises(w)
  <2> DEFINE content == file[Task(w)[2]]
             locals == [worker[w] EXCEPT !.pc = "building", !.built = content]
  <2>1. Does(w, locals) /\ intent' = Noted(intent, Task(w), content) /\ UNCHANGED <<row, made>>
    BY <1>2 DEF Build
  <2>2. Task(w)[2] \in File /\ content \in Content
    BY <1>0 DEF BatchTask, Typed
  <2>3. /\ locals \in Locals /\ locals.pc = "building" /\ locals.todo = worker[w].todo
        /\ locals.task = worker[w].task
    BY <1>0, <2>2 DEF Locals, Busy
  <2>4. DOMAIN intent' = DOMAIN intent \cup {Task(w)}
    BY <2>1 DEF Noted
  <2> HIDE DEF locals
  <2> QED BY <1>0, <2>1, <2>3, <2>4, LocalKeeps DEF Queued, Empty, Task
<1> QED BY <1>r, <1>1, <1>2

\* The task is done and its batch recorded, or the worker is too late (durable.py:220-233).
LEMMA IntegrateKeeps == ASSUME DInv, NEW w \in Worker, Integrate(w) PROVE DInv'
<1> USE DEF DInv
<1> DEFINE t == Task(w)
<1>0. /\ worker[w] \in Locals /\ t \in BatchTask /\ t \in DOMAIN row /\ t \in DOMAIN intent
      /\ worker[w].pc = "building" /\ UNCHANGED <<created, pending>>
  BY DEF Integrate, AtWork, In, Busy
<1>r. ASSUME Raises(w) PROVE DInv'
  BY <1>0, <1>r, RaisesKeeps
<1>1. CASE ~Raises(w)
  <2> DEFINE locals == [worker[w] EXCEPT !.pc = "built"]
  <2>1. /\ row' = [row EXCEPT ![t].state = "done"] /\ made' = Noted(made, t, worker[w].built)
        /\ Does(w, locals) /\ UNCHANGED intent
    BY <1>1 DEF Integrate
  <2>2. locals \in Locals /\ locals.pc = "built" /\ locals.todo = worker[w].todo /\ locals.task = t
    BY <1>0 DEF Locals, Busy, Task
  <2> HIDE DEF locals, t
  <2>3. /\ DOMAIN row' = DOMAIN row /\ row' = [u \in DOMAIN row |-> row'[u]]
        /\ row'[t] = [row[t] EXCEPT !.state = "done"]
        /\ \A u \in DOMAIN row : u # t => row'[u] = row[u]
    BY <1>0, <2>1 DEF RowsTyped
  <2>4. row'[t] \in Row /\ row'[t].state = "done" /\ row'[t].holder = row[t].holder
    <3>1. row[t] \in Row
      BY <1>0 DEF RowsTyped
    <3> QED BY <2>3, <3>1 DEF Row
  <2>5. /\ worker' \in [Worker -> Locals] /\ worker'[w] = locals
        /\ \A v \in Worker \ {w} : worker'[v] = worker[v]
    BY <2>1, <2>2 DEF Does, AtWork
  <2>6. Listed' /\ Queued'
    BY <1>0, <2>3 DEF Listed, Queued
  <2>7. RowsTyped'
    BY <2>3, <2>4 DEF RowsTyped
  <2>8. AtWork'
    BY <1>0, <2>1, <2>2, <2>3, <2>5 DEF AtWork, Task, In
  <2>9. Unheld'
    <3> SUFFICES ASSUME NEW v \in Worker, worker'[v].pc \in Empty, NEW u \in DOMAIN row PROVE row'[u].holder # v
      BY <2>3 DEF Unheld
    <3>1. v # w /\ row[u].holder # v
      BY <2>2, <2>5 DEF Unheld, Empty
    <3> QED BY <2>3, <2>4, <3>1
  <2>10. Recorded'
    <3>1. DOMAIN made' = DOMAIN made \cup {t}
      BY <2>1 DEF Noted
    <3> QED BY <1>0, <2>1, <2>3, <2>4, <3>1 DEF Recorded
  <2> QED BY <2>6, <2>7, <2>8, <2>9, <2>10
<1> QED BY <1>r, <1>1

\* An acknowledged delivery is of no invocation any more (durable.py:360-365, worker.py:61).
LEMMA AcknowledgeKeeps == ASSUME DInv, NEW w \in Worker, Acknowledge(w) PROVE DInv'
<1>0. worker[w] \in Locals /\ UNCHANGED <<created, pending>>
  BY DEF Acknowledge, DInv, AtWork
<1>r. ASSUME Raises(w) PROVE DInv'
  BY <1>0, <1>r, RaisesKeeps
<1>1. CASE ~Raises(w)
  <2> DEFINE handled == worker[w].handled + 1
             next == [Off EXCEPT !.pc = "ready", !.handled = handled]
             locals == IF handled = MaxTasks THEN Off ELSE next
  <2>1. Does(w, locals) /\ row' = Left(w) /\ UNCHANGED <<intent, made>>
    BY <1>1 DEF Acknowledge
  <2>2. handled # MaxTasks => next \in Locals /\ next.pc = "ready" /\ next.todo = {}
    <3>1. handled # MaxTasks => handled \in 0..(MaxTasks - 1)
      BY <1>0, DeliveryAssumption DEF Locals
    <3> HIDE DEF handled
    <3> QED BY <3>1, OffTyped DEF Off, Locals, Empty
  <2>3. locals \in Locals /\ locals.pc \in {"off", "ready"} /\ locals.todo = {}
    BY <2>2, OffTyped
  <2> HIDE DEF locals
  <2>4. Looser(Left(w)) /\ \A t \in DOMAIN row : Left(w)[t].holder # w
    BY LeftLoose DEF DInv
  <2> QED BY <1>0, <2>1, <2>3, <2>4, EndKeeps
<1> QED BY <1>r, <1>1

\* A row for a new task, at most (durable.py:157-170).
LEMMA EnqueueKeeps ==
  ASSUME DInv, NEW t \in Tasks, Enqueue(t), UNCHANGED deliveryVars
  PROVE  DInv'
<1> USE DEF DInv, deliveryVars
<1>1. /\ DOMAIN row' = DOMAIN row \cup {t} /\ row' = [u \in DOMAIN row \cup {t} |-> row'[u]]
      /\ \A u \in DOMAIN row : row'[u] = row[u]
      /\ t \notin DOMAIN row => row'[t] = Pending
  BY DEF Enqueue
<1>2. Pending \in Row /\ Pending.state = "pending" /\ Pending.holder = None
  BY DeliveryAssumption DEF Pending, Row
<1>3. Listed'
  <2>1. CASE t \in DOMAIN row
    <3>1. created' = created /\ DOMAIN row' = DOMAIN row
      BY <1>1, <2>1 DEF Enqueue
    <3> QED BY <3>1 DEF Listed
  <2>2. CASE t \notin DOMAIN row
    <3>1. created' = Append(created, t)
      BY <2>2 DEF Enqueue
    <3>2. created \in Seq(Tasks) /\ t \notin ToSet(created)
      BY <2>2 DEF Listed
    <3>3. /\ created' \in Seq(Tasks) /\ Len(created) \in Nat
          /\ DOMAIN created = 1..Len(created) /\ DOMAIN created' = 1..(Len(created) + 1)
          /\ created'[Len(created) + 1] = t /\ \A i \in 1..Len(created) : created'[i] = created[i]
      BY <3>1, <3>2
    <3>4. ToSet(created') = ToSet(created) \cup {t}
      BY <3>3 DEF ToSet
    <3>5. \A i \in 1..Len(created) : created[i] # t
      BY <3>2, <3>3 DEF ToSet
    <3>6. IsInjective(created')
      <4> SUFFICES ASSUME NEW i \in DOMAIN created', NEW j \in DOMAIN created', created'[i] = created'[j] PROVE i = j
        BY DEF IsInjective
      <4>1. CASE i = Len(created) + 1 \/ j = Len(created) + 1
        BY <3>3, <3>5, <4>1
      <4>2. CASE i \in 1..Len(created) /\ j \in 1..Len(created)
        BY <3>3, <4>2 DEF Listed, IsInjective
      <4> QED BY <3>3, <4>1, <4>2
    <3> QED BY <1>1, <3>3, <3>4, <3>6 DEF Listed
  <2> QED BY <2>1, <2>2
<1>4. RowsTyped'
  BY <1>1, <1>2 DEF RowsTyped
<1>5. Queued' /\ AtWork'
  BY <1>1 DEF Queued, AtWork, Task, In
<1>6. Unheld'
  BY <1>1, <1>2, DeliveryAssumption DEF Unheld
<1>7. Recorded'
  <2>1. \A u \in DOMAIN row' : row'[u].state = "done" <=> (u \in DOMAIN row /\ row[u].state = "done")
    BY <1>1, <1>2
  <2> QED BY <1>1, <2>1 DEF Recorded
<1> QED BY <1>3, <1>4, <1>5, <1>6, <1>7

LEMMA IntakeKeeps == ASSUME DInv, IInv, IntakeNext, UNCHANGED deliveryVars PROVE DInv'
<1>0. UNCHANGED ledger => DInv'
  BY DEF ledger, deliveryVars, DInv, Listed, RowsTyped, Queued, AtWork, Unheld, Recorded, Task, In
<1>1. CASE Edit
  BY <1>0, <1>1 DEF Edit
<1>2. ASSUME NEW p \in Producer, Produce(p) \/ ProducerFails(p) PROVE DInv'
  <2>1. CASE EnqueueNext(p)
    <3>1. producer[p].staged \in Seq(Submission) /\ producer[p].staged # <<>>
      BY <2>1 DEF IInv, Typed, EnqueueNext, At, Staging, Command
    <3>2. Head(producer[p].staged) \in Tasks
      BY <3>1 DEF Tasks
    <3> QED BY <2>1, <3>2, EnqueueKeeps DEF EnqueueNext
  <2> QED BY <1>0, <1>2, <2>1 DEF Produce, Read, Stamp, Link, Parse, Check, ProducerFails
<1>3. ASSUME NEW x \in Expander, ReadFrontier(x) \/ Decide(x) \/ SaveFrontier(x) \/ ExpanderFails(x) PROVE DInv'
  <2>1. CASE Decide(x)
    <3> DEFINE c == Candidates[x][expander[x].next]
    <3>1. c \in ToSet(Candidates[x])
      BY <2>1, IntakeAssumption DEF Decide, IInv, Typed, Expansion, ToSet
    <3>2. Child(x, c) \in Tasks
      BY <3>1 DEF Child, ChildTask, Key, Candidate, Tasks
    <3>3. UNCHANGED ledger \/ Enqueue(Child(x, c))
      BY <2>1 DEF Decide
    <3> QED BY <1>0, <3>2, <3>3, EnqueueKeeps
  <2> QED BY <1>0, <1>3, <2>1 DEF ReadFrontier, SaveFrontier, ExpanderFails
<1> QED BY <1>1, <1>2, <1>3 DEF IntakeNext

LEMMA DeliveryKept == ASSUME DInv, IInv, [Next]_vars PROVE DInv'
<1>0. UNCHANGED <<ledger, pending, intent, made, worker>> => DInv'
  BY DEF ledger, DInv, Listed, RowsTyped, Queued, AtWork, Unheld, Recorded, Task, In
<1>1. CASE UNCHANGED vars
  BY <1>0, <1>1 DEF vars, intakeVars, deliveryVars
<1>2. ASSUME NEW w \in Worker, Step(w) PROVE DInv'
  <2>1. CASE BuildFails(w)
    BY <2>1, RaisesKeeps DEF BuildFails
  <2> QED BY <1>2, <2>1, DeliveriesKeep, ClaimKeeps, BuildKeeps, IntegrateKeeps, AcknowledgeKeeps DEF Step, IInv
<1>3. ASSUME NEW w \in Worker, Crash(w) PROVE DInv'
  <2>1. Looser(Left(w)) /\ \A t \in DOMAIN row : Left(w)[t].holder # w
    BY LeftLoose DEF DInv
  <2> QED BY <1>3, <2>1, OffTyped, EndKeeps DEF Crash
<1>4. ASSUME NEW t \in DOMAIN row, Lapse(t) PROVE DInv'
  BY <1>0, <1>4 DEF Lapse, intakeVars
<1> QED BY <1>1, <1>2, <1>3, <1>4, DeliveriesKeep, IntakeKeeps DEF Next, Finished

\* No lease is held by a worker that does not know of it, no delivery is of a
\* task that is not a source batch of the ledger, no task is claimed more often
\* than it may be, and those done are the ones whose prepared batch is integrated,
\* whatever is delivered twice, lost with a worker, or late (durable.py:328-365,
\* worker.py:57-104).
THEOREM DeliveryTypes == Spec => []TypeOK
<1>1. DeliveryInit => DInv
  <2> SUFFICES ASSUME DeliveryInit PROVE DInv
    OBVIOUS
  <2>1. row = <<>> /\ created = <<>> /\ pending = <<>> /\ made = <<>> /\ worker = [w \in Worker |-> Off]
    BY DEF DeliveryInit, Init
  <2>2. DOMAIN row = {}
    BY <2>1
  <2>3. Listed /\ RowsTyped
    BY <2>1, <2>2 DEF Listed, RowsTyped, ToSet, IsInjective
  <2>4. Queued /\ Unheld /\ Recorded
    BY <2>1, <2>2 DEF Queued, Unheld, Recorded, ToSet
  <2>5. AtWork
    BY <2>1, OffTyped DEF AtWork, Busy, In, Task
  <2> QED BY <2>3, <2>4, <2>5 DEF DInv
<1>2. Spec => []DInv
  BY <1>1, Inductive, DeliveryKept, PTL DEF Spec
<1>3. DInv => TypeOK
  <2> SUFFICES ASSUME DInv PROVE TypeOK
    OBVIOUS
  <2> USE DEF DInv
  <2>1. ASSUME NEW w \in Worker
        PROVE  /\ worker[w].pc \in {"off", "push", "ready", "moved", "claimed", "waiting", "building", "built"}
               /\ worker[w].handled \in 0..(MaxTasks - 1)
               /\ worker[w].pc \in {"off", "push", "ready"} => \A t \in DOMAIN row : row[t].holder # w
    <3>1. worker[w] \in Locals
      BY DEF AtWork
    <3> QED BY <3>1 DEF Locals, Empty, Busy, Unheld
  <2>2. \A t \in DOMAIN row : row[t].attempts \in 0..MaxAttempts
    BY DEF RowsTyped, Row
  <2>3. ToSet(pending) \subseteq {t \in DOMAIN row : t[1] = "construction"}
    BY DEF Queued, ToSet, BatchTask
  <2> QED BY <2>1, <2>2, <2>3 DEF TypeOK, Listed, Recorded
<1> QED BY <1>2, <1>3, PTL
=============================================================================
