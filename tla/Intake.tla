------------------------------- MODULE Intake -------------------------------
(***************************************************************************)
(* What comes in (core/artifacts.py, construction/worker.py, construction/ *)
(* seeds.py): files are captured in the artifact store, by several         *)
(* producers at once, and become tasks of the ledger, source batches to    *)
(* build or researchers to discover; expansions add tasks for what a       *)
(* researcher's records lead to, under a frontier checkpoint that counts   *)
(* what was seen.  The files may be edited at any moment.                  *)
(*                                                                         *)
(* A digest is the content it is the digest of, a time is the producer     *)
(* that took it, and a task is the payload that identifies it.             *)
(***************************************************************************)
EXTENDS Naturals, Sequences, FiniteSets, SequencesExt

CONSTANTS File, Content,
          Original,     \* the content of every file at first (bound)
          Producer,     \* the commands that capture: queue-build and seeds
          Jobs,         \* [kind, inputs] by producer: "queue", "csv" or "xlsx"
          Expander,     \* the expansions
          Agendas,      \* the commands of one behaviour, "edit" if files are edited
          Candidates,   \* by expansion: sequences of [key, outside, sourced]
          Depth,        \* by expansion: the depth of its parent
          MaxDepth, MaxEntities,
          MaxEdits,     \* bound on edits of the files
          MaxTries,     \* bound on calls of an expansion
          None

\* A file is a workbook or not; a reason to leave a candidate out is not the one
\* to include it.
ASSUME IntakeAssumption ==
  /\ Original \in Content /\ MaxEntities \in Nat /\ MaxEdits \in Nat
  /\ \A p \in Producer : Jobs[p].kind \in {"queue", "csv", "xlsx"} /\ Jobs[p].inputs \in Seq(File) \ {<<>>}
  /\ \A p, q \in Producer : Jobs[p].kind = "csv" /\ Jobs[q].kind = "xlsx" =>
       ToSet(Jobs[p].inputs) \cap ToSet(Jobs[q].inputs) = {}
  /\ \A x \in Expander : /\ Candidates[x] \in Seq(ToSet(Candidates[x]))
                         /\ \A c \in ToSet(Candidates[x]) : c.outside # "included"

VARIABLES file,       \* the content of each file
          edits,      \* edits so far (bound), also the version a stat shows
          store,      \* the contents published in the store
          stamp,      \* of each content, the time in its published metadata
          row,        \* the ledger: rows by task, of [state, holder, attempts]
          created,    \* the tasks in the order of their rows
          producer,   \* of each: its locals
          expander,
          frontier    \* the checkpoint: [seen, decisions, revision]

ledger == <<row, created>>
artifacts == <<store, stamp>>
intakeVars == <<file, edits, artifacts, ledger, producer, expander, frontier>>

Pending == [state |-> "pending", holder |-> None, attempts |-> 0]

Init ==
  /\ file = [f \in File |-> Original]
  /\ store = {} /\ stamp = [c \in Content |-> None]
  /\ row = <<>> /\ created = <<>>
  /\ \E agenda \in Agendas :
       /\ edits = IF "edit" \in agenda THEN 0 ELSE MaxEdits
       /\ LET first(command, pc) == IF command \in agenda THEN pc ELSE "off" IN
          /\ producer = [p \in Producer |-> [pc |-> first(p, "read"), entry |-> 1, data |-> None,
                                             version |-> 0, record |-> None, staged |-> <<>>]]
          /\ expander = [x \in Expander |-> [pc |-> first(x, "idle"), next |-> 1, tries |-> 0,
                                             seen |-> <<>>, decisions |-> <<>>, revision |-> 0]]
  /\ frontier = [seen |-> <<>>, decisions |-> <<>>, revision |-> 0]

Edit ==
  /\ edits < MaxEdits /\ edits' = edits + 1
  /\ \E f \in File, c \in Content : file' = [file EXCEPT ![f] = c]
  /\ UNCHANGED <<artifacts, ledger, producer, expander, frontier>>

\* ON CONFLICT DO NOTHING.
Enqueue(t) ==
  /\ row' = [u \in DOMAIN row \cup {t} |-> IF u \in DOMAIN row THEN row[u] ELSE Pending]
  /\ created' = IF t \in DOMAIN row THEN created ELSE Append(created, t)

-----------------------------------------------------------------------------
\* The commands that capture.

Kind(p) == Jobs[p].kind
Input(p) == Jobs[p].inputs[producer[p].entry]
At(p, pc) == producer[p].pc = pc
Becomes(p, locals) == producer' = [producer EXCEPT ![p] = locals]
Outside(p) == UNCHANGED <<file, edits, expander, frontier>>

\* What is read is put in the store, unless it is a workbook, of which only the
\* digest is taken: by put_bytes, which links the content in place if it is new.
Read(p) ==
  /\ At(p, "read") /\ Outside(p) /\ UNCHANGED <<stamp, ledger>>
  /\ store' = IF Kind(p) = "xlsx" THEN store ELSE store \cup {file[Input(p)]}
  /\ Becomes(p, [producer[p] EXCEPT !.data = file[Input(p)], !.version = edits, !.record = None,
                                    !.pc = IF Kind(p) = "xlsx" THEN "parse" ELSE "stamp"])

\* Captured, a source batch is staged, a cohort parsed and a workbook checked.
Captured(p, time) ==
  LET more == producer[p].entry < Len(Jobs[p].inputs)
      batch == <<"construction", Input(p), producer[p].data>>
  IN  IF Kind(p) = "queue"
      THEN [producer[p] EXCEPT !.record = time, !.staged = Append(@, batch),
                               !.entry = IF more THEN @ + 1 ELSE @,
                               !.pc = IF more THEN "read" ELSE "enqueue"]
      ELSE [producer[p] EXCEPT !.record = time, !.pc = IF Kind(p) = "csv" THEN "parse" ELSE "check"]

\* capture: the metadata, if published, is returned; else made, with this time.
Stamp(p) ==
  /\ At(p, "stamp") /\ Outside(p) /\ UNCHANGED <<artifacts, ledger>>
  /\ LET published == stamp[producer[p].data] IN
     Becomes(p, IF published # None THEN Captured(p, published) ELSE [producer[p] EXCEPT !.pc = "link"])

\* Faulty variant of Link: the metadata replaces what is published.
LinkReplaces(p) ==
  /\ At(p, "link") /\ Outside(p) /\ UNCHANGED <<store, ledger>>
  /\ stamp' = [stamp EXCEPT ![producer[p].data] = p]
  /\ Becomes(p, Captured(p, p))

\* It is published by a link, which fails if another's is there, and read again.
Link(p) ==
  /\ At(p, "link") /\ Outside(p) /\ UNCHANGED <<store, ledger>>
  /\ stamp' = [stamp EXCEPT ![producer[p].data] = IF @ = None THEN p ELSE @]
  /\ Becomes(p, Captured(p, stamp'[producer[p].data]))

\* The rows are parsed from the file as it is by now; of a workbook, they are
\* captured as well.
Parse(p) ==
  /\ At(p, "parse") /\ Outside(p) /\ UNCHANGED <<stamp, ledger>>
  /\ LET parsed == file[Input(p)]
         staged == <<<<"researcher", Input(p), producer[p].data, parsed>>>>
     IN  IF Kind(p) = "xlsx"
         THEN /\ store' = store \cup {parsed}
              /\ Becomes(p, [producer[p] EXCEPT !.pc = "stamp", !.data = parsed, !.staged = staged])
         ELSE UNCHANGED store /\ Becomes(p, [producer[p] EXCEPT !.pc = "enqueue", !.staged = staged])

\* A workbook's time and size are compared.
Unchanged(p) == edits = producer[p].version

Check(p) ==
  /\ At(p, "check") /\ Outside(p) /\ UNCHANGED <<artifacts, ledger>>
  /\ Becomes(p, [producer[p] EXCEPT !.pc = IF Unchanged(p) THEN "enqueue" ELSE "failed"])

\* The tasks, each by a transaction of its own.
EnqueueNext(p) ==
  /\ At(p, "enqueue") /\ Outside(p) /\ UNCHANGED artifacts
  /\ Enqueue(Head(producer[p].staged))
  /\ Becomes(p, [producer[p] EXCEPT !.staged = Tail(@),
                                    !.pc = IF Len(producer[p].staged) = 1 THEN "done" ELSE "enqueue"])

\* Killed, or refused by a budget.
ProducerFails(p) ==
  /\ producer[p].pc \notin {"off", "done", "failed"} /\ Outside(p) /\ UNCHANGED <<artifacts, ledger>>
  /\ Becomes(p, [producer[p] EXCEPT !.pc = "failed"])

Produce(p) == Read(p) \/ Stamp(p) \/ Link(p) \/ Parse(p) \/ Check(p) \/ EnqueueNext(p)

-----------------------------------------------------------------------------
\* Expansions.

Decides(x, locals) == expander' = [expander EXCEPT ![x] = locals]
Fails(x) == Decides(x, [expander[x] EXCEPT !.pc = "failed"])
Apart(x) == UNCHANGED <<file, edits, artifacts, producer>>
Child(x, c) == <<"child", c.key, x>>

\* read_checkpoint
ReadFrontier(x) ==
  /\ expander[x].pc \in {"idle", "failed"} /\ expander[x].tries < MaxTries
  /\ Decides(x, [pc |-> "deciding", next |-> 1, tries |-> expander[x].tries + 1, seen |-> frontier.seen,
                 decisions |-> frontier.decisions, revision |-> frontier.revision])
  /\ Apart(x) /\ UNCHANGED <<ledger, frontier>>

\* Faulty variant of Reason: the limit is passed by one.
ReasonOneMore(x, c) ==
  CASE Depth[x] >= MaxDepth -> "depth_limit"
    [] c.outside # None -> c.outside
    [] c.key \in ToSet(expander[x].seen) -> "already_seen"
    [] Len(expander[x].seen) > MaxEntities -> "entity_limit"
    [] OTHER -> "included"

Reason(x, c) ==
  CASE Depth[x] >= MaxDepth -> "depth_limit"
    [] c.outside # None -> c.outside
    [] c.key \in ToSet(expander[x].seen) -> "already_seen"
    [] Len(expander[x].seen) >= MaxEntities -> "entity_limit"
    [] OTHER -> "included"

\* The next candidate; one that is included is enqueued at once, and has to
\* have a source.
Decide(x) ==
  /\ expander[x].pc = "deciding" /\ expander[x].next <= Len(Candidates[x])
  /\ LET c == Candidates[x][expander[x].next]
         reason == Reason(x, c)
         decided == [expander[x] EXCEPT !.next = @ + 1, !.decisions = Append(@, <<c.key, reason>>)]
     IN  \/ reason # "included" /\ Decides(x, decided) /\ UNCHANGED ledger
         \/ reason = "included" /\ ~c.sourced /\ Fails(x) /\ UNCHANGED ledger
         \/ /\ reason = "included" /\ c.sourced
            /\ Enqueue(Child(x, c)) /\ Decides(x, [decided EXCEPT !.seen = Append(@, c.key)])
  /\ Apart(x) /\ UNCHANGED frontier

Decided(x) == expander[x].pc = "deciding" /\ expander[x].next > Len(Candidates[x])

\* Faulty variant of FrontierCurrent: the checkpoint is not compared.
FrontierCurrentAlways(x) == TRUE

FrontierCurrent(x) == frontier.revision = expander[x].revision

\* checkpoint: by compare and set.
SaveFrontier(x) ==
  /\ Decided(x) /\ Apart(x) /\ UNCHANGED ledger
  /\ IF FrontierCurrent(x)
     THEN /\ frontier' = [seen |-> expander[x].seen, decisions |-> expander[x].decisions,
                          revision |-> frontier.revision + 1]
          /\ Decides(x, [expander[x] EXCEPT !.pc = "done"])
     ELSE Fails(x) /\ UNCHANGED frontier

ExpanderFails(x) ==
  /\ expander[x].pc = "deciding" /\ Fails(x)
  /\ Apart(x) /\ UNCHANGED <<ledger, frontier>>

IntakeNext ==
  \/ Edit
  \/ \E p \in Producer : Produce(p) \/ ProducerFails(p)
  \/ \E x \in Expander : ReadFrontier(x) \/ Decide(x) \/ SaveFrontier(x) \/ ExpanderFails(x)

-----------------------------------------------------------------------------
\* Properties.

\* All who captured a content hold the time that is published for it, whoever
\* published first (artifacts.py:59-80); what a task names is in the store, and
\* the seeds of a workbook are of the content that they name (seeds.py:132-134).
CapturesAgree ==
  /\ \A p \in Producer : producer[p].record # None =>
       producer[p].data \in store /\ producer[p].record = stamp[producer[p].data]
  /\ \A t \in DOMAIN row : t[1] # "child" =>
       /\ t[Len(t)] \in store \/ t[3] \in store
       /\ t[1] = "researcher" /\ (\E p \in Producer : Kind(p) = "xlsx" /\ t[2] \in ToSet(Jobs[p].inputs))
            => t[3] = t[4]

\* Whatever is in the frontier has a task, and a task that it does not count is
\* that of an expansion which is still running or failed, if only at first
\* (seeds.py:70-73); the frontier names an entity once, within the limit.
FrontierSound ==
  /\ IsInjective(frontier.seen) /\ Len(frontier.seen) <= MaxEntities
  /\ \A i \in DOMAIN frontier.seen : \E x \in Expander : <<"child", frontier.seen[i], x>> \in DOMAIN row
  /\ \A t \in DOMAIN row : t[1] = "child" =>
       \/ t[2] \in ToSet(frontier.seen)
       \/ expander[t[3]].pc \in {"deciding", "failed"} \/ expander[t[3]].tries > 1

\* No expansion loses what another one saved (durable.py:257-269).
FrontierGrows ==
  [][IsPrefix(frontier.seen, frontier'.seen) /\ IsPrefix(frontier.decisions, frontier'.decisions)]_frontier
=============================================================================
