--------------------------- MODULE ExtractionCache ---------------------------
(***************************************************************************)
(* The extraction cache of core/cache.py as workers use it in              *)
(* extract_records (workflows.py:43-70): a per-process tier, an optional   *)
(* Redis tier that may fail, expire or lose its contents, and the durable  *)
(* pointer in the checkpoint table, written once by compare-and-set.       *)
(*                                                                         *)
(* A pointer is the digest of {cache_key, result}: here the pair itself.   *)
(* The artifact behind a pointer is immutable and stored before the        *)
(* pointer is published.  Every ledger call is one transaction.            *)
(***************************************************************************)
EXTENDS Naturals, FiniteSets

CONSTANTS
  Key,        \* complete dependency keys
  Result,     \* results an extraction of a key may come up with
  Worker,     \* worker processes
  Capacity,   \* of the per-process tier
  NoKey, NoResult

ASSUME CacheAssumption == /\ NoKey \notin Key
                          /\ NoResult \notin Result
                          /\ Capacity \in Nat \ {0}

VARIABLES
  durable,    \* durable[k]: result in the checkpoint 'extraction:k' (revision 1), or NoResult (revision 0)
  l2,         \* the Redis tier
  l1,         \* l1[w]: pointers <<key, result>> in the OrderedDict of w
  at,         \* where get or put of w stands
  key,        \* its key
  made,       \* the result its extraction produced
  used        \* the pointers whose results builds went on with

vars == <<durable, l2, l1, at, key, made, used>>

Places == {"idle", "redis", "checkpoint", "extract", "check", "write", "reread", "publish"}

Init == /\ durable = [k \in Key |-> NoResult]
        /\ l2 = [k \in Key |-> NoResult]
        /\ l1 = [w \in Worker |-> {}]
        /\ at = [w \in Worker |-> "idle"]
        /\ key = [w \in Worker |-> NoKey]
        /\ made = [w \in Worker |-> NoResult]
        /\ used = {}

Go(w, place) == at' = [at EXCEPT ![w] = place]

\* Faulty variant of Kept: the tier grows without bound.
KeptAll(old, p) == {old \cup {p}}

\* _remember: what the tier may hold after p, the oldest entry going first.
\* Which entry is oldest is left open.
Kept(old, p) == IF Cardinality(old \cup {p}) <= Capacity
                THEN {old \cup {p}}
                ELSE {(old \cup {p}) \ {q} : q \in old \ {p}}

\* get or put returns the result of pointer p to the build.
Give(w, p) == /\ Go(w, "idle")
              /\ \E kept \in Kept(l1[w], p) : l1' = [l1 EXCEPT ![w] = kept]
              /\ used' = used \cup {p}

-----------------------------------------------------------------------------
\* get

\* A hit in the process's own tier, or on to the next one.
Get(w, k) ==
  /\ at[w] = "idle"
  /\ key' = [key EXCEPT ![w] = k]
  /\ \/ \E r \in Result : <<k, r>> \in l1[w] /\ Give(w, <<k, r>>)
     \/ /\ \A r \in Result : <<k, r>> \notin l1[w]
        /\ Go(w, "redis")
        /\ UNCHANGED <<l1, used>>
  /\ UNCHANGED <<durable, l2, made>>

\* A Redis hit; or a miss or any Redis error, and on to the checkpoint.
GetRedis(w) ==
  /\ at[w] = "redis"
  /\ \/ l2[key[w]] # NoResult /\ Give(w, <<key[w], l2[key[w]]>>)
     \/ Go(w, "checkpoint") /\ UNCHANGED <<l1, used>>
  /\ UNCHANGED <<durable, l2, key, made>>

GetDurable(w) ==
  /\ at[w] = "checkpoint"
  /\ \/ durable[key[w]] # NoResult /\ Give(w, <<key[w], durable[key[w]]>>)
     \/ durable[key[w]] = NoResult /\ Go(w, "extract") /\ UNCHANGED <<l1, used>>
  /\ UNCHANGED <<durable, l2, key, made>>

-----------------------------------------------------------------------------
\* put

\* The miss: the source is parsed and the artifact stored.
Extract(w, r) ==
  /\ at[w] = "extract"
  /\ made' = [made EXCEPT ![w] = r]
  /\ Go(w, "check")
  /\ UNCHANGED <<durable, l2, l1, key, used>>

\* Faulty variant of Check: takes any previous result for its own.
CheckPresence(w) ==
  /\ at[w] = "check"
  /\ Go(w, IF durable[key[w]] = NoResult THEN "write" ELSE "publish")
  /\ UNCHANGED <<durable, l2, l1, key, made, used>>

\* 'Deterministic extraction changed under the same dependency key' ends it.
Check(w) ==
  /\ at[w] = "check"
  /\ Go(w, CASE durable[key[w]] = NoResult -> "write"
             [] durable[key[w]] = made[w] -> "publish"
             [] OTHER -> "idle")
  /\ UNCHANGED <<durable, l2, l1, key, made, used>>

\* Compare-and-set against the revision read by Check.
Write(w) ==
  /\ at[w] = "write"
  /\ \/ /\ durable[key[w]] = NoResult
        /\ durable' = [durable EXCEPT ![key[w]] = made[w]]
        /\ Go(w, "publish")
     \/ /\ durable[key[w]] # NoResult
        /\ Go(w, "reread")
        /\ UNCHANGED durable
  /\ UNCHANGED <<l2, l1, key, made, used>>

\* Faulty variant of Reread: the lost compare-and-set is ignored.
RereadNothing(w) ==
  /\ at[w] = "reread"
  /\ Go(w, "publish")
  /\ UNCHANGED <<durable, l2, l1, key, made, used>>

\* The race was lost: to the same artifact, or to another and the build fails.
Reread(w) ==
  /\ at[w] = "reread"
  /\ Go(w, IF durable[key[w]] = made[w] THEN "publish" ELSE "idle")
  /\ UNCHANGED <<durable, l2, l1, key, made, used>>

\* Redis is set, or its outage is ignored.
Publish(w) ==
  /\ at[w] = "publish"
  /\ l2' \in {l2, [l2 EXCEPT ![key[w]] = made[w]]}
  /\ Give(w, <<key[w], made[w]>>)
  /\ UNCHANGED <<durable, key, made>>

-----------------------------------------------------------------------------
\* Time to live, eviction or restart of Redis.
Expire(k) ==
  /\ l2[k] # NoResult
  /\ l2' = [l2 EXCEPT ![k] = NoResult]
  /\ UNCHANGED <<durable, l1, at, key, made, used>>

\* The invocation ends, or its process dies at any place: its own tier is gone.
Crash(w) ==
  /\ at[w] # "idle" \/ l1[w] # {}
  /\ Go(w, "idle")
  /\ l1' = [l1 EXCEPT ![w] = {}]
  /\ UNCHANGED <<durable, l2, key, made, used>>

Next == \/ \E w \in Worker : \/ \E k \in Key : Get(w, k)
                             \/ GetRedis(w) \/ GetDurable(w)
                             \/ \E r \in Result : Extract(w, r)
                             \/ Check(w) \/ Write(w) \/ Reread(w) \/ Publish(w)
                             \/ Crash(w)
        \/ \E k \in Key : Expire(k)

Spec == Init /\ [][Next]_vars

-----------------------------------------------------------------------------
\* Properties.

\* Types, and the bound of the per-process tier (cache.py:66-67).
TypeOK ==
  /\ durable \in [Key -> Result \cup {NoResult}]
  /\ l2 \in [Key -> Result \cup {NoResult}]
  /\ \A w \in Worker : l1[w] \subseteq Key \X Result /\ Cardinality(l1[w]) <= Capacity
  /\ at \in [Worker -> Places]
  /\ key \in [Worker -> Key \cup {NoKey}]
  /\ made \in [Worker -> Result \cup {NoResult}]
  /\ used \subseteq Key \X Result

\* "Durable evidence remains authoritative" (cache.py:60): no process's tier and
\* no Redis entry ever points at a result other than the durable one, through
\* races of two builds of a key, outages, expiry and restarts of processes.
TiersAgree ==
  /\ \A k \in Key : l2[k] \in {NoResult, durable[k]}
  /\ \A w \in Worker : \A p \in l1[w] : durable[p[1]] = p[2]

\* The cache implements WriteOnce: all builds of a key go on with one result.
Abstract == INSTANCE WriteOnce WITH fixed <- durable
ImplementsWriteOnce == Abstract!Spec
=============================================================================
