------------------------ MODULE ExtractionCacheProofs ------------------------
(***************************************************************************)
(* The tiers of the extraction cache agree, the per-process tier keeps its *)
(* bound, and the cache implements WriteOnce, for any keys, results,       *)
(* workers and capacity.                                                   *)
(***************************************************************************)
EXTENDS ExtractionCache, FiniteSetTheorems, TLAPS

\* The part of TypeOK the proof uses.
Shape ==
  /\ durable \in [Key -> Result \cup {NoResult}]
  /\ l2 \in [Key -> Result \cup {NoResult}]
  /\ l1 \in [Worker -> SUBSET (Key \X Result)]
  /\ at \in [Worker -> Places]
  /\ key \in [Worker -> Key \cup {NoKey}]
  /\ made \in [Worker -> Result \cup {NoResult}]

\* A call under way has a key, and a put has a result.
CallHasArguments ==
  \A w \in Worker : /\ at[w] # "idle" => key[w] \in Key
                    /\ at[w] \in {"check", "write", "reread", "publish"} => made[w] \in Result

\* What a put is about to publish is durable, as is what a lost race compares with.
PublishesDurable ==
  \A w \in Worker : at[w] = "publish" => durable[key[w]] = made[w]

IInv == Shape /\ CallHasArguments /\ PublishesDurable /\ TiersAgree

\* The tier of a process holds only what it held and the pointer remembered (cache.py:63-67).
LEMMA KeptAdds ==
  ASSUME NEW old, NEW p, NEW kept \in Kept(old, p)
  PROVE  kept \subseteq old \cup {p}
  BY DEF Kept

\* Remembering and returning a durable pointer keeps the tiers in agreement (cache.py:40, 60).
LEMMA GiveKeeps ==
  ASSUME IInv, NEW w \in Worker, NEW k \in Key, NEW r \in Result,
         durable[k] = r, durable' = durable, Give(w, <<k, r>>)
  PROVE  /\ l1' \in [Worker -> SUBSET (Key \X Result)]
         /\ \A v \in Worker : \A p \in l1'[v] : durable'[p[1]] = p[2]
         /\ at' \in [Worker -> Places]
         /\ at'[w] = "idle"
         /\ \A v \in Worker \ {w} : at'[v] = at[v]
<1>1. PICK kept \in Kept(l1[w], <<k, r>>) : l1' = [l1 EXCEPT ![w] = kept]
  BY DEF Give
<1>2. kept \subseteq l1[w] \cup {<<k, r>>}
  BY <1>1, KeptAdds
<1>3. at' = [at EXCEPT ![w] = "idle"]
  BY DEF Give, Go
<1>4. kept \in SUBSET (Key \X Result)
  BY <1>2 DEF IInv, Shape
<1>5. \A p \in kept : durable[p[1]] = p[2]
  BY <1>2 DEF IInv, TiersAgree
<1>6. l1' \in [Worker -> SUBSET (Key \X Result)]
  BY <1>1, <1>4 DEF IInv, Shape
<1>7. \A v \in Worker : \A p \in l1'[v] : durable'[p[1]] = p[2]
  <2> SUFFICES ASSUME NEW v \in Worker, NEW p \in l1'[v] PROVE durable[p[1]] = p[2]
    OBVIOUS
  <2>1. CASE v = w
    BY <2>1, <1>1, <1>5 DEF IInv, Shape
  <2>2. CASE v # w
    BY <2>2, <1>1 DEF IInv, Shape, TiersAgree
  <2> QED BY <2>1, <2>2
<1>8. at' \in [Worker -> Places] /\ at'[w] = "idle" /\ \A v \in Worker \ {w} : at'[v] = at[v]
  BY <1>3 DEF IInv, Shape, Places
<1> QED BY <1>6, <1>7, <1>8

\* A fresh deployment: no checkpoint, no entry in any tier.
LEMMA Initially == Init => IInv
  BY CacheAssumption DEF Init, IInv, Shape, Places, CallHasArguments, PublishesDurable, TiersAgree

\* No call, outage, expiry or death of a process makes a tier disagree with the checkpoint.
LEMMA Preserved == IInv /\ [Next]_vars => IInv'
<1> SUFFICES ASSUME IInv, [Next]_vars PROVE IInv'
  OBVIOUS
<1> USE CacheAssumption
<1>1. ASSUME NEW w \in Worker, NEW k \in Key, Get(w, k) PROVE IInv'
  <2>0. /\ key' = [key EXCEPT ![w] = k]
        /\ UNCHANGED <<durable, l2, made>>
        /\ at[w] = "idle"
    BY <1>1 DEF Get
  <2>1. ASSUME NEW r \in Result, <<k, r>> \in l1[w], Give(w, <<k, r>>) PROVE IInv'
    <3>1. durable[k] = r
      BY <2>1 DEF IInv, TiersAgree
    <3>2. /\ l1' \in [Worker -> SUBSET (Key \X Result)]
          /\ \A v \in Worker : \A p \in l1'[v] : durable'[p[1]] = p[2]
          /\ at' \in [Worker -> Places]
          /\ at'[w] = "idle"
          /\ \A v \in Worker \ {w} : at'[v] = at[v]
      BY <2>0, <2>1, <3>1, GiveKeeps
    <3> QED BY <2>0, <3>2 DEF IInv, Shape, CallHasArguments, PublishesDurable, TiersAgree
  <2>2. ASSUME Go(w, "redis"), UNCHANGED <<l1, used>> PROVE IInv'
    BY <2>0, <2>2 DEF Go, IInv, Shape, Places, CallHasArguments, PublishesDurable, TiersAgree
  <2> QED BY <1>1, <2>1, <2>2 DEF Get
<1>2. ASSUME NEW w \in Worker, GetRedis(w) PROVE IInv'
  <2>0. UNCHANGED <<durable, l2, key, made>> /\ at[w] = "redis" /\ key[w] \in Key
    BY <1>2 DEF GetRedis, IInv, CallHasArguments
  <2>1. ASSUME l2[key[w]] # NoResult, Give(w, <<key[w], l2[key[w]]>>) PROVE IInv'
    <3>1. l2[key[w]] \in Result /\ durable[key[w]] = l2[key[w]]
      BY <2>0, <2>1 DEF IInv, Shape, TiersAgree
    <3>2. /\ l1' \in [Worker -> SUBSET (Key \X Result)]
          /\ \A v \in Worker : \A p \in l1'[v] : durable'[p[1]] = p[2]
          /\ at' \in [Worker -> Places]
          /\ at'[w] = "idle"
          /\ \A v \in Worker \ {w} : at'[v] = at[v]
      BY <2>0, <2>1, <3>1, GiveKeeps
    <3> QED BY <2>0, <3>2 DEF IInv, Shape, CallHasArguments, PublishesDurable, TiersAgree
  <2>2. ASSUME Go(w, "checkpoint"), UNCHANGED <<l1, used>> PROVE IInv'
    BY <2>0, <2>2 DEF Go, IInv, Shape, Places, CallHasArguments, PublishesDurable, TiersAgree
  <2> QED BY <1>2, <2>1, <2>2 DEF GetRedis
<1>3. ASSUME NEW w \in Worker, GetDurable(w) PROVE IInv'
  <2>0. UNCHANGED <<durable, l2, key, made>> /\ at[w] = "checkpoint" /\ key[w] \in Key
    BY <1>3 DEF GetDurable, IInv, CallHasArguments
  <2>1. ASSUME durable[key[w]] # NoResult, Give(w, <<key[w], durable[key[w]]>>) PROVE IInv'
    <3>1. durable[key[w]] \in Result
      BY <2>0, <2>1 DEF IInv, Shape
    <3>2. /\ l1' \in [Worker -> SUBSET (Key \X Result)]
          /\ \A v \in Worker : \A p \in l1'[v] : durable'[p[1]] = p[2]
          /\ at' \in [Worker -> Places]
          /\ at'[w] = "idle"
          /\ \A v \in Worker \ {w} : at'[v] = at[v]
      BY <2>0, <2>1, <3>1, GiveKeeps
    <3> QED BY <2>0, <3>2 DEF IInv, Shape, CallHasArguments, PublishesDurable, TiersAgree
  <2>2. ASSUME Go(w, "extract"), UNCHANGED <<l1, used>> PROVE IInv'
    BY <2>0, <2>2 DEF Go, IInv, Shape, Places, CallHasArguments, PublishesDurable, TiersAgree
  <2> QED BY <1>3, <2>1, <2>2 DEF GetDurable
<1>4. ASSUME NEW w \in Worker, NEW r \in Result, Extract(w, r) PROVE IInv'
  BY <1>4 DEF Extract, Go, IInv, Shape, Places, CallHasArguments, PublishesDurable, TiersAgree
<1>5. ASSUME NEW w \in Worker, Check(w) PROVE IInv'
  BY <1>5 DEF Check, Go, IInv, Shape, Places, CallHasArguments, PublishesDurable, TiersAgree
<1>6. ASSUME NEW w \in Worker, Write(w) PROVE IInv'
  <2>0. /\ UNCHANGED <<l2, l1, key, made, used>> /\ at[w] = "write"
        /\ key[w] \in Key /\ made[w] \in Result
    BY <1>6 DEF Write, IInv, CallHasArguments
  <2>1. CASE /\ durable[key[w]] = NoResult
             /\ durable' = [durable EXCEPT ![key[w]] = made[w]]
             /\ Go(w, "publish")
    <3>1. \A k \in Key : durable[k] # NoResult => durable'[k] = durable[k]
      BY <2>0, <2>1 DEF IInv, Shape
    <3>2. durable' \in [Key -> Result \cup {NoResult}] /\ durable'[key[w]] = made[w]
      BY <2>0, <2>1 DEF IInv, Shape
    <3>3. Shape' /\ CallHasArguments'
      BY <2>0, <2>1, <3>2 DEF Go, IInv, Shape, Places, CallHasArguments
    <3>4. PublishesDurable'
      <4> SUFFICES ASSUME NEW v \in Worker, at'[v] = "publish" PROVE durable'[key[v]] = made[v]
        BY <2>0 DEF PublishesDurable
      <4>1. CASE v = w
        BY <4>1, <3>2
      <4>2. CASE v # w
        <5>1. at[v] = "publish"
          BY <4>2, <2>1 DEF Go, IInv, Shape
        <5>2. durable[key[v]] = made[v] /\ made[v] \in Result /\ key[v] \in Key
          BY <5>1 DEF IInv, PublishesDurable, CallHasArguments
        <5> QED BY <5>2, <3>1
      <4> QED BY <4>1, <4>2
    <3>5. TiersAgree'
      <4>1. ASSUME NEW k \in Key PROVE l2'[k] \in {NoResult, durable'[k]}
        BY <2>0, <3>1 DEF IInv, TiersAgree
      <4>2. ASSUME NEW v \in Worker, NEW p \in l1'[v] PROVE durable'[p[1]] = p[2]
        <5>1. p \in Key \X Result /\ durable[p[1]] = p[2]
          BY <4>2, <2>0 DEF IInv, Shape, TiersAgree
        <5> QED BY <5>1, <3>1
      <4> QED BY <4>1, <4>2 DEF TiersAgree
    <3> QED BY <3>3, <3>4, <3>5 DEF IInv
  <2>2. CASE Go(w, "reread") /\ UNCHANGED durable
    BY <2>0, <2>2 DEF Go, IInv, Shape, Places, CallHasArguments, PublishesDurable, TiersAgree
  <2> QED BY <1>6, <2>1, <2>2 DEF Write
<1>7. ASSUME NEW w \in Worker, Reread(w) PROVE IInv'
  BY <1>7 DEF Reread, Go, IInv, Shape, Places, CallHasArguments, PublishesDurable, TiersAgree
<1>8. ASSUME NEW w \in Worker, Publish(w) PROVE IInv'
  <2>0. /\ UNCHANGED <<durable, key, made>> /\ at[w] = "publish"
        /\ key[w] \in Key /\ made[w] \in Result /\ durable[key[w]] = made[w]
        /\ l2' \in {l2, [l2 EXCEPT ![key[w]] = made[w]]}
        /\ Give(w, <<key[w], made[w]>>)
    BY <1>8 DEF Publish, IInv, CallHasArguments, PublishesDurable
  <2>1. /\ l1' \in [Worker -> SUBSET (Key \X Result)]
        /\ \A v \in Worker : \A p \in l1'[v] : durable'[p[1]] = p[2]
        /\ at' \in [Worker -> Places]
        /\ at'[w] = "idle"
        /\ \A v \in Worker \ {w} : at'[v] = at[v]
    BY <2>0, GiveKeeps
  <2>2. /\ l2' \in [Key -> Result \cup {NoResult}]
        /\ \A k \in Key : l2'[k] \in {NoResult, durable'[k]}
    BY <2>0 DEF IInv, Shape, TiersAgree
  <2> QED BY <2>0, <2>1, <2>2 DEF IInv, Shape, CallHasArguments, PublishesDurable, TiersAgree
<1>9. ASSUME NEW w \in Worker, Crash(w) PROVE IInv'
  BY <1>9 DEF Crash, Go, IInv, Shape, Places, CallHasArguments, PublishesDurable, TiersAgree
<1>10. ASSUME NEW k \in Key, Expire(k) PROVE IInv'
  BY <1>10 DEF Expire, IInv, Shape, CallHasArguments, PublishesDurable, TiersAgree
<1>11. CASE UNCHANGED vars
  BY <1>11 DEF vars, IInv, Shape, CallHasArguments, PublishesDurable, TiersAgree
<1> QED BY <1>1, <1>2, <1>3, <1>4, <1>5, <1>6, <1>7, <1>8, <1>9, <1>10, <1>11 DEF Next

LEMMA Inductive == Spec => []IInv
<1> QED BY Initially, Preserved, PTL DEF Spec

\* Redis and the processes' tiers never point at a result other than the
\* durable one (cache.py:60).
THEOREM Agreement == Spec => []TiersAgree
<1>1. IInv => TiersAgree
  BY DEF IInv
<1> QED BY <1>1, Inductive, PTL

-----------------------------------------------------------------------------
\* The bound of the per-process tier.

\* TypeOK bounds a cardinality, which means nothing of a set not known to be finite.
Bounded == /\ \A w \in Worker : IsFiniteSet(l1[w]) /\ Cardinality(l1[w]) <= Capacity
           /\ used \subseteq Key \X Result

\* Remembering a pointer drops an older one before the capacity is exceeded (cache.py:63-67).
LEMMA KeptBounded ==
  ASSUME NEW old, IsFiniteSet(old), Cardinality(old) <= Capacity, NEW p, NEW kept \in Kept(old, p)
  PROVE  IsFiniteSet(kept) /\ Cardinality(kept) <= Capacity
<1> USE CacheAssumption
<1> DEFINE all == old \cup {p}
<1>0. Cardinality(old) \in Nat
  BY FS_CardinalityType
<1>1. IsFiniteSet(all) /\ Cardinality(all) = IF p \in old THEN Cardinality(old) ELSE Cardinality(old) + 1
  BY FS_AddElement
<1>2. CASE Cardinality(all) <= Capacity
  <2>1. kept = all
    BY <1>2 DEF Kept
  <2> QED BY <2>1, <1>1, <1>2
<1>3. CASE ~(Cardinality(all) <= Capacity)
  <2>1. PICK q \in old \ {p} : kept = all \ {q}
    BY <1>3 DEF Kept
  <2>2. q \in all
    BY <2>1
  <2>3. IsFiniteSet(all \ {q}) /\ Cardinality(all \ {q}) = Cardinality(all) - 1
    BY <1>1, <2>2, FS_RemoveElement
  <2> QED BY <2>1, <2>3, <1>0, <1>1
<1> QED BY <1>2, <1>3

\* What a step does to the tier of w: nothing, a pointer remembered and used, or all of it lost.
Remembers(w, p) == /\ \E kept \in Kept(l1[w], p) : l1' = [l1 EXCEPT ![w] = kept]
                   /\ used' = used \cup {p}
Loses(w) == l1' = [l1 EXCEPT ![w] = {}] /\ used' = used
TierStep == \/ l1' = l1 /\ used' = used
            \/ \E w \in Worker : Loses(w) \/ \E p \in Key \X Result : Remembers(w, p)

LEMMA GiveRemembers ==
  ASSUME NEW w \in Worker, NEW k \in Key, NEW r \in Result, Give(w, <<k, r>>)
  PROVE  TierStep
<1>1. Remembers(w, <<k, r>>)
  BY DEF Give, Remembers
<1>2. <<k, r>> \in Key \X Result
  OBVIOUS
<1> QED BY <1>1, <1>2 DEF TierStep

LEMMA StepsOfTheTier == IInv /\ [Next]_vars => TierStep
<1> SUFFICES ASSUME IInv, [Next]_vars PROVE TierStep
  OBVIOUS
<1>1. ASSUME NEW w \in Worker, NEW k \in Key, Get(w, k) PROVE TierStep
  BY <1>1, GiveRemembers DEF Get, TierStep
<1>2. ASSUME NEW w \in Worker, GetRedis(w) PROVE TierStep
  <2>1. key[w] \in Key
    BY <1>2 DEF GetRedis, IInv, CallHasArguments
  <2>2. l2[key[w]] # NoResult => l2[key[w]] \in Result
    BY <2>1 DEF IInv, Shape
  <2> QED BY <1>2, <2>1, <2>2, GiveRemembers DEF GetRedis, TierStep
<1>3. ASSUME NEW w \in Worker, GetDurable(w) PROVE TierStep
  <2>1. key[w] \in Key
    BY <1>3 DEF GetDurable, IInv, CallHasArguments
  <2>2. durable[key[w]] # NoResult => durable[key[w]] \in Result
    BY <2>1 DEF IInv, Shape
  <2> QED BY <1>3, <2>1, <2>2, GiveRemembers DEF GetDurable, TierStep
<1>4. ASSUME NEW w \in Worker, Publish(w) PROVE TierStep
  <2>1. key[w] \in Key /\ made[w] \in Result
    BY <1>4 DEF Publish, IInv, CallHasArguments
  <2> QED BY <1>4, <2>1, GiveRemembers DEF Publish
<1>5. ASSUME NEW w \in Worker, Crash(w) PROVE TierStep
  <2>1. Loses(w)
    BY <1>5 DEF Crash, Loses
  <2> QED BY <2>1 DEF TierStep
<1>6. ASSUME NEW w \in Worker, (\E r \in Result : Extract(w, r)) \/ Check(w) \/ Write(w) \/ Reread(w)
      PROVE  TierStep
  BY <1>6 DEF Extract, Check, Write, Reread, TierStep
<1>7. ASSUME NEW k \in Key, Expire(k) PROVE TierStep
  BY <1>7 DEF Expire, TierStep
<1>8. CASE UNCHANGED vars
  BY <1>8 DEF vars, TierStep
<1> QED BY <1>1, <1>2, <1>3, <1>4, <1>5, <1>6, <1>7, <1>8 DEF Next

LEMMA BoundedPreserved == IInv /\ Bounded /\ [Next]_vars => Bounded'
<1> SUFFICES ASSUME IInv, Bounded, TierStep PROVE Bounded'
  BY StepsOfTheTier
<1> USE CacheAssumption
<1>0. l1 \in [Worker -> SUBSET (Key \X Result)]
  BY DEF IInv, Shape
<1>1. CASE l1' = l1 /\ used' = used
  BY <1>1 DEF Bounded
<1>2. ASSUME NEW w \in Worker, Loses(w) PROVE Bounded'
  <2>1. IsFiniteSet({}) /\ Cardinality({}) = 0
    BY FS_EmptySet
  <2> QED BY <1>0, <1>2, <2>1 DEF Loses, Bounded
<1>3. ASSUME NEW w \in Worker, NEW p \in Key \X Result, Remembers(w, p) PROVE Bounded'
  <2>1. PICK kept \in Kept(l1[w], p) : l1' = [l1 EXCEPT ![w] = kept]
    BY <1>3 DEF Remembers
  <2>2. IsFiniteSet(l1[w]) /\ Cardinality(l1[w]) <= Capacity
    BY DEF Bounded
  <2>3. IsFiniteSet(kept) /\ Cardinality(kept) <= Capacity
    BY <2>2, KeptBounded
  <2> QED BY <1>0, <1>3, <2>1, <2>3 DEF Remembers, Bounded
<1> QED BY <1>1, <1>2, <1>3 DEF TierStep

\* No process's tier outgrows its capacity and every pointer a build goes on
\* with is one of a key and a result, whatever the races and restarts (cache.py:63-67).
THEOREM TypeInvariant == Spec => []TypeOK
<1>1. Init => Bounded
  <2>1. IsFiniteSet({}) /\ Cardinality({}) = 0
    BY FS_EmptySet
  <2> QED BY <2>1, CacheAssumption DEF Init, Bounded
<1>2. Spec => []Bounded
  BY <1>1, Inductive, BoundedPreserved, PTL DEF Spec
<1>3. IInv /\ Bounded => TypeOK
  BY DEF IInv, Shape, Bounded, TypeOK
<1> QED BY <1>2, <1>3, Inductive, PTL

-----------------------------------------------------------------------------
\* Refinement of WriteOnce: a hit in any tier and a finished put are Use, a won
\* compare-and-set is Fix, and every other step is a stutter.

LEMMA GiveUses ==
  ASSUME NEW w, NEW k \in Key, durable[k] # NoResult, durable' = durable,
         Give(w, <<k, durable[k]>>)
  PROVE  Abstract!Next
<1>1. Abstract!Use(k)
  BY DEF Give, Abstract!Use
<1> QED BY <1>1 DEF Abstract!Next

LEMMA StepRefines == IInv /\ [Next]_vars => [Abstract!Next]_(Abstract!vars)
<1> SUFFICES ASSUME IInv, Next PROVE Abstract!Next \/ UNCHANGED Abstract!vars
  BY DEF vars, Abstract!vars
<1> USE CacheAssumption
<1>1. ASSUME NEW w \in Worker, NEW k \in Key, Get(w, k) PROVE Abstract!Next \/ UNCHANGED Abstract!vars
  <2>1. ASSUME NEW r \in Result, <<k, r>> \in l1[w], Give(w, <<k, r>>) PROVE Abstract!Next
    <3>1. durable[k] = r /\ r # NoResult
      BY <2>1 DEF IInv, TiersAgree
    <3> QED BY <1>1, <2>1, <3>1, GiveUses DEF Get
  <2> QED BY <1>1, <2>1 DEF Get, Abstract!vars
<1>2. ASSUME NEW w \in Worker, GetRedis(w) PROVE Abstract!Next \/ UNCHANGED Abstract!vars
  <2>1. key[w] \in Key
    BY <1>2 DEF GetRedis, IInv, CallHasArguments
  <2>2. ASSUME l2[key[w]] # NoResult, Give(w, <<key[w], l2[key[w]]>>) PROVE Abstract!Next
    <3>1. durable[key[w]] = l2[key[w]]
      BY <2>1, <2>2 DEF IInv, TiersAgree
    <3> QED BY <1>2, <2>1, <2>2, <3>1, GiveUses DEF GetRedis
  <2> QED BY <1>2, <2>2 DEF GetRedis, Abstract!vars
<1>3. ASSUME NEW w \in Worker, GetDurable(w) PROVE Abstract!Next \/ UNCHANGED Abstract!vars
  <2>1. key[w] \in Key
    BY <1>3 DEF GetDurable, IInv, CallHasArguments
  <2> QED BY <1>3, <2>1, GiveUses DEF GetDurable, Abstract!vars
<1>4. ASSUME NEW w \in Worker, Write(w) PROVE Abstract!Next \/ UNCHANGED Abstract!vars
  <2>1. key[w] \in Key /\ made[w] \in Result
    BY <1>4 DEF Write, IInv, CallHasArguments
  <2>2. CASE durable[key[w]] = NoResult
    <3>1. Abstract!Fix(key[w], made[w])
      BY <1>4, <2>2 DEF Write, Abstract!Fix
    <3> QED BY <2>1, <3>1 DEF Abstract!Next
  <2> QED BY <1>4, <2>2 DEF Write, Abstract!vars
<1>5. ASSUME NEW w \in Worker, Publish(w) PROVE Abstract!Next
  <2>1. key[w] \in Key /\ made[w] \in Result /\ durable[key[w]] = made[w]
    BY <1>5 DEF Publish, IInv, CallHasArguments, PublishesDurable
  <2> QED BY <1>5, <2>1, GiveUses DEF Publish
<1>6. ASSUME NEW w \in Worker, (\E r \in Result : Extract(w, r)) \/ Check(w) \/ Reread(w) \/ Crash(w)
      PROVE  UNCHANGED Abstract!vars
  BY <1>6 DEF Extract, Check, Reread, Crash, Abstract!vars
<1>7. ASSUME NEW k \in Key, Expire(k) PROVE UNCHANGED Abstract!vars
  BY <1>7 DEF Expire, Abstract!vars
<1> QED BY <1>1, <1>2, <1>3, <1>4, <1>5, <1>6, <1>7 DEF Next

\* All builds of a key go on with the one result of its checkpoint (cache.py:43-61).
THEOREM Refinement == Spec => ImplementsWriteOnce
<1>1. Init => Abstract!Init
  BY DEF Init, Abstract!Init
<1> QED BY <1>1, Inductive, StepRefines, PTL DEF Spec, ImplementsWriteOnce, Abstract!Spec
=============================================================================
