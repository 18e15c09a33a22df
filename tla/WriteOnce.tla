------------------------------ MODULE WriteOnce ------------------------------
(***************************************************************************)
(* What the extraction cache promises: under one complete dependency key   *)
(* there is one result for good, and every build that goes on uses it.     *)
(***************************************************************************)
CONSTANTS Key, Result,
          NoResult   \* no build has fixed the result of the key

VARIABLES fixed,     \* fixed[k]: the result of key k
          used       \* the <<key, result>> pairs builds went on with

vars == <<fixed, used>>

Init == fixed = [k \in Key |-> NoResult] /\ used = {}

Fix(k, r) == /\ fixed[k] = NoResult
             /\ fixed' = [fixed EXCEPT ![k] = r]
             /\ UNCHANGED used

Use(k) == /\ fixed[k] # NoResult
          /\ used' = used \cup {<<k, fixed[k]>>}
          /\ UNCHANGED fixed

Next == \E k \in Key : Use(k) \/ \E r \in Result : Fix(k, r)

Spec == Init /\ [][Next]_vars
=============================================================================
