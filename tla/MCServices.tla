----------------------------- MODULE MCServices -----------------------------
(* Small instances of Services. *)
EXTENDS Services, TLC

\* 15 s, more than 30 s and more than 120 s, in their order.
Delays == [neo4j |-> 1, metadata |-> 2, vllm |-> 4]
ThreeLaunchers == <<"metadata", "vllm", "neo4j">>
=============================================================================
