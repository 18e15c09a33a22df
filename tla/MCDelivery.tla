----------------------------- MODULE MCDelivery -----------------------------
(* Small instances of Delivery: two files, whose content may change. *)
EXTENDS Delivery, TLC

CONSTANTS f1, f2, k1, k2, k3, q1, q2, csv, xlsx, x1, x2, x3, a

MCJobs == (q1 :> [kind |-> "queue", inputs |-> <<f1, f2>>]) @@ (q2 :> [kind |-> "queue", inputs |-> <<f1>>])
          @@ (csv :> [kind |-> "csv", inputs |-> <<f2>>]) @@ (xlsx :> [kind |-> "xlsx", inputs |-> <<f1>>])

\* One behaviour has either queued batches, or cohorts, or expansions (bound).
MCAgendas == {{q1}, {q2, "edit"}, {csv, xlsx, "edit"}, {x1, x2, x3}}

Found(key) == [key |-> key, outside |-> None, sourced |-> TRUE]
MCCandidates ==
  (x1 :> <<Found(k1), [Found(k2) EXCEPT !.outside = "relation_scope"],
           [Found(k2) EXCEPT !.sourced = FALSE]>>)
  @@ (x2 :> <<Found(k2), Found(k1), Found(k3)>>) @@ (x3 :> <<Found(k3)>>)
MCDepth == (x1 :> 0) @@ (x2 :> 1) @@ (x3 :> 2)
=============================================================================
