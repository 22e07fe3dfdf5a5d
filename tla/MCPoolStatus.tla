----------------------------- MODULE MCPoolStatus -----------------------------
(* Small instances of PoolStatus: what may disturb the pool, and how often. *)
EXTENDS PoolStatus

Disturbance(times) ==
  [k \in {"node", "scale", "edit", "delete", "exec", "host"} |->
     IF k \in DOMAIN times THEN times[k] ELSE 0]

\* Every behaviour meets one of these combinations.
Disturbed ==
  {Disturbance([node |-> 2]), Disturbance([node |-> 1, scale |-> 1]),
   Disturbance([edit |-> 2]), Disturbance([edit |-> 1, delete |-> 1]),
   Disturbance([exec |-> 1, host |-> 1])}
TwoFlips == {Disturbance([node |-> 2])}
=============================================================================
