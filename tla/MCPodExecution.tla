--------------------------- MODULE MCPodExecution ---------------------------
(* Small instances of PodExecution: budgets of the environment. *)
EXTENDS PodExecution, TLC

OneOf(kinds) == [k \in Kinds |-> IF k \in kinds THEN 1 ELSE 0]
NodeSymmetry == Permutations(Nodes)

\* A name is used up to three times, or twice with a disturbance; or the pool goes.
Reused == {[OneOf({}) EXCEPT !["delete"] = 2], OneOf({"pool"})} \cup
          {OneOf({"delete", k}) : k \in {"fault", "crash", "pause"}}

\* Two disturbances that the passes have to make up for.
Churn == {OneOf({"edit", "evict"}), OneOf({"flap", "evict"}), OneOf({"edit", "flap"}),
          OneOf({"config"})}

OnePool == {OneOf({"pool"})}
OneDeletion == {OneOf({"delete"})}
OneFlap == {OneOf({"flap"})}
=============================================================================
