-------------------------- MODULE MCVNodeLifecycle --------------------------
(* Small instances of VNodeLifecycle: pool specs and what may disturb them. *)
EXTENDS VNodeRefinement

Valid(count) == [count |-> count, valid |-> TRUE]
Invalid(count) == [count |-> count, valid |-> FALSE]
OneTwoOrInvalid == {Valid(1), Valid(2), Invalid(1)}

\* A pool of count nodes that meets each of these kinds of disturbance once; the
\* tenant's Secret appears later if "late" is among them.
Start(count, kinds) ==
  [count |-> count, valid |-> TRUE, secret |-> "late" \notin kinds,
   budget |-> [k \in Kinds |-> IF k \in kinds THEN 1 ELSE 0]]

TwoNodes == {Start(2, {})}
OneDelete == {Start(1, {"delete"})}
LateSecret == {Start(1, {"late"})}
TenantFault == {Start(1, {"tenant"}), Start(2, {"tenant"})}

\* Every behaviour meets one of these combinations.
Disturbed ==
  {Start(1, {"spec", "delete"}), Start(2, {"spec"}), Start(2, {"delete"}),
   Start(1, {"delete", "tenant", "crash"}), Start(2, {"tenant", "crash", "late"}),
   Start(1, {"host"})}
=============================================================================
