--------------------------- MODULE VNodeRefinement ---------------------------
(* The two controllers of VNodeLifecycle keep the promises of VNodeContract. *)
EXTENDS VNodeLifecycle

\* What users see of the VNodePool: the spec and the caches are left out.
PoolSeen == [exists |-> pool.exists, deleting |-> pool.deleting, fin |-> pool.fin]

Contract == INSTANCE VNodeContract WITH
              Initial <- StartNodes, pool <- PoolSeen, leaving <- retired

\* Every step of the two controllers, of the API server and of a crashing
\* operator is, seen from outside, a step the contract allows or none at all: no
\* VNode appears for an unguarded pool, no Node is announced for a VNode that is
\* not there, and nothing is taken away that Deprovision did not pick.
FulfilsContract == Contract!Spec

\* Every Node in the tenant cluster stands for a VNode, unless that one is being
\* removed: Provision saves the VNode before it registers the Node, and
\* Deprovision deregisters before it deletes.
NoOrphanNodes ==
  \A n \in Names \ retired : tenant[n] # "none" => vnodes[n] # Absent
=============================================================================
