---------------------------- MODULE VNodeContract ----------------------------
(***************************************************************************)
(* What the operator promises about the VNodes of one pool and their Nodes *)
(* in the tenant cluster, to users and to the tenant's scheduler: which    *)
(* objects may appear, change and disappear, and when.  There are no       *)
(* controllers, caches, queues or API calls here.                          *)
(***************************************************************************)
EXTENDS Naturals

CONSTANTS Names,     \* the name indices a VNode may have
          Statuses,  \* what a VNode's status may say
          Absent,    \* no such VNode
          Initial    \* the VNodes an earlier life of the operator left

VARIABLES pool,      \* [exists, deleting, fin]: the VNodePool and its finalizer
          vnodes,    \* the VNodes
          tenant,    \* the tenant's Nodes: "none", "notReady" or "ready"
          leaving    \* names picked for removal; not taken back

vars == <<pool, vnodes, tenant, leaving>>

Init ==
  /\ pool = [exists |-> TRUE, deleting |-> FALSE, fin |-> Initial # {}]
  /\ vnodes = [n \in Names |-> IF n \in Initial THEN "Ready" ELSE Absent]
  /\ tenant = [n \in Names |-> IF n \in Initial THEN "ready" ELSE "none"]
  /\ leaving = {}

-----------------------------------------------------------------------------
(* The pool. *)

\* The finalizer is put on a pool nobody has deleted.
Guard ==
  /\ pool.exists /\ ~pool.deleting
  /\ pool' = [exists |-> TRUE, deleting |-> FALSE, fin |-> TRUE]
  /\ UNCHANGED <<vnodes, tenant, leaving>>

\* A user deletes the pool: it goes at once, or once it is released.
Abandon ==
  /\ pool.exists /\ ~pool.deleting
  /\ pool' = IF pool.fin THEN [pool EXCEPT !.deleting = TRUE]
                         ELSE [pool EXCEPT !.exists = FALSE]
  /\ UNCHANGED <<vnodes, tenant, leaving>>

\* The finalizer is taken off only a pool that is being deleted.
Release ==
  /\ pool.exists /\ pool.deleting
  /\ pool' = [exists |-> FALSE, deleting |-> TRUE, fin |-> FALSE]
  /\ UNCHANGED <<vnodes, tenant, leaving>>

-----------------------------------------------------------------------------
(* The VNodes. *)

\* A VNode appears, without a status, only while the pool is there and guarded;
\* a name being removed may come back at any time.
Appear(n) ==
  /\ vnodes[n] = Absent
  /\ (pool.exists /\ pool.fin) \/ n \in leaving
  /\ vnodes' = [vnodes EXCEPT ![n] = "New"]
  /\ UNCHANGED <<pool, tenant, leaving>>

\* The status of a VNode that is there is written: Ready only if the tenant has
\* its Node, Terminating only if it is being removed.
Describe(n, st) ==
  /\ vnodes[n] # Absent
  /\ st = "Ready" => tenant[n] # "none" \/ n \in leaving
  /\ st = "Terminating" => n \in leaving
  /\ vnodes' = [vnodes EXCEPT ![n] = st]
  /\ UNCHANGED <<pool, tenant, leaving>>

\* A VNode that is there is picked for removal.
Pick(n) ==
  /\ vnodes[n] # Absent \/ n \in leaving
  /\ leaving' = leaving \cup {n}
  /\ UNCHANGED <<pool, vnodes, tenant>>

\* Only a picked VNode goes.
Disappear(n) ==
  /\ n \in leaving
  /\ vnodes' = [vnodes EXCEPT ![n] = Absent]
  /\ UNCHANGED <<pool, tenant, leaving>>

-----------------------------------------------------------------------------
(* The tenant's Nodes. *)

\* A Node is announced to the tenant only for a VNode that is there.
Announce(n) ==
  /\ tenant[n] = "none"
  /\ vnodes[n] # Absent \/ n \in leaving
  /\ tenant' = [tenant EXCEPT ![n] = "notReady"]
  /\ UNCHANGED <<pool, vnodes, leaving>>

\* The readiness of an announced Node is reported.
Report(n) ==
  /\ tenant[n] # "none"
  /\ \E r \in {"ready", "notReady"} : tenant' = [tenant EXCEPT ![n] = r]
  /\ UNCHANGED <<pool, vnodes, leaving>>

\* Only the Node of a picked VNode is withdrawn.
Withdraw(n) ==
  /\ n \in leaving
  /\ tenant' = [tenant EXCEPT ![n] = "none"]
  /\ UNCHANGED <<pool, vnodes, leaving>>

-----------------------------------------------------------------------------
Next ==
  \/ Guard \/ Abandon \/ Release
  \/ \E n \in Names :
       \/ Appear(n) \/ Pick(n) \/ Disappear(n)
       \/ \E st \in Statuses \ {"New"} : Describe(n, st)
       \/ Announce(n) \/ Report(n) \/ Withdraw(n)

Spec == Init /\ [][Next]_vars
=============================================================================
