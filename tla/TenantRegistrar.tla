--------------------------- MODULE TenantRegistrar ---------------------------
(***************************************************************************)
(* The tenant cluster's view of the virtual nodes and the operations of    *)
(* virtualkubelet.Registrar on it.                                         *)
(*                                                                         *)
(* tenant[n] is the Node object of n: none, or its Ready condition.  The   *)
(* Lease is written and removed together with the Node status here.        *)
(* secret says whether the kubeconfig Secret exists; without it            *)
(* TenantClientManager.Get fails with a wrapped NotFound.  The caching of  *)
(* clients is invisible because the Secret never disappears again.         *)
(***************************************************************************)
EXTENDS NodeRepository

VARIABLES tenant, secret

tenantVars == <<tenant, secret>>

TenantTypeOK ==
  /\ tenant \in [Names -> {"none", "notReady", "ready"}]
  /\ secret \in BOOLEAN

\* Register is upsert then nodeStatus, UpdateNodeStatus is nodeStatus alone,
\* Deregister is deregister.
RegAts == {"upsert", "nodeStatus", "deregister"}

\* ready is the Ready condition of the model.VNode the caller passes.
RegStep(at, n, ready, to) ==
  /\ UNCHANGED secret
  /\ \/ /\ ~secret
        /\ to = "NotFound" /\ UNCHANGED tenant
     \/ /\ secret /\ at = "upsert" /\ to = "nodeStatus"
        /\ tenant' = [tenant EXCEPT ![n] = IF @ = "none" THEN "notReady" ELSE @]
     \/ /\ secret /\ at = "nodeStatus" /\ tenant[n] # "none" /\ to = "ok"
        /\ tenant' = [tenant EXCEPT ![n] = IF ready THEN "ready" ELSE "notReady"]
     \/ /\ secret /\ at = "nodeStatus" /\ tenant[n] = "none"
        /\ to = "NotFound" /\ UNCHANGED tenant
     \/ /\ secret /\ at = "deregister" /\ to = "ok"
        /\ tenant' = [tenant EXCEPT ![n] = "none"]
=============================================================================
