--------------------------- MODULE VNodeLifecycle ---------------------------
(***************************************************************************)
(* One VNodePool, its VNodes and the two controllers that manage them.     *)
(*                                                                         *)
(*   pool worker   VNodePoolReconciler.Reconcile -> PoolService.Reconcile  *)
(*                 -> NodeService.Provision / Deprovision                  *)
(*   VNode worker  VNodeReconciler.Reconcile -> NodeService.UpdateStatus   *)
(*                                                                         *)
(* Each controller has one worker (MaxConcurrentReconciles is 1) and a     *)
(* work queue without duplicates; the two workers interleave at every call *)
(* to the host or the tenant API and share the informer caches.            *)
(***************************************************************************)
EXTENDS TenantRegistrar

CONSTANTS Specs,       \* pool specs a user may write: [count, valid]
          Starts,      \* pool spec, kubeconfig Secret and disturbances to start with
          StartNodes,  \* VNodes an earlier life of the operator left Ready
          TenantErrs   \* kinds of errors a tenant API call may fail with

\* What may disturb the controllers, and the bound on how often each of it may:
\* an edit of the spec, a deletion of the pool, a failing call to the host API or
\* to the tenant's, a crash of the operator.
Kinds == {"spec", "delete", "host", "tenant", "crash"}
Limits == [Kinds -> Nat]

ASSUME SpecsAssumption ==
  /\ Specs \subseteq [count : Nat, valid : BOOLEAN]
  /\ Starts \subseteq [count : Nat, valid : BOOLEAN, secret : BOOLEAN, budget : Limits]
  /\ StartNodes \subseteq Names
  /\ TenantErrs \subseteq {"NotFound", "Ignorable", "Other"}

VARIABLES pool,        \* the VNodePool in the API server
          poolCache,   \* the informer's copy of it
          pq,          \* the pool is in the pool controller's work queue
          vq,          \* the VNodes in the VNode controller's work queue
          pw,          \* the pool worker
          vw,          \* the VNode worker
          retired,     \* names the pool worker has picked for Deprovision
          budget       \* the disturbances still to come and those met so far

queues == <<pq, vq>>
poolVars == <<pool, poolCache>>
vars == <<repoVars, tenantVars, poolVars, queues, pw, vw, retired, budget>>

\* The parts of a VNodePool the two controllers read. What they publish in its
\* status (phase, counts, conditions) is read by neither and is left out.
Pools == [exists : BOOLEAN, count : Nat, valid : BOOLEAN,
          deleting : BOOLEAN, fin : BOOLEAN]

\* todo   what is left of DesiredScaleActions: > 0 to add, < 0 to remove
\* work   the listed nodes that Deprovision may still be asked to remove
\* del    this pass is handleDeletion's
\* at, n, st   the position in Save or in the registrar, its node and status
PoolPcs == {"idle", "scale", "save", "register", "deregister", "delete",
            "failed", "unfinalize"}
Positions == SaveAts \cup RegAts \cup {""}
PoolWorkers == [pc : PoolPcs, at : Positions, n : Names \cup {0},
                st : Statuses \cup {""}, del : BOOLEAN,
                work : SUBSET Names, todo : Int]
IdlePool == [pc |-> "idle", at |-> "", n |-> 0, st |-> "", del |-> FALSE,
             work |-> {}, todo |-> 0]

\* seen   the status read at the start     st    the status being saved
\* err    the registrar's error, returned once the failure is saved
VNodePcs == {"idle", "register", "sync", "save"}
VNodeWorkers == [pc : VNodePcs, at : Positions, n : Names \cup {0},
                 seen : Statuses \cup {""}, st : Statuses \cup {""},
                 err : Results]
IdleVNode == [pc |-> "idle", at |-> "", n |-> 0, seen |-> "", st |-> "", err |-> "ok"]

Budgets == [left : Limits, met : SUBSET Kinds]

\* The variables range over the values the Go types and CRD enums allow.
TypeOK ==
  /\ RepoTypeOK
  /\ TenantTypeOK
  /\ pool \in Pools
  /\ poolCache \in Pools
  /\ pq \in BOOLEAN
  /\ vq \subseteq Names
  /\ pw \in PoolWorkers
  /\ vw \in VNodeWorkers
  /\ retired \subseteq Names
  /\ budget \in Budgets

Init ==
  /\ vnodes = [n \in Names |-> IF n \in StartNodes THEN "Ready" ELSE Absent]
  /\ cache = vnodes
  /\ watch = <<>>
  /\ tenant = [n \in Names |-> IF n \in StartNodes THEN "ready" ELSE "none"]
  /\ \E s \in Starts :
       /\ pool = [exists |-> TRUE, count |-> s.count, valid |-> s.valid,
                  deleting |-> FALSE, fin |-> StartNodes # {}]
       /\ secret = s.secret
       /\ budget = [left |-> s.budget, met |-> {}]
  /\ poolCache = pool
  /\ pq = TRUE
  /\ vq = StartNodes
  /\ pw = IdlePool
  /\ vw = IdleVNode
  /\ retired = {}

Spend(kind) ==
  /\ budget.left[kind] > 0
  /\ budget' = [left |-> [budget.left EXCEPT ![kind] = @ - 1],
                met |-> budget.met \cup {kind}]

-----------------------------------------------------------------------------
(* Users, the tenant platform, the informers and the process. *)

EditSpec ==
  /\ pool.exists
  /\ Spend("spec")
  /\ \E s \in Specs : pool' = [pool EXCEPT !.count = s.count, !.valid = s.valid]
  /\ UNCHANGED <<repoVars, tenantVars, poolCache, queues, pw, vw, retired>>

\* kubectl delete: the API server keeps the object while it has a finalizer.
DeletePool ==
  /\ pool.exists /\ ~pool.deleting
  /\ Spend("delete")
  /\ pool' = IF pool.fin THEN [pool EXCEPT !.deleting = TRUE]
                         ELSE [pool EXCEPT !.exists = FALSE]
  /\ UNCHANGED <<repoVars, tenantVars, poolCache, queues, pw, vw, retired>>

CreateSecret ==
  /\ ~secret
  /\ secret' = TRUE
  /\ UNCHANGED <<repoVars, tenant, poolVars, queues, pw, vw, retired, budget>>

\* vnodePhaseChangedPredicate: deletions and phase changes, not creations.
vnodePhaseChangedNotDeleted(old, new) ==
  old # Absent /\ new # Absent /\ Phase(old) # Phase(new)
vnodePhaseChanged(old, new) ==
  old # Absent /\ Phase(old) # Phase(new)

\* A VNode event: the VNode controller queues every one, the pool controller
\* those its predicate lets through.
DeliverVNode ==
  /\ Apply
  /\ LET e == Head(watch) IN
       /\ vq' = vq \cup {e.n}
       /\ pq' = (pq \/ vnodePhaseChanged(cache[e.n], e.st))
  /\ UNCHANGED <<tenantVars, poolVars, pw, vw, retired, budget>>

\* A pool event; GenerationChangedPredicate lets spec changes, the deletion
\* timestamp and the deletion through, and drops status and finalizer changes.
DeliverPool ==
  /\ poolCache # pool
  /\ poolCache' = pool
  /\ pq' = (pq \/ pool.exists # poolCache.exists
               \/ pool.count # poolCache.count
               \/ pool.valid # poolCache.valid
               \/ pool.deleting # poolCache.deleting)
  /\ UNCHANGED <<repoVars, tenantVars, pool, vq, pw, vw, retired, budget>>

\* The operator dies at any point and starts again: the workers' state is
\* lost, the informers list everything and queue every object.
Crash ==
  /\ Spend("crash")
  /\ Relist
  /\ poolCache' = pool
  /\ pq' = pool.exists
  /\ vq' = Present(vnodes)
  /\ pw' = IdlePool
  /\ vw' = IdleVNode
  /\ UNCHANGED <<tenantVars, pool, retired>>

-----------------------------------------------------------------------------
(* VNodePoolReconciler.Reconcile up to the scaling loops of PoolService. *)

poolFrame == <<repoVars, tenantVars, poolCache, vq, vw, retired, budget>>
PoolDone(requeue) == pw' = IdlePool /\ pq' = requeue

\* toAdd when positive, toRemove when negative.
DesiredScaleActions(want, current) == want - current

\* PoolService.Reconcile lists the nodes and computes what to do.
PoolScaling(want, del) ==
  LET existing == ListByPool
      todo == DesiredScaleActions(want, Cardinality(existing))
  IN  [IdlePool EXCEPT !.pc = "scale", !.del = del, !.todo = todo,
                       !.work = IF todo < 0 THEN existing ELSE {}]

\* Not found, or being deleted without our finalizer: nothing to do.
PoolIgnore ==
  /\ pw.pc = "idle" /\ pq
  /\ ~poolCache.exists \/ (poolCache.deleting /\ ~poolCache.fin)
  /\ PoolDone(FALSE)
  /\ UNCHANGED <<poolFrame, pool>>

\* A live pool. The missing finalizer is added first, with the cached resource
\* version; a conflict or NotFound ends the pass with an error. A pool that
\* fails Validate is marked Failed and not requeued.
PoolBeginNoFinalizer ==
  /\ pw.pc = "idle" /\ pq
  /\ poolCache.exists /\ ~poolCache.deleting
  /\ pw' = IF poolCache.valid THEN PoolScaling(poolCache.count, FALSE) ELSE IdlePool
  /\ pq' = FALSE
  /\ UNCHANGED <<poolFrame, pool>>
PoolBegin ==
  /\ pw.pc = "idle" /\ pq
  /\ poolCache.exists /\ ~poolCache.deleting
  /\ IF poolCache.fin \/ pool = poolCache
     THEN /\ pool' = IF poolCache.fin THEN pool ELSE [pool EXCEPT !.fin = TRUE]
          /\ pw' = IF poolCache.valid THEN PoolScaling(poolCache.count, FALSE) ELSE IdlePool
          /\ pq' = FALSE
     ELSE PoolDone(TRUE) /\ UNCHANGED pool
  /\ UNCHANGED poolFrame

\* handleDeletion: reconcile towards zero nodes.
PoolBeginDeletion ==
  /\ pw.pc = "idle" /\ pq
  /\ poolCache.exists /\ poolCache.deleting /\ poolCache.fin
  /\ pw' = PoolScaling(0, TRUE)
  /\ pq' = FALSE
  /\ UNCHANGED <<poolFrame, pool>>

-----------------------------------------------------------------------------
(* NodeService.Provision and Deprovision. *)

\* The pool worker starts to save status st of node n.
PoolSaving(n, st) == [pw EXCEPT !.pc = "save", !.at = "get", !.n = n, !.st = st]

\* Provision: the next name comes from a second listing.
NextIndexFromTwo == Cardinality(ListByPool) + 2
NextIndex == Cardinality(ListByPool) + 1
ProvisionRegisterFirst ==
  /\ pw.pc = "scale" /\ pw.todo > 0
  /\ NextIndex \in Names
  /\ pw' = [pw EXCEPT !.pc = "register", !.at = "upsert", !.n = NextIndex, !.st = "Pending"]
  /\ UNCHANGED <<poolFrame, pool, pq>>
Provision ==
  /\ pw.pc = "scale" /\ pw.todo > 0
  /\ NextIndex \in Names      \* bound
  /\ pw' = PoolSaving(NextIndex, "Pending")
  /\ UNCHANGED <<poolFrame, pool, pq>>

\* Deprovision of the last node of the working slice, whose order is arbitrary.
Deprovision ==
  /\ pw.pc = "scale" /\ pw.todo < 0
  /\ \E n \in pw.work :
       pw' = PoolSaving(n, "Terminating") /\ retired' = retired \cup {n}
  /\ UNCHANGED <<repoVars, tenantVars, poolVars, queues, vw, budget>>

PoolFailed == [pw EXCEPT !.pc = "failed", !.at = "", !.n = 0, !.st = "",
                         !.work = {}, !.todo = 0]

\* Where Provision and Deprovision go once Save has returned r.
PoolAfterSaveRollingBack(r) ==
  CASE pw.st = "Pending" /\ r = "ok" -> [pw EXCEPT !.pc = "register", !.at = "upsert"]
    [] pw.st = "Ready" /\ r = "ok" ->
         [pw EXCEPT !.pc = "scale", !.at = "", !.n = 0, !.st = "", !.todo = @ - 1]
    [] pw.st \in {"RegFailed", "Terminating"} /\ r = "ok" ->
         [pw EXCEPT !.pc = "deregister", !.at = "deregister"]
    [] OTHER -> PoolFailed
PoolAfterSave(r) ==
  CASE pw.st = "Pending" /\ r = "ok" -> [pw EXCEPT !.pc = "register", !.at = "upsert"]
    [] pw.st = "Ready" /\ r = "ok" ->
         [pw EXCEPT !.pc = "scale", !.at = "", !.n = 0, !.st = "", !.todo = @ - 1]
    [] pw.st = "Terminating" /\ r = "ok" -> [pw EXCEPT !.pc = "deregister", !.at = "deregister"]
    [] OTHER -> PoolFailed

PoolSave ==
  /\ pw.pc = "save"
  /\ \E to \in SaveAts \cup Results :
       /\ \/ SaveStep(pw.at, pw.n, pw.st, to) /\ UNCHANGED budget
          \/ SaveFault(pw.at, pw.n, pw.st, to) /\ Spend("host")
       /\ pw' = IF to \in SaveAts THEN [pw EXCEPT !.at = to] ELSE PoolAfterSave(to)
  /\ UNCHANGED <<tenantVars, poolVars, queues, vw, retired>>

\* A registrar step, or a failure in it: an outage, a timeout, or a write
\* conflict between the two workers' upserts. The step may have taken effect
\* before the failure (the Node is written before the Lease).
Registrar(at, n, ready, to) ==
  \/ RegStep(at, n, ready, to) /\ UNCHANGED budget
  \/ /\ to \in TenantErrs
     /\ Spend("tenant")
     /\ UNCHANGED tenantVars \/ \E done \in RegAts \cup Results : RegStep(at, n, ready, done)

\* What Provision saves once Register has returned r.
RegisteredStatusIgnoringError(r) == "Ready"
RegisteredStatus(r) == IF r = "ok" THEN "Ready" ELSE "RegFailed"

\* Register of the node Provision built, whose Ready condition is False.
PoolRegister ==
  /\ pw.pc = "register"
  /\ \E to \in RegAts \cup Results :
       /\ Registrar(pw.at, pw.n, FALSE, to)
       /\ pw' = IF to \in RegAts THEN [pw EXCEPT !.at = to]
                ELSE PoolSaving(pw.n, RegisteredStatus(to))
  /\ UNCHANGED <<repoVars, poolVars, queues, vw, retired>>

\* Deregister is best effort: its error is logged and Delete follows anyway.
PoolDeregister ==
  /\ pw.pc = "deregister"
  /\ \E to \in RegAts \cup Results :
       /\ Registrar(pw.at, pw.n, FALSE, to)
       /\ pw' = [pw EXCEPT !.pc = "delete", !.at = ""]
  /\ UNCHANGED <<repoVars, poolVars, queues, vw, retired>>

PoolDelete ==
  /\ pw.pc = "delete"
  /\ \E to \in Results :
       /\ \/ DeleteStep(pw.n, to) /\ UNCHANGED budget
          \/ to = "Other" /\ Spend("host") /\ UNCHANGED repoVars
       /\ pw' = IF to = "ok"
                THEN [pw EXCEPT !.pc = "scale", !.n = 0, !.st = "", !.todo = @ + 1,
                                !.work = @ \ {pw.n}]
                ELSE PoolFailed
  /\ UNCHANGED <<tenantVars, poolVars, queues, vw, retired>>

-----------------------------------------------------------------------------
(* VNodePoolReconciler.Reconcile after PoolService. *)

\* An error from PoolService: the request is retried.
PoolFail ==
  /\ pw.pc = "failed"
  /\ PoolDone(TRUE)
  /\ UNCHANGED <<poolFrame, pool>>

\* Success on a live pool; patching the status of a pool that is gone fails
\* unless there was nothing to patch.
PoolFinish ==
  /\ pw.pc = "scale" /\ pw.todo = 0 /\ ~pw.del
  /\ \E patchFails \in BOOLEAN :
       /\ patchFails => ~(pool.exists /\ poolCache.exists)
       /\ PoolDone(pq \/ patchFails)
  /\ UNCHANGED <<poolFrame, pool>>

\* Success during deletion: list again, and wait while VNodes are left.
PoolRemaining ==
  /\ pw.pc = "scale" /\ pw.todo = 0 /\ pw.del
  /\ IF ListByPool # {} THEN PoolDone(TRUE)
     ELSE pw' = [IdlePool EXCEPT !.pc = "unfinalize"] /\ UNCHANGED pq
  /\ UNCHANGED <<poolFrame, pool>>

\* Remove the finalizer with the cached resource version: the object goes
\* away, the cache has lost it already, or the write is refused.
PoolUnfinalize ==
  /\ pw.pc = "unfinalize"
  /\ IF poolCache.exists /\ poolCache = pool
     THEN pool' = [pool EXCEPT !.fin = FALSE, !.exists = FALSE] /\ PoolDone(pq)
     ELSE pool' = pool /\ PoolDone(pq \/ poolCache.exists)
  /\ UNCHANGED poolFrame

\* A write to the pool itself is refused (the finalizer's addition or removal,
\* the status patch): the error is returned and the request retried.
PoolWriteFails ==
  /\ \/ pw.pc = "idle" /\ pq /\ poolCache.exists /\ ~poolCache.deleting /\ ~poolCache.fin
     \/ pw.pc = "scale" /\ pw.todo = 0 /\ ~pw.del
     \/ pw.pc = "unfinalize"
  /\ Spend("host")
  /\ PoolDone(TRUE)
  /\ UNCHANGED <<repoVars, tenantVars, poolVars, vq, vw, retired>>

PoolStep ==
  \/ PoolIgnore \/ PoolBegin \/ PoolBeginDeletion
  \/ Provision \/ Deprovision \/ PoolSave \/ PoolRegister
  \/ PoolDeregister \/ PoolDelete
  \/ PoolFail \/ PoolFinish \/ PoolRemaining \/ PoolUnfinalize \/ PoolWriteFails

-----------------------------------------------------------------------------
(* VNodeReconciler.Reconcile and NodeService.UpdateStatus. *)

\* Pending or NotReady without Registered = True.
shouldRetryPendingOnly(st) == Phase(st) = "Pending"
shouldRetryRegistration(st) == Phase(st) \in {"Pending", "NotReady"}

\* Decided on the phase read at the start, not the one just written.
shouldRequeueVNode(st) == Phase(st) \in {"Pending", "NotReady"}

vnodeFrame == <<poolVars, pq, pw, retired>>

\* Reconcile returns. NotFound and cancelled calls are swallowed without a
\* requeue, any other error is retried by the work queue.
VNodeReturn(err) ==
  /\ vw' = IdleVNode
  /\ vq' = IF err = "Other" \/ (err = "ok" /\ shouldRequeueVNode(vw.seen))
           THEN vq \cup {vw.n} ELSE vq

VNodeSaving(st, err) ==
  /\ vw' = [vw EXCEPT !.pc = "save", !.at = "get", !.st = st, !.err = err]
  /\ UNCHANGED vq

\* Get from the cache; a VNode without a status is left alone.
VNodeBegin(n) ==
  /\ vw.pc = "idle" /\ n \in vq
  /\ vq' = vq \ {n}
  /\ vw' = IF cache[n] \in {Absent, "New"} THEN IdleVNode
           ELSE [IdleVNode EXCEPT !.n = n, !.seen = cache[n],
                   !.pc = IF shouldRetryRegistration(cache[n]) THEN "register" ELSE "sync",
                   !.at = IF shouldRetryRegistration(cache[n]) THEN "upsert" ELSE "nodeStatus"]
  /\ UNCHANGED <<repoVars, tenantVars, vnodeFrame, budget>>

\* Register with the conditions of the status seen. A failure is saved unless
\* the VNode already says NotReady with a Registered condition.
VNodeRegister ==
  /\ vw.pc = "register"
  /\ \E to \in RegAts \cup Results :
       /\ Registrar(vw.at, vw.n, FALSE, to)
       /\ CASE to \in RegAts -> vw' = [vw EXCEPT !.at = to] /\ UNCHANGED vq
            [] to = "ok" -> VNodeSaving("Ready", "ok")
            [] to = "Ignorable" -> VNodeReturn("ok")
            [] to \in {"NotFound", "Other"} ->
                 IF vw.seen = "RegFailed" THEN VNodeReturn(to) ELSE VNodeSaving("RegFailed", to)
  /\ UNCHANGED <<repoVars, vnodeFrame>>

\* UpdateNodeStatus of a Ready or Terminating VNode; a Ready one that stays so
\* is not saved, any other becomes Ready.
VNodeSync ==
  /\ vw.pc = "sync"
  /\ \E to \in RegAts \cup Results :
       /\ Registrar(vw.at, vw.n, vw.seen = "Ready", to)
       /\ CASE to \in RegAts -> vw' = [vw EXCEPT !.at = to] /\ UNCHANGED vq
            [] to = "ok" -> IF vw.seen = "Ready" THEN VNodeReturn("ok") ELSE VNodeSaving("Ready", "ok")
            [] to = "Ignorable" -> VNodeReturn("ok")
            [] to \in {"NotFound", "Other"} -> VNodeSaving("SyncFailed", to)
  /\ UNCHANGED <<repoVars, vnodeFrame>>

\* Save; a cancelled save counts as success, a failed one is the result.
VNodeSave ==
  /\ vw.pc = "save"
  /\ \E to \in SaveAts \cup Results :
       /\ \/ SaveStep(vw.at, vw.n, vw.st, to) /\ UNCHANGED budget
          \/ SaveFault(vw.at, vw.n, vw.st, to) /\ Spend("host")
       /\ CASE to \in SaveAts -> vw' = [vw EXCEPT !.at = to] /\ UNCHANGED vq
            [] to = "ok" -> VNodeReturn(vw.err)
            [] to = "Ignorable" -> VNodeReturn("ok")
            [] to \in {"NotFound", "Other"} -> VNodeReturn(to)
  /\ UNCHANGED <<tenantVars, vnodeFrame>>

VNodeStep == (\E n \in Names : VNodeBegin(n)) \/ VNodeRegister \/ VNodeSync \/ VNodeSave

-----------------------------------------------------------------------------
Environment == EditSpec \/ DeletePool \/ CreateSecret \/ Crash

Next == PoolStep \/ VNodeStep \/ DeliverVNode \/ DeliverPool \/ Environment

Spec == Init /\ [][Next]_vars

\* Workers and informers run on. Fairness is strong where a step may be disabled
\* again and again without the code ever blocking: a write waits for room in
\* watch only because of MaxLag, and a queued VNode is not overtaken for ever
\* because the work queue is first in, first out. Nothing is assumed of users,
\* of faults or of crashes.
FairSpec ==
  /\ Spec
  /\ SF_vars(PoolStep)
  /\ SF_vars(VNodeRegister \/ VNodeSync \/ VNodeSave)
  /\ \A n \in Names : SF_vars(VNodeBegin(n))
  /\ WF_vars(DeliverVNode)
  /\ WF_vars(DeliverPool)

-----------------------------------------------------------------------------
(* Properties. *)

\* Nothing is queued, running or in flight.
Quiescent ==
  /\ pw.pc = "idle" /\ ~pq
  /\ vw.pc = "idle" /\ vq = {}
  /\ watch = <<>> /\ poolCache = pool

Live == pool.exists /\ pool.valid /\ ~pool.deleting
Healthy(n) == vnodes[n] = "Ready" /\ tenant[n] = "ready"

\* Once the controllers have come to rest, a live pool has exactly nodeCount
\* VNodes. The pool controller runs on events only (its predicates also drop the
\* informers' resync), so a wrong count at rest would stay: whatever stale list,
\* zombie, name collision, tenant outage or crash a pass ran into, some event must
\* have queued another. A failing host API call may break it: UpdateStatus may
\* re-create a VNode and fail to write its status, which is no event to the pool
\* controller, and a timed-out status write counts as done.
SettledCount ==
  Quiescent /\ Live /\ "host" \notin budget.met =>
    Cardinality(Present(vnodes)) = pool.count

\* A VNode that says Ready has a Node object in the tenant cluster, unless the
\* pool worker has started to deprovision that name: both Provision and
\* UpdateStatus save Ready only after the registrar succeeded.
ReadyRegistered ==
  \A n \in Names \ retired : vnodes[n] = "Ready" => tenant[n] # "none"

\* As long as nothing has been deprovisioned, the VNodes are numbered without
\* gaps: Provision's len(existing)+1, computed from a lagging list, may hit a
\* name in use but never skips one.
NamesContiguous ==
  retired = {} /\ StartNodes = 1..Cardinality(StartNodes)
    => Present(vnodes) = 1..Cardinality(Present(vnodes))

\* The VNode controller re-creates a VNode (Save's NotFound branch) only under a
\* name the pool worker has picked for Deprovision: a node nobody removed is
\* never created twice, however far the cache lags.
ResurrectsOnlyRetired ==
  vw.pc = "save" /\ vw.at \in {"create", "created"} => vw.n \in retired

\* While the pool worker may create VNodes the pool exists and carries the
\* finalizer, so that none of them can be left behind by an unguarded delete.
Provisioning ==
  pw.pc = "register" \/ (pw.pc = "save" /\ pw.st # "Terminating") \/ pw.todo > 0
ProvisionUnderFinalizer == Provisioning => pool.exists /\ pool.fin

\* As long as there was no crash and no failing host API call, a VNode without
\* status is one whose creator is about to write the status; UpdateStatus skips it.
NoHalfCreated ==
  budget.met \cap {"host", "crash"} = {} =>
    \A n \in Names : vnodes[n] = "New" =>
      \/ pw.pc = "save" /\ pw.at = "created" /\ pw.n = n
      \/ vw.pc = "save" /\ vw.at = "created" /\ vw.n = n

\* However often the pool worker fails, retries and races the VNode worker, a
\* live pool ends up, for good, with the right number of healthy nodes.
Converged ==
  Live => /\ Cardinality(Present(vnodes)) = pool.count
          /\ \A n \in Present(vnodes) : Healthy(n)
Convergence == <>[]Converged

-----------------------------------------------------------------------------
(* What the repository's documents and comments say and the code does not do. *)

\* vnode_reconciler.go:89-91: failed or pending VNodes "must reschedule
\* themselves so transient vcluster startup timeouts can heal", so once the
\* tenant's kubeconfig Secret exists none may be left behind at rest.
SelfHealing ==
  Quiescent /\ Live /\ secret => \A n \in Names : ~shouldRequeueVNode(vnodes[n])

\* README.md:78: the finalizer ensures that "all VNode CRs are removed before
\* the pool is finalized".
FinalizedClean == ~pool.exists => Present(vnodes) = {}

\* README.md:46: the pool controller creates "one per desired node": a live pool
\* does not stay below nodeCount for ever.
EnoughNodes == []<>(Live => Cardinality(Present(vnodes)) >= pool.count)
=============================================================================
