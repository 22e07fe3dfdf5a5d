------------------------------ MODULE PoolStatus ------------------------------
(***************************************************************************)
(* The status of one VNodePool and the two controllers that write it:      *)
(*                                                                         *)
(*   pool worker   VNodePoolReconciler: phase, counts, conditions Ready    *)
(*                 and Degraded (updatePoolStatus)                         *)
(*   sync worker   PodSyncReconciler: conditions PodExecutionReady and     *)
(*                 Degraded (updateExecutionConditions)                    *)
(*                                                                         *)
(* Both read the pool from the informer cache, change the copy and send    *)
(* what differs from it as a merge patch without a resource version.       *)
(* PoolService is one step here (VNodeLifecycle has its calls), and so are *)
(* the passes of PodExecutionService.                                      *)
(***************************************************************************)
EXTENDS Naturals, Sequences, FiniteSets

CONSTANTS Nodes,     \* the pool's VNodes; nodeCount is their number
          MaxLag,    \* bound: pool versions the cache has not seen
          Disturbances  \* what the environment may do to one pool, and how often

\* bound: how often each thing may happen.
Budgets == [{"node", "scale", "edit", "delete", "exec", "host"} -> Nat]

ASSUME StatusAssumption ==
  IsFiniteSet(Nodes) /\ MaxLag \in Nat \ {0} /\ Disturbances \subseteq Budgets

VARIABLES pool,      \* the VNodePool in the API server: [valid, deleting, status]
          poolCache, \* the informer's copy
          lag,       \* the versions between the two, oldest first
          phase,     \* the phase of each VNode in the API server
          seen,      \* the informer's copy
          pq, sq,    \* the pool is in the two controllers' work queues
          pw, sw,    \* the two workers
          stale,     \* a pool pass patched without having seen its predecessor's patch
          budget

nodeVars == <<phase, seen>>
poolVars == <<pool, poolCache, lag>>
vars == <<poolVars, nodeVars, pq, sq, pw, sw, stale, budget>>

\* A condition is what it says: its reason, and for Ready also the count in its
\* message; status and transition time follow from them.
Phases == {"", "Ready", "Scaling", "Failed", "Deleting"}
PoolReasons == {"PoolReady", "PoolScaling", "ValidationFailed", "ReconcileFailed", "Deleting"}
ExecReasons == {"PodExecutionReady", "PodExecutionFailed"}
Conditions == [Ready : [reason : PoolReasons \cup {""}, ready : Nat],
               Degraded : PoolReasons \cup ExecReasons \cup {""},
               PodExecutionReady : ExecReasons \cup {""}]
Statuses == [phase : Phases, readyNodes : Nat, totalNodes : Nat, conditions : Conditions]
Pools == [valid : BOOLEAN, deleting : BOOLEAN, status : Statuses]

NewStatus ==
  [phase |-> "", readyNodes |-> 0, totalNodes |-> 0,
   conditions |-> [Ready |-> [reason |-> "", ready |-> 0], Degraded |-> "",
                   PodExecutionReady |-> ""]]

\* reason, ready   what the pass has to publish       base   the copy read for it
Workers == [pc : {"idle", "get", "patch"}, reason : PoolReasons \cup ExecReasons \cup {""},
            ready : Nat, base : Statuses]
Idle == [pc |-> "idle", reason |-> "", ready |-> 0, base |-> NewStatus]

\* The variables range over the values the Go types and CRD enums allow.
StatusTypeOK ==
  /\ pool \in Pools /\ poolCache \in Pools /\ lag \in Seq(Pools)
  /\ phase \in [Nodes -> {"", "Ready", "NotReady"}]
  /\ seen \in [Nodes -> {"", "Ready", "NotReady"}]
  /\ pq \in BOOLEAN /\ sq \in BOOLEAN
  /\ pw \in Workers /\ sw \in Workers
  /\ stale \in BOOLEAN
  /\ budget \in Budgets

\* A pool just created, its VNodes still to be provisioned.
Init ==
  /\ pool = [valid |-> TRUE, deleting |-> FALSE, status |-> NewStatus]
  /\ poolCache = pool
  /\ lag = <<>>
  /\ phase = [n \in Nodes |-> ""]
  /\ seen = phase
  /\ pq = TRUE /\ sq = TRUE
  /\ pw = Idle /\ sw = Idle
  /\ stale = FALSE
  /\ budget \in Disturbances

Spend(kind) ==
  /\ budget[kind] > 0
  /\ budget' = [budget EXCEPT ![kind] = @ - 1]

\* A write to the pool; one that changes nothing makes no version and no event.
Write(new) ==
  IF new = pool THEN UNCHANGED poolVars
  ELSE /\ Len(lag) < MaxLag
       /\ pool' = new
       /\ lag' = Append(lag, new)
       /\ UNCHANGED poolCache

-----------------------------------------------------------------------------
(* Users, the VNode controller and the informers. *)

EditSpec ==
  /\ Spend("edit")
  /\ Write([pool EXCEPT !.valid = ~@])
  /\ UNCHANGED <<nodeVars, pq, sq, pw, sw, stale>>

DeletePool ==
  /\ Spend("delete")
  /\ Write([pool EXCEPT !.deleting = TRUE])
  /\ UNCHANGED <<nodeVars, pq, sq, pw, sw, stale>>

\* UpdateStatus of VNode n finds the tenant reachable or not.
UpdateStatus(n) ==
  /\ phase[n] # "" /\ seen[n] = phase[n]      \* bound: one event per VNode
  /\ Spend("node")
  /\ phase' = [phase EXCEPT ![n] = IF @ = "Ready" THEN "NotReady" ELSE "Ready"]
  /\ UNCHANGED <<seen, poolVars, pq, sq, pw, sw, stale>>

\* A VNode event. The phase has changed, so the pool controller is told.
DeliverVNodeReadyOnly(n) ==
  /\ seen[n] # phase[n]
  /\ seen' = [seen EXCEPT ![n] = phase[n]]
  /\ pq' = (pq \/ phase[n] = "Ready")
  /\ UNCHANGED <<phase, poolVars, sq, pw, sw, stale, budget>>
DeliverVNode(n) ==
  /\ seen[n] # phase[n]
  /\ seen' = [seen EXCEPT ![n] = phase[n]]
  /\ pq' = TRUE
  /\ UNCHANGED <<phase, poolVars, sq, pw, sw, stale, budget>>

\* A pool event: PodSync is told of every one, the pool controller of changes
\* of the generation only, which a status patch is not.
DeliverPool ==
  /\ lag # <<>>
  /\ poolCache' = Head(lag)
  /\ lag' = Tail(lag)
  /\ sq' = TRUE
  /\ pq' = (pq \/ Head(lag).valid # poolCache.valid \/ Head(lag).deleting # poolCache.deleting)
  /\ UNCHANGED <<pool, nodeVars, pw, sw, stale, budget>>

-----------------------------------------------------------------------------
(* What the two controllers make of a status. *)

PhaseReason(ph) == CASE ph = "Ready" -> "PoolReady" [] ph = "Scaling" -> "PoolScaling"
ReadyCount(nodes) == Cardinality({n \in Nodes : nodes[n] = "Ready"})
ResultPhase(ready) == IF ready = Cardinality(Nodes) THEN "Ready" ELSE "Scaling"

\* The mutations the pool controller passes to updatePoolStatus: after Validate
\* or Reconcile failed, during deletion, and with Reconcile's result.
Succeeded(w) == w.reason \in {"PoolReady", "PoolScaling"}
PublishedPhaseIsReason(w) == w.reason
PublishedPhase(w) ==
  CASE w.reason \in {"ValidationFailed", "ReconcileFailed"} -> "Failed"
    [] w.reason = "Deleting" -> "Deleting"
    [] Succeeded(w) -> ResultPhase(w.ready)
PoolMutate(w, st) ==
  [phase |-> PublishedPhase(w),
   readyNodes |-> IF Succeeded(w) THEN w.ready ELSE st.readyNodes,
   totalNodes |-> IF Succeeded(w) THEN Cardinality(Nodes) ELSE st.totalNodes,
   conditions |-> [st.conditions EXCEPT
                     !.Ready = [reason |-> w.reason, ready |-> w.ready],
                     !.Degraded = w.reason]]

\* The two setPodSyncCondition calls of updateExecutionConditions.
SyncMutateAppendOnly(w, st) ==
  [st EXCEPT !.conditions =
     [@ EXCEPT !.PodExecutionReady = IF @ = "" THEN w.reason ELSE @, !.Degraded = w.reason]]
SyncMutate(w, st) ==
  [st EXCEPT !.conditions =
     [@ EXCEPT !.PodExecutionReady = w.reason, !.Degraded = w.reason]]

\* Status().Patch with MergeFrom(base): the fields that differ from base are
\* sent, the list of conditions as a whole.
MergeWhole(old, base, new) == IF new = base THEN old ELSE new
Merge(old, base, new) ==
  LET Sent(was, from, to) == IF to # from THEN to ELSE was
  IN  [phase |-> Sent(old.phase, base.phase, new.phase),
       readyNodes |-> Sent(old.readyNodes, base.readyNodes, new.readyNodes),
       totalNodes |-> Sent(old.totalNodes, base.totalNodes, new.totalNodes),
       conditions |-> Sent(old.conditions, base.conditions, new.conditions)]

Patch(base, new) == Write([pool EXCEPT !.status = Merge(@, base, new)])

-----------------------------------------------------------------------------
(* VNodePoolReconciler.Reconcile. *)

poolFrame == <<sq, sw>>
PoolPublishing(reason, ready) ==
  pw' = [Idle EXCEPT !.pc = "get", !.reason = reason, !.ready = ready]

\* The pool is being deleted, or fails Validate.
PoolBeginOther ==
  /\ pw.pc = "idle" /\ pq
  /\ poolCache.deleting \/ ~poolCache.valid
  /\ PoolPublishing(IF poolCache.deleting THEN "Deleting" ELSE "ValidationFailed", 0)
  /\ pq' = FALSE
  /\ UNCHANGED <<poolFrame, poolVars, nodeVars, stale, budget>>

Missing == {n \in Nodes : seen[n] = ""}

\* PoolService.Reconcile succeeds: the VNodes it does not see are provisioned,
\* which only works if they are not there yet, and the Ready ones are counted.
PoolBegin ==
  /\ pw.pc = "idle" /\ pq
  /\ poolCache.valid /\ ~poolCache.deleting
  /\ \A n \in Missing : phase[n] = ""
  /\ phase' = [n \in Nodes |-> IF n \in Missing THEN "Ready" ELSE phase[n]]
  /\ LET working == [n \in Nodes |-> IF n \in Missing THEN "Ready" ELSE seen[n]]
         ready == ReadyCount(working)
     IN  PoolPublishing(PhaseReason(ResultPhase(ready)), ready)
  /\ pq' = FALSE
  /\ UNCHANGED <<poolFrame, poolVars, seen, stale, budget>>

\* It fails: a name is taken by a VNode the list did not show, or some Provision
\* fails and may leave its VNode NotReady.
PoolBeginFails ==
  /\ pw.pc = "idle" /\ pq
  /\ poolCache.valid /\ ~poolCache.deleting
  /\ \/ (\E n \in Missing : phase[n] # "") /\ UNCHANGED <<phase, budget>>
     \/ /\ Spend("scale")
        /\ \E n \in Missing, left \in {"", "NotReady"} :
             phase[n] = "" /\ phase' = [phase EXCEPT ![n] = left]
  /\ PoolPublishing("ReconcileFailed", 0)
  /\ pq' = FALSE
  /\ UNCHANGED <<poolFrame, poolVars, seen, stale>>

\* updatePoolStatus: the cached Get.
PoolGet ==
  /\ pw.pc = "get"
  /\ pw' = [pw EXCEPT !.pc = "patch", !.base = poolCache.status]
  /\ UNCHANGED <<poolFrame, poolVars, nodeVars, pq, stale, budget>>

\* What only the pool controller writes.
Own(st) == <<st.phase, st.readyNodes, st.totalNodes>>

\* The patch, and the end of the pass: a failed reconcile is retried.
PoolPatch ==
  /\ pw.pc = "patch"
  /\ Patch(pw.base, PoolMutate(pw, pw.base))
  /\ stale' = (stale \/ Own(pw.base) # Own(pool.status))
  /\ pw' = Idle
  /\ pq' = (pq \/ pw.reason = "ReconcileFailed")
  /\ UNCHANGED <<poolFrame, nodeVars, budget>>

\* The patch is refused. The error counts only after a successful reconcile.
PoolPatchFails ==
  /\ pw.pc = "patch"
  /\ PoolMutate(pw, pw.base) # pw.base
  /\ Spend("host")
  /\ pw' = Idle
  /\ pq' = (pq \/ pw.reason \in {"PoolReady", "PoolScaling", "ReconcileFailed"})
  /\ UNCHANGED <<poolFrame, poolVars, nodeVars, stale>>

PoolStep ==
  \/ PoolBeginOther \/ PoolBegin \/ PoolBeginFails
  \/ PoolGet \/ PoolPatch \/ PoolPatchFails

-----------------------------------------------------------------------------
(* PodSyncReconciler.Reconcile. *)

syncFrame == <<nodeVars, pq, pw, stale>>

\* An invalid pool and one being deleted have no conditions to write; a Failed
\* one is looked at again later.
SyncSkip ==
  /\ sw.pc = "idle" /\ sq
  /\ ~poolCache.valid \/ poolCache.deleting \/ poolCache.status.phase = "Failed"
  /\ sq' = (poolCache.valid /\ ~poolCache.deleting)
  /\ UNCHANGED <<syncFrame, poolVars, sw, budget>>

\* ReconcilePool succeeds, as it also says of a pass cut short by a cancelled or
\* timed-out call, or fails.
SyncBegin ==
  /\ sw.pc = "idle" /\ sq
  /\ poolCache.valid /\ ~poolCache.deleting /\ poolCache.status.phase # "Failed"
  /\ sq' = FALSE
  /\ \/ sw' = [Idle EXCEPT !.pc = "get", !.reason = "PodExecutionReady"] /\ UNCHANGED budget
     \/ sw' = [Idle EXCEPT !.pc = "get", !.reason = "PodExecutionFailed"] /\ Spend("exec")
  /\ UNCHANGED <<syncFrame, poolVars>>

\* updateExecutionConditions: the cached Get.
SyncGet ==
  /\ sw.pc = "get"
  /\ sw' = [sw EXCEPT !.pc = "patch", !.base = poolCache.status]
  /\ UNCHANGED <<syncFrame, poolVars, sq, budget>>

\* The patch, whose error is dropped, and the requeue.
SyncPatch ==
  /\ sw.pc = "patch"
  /\ \/ Patch(sw.base, SyncMutate(sw, sw.base)) /\ UNCHANGED budget
     \/ UNCHANGED poolVars /\ Spend("host")
  /\ sw' = Idle
  /\ sq' = TRUE
  /\ UNCHANGED syncFrame

SyncStep == SyncSkip \/ SyncBegin \/ SyncGet \/ SyncPatch

-----------------------------------------------------------------------------
Next ==
  \/ PoolStep \/ SyncStep \/ DeliverPool \/ EditSpec \/ DeletePool
  \/ \E n \in Nodes : DeliverVNode(n) \/ UpdateStatus(n)

Spec == Init /\ [][Next]_vars

\* Workers and informers run on; strongly fair where a patch waits for room in
\* lag, which the code does not. Nothing is assumed of users, VNodes and faults.
StatusFairSpec ==
  /\ Spec
  /\ SF_vars(PoolStep)
  /\ SF_vars(SyncStep)
  /\ WF_vars(DeliverPool)
  /\ \A n \in Nodes : WF_vars(DeliverVNode(n))

-----------------------------------------------------------------------------
(* Properties. *)

\* The pool controller has nothing to do and the caches are up to date.
AtRest == pw.pc = "idle" /\ ~pq /\ seen = phase /\ lag = <<>>

\* What is published agrees with the VNodes.
Accurate ==
  /\ pool.status.readyNodes = Cardinality({n \in Nodes : phase[n] = "Ready"})
  /\ pool.status.phase = IF \A n \in Nodes : phase[n] = "Ready" THEN "Ready" ELSE "Scaling"

\* At rest a live pool's phase and ready count are those of its VNodes, provided
\* each pass of the pool controller saw the status its predecessor had written:
\* no other interleaving with PodSync, the VNode controller, users or failing
\* calls makes them wrong.
AccurateUnlessStale ==
  AtRest /\ pool.valid /\ ~pool.deleting /\ ~stale => Accurate

\* A pool that says Deleting says so to the end: no pass that began before the
\* deletion, of either controller, puts an earlier phase back.
DeletingStays ==
  [][pool.status.phase = "Deleting" => pool'.status.phase = "Deleting"]_vars

\* Although the two controllers overwrite each other's conditions, what PodSync
\* found last is published in the end: a patch that undoes it is an event that
\* starts PodSync again. It does not run on a pool that says Failed.
ExecutionReported ==
  <>[]( \/ ~pool.valid \/ pool.deleting \/ pool.status.phase = "Failed"
        \/ pool.status.conditions.PodExecutionReady = "PodExecutionReady" )

-----------------------------------------------------------------------------
(* What the repository's documents and comments say and the code does not do. *)

\* vnodepool_types.go:84: "ReadyNodes is the number of virtual nodes in Ready
\* state", and README.md:67: phase transitions "trigger a pool reconcile to
\* update the pool's ready count", so that it is right once all of them ran.
AccurateAtRest == AtRest /\ pool.valid /\ ~pool.deleting => Accurate
=============================================================================
