---------------------------- MODULE PodExecution ----------------------------
(***************************************************************************)
(* The pods of one VNodePool: the PodSync controller, the pass             *)
(* PodExecutionService.ReconcilePool makes over the tenant's pods, and     *)
(* CleanupPoolPods.                                                        *)
(*                                                                         *)
(*   tenant pods   read and written directly (no cache)                    *)
(*   host pods     written directly, read through an informer cache        *)
(*   the pool      read through an informer cache; its life and that of    *)
(*                 the VNodes is module VNodeLifecycle's, of which only    *)
(*                 the set of ready VNodes and the deletion are seen here  *)
(*                                                                         *)
(* Tenant pods are numbered in the order in which the tenant API lists     *)
(* them.  The host pod of p on node n has the key <<p, n>>.                *)
(***************************************************************************)
EXTENDS Integers, Sequences, FiniteSets

CONSTANTS NPods,      \* bound: how many names tenant pods have
          Nodes,      \* the pool's virtual nodes
          PodSpecs,   \* the pod specs users write
          InitConfig, \* whether the ConfigMap the pods mount exists at first
          MaxLag,     \* bound: host pod events in flight
          MaxInc,     \* bound: pods a user creates under one name
          Limits      \* bounds: how often the environment may do each thing

Kinds == {"edit", "delete", "config", "flap", "evict", "pause", "pool", "fault", "crash"}

ASSUME PodAssumption ==
  /\ NPods \in Nat \ {0} /\ MaxLag \in Nat \ {0} /\ MaxInc \in Nat \ {0}
  /\ PodSpecs \subseteq {"v1", "v2", "csi", "projected"}
  /\ InitConfig \subseteq {0, 1}
  /\ Limits \subseteq [Kinds -> Nat]

VARIABLES tpods,      \* the tenant's pods
          born,       \* how many pods were created under each name
          mixed,      \* history: the pods of each name given another one's status
          killed,     \* history: the status is that of a host pod that was killed
          done,       \* history: the pods of each name that ran to their end
          config,     \* version of the tenant's ConfigMap; 0: missing
          hostConfig, \* version of its copy on the host; 0: none
          hpods,      \* the host's pods
          hcache,     \* the informer's copy of them
          hwatch,     \* host pod events not yet seen by the informer
          ready,      \* VNodes the informer shows as Ready
          vpool,      \* the VNodePool in the API server
          vpoolCache, \* the informer's copy of it
          sq,         \* the pool is in the PodSync work queue
          sw,         \* the PodSync worker
          left        \* what remains of the chosen limits

reports == <<mixed, killed>>
tenantSide == <<tpods, born, reports, config>>
podStore == <<hpods, hcache, hwatch>>
hostSide == <<podStore, hostConfig, done>>
poolSide == <<ready, vpool, vpoolCache>>
podVars == <<tenantSide, hostSide, poolSide, sq, sw, left>>

Pods == 1..NPods
Keys == Pods \X Nodes
Phases == {"Pending", "Running", "Succeeded", "Failed"}
isTerminal(phase) == phase \in {"Succeeded", "Failed"}

(***************************************************************************)
(* Specs.  "v1" and "v2" differ in a field users may change, such as an    *)
(* image.  "csi" has a volume of a type the operator does not know:        *)
(* podFromCore makes it "other", podSpecToK8sPod writes such a volume      *)
(* without a source, and the host API turns that into an emptyDir.         *)
(* "projected" has a projected volume mounted away from the service        *)
(* account path: TranslatePod drops the volume but not the mount, and the  *)
(* host API refuses a mount without a volume.                              *)
(***************************************************************************)
podFromCore(s) == IF s = "csi" THEN "other" ELSE s
TranslatePod(s) == IF s = "projected" THEN "dangling" ELSE s
podSpecToK8sPod(t) == IF t = "other" THEN "sourceless" ELSE t
HostAccepts(k) == k # "dangling"
Defaulted(k) == IF k = "sourceless" THEN "emptyDir" ELSE k
podToSpec(k) == IF k = "sourceless" THEN "other" ELSE k
podSpecsEqual(a, b) == a = b

\* What a tenant pod's spec should be on the host, and what is stored of it.
Target(s) == TranslatePod(podFromCore(s))
Stored(t) == Defaulted(podSpecToK8sPod(t))
HostSpecs == {Stored(Target(s)) : s \in PodSpecs}

\* inc tells the pods created under one name apart (their UID).
NoTPod == [on |-> FALSE]
TPods == {NoTPod} \cup [on : {TRUE}, node : Nodes, spec : PodSpecs, phase : Phases,
                        deleting : BOOLEAN, inc : 1..MaxInc]

\* inc is the tenant pod it was created for; killed: it ended by deletion.
NoHPod == [on |-> FALSE]
HPods == {NoHPod} \cup [on : {TRUE}, spec : HostSpecs, phase : Phases,
                        deleting : BOOLEAN, inc : 1..MaxInc, killed : BOOLEAN]

VPools == [exists : BOOLEAN, valid : BOOLEAN, deleting : BOOLEAN, failed : BOOLEAN]

\* seen  ready VNodes       src   the tenant pods listed    todo  those left
\* p     the pod at hand    work  host pods to be deleted
SyncPcs == {"idle", "list", "next", "ensure", "status", "remove", "orphans", "cleanup"}
Syncers == [pc : SyncPcs, seen : SUBSET Nodes, src : [Pods -> TPods],
            todo : SUBSET Pods, p : Pods \cup {0}, work : SUBSET Keys]
IdleSync == [pc |-> "idle", seen |-> {}, src |-> [p \in Pods |-> NoTPod],
             todo |-> {}, p |-> 0, work |-> {}]

\* The variables range over what the Go and Kubernetes types allow; the copy of
\* the ConfigMap is never newer than the original.
PodTypeOK ==
  /\ tpods \in [Pods -> TPods] /\ born \in [Pods -> 0..MaxInc]
  /\ mixed \in [Pods -> SUBSET (1..MaxInc)] /\ killed \in [Pods -> BOOLEAN]
  /\ done \in [Pods -> SUBSET (1..MaxInc)]
  /\ config \in Nat /\ hostConfig \in 0..config
  /\ hpods \in [Keys -> HPods] /\ hcache \in [Keys -> HPods]
  /\ hwatch \in Seq([k : Keys, v : HPods])
  /\ ready \subseteq Nodes
  /\ vpool \in VPools /\ vpoolCache \in VPools
  /\ sq \in BOOLEAN /\ sw \in Syncers
  /\ left \in [Kinds -> Nat]

PodInit ==
  /\ tpods = [p \in Pods |-> NoTPod] /\ born = [p \in Pods |-> 0]
  /\ mixed = [p \in Pods |-> {}] /\ killed = [p \in Pods |-> FALSE]
  /\ done = [p \in Pods |-> {}]
  /\ config \in InitConfig /\ hostConfig = 0
  /\ hpods = [k \in Keys |-> NoHPod] /\ hcache = hpods /\ hwatch = <<>>
  /\ ready = Nodes
  /\ vpool = [exists |-> TRUE, valid |-> TRUE, deleting |-> FALSE, failed |-> FALSE]
  /\ vpoolCache = vpool
  /\ sq = TRUE /\ sw = IdleSync
  /\ left \in Limits

Use(kind) ==
  /\ left[kind] > 0
  /\ left' = [left EXCEPT ![kind] = @ - 1]

-----------------------------------------------------------------------------
(* The tenant's users. *)

tenantFrame == <<reports, hostSide, poolSide, sq, sw>>

CreatePod(p) ==
  /\ ~tpods[p].on /\ born[p] < MaxInc
  /\ \E n \in Nodes, s \in PodSpecs :
       tpods' = [tpods EXCEPT ![p] = [on |-> TRUE, node |-> n, spec |-> s, phase |-> "Pending",
                                      deleting |-> FALSE, inc |-> born[p] + 1]]
  /\ born' = [born EXCEPT ![p] = @ + 1]
  /\ UNCHANGED <<tenantFrame, config, left>>

EditPod(p) ==
  /\ tpods[p].on /\ tpods[p].spec \in {"v1", "v2"}
  /\ Use("edit")
  /\ \E s \in PodSpecs \cap {"v1", "v2"} : tpods' = [tpods EXCEPT ![p].spec = s]
  /\ UNCHANGED <<tenantFrame, born, config>>

\* A delete marks the pod; a forced one, or the tenant's garbage collector once
\* the Node is gone, removes it.
DeleteTenantPod(p) ==
  /\ tpods[p].on
  /\ Use("delete")
  /\ tpods' \in {[tpods EXCEPT ![p].deleting = TRUE], [tpods EXCEPT ![p] = NoTPod]}
  /\ UNCHANGED <<tenantFrame, born, config>>

WriteConfig ==
  /\ Use("config")
  /\ config' = config + 1
  /\ UNCHANGED <<tenantFrame, tpods, born>>

-----------------------------------------------------------------------------
(* The host: its API server, the informer and the kubelets. *)

hostFrame == <<tenantSide, poolSide, sq, sw, hostConfig>>

HostPut(k, v) ==
  /\ Len(hwatch) < MaxLag
  /\ hpods' = [hpods EXCEPT ![k] = v]
  /\ hwatch' = Append(hwatch, [k |-> k, v |-> v])
  /\ UNCHANGED hcache

\* PodClusterClient.DeletePod: NotFound is success, a second delete does nothing.
DeletePod(k) ==
  IF hpods[k].on /\ ~hpods[k].deleting
  THEN HostPut(k, [hpods[k] EXCEPT !.deleting = TRUE])
  ELSE UNCHANGED podStore

HostProgress(k) ==
  /\ hpods[k].on /\ ~hpods[k].deleting /\ ~isTerminal(hpods[k].phase)
  /\ \E ph \in IF hpods[k].phase = "Pending" THEN {"Running"} ELSE {"Succeeded", "Failed"} :
       /\ HostPut(k, [hpods[k] EXCEPT !.phase = ph])
       /\ done' = IF isTerminal(ph) THEN [done EXCEPT ![k[1]] = @ \cup {hpods[k].inc}] ELSE done
  /\ UNCHANGED <<hostFrame, left>>

\* A kubelet ends a deleted pod and reports so, then the object goes away.
HostKill(k) ==
  /\ hpods[k].on /\ hpods[k].deleting /\ ~isTerminal(hpods[k].phase)
  /\ HostPut(k, [hpods[k] EXCEPT !.phase = "Failed", !.killed = TRUE])
  /\ UNCHANGED <<hostFrame, done, left>>

HostGone(k) ==
  /\ hpods[k].on /\ hpods[k].deleting
  /\ HostPut(k, NoHPod)
  /\ UNCHANGED <<hostFrame, done, left>>

Evict(k) ==
  /\ hpods[k].on /\ ~hpods[k].deleting
  /\ Use("evict")
  /\ DeletePod(k)
  /\ UNCHANGED <<hostFrame, done>>

DeliverHost ==
  /\ hwatch # <<>>
  /\ hcache' = [hcache EXCEPT ![Head(hwatch).k] = Head(hwatch).v]
  /\ hwatch' = Tail(hwatch)
  /\ UNCHANGED <<hostFrame, hpods, done, left>>

-----------------------------------------------------------------------------
(* The life of the pool and its VNodes, as far as PodSync sees it. *)

lifeFrame == <<tenantSide, hostSide, sw>>

NodeDown(n) ==
  /\ n \in ready /\ Use("flap")
  /\ ready' = ready \ {n}
  /\ UNCHANGED <<lifeFrame, vpool, vpoolCache, sq>>

NodeUp(n) ==
  /\ n \notin ready /\ vpool.exists /\ ~vpool.deleting
  /\ ready' = ready \cup {n}
  /\ UNCHANGED <<lifeFrame, vpool, vpoolCache, sq, left>>

\* status.phase becomes Failed and later something else again.
PoolFails ==
  /\ vpool.exists
  /\ IF vpool.failed THEN UNCHANGED left ELSE Use("pause")
  /\ vpool' = [vpool EXCEPT !.failed = ~@]
  /\ UNCHANGED <<lifeFrame, ready, vpoolCache, sq>>

\* A user makes the spec invalid or deletes the pool.
ChangePool ==
  /\ vpool.exists /\ Use("pool")
  /\ vpool' \in {[vpool EXCEPT !.valid = FALSE], [vpool EXCEPT !.deleting = TRUE]}
  /\ UNCHANGED <<lifeFrame, ready, vpoolCache, sq>>

\* handleDeletion deprovisions the VNodes and, when none is left, removes the
\* finalizer. It does not look at host pods.
Deprovisioned(n) ==
  /\ vpool.exists /\ vpool.deleting /\ n \in ready
  /\ ready' = ready \ {n}
  /\ UNCHANGED <<lifeFrame, vpool, vpoolCache, sq, left>>

Finalized ==
  /\ vpool.exists /\ vpool.deleting /\ ready = {}
  /\ vpool' = [vpool EXCEPT !.exists = FALSE]
  /\ UNCHANGED <<lifeFrame, ready, vpoolCache, sq, left>>

\* PodSync watches the pool without a predicate: every event queues it, those
\* of status patches that change nothing else included.
DeliverVPool ==
  /\ vpoolCache # vpool
  /\ vpoolCache' = vpool
  /\ sq' = TRUE
  /\ UNCHANGED <<lifeFrame, ready, vpool, left>>

PoolStatusPatched ==
  /\ vpoolCache.exists /\ ~sq
  /\ sq' = TRUE
  /\ UNCHANGED <<lifeFrame, poolSide, left>>

-----------------------------------------------------------------------------
(* PodSyncReconciler.Reconcile. *)

syncFrame == <<born, config, done, poolSide, left>>
SyncDoneUnlessQueued(requeue) == sw' = IdleSync /\ UNCHANGED sq
SyncDone(requeue) == sw' = IdleSync /\ sq' = (sq \/ requeue)

\* ListPodsByLabels reads the cache.
ListPods == {k \in Keys : hcache[k].on}

\* Gone or invalid: return. Failed: come back in three seconds.
SyncSkip ==
  /\ sw.pc = "idle" /\ sq
  /\ \/ ~vpoolCache.exists \/ ~vpoolCache.valid
     \/ ~vpoolCache.deleting /\ vpoolCache.failed
  /\ sw' = IdleSync
  /\ sq' = (vpoolCache.exists /\ vpoolCache.valid)
  /\ UNCHANGED <<syncFrame, tpods, reports, podStore, hostConfig>>

\* A pool being deleted: CleanupPoolPods lists the host pods once.
SyncCleanupStart ==
  /\ sw.pc = "idle" /\ sq
  /\ vpoolCache.exists /\ vpoolCache.valid /\ vpoolCache.deleting
  /\ sw' = [IdleSync EXCEPT !.pc = "cleanup", !.work = ListPods]
  /\ sq' = FALSE
  /\ UNCHANGED <<syncFrame, tpods, reports, podStore, hostConfig>>

SyncCleanup ==
  /\ sw.pc = "cleanup"
  /\ \/ \E k \in sw.work : DeletePod(k) /\ sw' = [sw EXCEPT !.work = @ \ {k}] /\ UNCHANGED sq
     \/ sw.work = {} /\ SyncDone(FALSE) /\ UNCHANGED podStore
  /\ UNCHANGED <<syncFrame, tpods, reports, hostConfig>>

\* ReconcilePool lists the VNodes, then the tenant's pods on the ready ones.
SyncStart ==
  /\ sw.pc = "idle" /\ sq
  /\ vpoolCache.exists /\ vpoolCache.valid /\ ~vpoolCache.deleting /\ ~vpoolCache.failed
  /\ sw' = [IdleSync EXCEPT !.pc = "list", !.seen = ready]
  /\ sq' = FALSE
  /\ UNCHANGED <<syncFrame, tpods, reports, podStore, hostConfig>>

Listed(p, nodes) == tpods[p].on /\ ~tpods[p].deleting /\ tpods[p].node \in nodes

SyncList ==
  /\ sw.pc = "list"
  /\ LET found == {p \in Pods : Listed(p, sw.seen)} IN
       sw' = [sw EXCEPT !.pc = "next", !.todo = found,
                        !.src = [p \in Pods |-> IF p \in found THEN tpods[p] ELSE NoTPod]]
  /\ UNCHANGED <<syncFrame, tpods, reports, podStore, hostConfig, sq>>

Source == sw.src[sw.p]
Key(p) == <<p, sw.src[p].node>>
NextPod(w) == [w EXCEPT !.pc = "next", !.p = 0]

\* The copy of the ConfigMap after EnsureConfigMap, which is not called when the
\* tenant has none.
syncPodResources == IF config = 0 THEN hostConfig ELSE config

\* The next pod in list order: its ConfigMap is copied, then a terminal pod goes
\* straight to its status.
AfterResourcesAlwaysEnsure(p) == "ensure"
AfterResources(p) == IF isTerminal(sw.src[p].phase) THEN "status" ELSE "ensure"
SyncNext ==
  /\ sw.pc = "next"
  /\ hostConfig' = syncPodResources
  /\ \E p \in sw.todo :
       /\ \A q \in sw.todo : p <= q
       /\ sw' = [sw EXCEPT !.pc = AfterResources(p), !.p = p, !.todo = @ \ {p}]
  /\ UNCHANGED <<syncFrame, tpods, reports, podStore, sq>>

\* ensureHostPod decides on the cached pod.
EnsureOutcomeAlwaysReplace(k, spec) ==
  IF ~hcache[k].on THEN "create" ELSE "replace"
EnsureOutcome(k, spec) ==
  IF ~hcache[k].on THEN "create"
  ELSE IF hcache[k].deleting THEN "wait"
  ELSE IF podSpecsEqual(podToSpec(hcache[k].spec), spec) THEN "keep" ELSE "replace"

\* A pod being deleted, or just deleted, is skipped: errPodTerminating. A create
\* that the API refuses ends the whole pass, to be retried.
SyncEnsure ==
  /\ sw.pc = "ensure"
  /\ LET k == Key(sw.p)
         spec == Target(Source.spec)
         outcome == EnsureOutcome(k, spec)
     IN  \/ /\ outcome = "create" /\ HostAccepts(podSpecToK8sPod(spec)) /\ ~hpods[k].on
            /\ HostPut(k, [on |-> TRUE, spec |-> Stored(spec), phase |-> "Pending",
                           deleting |-> FALSE, inc |-> Source.inc, killed |-> FALSE])
            /\ sw' = [sw EXCEPT !.pc = "status"] /\ UNCHANGED sq
         \/ /\ outcome = "create" /\ (~HostAccepts(podSpecToK8sPod(spec)) \/ hpods[k].on)
            /\ SyncDone(TRUE) /\ UNCHANGED podStore
         \/ outcome = "wait" /\ sw' = NextPod(sw) /\ UNCHANGED <<podStore, sq>>
         \/ outcome = "keep" /\ sw' = [sw EXCEPT !.pc = "status"] /\ UNCHANGED <<podStore, sq>>
         \/ outcome = "replace" /\ DeletePod(k) /\ sw' = NextPod(sw) /\ UNCHANGED sq
  /\ UNCHANGED <<syncFrame, tpods, reports, hostConfig>>

\* What podToStatus and SyncStatus hand on of a host pod.
podToStatusWithoutPhase(h) == ""
podToStatus(h) == h.phase

\* updateTenantPodStatus gets the tenant pod by name and writes its status.
updateTenantPodStatus(p, h) ==
  /\ tpods[p].on
  /\ tpods' = [tpods EXCEPT ![p].phase = podToStatus(h)]
  /\ mixed' = [mixed EXCEPT ![p] = IF h.inc = tpods[p].inc THEN @ ELSE @ \cup {tpods[p].inc}]
  /\ killed' = [killed EXCEPT ![p] = h.killed]

\* GetPodStatus reads the cache a second time. A tenant pod that is gone ends
\* the pass.
SyncStatus ==
  /\ sw.pc = "status"
  /\ LET h == hcache[Key(sw.p)]
         then == IF isTerminal(Source.phase) THEN [sw EXCEPT !.pc = "remove"] ELSE NextPod(sw)
     IN  \/ ~h.on /\ sw' = then /\ UNCHANGED <<tpods, reports, sq>>
         \/ h.on /\ updateTenantPodStatus(sw.p, h) /\ sw' = then /\ UNCHANGED sq
         \/ h.on /\ ~tpods[sw.p].on /\ SyncDone(TRUE) /\ UNCHANGED <<tpods, reports>>
  /\ UNCHANGED <<syncFrame, podStore, hostConfig>>

\* The host pod of a terminal tenant pod is deleted.
SyncRemove ==
  /\ sw.pc = "remove"
  /\ DeletePod(Key(sw.p))
  /\ sw' = NextPod(sw)
  /\ UNCHANGED <<syncFrame, tpods, reports, hostConfig, sq>>

\* After the last pod: the cached host pods no listed pod maps to are deleted.
SyncOrphansStart ==
  /\ sw.pc = "next" /\ sw.todo = {}
  /\ sw' = [sw EXCEPT !.pc = "orphans",
                      !.work = ListPods \ {Key(p) : p \in {q \in Pods : sw.src[q].on}}]
  /\ UNCHANGED <<syncFrame, tpods, reports, podStore, hostConfig, sq>>

\* At the end the pool is queued again, two seconds later.
SyncOrphans ==
  /\ sw.pc = "orphans"
  /\ \/ \E k \in sw.work : DeletePod(k) /\ sw' = [sw EXCEPT !.work = @ \ {k}] /\ UNCHANGED sq
     \/ sw.work = {} /\ SyncDone(TRUE) /\ UNCHANGED podStore
  /\ UNCHANGED <<syncFrame, tpods, reports, hostConfig>>

\* A call fails. ReconcilePool's pass is over and comes again in two seconds; in
\* CleanupPoolPods a cancelled or timed-out call counts as success.
SyncFault ==
  /\ sw.pc # "idle" /\ Use("fault")
  /\ \E retried \in BOOLEAN : (sw.pc # "cleanup" => retried) /\ SyncDone(retried)
  /\ UNCHANGED <<born, config, done, poolSide, tpods, reports, podStore, hostConfig>>

\* The operator dies and starts again.
SyncCrash ==
  /\ Use("crash")
  /\ sw' = IdleSync /\ sq' = vpool.exists
  /\ hcache' = hpods /\ hwatch' = <<>> /\ vpoolCache' = vpool
  /\ UNCHANGED <<tenantSide, hpods, hostConfig, done, ready, vpool>>

SyncStep ==
  \/ SyncSkip \/ SyncCleanupStart \/ SyncCleanup \/ SyncStart \/ SyncList \/ SyncNext
  \/ SyncEnsure \/ SyncStatus \/ SyncRemove \/ SyncOrphansStart \/ SyncOrphans

HostStep ==
  \/ DeliverHost
  \/ \E k \in Keys : HostProgress(k) \/ HostKill(k) \/ HostGone(k) \/ Evict(k)

UserStep ==
  \/ WriteConfig
  \/ \E p \in Pods : CreatePod(p) \/ EditPod(p) \/ DeleteTenantPod(p)

LifeStep ==
  \/ PoolFails \/ ChangePool \/ Finalized \/ DeliverVPool \/ PoolStatusPatched
  \/ \E n \in Nodes : NodeDown(n) \/ NodeUp(n) \/ Deprovisioned(n)

PodNext == SyncStep \/ SyncFault \/ SyncCrash \/ HostStep \/ UserStep \/ LifeStep

PodSpec == PodInit /\ [][PodNext]_podVars

\* The worker and the informers run on, and a deleted host pod goes away in the
\* end. Strong fairness where MaxLag alone may disable a write again and again.
\* Nothing is assumed of users, of pods ending, of faults or of crashes.
PodFairSpec ==
  /\ PodSpec
  /\ SF_podVars(SyncStep)
  /\ WF_podVars(DeliverHost)
  /\ WF_podVars(DeliverVPool)
  /\ \A k \in Keys : SF_podVars(HostGone(k))

-----------------------------------------------------------------------------
(***************************************************************************)
(* Properties.  A host pod is three events at the least: it is created,    *)
(* marked for deletion and gone.  With MaxLag < 4 no host pod is created   *)
(* while the informer has yet to show all of an earlier one; with more,    *)
(* the cache can show a pod that is long gone in the place of a new one.   *)
(***************************************************************************)

\* Once a tenant pod has ended it stays as it ended: no later pass, reading a
\* lagging cache or a host pod that is being removed, changes the phase again,
\* unless the pod was given the status of another one of its name (StatusIsOwn,
\* below) or the informer is a whole host pod behind.
TerminalIsFinal ==
  [][\A p \in Pods :
       /\ tpods[p].on /\ tpods'[p].on /\ isTerminal(tpods[p].phase)
       /\ tpods'[p].inc = tpods[p].inc /\ tpods[p].inc \notin mixed[p]
       => tpods'[p].phase = tpods[p].phase]_podVars

\* A tenant pod is run once, as long as nobody edits it, evicts its host pod or
\* takes its VNode down, and it was not given another pod's status: ReconcilePool
\* creates no host pod for it after one has run to its end, whatever call fails
\* and wherever the operator restarts. It decides by the cache, so the informer
\* must not be a whole host pod behind.
NoRerun ==
  [][\A k \in Keys : ~hpods[k].on /\ hpods'[k].on /\ hpods'[k].inc \in done[k[1]]
       => hpods'[k].inc \in mixed[k[1]]]_podVars

\* The host accepts the spec, and it compares equal to itself after it was written
\* there and read back. A mount whose volume TranslatePod dropped is refused, and
\* a volume type unknown to the operator makes every pass replace the pod.
Survives(s) ==
  /\ HostAccepts(podSpecToK8sPod(Target(s)))
  /\ podSpecsEqual(podToSpec(Stored(Target(s))), Target(s))

\* ensureHostPod replaces a host pod only when the one on the host, and not just
\* the cached one, differs from what the tenant pod translates to, as long as
\* the spec survives the way to the host and back, and as long as the informer is
\* not a whole host pod behind: MaxLag < 4.
ReplacesOnlyOutdated ==
  [][sw.pc = "ensure" /\ sw'.pc = "next" /\ hpods' # hpods /\ Survives(Source.spec)
       => hpods[Key(sw.p)].spec # Stored(Target(Source.spec))]_podVars

\* The host pods of a live pool end up, for good, as the tenant wants them, and
\* the tenant's pods show their phases, where the spec survives the way to the
\* host and back: lost events, evictions and outages are all made up for.
Wanted(p) == Listed(p, ready)
HostPodOf(p) == hpods[<<p, tpods[p].node>>]
LivePool == vpool.exists /\ vpool.valid /\ ~vpool.deleting /\ ~vpool.failed
PodsInSync ==
  LivePool =>
    /\ \A p \in Pods : Wanted(p) =>
         IF isTerminal(tpods[p].phase) THEN ~HostPodOf(p).on
         ELSE Survives(tpods[p].spec) =>
              /\ HostPodOf(p).on /\ ~HostPodOf(p).deleting
              /\ HostPodOf(p).spec = Stored(Target(tpods[p].spec))
              /\ HostPodOf(p).phase = tpods[p].phase
    /\ \A k \in Keys : hpods[k].on => Wanted(k[1]) /\ tpods[k[1]].node = k[2]
    /\ (\E p \in Pods : Wanted(p)) => config = 0 \/ hostConfig = config
PodsConverge == <>[]PodsInSync

-----------------------------------------------------------------------------
(* What the repository's documents and comments say and the code does not do. *)

\* README.md:78: the finalizer ensures that "all managed host pods are deleted
\* [...] before the pool is finalized"; at the least, none may be left to itself
\* when the pool is gone and PodSync is at rest.
FinalizedPodsGone ==
  ~vpool.exists /\ vpoolCache = vpool /\ ~sq /\ sw.pc = "idle"
    => \A k \in Keys : ~hpods[k].on \/ hpods[k].deleting

\* execution_service.go:101: "Host pod is being deleted; skip this pod": a tenant
\* pod is reported as ended only when its host pod ended by itself, not when
\* PodSync had it deleted, or it would be terminal and never run again. But
\* GetPodStatus reads the cache once more, after the check.
KilledNotReported ==
  \A p \in Pods : tpods[p].on /\ isTerminal(tpods[p].phase) => ~killed[p]

\* README.md:76: host pod status is synced back "to the corresponding tenant
\* pod": a tenant pod that has ended did so by a host pod made for it.
StatusIsOwn ==
  \A p \in Pods : tpods[p].on /\ isTerminal(tpods[p].phase) => tpods[p].inc \notin mixed[p]
=============================================================================
