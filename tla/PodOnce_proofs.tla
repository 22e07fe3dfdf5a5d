---------------------------- MODULE PodOnce_proofs ----------------------------
(***************************************************************************)
(* A tenant pod is run once: ReconcilePool creates no host pod for a       *)
(* tenant pod after one has run to its end.                                *)
(***************************************************************************)
EXTENDS PodTerminal_proofs

\* Nobody edits pods, evicts host pods or takes VNodes down: a VNode is missing
\* only of a pool that is being deleted, which the worker may not have seen yet,
\* and the pass looks for orphans when every listed pod is done with.
CalmInv ==
  /\ left["edit"] = 0 /\ left["flap"] = 0 /\ left["evict"] = 0
  /\ vpoolCache.deleting => vpool.deleting
  /\ ready # Nodes => vpool.deleting
  /\ sw.pc = "list" => ready \subseteq sw.seen
  /\ sw.pc = "cleanup" => vpoolCache.deleting
  /\ sw.pc \in {"orphans", "cleanup"} => sw.todo = {}
  /\ sw.pc = "orphans" => \A p \in Pods : sw.src[p].on => Key(p) \notin sw.work

\* The VNodes whose pods this pass, or else the next one, will list.
Reach == IF sw.pc = "list" THEN sw.seen ELSE IF vpoolCache.deleting THEN {} ELSE ready

\* What is made for a tenant pod has its spec and is on its node. Only pods that
\* were created have run to their end.
MadeInv ==
  \A p \in Pods :
    /\ \A i \in done[p] : i <= born[p]
    /\ sw.src[p].on /\ tpods[p].on /\ sw.src[p].inc = tpods[p].inc
         => sw.src[p].spec = tpods[p].spec
    /\ \A n \in Nodes : \A h \in Versions(<<p, n>>) : h.on =>
         /\ tpods[p].on /\ h.inc = tpods[p].inc => h.spec = Stored(Target(tpods[p].spec))
         /\ sw.src[p].on /\ h.inc = sw.src[p].inc =>
              n = sw.src[p].node /\ h.spec = Stored(Target(sw.src[p].spec))

\* The pass has listed every tenant pod that a host pod was ever made for. When
\* it is about to delete the host pod of a pod listed as ended, the tenant pod
\* is that pod, still ended, or another one.
Hosted(p, i) ==
  i \in done[p] \/ \E n \in Nodes : \E h \in Versions(<<p, n>>) : h.on /\ h.inc = i
Listing == {"next", "ensure", "status", "remove", "orphans"}
NewsInv ==
  /\ sw.pc \in Listing =>
       \A p \in Pods : Listed(p, Reach) /\ Hosted(p, tpods[p].inc) =>
         sw.src[p].on /\ sw.src[p].inc = tpods[p].inc
  /\ /\ sw.pc = "remove" /\ tpods[sw.p].on /\ tpods[sw.p].inc = Source.inc
     /\ tpods[sw.p].inc \notin mixed[sw.p]
     => isTerminal(tpods[sw.p].phase)

\* The host pod of a tenant pod whose end has not been reported is still there:
\* of one that will be listed, and of one that this pass has yet to ensure.
Held(p, t) ==
  LET h == hpods[<<p, t.node>>] IN h.on /\ ~h.deleting /\ h.inc = t.inc
Unended(p, t) == ~isTerminal(t.phase) /\ t.inc \in done[p] \ mixed[p]
ToEnsure(p) == p \in sw.todo \/ (sw.p = p /\ sw.pc = "ensure")
OnceInv ==
  \A p \in Pods :
    /\ Listed(p, Reach) /\ Unended(p, tpods[p]) => Held(p, tpods[p])
    /\ ToEnsure(p) /\ Unended(p, sw.src[p]) => Held(p, sw.src[p])

-----------------------------------------------------------------------------
(* The pool and its nodes. *)

\* A budget that is spent stays so.
LEMMA SpentStays ==
  ASSUME TypeInv, [PodNext]_podVars, NEW kind \in Kinds, left[kind] = 0
  PROVE  left'[kind] = 0
<1>0. left \in [Kinds -> Nat]
  BY DEF TypeInv, OtherTypes
<1>1. ASSUME NEW other \in Kinds, Use(other) PROVE left'[kind] = 0
  BY <1>0, <1>1 DEF Use
<1>2. UNCHANGED left \/ \E other \in Kinds : Use(other)
  <2>1. CASE SyncStep \/ SyncFault \/ SyncCrash \/ UNCHANGED podVars
    BY <2>1 DEF podVars, SyncStep, SyncSkip, SyncCleanupStart, SyncCleanup, SyncStart, SyncList,
       SyncNext, SyncEnsure, SyncStatus, SyncRemove, SyncOrphansStart, SyncOrphans, syncFrame,
       SyncFault, SyncCrash, Kinds
  <2>2. CASE HostStep \/ UserStep
    BY <2>2 DEF HostStep, DeliverHost, HostProgress, HostKill, HostGone, Evict, UserStep,
       WriteConfig, CreatePod, EditPod, DeleteTenantPod, Kinds
  <2>3. CASE LifeStep
    BY <2>3 DEF LifeStep, PoolFails, ChangePool, Finalized, DeliverVPool, PoolStatusPatched,
       NodeDown, NodeUp, Deprovisioned, Kinds
  <2> QED
    BY <2>1, <2>2, <2>3 DEF PodNext
<1> QED
  BY <1>1, <1>2

\* A pool once deleted stays so, and so does what the informer shows of it. Only
\* a pool that is being deleted loses VNodes, and none comes back.
LEMMA PoolSteps ==
  ASSUME TypeInv, CalmInv, [PodNext]_podVars
  PROVE  /\ ready' \subseteq ready /\ (ready' # ready => vpool.deleting)
         /\ vpool.deleting => vpool'.deleting
         /\ vpoolCache' = vpoolCache \/ vpoolCache' = vpool
<1>0. vpool \in VPools
  BY DEF TypeInv, PoolTypes
<1>1. CASE ~LifeStep
  <2>1. UNCHANGED <<ready, vpool>> /\ (vpoolCache' = vpoolCache \/ vpoolCache' = vpool)
    BY <1>1 DEF PodNext, podVars, SyncStep, SyncSkip, SyncCleanupStart, SyncCleanup, SyncStart,
       SyncList, SyncNext, SyncEnsure, SyncStatus, SyncRemove, SyncOrphansStart, SyncOrphans,
       SyncFault, SyncCrash, syncFrame, HostStep, DeliverHost, HostProgress, HostKill, HostGone,
       Evict, hostFrame, UserStep, WriteConfig, CreatePod, EditPod, DeleteTenantPod, tenantFrame,
       poolSide
  <2> QED
    BY <2>1
<1>2. CASE PoolFails \/ ChangePool \/ Finalized
  <2>1. UNCHANGED <<ready, vpoolCache>>
    BY <1>2 DEF PoolFails, ChangePool, Finalized
  <2>2. vpool.deleting => vpool'.deleting
    BY <1>0, <1>2 DEF PoolFails, ChangePool, Finalized, VPools
  <2> QED
    BY <2>1, <2>2
<1>3. CASE DeliverVPool \/ PoolStatusPatched
  BY <1>3 DEF DeliverVPool, PoolStatusPatched, poolSide
<1>4. ASSUME NEW n \in Nodes, NodeDown(n) \/ NodeUp(n) \/ Deprovisioned(n)
      PROVE  /\ ready' \subseteq ready /\ (ready' # ready => vpool.deleting)
             /\ UNCHANGED <<vpool, vpoolCache>>
  <2>1. ~NodeDown(n)
    BY DEF NodeDown, Use, CalmInv
  <2>2. ~NodeUp(n)
    BY DEF NodeUp, CalmInv
  <2> QED
    BY <1>4, <2>1, <2>2 DEF Deprovisioned
<1> QED
  BY <1>1, <1>2, <1>3, <1>4 DEF LifeStep

\* The worker lists the VNodes at the start of a pass, and the pass keeps its list
\* of pods to the end.
LEMMA ListingSteps ==
  ASSUME TypeInv, [PodNext]_podVars
  PROVE  /\ sw'.pc = "list" => UNCHANGED sw \/ (SyncStart /\ sw'.seen = ready)
         /\ sw'.pc \in Listing => SyncList \/ (sw.pc \in Listing /\ sw'.src = sw.src)
         /\ sw'.pc = "remove" => UNCHANGED sw \/ (SyncStatus /\ sw' = [sw EXCEPT !.pc = "remove"])
<1>0. sw \in Syncers /\ IdleSync \in Syncers /\ IdleSync.pc = "idle"
  BY IdleTypes DEF TypeInv, WorkTypes
<1> USE DEF Listing, Syncers
<1>1. CASE UNCHANGED sw \/ sw' = IdleSync
  BY <1>0, <1>1
<1>2. CASE SyncSkip \/ SyncCleanupStart \/ SyncCleanup
  BY <1>0, <1>2 DEF SyncSkip, SyncCleanupStart, SyncCleanup, SyncDone
<1>3. CASE SyncStart
  BY <1>0, <1>3 DEF SyncStart
<1>4. CASE SyncList
  BY <1>0, <1>4 DEF SyncList
<1>5. CASE SyncNext
  <2>1. PICK p \in sw.todo : sw' = [sw EXCEPT !.pc = AfterResources(p), !.p = p, !.todo = @ \ {p}]
    BY <1>5 DEF SyncNext
  <2> QED
    BY <1>0, <1>5, <2>1 DEF SyncNext, AfterResources
<1>6. CASE SyncEnsure \/ SyncRemove \/ SyncOrphansStart \/ SyncOrphans
  BY <1>0, <1>6 DEF SyncEnsure, SyncRemove, SyncOrphansStart, SyncOrphans, SyncDone, NextPod
<1>7. CASE SyncStatus
  BY <1>0, <1>7 DEF SyncStatus, SyncDone, NextPod
<1> QED
  BY <1>1, <1>2, <1>3, <1>4, <1>5, <1>6, <1>7, WorkerSteps DEF SyncStep

\* Every step keeps CalmInv.
LEMMA NextCalm ==
  ASSUME TypeInv, CalmInv, [PodNext]_podVars
  PROVE  CalmInv'
<1>0. sw \in Syncers /\ IdleSync \in Syncers /\ IdleSync.pc = "idle" /\ IdleSync.todo = {}
  BY IdleTypes DEF TypeInv, WorkTypes
<1>1. left'["edit"] = 0 /\ left'["flap"] = 0 /\ left'["evict"] = 0
  BY SpentStays DEF CalmInv, Kinds
<1>2. (vpoolCache'.deleting => vpool'.deleting) /\ (ready' # Nodes => vpool'.deleting)
  BY PoolSteps DEF CalmInv
<1>3. sw'.pc = "list" => ready' \subseteq sw'.seen
  BY PoolSteps, ListingSteps DEF CalmInv
<1>4. vpoolCache.deleting => vpoolCache'.deleting
  BY PoolSteps DEF CalmInv
<1> DEFINE Clean(w) == /\ w.pc = "cleanup" => vpoolCache.deleting
                       /\ w.pc \in {"orphans", "cleanup"} => w.todo = {}
                       /\ w.pc = "orphans" =>
                            \A p \in Pods : w.src[p].on => <<p, w.src[p].node>> \notin w.work
<1>5. Clean(sw)
  BY DEF CalmInv, Key
<1>6. Clean(sw')
  <2> USE DEF Syncers
  <2>1. CASE UNCHANGED sw \/ sw' = IdleSync
    BY <1>0, <1>5, <2>1
  <2>2. CASE SyncSkip \/ SyncCleanupStart \/ SyncStart
    BY <1>0, <2>2 DEF SyncSkip, SyncCleanupStart, SyncStart
  <2>3. CASE SyncCleanup \/ SyncOrphans
    BY <1>0, <1>5, <2>1, <2>3 DEF SyncCleanup, SyncOrphans, SyncDone
  <2>4. CASE SyncList
    BY <1>0, <2>4 DEF SyncList
  <2>5. CASE SyncNext
    <3>1. PICK p \in sw.todo : sw' = [sw EXCEPT !.pc = AfterResources(p), !.p = p, !.todo = @ \ {p}]
      BY <2>5 DEF SyncNext
    <3> QED
      BY <1>0, <3>1 DEF AfterResources
  <2>6. CASE SyncEnsure \/ SyncStatus \/ SyncRemove
    BY <1>0, <2>1, <2>6 DEF SyncEnsure, SyncStatus, SyncRemove, SyncDone, NextPod
  <2>7. CASE SyncOrphansStart
    BY <1>0, <2>7 DEF SyncOrphansStart, Key
  <2> QED
    BY <2>1, <2>2, <2>3, <2>4, <2>5, <2>6, <2>7, WorkerSteps DEF SyncStep
<1> QED
  BY <1>1, <1>2, <1>3, <1>4, <1>6 DEF CalmInv, Key

\* What the worker will list only shrinks.
LEMMA ReachShrinks ==
  ASSUME TypeInv, CalmInv, [PodNext]_podVars
  PROVE  Reach' \subseteq Reach
<1>1. ready' \subseteq ready /\ (vpoolCache.deleting => vpoolCache'.deleting)
  BY PoolSteps DEF CalmInv
<1>2. CASE sw'.pc = "list"
  <2>1. CASE UNCHANGED sw
    BY <1>2, <2>1 DEF Reach
  <2>2. CASE SyncStart /\ sw'.seen = ready
    BY <1>2, <2>2 DEF SyncStart, Reach
  <2> QED
    BY <1>2, <2>1, <2>2, ListingSteps
<1>3. CASE sw'.pc # "list"
  BY <1>1, <1>3 DEF CalmInv, Reach
<1> QED
  BY <1>2, <1>3

-----------------------------------------------------------------------------
(* What a step may do to the pods. *)

\* Without edits a tenant pod keeps its spec; a mark for deletion stays.
LEMMA PodKept ==
  ASSUME TypeInv, CalmInv, [PodNext]_podVars, NEW p \in Pods, tpods[p].on, tpods'[p].on
  PROVE  tpods'[p].spec = tpods[p].spec /\ (tpods[p].deleting => tpods'[p].deleting)
<1>0. tpods \in [Pods -> TPods] /\ ~NoTPod.on
  <2>1. ~NoTPod.on
    BY Zenon DEF NoTPod
  <2> QED
    BY <2>1 DEF TypeInv, TenantTypes
<1>1. tpods[p] \in [on : {TRUE}, node : Nodes, spec : PodSpecs, phase : Phases,
                    deleting : BOOLEAN, inc : 1..MaxInc]
  <2>1. tpods[p] # NoTPod
    BY <1>0, Zenon
  <2> QED
    BY <1>0, <2>1 DEF TPods
<1>2. CASE UNCHANGED tpods
  BY <1>2
<1>3. ASSUME NEW q \in Pods, CreatePod(q) PROVE tpods'[p] = tpods[p]
  BY <1>0, <1>3 DEF CreatePod
<1>4. ASSUME NEW q \in Pods, EditPod(q) PROVE FALSE
  BY <1>4 DEF EditPod, Use, CalmInv
<1>5. ASSUME NEW q \in Pods, DeleteTenantPod(q)
      PROVE  tpods'[p].spec = tpods[p].spec /\ (tpods[p].deleting => tpods'[p].deleting)
  <2>1. CASE q # p
    BY <1>0, <1>5, <2>1 DEF DeleteTenantPod
  <2>2. CASE q = p
    <3>1. tpods'[p] \in {[tpods[p] EXCEPT !.deleting = TRUE], NoTPod}
      BY <1>0, <1>5, <2>2 DEF DeleteTenantPod
    <3>2. tpods'[p] = [tpods[p] EXCEPT !.deleting = TRUE]
      BY <1>0, <3>1, Zenon
    <3> QED
      BY <1>1, <3>2
  <2> QED
    BY <2>1, <2>2
<1>6. CASE SyncStatus
  <2>1. sw.p \in Pods
    BY <1>6, SourceTypes DEF SyncStatus
  <2>2. UNCHANGED tpods \/ \E ph : tpods' = [tpods EXCEPT ![sw.p].phase = ph]
    BY <1>6 DEF SyncStatus, updateTenantPodStatus
  <2>3. ASSUME NEW ph, tpods' = [tpods EXCEPT ![sw.p].phase = ph]
        PROVE  tpods'[p].spec = tpods[p].spec /\ tpods'[p].deleting = tpods[p].deleting
    BY <1>0, <1>1, <2>1, <2>3
  <2> QED
    BY <2>2, <2>3
<1>7. CASE ~UserStep /\ ~SyncStatus
  BY <1>7 DEF PodNext, podVars, SyncStep, SyncSkip, SyncCleanupStart, SyncCleanup, SyncStart,
     SyncList, SyncNext, SyncEnsure, SyncRemove, SyncOrphansStart, SyncOrphans, SyncFault,
     SyncCrash, HostStep, DeliverHost, HostProgress, HostKill, HostGone, Evict, hostFrame,
     LifeStep, PoolFails, ChangePool, Finalized, DeliverVPool, PoolStatusPatched, NodeDown,
     NodeUp, Deprovisioned, lifeFrame, tenantSide
<1>8. CASE WriteConfig
  BY <1>8 DEF WriteConfig
<1> QED
  BY <1>3, <1>4, <1>5, <1>6, <1>7, <1>8 DEF UserStep

\* What has run to its end did so before, or in this step on the host.
LEMMA DoneSteps ==
  ASSUME TypeInv, [PodNext]_podVars, NEW p \in Pods, NEW i \in done'[p]
  PROVE  \/ i \in done[p]
         \/ \E n \in Nodes :
              /\ hpods[<<p, n>>].on /\ hpods[<<p, n>>].inc = i
              /\ hpods'[<<p, n>>].on /\ ~hpods'[<<p, n>>].deleting /\ hpods'[<<p, n>>].inc = i
<1>1. CASE UNCHANGED done
  BY <1>1
<1>2. ASSUME NEW k \in Keys, HostProgress(k), i \notin done[p]
      PROVE  \E n \in Nodes :
               /\ hpods[<<p, n>>].on /\ hpods[<<p, n>>].inc = i
               /\ hpods'[<<p, n>>].on /\ ~hpods'[<<p, n>>].deleting /\ hpods'[<<p, n>>].inc = i
  <2>1. PICK ph \in Phases :
          /\ hpods' = [hpods EXCEPT ![k] = [hpods[k] EXCEPT !.phase = ph]]
          /\ done' = IF isTerminal(ph) THEN [done EXCEPT ![k[1]] = @ \cup {hpods[k].inc}] ELSE done
    BY <1>2 DEF HostProgress, HostPut, Phases
  <2>2. k[1] = p /\ hpods[k].inc = i
    BY <1>2, <2>1 DEF TypeInv, OtherTypes
  <2>3. k = <<p, k[2]>> /\ k[2] \in Nodes
    BY <2>2 DEF Keys
  <2>4. hpods[k].on /\ ~hpods[k].deleting /\ hpods[k] \in HPods
    BY <1>2 DEF HostProgress, TypeInv, StoreTypes
  <2>5. hpods'[k] = [hpods[k] EXCEPT !.phase = ph]
    BY <2>1 DEF TypeInv, StoreTypes
  <2>6. hpods[k] \in [on : {TRUE}, spec : HostSpecs, phase : Phases,
                      deleting : BOOLEAN, inc : 1..MaxInc, killed : BOOLEAN]
    <3>1. ~NoHPod.on
      BY Zenon DEF NoHPod
    <3>2. hpods[k] # NoHPod
      BY <2>4, <3>1, Zenon
    <3> QED
      BY <2>4, <3>2 DEF HPods
  <2>7. hpods'[k].on /\ ~hpods'[k].deleting /\ hpods'[k].inc = i
    BY <2>2, <2>4, <2>5, <2>6
  <2> QED
    BY <2>2, <2>3, <2>4, <2>7
<1>3. CASE ~\E k \in Keys : HostProgress(k)
  <2>1. UNCHANGED done
    BY <1>3 DEF PodNext, podVars, SyncStep, SyncSkip, SyncCleanupStart, SyncCleanup, SyncStart,
       SyncList, SyncNext, SyncEnsure, SyncStatus, SyncRemove, SyncOrphansStart, SyncOrphans,
       SyncFault, SyncCrash, syncFrame, HostStep, DeliverHost, HostKill, HostGone, Evict,
       UserStep, WriteConfig, CreatePod, EditPod, DeleteTenantPod, tenantFrame, hostSide,
       LifeStep, PoolFails, ChangePool, Finalized, DeliverVPool, PoolStatusPatched, NodeDown,
       NodeUp, Deprovisioned, lifeFrame
  <2> QED
    BY <1>1, <2>1
<1> QED
  BY <1>2, <1>3

\* A pod once given another pod's status has been so for good.
LEMMA MixedGrows ==
  ASSUME TypeInv, [PodNext]_podVars, NEW p \in Pods
  PROVE  mixed[p] \subseteq mixed'[p]
<1>1. CASE SyncStatus
  <2>1. sw.p \in Pods
    BY <1>1, SourceTypes DEF SyncStatus
  <2>2. \/ UNCHANGED mixed
        \/ \E a : mixed' = [mixed EXCEPT ![sw.p] = IF a THEN @ ELSE @ \cup {tpods[sw.p].inc}]
    BY <1>1 DEF SyncStatus, updateTenantPodStatus, reports
  <2> QED
    BY <2>1, <2>2 DEF TypeInv, TenantTypes
<1>2. CASE ~SyncStatus
  <2>1. UNCHANGED mixed
    BY <1>2 DEF PodNext, podVars, SyncStep, SyncSkip, SyncCleanupStart, SyncCleanup, SyncStart,
       SyncList, SyncNext, SyncEnsure, SyncRemove, SyncOrphansStart, SyncOrphans, SyncFault,
       SyncCrash, HostStep, DeliverHost, HostProgress, HostKill, HostGone, Evict, hostFrame,
       UserStep, WriteConfig, CreatePod, EditPod, DeleteTenantPod, tenantFrame, reports,
       LifeStep, PoolFails, ChangePool, Finalized, DeliverVPool, PoolStatusPatched, NodeDown,
       NodeUp, Deprovisioned, lifeFrame, tenantSide
  <2> QED
    BY <2>1
<1> QED
  BY <1>1, <1>2

\* A host pod that ensureHostPod creates has what the listed pod's spec becomes
\* on the host.
LEMMA EnsureMakes ==
  ASSUME TypeInv, SyncEnsure, NEW k, k = Key(sw.p), NEW h \in Versions(k)', h.on,
         h \notin Versions(k), ~(hpods[k].on /\ Follows(hpods[k], h))
  PROVE  h.spec = Stored(Target(Source.spec))
<1> DEFINE spec == Target(Source.spec)
           v == [on |-> TRUE, spec |-> Stored(spec), phase |-> "Pending",
                 deleting |-> FALSE, inc |-> Source.inc, killed |-> FALSE]
           g == [hpods[k] EXCEPT !.deleting = TRUE]
<1>1. k \in Keys /\ Stored(spec) \in HostSpecs /\ Source.inc \in 1..MaxInc
  BY SourceTypes DEF SyncEnsure
<1>2. UNCHANGED podStore \/ DeletePod(k) \/ HostPut(k, v)
  BY DEF SyncEnsure
<1>3. v \in HPods /\ v.spec = Stored(spec)
  BY <1>1 DEF HPods, Phases
<1>4. hpods[k].on => g \in HPods /\ Follows(hpods[k], g)
  BY <1>1, HPodTypes DEF TypeInv, StoreTypes
<1>5. DeletePod(k) => UNCHANGED podStore \/ (hpods[k].on /\ HostPut(k, g))
  BY DEF DeletePod
<1> HIDE DEF spec, v, g
<1>6. ~UNCHANGED podStore
  BY DEF podStore, Versions
<1>7. ASSUME hpods[k].on, HostPut(k, g) PROVE FALSE
  <2>1. h = g
    BY <1>1, <1>4, <1>7, PutVersions DEF TypeInv
  <2> QED
    BY <1>4, <1>7, <2>1
<1>8. ASSUME HostPut(k, v) PROVE h = v
  BY <1>1, <1>3, <1>8, PutVersions DEF TypeInv
<1> QED
  BY <1>2, <1>3, <1>5, <1>6, <1>7, <1>8 DEF spec

\* Where a version comes from, told with its spec.
LEMMA MadeVersions ==
  ASSUME TypeInv, [PodNext]_podVars, NEW p \in Pods, NEW n \in Nodes,
         NEW h \in Versions(<<p, n>>)', h.on
  PROVE  \/ \E g \in Versions(<<p, n>>) : g.on /\ g.inc = h.inc /\ g.spec = h.spec
         \/ /\ SyncEnsure /\ p = sw.p /\ n = Source.node /\ Source.on
            /\ h.inc = Source.inc /\ h.spec = Stored(Target(Source.spec))
<1>0. <<p, n>> \in Keys
  BY DEF Keys
<1>1. CASE h \in Versions(<<p, n>>)
  BY <1>1
<1>2. CASE hpods[<<p, n>>].on /\ Follows(hpods[<<p, n>>], h)
  BY <1>2 DEF Versions, Follows
<1>3. CASE /\ SyncEnsure /\ <<p, n>> = Key(sw.p) /\ h.inc = Source.inc
           /\ h \notin Versions(<<p, n>>)
           /\ ~(hpods[<<p, n>>].on /\ Follows(hpods[<<p, n>>], h))
  <2>1. Source.on /\ <<p, n>> = <<sw.p, Source.node>>
    BY <1>3, SourceTypes DEF SyncEnsure
  <2>2. h.spec = Stored(Target(Source.spec))
    BY <1>3, EnsureMakes
  <2> QED
    BY <1>3, <2>1, <2>2
<1> QED
  BY <1>0, <1>1, <1>2, <1>3, NewVersions

\* Every step keeps MadeInv.
LEMMA NextMade ==
  ASSUME TypeInv, OwnInv, CalmInv, MadeInv, [PodNext]_podVars
  PROVE  MadeInv'
<1> SUFFICES ASSUME NEW p \in Pods
             PROVE  /\ \A i \in done'[p] : i <= born'[p]
                    /\ sw'.src[p].on /\ tpods'[p].on /\ sw'.src[p].inc = tpods'[p].inc
                         => sw'.src[p].spec = tpods'[p].spec
                    /\ \A n \in Nodes : \A h \in Versions(<<p, n>>)' : h.on =>
                         /\ tpods'[p].on /\ h.inc = tpods'[p].inc
                              => h.spec = Stored(Target(tpods'[p].spec))
                         /\ sw'.src[p].on /\ h.inc = sw'.src[p].inc =>
                              n = sw'.src[p].node /\ h.spec = Stored(Target(sw'.src[p].spec))
  BY DEF MadeInv
<1>0. born[p] \in Nat /\ born'[p] \in Nat /\ born[p] <= born'[p]
  BY BornGrows
<1>1. \A i \in done'[p] : i <= born'[p]
  <2> SUFFICES ASSUME NEW i \in done'[p] PROVE i <= born'[p]
    OBVIOUS
  <2>1. i \in Nat
    BY NextTypes DEF TypeInv, OtherTypes
  <2>2. i <= born[p]
    <3>1. CASE i \in done[p]
      BY <3>1 DEF MadeInv
    <3>2. ASSUME NEW n \in Nodes, hpods[<<p, n>>].on, hpods[<<p, n>>].inc = i PROVE i <= born[p]
      BY <3>2 DEF OwnInv, Versions
    <3> QED
      BY <3>1, <3>2, DoneSteps
  <2> QED
    BY <1>0, <2>1, <2>2
<1>2. \A q \in Pods : /\ tpods[q].on => tpods[q].inc \in Nat /\ tpods[q].inc <= born[q]
                      /\ sw.src[q].on => sw.src[q].inc \in Nat /\ sw.src[q].inc <= born[q]
  BY TPodTypes DEF TypeInv, TenantTypes, WorkTypes, Syncers, OwnInv
<1>3. ASSUME tpods'[p].on, tpods'[p].inc # born[p] + 1
      PROVE  tpods[p].on /\ tpods'[p].inc = tpods[p].inc /\ tpods'[p].spec = tpods[p].spec
  BY <1>3, TenantSteps, PodKept DEF Same, Fresh, Reported
<1>4. ASSUME sw'.src[p].on, tpods'[p].on, sw'.src[p].inc = tpods'[p].inc
      PROVE  sw'.src[p].spec = tpods'[p].spec
  <2>1. CASE sw'.src[p] = sw.src[p]
    <3>1. tpods'[p].inc # born[p] + 1
      BY <1>0, <1>2, <1>4, <2>1
    <3> QED
      BY <1>3, <1>4, <2>1, <3>1 DEF MadeInv
  <2>2. CASE sw'.src[p] = tpods[p] /\ UNCHANGED tpods
    BY <2>2
  <2> QED
    BY <1>4, <2>1, <2>2, ListSteps
<1>5. ASSUME NEW n \in Nodes, NEW g \in Versions(<<p, n>>), g.on
      PROVE  /\ tpods'[p].on /\ g.inc = tpods'[p].inc => g.spec = Stored(Target(tpods'[p].spec))
             /\ sw'.src[p].on /\ g.inc = sw'.src[p].inc =>
                  n = sw'.src[p].node /\ g.spec = Stored(Target(sw'.src[p].spec))
  <2>1. g.inc \in Nat /\ g.inc <= born[p]
    <3>1. g \in HPods /\ g.inc <= born[p]
      BY <1>5, VersionTypes DEF Keys, TypeInv, OwnInv
    <3>2. g.inc \in 1..MaxInc
      BY <1>5, <3>1, HPodTypes, Zenon
    <3> QED
      BY <3>1, <3>2, PodAssumption
  <2>2. tpods'[p].on /\ g.inc = tpods'[p].inc => g.spec = Stored(Target(tpods'[p].spec))
    BY <1>0, <1>3, <1>5, <2>1 DEF MadeInv
  <2>3. ASSUME sw'.src[p].on, g.inc = sw'.src[p].inc
        PROVE  n = sw'.src[p].node /\ g.spec = Stored(Target(sw'.src[p].spec))
    BY <1>5, <2>3, ListSteps DEF MadeInv, OwnInv
  <2> QED
    BY <2>2, <2>3
<1>6. ASSUME NEW h, SyncEnsure, p = sw.p, Source.on, h.inc = Source.inc,
             h.spec = Stored(Target(Source.spec))
      PROVE  /\ tpods'[p].on /\ h.inc = tpods'[p].inc => h.spec = Stored(Target(tpods'[p].spec))
             /\ sw'.src[p].on /\ h.inc = sw'.src[p].inc =>
                  Source.node = sw'.src[p].node /\ h.spec = Stored(Target(sw'.src[p].spec))
  <2>1. UNCHANGED tpods
    BY <1>6 DEF SyncEnsure
  <2>2. Source = sw.src[p]
    BY <1>6 DEF Source
  <2>3. tpods'[p].on /\ h.inc = tpods'[p].inc => h.spec = Stored(Target(tpods'[p].spec))
    BY <1>6, <2>1, <2>2 DEF MadeInv
  <2>4. ASSUME sw'.src[p].on, h.inc = sw'.src[p].inc
        PROVE  Source.node = sw'.src[p].node /\ h.spec = Stored(Target(sw'.src[p].spec))
    BY <1>6, <2>2, <2>4, ListSteps DEF MadeInv, OwnInv
  <2> QED
    BY <2>3, <2>4
<1>7. ASSUME NEW n \in Nodes, NEW h \in Versions(<<p, n>>)', h.on
      PROVE  /\ tpods'[p].on /\ h.inc = tpods'[p].inc => h.spec = Stored(Target(tpods'[p].spec))
             /\ sw'.src[p].on /\ h.inc = sw'.src[p].inc =>
                  n = sw'.src[p].node /\ h.spec = Stored(Target(sw'.src[p].spec))
  <2>1. CASE \E g \in Versions(<<p, n>>) : g.on /\ g.inc = h.inc /\ g.spec = h.spec
    BY <1>5, <2>1
  <2>2. CASE /\ SyncEnsure /\ p = sw.p /\ n = Source.node /\ Source.on
             /\ h.inc = Source.inc /\ h.spec = Stored(Target(Source.spec))
    BY <1>6, <2>2
  <2> QED
    BY <1>7, <2>1, <2>2, MadeVersions
<1> QED
  BY <1>1, <1>4, <1>7

-----------------------------------------------------------------------------
(* The pass has listed what was ever on the host. *)

\* A UID has a host pod, or had one that ended, only after the worker made one.
LEMMA HostedSteps ==
  ASSUME TypeInv, [PodNext]_podVars, NEW p \in Pods, NEW i,
         i \in done'[p] \/ \E n \in Nodes : \E h \in Versions(<<p, n>>)' : h.on /\ h.inc = i
  PROVE  Hosted(p, i) \/ (SyncEnsure /\ p = sw.p /\ i = Source.inc /\ Source.on)
<1>1. CASE i \in done'[p]
  <2>1. ASSUME NEW n \in Nodes, hpods[<<p, n>>].on, hpods[<<p, n>>].inc = i PROVE Hosted(p, i)
    BY <2>1 DEF Hosted, Versions
  <2> QED
    BY <1>1, <2>1, DoneSteps DEF Hosted
<1>2. ASSUME NEW n \in Nodes, NEW h \in Versions(<<p, n>>)', h.on, h.inc = i
      PROVE  Hosted(p, i) \/ (SyncEnsure /\ p = sw.p /\ i = Source.inc /\ Source.on)
  BY <1>2, MadeVersions DEF Hosted
<1> QED
  BY <1>1, <1>2

\* No host pod was made for a UID that is not given yet.
LEMMA HostedIsBorn ==
  ASSUME TypeInv, OwnInv, MadeInv, NEW p \in Pods, NEW i, Hosted(p, i)
  PROVE  i # born[p] + 1
<1>1. born[p] \in Nat
  BY PodAssumption DEF TypeInv, TenantTypes
<1>2. CASE i \in done[p]
  <2>1. i \in Nat /\ i <= born[p]
    BY <1>2, PodAssumption DEF TypeInv, OtherTypes, MadeInv
  <2> QED
    BY <1>1, <2>1
<1>3. ASSUME NEW n \in Nodes, NEW h \in Versions(<<p, n>>), h.on, h.inc = i
      PROVE  i # born[p] + 1
  <2>1. h \in HPods /\ h.inc <= born[p]
    BY <1>3, VersionTypes DEF Keys, TypeInv, OwnInv
  <2>2. h.inc \in 1..MaxInc
    BY <1>3, <2>1, HPodTypes, Zenon
  <2> QED
    BY <1>1, <1>3, <2>1, <2>2
<1> QED
  BY <1>2, <1>3 DEF Hosted

\* A tenant pod that will be listed and has had a host pod was so before the
\* step, or the worker is just making its host pod.
LEMMA StillListed ==
  ASSUME TypeInv, OwnInv, CalmInv, MadeInv, [PodNext]_podVars, NEW p \in Pods,
         Listed(p, Reach)', Hosted(p, tpods[p].inc)'
  PROVE  /\ Listed(p, Reach) /\ ~Fresh(p)
         /\ tpods'[p].inc = tpods[p].inc /\ tpods'[p].node = tpods[p].node
         /\ \/ Hosted(p, tpods[p].inc)
            \/ SyncEnsure /\ p = sw.p /\ tpods[p].inc = Source.inc /\ Source.on
<1> DEFINE i == tpods'[p].inc
<1>1. Hosted(p, i) \/ (SyncEnsure /\ p = sw.p /\ i = Source.inc /\ Source.on)
  BY HostedSteps DEF Hosted
<1>2. ~Fresh(p)
  <2>1. CASE Hosted(p, i)
    BY <2>1, HostedIsBorn DEF Fresh
  <2>2. CASE SyncEnsure /\ p = sw.p /\ i = Source.inc /\ Source.on
    <3>1. Source.inc \in 1..MaxInc /\ Source.inc <= born[p] /\ born[p] \in Nat
      BY <2>2, SourceTypes, PodAssumption DEF SyncEnsure, OwnInv, Source, TypeInv, TenantTypes
    <3> QED
      BY <2>2, <3>1 DEF Fresh
  <2> QED
    BY <1>1, <2>1, <2>2
<1>3. /\ tpods'[p].on /\ tpods[p].on
      /\ tpods'[p].inc = tpods[p].inc /\ tpods'[p].node = tpods[p].node
  BY <1>2, TenantSteps DEF Listed, Same, Reported
<1>4. Listed(p, Reach)
  BY <1>3, PodKept, ReachShrinks DEF Listed
<1> QED
  BY <1>1, <1>2, <1>3, <1>4

\* Every step keeps NewsInv.
LEMMA NextNews ==
  ASSUME TypeInv, OwnInv, PassInv, FinalInv, CalmInv, MadeInv, NewsInv, [PodNext]_podVars
  PROVE  NewsInv'
<1>0. sw \in Syncers
  BY DEF TypeInv, WorkTypes
<1>1. ASSUME sw'.pc \in Listing, NEW p \in Pods, Listed(p, Reach)', Hosted(p, tpods[p].inc)'
      PROVE  sw'.src[p].on /\ sw'.src[p].inc = tpods'[p].inc
  <2>1. /\ Listed(p, Reach) /\ tpods'[p].inc = tpods[p].inc
        /\ Hosted(p, tpods[p].inc) \/ (SyncEnsure /\ p = sw.p /\ tpods[p].inc = Source.inc /\ Source.on)
    BY <1>1, StillListed
  <2>2. CASE SyncList
    <3>1. sw.pc = "list" /\ sw'.src[p] = IF Listed(p, sw.seen) THEN tpods[p] ELSE NoTPod
      BY <1>0, <2>2 DEF SyncList, Syncers
    <3>2. Listed(p, sw.seen)
      BY <2>1, <3>1 DEF Reach
    <3> QED
      BY <2>1, <3>1, <3>2 DEF Listed
  <2>3. CASE sw.pc \in Listing /\ sw'.src = sw.src
    BY <2>1, <2>3 DEF NewsInv, Source
  <2> QED
    BY <1>1, <2>2, <2>3, ListingSteps
<1>2. ASSUME sw'.pc = "remove", NEW p \in Pods, p = sw'.p, tpods'[p].on,
             tpods'[p].inc = sw'.src[p].inc, tpods'[p].inc \notin mixed'[p]
      PROVE  isTerminal(tpods'[p].phase)
  <2>1. p = sw.p /\ sw'.src = sw.src /\ sw.pc \in {"status", "remove"}
    BY <1>0, <1>2, ListingSteps DEF SyncStatus, Syncers
  <2>2. Source = sw.src[p] /\ Source.on /\ Source.inc <= born[p] /\ Source.inc \in Nat
    BY <2>1, SourceTypes, PodAssumption DEF OwnInv, Source
  <2>3. ~Fresh(p)
    BY <1>2, <2>1, <2>2, BornGrows DEF Fresh
  <2>4. /\ tpods[p].on /\ tpods[p].inc = Source.inc /\ tpods[p].inc \notin mixed[p]
        /\ tpods'[p].inc = tpods[p].inc
    BY <1>2, <2>1, <2>2, <2>3, TenantSteps, MixedGrows DEF Same, Reported
  <2>5. isTerminal(tpods[p].phase)
    <3>1. CASE UNCHANGED sw
      BY <1>2, <2>1, <2>4, <3>1 DEF NewsInv
    <3>2. CASE SyncStatus /\ sw' = [sw EXCEPT !.pc = "remove"]
      <4>1. isTerminal(Source.phase)
        <5>1. sw'.pc = "remove" /\ NextPod(sw).pc = "next" /\ IdleSync.pc = "idle"
          BY <1>0, <1>2, IdleTypes DEF NextPod, Syncers
        <5> QED
          BY <3>2, <5>1 DEF SyncStatus, SyncDone
      <4>2. Unreported(p) /\ sw.src[p].inc = tpods[p].inc
        BY <2>1, <2>2, <2>4, <3>2 DEF Unreported, SyncStatus
      <4> QED
        BY <2>2, <2>4, <4>1, <4>2 DEF PassInv
    <3> QED
      BY <1>2, <3>1, <3>2, ListingSteps
  <2> QED
    BY <1>2, <2>4, <2>5, StaysEnded
<1>3. sw'.pc = "remove" => sw'.p \in Pods
  BY NextTypes DEF TypeInv, WorkTypes, WorkInv
<1> QED
  BY <1>1, <1>2, <1>3 DEF NewsInv, Source

-----------------------------------------------------------------------------
(* Who deletes a host pod. *)

\* DeletePod leaves the other host pods alone.
LEMMA DeletesOne ==
  ASSUME TypeInv, NEW k \in Keys, NEW l \in Keys, l # k, DeletePod(l)
  PROVE  hpods'[k] = hpods[k]
BY DEF DeletePod, HostPut, podStore, TypeInv, StoreTypes

\* Without evictions only the worker deletes a host pod.
LEMMA HeldSteps ==
  ASSUME TypeInv, CalmInv, [PodNext]_podVars, NEW k \in Keys, hpods[k].on, ~hpods[k].deleting
  PROVE  \/ hpods'[k].on /\ ~hpods'[k].deleting /\ hpods'[k].inc = hpods[k].inc
         \/ (SyncCleanup \/ SyncOrphans) /\ k \in sw.work
         \/ SyncRemove /\ k = Key(sw.p)
         \/ SyncEnsure /\ k = Key(sw.p) /\ EnsureOutcome(k, Target(Source.spec)) = "replace"
<1>0. hpods \in [Keys -> HPods] /\ sw.work \subseteq Keys
  BY DEF TypeInv, StoreTypes, WorkTypes, Syncers
<1>1. CASE hpods'[k] = hpods[k]
  BY <1>1
<1>2. ASSUME NEW l \in Keys, HostProgress(l) \/ HostKill(l) \/ HostGone(l) \/ Evict(l)
      PROVE  hpods'[k].on /\ ~hpods'[k].deleting /\ hpods'[k].inc = hpods[k].inc
  <2>1. CASE l # k
    <3>1. \E v : HostPut(l, v)
      BY <1>2, HostWrites
    <3> QED
      BY <1>0, <2>1, <3>1 DEF HostPut
  <2>2. CASE l = k
    <3>1. ~HostKill(l) /\ ~HostGone(l)
      BY <2>2 DEF HostKill, HostGone
    <3>2. ~Evict(l)
      BY DEF Evict, Use, CalmInv
    <3>3. \E ph : hpods' = [hpods EXCEPT ![k] = [hpods[k] EXCEPT !.phase = ph]]
      BY <1>2, <2>2, <3>1, <3>2 DEF HostProgress, HostPut
    <3>4. hpods[k] \in [on : {TRUE}, spec : HostSpecs, phase : Phases,
                        deleting : BOOLEAN, inc : 1..MaxInc, killed : BOOLEAN]
      <4>1. ~NoHPod.on
        BY Zenon DEF NoHPod
      <4>2. hpods[k] # NoHPod
        BY <4>1, Zenon
      <4> QED
        BY <1>0, <4>2 DEF HPods
    <3> QED
      BY <1>0, <3>3, <3>4
  <2> QED
    BY <2>1, <2>2
<1>3. CASE SyncCleanup \/ SyncOrphans
  <2>1. UNCHANGED podStore \/ \E l \in sw.work : DeletePod(l)
    BY <1>3 DEF SyncCleanup, SyncOrphans
  <2> QED
    BY <1>0, <1>1, <1>3, <2>1, DeletesOne DEF podStore
<1>4. CASE SyncRemove
  <2>1. DeletePod(Key(sw.p)) /\ Key(sw.p) \in Keys
    BY <1>4, SourceTypes DEF SyncRemove
  <2> QED
    BY <1>1, <1>4, <2>1, DeletesOne
<1>5. CASE SyncEnsure
  <2> DEFINE l == Key(sw.p)
             outcome == EnsureOutcome(l, Target(Source.spec))
  <2>1. l \in Keys
    BY <1>5, SourceTypes DEF SyncEnsure
  <2>2. \/ UNCHANGED podStore
        \/ ~hpods[l].on /\ \E v : HostPut(l, v)
        \/ outcome = "replace" /\ DeletePod(l)
    BY <1>5 DEF SyncEnsure
  <2>3. k = l /\ outcome = "replace" => EnsureOutcome(k, Target(Source.spec)) = "replace"
    OBVIOUS
  <2> HIDE DEF outcome
  <2>4. CASE ~hpods[l].on /\ \E v : HostPut(l, v)
    <3>1. l # k
      BY <2>4
    <3>2. hpods'[k] = hpods[k]
      BY <1>0, <2>1, <2>4, <3>1 DEF HostPut
    <3> QED
      BY <3>2
  <2>5. CASE outcome = "replace" /\ DeletePod(l)
    BY <1>1, <1>5, <2>1, <2>3, <2>5, DeletesOne
  <2> QED
    BY <1>1, <2>2, <2>4, <2>5 DEF podStore
<1>6. CASE /\ ~HostStep /\ ~SyncCleanup /\ ~SyncOrphans /\ ~SyncRemove /\ ~SyncEnsure
  <2>1. UNCHANGED hpods
    BY <1>6 DEF PodNext, podVars, SyncStep, SyncSkip, SyncCleanupStart, SyncStart, SyncList,
       SyncNext, SyncStatus, SyncOrphansStart, SyncFault, SyncCrash, UserStep, WriteConfig,
       CreatePod, EditPod, DeleteTenantPod, tenantFrame, hostSide, podStore, LifeStep,
       PoolFails, ChangePool, Finalized, DeliverVPool, PoolStatusPatched, NodeDown, NodeUp,
       Deprovisioned, lifeFrame
  <2> QED
    BY <1>1, <2>1
<1>7. CASE DeliverHost
  BY <1>1, <1>7 DEF DeliverHost
<1> QED
  BY <1>2, <1>3, <1>4, <1>5, <1>6, <1>7 DEF HostStep

\* A pod that this pass has yet to ensure was so before the step, and it is not
\* the one at hand that was just ensured; or it has been listed.
LEMMA ToEnsureSteps ==
  ASSUME TypeInv, PassInv, [PodNext]_podVars, NEW p \in Pods, ToEnsure(p)'
  PROVE  \/ ToEnsure(p) /\ sw'.src = sw.src /\ ~(SyncEnsure /\ p = sw.p)
         \/ SyncList /\ Listed(p, sw.seen) /\ sw'.src[p] = tpods[p]
<1>0. /\ sw \in Syncers /\ IdleSync \in Syncers
      /\ IdleSync.todo = {} /\ IdleSync.pc = "idle"
  BY IdleTypes DEF TypeInv, WorkTypes
<1> USE DEF ToEnsure, Syncers
<1>1. CASE SyncEnsure
  <2>1. /\ sw.pc = "ensure" /\ sw.p \notin sw.todo
        /\ sw' = [sw EXCEPT !.pc = "status"] \/ sw' = NextPod(sw) \/ sw' = IdleSync
    BY <1>1 DEF SyncEnsure, SyncDone, PassInv
  <2> QED
    BY <1>0, <2>1 DEF NextPod
<1>2. CASE ~SyncEnsure /\ (UNCHANGED sw \/ sw' = IdleSync)
  BY <1>0, <1>2
<1>3. CASE SyncSkip \/ SyncCleanupStart \/ SyncStart
  BY <1>0, <1>3 DEF SyncSkip, SyncCleanupStart, SyncStart
<1>4. CASE ~SyncEnsure /\ (SyncCleanup \/ SyncOrphans \/ SyncOrphansStart \/ SyncRemove)
  BY <1>0, <1>2, <1>4 DEF SyncCleanup, SyncOrphans, SyncOrphansStart, SyncRemove, SyncDone, NextPod
<1>5. CASE SyncList
  BY <1>0, <1>5 DEF SyncList
<1>6. CASE ~SyncEnsure /\ SyncNext
  <2>1. PICK q \in sw.todo : sw' = [sw EXCEPT !.pc = AfterResources(q), !.p = q, !.todo = @ \ {q}]
    BY <1>6 DEF SyncNext
  <2> QED
    BY <1>0, <1>6, <2>1
<1>7. CASE ~SyncEnsure /\ SyncStatus
  BY <1>0, <1>2, <1>7 DEF SyncStatus, SyncDone, NextPod
<1> QED
  BY <1>1, <1>2, <1>3, <1>4, <1>5, <1>6, <1>7, WorkerSteps DEF SyncStep

-----------------------------------------------------------------------------
(* A tenant pod is run once. *)

\* The worker does not delete the host pod of a tenant pod that it will list and
\* that has run to its end without that being reported.
LEMMA KeepsUnended ==
  ASSUME TypeInv, LagInv, OwnInv, CalmInv, MadeInv, NewsInv, [PodNext]_podVars,
         \A s \in PodSpecs : Survives(s),
         NEW p \in Pods, Listed(p, Reach), Unended(p, tpods[p]), Held(p, tpods[p])
  PROVE  Held(p, tpods[p])' \/ tpods'[p].node # tpods[p].node \/ tpods'[p].inc # tpods[p].inc
<1> DEFINE n == tpods[p].node
           k == <<p, n>>
           h == hpods[k]
<1>1. tpods[p] \in TPods /\ tpods[p].on /\ n \in Nodes /\ k \in Keys
  BY TPodTypes DEF TypeInv, TenantTypes, Listed, Keys
<1>2. h.on /\ ~h.deleting /\ h.inc = tpods[p].inc /\ h \in Versions(k)
  BY DEF Held, Versions
<1>3. Hosted(p, tpods[p].inc)
  BY DEF Hosted, Unended
<1>4. ASSUME sw.pc \in Listing
      PROVE  sw.src[p].on /\ sw.src[p].inc = tpods[p].inc /\ Key(p) = k
  <2>1. sw.src[p].on /\ sw.src[p].inc = tpods[p].inc
    BY <1>3, <1>4 DEF NewsInv
  <2> QED
    BY <1>1, <2>1 DEF OwnInv, Key
<1> HIDE DEF n, h
<1>5. ~(SyncCleanup /\ k \in sw.work)
  BY DEF SyncCleanup, CalmInv, Reach, Listed
<1>6. ~(SyncOrphans /\ k \in sw.work)
  BY <1>4 DEF SyncOrphans, CalmInv, Listing
<1>7. ASSUME sw.pc \in {"remove", "ensure"}, k = Key(sw.p)
      PROVE  p = sw.p /\ Source = sw.src[p] /\ Source.on /\ Source.inc = tpods[p].inc
  <2>1. <<p, n>> = <<sw.p, Source.node>>
    BY <1>7, SourceTypes
  <2>2. p = sw.p
    BY <2>1
  <2> QED
    BY <1>4, <1>7, <2>2 DEF Listing, Source
<1>8. ~(SyncRemove /\ k = Key(sw.p))
  BY <1>1, <1>7 DEF SyncRemove, NewsInv, Unended
<1>9. ASSUME SyncEnsure, k = Key(sw.p), EnsureOutcome(k, Target(Source.spec)) = "replace"
      PROVE  FALSE
  <2>1. sw.pc = "ensure"
    BY <1>9 DEF SyncEnsure
  <2>2. p = sw.p /\ Source = sw.src[p] /\ Source.on /\ Source.inc = tpods[p].inc
    BY <1>7, <1>9, <2>1
  <2>3. hcache[k].on /\ ~podSpecsEqual(podToSpec(hcache[k].spec), Target(Source.spec))
    BY <1>9 DEF EnsureOutcome
  <2>4. hcache[k].spec = h.spec
    BY <1>1, <1>2, <2>3 DEF LagInv, CacheAgrees, h
  <2>5. h.spec = Stored(Target(Source.spec))
    BY <1>1, <1>2, <2>2 DEF MadeInv
  <2>6. Source.spec \in PodSpecs
    BY <2>1, SourceTypes, TPodTypes
  <2> QED
    BY <2>3, <2>4, <2>5, <2>6 DEF Survives
<1>10. hpods'[k].on /\ ~hpods'[k].deleting /\ hpods'[k].inc = h.inc
  BY <1>1, <1>2, <1>5, <1>6, <1>8, <1>9, HeldSteps DEF h
<1> QED
  BY <1>2, <1>10 DEF Held, n

\* Every step keeps OnceInv.
LEMMA NextOnce ==
  ASSUME FinalPods, CalmInv, MadeInv, NewsInv, OnceInv, [PodNext]_podVars,
         \A s \in PodSpecs : Survives(s)
  PROVE  OnceInv'
<1> USE DEF FinalPods
<1> SUFFICES ASSUME NEW p \in Pods
             PROVE  /\ Listed(p, Reach)' /\ Unended(p, tpods[p])' => Held(p, tpods[p])'
                    /\ ToEnsure(p)' /\ Unended(p, sw.src[p])' => Held(p, sw.src[p])'
  BY DEF OnceInv
<1>1. ASSUME Listed(p, Reach)', Unended(p, tpods[p])'
      PROVE  Held(p, tpods[p])'
  <2>1. Hosted(p, tpods[p].inc)'
    BY <1>1 DEF Unended, Hosted
  <2>2. /\ Listed(p, Reach) /\ ~Fresh(p)
        /\ tpods'[p].inc = tpods[p].inc /\ tpods'[p].node = tpods[p].node
    BY <1>1, <2>1, StillListed
  <2>3. tpods'[p].on /\ tpods[p].on /\ tpods[p].inc \notin mixed[p]
    BY <1>1, <2>2, MixedGrows DEF Listed, Unended
  <2>4. ~isTerminal(tpods[p].phase)
    BY <1>1, <2>2, <2>3, StaysEnded DEF Unended
  <2>5. CASE tpods[p].inc \in done[p]
    <3>1. Unended(p, tpods[p])
      BY <2>3, <2>4, <2>5 DEF Unended
    <3>2. Held(p, tpods[p])
      BY <2>2, <3>1 DEF OnceInv
    <3> QED
      BY <2>2, <3>1, <3>2, KeepsUnended
  <2>6. ASSUME NEW n \in Nodes, hpods[<<p, n>>].on, hpods[<<p, n>>].inc = tpods'[p].inc,
               hpods'[<<p, n>>].on, ~hpods'[<<p, n>>].deleting,
               hpods'[<<p, n>>].inc = tpods'[p].inc
        PROVE  Held(p, tpods[p])'
    <3>1. n = tpods[p].node
      BY <2>2, <2>3, <2>6 DEF OwnInv, Versions
    <3> QED
      BY <2>2, <2>6, <3>1 DEF Held
  <2>7. tpods'[p].inc \in done'[p]
    BY <1>1 DEF Unended
  <2> QED
    BY <2>2, <2>5, <2>6, <2>7, DoneSteps
<1>2. ASSUME ToEnsure(p)', Unended(p, sw.src[p])'
      PROVE  Held(p, sw.src[p])'
  <2>1. CASE SyncList /\ Listed(p, sw.seen) /\ sw'.src[p] = tpods[p]
    <3>1. sw.pc = "list" /\ UNCHANGED <<hpods, done, mixed, tpods>>
      BY <2>1 DEF SyncList, syncFrame, podStore, reports
    <3>2. Unended(p, tpods[p])
      BY <1>2, <2>1, <3>1 DEF Unended
    <3>3. Listed(p, Reach)
      BY <2>1, <3>1 DEF Reach
    <3>4. Held(p, tpods[p])
      BY <3>2, <3>3 DEF OnceInv
    <3> QED
      BY <2>1, <3>1, <3>4 DEF Held
  <2>2. CASE ToEnsure(p) /\ sw'.src = sw.src /\ ~(SyncEnsure /\ p = sw.p)
    <3> DEFINE t == sw.src[p]
               k == <<p, t.node>>
    <3>1. t.on /\ t.node \in Nodes /\ k \in Keys
      BY <2>2, TPodTypes DEF ToEnsure, TypeInv, WorkTypes, WorkInv, Syncers, Keys
    <3>2. ~isTerminal(t.phase) /\ t.inc \notin mixed[p] /\ t.inc \in done'[p]
      BY <1>2, <2>2, MixedGrows DEF Unended
    <3>3. CASE t.inc \in done[p]
      <4>1. Held(p, t)
        BY <2>2, <3>2, <3>3 DEF OnceInv, Unended
      <4>2. ~(SyncCleanup \/ SyncOrphans)
        BY <2>2 DEF SyncCleanup, SyncOrphans, CalmInv, ToEnsure
      <4>3. ASSUME SyncRemove \/ SyncEnsure, k = Key(sw.p) PROVE FALSE
        <5>1. <<p, t.node>> = <<sw.p, Source.node>>
          BY <4>3, SourceTypes DEF SyncRemove, SyncEnsure
        <5>2. p = sw.p
          BY <5>1
        <5> QED
          BY <2>2, <4>3, <5>2 DEF SyncRemove, PassInv, ToEnsure
      <4>4. hpods[k].on /\ ~hpods[k].deleting /\ hpods[k].inc = t.inc
        BY <4>1 DEF Held
      <4> HIDE DEF t
      <4>5. hpods'[k].on /\ ~hpods'[k].deleting /\ hpods'[k].inc = t.inc
        BY <3>1, <4>2, <4>3, <4>4, HeldSteps
      <4> QED
        BY <2>2, <4>5 DEF Held, t
    <3>4. ASSUME NEW n \in Nodes, hpods[<<p, n>>].on, hpods[<<p, n>>].inc = t.inc,
                 hpods'[<<p, n>>].on, ~hpods'[<<p, n>>].deleting, hpods'[<<p, n>>].inc = t.inc
          PROVE  Held(p, sw.src[p])'
      <4>1. n = t.node
        BY <3>1, <3>4 DEF MadeInv, Versions
      <4> QED
        BY <2>2, <3>4, <4>1 DEF Held
    <3> QED
      BY <3>2, <3>3, <3>4, DoneSteps
  <2> QED
    BY <1>2, <2>1, <2>2, ToEnsureSteps
<1> QED
  BY <1>1, <1>2

\* A step that makes a host pod makes none for a pod that has run to its end.
LEMMA CreatesOnce ==
  ASSUME TypeInv, PassInv, OnceInv, [PodNext]_podVars, NEW k \in Keys,
         ~hpods[k].on, hpods'[k].on, hpods'[k].inc \in done[k[1]]
  PROVE  hpods'[k].inc \in mixed[k[1]]
<1>0. hpods \in [Keys -> HPods]
  BY DEF TypeInv, StoreTypes
<1>1. ASSUME NEW l \in Keys, NEW v, Continues(l, v) PROVE FALSE
  BY <1>0, <1>1 DEF Continues, HostPut
<1>2. ASSUME NEW l \in Keys, NEW v, Creates(l, v), SyncEnsure, l = Key(sw.p), v.inc = Source.inc
      PROVE  hpods'[k].inc \in mixed[k[1]]
  <2>1. l = k /\ hpods'[k] = v
    BY <1>0, <1>2 DEF Creates, HostPut
  <2>2. sw.pc = "ensure"
    BY <1>2 DEF SyncEnsure
  <2>3. sw.p \in Pods /\ k = <<sw.p, Source.node>> /\ Source = sw.src[sw.p]
    BY <1>2, <2>1, <2>2, SourceTypes DEF Source
  <2>4. k[1] = sw.p
    BY <2>3
  <2>5. ToEnsure(sw.p) /\ ~isTerminal(Source.phase)
    BY <2>2 DEF ToEnsure, PassInv
  <2>6. ~Held(sw.p, Source)
    BY <2>3 DEF Held
  <2>7. ~Unended(sw.p, Source)
    BY <2>3, <2>5, <2>6 DEF OnceInv
  <2> QED
    BY <1>2, <2>1, <2>4, <2>5, <2>7 DEF Unended
<1> QED
  BY <1>1, <1>2, StoreSteps DEF podStore, DeliverHost, SyncCrash

\* A tenant pod is run once, for every number of pods, nodes and names reused,
\* whatever call fails and wherever the operator restarts or the pool is deleted:
\* when nobody edits pods, evicts host pods or takes VNodes down, when the specs
\* survive the way to the host and back, and as long as less than four host pod
\* events are in flight.
THEOREM RunsOnce ==
  ASSUME MaxLag < 4,
         \A l \in Limits : l["edit"] = 0 /\ l["flap"] = 0 /\ l["evict"] = 0,
         \A s \in PodSpecs : Survives(s)
  PROVE  PodSpec => NoRerun
<1> DEFINE Inv == FinalPods /\ CalmInv /\ MadeInv /\ NewsInv /\ OnceInv
           Step == \A k \in Keys : ~hpods[k].on /\ hpods'[k].on /\ hpods'[k].inc \in done[k[1]]
                     => hpods'[k].inc \in mixed[k[1]]
<1>1. PodInit => Inv
  <2> SUFFICES ASSUME PodInit PROVE Inv
    OBVIOUS
  <2>0. FinalPods
    BY InitFinalPods
  <2>1. /\ sw = IdleSync /\ sw.pc = "idle" /\ sw.todo = {}
        /\ \A p \in Pods : ~sw.src[p].on
    BY IdleTypes, IdleList DEF PodInit
  <2>2. CalmInv
    BY <2>1 DEF PodInit, CalmInv
  <2>3. \A p \in Pods : done[p] = {} /\ ~tpods[p].on
    <3>1. ~NoTPod.on
      BY Zenon DEF NoTPod
    <3> QED
      BY <3>1 DEF PodInit
  <2>4. \A p \in Pods, n \in Nodes : \A h \in Versions(<<p, n>>) : ~h.on
    <3>1. ~NoHPod.on
      BY Zenon DEF NoHPod
    <3> QED
      BY <3>1, EmptySeq DEF PodInit, Versions, Keys
  <2>5. MadeInv
    BY <2>3, <2>4 DEF MadeInv
  <2>6. NewsInv /\ OnceInv
    BY <2>1, <2>3 DEF NewsInv, Listing, OnceInv, Unended
  <2> QED
    BY <2>0, <2>2, <2>5, <2>6
<1>2. Inv /\ [PodNext]_podVars => Inv'
  BY NextFinalPods, NextCalm, NextMade, NextNews, NextOnce DEF FinalPods
<1>3. Inv /\ [PodNext]_podVars => [Step]_podVars
  BY CreatesOnce DEF FinalPods
<1> QED
  BY <1>1, <1>2, <1>3, PTL DEF PodSpec, NoRerun
==============================================================================
