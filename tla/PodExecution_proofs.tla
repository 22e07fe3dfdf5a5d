------------------------- MODULE PodExecution_proofs -------------------------
(***************************************************************************)
(* PodExecution for every number of pods, nodes and disturbances: the      *)
(* types, and what the cached host pods tell of those on the host.         *)
(***************************************************************************)
EXTENDS PodExecution, SequenceTheorems, TLAPS

-----------------------------------------------------------------------------
(* What may become of a pod. *)

\* The status of a tenant pod is written, it is marked, or its spec is edited.
LEMMA TPodTypes ==
  ASSUME NEW t \in TPods, t.on
  PROVE  /\ \A ph \in Phases : [t EXCEPT !.phase = ph] \in TPods
         /\ \A s \in PodSpecs : [t EXCEPT !.spec = s] \in TPods
         /\ \A d \in BOOLEAN : [t EXCEPT !.deleting = d] \in TPods
         /\ t.node \in Nodes /\ t.spec \in PodSpecs /\ t.inc \in 1..MaxInc /\ t.phase \in Phases
<1>1. t \in [on : {TRUE}, node : Nodes, spec : PodSpecs, phase : Phases,
             deleting : BOOLEAN, inc : 1..MaxInc]
  <2>1. ~NoTPod.on
    BY Zenon DEF NoTPod
  <2>2. t # NoTPod
    BY <2>1, Zenon
  <2> QED
    BY <2>2 DEF TPods
<1>2. \A ph \in Phases : [t EXCEPT !.phase = ph] \in TPods
  BY <1>1 DEF TPods
<1>3. \A s \in PodSpecs : [t EXCEPT !.spec = s] \in TPods
  BY <1>1 DEF TPods
<1>4. \A d \in BOOLEAN : [t EXCEPT !.deleting = d] \in TPods
  BY <1>1 DEF TPods
<1> QED
  BY <1>1, <1>2, <1>3, <1>4

\* The life of a host pod: its spec stays, and so does its phase once it has
\* ended; it is marked before it is gone.
Follows(u, v) ==
  \/ /\ u.on /\ v.on /\ v.spec = u.spec /\ v.inc = u.inc /\ (u.deleting => v.deleting)
     /\ isTerminal(u.phase) => v.phase = u.phase
  \/ u.on /\ u.deleting /\ ~v.on
  \/ ~u.on /\ v.on /\ ~v.deleting

\* What the kubelets, the garbage collector and DeletePod make of a host pod.
LEMMA HPodTypes ==
  ASSUME NEW h \in HPods, h.on
  PROVE  /\ \A ph \in Phases : LET g == [h EXCEPT !.phase = ph]
                               IN  g \in HPods /\ (~isTerminal(h.phase) => Follows(h, g))
         /\ LET g == [h EXCEPT !.deleting = TRUE] IN g \in HPods /\ Follows(h, g)
         /\ LET g == [h EXCEPT !.phase = "Failed", !.killed = TRUE]
            IN  g \in HPods /\ (~isTerminal(h.phase) => Follows(h, g))
         /\ h.deleting => Follows(h, NoHPod)
         /\ h.inc \in 1..MaxInc /\ h.phase \in Phases /\ h.killed \in BOOLEAN
<1>1. h \in [on : {TRUE}, spec : HostSpecs, phase : Phases,
             deleting : BOOLEAN, inc : 1..MaxInc, killed : BOOLEAN]
  <2>1. ~NoHPod.on
    BY Zenon DEF NoHPod
  <2>2. h # NoHPod
    BY <2>1, Zenon
  <2> QED
    BY <2>2 DEF HPods
<1>2. \A ph \in Phases : LET g == [h EXCEPT !.phase = ph]
                        IN  g \in HPods /\ (~isTerminal(h.phase) => Follows(h, g))
  BY <1>1 DEF HPods, Follows
<1>3. LET g == [h EXCEPT !.deleting = TRUE] IN g \in HPods /\ Follows(h, g)
  BY <1>1 DEF HPods, Follows
<1>4. LET g == [h EXCEPT !.phase = "Failed", !.killed = TRUE]
      IN  g \in HPods /\ (~isTerminal(h.phase) => Follows(h, g))
  BY <1>1 DEF HPods, Follows, Phases
<1>5. h.deleting => Follows(h, NoHPod)
  BY DEF Follows, NoHPod
<1> QED
  BY <1>1, <1>2, <1>3, <1>4, <1>5
-----------------------------------------------------------------------------
(* Types. *)

\* The worker has listed the pods it still has to look at, and the one at hand.
WorkInv ==
  /\ \A p \in sw.todo : sw.src[p].on
  /\ sw.pc \in {"ensure", "status", "remove"} => sw.p \in Pods /\ sw.src[sw.p].on

TenantTypes ==
  /\ tpods \in [Pods -> TPods] /\ born \in [Pods -> 0..MaxInc]
  /\ mixed \in [Pods -> SUBSET (1..MaxInc)] /\ killed \in [Pods -> BOOLEAN]
StoreTypes ==
  hpods \in [Keys -> HPods] /\ hcache \in [Keys -> HPods] /\ hwatch \in Seq([k : Keys, v : HPods])
OtherTypes ==
  /\ done \in [Pods -> SUBSET (1..MaxInc)]
  /\ config \in Nat /\ hostConfig \in 0..config
  /\ left \in [Kinds -> Nat]
PoolTypes == ready \subseteq Nodes /\ vpool \in VPools /\ vpoolCache \in VPools
WorkTypes == sq \in BOOLEAN /\ sw \in Syncers /\ WorkInv
TypeInv == TenantTypes /\ StoreTypes /\ OtherTypes /\ PoolTypes /\ WorkTypes

\* TypeInv is the type invariant and what the worker knows.
LEMMA TypeInvSplits == TypeInv <=> PodTypeOK /\ WorkInv
BY DEF TypeInv, PodTypeOK, TenantTypes, StoreTypes, OtherTypes, PoolTypes, WorkTypes

\* The idle worker is well typed and has nothing to do.
LEMMA IdleTypes ==
  /\ NoTPod \in TPods /\ NoHPod \in HPods
  /\ IdleSync \in Syncers /\ IdleSync.pc = "idle" /\ IdleSync.todo = {}
<1>1. NoTPod \in TPods /\ NoHPod \in HPods
  BY Zenon DEF TPods, HPods
<1>2. [p \in Pods |-> NoTPod] \in [Pods -> TPods]
  BY <1>1
<1> HIDE DEF NoTPod
<1>3. IdleSync \in Syncers /\ IdleSync.pc = "idle" /\ IdleSync.todo = {}
  BY <1>2 DEF IdleSync, Syncers, SyncPcs
<1> QED
  BY <1>1, <1>3

\* What remains of a budget.
LEMMA UseTypes ==
  ASSUME NEW kind \in Kinds, OtherTypes, Use(kind)
  PROVE  left' \in [Kinds -> Nat]
BY DEF Use, OtherTypes

\* A write to the host keeps its pods and the events well typed.
LEMMA PutTypes ==
  ASSUME StoreTypes, NEW k \in Keys, NEW v \in HPods, HostPut(k, v)
  PROVE  StoreTypes'
<1>1. [k |-> k, v |-> v] \in [k : Keys, v : HPods]
  OBVIOUS
<1>2. hwatch' \in Seq([k : Keys, v : HPods])
  BY <1>1, AppendProperties DEF StoreTypes, HostPut
<1> QED
  BY <1>2 DEF StoreTypes, HostPut

\* PodClusterClient.DeletePod writes a marked pod or nothing.
LEMMA DeleteTypes ==
  ASSUME StoreTypes, NEW k \in Keys, DeletePod(k)
  PROVE  StoreTypes'
<1>1. CASE hpods[k].on /\ ~hpods[k].deleting
  <2> DEFINE g == [hpods[k] EXCEPT !.deleting = TRUE]
  <2>1. g \in HPods
    BY <1>1, HPodTypes DEF StoreTypes
  <2>2. HostPut(k, g)
    BY <1>1 DEF DeletePod
  <2> HIDE DEF g
  <2> QED
    BY <2>1, <2>2, PutTypes
<1>2. CASE ~(hpods[k].on /\ ~hpods[k].deleting)
  BY <1>2 DEF DeletePod, podStore, StoreTypes
<1> QED
  BY <1>1, <1>2

\* The initial states are well typed.
LEMMA InitTypes == PodInit => TypeInv
<1> SUFFICES ASSUME PodInit PROVE TypeInv
  OBVIOUS
<1>1. TenantTypes
  BY IdleTypes, PodAssumption DEF PodInit, TenantTypes
<1>2. StoreTypes
  BY IdleTypes, EmptySeq DEF PodInit, StoreTypes
<1>3. OtherTypes
  BY PodAssumption DEF PodInit, OtherTypes
<1>4. PoolTypes
  BY DEF PodInit, PoolTypes, VPools
<1>5. WorkTypes
  BY IdleTypes DEF PodInit, WorkTypes, WorkInv
<1> QED
  BY <1>1, <1>2, <1>3, <1>4, <1>5 DEF TypeInv

\* The tenant's users keep the types.
LEMMA UserTypes ==
  ASSUME TypeInv, UserStep
  PROVE  TypeInv'
<1> USE DEF TypeInv, tenantFrame, hostSide, podStore, poolSide, reports
<1>1. CASE WriteConfig
  <2>1. left' \in [Kinds -> Nat]
    BY <1>1, UseTypes DEF WriteConfig, Kinds
  <2>2. config' \in Nat /\ hostConfig' \in 0..config'
    BY <1>1 DEF WriteConfig, OtherTypes
  <2> QED
    BY <1>1, <2>1, <2>2
    DEF WriteConfig, OtherTypes, TenantTypes, StoreTypes, PoolTypes, WorkTypes, WorkInv
<1>2. ASSUME NEW p \in Pods, CreatePod(p) \/ EditPod(p) \/ DeleteTenantPod(p)
      PROVE  TypeInv'
  <2>1. left' \in [Kinds -> Nat]
    BY <1>2, UseTypes DEF CreatePod, EditPod, DeleteTenantPod, Kinds, OtherTypes
  <2>2. born' \in [Pods -> 0..MaxInc]
    BY <1>2, PodAssumption DEF CreatePod, EditPod, DeleteTenantPod, TenantTypes
  <2>3. CASE CreatePod(p)
    <3>1. PICK n \in Nodes, s \in PodSpecs :
            tpods' = [tpods EXCEPT ![p] = [on |-> TRUE, node |-> n, spec |-> s, phase |-> "Pending",
                                           deleting |-> FALSE, inc |-> born[p] + 1]]
      BY <2>3 DEF CreatePod
    <3>2. born[p] + 1 \in 1..MaxInc
      BY <2>3, PodAssumption DEF CreatePod, TenantTypes
    <3>3. [on |-> TRUE, node |-> n, spec |-> s, phase |-> "Pending",
           deleting |-> FALSE, inc |-> born[p] + 1] \in TPods
      BY <3>2 DEF TPods, Phases
    <3> QED
      BY <2>1, <2>2, <2>3, <3>1, <3>3
      DEF CreatePod, OtherTypes, TenantTypes, StoreTypes, PoolTypes, WorkTypes, WorkInv
  <2>4. CASE EditPod(p)
    <3>1. PICK s \in PodSpecs : tpods' = [tpods EXCEPT ![p].spec = s]
      BY <2>4 DEF EditPod
    <3>2. [tpods[p] EXCEPT !.spec = s] \in TPods
      BY <2>4, TPodTypes DEF EditPod, TenantTypes
    <3> QED
      BY <2>1, <2>2, <2>4, <3>1, <3>2
      DEF EditPod, OtherTypes, TenantTypes, StoreTypes, PoolTypes, WorkTypes, WorkInv
  <2>5. CASE DeleteTenantPod(p)
    <3>1. [tpods[p] EXCEPT !.deleting = TRUE] \in TPods
      BY <2>5, TPodTypes DEF DeleteTenantPod, TenantTypes
    <3>2. PICK t \in TPods : tpods' = [tpods EXCEPT ![p] = t]
      BY <2>5, <3>1, IdleTypes DEF DeleteTenantPod
    <3> QED
      BY <2>1, <2>2, <2>5, <3>2
      DEF DeleteTenantPod, OtherTypes, TenantTypes, StoreTypes, PoolTypes, WorkTypes, WorkInv
  <2> QED
    BY <1>2, <2>3, <2>4, <2>5
<1> QED
  BY <1>1, <1>2 DEF UserStep

\* A step of a host pod that the host makes: a write of a version that may
\* follow, or the informer's.
LEMMA HostWrites ==
  ASSUME TypeInv, NEW k \in Keys,
         HostProgress(k) \/ HostKill(k) \/ HostGone(k) \/ Evict(k)
  PROVE  /\ \E v \in HPods : HostPut(k, v) /\ hpods[k].on /\ Follows(hpods[k], v)
         /\ UNCHANGED hostFrame
         /\ done' \in [Pods -> SUBSET (1..MaxInc)]
         /\ left' \in [Kinds -> Nat]
<1>0. k[1] \in Pods /\ hpods[k] \in HPods
  BY DEF Keys, TypeInv, StoreTypes
<1>1. CASE HostProgress(k)
  <2>1. PICK ph \in Phases :
          /\ HostPut(k, [hpods[k] EXCEPT !.phase = ph])
          /\ done' = IF isTerminal(ph) THEN [done EXCEPT ![k[1]] = @ \cup {hpods[k].inc}] ELSE done
    BY <1>1 DEF HostProgress, Phases
  <2>2. hpods[k].on /\ hpods[k].inc \in 1..MaxInc
    BY <1>0, <1>1, HPodTypes DEF HostProgress
  <2> QED
    BY <1>0, <1>1, <2>1, <2>2, HPodTypes DEF HostProgress, TypeInv, OtherTypes
<1>2. CASE HostKill(k)
  BY <1>0, <1>2, HPodTypes DEF HostKill, TypeInv, OtherTypes
<1>3. CASE HostGone(k)
  BY <1>0, <1>3, HPodTypes, IdleTypes DEF HostGone, TypeInv, OtherTypes
<1>4. CASE Evict(k)
  BY <1>0, <1>4, HPodTypes, UseTypes DEF Evict, DeletePod, TypeInv, OtherTypes, Kinds
<1> QED
  BY <1>1, <1>2, <1>3, <1>4

\* The host and the informer keep the types.
LEMMA HostTypes ==
  ASSUME TypeInv, HostStep
  PROVE  TypeInv'
<1> USE DEF hostFrame, tenantSide, reports, poolSide
<1>1. ASSUME NEW k \in Keys, HostProgress(k) \/ HostKill(k) \/ HostGone(k) \/ Evict(k)
      PROVE  TypeInv'
  <2>1. StoreTypes'
    BY <1>1, HostWrites, PutTypes DEF TypeInv
  <2> QED
    BY <1>1, <2>1, HostWrites
    DEF TypeInv, OtherTypes, TenantTypes, PoolTypes, WorkTypes, WorkInv
<1>2. CASE DeliverHost
  <2>1. Head(hwatch) \in [k : Keys, v : HPods] /\ Tail(hwatch) \in Seq([k : Keys, v : HPods])
    BY <1>2, HeadTailProperties DEF DeliverHost, TypeInv, StoreTypes
  <2>2. StoreTypes'
    BY <1>2, <2>1 DEF DeliverHost, TypeInv, StoreTypes
  <2> QED
    BY <1>2, <2>2 DEF DeliverHost, TypeInv, OtherTypes, TenantTypes, PoolTypes, WorkTypes, WorkInv
<1> QED
  BY <1>1, <1>2 DEF HostStep

\* The life of the pool and its VNodes keeps the types.
LEMMA LifeTypes ==
  ASSUME TypeInv, LifeStep
  PROVE  TypeInv'
<1> USE DEF lifeFrame, tenantSide, reports, hostSide, podStore, poolSide
<1>1. left' \in [Kinds -> Nat]
  BY UseTypes DEF LifeStep, PoolFails, ChangePool, Finalized, DeliverVPool, PoolStatusPatched,
                  NodeDown, NodeUp, Deprovisioned, TypeInv, OtherTypes, Kinds
<1>2. /\ \A b \in BOOLEAN : [vpool EXCEPT !.failed = b] \in VPools
      /\ \A b \in BOOLEAN : [vpool EXCEPT !.valid = b] \in VPools
      /\ \A b \in BOOLEAN : [vpool EXCEPT !.deleting = b] \in VPools
      /\ \A b \in BOOLEAN : [vpool EXCEPT !.exists = b] \in VPools
      /\ vpool.failed \in BOOLEAN
  BY DEF TypeInv, PoolTypes, VPools
<1>3. vpool' \in VPools /\ vpoolCache' \in VPools
  <2>1. CASE PoolFails
    <3>1. vpool' = [vpool EXCEPT !.failed = ~vpool.failed] /\ vpoolCache' = vpoolCache
      BY <2>1, Zenon DEF PoolFails
    <3>2. (~vpool.failed) \in BOOLEAN
      BY Zenon
    <3> QED
      BY <1>2, <3>1, <3>2, Zenon DEF TypeInv, PoolTypes
  <2>2. CASE ChangePool
    <3>1. /\ vpool' = [vpool EXCEPT !.valid = FALSE] \/ vpool' = [vpool EXCEPT !.deleting = TRUE]
          /\ vpoolCache' = vpoolCache
      BY <2>2, Zenon DEF ChangePool
    <3> QED
      BY <1>2, <3>1, Zenon DEF TypeInv, PoolTypes
  <2>3. CASE Finalized
    BY <1>2, <2>3, Zenon DEF Finalized, TypeInv, PoolTypes
  <2>4. CASE ~PoolFails /\ ~ChangePool /\ ~Finalized
    BY <2>4 DEF LifeStep, DeliverVPool, PoolStatusPatched, NodeDown, NodeUp, Deprovisioned,
                TypeInv, PoolTypes
  <2> QED
    BY <2>1, <2>2, <2>3, <2>4
<1>4. ready' \subseteq Nodes /\ sq' \in BOOLEAN /\ UNCHANGED lifeFrame
  BY DEF LifeStep, PoolFails, ChangePool, Finalized, DeliverVPool, PoolStatusPatched,
         NodeDown, NodeUp, Deprovisioned, TypeInv, PoolTypes, WorkTypes
<1> QED
  BY <1>1, <1>3, <1>4
  DEF TypeInv, OtherTypes, TenantTypes, StoreTypes, PoolTypes, WorkTypes, WorkInv

\* What the worker sets of itself, and its end of a pass.
LEMMA WorkerTypes ==
  ASSUME WorkTypes
  PROVE  /\ \A requeue \in BOOLEAN : SyncDone(requeue) => WorkTypes'
         /\ sw' = NextPod(sw) /\ UNCHANGED sq => WorkTypes'
         /\ \A w : sw' = [sw EXCEPT !.work = w] /\ w \subseteq Keys /\ UNCHANGED sq => WorkTypes'
         /\ \A pc \in {"status", "remove"} :
              /\ sw.pc \in {"ensure", "status"} /\ sw' = [sw EXCEPT !.pc = pc] /\ UNCHANGED sq
              => WorkTypes'
<1>1. ASSUME NEW requeue \in BOOLEAN, SyncDone(requeue) PROVE WorkTypes'
  BY <1>1, IdleTypes DEF SyncDone, WorkTypes, WorkInv
<1>2. sw' = NextPod(sw) /\ UNCHANGED sq => WorkTypes'
  BY DEF NextPod, WorkTypes, WorkInv, Syncers, SyncPcs
<1>3. ASSUME NEW w, sw' = [sw EXCEPT !.work = w], w \subseteq Keys, UNCHANGED sq PROVE WorkTypes'
  BY <1>3 DEF WorkTypes, WorkInv, Syncers
<1>4. ASSUME NEW pc \in {"status", "remove"}, sw.pc \in {"ensure", "status"},
             sw' = [sw EXCEPT !.pc = pc], UNCHANGED sq
      PROVE  WorkTypes'
  BY <1>4 DEF WorkTypes, WorkInv, Syncers, SyncPcs
<1> QED
  BY <1>1, <1>2, <1>3, <1>4

\* What a worker at work on a pod looks at.
LEMMA SourceTypes ==
  ASSUME TypeInv, sw.pc \in {"ensure", "status", "remove"}
  PROVE  /\ sw.p \in Pods /\ Source \in TPods /\ Source.on
         /\ Key(sw.p) \in Keys /\ Key(sw.p) = <<sw.p, Source.node>>
         /\ Stored(Target(Source.spec)) \in HostSpecs /\ Source.inc \in 1..MaxInc
<1>1. sw.p \in Pods /\ Source \in TPods /\ Source.on
  BY DEF TypeInv, WorkTypes, WorkInv, Syncers, Source
<1> QED
  BY <1>1, TPodTypes DEF Key, Keys, HostSpecs, Source

\* ensureHostPod creates a pod where neither the cache nor the host has any.
Creates(k, v) ==
  ~hcache[k].on /\ ~hpods[k].on /\ v.on /\ ~v.deleting /\ HostPut(k, v)

\* The worker writes to the host in two ways: it deletes a pod or creates one.
LEMMA SyncWrites ==
  ASSUME TypeInv, SyncStep
  PROVE  \/ UNCHANGED podStore
         \/ \E k \in Keys : DeletePod(k)
         \/ \E k \in Keys, v \in HPods :
              Creates(k, v) /\ SyncEnsure /\ k = Key(sw.p) /\ v.inc = Source.inc
<1>1. CASE SyncCleanup
  BY <1>1 DEF SyncCleanup, TypeInv, WorkTypes, Syncers
<1>2. CASE SyncOrphans
  BY <1>2 DEF SyncOrphans, TypeInv, WorkTypes, Syncers
<1>3. CASE SyncRemove
  BY <1>3, SourceTypes DEF SyncRemove
<1>4. CASE SyncEnsure
  <2> DEFINE k == Key(sw.p)
             spec == Target(Source.spec)
             outcome == EnsureOutcome(k, spec)
             v == [on |-> TRUE, spec |-> Stored(spec), phase |-> "Pending",
                   deleting |-> FALSE, inc |-> Source.inc, killed |-> FALSE]
  <2>1. k \in Keys /\ Stored(spec) \in HostSpecs /\ Source.inc \in 1..MaxInc
    BY <1>4, SourceTypes DEF SyncEnsure
  <2>2. \/ UNCHANGED podStore
        \/ DeletePod(k)
        \/ outcome = "create" /\ ~hpods[k].on /\ HostPut(k, v)
    BY <1>4 DEF SyncEnsure
  <2>3. outcome = "create" => ~hcache[k].on
    BY DEF EnsureOutcome
  <2>4. v \in HPods /\ v.on /\ ~v.deleting /\ v.inc = Source.inc
    BY <2>1 DEF HPods, Phases
  <2>5. k = Key(sw.p)
    OBVIOUS
  <2> HIDE DEF k, spec, outcome, v
  <2> QED
    BY <1>4, <2>1, <2>2, <2>3, <2>4, <2>5 DEF Creates
<1>5. CASE ~SyncCleanup /\ ~SyncOrphans /\ ~SyncRemove /\ ~SyncEnsure
  BY <1>5 DEF SyncStep, SyncSkip, SyncCleanupStart, SyncStart, SyncList, SyncNext, SyncStatus,
              SyncOrphansStart
<1> QED
  BY <1>1, <1>2, <1>3, <1>4, <1>5

\* What the worker writes to the tenant: the status of a cached host pod.
LEMMA StatusTypes ==
  ASSUME TypeInv, NEW p \in Pods, NEW h \in HPods, h.on, updateTenantPodStatus(p, h)
  PROVE  /\ tpods' \in [Pods -> TPods]
         /\ mixed' \in [Pods -> SUBSET (1..MaxInc)] /\ killed' \in [Pods -> BOOLEAN]
<1>1. /\ tpods[p] \in TPods /\ tpods[p].on
      /\ h.phase \in Phases /\ h.killed \in BOOLEAN
  BY HPodTypes DEF updateTenantPodStatus, TypeInv, TenantTypes
<1>2. [tpods[p] EXCEPT !.phase = h.phase] \in TPods /\ tpods[p].inc \in 1..MaxInc
  BY <1>1, TPodTypes
<1>3. tpods' \in [Pods -> TPods]
  BY <1>2 DEF updateTenantPodStatus, podToStatus, TypeInv, TenantTypes
<1>4. mixed' \in [Pods -> SUBSET (1..MaxInc)]
  BY <1>2 DEF updateTenantPodStatus, TypeInv, TenantTypes
<1>5. killed' \in [Pods -> BOOLEAN]
  BY <1>1 DEF updateTenantPodStatus, TypeInv, TenantTypes
<1> QED
  BY <1>3, <1>4, <1>5

\* A pass keeps what the worker knows of itself well typed.
LEMMA PassTypes ==
  ASSUME TypeInv, SyncStep
  PROVE  WorkTypes'
<1> USE DEF TypeInv
<1>0. /\ sq \in BOOLEAN /\ vpoolCache.exists \in BOOLEAN /\ vpoolCache.valid \in BOOLEAN
      /\ ListPods \subseteq Keys
      /\ ready \subseteq Nodes
  BY DEF WorkTypes, PoolTypes, VPools, ListPods
<1>1. CASE SyncSkip
  BY <1>0, <1>1, IdleTypes DEF SyncSkip, WorkTypes, WorkInv
<1>2. CASE SyncCleanupStart
  BY <1>0, <1>2, IdleTypes DEF SyncCleanupStart, WorkTypes, WorkInv, Syncers, SyncPcs
<1>3. CASE SyncStart
  BY <1>0, <1>3, IdleTypes DEF SyncStart, WorkTypes, WorkInv, Syncers, SyncPcs
<1>4. CASE SyncCleanup
  <2>1. ASSUME NEW k \in sw.work, sw' = [sw EXCEPT !.work = @ \ {k}], UNCHANGED sq
        PROVE  WorkTypes'
    BY <2>1 DEF WorkTypes, WorkInv, Syncers
  <2> QED
    BY <1>4, <2>1, WorkerTypes DEF SyncCleanup
<1>5. CASE SyncOrphans
  <2>1. ASSUME NEW k \in sw.work, sw' = [sw EXCEPT !.work = @ \ {k}], UNCHANGED sq
        PROVE  WorkTypes'
    BY <2>1 DEF WorkTypes, WorkInv, Syncers
  <2> QED
    BY <1>5, <2>1, WorkerTypes DEF SyncOrphans
<1>6. CASE SyncList
  <2> DEFINE found == {p \in Pods : Listed(p, sw.seen)}
             src == [p \in Pods |-> IF p \in found THEN tpods[p] ELSE NoTPod]
  <2>1. src \in [Pods -> TPods] /\ \A p \in found : src[p].on
    BY IdleTypes DEF Listed, TenantTypes
  <2>2. /\ sw' = [sw EXCEPT !.pc = "next", !.todo = found, !.src = src] /\ UNCHANGED sq
        /\ found \subseteq Pods
    BY <1>6 DEF SyncList
  <2> HIDE DEF found, src
  <2> QED
    BY <2>1, <2>2 DEF WorkTypes, WorkInv, Syncers, SyncPcs
<1>7. CASE SyncNext
  <2>1. PICK p \in sw.todo : sw' = [sw EXCEPT !.pc = AfterResources(p), !.p = p, !.todo = @ \ {p}]
    BY <1>7 DEF SyncNext
  <2>2. AfterResources(p) \in {"status", "ensure"} /\ UNCHANGED sq
    BY <1>7 DEF AfterResources, SyncNext
  <2> QED
    BY <2>1, <2>2 DEF WorkTypes, WorkInv, Syncers, SyncPcs
<1>8. CASE SyncEnsure
  BY <1>8, WorkerTypes DEF SyncEnsure
<1>9. CASE SyncStatus
  BY <1>9, WorkerTypes DEF SyncStatus
<1>10. CASE SyncRemove
  BY <1>10, WorkerTypes DEF SyncRemove
<1>11. CASE SyncOrphansStart
  BY <1>0, <1>11 DEF SyncOrphansStart, WorkTypes, WorkInv, Syncers, SyncPcs
<1> QED
  BY <1>1, <1>2, <1>3, <1>4, <1>5, <1>6, <1>7, <1>8, <1>9, <1>10, <1>11 DEF SyncStep

\* A pass keeps the types.
LEMMA SyncTypes ==
  ASSUME TypeInv, SyncStep
  PROVE  TypeInv'
<1>1. WorkTypes'
  BY PassTypes
<1>2. StoreTypes'
  <2>1. ASSUME NEW k \in Keys, NEW v \in HPods, Creates(k, v) PROVE StoreTypes'
    BY <2>1, PutTypes DEF Creates, TypeInv
  <2> QED
    BY <2>1, SyncWrites, DeleteTypes DEF podStore, TypeInv, StoreTypes
<1>3. UNCHANGED syncFrame
  BY DEF SyncStep, SyncSkip, SyncCleanupStart, SyncCleanup, SyncStart, SyncList, SyncNext,
         SyncEnsure, SyncStatus, SyncRemove, SyncOrphansStart, SyncOrphans
<1>4. hostConfig' \in 0..config
  <2>1. CASE SyncNext
    BY <2>1 DEF SyncNext, syncPodResources, TypeInv, OtherTypes
  <2>2. CASE ~SyncNext
    <3>1. hostConfig' = hostConfig
      BY <2>2 DEF SyncStep, SyncSkip, SyncCleanupStart, SyncCleanup, SyncStart, SyncList,
                  SyncEnsure, SyncStatus, SyncRemove, SyncOrphansStart, SyncOrphans
    <3> QED
      BY <3>1 DEF TypeInv, OtherTypes
  <2> QED
    BY <2>1, <2>2
<1>5. TenantTypes'
  <2>1. CASE SyncStatus
    <3> DEFINE h == hcache[Key(sw.p)]
    <3>1. sw.p \in Pods /\ Key(sw.p) \in Keys
      BY <2>1, SourceTypes DEF SyncStatus
    <3>2. h \in HPods
      BY <3>1 DEF TypeInv, StoreTypes
    <3>3. \/ UNCHANGED <<tpods, reports>>
          \/ h.on /\ updateTenantPodStatus(sw.p, h)
      BY <2>1 DEF SyncStatus
    <3> HIDE DEF h
    <3> QED
      BY <1>3, <3>1, <3>2, <3>3, StatusTypes DEF syncFrame, reports, TypeInv, TenantTypes
  <2>2. CASE ~SyncStatus
    <3>1. UNCHANGED <<tpods, reports>>
      BY <2>2 DEF SyncStep, SyncSkip, SyncCleanupStart, SyncCleanup, SyncStart, SyncList,
                  SyncNext, SyncEnsure, SyncRemove, SyncOrphansStart, SyncOrphans
    <3> QED
      BY <1>3, <3>1 DEF syncFrame, reports, TypeInv, TenantTypes
  <2> QED
    BY <2>1, <2>2
<1> QED
  BY <1>1, <1>2, <1>3, <1>4, <1>5 DEF syncFrame, poolSide, TypeInv, OtherTypes, PoolTypes

\* A failed pass and a restart of the operator keep the types.
LEMMA FailureTypes ==
  ASSUME TypeInv, SyncFault \/ SyncCrash
  PROVE  TypeInv'
<1>1. CASE SyncFault
  <2>1. left' \in [Kinds -> Nat]
    BY <1>1, UseTypes DEF SyncFault, TypeInv, Kinds
  <2>2. WorkTypes'
    BY <1>1, WorkerTypes DEF SyncFault, TypeInv
  <2> QED
    BY <1>1, <2>1, <2>2
    DEF SyncFault, poolSide, podStore, reports, TypeInv, OtherTypes, TenantTypes, StoreTypes,
        PoolTypes
<1>2. CASE SyncCrash
  <2>1. left' \in [Kinds -> Nat]
    BY <1>2, UseTypes DEF SyncCrash, TypeInv, Kinds
  <2>2. WorkTypes' /\ PoolTypes'
    BY <1>2, IdleTypes DEF SyncCrash, TypeInv, WorkTypes, WorkInv, PoolTypes, VPools
  <2>3. StoreTypes'
    BY <1>2, EmptySeq DEF SyncCrash, TypeInv, StoreTypes
  <2> QED
    BY <1>2, <2>1, <2>2, <2>3
    DEF SyncCrash, tenantSide, reports, TypeInv, OtherTypes, TenantTypes
<1> QED
  BY <1>1, <1>2

\* The host, or a delete by the worker, writes the next version of a host pod.
Continues(k, v) ==
  hpods[k].on /\ Follows(hpods[k], v) /\ HostPut(k, v)

\* What a step may do to the host's pods, the cache and the events in flight.
LEMMA StoreSteps ==
  ASSUME TypeInv, [PodNext]_podVars
  PROVE  \/ UNCHANGED podStore
         \/ \E k \in Keys, v \in HPods : Continues(k, v)
         \/ \E k \in Keys, v \in HPods :
              Creates(k, v) /\ SyncEnsure /\ k = Key(sw.p) /\ v.inc = Source.inc
         \/ DeliverHost
         \/ SyncCrash
<1>1. ASSUME NEW k \in Keys, DeletePod(k)
      PROVE  UNCHANGED podStore \/ \E v \in HPods : Continues(k, v)
  <2>1. CASE hpods[k].on /\ ~hpods[k].deleting
    <3> DEFINE g == [hpods[k] EXCEPT !.deleting = TRUE]
    <3>1. g \in HPods /\ Follows(hpods[k], g)
      BY <2>1, HPodTypes DEF TypeInv, StoreTypes
    <3>2. HostPut(k, g)
      BY <1>1, <2>1 DEF DeletePod
    <3> HIDE DEF g
    <3> QED
      BY <2>1, <3>1, <3>2 DEF Continues
  <2>2. CASE ~(hpods[k].on /\ ~hpods[k].deleting)
    BY <1>1, <2>2 DEF DeletePod
  <2> QED
    BY <2>1, <2>2
<1>2. CASE SyncStep
  BY <1>1, <1>2, SyncWrites
<1>3. CASE HostStep
  BY <1>3, HostWrites DEF HostStep, Continues
<1>4. CASE SyncFault \/ UserStep \/ LifeStep \/ UNCHANGED podVars
  BY <1>4 DEF SyncFault, UserStep, WriteConfig, CreatePod, EditPod, DeleteTenantPod, tenantFrame,
              LifeStep, PoolFails, ChangePool, Finalized, DeliverVPool, PoolStatusPatched,
              NodeDown, NodeUp, Deprovisioned, lifeFrame, hostSide, podVars
<1> QED
  BY <1>2, <1>3, <1>4 DEF PodNext

\* Every step keeps the types.
LEMMA NextTypes ==
  ASSUME TypeInv, [PodNext]_podVars
  PROVE  TypeInv'
<1>1. CASE UNCHANGED podVars
  BY <1>1 DEF podVars, tenantSide, reports, hostSide, podStore, poolSide, TypeInv,
              TenantTypes, StoreTypes, OtherTypes, PoolTypes, WorkTypes, WorkInv
<1> QED
  BY <1>1, UserTypes, HostTypes, LifeTypes, SyncTypes, FailureTypes DEF PodNext

\* Every reachable state is well typed: what podToStatus reads of a host pod is
\* a phase, and the copy of the ConfigMap is never newer than the original.
THEOREM PodTypes == PodSpec => []PodTypeOK
<1>1. PodInit => TypeInv
  BY InitTypes
<1>2. TypeInv /\ [PodNext]_podVars => TypeInv'
  BY NextTypes
<1>3. TypeInv => PodTypeOK
  BY TypeInvSplits
<1> QED
  BY <1>1, <1>2, <1>3, PTL DEF PodSpec

-----------------------------------------------------------------------------
(* What the cache tells of the host. *)

\* An event in flight that shows host pod k alive, being deleted, or gone.
Live(k, i) == hwatch[i].k = k /\ hwatch[i].v.on /\ ~hwatch[i].v.deleting
Dying(k, i) == hwatch[i].k = k /\ hwatch[i].v.on /\ hwatch[i].v.deleting
Gone(k, i) == hwatch[i].k = k /\ ~hwatch[i].v.on

\* There is an event of the host pod, or one of these, in flight.
Flying(k) == \E i \in 1..Len(hwatch) : hwatch[i].k = k
LiveFlies(k) == \E i \in 1..Len(hwatch) : Live(k, i)
DyingFlies(k) == \E i \in 1..Len(hwatch) : Dying(k, i)
GoneFlies(k) == \E i \in 1..Len(hwatch) : Gone(k, i)

\* The versions of a host pod that the cache, the events in flight and the host
\* show are of one pod: they agree on the spec, and none comes after it is gone.
\* When the cache shows none, the whole life of the pod so far is in flight.
CacheAgrees(k) == hcache[k].on /\ hpods[k].on => hcache[k].spec = hpods[k].spec
EventAgrees(k, i) ==
  hwatch[i].k = k /\ hwatch[i].v.on /\ hpods[k].on => hwatch[i].v.spec = hpods[k].spec
GoneIsLast(k, i) ==
  Gone(k, i) => ~hpods[k].on /\ \A j \in 1..Len(hwatch) : i < j => hwatch[j].k # k
WholeLife(k) ==
  ~hcache[k].on =>
    /\ hpods[k].on \/ Flying(k) => LiveFlies(k)
    /\ (IF hpods[k].on THEN hpods[k].deleting ELSE Flying(k)) => DyingFlies(k)
    /\ ~hpods[k].on /\ Flying(k) => GoneFlies(k)
LagInv ==
  \A k \in Keys :
    /\ CacheAgrees(k)
    /\ \A i \in 1..Len(hwatch) : EventAgrees(k, i) /\ GoneIsLast(k, i)
    /\ WholeLife(k)

\* A pod is created where the cache and the host show none. With MaxLag < 4
\* nothing of an earlier one is then in flight: there is no room for it to be
\* created, marked and gone.
LEMMA NothingFlies ==
  ASSUME MaxLag < 4, StoreTypes, LagInv, NEW k \in Keys, NEW v \in HPods, Creates(k, v)
  PROVE  ~Flying(k)
<1> DEFINE n == Len(hwatch)
<1> SUFFICES ASSUME Flying(k) PROVE FALSE
  OBVIOUS
<1>1. LiveFlies(k) /\ DyingFlies(k) /\ GoneFlies(k)
  BY DEF LagInv, WholeLife, Creates
<1>2. PICK a \in 1..n, b \in 1..n, c \in 1..n : Live(k, a) /\ Dying(k, b) /\ Gone(k, c)
  BY <1>1 DEF LiveFlies, DyingFlies, GoneFlies
<1>3. a # b /\ b # c /\ a # c
  BY <1>2 DEF Live, Dying, Gone
<1>4. n \in Nat /\ n < 3
  BY PodAssumption, LenProperties DEF Creates, HostPut, StoreTypes
<1> QED
  BY <1>3, <1>4

\* What a write adds to the events in flight.
LEMMA PutEvents ==
  ASSUME StoreTypes, NEW k \in Keys, NEW v \in HPods, HostPut(k, v)
  PROVE  LET n == Len(hwatch) IN
         /\ n \in Nat /\ Len(hwatch') = n + 1
         /\ \A i \in 1..(n + 1) : i \in 1..n \/ i = n + 1
         /\ \A i \in 1..n : i \in 1..(n + 1) /\ hwatch'[i] = hwatch[i]
         /\ n + 1 \in 1..(n + 1) /\ hwatch'[n + 1].k = k /\ hwatch'[n + 1].v = v
         /\ hpods'[k] = v /\ \A l \in Keys : l # k => hpods'[l] = hpods[l]
         /\ hcache' = hcache
<1> DEFINE n == Len(hwatch)
           e == [k |-> k, v |-> v]
<1>1. /\ n \in Nat
      /\ hpods' = [hpods EXCEPT ![k] = v] /\ hwatch' = Append(hwatch, e) /\ hcache' = hcache
  BY LenProperties DEF HostPut, StoreTypes
<1>2. /\ Len(hwatch') = n + 1 /\ hwatch'[n + 1] = e
      /\ \A i \in 1..n : hwatch'[i] = hwatch[i]
  BY <1>1, AppendProperties DEF StoreTypes
<1>3. hpods'[k] = v /\ \A l \in Keys : l # k => hpods'[l] = hpods[l]
  BY <1>1 DEF StoreTypes
<1>4. e.k = k /\ e.v = v
  OBVIOUS
<1>5. /\ \A i \in 1..(n + 1) : i \in 1..n \/ i = n + 1
      /\ \A i \in 1..n : i \in 1..(n + 1)
      /\ n + 1 \in 1..(n + 1)
  BY <1>1
<1> QED
  BY <1>1, <1>2, <1>3, <1>4, <1>5

\* A write of a version that may follow keeps LagInv.
LEMMA PutLag ==
  ASSUME MaxLag < 4, StoreTypes, LagInv, NEW k \in Keys, NEW v \in HPods, HostPut(k, v),
         (hpods[k].on /\ Follows(hpods[k], v)) \/ Creates(k, v)
  PROVE  LagInv'
<1> DEFINE n == Len(hwatch)
<1>1. /\ n \in Nat /\ Len(hwatch') = n + 1
      /\ \A i \in 1..(n + 1) : i \in 1..n \/ i = n + 1
      /\ \A i \in 1..n : i \in 1..(n + 1) /\ hwatch'[i] = hwatch[i]
      /\ n + 1 \in 1..(n + 1) /\ hwatch'[n + 1].k = k /\ hwatch'[n + 1].v = v
      /\ hpods'[k] = v /\ \A l \in Keys : l # k => hpods'[l] = hpods[l]
      /\ hcache' = hcache
  BY PutEvents
<1>2. ASSUME NEW l \in Keys, l # k
      PROVE  /\ CacheAgrees(l)' /\ WholeLife(l)'
             /\ \A i \in 1..(n + 1) : EventAgrees(l, i)' /\ GoneIsLast(l, i)'
  <2>1. hpods'[l] = hpods[l] /\ hcache'[l] = hcache[l]
    BY <1>1, <1>2
  <2>2. \A i \in 1..(n + 1) : hwatch'[i].k = l => i \in 1..n /\ hwatch'[i] = hwatch[i]
    BY <1>1, <1>2
  <2>3. \A i \in 1..(n + 1) : EventAgrees(l, i)'
    BY <2>1, <2>2 DEF LagInv, EventAgrees
  <2>4. \A i \in 1..(n + 1) : GoneIsLast(l, i)'
    <3> SUFFICES ASSUME NEW i \in 1..(n + 1), Gone(l, i)'
                 PROVE  ~hpods'[l].on /\ \A j \in 1..(n + 1) : i < j => hwatch'[j].k # l
      BY <1>1 DEF GoneIsLast
    <3>1. i \in 1..n /\ Gone(l, i)
      BY <2>2 DEF Gone
    <3>2. ~hpods[l].on /\ \A j \in 1..n : i < j => hwatch[j].k # l
      BY <3>1 DEF LagInv, GoneIsLast
    <3> QED
      BY <2>1, <2>2, <3>2
  <2>5. /\ Flying(l)' <=> Flying(l)
        /\ LiveFlies(l)' <=> LiveFlies(l)
        /\ DyingFlies(l)' <=> DyingFlies(l)
        /\ GoneFlies(l)' <=> GoneFlies(l)
    <3>1. Flying(l)' <=> Flying(l)
      BY <1>1, <2>2 DEF Flying
    <3>2. LiveFlies(l)' <=> LiveFlies(l)
      BY <1>1, <2>2 DEF LiveFlies, Live
    <3>3. DyingFlies(l)' <=> DyingFlies(l)
      BY <1>1, <2>2 DEF DyingFlies, Dying
    <3>4. GoneFlies(l)' <=> GoneFlies(l)
      BY <1>1, <2>2 DEF GoneFlies, Gone
    <3> QED
      BY <3>1, <3>2, <3>3, <3>4
  <2>6. CacheAgrees(l) /\ WholeLife(l)
    BY DEF LagInv
  <2>7. WholeLife(l)'
    BY <2>1, <2>5, <2>6 DEF WholeLife
  <2> QED
    BY <2>1, <2>3, <2>4, <2>6, <2>7 DEF CacheAgrees
<1>3. /\ Flying(k)'
      /\ LiveFlies(k) => LiveFlies(k)'
      /\ DyingFlies(k) => DyingFlies(k)'
      /\ v.on /\ ~v.deleting => LiveFlies(k)'
      /\ v.on /\ v.deleting => DyingFlies(k)'
      /\ ~v.on => GoneFlies(k)'
  <2>1. Flying(k)' /\ (~v.on => GoneFlies(k)')
    BY <1>1 DEF Flying, GoneFlies, Gone
  <2>2. (LiveFlies(k) => LiveFlies(k)') /\ (v.on /\ ~v.deleting => LiveFlies(k)')
    BY <1>1 DEF LiveFlies, Live
  <2>3. (DyingFlies(k) => DyingFlies(k)') /\ (v.on /\ v.deleting => DyingFlies(k)')
    BY <1>1 DEF DyingFlies, Dying
  <2> QED
    BY <2>1, <2>2, <2>3
<1>4. \A i \in 1..(n + 1) : i = n + 1 => GoneIsLast(k, i)'
  <2>1. \A j \in 1..(n + 1) : ~(n + 1 < j)
    BY <1>1
  <2> QED
    BY <1>1, <2>1 DEF GoneIsLast, Gone
<1> DEFINE Kept == /\ CacheAgrees(k)' /\ WholeLife(k)'
                   /\ \A i \in 1..(n + 1) : EventAgrees(k, i)' /\ GoneIsLast(k, i)'
<1>5. ASSUME Creates(k, v) PROVE Kept
  <2>1. \A i \in 1..n : hwatch[i].k # k
    BY <1>5, NothingFlies DEF Flying
  <2>2. ~hcache[k].on /\ v.on /\ ~v.deleting
    BY <1>5 DEF Creates
  <2>3. CacheAgrees(k)' /\ WholeLife(k)'
    BY <1>1, <1>3, <2>2 DEF CacheAgrees, WholeLife
  <2>4. \A i \in 1..(n + 1) : EventAgrees(k, i)'
    BY <1>1, <2>1 DEF EventAgrees
  <2>5. \A i \in 1..n : GoneIsLast(k, i)'
    BY <1>1, <2>1 DEF GoneIsLast, Gone
  <2> QED
    BY <1>1, <1>4, <2>3, <2>4, <2>5
<1>6. ASSUME hpods[k].on, Follows(hpods[k], v) PROVE Kept
  <2>1. v.on => v.spec = hpods[k].spec
    BY <1>6 DEF Follows
  <2>2. CacheAgrees(k)'
    BY <1>1, <1>6, <2>1 DEF LagInv, CacheAgrees
  <2>3. \A i \in 1..(n + 1) : EventAgrees(k, i)'
    BY <1>1, <1>6, <2>1 DEF LagInv, EventAgrees
  <2>4. \A i \in 1..n : ~Gone(k, i)
    BY <1>6 DEF LagInv, GoneIsLast
  <2>5. \A i \in 1..n : GoneIsLast(k, i)'
    BY <1>1, <2>4 DEF GoneIsLast, Gone
  <2>6. WholeLife(k)
    BY DEF LagInv
  <2>7. WholeLife(k)'
    BY <1>1, <1>3, <1>6, <2>6 DEF WholeLife, Follows
  <2> QED
    BY <1>1, <1>4, <2>2, <2>3, <2>5, <2>7
<1>7. Kept
  BY <1>5, <1>6
<1>8. Len(hwatch)' = n + 1
  BY <1>1
<1> HIDE DEF n
<1> QED
  BY <1>2, <1>7, <1>8 DEF LagInv

\* What the informer's taking over the oldest event does.
LEMMA DeliverEvents ==
  ASSUME StoreTypes, DeliverHost
  PROVE  LET n == Len(hwatch)
             h == hwatch[1]
         IN  /\ n \in Nat /\ 1 \in 1..n /\ Len(hwatch') = n - 1
             /\ \A i \in 1..(n - 1) : i + 1 \in 1..n /\ hwatch'[i] = hwatch[i + 1]
             /\ \A i \in 1..n : i = 1 \/ (i - 1 \in 1..(n - 1) /\ hwatch'[i - 1] = hwatch[i])
             /\ \A i, j \in 1..(n - 1) : i < j => i + 1 < j + 1
             /\ h.k \in Keys /\ hcache'[h.k] = h.v
             /\ \A l \in Keys : l # h.k => hcache'[l] = hcache[l]
             /\ hpods' = hpods
<1> DEFINE E == [k : Keys, v : HPods]
           n == Len(hwatch)
           h == hwatch[1]
<1>1. hwatch \in Seq(E) /\ hwatch # <<>>
  BY DEF DeliverHost, StoreTypes
<1>2. /\ Head(hwatch) \in E /\ Len(Tail(hwatch)) = n - 1
      /\ \A i \in 1..Len(Tail(hwatch)) : Tail(hwatch)[i] = hwatch[i + 1]
  BY <1>1, HeadTailProperties
<1>3. n \in Nat /\ n > 0 /\ h = Head(hwatch)
  BY <1>1, LenProperties, EmptySeq
<1>4. /\ hpods' = hpods /\ hwatch' = Tail(hwatch)
      /\ hcache' = [hcache EXCEPT ![h.k] = h.v]
  BY <1>3 DEF DeliverHost
<1> HIDE DEF h
<1>5. h.k \in Keys /\ hcache'[h.k] = h.v /\ \A l \in Keys : l # h.k => hcache'[l] = hcache[l]
  BY <1>2, <1>3, <1>4 DEF StoreTypes
<1>6. /\ 1 \in 1..n
      /\ \A i \in 1..(n - 1) : i + 1 \in 1..n
      /\ \A i \in 1..n : i = 1 \/ (i - 1 \in 1..(n - 1) /\ (i - 1) + 1 = i)
      /\ \A i, j \in 1..(n - 1) : i < j => i + 1 < j + 1
  BY <1>3
<1>7. \A i \in 1..(n - 1) : hwatch'[i] = hwatch[i + 1]
  BY <1>2, <1>4
<1>8. \A i \in 1..n : i = 1 \/ hwatch'[i - 1] = hwatch[i]
  BY <1>6, <1>7
<1> QED
  BY <1>2, <1>3, <1>4, <1>5, <1>6, <1>7, <1>8 DEF h

\* The informer takes over one event: a pod it shows as gone has no other event
\* in flight, and one it shows alive was the first part of the life in flight.
LEMMA DeliverLag ==
  ASSUME StoreTypes, LagInv, DeliverHost
  PROVE  LagInv'
<1> DEFINE n == Len(hwatch)
           h == hwatch[1]
<1>1. /\ n \in Nat /\ 1 \in 1..n /\ Len(hwatch') = n - 1
      /\ \A i \in 1..(n - 1) : i + 1 \in 1..n /\ hwatch'[i] = hwatch[i + 1]
      /\ \A i \in 1..n : i = 1 \/ (i - 1 \in 1..(n - 1) /\ hwatch'[i - 1] = hwatch[i])
      /\ \A i, j \in 1..(n - 1) : i < j => i + 1 < j + 1
      /\ h.k \in Keys /\ hcache'[h.k] = h.v
      /\ \A l \in Keys : l # h.k => hcache'[l] = hcache[l]
      /\ hpods' = hpods
  BY DeliverEvents
<1>2. ASSUME NEW l \in Keys
      PROVE  \A i \in 1..(n - 1) : EventAgrees(l, i)' /\ GoneIsLast(l, i)'
  <2>1. TAKE i \in 1..(n - 1)
  <2>2. i + 1 \in 1..n /\ hwatch'[i] = hwatch[i + 1]
    BY <1>1
  <2>3. EventAgrees(l, i + 1) /\ GoneIsLast(l, i + 1)
    BY <2>2 DEF LagInv
  <2>4. EventAgrees(l, i)'
    BY <1>1, <2>2, <2>3 DEF EventAgrees
  <2>5. ASSUME Gone(l, i)'
        PROVE  ~hpods'[l].on /\ \A j \in 1..(n - 1) : i < j => hwatch'[j].k # l
    <3>1. ~hpods[l].on /\ \A j \in 1..n : i + 1 < j => hwatch[j].k # l
      BY <2>2, <2>3, <2>5 DEF GoneIsLast, Gone
    <3>2. ASSUME NEW j \in 1..(n - 1), i < j
          PROVE  hwatch'[j].k # l
      <4>1. j + 1 \in 1..n /\ i + 1 < j + 1 /\ hwatch'[j] = hwatch[j + 1]
        BY <1>1, <3>2
      <4> QED
        BY <3>1, <4>1
    <3> QED
      BY <1>1, <3>1, <3>2
  <2>6. GoneIsLast(l, i)'
    BY <1>1, <2>5 DEF GoneIsLast
  <2> QED
    BY <2>4, <2>6
<1>3. ASSUME NEW l \in Keys, l = h.k
      PROVE  CacheAgrees(l)' /\ WholeLife(l)'
  <2>1. EventAgrees(l, 1) /\ GoneIsLast(l, 1)
    BY <1>1 DEF LagInv
  <2>2. CacheAgrees(l)'
    BY <1>1, <1>3, <2>1 DEF CacheAgrees, EventAgrees
  <2>3. ASSUME ~h.v.on
        PROVE  ~hpods'[l].on /\ ~Flying(l)'
    <3>1. ~hpods[l].on /\ \A j \in 1..n : 1 < j => hwatch[j].k # l
      BY <1>3, <2>1, <2>3 DEF GoneIsLast, Gone
    <3>2. \A i \in 1..(n - 1) : 1 < i + 1
      BY <1>1
    <3>3. \A i \in 1..(n - 1) : hwatch'[i].k # l
      BY <1>1, <3>1, <3>2
    <3> QED
      BY <1>1, <3>1, <3>3 DEF Flying
  <2> QED
    BY <1>1, <1>3, <2>2, <2>3 DEF WholeLife
<1>4. ASSUME NEW l \in Keys, l # h.k
      PROVE  CacheAgrees(l)' /\ WholeLife(l)'
  <2>1. \A i \in 1..n : hwatch[i].k = l => i - 1 \in 1..(n - 1) /\ hwatch'[i - 1] = hwatch[i]
    BY <1>1, <1>4
  <2>2. LiveFlies(l) => LiveFlies(l)'
    BY <1>1, <2>1 DEF LiveFlies, Live
  <2>3. DyingFlies(l) => DyingFlies(l)'
    BY <1>1, <2>1 DEF DyingFlies, Dying
  <2>4. GoneFlies(l) => GoneFlies(l)'
    BY <1>1, <2>1 DEF GoneFlies, Gone
  <2>5. Flying(l)' => Flying(l)
    BY <1>1 DEF Flying
  <2>6. hcache'[l] = hcache[l] /\ CacheAgrees(l) /\ WholeLife(l)
    BY <1>1, <1>4 DEF LagInv
  <2> QED
    BY <1>1, <2>2, <2>3, <2>4, <2>5, <2>6 DEF CacheAgrees, WholeLife
<1> QED
  BY <1>1, <1>2, <1>3, <1>4 DEF LagInv

\* Every step keeps LagInv.
LEMMA NextLag ==
  ASSUME MaxLag < 4, TypeInv, LagInv, [PodNext]_podVars
  PROVE  LagInv'
<1>1. CASE UNCHANGED podStore
  <2>1. hpods' = hpods /\ hcache' = hcache /\ hwatch' = hwatch
    BY <1>1 DEF podStore
  <2>2. \A k \in Keys : /\ LiveFlies(k)' <=> LiveFlies(k)
                        /\ DyingFlies(k)' <=> DyingFlies(k)
                        /\ GoneFlies(k)' <=> GoneFlies(k)
    BY <2>1 DEF LiveFlies, DyingFlies, GoneFlies, Live, Dying, Gone
  <2>3. \A k \in Keys : CacheAgrees(k)' <=> CacheAgrees(k)
    BY <2>1 DEF CacheAgrees
  <2>4. \A k \in Keys : WholeLife(k)' <=> WholeLife(k)
    BY <2>1, <2>2 DEF WholeLife, Flying
  <2>5. \A k \in Keys : \A i \in 1..Len(hwatch) :
          (EventAgrees(k, i)' <=> EventAgrees(k, i)) /\ (GoneIsLast(k, i)' <=> GoneIsLast(k, i))
    BY <2>1 DEF EventAgrees, GoneIsLast, Gone
  <2> QED
    BY <2>1, <2>3, <2>4, <2>5 DEF LagInv
<1>2. ASSUME NEW k \in Keys, NEW v \in HPods, Continues(k, v) \/ Creates(k, v)
      PROVE  LagInv'
  BY <1>2, PutLag DEF Continues, Creates, TypeInv
<1>3. CASE DeliverHost
  BY <1>3, DeliverLag DEF TypeInv
<1>4. CASE SyncCrash
  <2>1. hcache' = hpods' /\ hwatch' = <<>>
    BY <1>4 DEF SyncCrash
  <2>2. 1..Len(hwatch)' = {}
    BY <2>1, EmptySeq
  <2>3. \A k \in Keys : ~Flying(k)'
    BY <2>2 DEF Flying
  <2>4. \A k \in Keys : CacheAgrees(k)' /\ WholeLife(k)'
    BY <2>1, <2>3 DEF CacheAgrees, WholeLife
  <2> QED
    BY <2>2, <2>4 DEF LagInv
<1> QED
  BY <1>1, <1>2, <1>3, <1>4, StoreSteps

\* At first there are no host pods, and nothing is in flight.
LEMMA InitLag == PodInit => LagInv
<1> SUFFICES ASSUME PodInit PROVE LagInv
  OBVIOUS
<1>1. hcache = hpods /\ hwatch = <<>>
  BY DEF PodInit
<1>2. 1..Len(hwatch) = {}
  BY <1>1, EmptySeq
<1>3. \A k \in Keys : ~Flying(k)
  BY <1>2 DEF Flying
<1>4. \A k \in Keys : CacheAgrees(k) /\ WholeLife(k)
  BY <1>1, <1>3 DEF CacheAgrees, WholeLife
<1> QED
  BY <1>2, <1>4 DEF LagInv

\* ensureHostPod deletes a pod for its spec only if the one on the host has the
\* wrong one, although it compares the cached copy: by LagInv the cached pod and
\* the one on the host are the same as long as less than four events are in
\* flight, however many pods, nodes and disturbances there are.
THEOREM ReplacedOutdated ==
  ASSUME MaxLag < 4
  PROVE  PodSpec => ReplacesOnlyOutdated
<1> DEFINE Step == sw.pc = "ensure" /\ sw'.pc = "next" /\ hpods' # hpods /\ Survives(Source.spec)
                     => hpods[Key(sw.p)].spec # Stored(Target(Source.spec))
<1>1. PodInit => TypeInv /\ LagInv
  BY InitTypes, InitLag
<1>2. TypeInv /\ LagInv /\ [PodNext]_podVars => (TypeInv /\ LagInv)'
  BY NextTypes, NextLag
<1>3. ASSUME TypeInv, LagInv, [PodNext]_podVars,
             sw.pc = "ensure", sw'.pc = "next", hpods' # hpods, Survives(Source.spec)
      PROVE  hpods[Key(sw.p)].spec # Stored(Target(Source.spec))
  <2>1. SyncEnsure
    <3>1. sw' # sw
      BY <1>3
    <3>2. ~SyncFault /\ ~SyncCrash
      BY <1>3, IdleTypes DEF SyncFault, SyncDone, SyncCrash
    <3>3. SyncStep
      BY <1>3, <3>1, <3>2 DEF PodNext, podVars, HostStep, DeliverHost, HostProgress, HostKill,
         HostGone, Evict, hostFrame, UserStep, WriteConfig, CreatePod, EditPod, DeleteTenantPod,
         tenantFrame, LifeStep, PoolFails, ChangePool, Finalized, DeliverVPool, PoolStatusPatched,
         NodeDown, NodeUp, Deprovisioned, lifeFrame
    <3> QED
      BY <1>3, <3>3 DEF SyncStep, SyncSkip, SyncCleanupStart, SyncCleanup, SyncStart, SyncList,
         SyncNext, SyncStatus, SyncRemove, SyncOrphansStart, SyncOrphans
  <2> DEFINE k == Key(sw.p)
             spec == Target(Source.spec)
  <2>2. k \in Keys
    BY <1>3, SourceTypes
  <2>3. EnsureOutcome(k, spec) = "replace" /\ DeletePod(k)
    <3>1. \A w : w = [sw EXCEPT !.pc = "status"] => w.pc = "status"
      BY <1>3 DEF TypeInv, WorkTypes, Syncers
    <3> QED
      BY <1>3, <2>1, <3>1, IdleTypes DEF SyncEnsure, SyncDone, podStore
  <2>4. hpods[k].on
    BY <1>3, <2>3 DEF DeletePod, podStore
  <2>5. hcache[k].on /\ podToSpec(hcache[k].spec) # spec
    BY <2>3 DEF EnsureOutcome, podSpecsEqual
  <2>6. hcache[k].spec = hpods[k].spec
    BY <1>3, <2>2, <2>4, <2>5 DEF LagInv, CacheAgrees
  <2> QED
    BY <1>3, <2>5, <2>6 DEF Survives, podSpecsEqual
<1>4. TypeInv /\ LagInv /\ [PodNext]_podVars => [Step]_podVars
  BY <1>3
<1> QED
  BY <1>1, <1>2, <1>4, PTL DEF PodSpec, ReplacesOnlyOutdated
==============================================================================
