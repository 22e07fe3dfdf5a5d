-------------------------- MODULE PodTerminal_proofs --------------------------
(***************************************************************************)
(* A tenant pod that has ended stays as it ended.                          *)
(***************************************************************************)
EXTENDS PodExecution_proofs

\* The versions of host pod k that the cache, the events in flight and the host
\* show.
Versions(k) ==
  {hcache[k], hpods[k]} \cup {hwatch[i].v : i \in {j \in 1..Len(hwatch) : hwatch[j].k = k}}

\* UIDs: none is used before it is given, and a host pod or a listed pod of a
\* tenant pod's UID is on the tenant pod's node.
OwnInv ==
  \A p \in Pods :
    /\ tpods[p].on => tpods[p].inc <= born[p]
    /\ sw.src[p].on =>
         /\ sw.src[p].inc <= born[p]
         /\ tpods[p].on /\ sw.src[p].inc = tpods[p].inc => sw.src[p].node = tpods[p].node
    /\ \A n \in Nodes : \A h \in Versions(<<p, n>>) : h.on =>
         /\ h.inc <= born[p]
         /\ tpods[p].on /\ h.inc = tpods[p].inc => n = tpods[p].node

\* A pod that the pass has yet to report on is as it was listed, or new. Only a
\* pod that was listed as not ended is ensured.
Unreported(p) == p \in sw.todo \/ (sw.p = p /\ sw.pc \in {"ensure", "status"})
PassInv ==
  /\ \A p \in Pods : Unreported(p) /\ tpods[p].on =>
       IF sw.src[p].inc = tpods[p].inc THEN tpods[p].phase = sw.src[p].phase
       ELSE tpods[p].phase = "Pending"
  /\ sw.pc \in {"ensure", "status", "remove"} => sw.p \notin sw.todo
  /\ sw.pc = "ensure" => ~isTerminal(Source.phase)

\* A host pod that has ended stays so in all that is shown of it later.
EndedInv ==
  \A k \in Keys :
    /\ hcache[k].on /\ isTerminal(hcache[k].phase) =>
         \A h \in Versions(k) : h.on => h.phase = hcache[k].phase
    /\ \A i \in 1..Len(hwatch) :
         hwatch[i].k = k /\ hwatch[i].v.on /\ isTerminal(hwatch[i].v.phase) =>
           /\ hpods[k].on => hpods[k].phase = hwatch[i].v.phase
           /\ \A j \in 1..Len(hwatch) :
                i < j /\ hwatch[j].k = k /\ hwatch[j].v.on => hwatch[j].v.phase = hwatch[i].v.phase

\* All that is shown of the host pod of a tenant pod that has ended agrees with
\* it, if no other pod's status was ever written to it.
FinalInv ==
  \A p \in Pods, n \in Nodes :
    /\ tpods[p].on /\ tpods[p].node = n
    /\ isTerminal(tpods[p].phase) /\ tpods[p].inc \notin mixed[p]
    => \A h \in Versions(<<p, n>>) : h.on => h.phase = tpods[p].phase

-----------------------------------------------------------------------------
(* The versions of a host pod. *)

\* A write adds one version to those of its host pod.
LEMMA PutVersions ==
  ASSUME StoreTypes, NEW k \in Keys, NEW v \in HPods, HostPut(k, v), NEW l \in Keys
  PROVE  Versions(l)' \subseteq Versions(l) \cup (IF l = k THEN {v} ELSE {})
<1> DEFINE e == [k |-> k, v |-> v]
           n == Len(hwatch)
<1>1. /\ n \in Nat /\ hwatch' = Append(hwatch, e) /\ hcache' = hcache
      /\ hpods'[l] = IF l = k THEN v ELSE hpods[l]
  BY LenProperties DEF HostPut, StoreTypes
<1>2. /\ Len(hwatch') = n + 1 /\ hwatch'[n + 1] = e
      /\ \A i \in 1..n : hwatch'[i] = hwatch[i]
  BY <1>1, AppendProperties DEF StoreTypes
<1>3. e.k = k /\ e.v = v
  OBVIOUS
<1> HIDE DEF e
<1>4. ASSUME NEW i \in 1..Len(hwatch'), hwatch'[i].k = l
      PROVE  hwatch'[i].v \in Versions(l) \cup (IF l = k THEN {v} ELSE {})
  <2>1. CASE i = n + 1
    BY <1>2, <1>3, <1>4, <2>1
  <2>2. CASE i \in 1..n
    BY <1>2, <1>4, <2>2 DEF Versions
  <2> QED
    BY <1>1, <1>2, <2>1, <2>2
<1> QED
  BY <1>1, <1>4 DEF Versions

\* The informer and a restart add none.
LEMMA DeliverVersions ==
  ASSUME StoreTypes, DeliverHost \/ SyncCrash, NEW l \in Keys
  PROVE  Versions(l)' \subseteq Versions(l)
<1>1. CASE DeliverHost
  <2> DEFINE n == Len(hwatch)
             h == Head(hwatch)
  <2>1. hwatch \in Seq([k : Keys, v : HPods]) /\ hwatch # <<>>
    BY <1>1 DEF DeliverHost, StoreTypes
  <2>2. n \in Nat /\ n > 0 /\ h = hwatch[1]
    BY <2>1, LenProperties, EmptySeq
  <2>3. /\ Len(hwatch') = n - 1 /\ \A i \in 1..(n - 1) : hwatch'[i] = hwatch[i + 1]
    BY <1>1, <2>1, HeadTailProperties DEF DeliverHost
  <2>4. hpods' = hpods /\ hcache'[l] \in {hcache[l], h.v} /\ (l # h.k => hcache'[l] = hcache[l])
    BY <1>1 DEF DeliverHost, StoreTypes
  <2> HIDE DEF h
  <2>5. hcache'[l] \in Versions(l)
    BY <2>2, <2>4 DEF Versions
  <2>6. ASSUME NEW i \in 1..(n - 1), hwatch'[i].k = l PROVE hwatch'[i].v \in Versions(l)
    <3>1. i + 1 \in 1..n /\ hwatch'[i] = hwatch[i + 1]
      BY <2>2, <2>3
    <3> QED
      BY <2>6, <3>1 DEF Versions
  <2> QED
    BY <2>3, <2>4, <2>5, <2>6 DEF Versions
<1>2. CASE SyncCrash
  BY <1>2, EmptySeq DEF SyncCrash, Versions
<1> QED
  BY <1>1, <1>2

\* Where a version comes from: it was there, it continues what the host had, or
\* ensureHostPod has just created the pod.
LEMMA NewVersions ==
  ASSUME TypeInv, [PodNext]_podVars, NEW l \in Keys, NEW h \in Versions(l)', h.on
  PROVE  \/ h \in Versions(l)
         \/ hpods[l].on /\ Follows(hpods[l], h)
         \/ SyncEnsure /\ l = Key(sw.p) /\ h.inc = Source.inc
<1>1. CASE UNCHANGED podStore
  BY <1>1 DEF podStore, Versions
<1>2. ASSUME NEW k \in Keys, NEW v \in HPods, Continues(k, v)
      PROVE  h \in Versions(l) \/ (hpods[l].on /\ Follows(hpods[l], h))
  <2>1. h \in Versions(l) \cup (IF l = k THEN {v} ELSE {})
    BY <1>2, PutVersions DEF Continues, TypeInv
  <2>2. h \in Versions(l) \/ (l = k /\ h = v)
    BY <2>1
  <2> QED
    BY <1>2, <2>2, Zenon DEF Continues
<1>3. ASSUME NEW k \in Keys, NEW v \in HPods, Creates(k, v), SyncEnsure, k = Key(sw.p),
             v.inc = Source.inc
      PROVE  h \in Versions(l) \/ (SyncEnsure /\ l = Key(sw.p) /\ h.inc = Source.inc)
  <2>1. h \in Versions(l) \cup (IF l = k THEN {v} ELSE {})
    BY <1>3, PutVersions DEF Creates, TypeInv
  <2>2. h \in Versions(l) \/ (l = k /\ h = v)
    BY <2>1
  <2> QED
    BY <1>3, <2>2, Zenon
<1>4. CASE DeliverHost \/ SyncCrash
  BY <1>4, DeliverVersions DEF TypeInv
<1> QED
  BY <1>1, <1>2, <1>3, <1>4, StoreSteps

-----------------------------------------------------------------------------
(* What a step may do to a tenant pod and to the worker's list. *)

\* The tenant pod is the one it was and its phase is the same.
Same(p) ==
  /\ tpods[p].on /\ tpods'[p].inc = tpods[p].inc /\ tpods'[p].node = tpods[p].node
  /\ tpods'[p].phase = tpods[p].phase
  /\ mixed'[p] = mixed[p] /\ born'[p] = born[p]

\* The tenant pod is new.
Fresh(p) ==
  /\ tpods'[p].inc = born[p] + 1 /\ born'[p] = born[p] + 1 /\ tpods'[p].phase = "Pending"
  /\ UNCHANGED <<sw, podStore>>

\* updateTenantPodStatus has written the phase of the cached host pod.
Reported(p) ==
  /\ SyncStatus /\ p = sw.p /\ hcache[Key(p)].on /\ UNCHANGED podStore
  /\ tpods[p].on /\ tpods'[p].inc = tpods[p].inc /\ tpods'[p].node = tpods[p].node
  /\ tpods'[p].phase = hcache[Key(p)].phase
  /\ hcache[Key(p)].inc # tpods[p].inc => tpods[p].inc \in mixed'[p]
  /\ mixed[p] \subseteq mixed'[p] /\ born'[p] = born[p]

\* An update of one field of a tenant pod leaves the others alone.
LEMMA TPodFields ==
  ASSUME NEW t \in TPods, t.on
  PROVE  /\ \A ph : LET u == [t EXCEPT !.phase = ph]
                    IN  u.phase = ph /\ u.inc = t.inc /\ u.node = t.node
         /\ \A s : LET u == [t EXCEPT !.spec = s]
                   IN  u.phase = t.phase /\ u.inc = t.inc /\ u.node = t.node
         /\ \A d \in BOOLEAN : LET u == [t EXCEPT !.deleting = d]
                               IN  u.phase = t.phase /\ u.inc = t.inc /\ u.node = t.node
<1>1. t \in [on : {TRUE}, node : Nodes, spec : PodSpecs, phase : Phases,
             deleting : BOOLEAN, inc : 1..MaxInc]
  <2>1. ~NoTPod.on
    BY Zenon DEF NoTPod
  <2>2. t # NoTPod
    BY <2>1, Zenon
  <2> QED
    BY <2>2 DEF TPods
<1> QED
  BY <1>1

\* A tenant pod that exists after a step is one of the three.
LEMMA TenantSteps ==
  ASSUME TypeInv, [PodNext]_podVars, NEW p \in Pods, tpods'[p].on
  PROVE  Same(p) \/ Fresh(p) \/ Reported(p)
<1>0. tpods[p] \in TPods /\ ~NoTPod.on
  <2>1. ~NoTPod.on
    BY Zenon DEF NoTPod
  <2> QED
    BY <2>1 DEF TypeInv, TenantTypes
<1>1. CASE UNCHANGED <<tpods, born, mixed>>
  BY <1>1 DEF Same
<1>2. CASE UserStep
  <2> USE DEF TypeInv, TenantTypes
  <2>1. CASE WriteConfig
    BY <1>1, <2>1 DEF WriteConfig, tenantFrame, reports
  <2>2. ASSUME NEW q \in Pods, CreatePod(q) PROVE Same(p) \/ Fresh(p)
    <3>0. UNCHANGED <<mixed, sw, podStore>>
      BY <2>2 DEF CreatePod, tenantFrame, reports, hostSide
    <3>1. CASE q = p
      BY <2>2, <3>0, <3>1 DEF CreatePod, Fresh
    <3>2. CASE q # p
      BY <2>2, <3>0, <3>2 DEF CreatePod, Same
    <3> QED
      BY <3>1, <3>2
  <2>3. ASSUME NEW q \in Pods, EditPod(q) \/ DeleteTenantPod(q) PROVE Same(p)
    <3>0. UNCHANGED <<mixed, born>>
      BY <2>3 DEF EditPod, DeleteTenantPod, tenantFrame, reports
    <3>1. CASE q # p
      <4>1. tpods'[p] = tpods[p]
        BY <2>3, <3>1 DEF EditPod, DeleteTenantPod
      <4> QED
        BY <3>0, <4>1 DEF Same
    <3>2. CASE q = p /\ EditPod(q)
      <4>1. PICK s \in PodSpecs : tpods' = [tpods EXCEPT ![p].spec = s]
        BY <3>2 DEF EditPod
      <4>2. tpods[p].on /\ tpods'[p] = [tpods[p] EXCEPT !.spec = s]
        BY <3>2, <4>1 DEF EditPod
      <4> QED
        BY <1>0, <3>0, <4>2, TPodFields DEF Same
    <3>3. CASE q = p /\ DeleteTenantPod(q)
      <4>1. tpods[p].on /\ tpods'[p] \in {[tpods[p] EXCEPT !.deleting = TRUE], NoTPod}
        BY <3>3 DEF DeleteTenantPod
      <4>2. PICK d \in BOOLEAN : tpods'[p] = [tpods[p] EXCEPT !.deleting = d]
        BY <1>0, <4>1, Zenon
      <4> QED
        BY <1>0, <3>0, <4>1, <4>2, TPodFields DEF Same
    <3> QED
      BY <2>3, <3>1, <3>2, <3>3
  <2> QED
    BY <1>2, <2>1, <2>2, <2>3 DEF UserStep
<1>3. CASE SyncStatus
  <2> DEFINE h == hcache[Key(sw.p)]
  <2>1. sw.p \in Pods
    BY <1>3, SourceTypes DEF SyncStatus
  <2>2. UNCHANGED <<born, podStore>>
    BY <1>3 DEF SyncStatus, syncFrame
  <2>3. \/ UNCHANGED <<tpods, mixed>>
        \/ h.on /\ updateTenantPodStatus(sw.p, h)
    BY <1>3 DEF SyncStatus, reports
  <2>4. CASE h.on /\ updateTenantPodStatus(sw.p, h)
    <3>1. CASE p = sw.p
      <4>1. tpods[p].on /\ tpods'[p] = [tpods[p] EXCEPT !.phase = h.phase]
        BY <2>1, <2>4, <3>1 DEF updateTenantPodStatus, podToStatus, TypeInv, TenantTypes
      <4>2. mixed'[p] = IF h.inc = tpods[p].inc THEN mixed[p] ELSE mixed[p] \cup {tpods[p].inc}
        BY <2>1, <2>4, <3>1 DEF updateTenantPodStatus, TypeInv, TenantTypes
      <4> QED
        BY <1>0, <1>3, <2>2, <2>4, <3>1, <4>1, <4>2, TPodFields DEF Reported
    <3>2. CASE p # sw.p
      <4>1. tpods'[p] = tpods[p] /\ mixed'[p] = mixed[p]
        BY <2>1, <2>4, <3>2 DEF updateTenantPodStatus, TypeInv, TenantTypes
      <4> QED
        BY <2>2, <4>1 DEF Same
    <3> QED
      BY <3>1, <3>2
  <2> QED
    BY <1>1, <2>2, <2>3, <2>4
<1>4. CASE ~UserStep /\ ~SyncStatus
  <2>1. UNCHANGED <<tpods, born, mixed>>
    BY <1>4 DEF PodNext, podVars, SyncStep, SyncSkip, SyncCleanupStart, SyncCleanup, SyncStart,
       SyncList, SyncNext, SyncEnsure, SyncRemove, SyncOrphansStart, SyncOrphans, SyncFault,
       SyncCrash, syncFrame, HostStep, DeliverHost, HostProgress, HostKill, HostGone, Evict,
       hostFrame, LifeStep, PoolFails, ChangePool, Finalized, DeliverVPool, PoolStatusPatched,
       NodeDown, NodeUp, Deprovisioned, lifeFrame, tenantSide, reports
  <2> QED
    BY <1>1, <2>1
<1> QED
  BY <1>2, <1>3, <1>4

\* UIDs are never taken back.
LEMMA BornGrows ==
  ASSUME TypeInv, [PodNext]_podVars, NEW p \in Pods
  PROVE  born[p] \in Nat /\ born'[p] \in Nat /\ born[p] <= born'[p]
<1>0. born \in [Pods -> 0..MaxInc]
  BY DEF TypeInv, TenantTypes
<1>1. CASE \E q \in Pods : CreatePod(q)
  BY <1>0, <1>1, PodAssumption DEF CreatePod
<1>2. CASE ~\E q \in Pods : CreatePod(q)
  <2>1. born' = born
    BY <1>2 DEF PodNext, podVars, SyncStep, SyncSkip, SyncCleanupStart, SyncCleanup, SyncStart,
       SyncList, SyncNext, SyncEnsure, SyncStatus, SyncRemove, SyncOrphansStart, SyncOrphans,
       SyncFault, SyncCrash, syncFrame, HostStep, DeliverHost, HostProgress, HostKill, HostGone,
       Evict, hostFrame, UserStep, WriteConfig, EditPod, DeleteTenantPod, LifeStep, PoolFails,
       ChangePool, Finalized, DeliverVPool, PoolStatusPatched, NodeDown, NodeUp, Deprovisioned,
       lifeFrame, tenantSide
  <2> QED
    BY <1>0, <2>1, PodAssumption
<1> QED
  BY <1>1, <1>2

\* The steps in which the worker does not stand still.
LEMMA WorkerSteps ==
  ASSUME [PodNext]_podVars
  PROVE  UNCHANGED sw \/ SyncStep \/ sw' = IdleSync
BY DEF PodNext, podVars, SyncFault, SyncDone, SyncCrash, HostStep, DeliverHost, HostProgress,
   HostKill, HostGone, Evict, hostFrame, UserStep, WriteConfig, CreatePod, EditPod,
   DeleteTenantPod, tenantFrame, LifeStep, PoolFails, ChangePool, Finalized, DeliverVPool,
   PoolStatusPatched, NodeDown, NodeUp, Deprovisioned, lifeFrame

\* The worker has no list when it is idle.
LEMMA IdleList ==
  ASSUME NEW p \in Pods
  PROVE  ~IdleSync.src[p].on
<1>1. ~NoTPod.on
  BY Zenon DEF NoTPod
<1>2. IdleSync.src = [q \in Pods |-> NoTPod]
  BY DEF IdleSync
<1> QED
  BY <1>1, <1>2

\* What the worker has listed it has listed in this pass: SyncList takes the
\* tenant pods as they are, and no other step of a pass changes the list.
LEMMA ListSteps ==
  ASSUME TypeInv, [PodNext]_podVars, NEW p \in Pods, sw'.src[p].on
  PROVE  \/ sw'.src[p] = sw.src[p]
         \/ sw'.src[p] = tpods[p] /\ tpods[p].on /\ UNCHANGED tpods
<1>0. sw \in Syncers /\ IdleSync \in Syncers
  BY IdleTypes DEF TypeInv, WorkTypes
<1>1. CASE sw' = IdleSync
  BY <1>1, IdleList
<1>2. CASE SyncList
  <2>1. ~NoTPod.on
    BY Zenon DEF NoTPod
  <2>2. /\ sw'.src[p] = IF Listed(p, sw.seen) THEN tpods[p] ELSE NoTPod
        /\ UNCHANGED tpods
    BY <1>0, <1>2 DEF SyncList, Syncers
  <2> QED
    BY <2>1, <2>2 DEF Listed
<1>3. CASE SyncCleanupStart \/ SyncStart
  <2>1. sw'.src = IdleSync.src
    BY <1>0, <1>3 DEF SyncCleanupStart, SyncStart, Syncers
  <2> QED
    BY <2>1, IdleList
<1>4. CASE SyncStep /\ ~SyncList /\ ~SyncCleanupStart /\ ~SyncStart /\ sw' # IdleSync
  <2>1. sw'.src = sw.src
    BY <1>0, <1>4 DEF SyncStep, SyncSkip, SyncCleanup, SyncNext, SyncEnsure, SyncStatus,
       SyncRemove, SyncOrphansStart, SyncOrphans, SyncDone, NextPod, Syncers
  <2> QED
    BY <2>1
<1> QED
  BY <1>1, <1>2, <1>3, <1>4, WorkerSteps

-----------------------------------------------------------------------------
(* The invariants. *)

\* All versions of a host pod are well typed.
LEMMA VersionTypes ==
  ASSUME StoreTypes, NEW k \in Keys, NEW h \in Versions(k)
  PROVE  h \in HPods
<1>1. \A i \in 1..Len(hwatch) : hwatch[i] \in [k : Keys, v : HPods]
  BY LenProperties DEF StoreTypes
<1> QED
  BY <1>1 DEF Versions, StoreTypes

\* Every step keeps OwnInv: CreatePod gives a new UID, ensureHostPod makes a host
\* pod for the UID and on the node of the pod it has listed.
LEMMA NextOwn ==
  ASSUME TypeInv, OwnInv, [PodNext]_podVars
  PROVE  OwnInv'
<1> SUFFICES ASSUME NEW p \in Pods
             PROVE  /\ tpods'[p].on => tpods'[p].inc <= born'[p]
                    /\ sw'.src[p].on =>
                         /\ sw'.src[p].inc <= born'[p]
                         /\ tpods'[p].on /\ sw'.src[p].inc = tpods'[p].inc
                              => sw'.src[p].node = tpods'[p].node
                    /\ \A n \in Nodes : \A h \in Versions(<<p, n>>)' : h.on =>
                         /\ h.inc <= born'[p]
                         /\ tpods'[p].on /\ h.inc = tpods'[p].inc => n = tpods'[p].node
  BY DEF OwnInv
<1>0. born[p] \in Nat /\ born'[p] \in Nat /\ born[p] <= born'[p]
  BY BornGrows
<1>1. tpods'[p].on => tpods'[p].inc <= born'[p]
  BY <1>0, TenantSteps DEF OwnInv, Same, Fresh, Reported
<1>2. \A q \in Pods : /\ tpods[q] \in TPods /\ sw.src[q] \in TPods
                      /\ tpods[q].on => tpods[q].inc \in Nat
                      /\ sw.src[q].on => sw.src[q].inc \in Nat
  BY TPodTypes DEF TypeInv, TenantTypes, WorkTypes, Syncers
<1>3. ASSUME sw'.src[p].on
      PROVE  /\ sw'.src[p].inc <= born'[p]
             /\ tpods'[p].on /\ sw'.src[p].inc = tpods'[p].inc => sw'.src[p].node = tpods'[p].node
  <2>1. CASE sw'.src[p] = sw.src[p]
    <3>1. sw.src[p].inc <= born[p] /\ sw.src[p].inc \in Nat
      BY <1>2, <1>3, <2>1 DEF OwnInv
    <3> QED
      BY <1>0, <1>2, <1>3, <2>1, <3>1, TenantSteps DEF OwnInv, Same, Fresh, Reported
  <2>2. CASE sw'.src[p] = tpods[p] /\ tpods[p].on /\ UNCHANGED tpods
    BY <1>0, <1>2, <2>2 DEF OwnInv
  <2> QED
    BY <1>3, <2>1, <2>2, ListSteps
<1>4. ASSUME NEW n \in Nodes, NEW h \in Versions(<<p, n>>)', h.on
      PROVE  h.inc <= born'[p] /\ (tpods'[p].on /\ h.inc = tpods'[p].inc => n = tpods'[p].node)
  <2>0. <<p, n>> \in Keys
    BY DEF Keys
  <2>1. h.inc \in Nat /\ h.inc <= born[p] /\ (tpods[p].on /\ h.inc = tpods[p].inc => n = tpods[p].node)
    <3>1. CASE h \in Versions(<<p, n>>)
      <4>1. h \in HPods
        BY <2>0, <3>1, VersionTypes DEF TypeInv
      <4>2. h.inc \in Nat
        <5>1. h.inc \in 1..MaxInc
          BY <1>4, <4>1, HPodTypes, Zenon
        <5> QED
          BY <5>1, PodAssumption
      <4> QED
        BY <1>4, <3>1, <4>2 DEF OwnInv
    <3>2. CASE hpods[<<p, n>>].on /\ Follows(hpods[<<p, n>>], h)
      <4>1. hpods[<<p, n>>] \in Versions(<<p, n>>) /\ h.inc = hpods[<<p, n>>].inc
        BY <1>4, <3>2 DEF Versions, Follows
      <4>2. hpods[<<p, n>>] \in HPods
        BY <2>0 DEF TypeInv, StoreTypes
      <4>3. h.inc \in Nat
        <5>1. hpods[<<p, n>>].inc \in 1..MaxInc
          BY <3>2, <4>2, HPodTypes, Zenon
        <5> QED
          BY <4>1, <5>1, PodAssumption
      <4> QED
        BY <3>2, <4>1, <4>3 DEF OwnInv
    <3>3. CASE SyncEnsure /\ <<p, n>> = Key(sw.p) /\ h.inc = Source.inc
      <4>1. Source.on /\ <<p, n>> = <<sw.p, Source.node>>
        BY <3>3, SourceTypes DEF SyncEnsure
      <4>2. p = sw.p /\ n = Source.node
        BY <4>1
      <4> QED
        BY <1>2, <3>3, <4>1, <4>2 DEF OwnInv, Source
    <3> QED
      BY <1>4, <2>0, <3>1, <3>2, <3>3, NewVersions
  <2> QED
    BY <1>0, <2>1, TenantSteps DEF Same, Fresh, Reported
<1> QED
  BY <1>1, <1>3, <1>4

\* A pod the pass has yet to report on was so before the step, or is listed by it.
LEMMA UnreportedSteps ==
  ASSUME TypeInv, PassInv, SyncStep, NEW p \in Pods, Unreported(p)'
  PROVE  \/ Unreported(p) /\ sw'.src[p] = sw.src[p] /\ ~(SyncStatus /\ p = sw.p)
         \/ sw'.src[p] = tpods[p] /\ UNCHANGED tpods
<1>0. /\ sw \in Syncers /\ IdleSync \in Syncers
      /\ IdleSync.todo = {} /\ IdleSync.pc = "idle"
  BY IdleTypes DEF TypeInv, WorkTypes
<1> USE DEF Unreported, Syncers
<1>1. CASE SyncSkip \/ SyncCleanupStart \/ SyncStart \/ sw' = IdleSync
  BY <1>0, <1>1 DEF SyncSkip, SyncCleanupStart, SyncStart
<1>2. CASE SyncCleanup \/ SyncOrphans \/ SyncOrphansStart \/ SyncRemove
  BY <1>0, <1>2
  DEF SyncCleanup, SyncOrphans, SyncOrphansStart, SyncRemove, SyncDone, NextPod, SyncStatus
<1>3. CASE SyncList
  BY <1>0, <1>3 DEF SyncList
<1>4. CASE SyncNext
  <2>1. PICK q \in sw.todo : sw' = [sw EXCEPT !.pc = AfterResources(q), !.p = q, !.todo = @ \ {q}]
    BY <1>4 DEF SyncNext
  <2>2. sw.pc = "next"
    BY <1>4 DEF SyncNext
  <2> QED
    BY <1>0, <2>1, <2>2 DEF SyncStatus
<1>5. CASE SyncEnsure
  <2>1. /\ sw.pc = "ensure"
        /\ sw' = [sw EXCEPT !.pc = "status"] \/ sw' = NextPod(sw) \/ sw' = IdleSync
    BY <1>5 DEF SyncEnsure, SyncDone
  <2> QED
    BY <1>0, <2>1 DEF NextPod, SyncStatus
<1>6. CASE SyncStatus
  <2>1. /\ sw.pc = "status" /\ sw.p \notin sw.todo
        /\ sw' = [sw EXCEPT !.pc = "remove"] \/ sw' = NextPod(sw) \/ sw' = IdleSync
    BY <1>6 DEF SyncStatus, SyncDone, PassInv
  <2> QED
    BY <1>0, <2>1 DEF NextPod
<1> QED
  BY <1>1, <1>2, <1>3, <1>4, <1>5, <1>6 DEF SyncStep

\* Every step keeps PassInv: nobody but this worker writes a status, once per pod
\* and pass.
LEMMA NextPass ==
  ASSUME TypeInv, OwnInv, PassInv, [PodNext]_podVars
  PROVE  PassInv'
<1>0. /\ sw \in Syncers /\ IdleSync.todo = {} /\ IdleSync.pc = "idle"
      /\ IdleSync \in Syncers
  BY IdleTypes DEF TypeInv, WorkTypes
<1>1. ASSUME NEW p \in Pods, Unreported(p)', tpods'[p].on
      PROVE  IF sw'.src[p].inc = tpods'[p].inc THEN tpods'[p].phase = sw'.src[p].phase
             ELSE tpods'[p].phase = "Pending"
  <2>1. ASSUME Unreported(p), sw'.src[p] = sw.src[p], ~(SyncStatus /\ p = sw.p)
        PROVE  IF sw'.src[p].inc = tpods'[p].inc THEN tpods'[p].phase = sw'.src[p].phase
               ELSE tpods'[p].phase = "Pending"
    <3>1. CASE Same(p)
      BY <2>1, <3>1 DEF Same, PassInv
    <3>2. CASE Fresh(p)
      <4>1. sw.src[p].on /\ sw.src[p] \in TPods
        BY <2>1 DEF Unreported, TypeInv, WorkTypes, WorkInv, Syncers
      <4>2. sw.src[p].inc <= born[p] /\ sw.src[p].inc \in Nat /\ born[p] \in Nat
        BY <4>1, TPodTypes, BornGrows DEF OwnInv
      <4> QED
        BY <2>1, <3>2, <4>2 DEF Fresh
    <3> QED
      BY <1>1, <2>1, <3>1, <3>2, TenantSteps DEF Reported
  <2>2. ASSUME sw'.src[p] = tpods[p], UNCHANGED tpods
        PROVE  IF sw'.src[p].inc = tpods'[p].inc THEN tpods'[p].phase = sw'.src[p].phase
               ELSE tpods'[p].phase = "Pending"
    BY <2>2
  <2>3. CASE UNCHANGED sw
    <3>1. ~SyncStatus
      BY <1>0, <2>3, IdleTypes DEF SyncStatus, SyncDone, NextPod, Syncers
    <3> QED
      BY <1>1, <2>1, <2>3, <3>1 DEF Unreported
  <2>4. CASE sw' = IdleSync
    BY <1>0, <1>1, <2>4 DEF Unreported
  <2>5. CASE SyncStep
    BY <1>1, <2>1, <2>2, <2>5, UnreportedSteps
  <2> QED
    BY <2>3, <2>4, <2>5, WorkerSteps
<1>2. /\ sw'.pc \in {"ensure", "status", "remove"} => sw'.p \notin sw'.todo
      /\ sw'.pc = "ensure" => ~isTerminal(sw'.src[sw'.p].phase)
  <2>1. CASE UNCHANGED sw
    BY <2>1 DEF PassInv, Source
  <2>2. CASE sw' = IdleSync
    BY <1>0, <2>2
  <2>3. CASE SyncNext
    <3>1. PICK q \in sw.todo : sw' = [sw EXCEPT !.pc = AfterResources(q), !.p = q, !.todo = @ \ {q}]
      BY <2>3 DEF SyncNext
    <3> QED
      BY <1>0, <3>1 DEF AfterResources, Syncers
  <2>4. CASE SyncStep /\ ~SyncNext /\ sw' # IdleSync
    <3>1. \/ sw'.pc \notin {"ensure", "status", "remove"}
          \/ /\ sw.pc \in {"ensure", "status"} /\ sw'.pc \in {"status", "remove"}
             /\ sw'.p = sw.p /\ sw'.todo = sw.todo
      <4>1. CASE SyncEnsure
        <5>1. /\ sw.pc = "ensure"
              /\ sw' = [sw EXCEPT !.pc = "status"] \/ sw' = NextPod(sw)
          BY <2>4, <4>1 DEF SyncEnsure, SyncDone
        <5> QED
          BY <1>0, <5>1 DEF NextPod, Syncers
      <4>2. CASE SyncStatus
        <5>1. /\ sw.pc = "status"
              /\ sw' = [sw EXCEPT !.pc = "remove"] \/ sw' = NextPod(sw)
          BY <2>4, <4>2 DEF SyncStatus, SyncDone
        <5> QED
          BY <1>0, <5>1 DEF NextPod, Syncers
      <4>3. CASE SyncCleanup \/ SyncOrphans
        BY <1>0, <2>4, <4>3 DEF SyncCleanup, SyncOrphans, SyncDone, Syncers
      <4>4. CASE SyncSkip \/ SyncCleanupStart \/ SyncStart \/ SyncList \/ SyncRemove
                   \/ SyncOrphansStart
        BY <1>0, <2>4, <4>4 DEF SyncSkip, SyncCleanupStart, SyncStart, SyncList, SyncRemove,
           SyncOrphansStart, NextPod, Syncers
      <4> QED
        BY <2>4, <4>1, <4>2, <4>3, <4>4 DEF SyncStep
    <3> QED
      BY <3>1 DEF PassInv
  <2> QED
    BY <2>1, <2>2, <2>3, <2>4, WorkerSteps
<1> QED
  BY <1>1, <1>2 DEF PassInv, Source

\* A write of a version that may follow, and a creation, keep EndedInv.
LEMMA PutEnded ==
  ASSUME MaxLag < 4, StoreTypes, LagInv, EndedInv, NEW k \in Keys, NEW v \in HPods,
         Continues(k, v) \/ Creates(k, v)
  PROVE  EndedInv'
<1> DEFINE e == [k |-> k, v |-> v]
           n == Len(hwatch)
<1>0. HostPut(k, v)
  BY DEF Continues, Creates
<1>1. /\ n \in Nat /\ hwatch' = Append(hwatch, e) /\ hcache' = hcache
      /\ hpods'[k] = v /\ \A l \in Keys : l # k => hpods'[l] = hpods[l]
  BY <1>0, LenProperties DEF HostPut, StoreTypes
<1>2. /\ Len(hwatch') = n + 1 /\ hwatch'[n + 1] = e
      /\ \A i \in 1..n : hwatch'[i] = hwatch[i]
  BY <1>1, AppendProperties DEF StoreTypes
<1>3. e.k = k /\ e.v = v
  OBVIOUS
<1> HIDE DEF e
<1>4. \A l \in Keys : Versions(l)' \subseteq Versions(l) \cup (IF l = k THEN {v} ELSE {})
  BY <1>0, PutVersions
<1>5. Creates(k, v) => \A i \in 1..n : hwatch[i].k # k
  BY NothingFlies DEF Flying
<1>6. ASSUME NEW l \in Keys, hcache'[l].on, isTerminal(hcache'[l].phase),
             NEW h \in Versions(l)', h.on
      PROVE  h.phase = hcache'[l].phase
  <2>1. CASE h \in Versions(l)
    BY <1>1, <1>6, <2>1 DEF EndedInv
  <2>2. CASE l = k /\ h = v
    <3>1. hpods[k].on /\ Follows(hpods[k], v) /\ hpods[k] \in Versions(k)
      BY <1>1, <1>6, <2>2 DEF Creates, Continues, Versions
    <3>2. hpods[k].phase = hcache[k].phase
      BY <1>1, <1>6, <2>2, <3>1 DEF EndedInv
    <3> QED
      BY <1>1, <1>6, <2>2, <3>1, <3>2 DEF Follows
  <2> QED
    BY <1>4, <1>6, <2>1, <2>2
<1>7. ASSUME NEW l \in Keys, NEW i \in 1..(n + 1), hwatch'[i].k = l, hwatch'[i].v.on,
             isTerminal(hwatch'[i].v.phase)
      PROVE  /\ hpods'[l].on => hpods'[l].phase = hwatch'[i].v.phase
             /\ \A j \in 1..(n + 1) : i < j /\ hwatch'[j].k = l /\ hwatch'[j].v.on
                  => hwatch'[j].v.phase = hwatch'[i].v.phase
  <2>1. CASE i = n + 1
    BY <1>1, <1>2, <1>3, <1>7, <2>1
  <2>2. CASE i \in 1..n
    <3>1. hwatch'[i] = hwatch[i]
      BY <1>2, <2>2
    <3>2. hpods'[l].on => hpods'[l].phase = hwatch[i].v.phase
      <4>1. CASE l # k
        BY <1>1, <1>7, <2>2, <3>1, <4>1 DEF EndedInv
      <4>2. CASE l = k
        <5>1. hpods[k].on /\ Follows(hpods[k], v)
          BY <1>5, <1>7, <2>2, <3>1, <4>2 DEF Continues
        <5>2. hpods[k].phase = hwatch[i].v.phase
          BY <1>7, <2>2, <3>1, <4>2, <5>1 DEF EndedInv
        <5> QED
          BY <1>1, <1>7, <3>1, <4>2, <5>1, <5>2 DEF Follows
      <4> QED
        BY <4>1, <4>2
    <3>3. ASSUME NEW j \in 1..(n + 1), i < j, hwatch'[j].k = l, hwatch'[j].v.on
          PROVE  hwatch'[j].v.phase = hwatch[i].v.phase
      <4>1. CASE j \in 1..n
        BY <1>2, <1>7, <2>2, <3>1, <3>3, <4>1 DEF EndedInv
      <4>2. CASE j = n + 1
        BY <1>1, <1>2, <1>3, <3>2, <3>3, <4>2
      <4> QED
        BY <1>1, <4>1, <4>2
    <3> QED
      BY <3>1, <3>2, <3>3
  <2> QED
    BY <1>1, <2>1, <2>2
<1> QED
  BY <1>2, <1>6, <1>7 DEF EndedInv

\* The informer keeps EndedInv: what it shows was in flight before.
LEMMA DeliverEnded ==
  ASSUME StoreTypes, EndedInv, DeliverHost
  PROVE  EndedInv'
<1> DEFINE n == Len(hwatch)
           e == Head(hwatch)
<1>1. hwatch \in Seq([k : Keys, v : HPods]) /\ hwatch # <<>>
  BY DEF DeliverHost, StoreTypes
<1>2. n \in Nat /\ n > 0 /\ e = hwatch[1]
  BY <1>1, LenProperties, EmptySeq
<1>3. Len(hwatch') = n - 1 /\ \A i \in 1..(n - 1) : hwatch'[i] = hwatch[i + 1]
  BY <1>1, HeadTailProperties DEF DeliverHost
<1>4. /\ hpods' = hpods
      /\ \A l \in Keys : hcache'[l] = IF l = e.k THEN e.v ELSE hcache[l]
  BY DEF DeliverHost, StoreTypes
<1> HIDE DEF e
<1>5. \A i \in 1..(n - 1) : i + 1 \in 1..n /\ 1 < i + 1
  BY <1>2
<1>6. ASSUME NEW l \in Keys, hcache'[l].on, isTerminal(hcache'[l].phase),
             NEW h \in Versions(l)', h.on
      PROVE  h.phase = hcache'[l].phase
  <2>1. CASE l # e.k
    <3>1. h \in Versions(l)
      BY <1>6, DeliverVersions
    <3> QED
      BY <1>4, <1>6, <2>1, <3>1 DEF EndedInv
  <2>2. CASE l = e.k
    <3>1. hcache'[l] = hwatch[1].v /\ 1 \in 1..n /\ hwatch[1].k = l
      BY <1>2, <1>4, <2>2
    <3>2. \/ h = hcache'[l] \/ h = hpods[l]
          \/ \E i \in 1..(n - 1) : hwatch[i + 1].k = l /\ h = hwatch[i + 1].v
      BY <1>3, <1>4, <1>6 DEF Versions
    <3> QED
      BY <1>5, <1>6, <3>1, <3>2 DEF EndedInv
  <2> QED
    BY <2>1, <2>2
<1>7. ASSUME NEW l \in Keys, NEW i \in 1..(n - 1), hwatch'[i].k = l, hwatch'[i].v.on,
             isTerminal(hwatch'[i].v.phase)
      PROVE  /\ hpods'[l].on => hpods'[l].phase = hwatch'[i].v.phase
             /\ \A j \in 1..(n - 1) : i < j /\ hwatch'[j].k = l /\ hwatch'[j].v.on
                  => hwatch'[j].v.phase = hwatch'[i].v.phase
  <2>1. hwatch'[i] = hwatch[i + 1] /\ i + 1 \in 1..n
    BY <1>3, <1>5
  <2>2. \A j \in 1..(n - 1) :
          hwatch'[j] = hwatch[j + 1] /\ j + 1 \in 1..n /\ (i < j => i + 1 < j + 1)
    BY <1>3, <1>5
  <2> QED
    BY <1>4, <1>7, <2>1, <2>2 DEF EndedInv
<1> QED
  BY <1>3, <1>6, <1>7 DEF EndedInv

\* Every step keeps EndedInv.
LEMMA NextEnded ==
  ASSUME MaxLag < 4, TypeInv, LagInv, EndedInv, [PodNext]_podVars
  PROVE  EndedInv'
<1>1. CASE UNCHANGED podStore
  BY <1>1 DEF podStore, EndedInv, Versions
<1>2. ASSUME NEW k \in Keys, NEW v \in HPods, Continues(k, v) \/ Creates(k, v) PROVE EndedInv'
  BY <1>2, PutEnded DEF TypeInv
<1>3. CASE DeliverHost
  BY <1>3, DeliverEnded DEF TypeInv
<1>4. CASE SyncCrash
  BY <1>4, EmptySeq DEF SyncCrash, EndedInv, Versions
<1> QED
  BY <1>1, <1>2, <1>3, <1>4, StoreSteps

\* The pod at hand has not ended when the worker ensures its host pod, although
\* it may be another pod than the one listed.
LEMMA EnsuredNotEnded ==
  ASSUME TypeInv, PassInv, SyncEnsure, tpods[sw.p].on
  PROVE  sw.p \in Pods /\ ~isTerminal(tpods[sw.p].phase)
<1>1. sw.p \in Pods /\ sw.pc = "ensure"
  BY SourceTypes DEF SyncEnsure
<1> QED
  BY <1>1 DEF PassInv, Unreported, Source, isTerminal

\* What the worker reads when it reports on a pod is what is shown of the host
\* pod on the tenant pod's node, if it is of the tenant pod's UID.
LEMMA ReadsOwn ==
  ASSUME TypeInv, OwnInv, sw.pc = "status", tpods[sw.p].on,
         LET h == hcache[Key(sw.p)] IN h.on /\ h.inc = tpods[sw.p].inc
  PROVE  Key(sw.p) = <<sw.p, tpods[sw.p].node>>
<1>1. sw.p \in Pods /\ Key(sw.p) = <<sw.p, Source.node>> /\ Source.node \in Nodes
  BY SourceTypes, TPodTypes
<1>2. hcache[Key(sw.p)] \in Versions(Key(sw.p))
  BY DEF Versions
<1> QED
  BY <1>1, <1>2 DEF OwnInv

\* Every step keeps FinalInv.
LEMMA NextFinal ==
  ASSUME TypeInv, OwnInv, PassInv, EndedInv, FinalInv, [PodNext]_podVars
  PROVE  FinalInv'
<1> SUFFICES ASSUME NEW p \in Pods, NEW n \in Nodes,
                    tpods'[p].on, tpods'[p].node = n, isTerminal(tpods'[p].phase),
                    tpods'[p].inc \notin mixed'[p],
                    NEW h \in Versions(<<p, n>>)', h.on
             PROVE  h.phase = tpods'[p].phase
  BY DEF FinalInv
<1> DEFINE k == <<p, n>>
<1>0. k \in Keys
  BY DEF Keys
<1>1. CASE Same(p)
  <2>1. tpods[p].on
    BY <1>1 DEF Same
  <2>3. \A g \in Versions(k) : g.on => g.phase = tpods[p].phase
    BY <1>1 DEF Same, FinalInv
  <2>4. h \in Versions(k)' /\ tpods'[p].phase = tpods[p].phase /\ isTerminal(tpods[p].phase)
    BY <1>1 DEF Same
  <2>5. CASE h \in Versions(k)
    BY <2>3, <2>4, <2>5
  <2>6. CASE hpods[k].on /\ Follows(hpods[k], h)
    <3>1. hpods[k].phase = tpods[p].phase
      BY <2>3, <2>6 DEF Versions
    <3> QED
      BY <2>4, <2>6, <3>1 DEF Follows
  <2>7. CASE SyncEnsure /\ k = Key(sw.p)
    <3>1. p = sw.p
      BY <2>7, SourceTypes DEF SyncEnsure
    <3> QED
      BY <2>1, <2>4, <2>7, <3>1, EnsuredNotEnded
  <2> HIDE DEF k
  <2> QED
    BY <1>0, <2>4, <2>5, <2>6, <2>7, NewVersions
<1>2. CASE Fresh(p)
  BY <1>2 DEF Fresh, isTerminal
<1>3. CASE Reported(p)
  <2>1. /\ sw.pc = "status" /\ p = sw.p /\ hcache[Key(p)].on /\ UNCHANGED podStore
        /\ tpods[p].on /\ tpods[p].node = n
        /\ tpods'[p].phase = hcache[Key(p)].phase
        /\ hcache[Key(p)].inc = tpods[p].inc
    BY <1>3 DEF Reported, SyncStatus
  <2>2. Key(p) = k /\ Key(p) \in Keys
    BY <2>1, ReadsOwn, SourceTypes
  <2>3. h \in Versions(Key(p))
    <3>1. hpods' = hpods /\ hcache' = hcache /\ hwatch' = hwatch
      BY <2>1 DEF podStore
    <3>2. Versions(<<p, n>>)' = Versions(<<p, n>>)
      BY <3>1 DEF Versions
    <3> QED
      BY <2>2, <3>2
  <2> QED
    BY <2>1, <2>2, <2>3 DEF EndedInv
<1> QED
  BY <1>1, <1>2, <1>3, TenantSteps

\* No step changes the phase of a tenant pod that has ended.
LEMMA StaysEnded ==
  ASSUME TypeInv, OwnInv, PassInv, FinalInv, [PodNext]_podVars, NEW p \in Pods,
         tpods[p].on, tpods'[p].on, isTerminal(tpods[p].phase),
         tpods'[p].inc = tpods[p].inc, tpods[p].inc \notin mixed[p]
  PROVE  tpods'[p].phase = tpods[p].phase
<1>1. CASE Same(p)
  BY <1>1 DEF Same
<1>2. CASE Fresh(p)
  <2>1. tpods[p] \in TPods
    BY DEF TypeInv, TenantTypes
  <2>2. tpods[p].inc <= born[p] /\ tpods[p].inc \in Nat /\ born[p] \in Nat
    BY <2>1, TPodTypes, BornGrows DEF OwnInv
  <2> QED
    BY <1>2, <2>2 DEF Fresh
<1>3. CASE Reported(p)
  <2>1. /\ sw.pc = "status" /\ p = sw.p /\ hcache[Key(p)].on
        /\ tpods'[p].phase = hcache[Key(p)].phase
    BY <1>3 DEF Reported, SyncStatus
  <2>2. sw.src[p].inc = tpods[p].inc
    BY <2>1 DEF PassInv, Unreported, isTerminal
  <2>3. Key(p) = <<p, tpods[p].node>>
    BY <2>1, <2>2, SourceTypes DEF OwnInv, Source
  <2>4. hcache[Key(p)] \in Versions(<<p, tpods[p].node>>)
    BY <2>3 DEF Versions
  <2>5. tpods[p].node \in Nodes
    BY TPodTypes DEF TypeInv, TenantTypes
  <2> QED
    BY <2>1, <2>4, <2>5 DEF FinalInv
<1> QED
  BY <1>1, <1>2, <1>3, TenantSteps

\* All of this.
FinalPods == TypeInv /\ LagInv /\ OwnInv /\ PassInv /\ EndedInv /\ FinalInv

\* It holds at first, when there are no pods.
LEMMA InitFinalPods == PodInit => FinalPods
<1> SUFFICES ASSUME PodInit PROVE FinalPods
  OBVIOUS
<1>0. ~NoTPod.on /\ ~NoHPod.on
  BY Zenon DEF NoTPod, NoHPod
<1>1. TypeInv /\ LagInv
  BY InitTypes, InitLag
<1>2. /\ \A p \in Pods : ~tpods[p].on /\ ~sw.src[p].on
      /\ sw.pc = "idle" /\ sw.todo = {}
  BY <1>0, IdleTypes, IdleList DEF PodInit
<1>3. \A k \in Keys : \A h \in Versions(k) : ~h.on
  BY <1>0, EmptySeq DEF PodInit, Versions
<1>4. OwnInv
  BY <1>2, <1>3 DEF OwnInv, Keys
<1>5. PassInv /\ FinalInv
  BY <1>2 DEF PassInv, Unreported, FinalInv
<1>6. EndedInv
  BY <1>3, EmptySeq DEF PodInit, EndedInv, Versions
<1> QED
  BY <1>1, <1>4, <1>5, <1>6 DEF FinalPods

\* Every step keeps it.
LEMMA NextFinalPods ==
  ASSUME MaxLag < 4, FinalPods, [PodNext]_podVars
  PROVE  FinalPods'
BY NextTypes, NextLag, NextOwn, NextPass, NextEnded, NextFinal DEF FinalPods

\* A tenant pod that has ended stays as it ended, for every number of pods, nodes,
\* names reused, evictions, edits, outages, failed calls and restarts: unless it
\* was given another pod's status, and as long as less than four host pod events
\* are in flight.
THEOREM EndsOnce ==
  ASSUME MaxLag < 4
  PROVE  PodSpec => TerminalIsFinal
<1> DEFINE Step == \A p \in Pods :
                     /\ tpods[p].on /\ tpods'[p].on /\ isTerminal(tpods[p].phase)
                     /\ tpods'[p].inc = tpods[p].inc /\ tpods[p].inc \notin mixed[p]
                     => tpods'[p].phase = tpods[p].phase
<1>1. PodInit => FinalPods
  BY InitFinalPods
<1>2. FinalPods /\ [PodNext]_podVars => FinalPods'
  BY NextFinalPods
<1>3. FinalPods /\ [PodNext]_podVars => [Step]_podVars
  BY StaysEnded DEF FinalPods
<1> QED
  BY <1>1, <1>2, <1>3, PTL DEF PodSpec, TerminalIsFinal
==============================================================================
