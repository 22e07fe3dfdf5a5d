--------------------------- MODULE PoolStatus_proofs ---------------------------
(***************************************************************************)
(* PoolStatus for every set of VNodes, lag and number of disturbances: the *)
(* types, the phase Deleting, and the accuracy of the published counts.    *)
(***************************************************************************)
EXTENDS PoolStatus, FiniteSetTheorems, SequenceTheorems, TLAPS

-----------------------------------------------------------------------------
(* What the operators on a status return. *)

\* A count of VNodes is a natural number.
LEMMA CountType ==
  ASSUME NEW nodes
  PROVE  ReadyCount(nodes) \in Nat
<1>1. IsFiniteSet({n \in Nodes : nodes[n] = "Ready"})
  BY StatusAssumption, FS_Subset
<1> QED
  BY <1>1, FS_CardinalityType DEF ReadyCount

\* The pool's phase is Ready exactly when every VNode is: readyCount == NodeCount.
LEMMA AllReady ==
  ASSUME NEW nodes
  PROVE  (ReadyCount(nodes) = Cardinality(Nodes)) <=> (\A n \in Nodes : nodes[n] = "Ready")
<1> DEFINE Up == {n \in Nodes : nodes[n] = "Ready"}
<1>1. Up \subseteq Nodes /\ IsFiniteSet(Nodes)
  BY StatusAssumption
<1>2. Cardinality(Up) = Cardinality(Nodes) => Up = Nodes
  BY <1>1, FS_Subset
<1>3. Up = Nodes <=> \A n \in Nodes : nodes[n] = "Ready"
  OBVIOUS
<1> HIDE DEF Up
<1>4. ReadyCount(nodes) = Cardinality(Up)
  BY DEF ReadyCount, Up
<1> QED
  BY <1>2, <1>3, <1>4

\* updateExecutionConditions touches the conditions only.
LEMMA SyncMutates ==
  ASSUME NEW w \in Workers, NEW st \in Statuses, w.reason \in ExecReasons
  PROVE  /\ SyncMutate(w, st) \in Statuses
         /\ Own(SyncMutate(w, st)) = Own(st)
         /\ SyncMutate(w, st).phase = st.phase
         /\ SyncMutate(w, st).readyNodes = st.readyNodes
         /\ SyncMutate(w, st).totalNodes = st.totalNodes
<1> DEFINE c == [st.conditions EXCEPT !.PodExecutionReady = w.reason, !.Degraded = w.reason]
<1>1. st.conditions \in Conditions
  BY DEF Statuses
<1>2. c \in Conditions
  BY <1>1 DEF Conditions
<1> HIDE DEF c
<1>3. SyncMutate(w, st) = [st EXCEPT !.conditions = c]
  BY DEF SyncMutate, c
<1> QED
  BY <1>2, <1>3 DEF Statuses, Own

\* What updatePoolStatus makes of phase and counts.
LEMMA PoolMutates ==
  ASSUME NEW w \in Workers, NEW st \in Statuses, w.reason \in PoolReasons
  PROVE  /\ PoolMutate(w, st) \in Statuses
         /\ PoolMutate(w, st).phase = PublishedPhase(w)
         /\ (PublishedPhase(w) = "Deleting") <=> (w.reason = "Deleting")
         /\ Succeeded(w) => /\ PoolMutate(w, st).phase = ResultPhase(w.ready)
                            /\ PoolMutate(w, st).readyNodes = w.ready
<1> DEFINE r == [reason |-> w.reason, ready |-> w.ready]
           c == [st.conditions EXCEPT !.Ready = r, !.Degraded = w.reason]
<1>0. /\ w.ready \in Nat /\ st.conditions \in Conditions
      /\ st.readyNodes \in Nat /\ st.totalNodes \in Nat
  BY DEF Statuses, Workers
<1>1. c \in Conditions
  BY <1>0 DEF Conditions
<1>2. Cardinality(Nodes) \in Nat
  BY StatusAssumption, FS_CardinalityType
<1>3. /\ PublishedPhase(w) \in Phases
      /\ (PublishedPhase(w) = "Deleting") <=> (w.reason = "Deleting")
      /\ Succeeded(w) => PublishedPhase(w) = ResultPhase(w.ready)
  BY DEF PublishedPhase, Succeeded, ResultPhase, Phases, PoolReasons
<1> HIDE DEF c
<1>4. PoolMutate(w, st) =
        [phase |-> PublishedPhase(w),
         readyNodes |-> IF Succeeded(w) THEN w.ready ELSE st.readyNodes,
         totalNodes |-> IF Succeeded(w) THEN Cardinality(Nodes) ELSE st.totalNodes,
         conditions |-> c]
  BY DEF PoolMutate, c
<1> QED
  BY <1>0, <1>1, <1>2, <1>3, <1>4 DEF Statuses

\* A merge patch: fields that do not differ from base are left alone, and the
\* outcome is the new status if base was the old one.
LEMMA Merges ==
  ASSUME NEW old \in Statuses, NEW base \in Statuses, NEW new \in Statuses
  PROVE  /\ Merge(old, base, new) \in Statuses
         /\ Own(new) = Own(base) => Own(Merge(old, base, new)) = Own(old)
         /\ Own(base) = Own(old) => Own(Merge(old, base, new)) = Own(new)
         /\ Merge(old, base, new).phase \in {old.phase, new.phase}
         /\ Merge(old, base, new).phase = old.phase => new.phase \in {base.phase, old.phase}
BY DEF Merge, Statuses, Own

-----------------------------------------------------------------------------
(* Types. *)

\* A worker that has something to publish has a reason of its controller.
ReasonsInv ==
  /\ pw.pc # "idle" => pw.reason \in PoolReasons
  /\ sw.pc # "idle" => sw.reason \in ExecReasons
TypeInv == StatusTypeOK /\ ReasonsInv

\* A write keeps the pool and its versions well typed and the cache as it is.
LEMMA WriteType ==
  ASSUME NEW new \in Pools, pool \in Pools, poolCache \in Pools, lag \in Seq(Pools), Write(new)
  PROVE  pool' = new /\ poolCache' = poolCache /\ lag' \in Seq(Pools)
BY DEF Write, poolVars

\* A patch of well typed statuses is such a write.
LEMMA PatchType ==
  ASSUME NEW base \in Statuses, NEW new \in Statuses, StatusTypeOK, Patch(base, new)
  PROVE  /\ pool' = [pool EXCEPT !.status = Merge(pool.status, base, new)]
         /\ pool' \in Pools /\ pool'.status = Merge(pool.status, base, new)
         /\ pool'.valid = pool.valid /\ pool'.deleting = pool.deleting
         /\ poolCache' = poolCache /\ lag' \in Seq(Pools)
<1> DEFINE m == Merge(pool.status, base, new)
           p == [pool EXCEPT !.status = m]
<1>1. pool \in Pools /\ poolCache \in Pools /\ lag \in Seq(Pools) /\ pool.status \in Statuses
  BY DEF StatusTypeOK, Pools
<1>2. m \in Statuses
  BY <1>1, Merges
<1>3. Write(p)
  BY DEF Patch
<1> HIDE DEF m
<1>4. p \in Pools /\ p.status = m /\ p.valid = pool.valid /\ p.deleting = pool.deleting
  BY <1>1, <1>2 DEF Pools
<1> HIDE DEF p
<1>5. pool' = p /\ poolCache' = poolCache /\ lag' \in Seq(Pools)
  BY <1>1, <1>3, <1>4, WriteType
<1> QED
  BY <1>4, <1>5 DEF m, p

\* The idle worker is well typed.
LEMMA WorkerTypes == NewStatus \in Statuses /\ Idle \in Workers /\ Idle.pc = "idle"
<1>1. NewStatus \in Statuses
  <2> DEFINE r == [reason |-> "", ready |-> 0]
             c == [Ready |-> r, Degraded |-> "", PodExecutionReady |-> ""]
  <2>1. r \in [reason : PoolReasons \cup {""}, ready : Nat]
    OBVIOUS
  <2> HIDE DEF r
  <2>2. c \in Conditions
    BY <2>1 DEF Conditions
  <2> HIDE DEF c
  <2>3. NewStatus = [phase |-> "", readyNodes |-> 0, totalNodes |-> 0, conditions |-> c]
    BY DEF NewStatus, c, r
  <2> QED
    BY <2>2, <2>3 DEF Statuses, Phases
<1>2. Idle \in Workers /\ Idle.pc = "idle"
  BY <1>1 DEF Idle, Workers
<1> QED
  BY <1>1, <1>2

\* A pool pass that has something to publish.
LEMMA Publishes ==
  ASSUME NEW r \in PoolReasons, NEW k \in Nat, PoolPublishing(r, k)
  PROVE  pw' \in Workers /\ pw'.pc = "get" /\ pw'.reason = r /\ pw'.ready = k
BY WorkerTypes DEF PoolPublishing, Workers

\* Spending keeps the budget well typed.
LEMMA SpendType ==
  ASSUME NEW kind \in {"node", "scale", "edit", "delete", "exec", "host"},
         budget \in Budgets, Spend(kind)
  PROVE  budget' \in Budgets
BY DEF Spend, Budgets

\* The first state is well typed.
LEMMA TypeInit == Init => TypeInv
<1> SUFFICES ASSUME Init PROVE TypeInv
  OBVIOUS
<1>1. pool \in Pools /\ poolCache \in Pools
  BY WorkerTypes DEF Init, Pools
<1>2. phase \in [Nodes -> {"", "Ready", "NotReady"}] /\ seen = phase
  BY DEF Init
<1>5. lag \in Seq(Pools)
  BY EmptySeq DEF Init
<1>3. pw = Idle /\ sw = Idle /\ pq \in BOOLEAN /\ sq \in BOOLEAN /\ stale \in BOOLEAN
  BY DEF Init
<1>4. budget \in Budgets
  BY StatusAssumption DEF Init
<1> QED
  BY <1>1, <1>2, <1>3, <1>4, <1>5, WorkerTypes DEF TypeInv, StatusTypeOK, ReasonsInv

\* Every step of users, informers and both controllers keeps the types.
LEMMA TypeNext ==
  ASSUME TypeInv, [Next]_vars
  PROVE  TypeInv'
<1>0. /\ pool \in Pools /\ poolCache \in Pools /\ lag \in Seq(Pools)
      /\ phase \in [Nodes -> {"", "Ready", "NotReady"}]
      /\ seen \in [Nodes -> {"", "Ready", "NotReady"}]
      /\ pq \in BOOLEAN /\ sq \in BOOLEAN /\ stale \in BOOLEAN
      /\ pw \in Workers /\ sw \in Workers
      /\ budget \in Budgets
      /\ ReasonsInv /\ StatusTypeOK
  BY DEF TypeInv, StatusTypeOK
<1>a. poolCache.status \in Statuses /\ pool.status \in Statuses
  BY <1>0 DEF Pools
<1>1. CASE UNCHANGED vars
  BY <1>0, <1>1 DEF vars, poolVars, nodeVars, TypeInv, StatusTypeOK, ReasonsInv
<1>2. CASE EditSpec
  <2>1. [pool EXCEPT !.valid = ~pool.valid] \in Pools
    BY <1>0 DEF Pools
  <2>2. pool' \in Pools /\ poolCache' = poolCache /\ lag' \in Seq(Pools)
    BY <1>0, <1>2, <2>1, WriteType DEF EditSpec
  <2> QED
    BY <1>0, <1>2, <2>2, SpendType DEF EditSpec, TypeInv, StatusTypeOK, ReasonsInv, nodeVars
<1>3. CASE DeletePool
  <2>1. [pool EXCEPT !.deleting = TRUE] \in Pools
    BY <1>0 DEF Pools
  <2>2. pool' \in Pools /\ poolCache' = poolCache /\ lag' \in Seq(Pools)
    BY <1>0, <1>3, <2>1, WriteType DEF DeletePool
  <2> QED
    BY <1>0, <1>3, <2>2, SpendType DEF DeletePool, TypeInv, StatusTypeOK, ReasonsInv, nodeVars
<1>4. ASSUME NEW n \in Nodes, UpdateStatus(n) PROVE TypeInv'
  BY <1>0, <1>4, SpendType DEF UpdateStatus, TypeInv, StatusTypeOK, ReasonsInv, poolVars
<1>5. ASSUME NEW n \in Nodes, DeliverVNode(n) PROVE TypeInv'
  BY <1>0, <1>5 DEF DeliverVNode, TypeInv, StatusTypeOK, ReasonsInv, poolVars
<1>6. CASE DeliverPool
  <2>1. poolCache' \in Pools /\ lag' \in Seq(Pools)
    <3>1. lag # <<>> /\ poolCache' = Head(lag) /\ lag' = Tail(lag)
      BY <1>6 DEF DeliverPool
    <3> QED
      BY <1>0, <3>1, HeadTailProperties
  <2> QED
    BY <1>0, <1>6, <2>1 DEF DeliverPool, TypeInv, StatusTypeOK, ReasonsInv, nodeVars
<1>7. CASE PoolBeginOther
  <2>1. pw' \in Workers /\ pw'.reason \in PoolReasons
    BY <1>7, Publishes DEF PoolBeginOther, PoolReasons
  <2> QED
    BY <1>0, <1>7, <2>1 DEF PoolBeginOther, TypeInv, StatusTypeOK, ReasonsInv, poolFrame, poolVars, nodeVars
<1>8. CASE PoolBegin
  <2> DEFINE k == ReadyCount([n \in Nodes |-> IF n \in Missing THEN "Ready" ELSE seen[n]])
  <2>1. k \in Nat
    BY CountType
  <2>2. PhaseReason(ResultPhase(k)) \in PoolReasons
    BY DEF PhaseReason, ResultPhase, PoolReasons
  <2>3. PoolPublishing(PhaseReason(ResultPhase(k)), k)
    BY <1>8 DEF PoolBegin
  <2> HIDE DEF k
  <2>4. pw' \in Workers /\ pw'.reason \in PoolReasons
    BY <2>1, <2>2, <2>3, Publishes
  <2>5. phase' \in [Nodes -> {"", "Ready", "NotReady"}]
    BY <1>0, <1>8 DEF PoolBegin
  <2> QED
    BY <1>0, <1>8, <2>4, <2>5 DEF PoolBegin, TypeInv, StatusTypeOK, ReasonsInv, poolFrame, poolVars
<1>9. CASE PoolBeginFails
  <2>1. pw' \in Workers /\ pw'.reason \in PoolReasons
    BY <1>9, Publishes DEF PoolBeginFails, PoolReasons
  <2>2. phase' \in [Nodes -> {"", "Ready", "NotReady"}] /\ budget' \in Budgets
    BY <1>0, <1>9, SpendType DEF PoolBeginFails
  <2> QED
    BY <1>0, <1>9, <2>1, <2>2 DEF PoolBeginFails, TypeInv, StatusTypeOK, ReasonsInv, poolFrame, poolVars
<1>10. CASE PoolGet
  <2>1. pw' \in Workers /\ pw'.reason = pw.reason
    BY <1>0, <1>a, <1>10 DEF PoolGet, Workers
  <2> QED
    BY <1>0, <1>10, <2>1 DEF PoolGet, TypeInv, StatusTypeOK, ReasonsInv, poolFrame, poolVars, nodeVars
<1>11. CASE PoolPatch
  <2>1. pw.base \in Statuses /\ pw.reason \in PoolReasons
    BY <1>0, <1>11 DEF PoolPatch, Workers, ReasonsInv
  <2>2. PoolMutate(pw, pw.base) \in Statuses
    BY <1>0, <2>1, PoolMutates
  <2>3. pool' \in Pools /\ poolCache' = poolCache /\ lag' \in Seq(Pools)
    BY <1>0, <1>11, <2>1, <2>2, PatchType DEF PoolPatch
  <2> QED
    BY <1>0, <1>11, <2>3, WorkerTypes DEF PoolPatch, TypeInv, StatusTypeOK, ReasonsInv, poolFrame, nodeVars
<1>12. CASE PoolPatchFails
  BY <1>0, <1>12, WorkerTypes, SpendType
     DEF PoolPatchFails, TypeInv, StatusTypeOK, ReasonsInv, poolFrame, poolVars, nodeVars
<1>13. CASE SyncSkip
  BY <1>0, <1>13 DEF SyncSkip, TypeInv, StatusTypeOK, ReasonsInv, syncFrame, poolVars, nodeVars, Pools
<1>14. CASE SyncBegin
  <2>1. sw' \in Workers /\ (sw'.pc # "idle" => sw'.reason \in ExecReasons) /\ budget' \in Budgets
    <3>1. \A r \in ExecReasons : LET w == [Idle EXCEPT !.pc = "get", !.reason = r]
                                 IN  w \in Workers /\ w.reason = r
      BY WorkerTypes DEF Workers
    <3> QED
      BY <1>0, <1>14, <3>1, SpendType DEF SyncBegin, ExecReasons
  <2> QED
    BY <1>0, <1>14, <2>1 DEF SyncBegin, TypeInv, StatusTypeOK, ReasonsInv, syncFrame, poolVars, nodeVars
<1>15. CASE SyncGet
  <2>1. sw' \in Workers /\ sw'.reason = sw.reason
    BY <1>0, <1>a, <1>15 DEF SyncGet, Workers
  <2> QED
    BY <1>0, <1>15, <2>1 DEF SyncGet, TypeInv, StatusTypeOK, ReasonsInv, syncFrame, poolVars, nodeVars
<1>16. CASE SyncPatch
  <2>1. sw.base \in Statuses /\ sw.reason \in ExecReasons
    BY <1>0, <1>16 DEF SyncPatch, Workers, ReasonsInv
  <2>2. SyncMutate(sw, sw.base) \in Statuses
    BY <1>0, <2>1, SyncMutates
  <2>3. /\ pool' \in Pools /\ poolCache' = poolCache /\ lag' \in Seq(Pools)
        /\ budget' \in Budgets
    BY <1>0, <1>16, <2>1, <2>2, PatchType, SpendType DEF SyncPatch, poolVars
  <2> QED
    BY <1>0, <1>16, <2>3, WorkerTypes DEF SyncPatch, TypeInv, StatusTypeOK, ReasonsInv, syncFrame, nodeVars
<1> QED
  BY <1>1, <1>2, <1>3, <1>4, <1>5, <1>6, <1>7, <1>8, <1>9, <1>10, <1>11, <1>12, <1>13,
     <1>14, <1>15, <1>16 DEF Next, PoolStep, SyncStep

\* The published status and the workers always have the values the API allows.
THEOREM StatusTypes == Spec => []StatusTypeOK
<1>1. TypeInv => StatusTypeOK
  BY DEF TypeInv
<1> QED
  BY <1>1, TypeInit, TypeNext, PTL DEF Spec

-----------------------------------------------------------------------------
(* The cache, and the phase Deleting. *)

\* Only the pool controller's patch changes phase and counts.
LEMMA OwnStays ==
  ASSUME TypeInv, [Next]_vars, ~PoolPatch
  PROVE  Own(pool'.status) = Own(pool.status)
<1>0. pool \in Pools /\ poolCache \in Pools /\ lag \in Seq(Pools) /\ StatusTypeOK
  BY DEF TypeInv, StatusTypeOK
<1>1. CASE UNCHANGED pool
  BY <1>1
<1>2. CASE EditSpec
  <2>1. [pool EXCEPT !.valid = ~pool.valid] \in Pools
    BY <1>0 DEF Pools
  <2>2. pool' = [pool EXCEPT !.valid = ~pool.valid]
    BY <1>0, <1>2, <2>1, WriteType DEF EditSpec
  <2> QED
    BY <1>0, <2>2 DEF Pools
<1>3. CASE DeletePool
  <2>1. [pool EXCEPT !.deleting = TRUE] \in Pools
    BY <1>0 DEF Pools
  <2>2. pool' = [pool EXCEPT !.deleting = TRUE]
    BY <1>0, <1>3, <2>1, WriteType DEF DeletePool
  <2> QED
    BY <1>0, <2>2 DEF Pools
<1>4. CASE SyncPatch /\ pool' # pool
  <2>1. sw \in Workers /\ sw.base \in Statuses /\ sw.reason \in ExecReasons
    BY <1>4 DEF SyncPatch, Workers, TypeInv, StatusTypeOK, ReasonsInv
  <2>2. SyncMutate(sw, sw.base) \in Statuses /\ Own(SyncMutate(sw, sw.base)) = Own(sw.base)
    BY <2>1, SyncMutates
  <2>3. Patch(sw.base, SyncMutate(sw, sw.base))
    BY <1>4 DEF SyncPatch, poolVars
  <2>4. pool'.status = Merge(pool.status, sw.base, SyncMutate(sw, sw.base))
    BY <1>0, <2>1, <2>2, <2>3, PatchType
  <2>5. pool.status \in Statuses
    BY <1>0 DEF Pools
  <2> QED
    BY <2>1, <2>2, <2>4, <2>5, Merges
<1>5. \/ UNCHANGED pool \/ EditSpec \/ DeletePool \/ SyncPatch
  BY DEF Next, PoolStep, SyncStep, PoolBeginOther, PoolBegin, PoolBeginFails, PoolGet,
     PoolPatchFails, SyncSkip, SyncBegin, SyncGet, DeliverPool, DeliverVNode, UpdateStatus,
     vars, poolVars
<1> QED
  BY <1>1, <1>2, <1>3, <1>4, <1>5

\* The cache holds a version of the pool that the later ones follow, the last of
\* them being the pool; a version that is being deleted is followed by such only.
LagInv ==
  /\ pool = IF lag = <<>> THEN poolCache ELSE lag[Len(lag)]
  /\ poolCache.deleting => \A i \in 1..Len(lag) : lag[i].deleting
  /\ \A i, j \in 1..Len(lag) : i <= j /\ lag[i].deleting => lag[j].deleting

\* What the cache knows of the deletion is true.
LEMMA CacheBehind ==
  ASSUME TypeInv, LagInv
  PROVE  /\ poolCache.deleting => pool.deleting
         /\ \A i \in 1..Len(lag) : lag[i].deleting => pool.deleting
<1>0. lag \in Seq(Pools)
  BY DEF TypeInv, StatusTypeOK
<1>1. lag \in Seq(Pools) /\ Len(lag) \in Nat
  BY <1>0, LenProperties
<1>2. CASE lag = <<>>
  BY <1>1, <1>2 DEF LagInv
<1>3. CASE lag # <<>>
  <2>1. Len(lag) \in 1..Len(lag) /\ pool = lag[Len(lag)]
    BY <1>1, <1>3, EmptySeq DEF LagInv
  <2> QED
    BY <1>1, <2>1 DEF LagInv
<1> QED
  BY <1>2, <1>3

\* A write that does not take the deletion back keeps the order of the versions.
LEMMA LagWrite ==
  ASSUME NEW new \in Pools, TypeInv, LagInv, Write(new), pool.deleting => new.deleting
  PROVE  LagInv'
<1>0. lag \in Seq(Pools)
  BY DEF TypeInv, StatusTypeOK
<1>1. lag \in Seq(Pools) /\ Len(lag) \in Nat
  BY <1>0, LenProperties
<1>2. CASE new = pool
  BY <1>2 DEF Write, poolVars, LagInv
<1>3. CASE new # pool
  <2>1. pool' = new /\ lag' = Append(lag, new) /\ poolCache' = poolCache
    BY <1>3 DEF Write
  <2>2. /\ lag' # <<>> /\ Len(lag') = Len(lag) + 1 /\ lag'[Len(lag')] = new
        /\ \A i \in 1..Len(lag) : lag'[i] = lag[i]
    BY <1>1, <2>1, AppendProperties
  <2>3. \A i \in 1..Len(lag') : i \in 1..Len(lag) \/ i = Len(lag')
    BY <1>1, <2>2
  <2>4. poolCache'.deleting => \A i \in 1..Len(lag') : lag'[i].deleting
    BY <2>1, <2>2, <2>3, CacheBehind DEF LagInv
  <2>5. ASSUME NEW i \in 1..Len(lag'), NEW j \in 1..Len(lag'), i <= j, lag'[i].deleting
        PROVE  lag'[j].deleting
    <3>1. CASE j = Len(lag')
      BY <2>2, <2>3, <2>5, <3>1, CacheBehind
    <3>2. CASE j # Len(lag')
      <4>1. i \in 1..Len(lag) /\ j \in 1..Len(lag)
        BY <1>1, <2>2, <2>5, <3>2
      <4> QED
        BY <2>2, <2>5, <4>1 DEF LagInv
    <3> QED
      BY <3>1, <3>2
  <2> QED
    BY <2>1, <2>2, <2>4, <2>5 DEF LagInv
<1> QED
  BY <1>2, <1>3

\* The order of the versions is kept by every step.
LEMMA LagNext ==
  ASSUME TypeInv, LagInv, [Next]_vars
  PROVE  LagInv'
<1>a. pool \in Pools /\ poolCache \in Pools /\ lag \in Seq(Pools) /\ StatusTypeOK
  BY DEF TypeInv, StatusTypeOK
<1>0. /\ pool \in Pools /\ poolCache \in Pools /\ lag \in Seq(Pools) /\ StatusTypeOK
      /\ Len(lag) \in Nat
  BY <1>a, LenProperties
<1>1. CASE UNCHANGED poolVars
  BY <1>1 DEF poolVars, LagInv
<1>2. CASE EditSpec
  <2>1. [pool EXCEPT !.valid = ~pool.valid] \in Pools
        /\ [pool EXCEPT !.valid = ~pool.valid].deleting = pool.deleting
    BY <1>0 DEF Pools
  <2> QED
    BY <1>2, <2>1, LagWrite DEF EditSpec
<1>3. CASE DeletePool
  <2>1. [pool EXCEPT !.deleting = TRUE] \in Pools /\ [pool EXCEPT !.deleting = TRUE].deleting
    BY <1>0 DEF Pools
  <2> QED
    BY <1>3, <2>1, LagWrite DEF DeletePool
<1>4. ASSUME NEW base \in Statuses, NEW new \in Statuses, Patch(base, new)
      PROVE  LagInv'
  <2>1. Merge(pool.status, base, new) \in Statuses
    BY <1>0, Merges DEF Pools
  <2> DEFINE p == [pool EXCEPT !.status = Merge(pool.status, base, new)]
  <2>2. p \in Pools /\ p.deleting = pool.deleting
    BY <1>0, <2>1 DEF Pools
  <2>3. Write(p)
    BY <1>4 DEF Patch
  <2> HIDE DEF p
  <2> QED
    BY <2>2, <2>3, LagWrite
<1>5. CASE PoolPatch
  <2>1. pw \in Workers /\ pw.base \in Statuses /\ pw.reason \in PoolReasons
    BY <1>5 DEF PoolPatch, Workers, TypeInv, StatusTypeOK, ReasonsInv
  <2>2. PoolMutate(pw, pw.base) \in Statuses
    BY <2>1, PoolMutates
  <2> QED
    BY <1>4, <1>5, <2>1, <2>2 DEF PoolPatch
<1>6. CASE SyncPatch
  <2>1. sw \in Workers /\ sw.base \in Statuses /\ sw.reason \in ExecReasons
    BY <1>6 DEF SyncPatch, Workers, TypeInv, StatusTypeOK, ReasonsInv
  <2>2. SyncMutate(sw, sw.base) \in Statuses
    BY <2>1, SyncMutates
  <2> QED
    BY <1>1, <1>4, <1>6, <2>1, <2>2 DEF SyncPatch
<1>7. CASE DeliverPool
  <2>1. /\ lag # <<>> /\ poolCache' = Head(lag) /\ lag' = Tail(lag) /\ pool' = pool
    BY <1>7 DEF DeliverPool
  <2>2. /\ Len(lag') = Len(lag) - 1 /\ Len(lag) > 0
        /\ \A i \in 1..Len(lag') : lag'[i] = lag[i + 1]
        /\ Head(lag) = lag[1]
    BY <1>0, <2>1, HeadTailProperties, EmptySeq
  <2>3. lag' = <<>> => Len(lag) = 1
    BY <1>0, <2>2, EmptySeq
  <2>4. lag' # <<>> => lag'[Len(lag')] = lag[Len(lag)]
    BY <1>0, <2>1, <2>2, EmptySeq, HeadTailProperties
  <2>5. pool' = IF lag' = <<>> THEN poolCache' ELSE lag'[Len(lag')]
    BY <2>1, <2>2, <2>3, <2>4 DEF LagInv
  <2>6. poolCache'.deleting => \A i \in 1..Len(lag') : lag'[i].deleting
    BY <1>0, <2>1, <2>2 DEF LagInv
  <2>7. ASSUME NEW i \in 1..Len(lag'), NEW j \in 1..Len(lag'), i <= j, lag'[i].deleting
        PROVE  lag'[j].deleting
    <3>1. i + 1 \in 1..Len(lag) /\ j + 1 \in 1..Len(lag) /\ i + 1 <= j + 1
      BY <1>0, <2>2, <2>7
    <3> QED
      BY <2>2, <2>7, <3>1 DEF LagInv
  <2> QED
    BY <2>5, <2>6, <2>7 DEF LagInv
<1>8. \/ UNCHANGED poolVars \/ EditSpec \/ DeletePool \/ PoolPatch \/ SyncPatch \/ DeliverPool
  BY DEF Next, PoolStep, SyncStep, PoolBeginOther, PoolBegin, PoolBeginFails, PoolGet,
     PoolPatchFails, SyncSkip, SyncBegin, SyncGet, DeliverVNode, UpdateStatus, vars
<1> QED
  BY <1>1, <1>2, <1>3, <1>5, <1>6, <1>7, <1>8

\* The pool says Deleting only once the cache shows the deletion; a pass that is
\* to publish something else does not overlap that.
DeletingInv ==
  /\ pool.status.phase = "Deleting" => poolCache.deleting
  /\ pw.pc # "idle" /\ pool.status.phase = "Deleting" => pw.reason = "Deleting"
  /\ pw.pc # "idle" /\ pw.reason = "Deleting" => poolCache.deleting

\* The cache never forgets a deletion.
LEMMA CacheMonotone ==
  ASSUME TypeInv, LagInv, [Next]_vars, poolCache.deleting
  PROVE  poolCache'.deleting
<1>0. pool \in Pools /\ poolCache \in Pools /\ lag \in Seq(Pools)
  BY DEF TypeInv, StatusTypeOK
<1>1. CASE poolCache' = poolCache
  BY <1>1
<1>2. CASE DeliverPool
  <2>1. lag # <<>> /\ poolCache' = Head(lag)
    BY <1>2 DEF DeliverPool
  <2>2. Len(lag) \in Nat \ {0} /\ Head(lag) = lag[1]
    BY <1>0, <2>1, EmptySeq
  <2> QED
    BY <2>1, <2>2 DEF LagInv
<1>3. poolCache' = poolCache \/ DeliverPool
  BY DEF Next, PoolStep, SyncStep, PoolBeginOther, PoolBegin, PoolBeginFails, PoolGet, PoolPatch,
     PoolPatchFails, SyncSkip, SyncBegin, SyncGet, SyncPatch, DeliverVNode, UpdateStatus,
     EditSpec, DeletePool, Patch, Write, vars, poolVars
<1> QED
  BY <1>1, <1>2, <1>3

\* What the pool controller's patch leaves as the phase.
LEMMA PatchedPhase ==
  ASSUME TypeInv, PoolPatch
  PROVE  /\ pw.reason \in PoolReasons
         /\ pool'.status.phase \in {pool.status.phase, PublishedPhase(pw)}
         /\ (PublishedPhase(pw) = "Deleting") <=> (pw.reason = "Deleting")
         /\ pw'.pc = "idle"
<1>1. /\ pw \in Workers /\ pw.base \in Statuses /\ pw.reason \in PoolReasons
      /\ pool \in Pools /\ StatusTypeOK
  BY DEF PoolPatch, Workers, TypeInv, StatusTypeOK, ReasonsInv
<1> DEFINE new == PoolMutate(pw, pw.base)
<1>2. /\ new \in Statuses /\ new.phase = PublishedPhase(pw)
      /\ (PublishedPhase(pw) = "Deleting") <=> (pw.reason = "Deleting")
  BY <1>1, PoolMutates
<1>3. Patch(pw.base, new)
  BY DEF PoolPatch
<1> HIDE DEF new
<1>4. pool'.status = Merge(pool.status, pw.base, new)
  BY <1>1, <1>2, <1>3, PatchType
<1>5. pool'.status.phase \in {pool.status.phase, new.phase}
  BY <1>1, <1>2, <1>4, Merges DEF Pools
<1>6. pw'.pc = "idle"
  BY WorkerTypes DEF PoolPatch
<1> QED
  BY <1>1, <1>2, <1>5, <1>6

\* Every step keeps DeletingInv, and the phase Deleting.
LEMMA DeletingNext ==
  ASSUME TypeInv, LagInv, DeletingInv, [Next]_vars
  PROVE  DeletingInv' /\ (pool.status.phase = "Deleting" => pool'.status.phase = "Deleting")
<1>1. CASE PoolPatch
  <2>1. poolCache' = poolCache /\ pw.pc # "idle"
    BY <1>1 DEF PoolPatch, Patch, Write, poolVars
  <2> QED
    BY <1>1, <2>1, PatchedPhase DEF DeletingInv
<1>2. CASE ~PoolPatch
  <2>1. pool'.status.phase = pool.status.phase
    BY <1>2, OwnStays DEF Own
  <2>2. pool'.status.phase = "Deleting" => poolCache'.deleting
    BY <2>1, CacheMonotone DEF DeletingInv
  <2>3. CASE pw' = pw
    BY <2>1, <2>2, <2>3, CacheMonotone DEF DeletingInv
  <2>4. CASE PoolGet
    <3>1. pw.pc = "get" /\ pw'.reason = pw.reason /\ pw \in Workers
      BY <2>4 DEF PoolGet, TypeInv, StatusTypeOK, Workers
    <3> QED
      BY <2>1, <2>2, <3>1, CacheMonotone DEF DeletingInv
  <2>5. CASE PoolPatchFails
    BY <2>1, <2>2, <2>5, WorkerTypes DEF PoolPatchFails, DeletingInv
  <2>6. CASE PoolBeginOther
    <3>1. /\ poolCache' = poolCache /\ poolCache \in Pools
          /\ pw'.reason = IF poolCache.deleting THEN "Deleting" ELSE "ValidationFailed"
      BY <2>6, Publishes DEF PoolBeginOther, PoolReasons, poolVars, TypeInv, StatusTypeOK
    <3> QED
      BY <2>1, <2>2, <3>1 DEF DeletingInv
  <2>7. CASE PoolBegin \/ PoolBeginFails
    <3>1. ~poolCache.deleting /\ poolCache' = poolCache
      BY <2>7 DEF PoolBegin, PoolBeginFails, poolVars
    <3>2. pw'.reason # "Deleting"
      <4>1. ASSUME NEW k \in Nat, PoolPublishing(PhaseReason(ResultPhase(k)), k)
            PROVE  pw'.reason # "Deleting"
        <5>1. PhaseReason(ResultPhase(k)) \in {"PoolReady", "PoolScaling"}
          BY DEF PhaseReason, ResultPhase
        <5> QED
          BY <4>1, <5>1, Publishes DEF PoolReasons
      <4>2. CASE PoolBegin
        BY <4>1, <4>2, CountType DEF PoolBegin
      <4>3. CASE PoolBeginFails
        BY <4>3, Publishes DEF PoolBeginFails, PoolReasons
      <4> QED
        BY <2>7, <4>2, <4>3
    <3> QED
      BY <2>1, <2>2, <3>1, <3>2 DEF DeletingInv
  <2>8. \/ pw' = pw \/ PoolGet \/ PoolPatchFails \/ PoolBeginOther \/ PoolBegin \/ PoolBeginFails
    BY <1>2 DEF Next, PoolStep, SyncStep, SyncSkip, SyncBegin, SyncGet, SyncPatch, DeliverPool,
       DeliverVNode, UpdateStatus, EditSpec, DeletePool, vars, syncFrame
  <2> QED
    BY <2>1, <2>3, <2>4, <2>5, <2>6, <2>7, <2>8
<1> QED
  BY <1>1, <1>2

\* The invariants so far hold in the first state.
LEMMA DeletingInit == Init => LagInv /\ DeletingInv
<1> SUFFICES ASSUME Init PROVE LagInv /\ DeletingInv
  OBVIOUS
<1>1. lag = <<>> /\ poolCache = pool /\ pw.pc = "idle" /\ pool.status = NewStatus
  BY WorkerTypes DEF Init
<1>2. NewStatus.phase = ""
  BY DEF NewStatus
<1>3. \A i \in 1..Len(lag) : FALSE
  BY <1>1
<1> QED
  BY <1>1, <1>2, <1>3 DEF LagInv, DeletingInv

\* A pool that says Deleting is never shown in another phase again, whatever
\* passes of the two controllers were in flight when it was deleted.
THEOREM DeletingIsLast == Spec => DeletingStays
<1>1. Init => TypeInv /\ LagInv /\ DeletingInv
  BY TypeInit, DeletingInit
<1>2. TypeInv /\ LagInv /\ DeletingInv /\ [Next]_vars => (TypeInv /\ LagInv /\ DeletingInv)'
  BY TypeNext, LagNext, DeletingNext
<1>3. TypeInv /\ LagInv /\ DeletingInv /\ [Next]_vars =>
        [pool.status.phase = "Deleting" => pool'.status.phase = "Deleting"]_vars
  BY DeletingNext
<1> QED
  BY <1>1, <1>2, <1>3, PTL DEF Spec, DeletingStays

-----------------------------------------------------------------------------
(* The published counts. *)

LiveCache == poolCache.valid /\ ~poolCache.deleting
Says(st, nodes) ==
  st.readyNodes = ReadyCount(nodes) /\ st.phase = ResultPhase(ReadyCount(nodes))

\* As long as nothing has queued another pass, a pass in flight is about to publish
\* (or to repeat itself), and one that has ended has published, what the cached
\* VNodes amount to; a VNode event in flight will queue another pass.
CountInv ==
  ~pq /\ LiveCache =>
    /\ pw.pc # "idle" => \/ pw.reason = "ReconcileFailed"
                         \/ Succeeded(pw) /\ (seen = phase => pw.ready = ReadyCount(seen))
    /\ pw.pc = "idle" /\ ~stale /\ seen = phase => Says(pool.status, seen)

\* A pass of the pool controller that begins.
LEMMA CountBegin ==
  ASSUME TypeInv, CountInv, PoolBeginOther \/ PoolBegin \/ PoolBeginFails
  PROVE  CountInv'
<1>0. poolCache' = poolCache
  BY DEF PoolBeginOther, PoolBegin, PoolBeginFails, poolVars
<1>1. CASE PoolBeginOther
  BY <1>0, <1>1 DEF PoolBeginOther, CountInv, LiveCache
<1>2. CASE PoolBeginFails
  <2>1. pw'.pc = "get" /\ pw'.reason = "ReconcileFailed"
    BY <1>2, Publishes DEF PoolBeginFails, PoolReasons
  <2> QED
    BY <2>1 DEF CountInv
<1>3. CASE PoolBegin
  <2> DEFINE working == [n \in Nodes |-> IF n \in Missing THEN "Ready" ELSE seen[n]]
             k == ReadyCount(working)
  <2>1. k \in Nat
    BY CountType
  <2>2. PhaseReason(ResultPhase(k)) \in {"PoolReady", "PoolScaling"}
    BY DEF PhaseReason, ResultPhase
  <2>3. PoolPublishing(PhaseReason(ResultPhase(k)), k)
    BY <1>3 DEF PoolBegin
  <2>4. pw'.pc = "get" /\ Succeeded(pw)' /\ pw'.ready = k
    BY <2>1, <2>2, <2>3, Publishes DEF PoolReasons, Succeeded
  <2>5. seen' = phase' => k = ReadyCount(seen')
    <3>1. ASSUME seen' = phase' PROVE Missing = {}
      BY <1>3, <3>1 DEF PoolBegin, Missing
    <3>2. Missing = {} => working = seen
      BY DEF TypeInv, StatusTypeOK
    <3> QED
      BY <1>3, <3>1, <3>2 DEF PoolBegin
  <2> QED
    BY <2>4, <2>5 DEF CountInv
<1> QED
  BY <1>1, <1>2, <1>3

\* A pass of the pool controller that ends with its patch.
LEMMA CountPatch ==
  ASSUME TypeInv, CountInv, PoolPatch
  PROVE  CountInv'
<1>0. /\ pw \in Workers /\ pw.base \in Statuses /\ pw.reason \in PoolReasons
      /\ pool \in Pools /\ pool.status \in Statuses /\ StatusTypeOK
  BY DEF PoolPatch, Workers, TypeInv, StatusTypeOK, ReasonsInv, Pools
<1>1. /\ pw'.pc = "idle" /\ poolCache' = poolCache /\ seen' = seen /\ phase' = phase
      /\ pw.pc # "idle"
  BY WorkerTypes DEF PoolPatch, Patch, Write, poolVars, nodeVars
<1> SUFFICES ASSUME ~pq', LiveCache, ~stale', seen = phase
             PROVE  Says(pool'.status, seen)
  BY <1>1 DEF CountInv, LiveCache, Says
<1>2. Succeeded(pw) /\ pw.ready = ReadyCount(seen)
  BY <1>1 DEF PoolPatch, CountInv
<1>3. Own(pw.base) = Own(pool.status)
  BY DEF PoolPatch
<1> DEFINE new == PoolMutate(pw, pw.base)
<1>4. /\ new \in Statuses /\ new.phase = ResultPhase(pw.ready) /\ new.readyNodes = pw.ready
  BY <1>0, <1>2, PoolMutates
<1>5. Patch(pw.base, new)
  BY DEF PoolPatch
<1> HIDE DEF new
<1>6. pool'.status = Merge(pool.status, pw.base, new)
  BY <1>0, <1>4, <1>5, PatchType
<1>7. Own(pool'.status) = Own(new)
  BY <1>0, <1>3, <1>4, <1>6, Merges
<1> QED
  BY <1>2, <1>4, <1>7 DEF Own, Says

\* Every step keeps CountInv.
LEMMA CountNext ==
  ASSUME TypeInv, CountInv, [Next]_vars
  PROVE  CountInv'
<1>1. CASE PoolPatch
  BY <1>1, CountPatch
<1>2. CASE PoolBeginOther \/ PoolBegin \/ PoolBeginFails
  BY <1>2, CountBegin
<1>3. ASSUME ~PoolPatch
      PROVE  /\ pool'.status.phase = pool.status.phase
             /\ pool'.status.readyNodes = pool.status.readyNodes
  BY <1>3, OwnStays DEF Own
<1>4. CASE UNCHANGED <<nodeVars, poolCache, pq, pw, stale>> /\ ~PoolPatch
  BY <1>3, <1>4 DEF nodeVars, CountInv, LiveCache, Says, Succeeded
<1>5. CASE PoolGet
  <2>1. /\ pw'.pc # "idle" /\ pw.pc # "idle"
        /\ pw'.reason = pw.reason /\ pw'.ready = pw.ready
    BY <1>5 DEF PoolGet, TypeInv, StatusTypeOK, Workers
  <2> QED
    BY <1>5, <2>1 DEF PoolGet, poolVars, nodeVars, CountInv, LiveCache, Succeeded
<1>6. CASE PoolPatchFails
  <2>1. pw.pc # "idle" /\ poolCache' = poolCache /\ (~pq' => ~pq)
    BY <1>6 DEF PoolPatchFails, poolVars
  <2>2. LiveCache => pq'
    BY <1>6, <2>1 DEF PoolPatchFails, CountInv, Succeeded
  <2> QED
    BY <2>1, <2>2 DEF CountInv, LiveCache
<1>7. ASSUME NEW n \in Nodes, DeliverVNode(n) PROVE CountInv'
  BY <1>7 DEF DeliverVNode, CountInv
<1>8. ASSUME NEW n \in Nodes, UpdateStatus(n) PROVE CountInv'
  <2>1. phase'[n] # seen'[n]
    BY <1>8 DEF UpdateStatus, TypeInv, StatusTypeOK
  <2>2. seen' # phase' /\ UNCHANGED <<pq, pw, poolCache>>
    BY <1>8, <2>1 DEF UpdateStatus, poolVars
  <2> QED
    BY <2>2 DEF CountInv, LiveCache, Succeeded
<1>9. CASE DeliverPool
  <2>1. UNCHANGED <<pool, nodeVars, pw, stale>>
    BY <1>9 DEF DeliverPool
  <2>2. ~pq' => ~pq /\ poolCache'.valid = poolCache.valid /\ poolCache'.deleting = poolCache.deleting
    BY <1>9 DEF DeliverPool
  <2> QED
    BY <2>1, <2>2 DEF nodeVars, CountInv, LiveCache, Says, Succeeded
<1>10. \/ PoolPatch \/ PoolBeginOther \/ PoolBegin \/ PoolBeginFails \/ PoolGet \/ PoolPatchFails
       \/ UNCHANGED <<nodeVars, poolCache, pq, pw, stale>>
       \/ DeliverPool \/ \E n \in Nodes : DeliverVNode(n) \/ UpdateStatus(n)
  BY DEF Next, PoolStep, SyncStep, SyncSkip, SyncBegin, SyncGet, SyncPatch, EditSpec,
     DeletePool, Patch, Write, vars, poolVars, syncFrame
<1> QED
  BY <1>1, <1>2, <1>4, <1>5, <1>6, <1>7, <1>8, <1>9, <1>10

\* At rest the published phase and ready count of a live pool are those of its
\* VNodes, however many they are, whatever was lost, refused, delayed or
\* interleaved, unless a pool pass patched without having seen the one before.
THEOREM CountsAreAccurate == Spec => []AccurateUnlessStale
<1> DEFINE Inv == TypeInv /\ LagInv /\ CountInv
<1>1. Init => Inv
  <2>1. Init => CountInv
    BY DEF Init, CountInv
  <2> QED
    BY <2>1, TypeInit, DeletingInit
<1>2. Inv /\ [Next]_vars => Inv'
  BY TypeNext, LagNext, CountNext
<1>3. Inv => AccurateUnlessStale
  <2> SUFFICES ASSUME Inv, AtRest, pool.valid, ~pool.deleting, ~stale
               PROVE  Accurate
    BY DEF AccurateUnlessStale
  <2>1. poolCache = pool /\ seen = phase /\ ~pq /\ pw.pc = "idle"
    BY DEF AtRest, LagInv
  <2>2. Says(pool.status, phase)
    BY <2>1 DEF CountInv, LiveCache
  <2> QED
    BY <2>2, AllReady DEF Says, ReadyCount, ResultPhase, Accurate
<1> QED
  BY <1>1, <1>2, <1>3, PTL DEF Spec
=============================================================================
