------------------------ MODULE VNodeLifecycle_proofs ------------------------
(* Invariants of VNodeLifecycle for every size, lag, budget and set of faults. *)
EXTENDS VNodeLifecycle, FiniteSetTheorems, TLAPS

\* Listing a store yields a natural number of nodes.
LEMMA CountIsNat ==
  ASSUME NEW store
  PROVE  Cardinality(Present(store)) \in Nat
<1>1. IsFiniteSet(1..MaxName)
  BY FS_Interval, BoundsAssumption
<1>2. Present(store) \subseteq 1..MaxName
  BY DEF Present, Names
<1> QED
  BY <1>1, <1>2, FS_Subset, FS_CardinalityType

-----------------------------------------------------------------------------
(* Type correctness. *)

\* While a worker is on a node, the node and the status it saves are real ones.
WorkersOK ==
  /\ pw.pc \in {"save", "register", "deregister", "delete"} => pw.n \in Names
  /\ pw.pc = "save" => pw.st \in Statuses
  /\ vw.pc # "idle" => vw.n \in Names
  /\ vw.pc = "save" => vw.st \in Statuses

TypeInv == TypeOK /\ WorkersOK

\* Put keeps the store, the cache and the events well typed.
LEMMA PutType ==
  ASSUME RepoTypeOK, NEW n \in Names, NEW st \in Statuses \cup {Absent}, Put(n, st)
  PROVE  RepoTypeOK'
<1>1. CASE UNCHANGED repoVars
  BY <1>1 DEF RepoTypeOK, repoVars
<1>2. CASE /\ vnodes' = [vnodes EXCEPT ![n] = st]
           /\ watch' = Append(watch, [n |-> n, st |-> st])
           /\ UNCHANGED cache
  <2>1. [n |-> n, st |-> st] \in Event
    BY DEF Event
  <2> QED
    BY <1>2, <2>1 DEF RepoTypeOK
<1> QED
  BY <1>1, <1>2 DEF Put

\* A step or a fault of Save keeps the repository well typed.
LEMMA SaveType ==
  ASSUME RepoTypeOK, NEW at, NEW n \in Names, NEW st \in Statuses, NEW to,
         SaveStep(at, n, st, to) \/ SaveFault(at, n, st, to)
  PROVE  RepoTypeOK'
<1>1. SaveTarget(at, st) \in Statuses
  BY DEF SaveTarget, Statuses
<1>2. CASE UNCHANGED repoVars
  BY <1>2 DEF RepoTypeOK, repoVars
<1>3. CASE Put(n, SaveTarget(at, st))
  BY <1>1, <1>3, PutType
<1> QED
  BY <1>2, <1>3 DEF SaveStep, SaveFault

\* Spending keeps the budget well typed.
LEMMA SpendType ==
  ASSUME budget \in Budgets, NEW k \in Kinds, Spend(k)
  PROVE  budget' \in Budgets
<1>1. budget.left \in Limits /\ budget.met \in SUBSET Kinds
  BY DEF Budgets
<1>2. budget.left[k] - 1 \in Nat
  BY <1>1 DEF Limits, Spend
<1>3. [budget.left EXCEPT ![k] = budget.left[k] - 1] \in Limits
  BY <1>1, <1>2 DEF Limits
<1>4. budget.met \cup {k} \in SUBSET Kinds
  BY <1>1
<1> QED
  BY <1>3, <1>4 DEF Spend, Budgets

\* A registrar step or fault keeps the tenant and the budget well typed.
LEMMA RegistrarType ==
  ASSUME TypeOK, NEW at, NEW n \in Names, NEW ready \in BOOLEAN, NEW to,
         Registrar(at, n, ready, to)
  PROVE  /\ TenantTypeOK'
         /\ budget' \in Budgets
<1>1. ASSUME NEW r, RegStep(at, n, ready, r)
      PROVE  TenantTypeOK'
  BY <1>1 DEF RegStep, TypeOK, TenantTypeOK
<1>2. UNCHANGED tenantVars => TenantTypeOK'
  BY DEF TypeOK, TenantTypeOK, tenantVars
<1> QED
  BY <1>1, <1>2, SpendType DEF Registrar, TypeOK, Kinds

\* The pool worker is well typed in its idle state and after a listing.
LEMMA PoolWorkerType ==
  /\ IdlePool \in PoolWorkers /\ IdlePool.pc = "idle"
  /\ \A want \in Nat, del \in BOOLEAN :
       PoolScaling(want, del) \in PoolWorkers /\ PoolScaling(want, del).pc = "scale"
<1>1. IdlePool \in PoolWorkers /\ IdlePool.pc = "idle"
  BY DEF IdlePool, PoolWorkers, PoolPcs, Positions
<1>2. ASSUME NEW want \in Nat, NEW del \in BOOLEAN
      PROVE  PoolScaling(want, del) \in PoolWorkers /\ PoolScaling(want, del).pc = "scale"
  <2>1. Cardinality(ListByPool) \in Nat /\ ListByPool \in SUBSET Names
    BY CountIsNat DEF ListByPool, Present
  <2> DEFINE todo == want - Cardinality(ListByPool)
             work == IF todo < 0 THEN ListByPool ELSE {}
  <2>2. todo \in Int /\ work \in SUBSET Names
    BY <2>1
  <2>3. PoolScaling(want, del) = [IdlePool EXCEPT !.pc = "scale", !.del = del,
                                                  !.todo = todo, !.work = work]
    BY DEF PoolScaling, DesiredScaleActions
  <2> HIDE DEF todo, work
  <2> QED
    BY <2>2, <2>3, <1>1 DEF PoolWorkers, PoolPcs
<1> QED
  BY <1>1, <1>2

\* The pool worker is well typed when it is about to drop the pool's finalizer.
LEMMA PoolUnfinalizeType ==
  /\ [IdlePool EXCEPT !.pc = "unfinalize"] \in PoolWorkers
  /\ [IdlePool EXCEPT !.pc = "unfinalize"].pc = "unfinalize"
<1>1. "unfinalize" \in PoolPcs
  BY DEF PoolPcs
<1> QED
  BY <1>1, PoolWorkerType DEF PoolWorkers

\* The initial state is well typed.
LEMMA TypeInit == Init => TypeInv
<1> SUFFICES ASSUME Init PROVE TypeInv
  OBVIOUS
<1> USE SpecsAssumption, BoundsAssumption DEF Init
<1>1. RepoTypeOK
  BY DEF RepoTypeOK, Statuses, Absent, Event
<1>2. TenantTypeOK
  BY DEF TenantTypeOK
<1>3. pool \in Pools /\ poolCache \in Pools
  BY DEF Pools
<1>4. pw \in PoolWorkers
  BY PoolWorkerType
<1>5. vw \in VNodeWorkers
  BY DEF VNodeWorkers, IdleVNode, VNodePcs, Positions, Results
<1>6. WorkersOK
  BY DEF WorkersOK, IdlePool, IdleVNode
<1>7. budget \in Budgets
  BY DEF Budgets
<1> QED
  BY <1>1, <1>2, <1>3, <1>4, <1>5, <1>6, <1>7 DEF TypeInv, TypeOK

\* The parts of the state a step leaves alone stay well typed.
LEMMA TypeFrames ==
  ASSUME TypeInv
  PROVE  /\ UNCHANGED repoVars => RepoTypeOK'
         /\ UNCHANGED tenantVars => TenantTypeOK'
         /\ UNCHANGED poolVars => pool' \in Pools /\ poolCache' \in Pools
         /\ Spend("spec") \/ Spend("delete") \/ Spend("host") \/ Spend("crash") =>
              budget' \in Budgets
<1>1. UNCHANGED repoVars => RepoTypeOK'
  BY DEF TypeInv, TypeOK, RepoTypeOK, repoVars
<1>2. UNCHANGED tenantVars => TenantTypeOK'
  BY DEF TypeInv, TypeOK, TenantTypeOK, tenantVars
<1>3. UNCHANGED poolVars => pool' \in Pools /\ poolCache' \in Pools
  BY DEF TypeInv, TypeOK, poolVars
<1>4. ASSUME NEW k \in Kinds, Spend(k)
      PROVE  budget' \in Budgets
  BY <1>4, SpendType DEF TypeInv, TypeOK
<1> QED
  BY <1>1, <1>2, <1>3, <1>4 DEF Kinds

\* Users, informers and crashes keep the state well typed.
LEMMA TypeEnvironment ==
  ASSUME TypeInv, Environment \/ DeliverVNode \/ DeliverPool
  PROVE  TypeInv'
<1> USE TypeFrames DEF TypeInv, TypeOK, WorkersOK
<1>1. CASE EditSpec
  <2>1. pool' \in Pools
    BY <1>1, SpecsAssumption DEF EditSpec, Pools
  <2> QED
    BY <1>1, <2>1 DEF EditSpec, queues
<1>2. CASE DeletePool
  <2>1. pool' \in Pools
    BY <1>2 DEF DeletePool, Pools
  <2> QED
    BY <1>2, <2>1 DEF DeletePool, queues
<1>3. CASE CreateSecret
  <2>1. TenantTypeOK'
    BY <1>3 DEF CreateSecret, TenantTypeOK
  <2> QED
    BY <1>3, <2>1 DEF CreateSecret, queues
<1>4. CASE Crash
  <2>1. RepoTypeOK' /\ vq' \subseteq Names
    BY <1>4 DEF Crash, Relist, RepoTypeOK, Present
  <2>2. vw' \in VNodeWorkers /\ vw'.pc = "idle"
    BY <1>4 DEF Crash, IdleVNode, VNodeWorkers, VNodePcs, Positions, Results
  <2>3. pool' \in Pools /\ poolCache' \in Pools /\ pq' \in BOOLEAN
    BY <1>4 DEF Crash, Pools
  <2> QED
    BY <1>4, <2>1, <2>2, <2>3, PoolWorkerType DEF Crash
<1>5. CASE DeliverVNode
  <2>1. RepoTypeOK' /\ Head(watch).n \in Names
    <3>1. watch \in Seq(Event) /\ watch # <<>>
      BY <1>5 DEF DeliverVNode, Apply, RepoTypeOK
    <3>2. Head(watch) \in Event /\ Tail(watch) \in Seq(Event)
      BY <3>1
    <3> QED
      BY <1>5, <3>2 DEF DeliverVNode, Apply, RepoTypeOK, Event
  <2>2. pq' \in BOOLEAN
    BY <1>5 DEF DeliverVNode, vnodePhaseChanged
  <2> QED
    BY <1>5, <2>1, <2>2 DEF DeliverVNode
<1>6. CASE DeliverPool
  <2>1. pq' \in BOOLEAN
    BY <1>6 DEF DeliverPool
  <2> QED
    BY <1>6, <2>1 DEF DeliverPool
<1> QED
  BY <1>1, <1>2, <1>3, <1>4, <1>5, <1>6 DEF Environment

\* The positions the pool worker moves to are well typed.
PoolWorkerOK(w) ==
  /\ w \in PoolWorkers
  /\ w.pc \in {"save", "register", "deregister", "delete"} => w.n \in Names
  /\ w.pc = "save" => w.st \in Statuses

\* Every move Provision, Deprovision and the returns from Save make is well typed.
LEMMA PoolMoves ==
  ASSUME PoolWorkerOK(pw)
  PROVE  /\ \A n \in Names, st \in Statuses : PoolWorkerOK(PoolSaving(n, st))
         /\ PoolWorkerOK(PoolFailed)
         /\ \A to \in SaveAts \cup RegAts : PoolWorkerOK([pw EXCEPT !.at = to])
         /\ pw.pc = "save" => \A r : PoolWorkerOK(PoolAfterSave(r))
         /\ pw.n \in Names => PoolWorkerOK([pw EXCEPT !.pc = "delete", !.at = ""])
         /\ PoolWorkerOK([pw EXCEPT !.pc = "scale", !.n = 0, !.st = "", !.todo = pw.todo + 1,
                                    !.work = pw.work \ {pw.n}])
<1> USE DEF PoolWorkerOK
<1>0. pw \in PoolWorkers
  OBVIOUS
<1>1. ASSUME NEW n \in Names, NEW st \in Statuses
      PROVE  PoolWorkerOK(PoolSaving(n, st))
  BY <1>0 DEF PoolSaving, PoolWorkers, PoolPcs, Positions, SaveAts
<1>a. /\ {"scale", "delete", "failed", "register", "deregister"} \subseteq PoolPcs
      /\ "" \in Positions /\ "" \in Statuses \cup {""}
      /\ 0 \in Names \cup {0} /\ {} \in SUBSET Names
  BY DEF PoolPcs, Positions
<1>2. PoolWorkerOK(PoolFailed)
  <2>1. "failed" \in PoolPcs /\ 0 \in Int
    BY DEF PoolPcs
  <2>2. pw.del \in BOOLEAN
    BY <1>0 DEF PoolWorkers
  <2>3. PoolFailed \in PoolWorkers
    BY <1>0, <1>a, <2>1, <2>2 DEF PoolFailed, PoolWorkers
  <2>4. PoolFailed.pc = "failed"
    BY <1>0 DEF PoolFailed, PoolWorkers
  <2> QED
    BY <2>3, <2>4
<1>3. ASSUME NEW to \in SaveAts \cup RegAts
      PROVE  PoolWorkerOK([pw EXCEPT !.at = to])
  BY <1>0 DEF PoolWorkers, Positions
<1>4. ASSUME pw.pc = "save", NEW r
      PROVE  PoolWorkerOK(PoolAfterSave(r))
  <2>1. pw.todo \in Int /\ pw.n \in Names
    BY <1>4 DEF PoolWorkers
  <2>2. PoolWorkerOK([pw EXCEPT !.pc = "register", !.at = "upsert"])
    BY <1>0, <2>1 DEF PoolWorkers, PoolPcs, Positions, RegAts
  <2>3. PoolWorkerOK([pw EXCEPT !.pc = "deregister", !.at = "deregister"])
    BY <1>0, <2>1 DEF PoolWorkers, PoolPcs, Positions, RegAts
  <2>4. PoolWorkerOK([pw EXCEPT !.pc = "scale", !.at = "", !.n = 0, !.st = "",
                                !.todo = pw.todo - 1])
    <3>1. pw.todo - 1 \in Int
      BY <2>1
    <3> QED
      BY <1>0, <1>a, <3>1 DEF PoolWorkers
  <2> HIDE DEF PoolWorkerOK
  <2> QED
    BY <1>2, <2>2, <2>3, <2>4 DEF PoolAfterSave
<1>5. ASSUME pw.n \in Names
      PROVE  PoolWorkerOK([pw EXCEPT !.pc = "delete", !.at = ""])
  BY <1>0, <1>5, <1>a DEF PoolWorkers
<1>6. PoolWorkerOK([pw EXCEPT !.pc = "scale", !.n = 0, !.st = "", !.todo = pw.todo + 1,
                              !.work = pw.work \ {pw.n}])
  <2>1. pw.todo \in Int /\ pw.work \in SUBSET Names
    BY DEF PoolWorkers
  <2>2. pw.todo + 1 \in Int /\ pw.work \ {pw.n} \in SUBSET Names
    BY <2>1
  <2> QED
    BY <1>0, <1>a, <2>2 DEF PoolWorkers
<1> HIDE DEF PoolWorkerOK
<1> QED
  BY <1>1, <1>2, <1>3, <1>4, <1>5, <1>6

\* The pool worker keeps the state well typed.
LEMMA TypePool ==
  ASSUME TypeInv, PoolStep
  PROVE  TypeInv'
<1> USE TypeFrames, PoolWorkerType DEF TypeInv, TypeOK, WorkersOK
<1>0. PoolWorkerOK(pw)
  BY DEF PoolWorkerOK
<1> USE PoolMoves
<1>1. CASE PoolIgnore
  BY <1>1 DEF PoolIgnore, PoolDone, poolFrame, poolVars
<1>2. CASE PoolBegin
  <2>1. pool' \in Pools
    BY <1>2 DEF PoolBegin, Pools
  <2>2. poolCache.count \in Nat
    BY DEF Pools
  <2> QED
    BY <1>2, <2>1, <2>2 DEF PoolBegin, PoolDone, poolFrame
<1>3. CASE PoolBeginDeletion
  BY <1>3 DEF PoolBeginDeletion, poolFrame
<1>4. CASE Provision
  <2>1. PoolWorkerOK(pw')
    BY <1>0, <1>4 DEF Provision, Statuses
  <2> QED
    BY <1>4, <2>1 DEF Provision, poolFrame, PoolWorkerOK
<1>5. CASE Deprovision
  <2>1. pw.work \subseteq Names
    BY DEF PoolWorkers
  <2>2. PoolWorkerOK(pw') /\ retired' \subseteq Names
    BY <1>0, <1>5, <2>1 DEF Deprovision, Statuses
  <2> QED
    BY <1>5, <2>2 DEF Deprovision, queues, PoolWorkerOK
<1>6. CASE PoolSave
  <2>1. pw.n \in Names /\ pw.st \in Statuses
    BY <1>6 DEF PoolSave
  <2>2. RepoTypeOK' /\ budget' \in Budgets
    BY <1>6, <2>1, SaveType DEF PoolSave
  <2>3. ASSUME NEW to \in SaveAts \cup Results
        PROVE  PoolWorkerOK(IF to \in SaveAts THEN [pw EXCEPT !.at = to] ELSE PoolAfterSave(to))
    BY <1>0, <1>6 DEF PoolSave
  <2>4. PoolWorkerOK(pw')
    BY <1>6, <2>3 DEF PoolSave
  <2> QED
    BY <1>6, <2>2, <2>4 DEF PoolSave, queues, PoolWorkerOK
<1>7. CASE PoolRegister
  <2>1. pw.n \in Names
    BY <1>7 DEF PoolRegister
  <2>2. TenantTypeOK' /\ budget' \in Budgets
    BY <1>7, <2>1, RegistrarType DEF PoolRegister
  <2>3. \A to : RegisteredStatus(to) \in Statuses
    BY DEF RegisteredStatus, Statuses
  <2>5. PoolWorkerOK(pw')
    <3>1. PICK to \in RegAts \cup Results :
            pw' = IF to \in RegAts THEN [pw EXCEPT !.at = to]
                  ELSE PoolSaving(pw.n, RegisteredStatus(to))
      BY <1>7 DEF PoolRegister
    <3>2. PoolWorkerOK(PoolSaving(pw.n, RegisteredStatus(to)))
      BY <1>0, <2>1, <2>3
    <3>3. to \in RegAts => PoolWorkerOK([pw EXCEPT !.at = to])
      BY <1>0
    <3> QED
      BY <3>1, <3>2, <3>3
  <2> QED
    BY <1>7, <2>2, <2>5 DEF PoolRegister, queues, PoolWorkerOK
<1>8. CASE PoolDeregister
  <2>1. pw.n \in Names
    BY <1>8 DEF PoolDeregister
  <2>2. TenantTypeOK' /\ budget' \in Budgets
    BY <1>8, <2>1, RegistrarType DEF PoolDeregister
  <2>3. PoolWorkerOK(pw')
    BY <1>0, <1>8, <2>1 DEF PoolDeregister
  <2> QED
    BY <1>8, <2>2, <2>3 DEF PoolDeregister, queues, PoolWorkerOK
<1>9. CASE PoolDelete
  <2>1. pw.n \in Names
    BY <1>9 DEF PoolDelete
  <2>2. RepoTypeOK' /\ budget' \in Budgets
    BY <1>9, <2>1, PutType DEF PoolDelete, DeleteStep
  <2>5. PoolWorkerOK(pw')
    BY <1>0, <1>9 DEF PoolDelete
  <2> QED
    BY <1>9, <2>2, <2>5 DEF PoolDelete, queues, PoolWorkerOK
<1>10. CASE PoolFail
  BY <1>10 DEF PoolFail, PoolDone, poolFrame
<1>11. CASE PoolFinish
  BY <1>11 DEF PoolFinish, PoolDone, poolFrame
<1>12. CASE PoolRemaining
  <2>1. PoolWorkerOK([IdlePool EXCEPT !.pc = "unfinalize"])
    <3>1. /\ [IdlePool EXCEPT !.pc = "unfinalize"] \in PoolWorkers
          /\ [IdlePool EXCEPT !.pc = "unfinalize"].pc = "unfinalize"
      BY PoolUnfinalizeType
    <3> QED
      BY <3>1, Zenon DEF PoolWorkerOK
  <2> QED
    BY <1>12, <2>1 DEF PoolRemaining, PoolDone, poolFrame, PoolWorkerOK
<1>13. CASE PoolUnfinalize
  <2>1. pool' \in Pools /\ pq' \in BOOLEAN
    BY <1>13 DEF PoolUnfinalize, PoolDone, Pools
  <2> QED
    BY <1>13, <2>1 DEF PoolUnfinalize, PoolDone, poolFrame
<1>14. CASE PoolWriteFails
  BY <1>14 DEF PoolWriteFails, PoolDone
<1> QED
  BY <1>1, <1>2, <1>3, <1>4, <1>5, <1>6, <1>7, <1>8, <1>9, <1>10, <1>11, <1>12,
     <1>13, <1>14 DEF PoolStep

\* The positions the VNode worker moves to are well typed.
VNodeWorkerOK(w) ==
  /\ w \in VNodeWorkers
  /\ w.pc # "idle" => w.n \in Names
  /\ w.pc = "save" => w.st \in Statuses

\* Every move of UpdateStatus and every return of the VNode worker is well typed.
LEMMA VNodeMoves ==
  ASSUME VNodeWorkerOK(vw), vw.pc # "idle", vq \subseteq Names
  PROVE  /\ \A to \in SaveAts \cup RegAts :
              vw' = [vw EXCEPT !.at = to] => VNodeWorkerOK(vw')
         /\ \A st \in Statuses, err \in Results :
              VNodeSaving(st, err) => VNodeWorkerOK(vw') /\ vq' \subseteq Names
         /\ \A err : VNodeReturn(err) => VNodeWorkerOK(vw') /\ vq' \subseteq Names
<1>0. vw \in VNodeWorkers /\ vw.n \in Names
  BY DEF VNodeWorkerOK
<1>1. ASSUME NEW to \in SaveAts \cup RegAts, vw' = [vw EXCEPT !.at = to]
      PROVE  VNodeWorkerOK(vw')
  BY <1>1 DEF VNodeWorkerOK, VNodeWorkers, Positions
<1>2. ASSUME NEW st \in Statuses, NEW err \in Results, VNodeSaving(st, err)
      PROVE  VNodeWorkerOK(vw') /\ vq' \subseteq Names
  <2>1. "save" \in VNodePcs /\ "get" \in Positions
    BY DEF VNodePcs, Positions, SaveAts
  <2> QED
    BY <1>0, <1>2, <2>1 DEF VNodeSaving, VNodeWorkerOK, VNodeWorkers
<1>3. ASSUME NEW err, VNodeReturn(err)
      PROVE  VNodeWorkerOK(vw') /\ vq' \subseteq Names
  <2>1. VNodeWorkerOK(vw')
    BY <1>3 DEF VNodeReturn, VNodeWorkerOK, IdleVNode, VNodeWorkers, VNodePcs, Positions, Results
  <2> QED
    BY <1>0, <1>3, <2>1 DEF VNodeReturn
<1> QED
  BY <1>1, <1>2, <1>3

\* The VNode worker keeps the state well typed.
LEMMA TypeVNode ==
  ASSUME TypeInv, VNodeStep
  PROVE  TypeInv'
<1> DEFINE budgetOK == budget' \in Budgets
<1>0. VNodeWorkerOK(vw) /\ vq \subseteq Names
  BY DEF TypeInv, TypeOK, WorkersOK, VNodeWorkerOK
<1>1. ASSUME UNCHANGED vnodeFrame, RepoTypeOK', TenantTypeOK', budgetOK,
             VNodeWorkerOK(vw'), vq' \subseteq Names
      PROVE  TypeInv'
  BY <1>1 DEF TypeInv, TypeOK, WorkersOK, VNodeWorkerOK, vnodeFrame, poolVars
<1>2. {"Ready", "RegFailed", "SyncFailed"} \subseteq Statuses /\ "ok" \in Results
  BY DEF Statuses, Results
<1>3. ASSUME NEW n \in Names, VNodeBegin(n)
      PROVE  TypeInv'
  <2>1. cache[n] \in Statuses \cup {Absent}
    BY DEF TypeInv, TypeOK, RepoTypeOK
  <2>2. VNodeWorkerOK(vw') /\ vq' \subseteq Names
    <3>1. IdleVNode \in VNodeWorkers
      BY DEF IdleVNode, VNodeWorkers, VNodePcs, Positions, Results
    <3>2. {"register", "sync"} \subseteq VNodePcs /\ {"upsert", "nodeStatus"} \subseteq Positions
      BY DEF VNodePcs, Positions, RegAts
    <3>3. CASE cache[n] \in {Absent, "New"}
      BY <1>0, <1>3, <3>1, <3>3 DEF VNodeBegin, VNodeWorkerOK, IdleVNode
    <3>4. CASE cache[n] \notin {Absent, "New"}
      <4>1. PICK pc \in {"register", "sync"}, at \in {"upsert", "nodeStatus"} :
              vw' = [IdleVNode EXCEPT !.n = n, !.seen = cache[n], !.pc = pc, !.at = at]
        BY <1>3, <3>4 DEF VNodeBegin
      <4>2. vw' \in VNodeWorkers /\ vw'.n = n /\ vw'.pc = pc
        BY <2>1, <3>1, <3>2, <3>4, <4>1 DEF VNodeWorkers
      <4> QED
        BY <1>0, <1>3, <4>2 DEF VNodeBegin, VNodeWorkerOK
    <3> QED
      BY <3>3, <3>4
  <2>3. RepoTypeOK' /\ TenantTypeOK' /\ budgetOK
    BY <1>3, TypeFrames DEF VNodeBegin, TypeInv, TypeOK
  <2> QED
    BY <1>1, <1>3, <2>2, <2>3 DEF VNodeBegin
<1>4. ASSUME VNodeRegister \/ VNodeSync
      PROVE  TypeInv'
  <2>1. vw.pc # "idle" /\ vw.n \in Names
    BY <1>0, <1>4 DEF VNodeRegister, VNodeSync, VNodeWorkerOK
  <2>2. TenantTypeOK' /\ budgetOK
    <3>1. PICK ready \in BOOLEAN, to \in RegAts \cup Results : Registrar(vw.at, vw.n, ready, to)
      BY <1>4 DEF VNodeRegister, VNodeSync
    <3> QED
      BY <2>1, <3>1, RegistrarType DEF TypeInv
  <2>3. VNodeWorkerOK(vw') /\ vq' \subseteq Names
    <3>1. CASE VNodeRegister
      BY <1>0, <1>2, <2>1, <3>1, VNodeMoves DEF VNodeRegister, Results
    <3>2. CASE VNodeSync
      BY <1>0, <1>2, <2>1, <3>2, VNodeMoves DEF VNodeSync, Results
    <3> QED
      BY <1>4, <3>1, <3>2
  <2>4. RepoTypeOK'
    BY <1>4, TypeFrames DEF VNodeRegister, VNodeSync
  <2> QED
    BY <1>1, <1>4, <2>2, <2>3, <2>4 DEF VNodeRegister, VNodeSync
<1>5. ASSUME VNodeSave
      PROVE  TypeInv'
  <2>1. vw.pc # "idle" /\ vw.n \in Names /\ vw.st \in Statuses
    BY <1>0, <1>5 DEF VNodeSave, VNodeWorkerOK
  <2>2. RepoTypeOK' /\ budgetOK
    BY <1>5, <2>1, SaveType, TypeFrames DEF VNodeSave, TypeInv, TypeOK
  <2>3. VNodeWorkerOK(vw') /\ vq' \subseteq Names
    BY <1>0, <1>5, <2>1, VNodeMoves DEF VNodeSave, Results
  <2>4. TenantTypeOK'
    BY <1>5, TypeFrames DEF VNodeSave
  <2> QED
    BY <1>1, <1>5, <2>2, <2>3, <2>4 DEF VNodeSave
<1> QED
  BY <1>3, <1>4, <1>5 DEF VNodeStep

\* Every step keeps the state well typed.
LEMMA TypeNext == TypeInv /\ [Next]_vars => TypeInv'
<1>1. ASSUME TypeInv, UNCHANGED vars
      PROVE  TypeInv'
  BY <1>1, TypeFrames DEF TypeInv, TypeOK, WorkersOK, vars, poolVars, queues
<1> QED
  BY <1>1, TypeEnvironment, TypePool, TypeVNode DEF Next

\* The state stays within what the Go types and CRD enums allow: in particular
\* no worker ever saves an empty name or a status the services do not write.
THEOREM TypeCorrect == Spec => []TypeOK
<1>1. TypeInv => TypeOK
  BY DEF TypeInv
<1> QED
  BY <1>1, TypeInit, TypeNext, PTL DEF Spec
=============================================================================
