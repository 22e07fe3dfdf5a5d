------------------------ MODULE VNodeLifecycle_safety ------------------------
(* Safety theorems of VNodeLifecycle, on top of its type correctness. *)
EXTENDS VNodeLifecycle_proofs

\* The pool worker is removing a node.
Removing == pw.pc \in {"deregister", "delete"} \/ (pw.pc = "save" /\ pw.st = "Terminating")

\* Only names picked by Deprovision are removed.
RetireInv == Removing => pw.n \in retired

-----------------------------------------------------------------------------
\* ProvisionUnderFinalizer, made inductive: what a lagging copy of the pool
\* still tells about the pool itself, and that removals never overshoot.
FinalizerInv ==
  /\ poolCache.deleting => pool.deleting
  /\ poolCache.exists /\ poolCache.fin /\ ~poolCache.deleting => pool.exists /\ pool.fin
  /\ pw.del \/ pw.pc = "unfinalize" => poolCache.deleting
  /\ Removing => pw.todo < 0
  /\ ProvisionUnderFinalizer

\* ReadyRegistered, made inductive: it also holds of a Ready about to be saved,
\* and only the pool worker's removals call Deregister.
RegisteredInv ==
  /\ RetireInv
  /\ pw.pc = "register" => pw.at \in {"upsert", "nodeStatus"}
  /\ vw.pc \in {"register", "sync"} => vw.at \in {"upsert", "nodeStatus"}
  /\ pw.pc = "save" /\ pw.st = "Ready" /\ pw.n \notin retired => tenant[pw.n] # "none"
  /\ vw.pc = "save" /\ vw.st = "Ready" /\ vw.n \notin retired => tenant[vw.n] # "none"
  /\ ReadyRegistered

\* ResurrectsOnlyRetired, made inductive: deletions in flight are of retired
\* names, so the cache cannot lose any other node the VNode worker is on.
ResurrectInv ==
  /\ RetireInv
  /\ \A i \in 1..Len(watch) : watch[i].st = Absent => watch[i].n \in retired
  /\ vw.pc # "idle" /\ vw.n \notin retired => cache[vw.n] # Absent
  /\ ResurrectsOnlyRetired

-----------------------------------------------------------------------------
(* The finalizer guards every provisioning. *)

\* What the pool worker's next state looks like, field by field.
LEMMA PoolFields ==
  ASSUME TypeInv
  PROVE  /\ IdlePool.pc = "idle" /\ ~IdlePool.del /\ IdlePool.todo = 0
         /\ \A n, st : LET w == PoolSaving(n, st) IN
              /\ w.pc = "save" /\ w.n = n /\ w.st = st /\ w.at = "get"
              /\ w.todo = pw.todo /\ w.del = pw.del
         /\ PoolFailed.pc = "failed" /\ PoolFailed.del = pw.del /\ PoolFailed.todo = 0
         /\ \A to : LET w == [pw EXCEPT !.at = to] IN
              /\ w.pc = pw.pc /\ w.n = pw.n /\ w.st = pw.st /\ w.at = to
              /\ w.todo = pw.todo /\ w.del = pw.del
<1> pw \in PoolWorkers
  BY DEF TypeInv, TypeOK
<1>1. IdlePool.pc = "idle" /\ ~IdlePool.del /\ IdlePool.todo = 0
  BY DEF IdlePool
<1>2. ASSUME NEW n, NEW st
      PROVE  LET w == PoolSaving(n, st) IN
              /\ w.pc = "save" /\ w.n = n /\ w.st = st /\ w.at = "get"
              /\ w.todo = pw.todo /\ w.del = pw.del
  BY DEF PoolSaving, PoolWorkers
<1>3. PoolFailed.pc = "failed" /\ PoolFailed.del = pw.del /\ PoolFailed.todo = 0
  BY DEF PoolFailed, PoolWorkers
<1>4. ASSUME NEW to
      PROVE  LET w == [pw EXCEPT !.at = to] IN
              /\ w.pc = pw.pc /\ w.n = pw.n /\ w.st = pw.st /\ w.at = to
              /\ w.todo = pw.todo /\ w.del = pw.del
  BY DEF PoolWorkers
<1> QED
  BY <1>1, <1>2, <1>3, <1>4

\* Where a returned Save leads, field by field.
LEMMA AfterSaveFields ==
  ASSUME TypeInv, NEW r
  PROVE  LET w == PoolAfterSave(r) IN
         /\ w.del = pw.del
         /\ \/ w.pc = "register" /\ w.at = "upsert" /\ pw.st = "Pending" /\ w.n = pw.n
            \/ w.pc = "scale" /\ w.todo = pw.todo - 1 /\ pw.st = "Ready"
            \/ /\ w.pc = "deregister" /\ w.todo = pw.todo /\ w.n = pw.n
               /\ pw.st = "Terminating"
            \/ w.pc = "failed" /\ w.todo = 0
<1> pw \in PoolWorkers
  BY DEF TypeInv, TypeOK
<1>1. CASE pw.st = "Pending" /\ r = "ok"
  BY <1>1 DEF PoolAfterSave, PoolWorkers
<1>2. CASE pw.st = "Ready" /\ r = "ok"
  BY <1>2 DEF PoolAfterSave, PoolWorkers
<1>3. CASE pw.st = "Terminating" /\ r = "ok"
  BY <1>3 DEF PoolAfterSave, PoolWorkers
<1>4. CASE ~(r = "ok" /\ pw.st \in {"Pending", "Ready", "Terminating"})
  <2>1. PoolAfterSave(r) = PoolFailed
    BY <1>4 DEF PoolAfterSave
  <2> QED
    BY <2>1, PoolFields
<1> QED
  BY <1>1, <1>2, <1>3, <1>4

\* Every step keeps the finalizer invariant.
LEMMA FinalizerNext ==
  ASSUME TypeInv, FinalizerInv, [Next]_vars
  PROVE  FinalizerInv'
<1> USE DEF FinalizerInv, ProvisionUnderFinalizer, Provisioning, Removing
<1>a. pool \in Pools /\ poolCache \in Pools /\ pw.todo \in Int
  BY DEF TypeInv, TypeOK, PoolWorkers
<1>b. Cardinality(ListByPool) \in Nat
  BY CountIsNat DEF ListByPool
<1>1. CASE UNCHANGED <<poolVars, pw>>
  BY <1>1 DEF poolVars
<1>2. CASE EditSpec
  BY <1>2, <1>a DEF EditSpec, Pools
<1>3. CASE DeletePool
  BY <1>3, <1>a DEF DeletePool, Pools
<1>4. CASE DeliverPool
  BY <1>4 DEF DeliverPool
<1>5. CASE Crash
  BY <1>5, PoolFields DEF Crash
<1>6. CASE PoolIgnore
  BY <1>6, PoolFields DEF PoolIgnore, PoolDone, poolFrame
<1>7. CASE PoolBegin
  <2>1. pw'.pc \in {"idle", "scale"} /\ ~pw'.del
    BY <1>7, PoolFields DEF PoolBegin, PoolDone, PoolScaling, IdlePool
  <2>2. pw'.todo # 0 => pool'.exists /\ pool'.fin
    BY <1>7, <1>a, PoolFields DEF PoolBegin, PoolDone, Pools
  <2>3. UNCHANGED poolCache /\ pool'.deleting = pool.deleting
    BY <1>7, <1>a DEF PoolBegin, PoolDone, poolFrame, Pools
  <2>4. pool.fin => pool'.fin
    BY <1>7, <1>a DEF PoolBegin, PoolDone, Pools
  <2>5. pool'.exists = pool.exists
    BY <1>7, <1>a DEF PoolBegin, PoolDone, Pools
  <2> QED
    BY <2>1, <2>2, <2>3, <2>4, <2>5
<1>8. CASE PoolBeginDeletion
  <2>1. pw'.pc = "scale" /\ pw'.todo = 0 - Cardinality(ListByPool)
    BY <1>8 DEF PoolBeginDeletion, PoolScaling, DesiredScaleActions, IdlePool
  <2>2. ~(pw'.todo > 0)
    BY <1>b, <2>1
  <2> QED
    BY <1>8, <2>1, <2>2 DEF PoolBeginDeletion, poolFrame
<1>9. CASE Provision
  BY <1>9, PoolFields DEF Provision, poolFrame
<1>10. CASE Deprovision
  BY <1>10, PoolFields DEF Deprovision, poolVars
<1>11. CASE PoolSave
  <2>1. PICK to : pw' = IF to \in SaveAts THEN [pw EXCEPT !.at = to] ELSE PoolAfterSave(to)
    BY <1>11 DEF PoolSave
  <2>2. UNCHANGED poolVars /\ pw.pc = "save"
    BY <1>11 DEF PoolSave
  <2>3. CASE to \in SaveAts
    BY <2>1, <2>2, <2>3, PoolFields DEF poolVars
  <2>4. CASE to \notin SaveAts
    BY <1>a, <2>1, <2>2, <2>4, AfterSaveFields DEF poolVars
  <2> QED
    BY <2>3, <2>4
<1>12. CASE PoolRegister
  <2>1. \/ \E to : pw' = [pw EXCEPT !.at = to]
        \/ \E st \in {"Ready", "RegFailed"} : pw' = PoolSaving(pw.n, st)
    BY <1>12 DEF PoolRegister, RegisteredStatus
  <2>2. pw'.pc \in {"register", "save"} /\ pw'.todo = pw.todo /\ pw'.del = pw.del
    BY <1>12, <2>1, PoolFields DEF PoolRegister
  <2>3. pw'.pc = "save" => pw'.st # "Terminating"
    <3>1. ASSUME NEW to, pw' = [pw EXCEPT !.at = to]
          PROVE  pw'.pc = "register"
      BY <1>12, <3>1, PoolFields DEF PoolRegister
    <3>2. ASSUME NEW st \in {"Ready", "RegFailed"}, pw' = PoolSaving(pw.n, st)
          PROVE  pw'.st # "Terminating"
      BY <3>2, PoolFields
    <3> QED
      BY <2>1, <3>1, <3>2
  <2>4. UNCHANGED poolVars /\ pw.pc = "register"
    BY <1>12 DEF PoolRegister
  <2> QED
    BY <2>2, <2>3, <2>4 DEF poolVars
<1>13. CASE PoolDeregister
  <2>1. pw'.pc = "delete" /\ pw'.todo = pw.todo /\ pw'.del = pw.del
    BY <1>13 DEF PoolDeregister, TypeInv, TypeOK, PoolWorkers
  <2> QED
    BY <1>13, <2>1 DEF PoolDeregister, poolVars
<1>14. CASE PoolDelete
  <2>1. \/ pw'.pc = "scale" /\ pw'.todo = pw.todo + 1 /\ pw'.del = pw.del
        \/ pw'.pc = "failed" /\ pw'.todo = 0 /\ pw'.del = pw.del
    BY <1>14, PoolFields DEF PoolDelete, TypeInv, TypeOK, PoolWorkers
  <2>2. ~(pw'.todo > 0)
    BY <1>14, <1>a, <2>1 DEF PoolDelete
  <2> QED
    BY <1>14, <2>1, <2>2 DEF PoolDelete, poolVars
<1>15. CASE PoolFail \/ PoolFinish \/ PoolWriteFails
  BY <1>15, PoolFields DEF PoolFail, PoolFinish, PoolWriteFails, PoolDone, poolFrame, poolVars
<1>16. CASE PoolRemaining
  <2>1. \/ pw' = IdlePool
        \/ pw'.pc = "unfinalize" /\ ~pw'.del /\ pw'.todo = 0
    BY <1>16 DEF PoolRemaining, PoolDone, IdlePool
  <2> QED
    BY <1>16, <2>1, PoolFields DEF PoolRemaining, poolFrame
<1>17. CASE PoolUnfinalize
  <2>1. pw' = IdlePool /\ UNCHANGED poolCache /\ poolCache.deleting
    BY <1>17 DEF PoolUnfinalize, PoolDone, poolFrame
  <2>2. pool'.deleting = pool.deleting
    BY <1>17, <1>a DEF PoolUnfinalize, Pools
  <2> QED
    BY <2>1, <2>2, PoolFields
<1>18. ASSUME VNodeStep \/ DeliverVNode \/ CreateSecret \/ UNCHANGED vars
       PROVE  UNCHANGED <<poolVars, pw>>
  BY <1>18 DEF VNodeStep, VNodeBegin, VNodeRegister, VNodeSync, VNodeSave, vnodeFrame,
     DeliverVNode, CreateSecret, vars
<1> QED
  BY <1>1, <1>2, <1>3, <1>4, <1>5, <1>6, <1>7, <1>8, <1>9, <1>10, <1>11, <1>12, <1>13,
     <1>14, <1>15, <1>16, <1>17, <1>18 DEF Next, Environment, PoolStep

\* No VNode of a pool is created while the pool could vanish without a clean-up:
\* Provision runs only when the finalizer is in the API server, whatever the
\* informer cache says and whenever the user deletes the pool.
THEOREM ProvisionsOnlyUnderFinalizer == Spec => []ProvisionUnderFinalizer
<1>1. Init => FinalizerInv
  <2> SUFFICES ASSUME Init PROVE FinalizerInv
    OBVIOUS
  <2>1. pw.pc = "idle" /\ ~pw.del /\ pw.todo = 0
    BY DEF Init, IdlePool
  <2>2. pool.exists /\ ~pool.deleting /\ poolCache = pool
    BY DEF Init
  <2> QED
    BY <2>1, <2>2 DEF FinalizerInv, ProvisionUnderFinalizer, Provisioning, Removing
<1>2. FinalizerInv => ProvisionUnderFinalizer
  BY DEF FinalizerInv
<1> QED
  BY <1>1, <1>2, TypeInit, TypeNext, FinalizerNext, PTL DEF Spec

-----------------------------------------------------------------------------
(* Facts about steps that the remaining theorems share. *)

\* The steps of the pool worker that touch no node leave it on none.
PoolQuiet ==
  \/ PoolIgnore \/ PoolBegin \/ PoolBeginDeletion \/ PoolFail \/ PoolFinish
  \/ PoolRemaining \/ PoolUnfinalize \/ PoolWriteFails

\* The pool worker's bookkeeping steps touch neither VNodes nor tenant.
LEMMA PoolQuietStep ==
  ASSUME PoolQuiet
  PROVE  /\ pw'.pc \in {"idle", "scale", "unfinalize"}
         /\ UNCHANGED <<repoVars, tenantVars, vw, retired>>
<1>1. /\ IdlePool.pc = "idle"
      /\ \A want, del : PoolScaling(want, del).pc = "scale"
      /\ [IdlePool EXCEPT !.pc = "unfinalize"].pc = "unfinalize"
  BY DEF IdlePool, PoolScaling
<1>2. CASE PoolIgnore \/ PoolFail \/ PoolFinish \/ PoolWriteFails \/ PoolUnfinalize
  BY <1>1, <1>2 DEF PoolIgnore, PoolFail, PoolFinish, PoolWriteFails, PoolUnfinalize,
     PoolDone, poolFrame
<1>3. CASE PoolBegin
  <2>1. pw' = IdlePool \/ pw' = PoolScaling(poolCache.count, FALSE)
    BY <1>3 DEF PoolBegin, PoolDone
  <2>2. UNCHANGED poolFrame
    BY <1>3 DEF PoolBegin
  <2> QED
    BY <1>1, <2>1, <2>2 DEF poolFrame
<1>4. CASE PoolBeginDeletion
  BY <1>1, <1>4 DEF PoolBeginDeletion, poolFrame
<1>5. CASE PoolRemaining
  <2>1. pw' = IdlePool \/ pw' = [IdlePool EXCEPT !.pc = "unfinalize"]
    BY <1>5 DEF PoolRemaining, PoolDone
  <2> QED
    BY <1>1, <1>5, <2>1 DEF PoolRemaining, poolFrame
<1> QED
  BY <1>2, <1>3, <1>4, <1>5 DEF PoolQuiet

\* Steps that change neither the workers nor what they have written.
Unrelated == EditSpec \/ DeletePool \/ CreateSecret \/ DeliverVNode \/ DeliverPool

\* Users, informers and stuttering leave the stores and both workers alone.
LEMMA UnrelatedStep ==
  ASSUME Unrelated \/ UNCHANGED vars
  PROVE  UNCHANGED <<vnodes, tenant, pw, vw, retired>>
BY DEF Unrelated, EditSpec, DeletePool, CreateSecret, DeliverVNode, DeliverPool, Apply,
   vars, repoVars, tenantVars

\* A crash idles both workers and leaves the stores alone.
LEMMA CrashStep ==
  ASSUME Crash
  PROVE  pw'.pc = "idle" /\ vw'.pc = "idle" /\ UNCHANGED <<vnodes, tenant, retired>>
BY DEF Crash, Relist, IdlePool, IdleVNode, tenantVars

\* After Delete the pool worker goes on scaling or has failed.
LEMMA PoolDeleteStep ==
  ASSUME TypeInv, PoolDelete
  PROVE  pw'.pc \in {"scale", "failed"}
<1>1. \/ pw' = [pw EXCEPT !.pc = "scale", !.n = 0, !.st = "", !.todo = pw.todo + 1,
                         !.work = pw.work \ {pw.n}]
      \/ pw' = PoolFailed
  BY DEF PoolDelete
<1>2. pw \in PoolWorkers
  BY DEF TypeInv, TypeOK
<1> QED
  BY <1>1, <1>2, PoolFields DEF PoolWorkers

\* Only names picked for Deprovision are being removed, and they stay picked.
LEMMA RetireNext ==
  ASSUME TypeInv, RetireInv, [Next]_vars
  PROVE  RetireInv' /\ retired \subseteq retired'
<1> USE DEF RetireInv, Removing
<1>1. CASE Unrelated \/ UNCHANGED vars
  BY <1>1, UnrelatedStep
<1>2. CASE Crash
  BY <1>2, CrashStep
<1>3. CASE PoolQuiet
  BY <1>3, PoolQuietStep
<1>4. CASE VNodeStep
  BY <1>4 DEF VNodeStep, VNodeBegin, VNodeRegister, VNodeSync, VNodeSave, vnodeFrame
<1>5. CASE Provision
  BY <1>5, PoolFields DEF Provision, poolFrame
<1>6. CASE Deprovision
  BY <1>6, PoolFields DEF Deprovision
<1>7. CASE PoolSave
  <2>1. PICK to : pw' = IF to \in SaveAts THEN [pw EXCEPT !.at = to] ELSE PoolAfterSave(to)
    BY <1>7 DEF PoolSave
  <2>2. UNCHANGED retired /\ pw.pc = "save"
    BY <1>7 DEF PoolSave
  <2>3. CASE to \in SaveAts
    BY <2>1, <2>2, <2>3, PoolFields
  <2>4. CASE to \notin SaveAts
    BY <2>1, <2>2, <2>4, AfterSaveFields
  <2> QED
    BY <2>3, <2>4
<1>8. CASE PoolRegister
  <2>1. ASSUME NEW to, pw' = [pw EXCEPT !.at = to]
        PROVE  ~Removing'
    <3>1. pw'.pc = "register"
      BY <1>8, <2>1, PoolFields DEF PoolRegister
    <3> QED
      BY <3>1
  <2>2. ASSUME NEW st \in {"Ready", "RegFailed"}, pw' = PoolSaving(pw.n, st)
        PROVE  ~Removing'
    BY <2>2, PoolFields
  <2> QED
    BY <1>8, <2>1, <2>2 DEF PoolRegister, RegisteredStatus
<1>9. CASE PoolDeregister
  <2>1. pw'.n = pw.n
    BY <1>9 DEF PoolDeregister, TypeInv, TypeOK, PoolWorkers
  <2> QED
    BY <1>9, <2>1 DEF PoolDeregister
<1>10. CASE PoolDelete
  <2>1. pw'.pc \in {"scale", "failed"}
    BY <1>10, PoolDeleteStep
  <2> QED
    BY <1>10, <2>1 DEF PoolDelete
<1> QED
  BY <1>1, <1>2, <1>3, <1>4, <1>5, <1>6, <1>7, <1>8, <1>9, <1>10
  DEF Next, Environment, PoolStep, PoolQuiet, Unrelated

\* Save writes its own node only, and only "New" or the status it was given.
LEMMA SaveWrites ==
  ASSUME TypeInv, NEW at, NEW n \in Names, NEW st, NEW to,
         SaveStep(at, n, st, to) \/ SaveFault(at, n, st, to)
  PROVE  \A m \in Names : vnodes'[m] = vnodes[m] \/ (m = n /\ vnodes'[m] \in {"New", st})
<1>0. vnodes \in [Names -> Statuses \cup {Absent}]
  BY DEF TypeInv, TypeOK, RepoTypeOK
<1>1. CASE UNCHANGED repoVars
  BY <1>1 DEF repoVars
<1>2. CASE vnodes' = [vnodes EXCEPT ![n] = SaveTarget(at, st)]
  BY <1>0, <1>2 DEF SaveTarget
<1> QED
  BY <1>1, <1>2 DEF SaveStep, SaveFault, Put

\* Register and UpdateNodeStatus never remove a tenant Node, and succeed only
\* when the Node is there.
LEMMA RegistrarKeeps ==
  ASSUME TypeInv, NEW at \in {"upsert", "nodeStatus"}, NEW n \in Names,
         NEW ready \in BOOLEAN, NEW to, Registrar(at, n, ready, to)
  PROVE  /\ \A m \in Names : tenant[m] # "none" => tenant'[m] # "none"
         /\ to = "ok" => tenant'[n] # "none"
         /\ to \in RegAts => to = "nodeStatus"
<1>0. tenant \in [Names -> {"none", "notReady", "ready"}]
  BY DEF TypeInv, TypeOK, TenantTypeOK
<1>1. ASSUME NEW r, RegStep(at, n, ready, r)
      PROVE  /\ \A m \in Names : tenant[m] # "none" => tenant'[m] # "none"
             /\ r = "ok" => tenant'[n] # "none"
             /\ r \in RegAts => r = "nodeStatus"
  BY <1>0, <1>1 DEF RegStep, RegAts
<1>2. CASE to \in TenantErrs
  <2>1. to # "ok" /\ to \notin RegAts
    BY <1>2, SpecsAssumption DEF RegAts
  <2>2. UNCHANGED tenantVars \/ \E r : RegStep(at, n, ready, r)
    BY DEF Registrar
  <2> QED
    BY <1>1, <2>1, <2>2 DEF tenantVars
<1> QED
  BY <1>1, <1>2 DEF Registrar

-----------------------------------------------------------------------------
(* Ready means registered. *)

\* Every step keeps the registration invariant.
LEMMA RegisteredNext ==
  ASSUME TypeInv, RegisteredInv, [Next]_vars
  PROVE  RegisteredInv'
<1>a. RetireInv' /\ retired \subseteq retired'
  BY RetireNext DEF RegisteredInv
<1>b. pw.pc \in {"save", "register", "deregister", "delete"} => pw.n \in Names
  BY DEF TypeInv, WorkersOK
<1>c. vw \in VNodeWorkers /\ (vw.pc # "idle" => vw.n \in Names)
  BY DEF TypeInv, TypeOK, WorkersOK
<1> DEFINE PoolReg == /\ pw.pc = "register" => pw.at \in {"upsert", "nodeStatus"}
                      /\ pw.pc = "save" /\ pw.st = "Ready" /\ pw.n \notin retired
                           => tenant[pw.n] # "none"
           VNodeReg == /\ vw.pc \in {"register", "sync"} => vw.at \in {"upsert", "nodeStatus"}
                       /\ vw.pc = "save" /\ vw.st = "Ready" /\ vw.n \notin retired
                            => tenant[vw.n] # "none"
<1>d. ReadyRegistered /\ PoolReg /\ VNodeReg
  BY DEF RegisteredInv
<1>e. SUFFICES ReadyRegistered' /\ PoolReg' /\ VNodeReg'
  BY <1>a DEF RegisteredInv
<1> USE DEF ReadyRegistered
<1>1. CASE Unrelated \/ UNCHANGED vars
  BY <1>1, <1>d, UnrelatedStep
<1>2. CASE Crash
  BY <1>2, <1>d, CrashStep
<1>3. CASE PoolQuiet
  BY <1>3, <1>d, PoolQuietStep DEF repoVars, tenantVars
<1>4. CASE Provision
  BY <1>4, <1>d, PoolFields DEF Provision, poolFrame, repoVars, tenantVars
<1>5. CASE Deprovision
  BY <1>5, <1>a, <1>d, PoolFields DEF Deprovision, repoVars, tenantVars
<1>6. CASE PoolSave
  <2>1. PICK to : /\ \/ SaveStep(pw.at, pw.n, pw.st, to)
                     \/ SaveFault(pw.at, pw.n, pw.st, to)
                  /\ pw' = IF to \in SaveAts THEN [pw EXCEPT !.at = to] ELSE PoolAfterSave(to)
    BY <1>6 DEF PoolSave
  <2>2. pw.pc = "save" /\ pw.n \in Names /\ UNCHANGED <<tenant, vw, retired>>
    BY <1>6, <1>b DEF PoolSave, tenantVars
  <2>3. ReadyRegistered'
    BY <1>d, <2>1, <2>2, SaveWrites
  <2>4. PoolReg'
    <3>1. CASE to \in SaveAts
      BY <1>d, <2>1, <2>2, <3>1, PoolFields
    <3>2. CASE to \notin SaveAts
      BY <2>1, <2>2, <3>2, AfterSaveFields
    <3> QED
      BY <3>1, <3>2
  <2> QED
    BY <1>d, <2>2, <2>3, <2>4
<1>7. CASE PoolRegister
  <2>1. PICK to \in RegAts \cup Results :
          /\ Registrar(pw.at, pw.n, FALSE, to)
          /\ pw' = IF to \in RegAts THEN [pw EXCEPT !.at = to]
                   ELSE PoolSaving(pw.n, RegisteredStatus(to))
    BY <1>7 DEF PoolRegister
  <2>2. /\ pw.pc = "register" /\ pw.n \in Names /\ pw.at \in {"upsert", "nodeStatus"}
        /\ UNCHANGED <<vnodes, vw, retired>>
    BY <1>7, <1>b, <1>d DEF PoolRegister, repoVars
  <2>3. /\ \A m \in Names : tenant[m] # "none" => tenant'[m] # "none"
        /\ to = "ok" => tenant'[pw.n] # "none"
        /\ to \in RegAts => to = "nodeStatus"
    BY <2>1, <2>2, RegistrarKeeps
  <2>4. PoolReg'
    <3>1. CASE to \in RegAts
      <4>1. pw'.pc = "register" /\ pw'.at = "nodeStatus"
        BY <2>1, <2>2, <2>3, <3>1, PoolFields
      <4> QED
        BY <4>1
    <3>2. CASE to \notin RegAts
      <4>1. pw'.pc = "save" /\ pw'.n = pw.n /\ pw'.st = RegisteredStatus(to)
        BY <2>1, <3>2, PoolFields
      <4> QED
        BY <2>3, <4>1 DEF RegisteredStatus
    <3> QED
      BY <3>1, <3>2
  <2> QED
    BY <1>c, <1>d, <2>2, <2>3, <2>4
<1>8. CASE PoolDeregister
  <2>1. pw.n \in retired /\ pw'.pc = "delete" /\ UNCHANGED <<vnodes, vw, retired>>
    BY <1>8, <1>d DEF PoolDeregister, RegisteredInv, RetireInv, Removing, repoVars,
       TypeInv, TypeOK, PoolWorkers
  <2>2. \A m \in Names \ {pw.n} : tenant'[m] = tenant[m]
    BY <1>8 DEF PoolDeregister, Registrar, RegStep, tenantVars, TypeInv, TypeOK, TenantTypeOK
  <2> QED
    BY <1>c, <1>d, <2>1, <2>2
<1>9. CASE PoolDelete
  <2>0. UNCHANGED <<tenant, vw, retired>>
    BY <1>9 DEF PoolDelete, tenantVars
  <2>1. pw'.pc \in {"scale", "failed"}
    BY <1>9, PoolDeleteStep
  <2>2. \A m \in Names : vnodes'[m] = vnodes[m] \/ vnodes'[m] = Absent
    BY <1>9, <1>b DEF PoolDelete, DeleteStep, Put, repoVars, TypeInv, TypeOK, RepoTypeOK
  <2> QED
    BY <1>d, <2>0, <2>1, <2>2 DEF Absent
<1>10. ASSUME NEW n \in Names, VNodeBegin(n)
       PROVE  ReadyRegistered' /\ PoolReg' /\ VNodeReg'
  <2>1. \/ vw'.pc = "idle"
        \/ vw'.pc \in {"register", "sync"} /\ vw'.at \in {"upsert", "nodeStatus"}
    BY <1>10 DEF VNodeBegin, IdleVNode
  <2> QED
    BY <1>10, <1>d, <2>1 DEF VNodeBegin, vnodeFrame, repoVars, tenantVars
<1>11. CASE VNodeRegister \/ VNodeSync
  <2>1. PICK ready \in BOOLEAN, to \in RegAts \cup Results :
          /\ Registrar(vw.at, vw.n, ready, to)
          /\ \/ vw' = [vw EXCEPT !.at = to] /\ to \in RegAts
             \/ VNodeSaving("Ready", "ok") /\ to = "ok"
             \/ \E st \in {"RegFailed", "SyncFailed"} : VNodeSaving(st, to)
             \/ \E err : VNodeReturn(err)
    <3>1. CASE VNodeRegister
      BY <3>1 DEF VNodeRegister, Results
    <3>2. CASE VNodeSync
      BY <3>2 DEF VNodeSync, Results
    <3> QED
      BY <1>11, <3>1, <3>2
  <2>2. /\ vw.pc \in {"register", "sync"} /\ vw.n \in Names /\ vw.at \in {"upsert", "nodeStatus"}
        /\ UNCHANGED <<vnodes, pw, retired>>
    BY <1>11, <1>c, <1>d DEF VNodeRegister, VNodeSync, repoVars, vnodeFrame
  <2>3. /\ \A m \in Names : tenant[m] # "none" => tenant'[m] # "none"
        /\ to = "ok" => tenant'[vw.n] # "none"
        /\ to \in RegAts => to = "nodeStatus"
    BY <2>1, <2>2, RegistrarKeeps
  <2>4. VNodeReg'
    <3>1. CASE vw' = [vw EXCEPT !.at = to] /\ to \in RegAts
      BY <1>c, <2>2, <2>3, <3>1 DEF VNodeWorkers
    <3>2. CASE VNodeSaving("Ready", "ok") /\ to = "ok"
      BY <1>c, <2>3, <3>2 DEF VNodeSaving, VNodeWorkers
    <3>3. ASSUME NEW st \in {"RegFailed", "SyncFailed"}, VNodeSaving(st, to)
          PROVE  VNodeReg'
      BY <1>c, <3>3 DEF VNodeSaving, VNodeWorkers
    <3>4. ASSUME NEW err, VNodeReturn(err)
          PROVE  VNodeReg'
      BY <3>4 DEF VNodeReturn, IdleVNode
    <3> QED
      BY <2>1, <3>1, <3>2, <3>3, <3>4
  <2> QED
    BY <1>b, <1>d, <2>2, <2>3, <2>4
<1>12. CASE VNodeSave
  <2>1. PICK to : /\ \/ SaveStep(vw.at, vw.n, vw.st, to)
                     \/ SaveFault(vw.at, vw.n, vw.st, to)
                  /\ \/ vw' = [vw EXCEPT !.at = to]
                     \/ \E err : VNodeReturn(err)
    BY <1>12 DEF VNodeSave, Results
  <2>2. vw.pc = "save" /\ vw.n \in Names /\ UNCHANGED <<tenant, pw, retired>>
    BY <1>12, <1>c DEF VNodeSave, tenantVars, vnodeFrame
  <2>3. ReadyRegistered'
    BY <1>d, <2>1, <2>2, SaveWrites
  <2>4. VNodeReg'
    <3>1. CASE vw' = [vw EXCEPT !.at = to]
      <4>1. vw'.pc = vw.pc /\ vw'.n = vw.n /\ vw'.st = vw.st
        BY <1>c, <3>1 DEF VNodeWorkers
      <4> QED
        BY <1>d, <2>2, <4>1
    <3>2. ASSUME NEW err, VNodeReturn(err)
          PROVE  VNodeReg'
      BY <3>2 DEF VNodeReturn, IdleVNode
    <3> QED
      BY <2>1, <3>1, <3>2
  <2> QED
    BY <1>d, <2>2, <2>3, <2>4
<1> QED
  BY <1>1, <1>2, <1>3, <1>4, <1>5, <1>6, <1>7, <1>8, <1>9, <1>10, <1>11, <1>12
  DEF Next, Environment, PoolStep, VNodeStep, PoolQuiet, Unrelated

\* Whatever the tenant API, the host API or a crash does to the two workers, a
\* VNode nobody is removing says Ready only if the tenant has a Node for it.
THEOREM ReadyIsRegistered == Spec => []ReadyRegistered
<1>1. Init => RegisteredInv
  <2> SUFFICES ASSUME Init PROVE RegisteredInv
    OBVIOUS
  <2>1. pw.pc = "idle" /\ vw.pc = "idle"
    BY DEF Init, IdlePool, IdleVNode
  <2>2. ReadyRegistered
    BY DEF Init, ReadyRegistered, Absent
  <2> QED
    BY <2>1, <2>2 DEF RegisteredInv, RetireInv, Removing
<1>2. RegisteredInv => ReadyRegistered
  BY DEF RegisteredInv
<1> QED
  BY <1>1, <1>2, TypeInit, TypeNext, RegisteredNext, PTL DEF Spec

-----------------------------------------------------------------------------
(* Only retired names are re-created. *)

\* A write adds at most one event, of its own node and status.
LEMMA PutEvents ==
  ASSUME TypeInv, NEW n \in Names, NEW st, Put(n, st), st # Absent \/ n \in retired,
         \A i \in 1..Len(watch) : watch[i].st = Absent => watch[i].n \in retired
  PROVE  /\ \A i \in 1..Len(watch') : watch'[i].st = Absent => watch'[i].n \in retired
         /\ UNCHANGED cache
<1>0. watch \in Seq(Event)
  BY DEF TypeInv, TypeOK, RepoTypeOK
<1>1. CASE UNCHANGED repoVars
  BY <1>1 DEF repoVars
<1>2. CASE watch' = Append(watch, [n |-> n, st |-> st]) /\ UNCHANGED cache
  <2>1. Len(watch') = Len(watch) + 1 /\ watch'[Len(watch) + 1] = [n |-> n, st |-> st]
    BY <1>0, <1>2
  <2>2. \A i \in 1..Len(watch) : watch'[i] = watch[i]
    BY <1>0, <1>2
  <2>3. \A i \in 1..Len(watch') : i \in 1..Len(watch) \/ i = Len(watch) + 1
    BY <1>0, <2>1
  <2> QED
    BY <1>2, <2>1, <2>2, <2>3
<1> QED
  BY <1>1, <1>2 DEF Put

\* Save announces no deletion of a VNode nobody picked for Deprovision.
LEMMA SaveEvents ==
  ASSUME TypeInv, NEW at, NEW n \in Names, NEW st \in Statuses, NEW to,
         SaveStep(at, n, st, to) \/ SaveFault(at, n, st, to),
         \A i \in 1..Len(watch) : watch[i].st = Absent => watch[i].n \in retired
  PROVE  /\ \A i \in 1..Len(watch') : watch'[i].st = Absent => watch'[i].n \in retired
         /\ UNCHANGED cache
<1>1. SaveTarget(at, st) # Absent
  BY DEF SaveTarget, Statuses, Absent
<1>2. CASE UNCHANGED repoVars
  BY <1>2 DEF repoVars
<1>3. CASE Put(n, SaveTarget(at, st))
  BY <1>1, <1>3, PutEvents
<1> QED
  BY <1>2, <1>3 DEF SaveStep, SaveFault

\* Every step keeps the resurrection invariant.
LEMMA ResurrectNext ==
  ASSUME TypeInv, ResurrectInv, [Next]_vars
  PROVE  ResurrectInv'
<1> DEFINE Events == \A i \in 1..Len(watch) : watch[i].st = Absent => watch[i].n \in retired
           Cached == vw.pc # "idle" /\ vw.n \notin retired => cache[vw.n] # Absent
<1>a. RetireInv' /\ retired \subseteq retired'
  BY RetireNext DEF ResurrectInv
<1>b. Events /\ Cached /\ ResurrectsOnlyRetired
  BY DEF ResurrectInv
<1>c. vw \in VNodeWorkers /\ (vw.pc # "idle" => vw.n \in Names)
  BY DEF TypeInv, TypeOK, WorkersOK
<1>d. pw.pc \in {"save", "register", "deregister", "delete"} => pw.n \in Names
  BY DEF TypeInv, WorkersOK
<1>e. SUFFICES Events' /\ Cached' /\ ResurrectsOnlyRetired'
  BY <1>a DEF ResurrectInv
<1> USE DEF ResurrectsOnlyRetired
<1>1. CASE UNCHANGED <<watch, cache, vw>>
  BY <1>1, <1>a, <1>b
<1>2. CASE DeliverVNode
  <2>1. watch \in Seq(Event) /\ watch # <<>> /\ watch' = Tail(watch) /\ UNCHANGED <<vw, retired>>
    BY <1>2 DEF DeliverVNode, Apply, TypeInv, TypeOK, RepoTypeOK
  <2>2. Events'
    <3>1. \A i \in 1..Len(watch') : i + 1 \in 1..Len(watch) /\ watch'[i] = watch[i + 1]
      BY <2>1
    <3> QED
      BY <1>b, <2>1, <3>1
  <2>3. Cached'
    <3>1. 1 \in 1..Len(watch) /\ Head(watch) = watch[1]
      BY <2>1
    <3>2. cache' = [cache EXCEPT ![Head(watch).n] = Head(watch).st]
      BY <1>2 DEF DeliverVNode, Apply
    <3>3. Head(watch).st = Absent => Head(watch).n \in retired
      BY <1>b, <3>1
    <3>4. cache \in [Names -> Statuses \cup {Absent}]
      BY DEF TypeInv, TypeOK, RepoTypeOK
    <3> QED
      BY <1>b, <1>c, <2>1, <3>2, <3>3, <3>4
  <2> QED
    BY <1>b, <2>1, <2>2, <2>3
<1>3. CASE Crash
  <2>1. watch' = <<>> /\ vw'.pc = "idle"
    BY <1>3 DEF Crash, Relist, IdleVNode
  <2> QED
    BY <2>1
<1>4. CASE PoolSave
  <2>1. pw.n \in Names /\ pw.st \in Statuses /\ UNCHANGED <<vw, retired>>
    BY <1>4 DEF PoolSave, TypeInv, WorkersOK
  <2>2. Events' /\ UNCHANGED cache
    BY <1>4, <1>b, <2>1, SaveEvents DEF PoolSave
  <2> QED
    BY <1>b, <2>1, <2>2
<1>5. CASE PoolDelete
  <2>1. pw.n \in Names /\ pw.n \in retired /\ UNCHANGED <<vw, retired>>
    BY <1>5, <1>d DEF PoolDelete, ResurrectInv, RetireInv, Removing
  <2>2. Events' /\ UNCHANGED cache
    BY <1>5, <1>b, <2>1, PutEvents DEF PoolDelete, DeleteStep, repoVars
  <2> QED
    BY <1>b, <2>1, <2>2
<1>6. ASSUME NEW n \in Names, VNodeBegin(n)
      PROVE  Events' /\ Cached' /\ ResurrectsOnlyRetired'
  <2>1. \/ vw'.pc = "idle"
        \/ vw'.pc \in {"register", "sync"} /\ vw'.n = n /\ cache[n] # Absent
    BY <1>6 DEF VNodeBegin, IdleVNode
  <2>2. UNCHANGED <<watch, cache, retired>>
    BY <1>6 DEF VNodeBegin, repoVars, vnodeFrame
  <2> QED
    BY <1>b, <2>1, <2>2
<1>7. CASE VNodeRegister \/ VNodeSync
  <2>1. \/ vw'.pc = "idle"
        \/ vw'.pc = vw.pc /\ vw'.n = vw.n
        \/ vw'.pc = "save" /\ vw'.n = vw.n /\ vw'.at = "get"
    <3>1. \A st, err : VNodeSaving(st, err) => vw'.pc = "save" /\ vw'.n = vw.n /\ vw'.at = "get"
      BY <1>c DEF VNodeSaving, VNodeWorkers
    <3>2. ASSUME NEW err, VNodeReturn(err)
          PROVE  vw'.pc = "idle"
      BY <3>2 DEF VNodeReturn, IdleVNode
    <3>3. \A to : vw' = [vw EXCEPT !.at = to] => vw'.pc = vw.pc /\ vw'.n = vw.n
      BY <1>c DEF VNodeWorkers
    <3>4. CASE VNodeRegister
      BY <3>1, <3>2, <3>3, <3>4 DEF VNodeRegister, Results
    <3>5. CASE VNodeSync
      BY <3>1, <3>2, <3>3, <3>5 DEF VNodeSync, Results
    <3> QED
      BY <1>7, <3>4, <3>5
  <2>2. UNCHANGED <<watch, cache, retired>> /\ vw.pc \in {"register", "sync"}
    BY <1>7 DEF VNodeRegister, VNodeSync, repoVars, vnodeFrame
  <2> QED
    BY <1>b, <2>1, <2>2
<1>8. CASE VNodeSave
  <2>1. vw.pc = "save" /\ vw.n \in Names /\ vw.st \in Statuses /\ UNCHANGED retired
    BY <1>8 DEF VNodeSave, vnodeFrame, TypeInv, WorkersOK
  <2>2. PICK to : /\ \/ SaveStep(vw.at, vw.n, vw.st, to)
                     \/ SaveFault(vw.at, vw.n, vw.st, to)
                  /\ \/ vw' = [vw EXCEPT !.at = to] /\ to \in SaveAts
                     \/ \E err : VNodeReturn(err)
    BY <1>8 DEF VNodeSave, Results
  <2>3. Events' /\ UNCHANGED cache
    BY <1>b, <2>1, <2>2, SaveEvents
  <2>4. CASE vw' = [vw EXCEPT !.at = to] /\ to \in SaveAts
    <3>1. vw'.pc = "save" /\ vw'.n = vw.n /\ vw'.at = to
      BY <1>c, <2>1, <2>4 DEF VNodeWorkers
    <3>2. to = "create" => cache[vw.n] = Absent
      BY <2>2, <2>4 DEF SaveStep, SaveFault, SaveBranch, SaveNext, SaveRejected, SaveAts
    <3>3. to = "created" => vw.at = "create"
      BY <2>2, <2>4 DEF SaveStep, SaveFault, SaveBranch, SaveNext, SaveRejected, SaveAts
    <3> QED
      BY <1>b, <2>1, <2>3, <3>1, <3>2, <3>3
  <2>5. ASSUME NEW err, VNodeReturn(err)
        PROVE  vw'.pc = "idle"
    BY <2>5 DEF VNodeReturn, IdleVNode
  <2> QED
    BY <2>2, <2>3, <2>4, <2>5
<1>9. ASSUME \/ EditSpec \/ DeletePool \/ CreateSecret \/ DeliverPool \/ PoolQuiet
             \/ Provision \/ Deprovision \/ PoolRegister \/ PoolDeregister \/ UNCHANGED vars
      PROVE  UNCHANGED <<watch, cache, vw>>
  BY <1>9, PoolQuietStep DEF EditSpec, DeletePool, CreateSecret, DeliverPool, Provision,
     Deprovision, PoolRegister, PoolDeregister, poolFrame, vars, repoVars
<1> QED
  BY <1>1, <1>2, <1>3, <1>4, <1>5, <1>6, <1>7, <1>8, <1>9
  DEF Next, Environment, PoolStep, VNodeStep, PoolQuiet

\* However far the informer cache lags, the VNode controller's Save takes its
\* create branch only for a node the pool controller has chosen to remove.
THEOREM OnlyRetiredAreResurrected == Spec => []ResurrectsOnlyRetired
<1>1. Init => ResurrectInv
  <2> SUFFICES ASSUME Init PROVE ResurrectInv
    OBVIOUS
  <2>1. pw.pc = "idle" /\ vw.pc = "idle" /\ watch = <<>>
    BY DEF Init, IdlePool, IdleVNode
  <2> QED
    BY <2>1 DEF ResurrectInv, RetireInv, Removing, ResurrectsOnlyRetired
<1>2. ResurrectInv => ResurrectsOnlyRetired
  BY DEF ResurrectInv
<1> QED
  BY <1>1, <1>2, TypeInit, TypeNext, ResurrectNext, PTL DEF Spec
=============================================================================
