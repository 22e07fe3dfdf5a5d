------------------------ MODULE VNodeRefinement_proofs ------------------------
(* VNodeLifecycle implements VNodeContract, for every size, lag and fault. *)
EXTENDS VNodeRefinement, VNodeLifecycle_safety

\* A copy of n with no event in flight is the current one, and so is the latest
\* event of n otherwise: the informer loses and reorders nothing.
Coherent ==
  \A n \in Names :
    /\ Fresh(n) => cache[n] = vnodes[n]
    /\ \A i \in 1..Len(watch) :
         watch[i].n = n /\ (\A j \in 1..Len(watch) : j > i => watch[j].n # n)
           => watch[i].st = vnodes[n]

\* What the cache and the events in flight still show of a node nobody removes
\* is in the API server.
SeenInv ==
  /\ \A n \in Names \ retired : cache[n] # Absent => vnodes[n] # Absent
  /\ \A i \in 1..Len(watch) :
       watch[i].st # Absent /\ watch[i].n \notin retired => vnodes[watch[i].n] # Absent

\* The node a worker is on is there once its Save has begun to write, or when
\* it was read from the cache; so are the nodes the pool worker has listed.
PoolOn ==
  \/ pw.pc = "register"
  \/ pw.pc = "save" /\ (pw.st \in {"Ready", "RegFailed"} \/ pw.at \in {"created", "status"})
WorkedInv ==
  /\ vw.pc # "idle" /\ vw.n \notin retired => vnodes[vw.n] # Absent
  /\ PoolOn /\ pw.n \notin retired => vnodes[pw.n] # Absent
  /\ \A n \in pw.work \ retired : vnodes[n] # Absent

\* The statuses each worker saves.
SavedInv ==
  /\ pw.pc = "save" => pw.st \in {"Pending", "Ready", "RegFailed", "Terminating"}
  /\ vw.pc = "save" => vw.st \in {"Ready", "RegFailed", "SyncFailed"}

\* All that the refinement rests on.
ContractInv ==
  /\ TypeInv /\ FinalizerInv /\ RegisteredInv /\ ResurrectInv
  /\ Coherent /\ SeenInv /\ WorkedInv /\ SavedInv /\ NoOrphanNodes

-----------------------------------------------------------------------------
(* The repository. *)

\* The store changes by one accepted write at a time, and only a picked name is
\* deleted; the cache changes by the oldest event or by a relist.
LEMMA RepoStep ==
  ASSUME TypeInv, RetireInv, [Next]_vars
  PROVE  \/ UNCHANGED repoVars
         \/ \E n \in Names, st \in Statuses \cup {Absent} :
              Put(n, st) /\ (st = Absent => n \in retired)
         \/ Apply
         \/ Relist
<1>1. CASE Unrelated \/ UNCHANGED vars
  BY <1>1 DEF Unrelated, EditSpec, DeletePool, CreateSecret, DeliverVNode, DeliverPool, vars
<1>2. CASE Crash
  BY <1>2 DEF Crash
<1>3. CASE PoolQuiet
  BY <1>3, PoolQuietStep
<1>4. CASE Provision \/ Deprovision \/ PoolRegister \/ PoolDeregister
  BY <1>4 DEF Provision, Deprovision, PoolRegister, PoolDeregister, poolFrame
<1>s. ASSUME NEW at, NEW n \in Names, NEW st \in Statuses, NEW to,
             SaveStep(at, n, st, to) \/ SaveFault(at, n, st, to)
      PROVE  UNCHANGED repoVars \/ \E t \in Statuses : Put(n, t)
  <2>1. SaveTarget(at, st) \in Statuses
    BY DEF SaveTarget, Statuses
  <2> QED
    BY <1>s, <2>1 DEF SaveStep, SaveFault
<1>a. \A t \in Statuses : t # Absent
  BY DEF Statuses, Absent
<1>5. CASE PoolSave
  <2>1. pw.n \in Names /\ pw.st \in Statuses
    BY <1>5 DEF PoolSave, TypeInv, WorkersOK
  <2>2. PICK to : SaveStep(pw.at, pw.n, pw.st, to) \/ SaveFault(pw.at, pw.n, pw.st, to)
    BY <1>5 DEF PoolSave
  <2> QED
    BY <1>s, <1>a, <2>1, <2>2
<1>6. CASE VNodeSave
  <2>1. vw.n \in Names /\ vw.st \in Statuses
    BY <1>6 DEF VNodeSave, TypeInv, WorkersOK
  <2>2. PICK to : SaveStep(vw.at, vw.n, vw.st, to) \/ SaveFault(vw.at, vw.n, vw.st, to)
    BY <1>6 DEF VNodeSave
  <2> QED
    BY <1>s, <1>a, <2>1, <2>2
<1>7. CASE PoolDelete
  <2>1. pw.n \in Names /\ pw.n \in retired
    BY <1>7 DEF PoolDelete, TypeInv, WorkersOK, RetireInv, Removing
  <2> QED
    BY <1>7, <2>1 DEF PoolDelete, DeleteStep
<1>8. CASE (\E n \in Names : VNodeBegin(n)) \/ VNodeRegister \/ VNodeSync
  BY <1>8 DEF VNodeBegin, VNodeRegister, VNodeSync
<1> QED
  BY <1>1, <1>2, <1>3, <1>4, <1>5, <1>6, <1>7, <1>8
  DEF Next, Environment, PoolStep, VNodeStep, PoolQuiet, Unrelated

\* Events of a queue that has grown by one, or has lost its head.
LEMMA QueueGrows ==
  ASSUME NEW e, watch \in Seq(Event), watch' = Append(watch, e)
  PROVE  /\ Len(watch) \in Nat /\ Len(watch') = Len(watch) + 1
         /\ watch'[Len(watch')] = e
         /\ \A i \in 1..Len(watch) : watch'[i] = watch[i]
         /\ \A i \in 1..Len(watch') : i = Len(watch') \/ i \in 1..Len(watch)
OBVIOUS

\* What is left of the events once the oldest has been applied.
LEMMA QueueShrinks ==
  ASSUME watch \in Seq(Event), watch # <<>>, watch' = Tail(watch)
  PROVE  /\ Len(watch) \in Nat \ {0} /\ Len(watch') = Len(watch) - 1
         /\ Head(watch) = watch[1]
         /\ \A i \in 1..Len(watch') : watch'[i] = watch[i + 1] /\ i + 1 \in 1..Len(watch)
OBVIOUS

\* A node that is there and not picked for removal stays.
LEMMA NodesStay ==
  ASSUME TypeInv, RetireInv, [Next]_vars, NEW n \in Names \ retired, vnodes[n] # Absent
  PROVE  vnodes'[n] # Absent
<1>1. vnodes \in [Names -> Statuses \cup {Absent}]
  BY DEF TypeInv, TypeOK, RepoTypeOK
<1> QED
  BY <1>1, RepoStep DEF Put, Apply, Relist, repoVars

\* The informer's view stays coherent.
LEMMA CoherentNext ==
  ASSUME TypeInv, RetireInv, Coherent, [Next]_vars
  PROVE  Coherent'
<1>0. /\ watch \in Seq(Event) /\ Len(watch) \in Nat
      /\ vnodes \in [Names -> Statuses \cup {Absent}]
      /\ cache \in [Names -> Statuses \cup {Absent}]
  BY DEF TypeInv, TypeOK, RepoTypeOK
<1>1. CASE UNCHANGED repoVars
  BY <1>1 DEF repoVars, Coherent, Fresh
<1>2. ASSUME NEW m \in Names, NEW st,
             vnodes' = [vnodes EXCEPT ![m] = st],
             watch' = Append(watch, [n |-> m, st |-> st]), UNCHANGED cache
      PROVE  Coherent'
  <2> DEFINE e == [n |-> m, st |-> st]
             last == Len(watch')
  <2>1. /\ last = Len(watch) + 1 /\ last \in 1..Len(watch') /\ watch'[last] = e
        /\ \A i \in 1..Len(watch) : watch'[i] = watch[i] /\ i \in 1..Len(watch')
        /\ \A i \in 1..Len(watch') : i = last \/ i \in 1..Len(watch)
    BY <1>0, <1>2, QueueGrows
  <2>2. vnodes'[m] = st /\ \A n \in Names \ {m} : vnodes'[n] = vnodes[n]
    BY <1>0, <1>2
  <2>3. ASSUME NEW n \in Names, Fresh(n)'
        PROVE  cache'[n] = vnodes'[n]
    <3>1. n # m
      BY <2>1, <2>3 DEF Fresh
    <3>2. Fresh(n)
      BY <2>1, <2>3 DEF Fresh
    <3> QED
      BY <1>2, <2>2, <3>1, <3>2 DEF Coherent
  <2>4. ASSUME NEW n \in Names, NEW i \in 1..Len(watch'), watch'[i].n = n,
               \A j \in 1..Len(watch') : j > i => watch'[j].n # n
        PROVE  watch'[i].st = vnodes'[n]
    <3>1. CASE i = last
      BY <2>1, <2>2, <2>4, <3>1
    <3>2. CASE i # last
      <4>1. i \in 1..Len(watch) /\ watch'[i] = watch[i] /\ last > i
        BY <1>0, <2>1, <3>2
      <4>2. n # m
        BY <2>1, <2>4, <4>1
      <4>3. \A j \in 1..Len(watch) : j > i => watch[j].n # n
        BY <2>1, <2>4
      <4>4. watch[i].n = n
        BY <2>4, <4>1
      <4>5. watch[i].st = vnodes[n]
        BY <4>1, <4>3, <4>4 DEF Coherent
      <4> QED
        BY <2>2, <4>1, <4>2, <4>5
    <3> QED
      BY <3>1, <3>2
  <2> QED
    BY <2>3, <2>4 DEF Coherent
<1>3. CASE Apply
  <2>1. /\ Len(watch') = Len(watch) - 1 /\ Head(watch) = watch[1] /\ 1 \in 1..Len(watch)
        /\ \A i \in 1..Len(watch') : watch'[i] = watch[i + 1] /\ i + 1 \in 1..Len(watch)
    BY <1>0, <1>3, QueueShrinks DEF Apply
  <2>2. UNCHANGED vnodes /\ cache' = [cache EXCEPT ![watch[1].n] = watch[1].st]
    BY <1>3, <2>1 DEF Apply
  <2>3. ASSUME NEW j \in 1..Len(watch), j # 1
        PROVE  j - 1 \in 1..Len(watch') /\ watch'[j - 1] = watch[j]
    <3>1. j - 1 \in 1..Len(watch') /\ (j - 1) + 1 = j
      BY <1>0, <2>1, <2>3
    <3> QED
      BY <2>1, <3>1
  <2>4. ASSUME NEW n \in Names, Fresh(n)'
        PROVE  cache'[n] = vnodes'[n]
    <3>1. \A j \in 1..Len(watch) : j > 1 => watch[j].n # n
      BY <2>3, <2>4 DEF Fresh
    <3>2. CASE watch[1].n = n
      <4>1. watch[1].st = vnodes[n]
        BY <2>1, <3>1, <3>2 DEF Coherent
      <4> QED
        BY <1>0, <2>2, <3>2, <4>1
    <3>3. CASE watch[1].n # n
      <4>1. Fresh(n)
        BY <1>0, <3>1, <3>3 DEF Fresh
      <4> QED
        BY <1>0, <2>2, <3>3, <4>1 DEF Coherent
    <3> QED
      BY <3>2, <3>3
  <2>5. ASSUME NEW n \in Names, NEW i \in 1..Len(watch'), watch'[i].n = n,
               \A j \in 1..Len(watch') : j > i => watch'[j].n # n
        PROVE  watch'[i].st = vnodes'[n]
    <3>1. watch'[i] = watch[i + 1] /\ i + 1 \in 1..Len(watch)
      BY <2>1
    <3>2. \A j \in 1..Len(watch) : j > i + 1 => watch[j].n # n
      BY <2>3, <2>5
    <3> QED
      BY <2>2, <2>5, <3>1, <3>2 DEF Coherent
  <2> QED
    BY <2>4, <2>5 DEF Coherent
<1>4. CASE Relist
  BY <1>4 DEF Relist, Coherent, Fresh
<1> QED
  BY <1>1, <1>2, <1>3, <1>4, RepoStep DEF Put

\* What the cache and the events show of a node nobody removes stays true.
LEMMA SeenNext ==
  ASSUME TypeInv, RetireInv, SeenInv, [Next]_vars
  PROVE  SeenInv'
<1>a. /\ watch \in Seq(Event) /\ Len(watch) \in Nat
      /\ vnodes \in [Names -> Statuses \cup {Absent}]
      /\ cache \in [Names -> Statuses \cup {Absent}]
  BY DEF TypeInv, TypeOK, RepoTypeOK
<1>b. \A i \in 1..Len(watch) : watch[i] \in Event
  BY <1>a
<1>0. /\ watch \in Seq(Event) /\ Len(watch) \in Nat
      /\ \A i \in 1..Len(watch) : watch[i].n \in Names
      /\ vnodes \in [Names -> Statuses \cup {Absent}]
      /\ cache \in [Names -> Statuses \cup {Absent}]
  BY <1>a, <1>b DEF Event
<1>1. retired \subseteq retired'
  BY RetireNext
<1>2. \A n \in Names \ retired' : vnodes[n] # Absent => vnodes'[n] # Absent
  BY <1>1, NodesStay
<1>3. CASE UNCHANGED <<cache, watch>>
  BY <1>0, <1>1, <1>2, <1>3 DEF SeenInv
<1>4. ASSUME NEW m \in Names, NEW st,
             vnodes' = [vnodes EXCEPT ![m] = st],
             watch' = Append(watch, [n |-> m, st |-> st]), UNCHANGED cache
      PROVE  SeenInv'
  <2>1. /\ watch'[Len(watch')] = [n |-> m, st |-> st]
        /\ \A i \in 1..Len(watch) : watch'[i] = watch[i]
        /\ \A i \in 1..Len(watch') : i = Len(watch') \/ i \in 1..Len(watch)
    BY <1>0, <1>4, QueueGrows
  <2>2. vnodes'[m] = st
    BY <1>0, <1>4
  <2> QED
    BY <1>0, <1>1, <1>2, <1>4, <2>1, <2>2 DEF SeenInv
<1>5. CASE Apply
  <2>1. /\ Head(watch) = watch[1] /\ 1 \in 1..Len(watch)
        /\ \A i \in 1..Len(watch') : watch'[i] = watch[i + 1] /\ i + 1 \in 1..Len(watch)
    BY <1>0, <1>5, QueueShrinks DEF Apply
  <2>2. UNCHANGED vnodes /\ cache' = [cache EXCEPT ![watch[1].n] = watch[1].st]
    BY <1>5, <2>1 DEF Apply
  <2>3. \A n \in Names \ retired' : cache'[n] # Absent => vnodes'[n] # Absent
    BY <1>0, <1>1, <2>1, <2>2 DEF SeenInv
  <2>4. \A i \in 1..Len(watch') :
          watch'[i].st # Absent /\ watch'[i].n \notin retired' => vnodes'[watch'[i].n] # Absent
    BY <1>1, <2>1, <2>2 DEF SeenInv
  <2> QED
    BY <2>3, <2>4 DEF SeenInv
<1>6. CASE Relist
  BY <1>6 DEF Relist, SeenInv
<1> QED
  BY <1>3, <1>4, <1>5, <1>6, RepoStep DEF Put, repoVars

-----------------------------------------------------------------------------
(* The workers. *)

\* Where a step of Save leads: a node is there once a write has been accepted,
\* and success is reported only after one or by updateStatus.
LEMMA SaveLeads ==
  ASSUME TypeInv, NEW at, NEW n \in Names, NEW st \in Statuses, NEW to,
         SaveStep(at, n, st, to) \/ SaveFault(at, n, st, to)
  PROVE  /\ to = "created" => vnodes'[n] # Absent
         /\ to = "status" => at = "created" \/ cache[n] # Absent
         /\ to = "ok" => at \in {"created", "status"}
         /\ to = "get" => FALSE
<1>0. vnodes \in [Names -> Statuses \cup {Absent}]
  BY DEF TypeInv, TypeOK, RepoTypeOK
<1>1. CASE SaveStep(at, n, st, to)
  <2>1. CASE at = "get"
    BY <1>1, <2>1 DEF SaveStep, SaveBranch, SaveAts
  <2>2. CASE SaveAccepted(at, n) /\ at \in SaveAts \ {"get"} /\ at # "get"
    <3>1. Put(n, SaveTarget(at, st)) /\ to = SaveNext(at)
      BY <1>1, <2>2 DEF SaveStep
    <3>2. vnodes'[n] = SaveTarget(at, st)
      BY <1>0, <3>1 DEF Put, repoVars
    <3>3. SaveTarget(at, st) # Absent
      BY DEF SaveTarget, Statuses, Absent
    <3> QED
      BY <2>2, <3>1, <3>2, <3>3 DEF SaveNext, SaveAts
  <2>3. CASE ~SaveAccepted(at, n) /\ at \in SaveAts \ {"get"} /\ at # "get"
    <3>1. to = SaveRejected(at, n)
      BY <1>1, <2>3 DEF SaveStep
    <3> QED
      BY <2>3, <3>1 DEF SaveRejected, SaveAts
  <2> QED
    BY <1>1, <2>1, <2>2, <2>3 DEF SaveStep
<1>2. CASE SaveFault(at, n, st, to)
  BY <1>2 DEF SaveFault, SaveAts
<1> QED
  BY <1>1, <1>2

\* The nodes a pool worker works through were listed by it.
LEMMA WorkIsListed ==
  ASSUME TypeInv, [Next]_vars
  PROVE  pw'.work \subseteq pw.work \cup Present(cache)
<1> pw \in PoolWorkers
  BY DEF TypeInv, TypeOK
<1>1. CASE UNCHANGED pw
  BY <1>1
<1>2. ASSUME pw' = IdlePool \/ pw' = [IdlePool EXCEPT !.pc = "unfinalize"]
      PROVE  pw'.work = {}
  <2>1. IdlePool.work = {} /\ [IdlePool EXCEPT !.pc = "unfinalize"].work = {}
    BY DEF IdlePool
  <2> QED
    BY <1>2, <2>1
<1>3. ASSUME NEW want, NEW del, pw' = PoolScaling(want, del)
      PROVE  pw'.work \subseteq Present(cache)
  <2> DEFINE todo == DesiredScaleActions(want, Cardinality(ListByPool))
             work == IF todo < 0 THEN ListByPool ELSE {}
  <2>1. pw' = [IdlePool EXCEPT !.pc = "scale", !.del = del, !.todo = todo, !.work = work]
    BY <1>3 DEF PoolScaling
  <2>2. work \subseteq Present(cache)
    BY DEF ListByPool
  <2> HIDE DEF todo, work
  <2>3. pw'.work = work
    BY <2>1 DEF IdlePool
  <2> QED
    BY <2>2, <2>3
<1>4. ASSUME NEW n, NEW st, pw' = PoolSaving(n, st)
      PROVE  pw'.work = pw.work
  BY <1>4 DEF PoolSaving, PoolWorkers
<1>5. ASSUME NEW to, pw' = [pw EXCEPT !.at = to]
      PROVE  pw'.work = pw.work
  BY <1>5 DEF PoolWorkers
<1>6. ASSUME pw' = PoolFailed
      PROVE  pw'.work = {}
  BY <1>6 DEF PoolFailed, PoolWorkers
<1>7. ASSUME NEW r, pw' = PoolAfterSave(r)
      PROVE  pw'.work \subseteq pw.work
  <2>1. CASE pw.st = "Pending" /\ r = "ok"
    BY <1>7, <2>1 DEF PoolAfterSave, PoolWorkers
  <2>2. CASE pw.st = "Ready" /\ r = "ok"
    BY <1>7, <2>2 DEF PoolAfterSave, PoolWorkers
  <2>3. CASE pw.st = "Terminating" /\ r = "ok"
    BY <1>7, <2>3 DEF PoolAfterSave, PoolWorkers
  <2>4. CASE ~(r = "ok" /\ pw.st \in {"Pending", "Ready", "Terminating"})
    <3>1. PoolAfterSave(r) = PoolFailed
      BY <2>4 DEF PoolAfterSave
    <3> QED
      BY <1>6, <1>7, <3>1
  <2> QED
    BY <2>1, <2>2, <2>3, <2>4
<1>8. CASE PoolDelete
  <2>1. \/ pw' = [pw EXCEPT !.pc = "scale", !.n = 0, !.st = "", !.todo = pw.todo + 1,
                            !.work = pw.work \ {pw.n}]
        \/ pw' = PoolFailed
    BY <1>8 DEF PoolDelete
  <2>2. ASSUME pw' = [pw EXCEPT !.pc = "scale", !.n = 0, !.st = "", !.todo = pw.todo + 1,
                                !.work = pw.work \ {pw.n}]
        PROVE  pw'.work = pw.work \ {pw.n}
    BY <2>2 DEF PoolWorkers
  <2> QED
    BY <1>6, <2>1, <2>2
<1>9. CASE PoolDeregister
  BY <1>9 DEF PoolDeregister, PoolWorkers
<1>10. CASE PoolSave \/ PoolRegister \/ Provision \/ Deprovision
  BY <1>4, <1>5, <1>7, <1>10 DEF PoolSave, PoolRegister, Provision, Deprovision
<1>11. CASE PoolBegin \/ PoolBeginDeletion
  BY <1>2, <1>3, <1>11 DEF PoolBegin, PoolBeginDeletion, PoolDone
<1>12. CASE PoolIgnore \/ PoolFail \/ PoolFinish \/ PoolRemaining \/ PoolUnfinalize
            \/ PoolWriteFails \/ Crash
  BY <1>2, <1>12 DEF PoolIgnore, PoolFail, PoolFinish, PoolRemaining, PoolUnfinalize,
     PoolWriteFails, PoolDone, Crash
<1>13. ASSUME VNodeStep \/ Unrelated \/ UNCHANGED vars
       PROVE  UNCHANGED pw
  BY <1>13, UnrelatedStep DEF VNodeStep, VNodeBegin, VNodeRegister, VNodeSync, VNodeSave,
     vnodeFrame
<1> QED
  BY <1>1, <1>8, <1>9, <1>10, <1>11, <1>12, <1>13
  DEF Next, Environment, PoolStep, Unrelated

\* The node the VNode worker goes on with is the one it was on, or one it has
\* just read from the cache.
LEMMA VNodeStaysOn ==
  ASSUME TypeInv, [Next]_vars, vw'.pc # "idle"
  PROVE  \/ vw.pc # "idle" /\ vw'.n = vw.n
         \/ vw'.n \in Names /\ cache[vw'.n] # Absent
<1> vw \in VNodeWorkers
  BY DEF TypeInv, TypeOK
<1>1. CASE UNCHANGED vw
  BY <1>1
<1>2. ASSUME NEW n \in Names, VNodeBegin(n)
      PROVE  vw'.n \in Names /\ cache[vw'.n] # Absent
  <2>1. cache[n] \notin {Absent, "New"}
    BY <1>2 DEF VNodeBegin, IdleVNode
  <2>2. vw'.n = n
    BY <1>2, <2>1 DEF VNodeBegin, IdleVNode
  <2> QED
    BY <2>1, <2>2
<1>3. CASE VNodeRegister \/ VNodeSync \/ VNodeSave
  <2>1. vw.pc # "idle"
    BY <1>3 DEF VNodeRegister, VNodeSync, VNodeSave
  <2>2. \/ \E to : vw' = [vw EXCEPT !.at = to]
        \/ \E st, err : VNodeSaving(st, err)
        \/ \E err : VNodeReturn(err)
    <3>1. CASE VNodeRegister
      BY <3>1 DEF VNodeRegister, Results
    <3>2. CASE VNodeSync
      BY <3>2 DEF VNodeSync, Results
    <3>3. CASE VNodeSave
      BY <3>3 DEF VNodeSave, Results
    <3> QED
      BY <1>3, <3>1, <3>2, <3>3
  <2>3. vw'.n = vw.n
    <3>1. ASSUME NEW to, vw' = [vw EXCEPT !.at = to]
          PROVE  vw'.n = vw.n
      BY <3>1 DEF VNodeWorkers
    <3>2. ASSUME NEW st, NEW err, VNodeSaving(st, err)
          PROVE  vw'.n = vw.n
      BY <3>2 DEF VNodeSaving, VNodeWorkers
    <3>3. ASSUME NEW err, VNodeReturn(err)
          PROVE  FALSE
      BY <3>3 DEF VNodeReturn, IdleVNode
    <3> QED
      BY <2>2, <3>1, <3>2, <3>3
  <2> QED
    BY <2>1, <2>3
<1>4. CASE Crash
  BY <1>4, CrashStep
<1>5. ASSUME PoolStep \/ Unrelated \/ UNCHANGED vars
      PROVE  UNCHANGED vw
  BY <1>5, UnrelatedStep, PoolQuietStep DEF PoolStep, PoolQuiet, Provision, Deprovision,
     PoolSave, PoolRegister, PoolDeregister, PoolDelete, poolFrame
<1> QED
  BY <1>1, <1>2, <1>3, <1>4, <1>5 DEF Next, Environment, VNodeStep, Unrelated

\* The workers stay on nodes that are there, or that are being removed.
LEMMA WorkedNext ==
  ASSUME TypeInv, RetireInv, SeenInv, WorkedInv, [Next]_vars
  PROVE  WorkedInv'
<1> pw \in PoolWorkers
  BY DEF TypeInv, TypeOK
<1>1. retired \subseteq retired'
  BY RetireNext
<1>2. \A n \in Names \ retired' : vnodes[n] # Absent => vnodes'[n] # Absent
  BY <1>1, NodesStay
<1>3. \A n \in Names \ retired' : cache[n] # Absent => vnodes'[n] # Absent
  BY <1>1, <1>2 DEF SeenInv
<1>4. vw'.pc # "idle" /\ vw'.n \notin retired' => vnodes'[vw'.n] # Absent
  <2> SUFFICES ASSUME vw'.pc # "idle", vw'.n \notin retired'
               PROVE  vnodes'[vw'.n] # Absent
    OBVIOUS
  <2>1. CASE vw.pc # "idle" /\ vw'.n = vw.n
    <3>1. vw.n \in Names /\ vnodes[vw.n] # Absent
      BY <1>1, <2>1 DEF TypeInv, WorkersOK, WorkedInv
    <3> QED
      BY <1>2, <2>1, <3>1
  <2>2. CASE vw'.n \in Names /\ cache[vw'.n] # Absent
    BY <1>3, <2>2
  <2> QED
    BY <2>1, <2>2, VNodeStaysOn
<1>5. \A n \in pw'.work \ retired' : vnodes'[n] # Absent
  <2> SUFFICES ASSUME NEW n \in pw'.work, n \notin retired'
               PROVE  vnodes'[n] # Absent
    OBVIOUS
  <2>1. n \in pw.work \/ n \in Present(cache)
    BY WorkIsListed
  <2>2. CASE n \in pw.work
    <3>1. n \in Names /\ vnodes[n] # Absent
      BY <1>1, <2>2 DEF PoolWorkers, WorkedInv
    <3> QED
      BY <1>2, <3>1
  <2>3. CASE n \in Present(cache)
    BY <1>3, <2>3 DEF Present
  <2> QED
    BY <2>1, <2>2, <2>3
<1>6. PoolOn' /\ pw'.n \notin retired' => vnodes'[pw'.n] # Absent
  <2> SUFFICES ASSUME PoolOn', pw'.n \notin retired'
               PROVE  vnodes'[pw'.n] # Absent
    OBVIOUS
  <2>0. ASSUME PoolOn, pw'.n = pw.n
        PROVE  vnodes'[pw'.n] # Absent
    <3>1. pw.n \in Names
      BY <2>0 DEF PoolOn, TypeInv, WorkersOK
    <3>2. vnodes[pw.n] # Absent
      BY <1>1, <2>0 DEF WorkedInv
    <3> QED
      BY <1>2, <2>0, <3>1, <3>2
  <2>1. CASE UNCHANGED pw
    BY <2>0, <2>1 DEF PoolOn
  <2>2. CASE PoolQuiet \/ Crash \/ PoolDelete \/ PoolDeregister
    <3>1. pw'.pc \in {"idle", "scale", "unfinalize", "failed", "delete"}
      BY <2>2, PoolQuietStep, CrashStep, PoolDeleteStep DEF PoolDeregister, PoolWorkers
    <3> QED
      BY <3>1 DEF PoolOn
  <2>3. CASE Provision
    BY <2>3, PoolFields DEF Provision, PoolOn
  <2>4. CASE Deprovision
    BY <2>4, PoolFields DEF Deprovision
  <2>5. CASE PoolRegister
    <3>1. PoolOn
      BY <2>5 DEF PoolRegister, PoolOn
    <3>2. pw'.n = pw.n
      BY <2>5, PoolFields DEF PoolRegister
    <3> QED
      BY <2>0, <3>1, <3>2
  <2>6. CASE PoolSave
    <3>1. PICK to \in SaveAts \cup Results :
            /\ SaveStep(pw.at, pw.n, pw.st, to) \/ SaveFault(pw.at, pw.n, pw.st, to)
            /\ pw' = IF to \in SaveAts THEN [pw EXCEPT !.at = to] ELSE PoolAfterSave(to)
      BY <2>6 DEF PoolSave
    <3>2. pw.pc = "save" /\ pw.n \in Names /\ pw.st \in Statuses
      BY <2>6 DEF PoolSave, TypeInv, WorkersOK
    <3>3. /\ to = "created" => vnodes'[pw.n] # Absent
          /\ to = "status" => pw.at = "created" \/ cache[pw.n] # Absent
          /\ to = "ok" => pw.at \in {"created", "status"}
      BY <3>1, <3>2, SaveLeads
    <3>4. CASE to \in SaveAts
      <4>1. pw'.n = pw.n /\ pw'.pc = "save" /\ pw'.st = pw.st /\ pw'.at = to
        BY <3>1, <3>2, <3>4, PoolFields
      <4>2. CASE PoolOn
        BY <2>0, <4>1, <4>2
      <4>3. CASE ~PoolOn
        <5>1. to \in {"created", "status"} /\ pw.at # "created"
          BY <3>2, <4>1, <4>3 DEF PoolOn
        <5> QED
          BY <1>3, <3>2, <3>3, <4>1, <5>1
      <4> QED
        BY <4>2, <4>3
    <3>5. CASE to \notin SaveAts
      <4>1. pw' = PoolAfterSave(to)
        BY <3>1, <3>5
      <4>2. pw'.pc = "register" /\ pw.st = "Pending" /\ pw'.n = pw.n
        BY <4>1, AfterSaveFields DEF PoolOn
      <4>3. to = "ok"
        <5>1. SUFFICES ASSUME to # "ok" PROVE FALSE
          OBVIOUS
        <5>2. PoolAfterSave(to) = PoolFailed
          BY <5>1 DEF PoolAfterSave
        <5> QED
          BY <4>1, <4>2, <5>2, PoolFields
      <4> QED
        BY <2>0, <3>2, <3>3, <4>2, <4>3 DEF PoolOn
    <3> QED
      BY <3>4, <3>5
  <2>7. ASSUME VNodeStep \/ Unrelated \/ UNCHANGED vars
        PROVE  UNCHANGED pw
    BY <2>7, UnrelatedStep DEF VNodeStep, VNodeBegin, VNodeRegister, VNodeSync, VNodeSave,
       vnodeFrame
  <2> QED
    BY <2>1, <2>2, <2>3, <2>4, <2>5, <2>6, <2>7
    DEF Next, Environment, PoolStep, PoolQuiet, Unrelated
<1> QED
  BY <1>4, <1>5, <1>6 DEF WorkedInv

\* The workers save the statuses their services build, and no others.
LEMMA SavedNext ==
  ASSUME TypeInv, SavedInv, [Next]_vars
  PROVE  SavedInv'
<1> DEFINE PoolSaved == pw.pc = "save" => pw.st \in {"Pending", "Ready", "RegFailed", "Terminating"}
           VNodeSaved == vw.pc = "save" => vw.st \in {"Ready", "RegFailed", "SyncFailed"}
<1>0. pw \in PoolWorkers /\ vw \in VNodeWorkers /\ PoolSaved /\ VNodeSaved
  BY DEF TypeInv, TypeOK, SavedInv
<1>1. CASE Unrelated \/ UNCHANGED vars
  BY <1>0, <1>1, UnrelatedStep DEF SavedInv
<1>2. CASE Crash
  BY <1>2, CrashStep DEF SavedInv
<1>3. ASSUME PoolStep
      PROVE  PoolSaved' /\ UNCHANGED vw
  <2>1. CASE PoolQuiet
    BY <2>1, PoolQuietStep
  <2>2. CASE Provision \/ Deprovision
    BY <2>2, PoolFields DEF Provision, Deprovision, poolFrame
  <2>3. CASE PoolSave
    <3>1. PICK to : pw' = IF to \in SaveAts THEN [pw EXCEPT !.at = to] ELSE PoolAfterSave(to)
      BY <2>3 DEF PoolSave
    <3>2. pw.pc = "save" /\ UNCHANGED vw
      BY <2>3 DEF PoolSave
    <3>3. CASE to \in SaveAts
      BY <1>0, <3>1, <3>2, <3>3, PoolFields
    <3>4. CASE to \notin SaveAts
      BY <3>1, <3>2, <3>4, AfterSaveFields
    <3> QED
      BY <3>3, <3>4
  <2>4. CASE PoolRegister
    <3>1. ASSUME NEW to, pw' = [pw EXCEPT !.at = to]
          PROVE  pw'.pc = "register"
      BY <2>4, <3>1, PoolFields DEF PoolRegister
    <3>2. ASSUME NEW st \in {"Ready", "RegFailed"}, pw' = PoolSaving(pw.n, st)
          PROVE  pw'.st = st
      BY <3>2, PoolFields
    <3> QED
      BY <2>4, <3>1, <3>2 DEF PoolRegister, RegisteredStatus
  <2>5. CASE PoolDeregister
    BY <1>0, <2>5 DEF PoolDeregister, PoolWorkers
  <2>6. CASE PoolDelete
    <3>1. pw'.pc \in {"scale", "failed"}
      BY <2>6, PoolDeleteStep
    <3> QED
      BY <2>6, <3>1 DEF PoolDelete
  <2> QED
    BY <1>3, <2>1, <2>2, <2>3, <2>4, <2>5, <2>6 DEF PoolStep, PoolQuiet
<1>4. ASSUME VNodeStep
      PROVE  VNodeSaved' /\ UNCHANGED pw
  <2>0. UNCHANGED pw
    BY <1>4 DEF VNodeStep, VNodeBegin, VNodeRegister, VNodeSync, VNodeSave, vnodeFrame
  <2>1. ASSUME NEW n \in Names, VNodeBegin(n)
        PROVE  vw'.pc # "save"
    BY <2>1 DEF VNodeBegin, IdleVNode
  <2>2. ASSUME NEW to, vw' = [vw EXCEPT !.at = to]
        PROVE  VNodeSaved'
    BY <1>0, <2>2 DEF VNodeWorkers
  <2>3. ASSUME NEW st \in {"Ready", "RegFailed", "SyncFailed"}, NEW err, VNodeSaving(st, err)
        PROVE  VNodeSaved'
    BY <1>0, <2>3 DEF VNodeSaving, VNodeWorkers
  <2>4. ASSUME NEW err, VNodeReturn(err)
        PROVE  VNodeSaved'
    BY <2>4 DEF VNodeReturn, IdleVNode
  <2>5. CASE VNodeRegister
    BY <2>0, <2>2, <2>3, <2>4, <2>5 DEF VNodeRegister, Results
  <2>6. CASE VNodeSync
    BY <2>0, <2>2, <2>3, <2>4, <2>6 DEF VNodeSync, Results
  <2>7. CASE VNodeSave
    BY <2>0, <2>2, <2>4, <2>7 DEF VNodeSave, Results
  <2> QED
    BY <1>4, <2>0, <2>1, <2>5, <2>6, <2>7 DEF VNodeStep
<1> QED
  BY <1>0, <1>1, <1>2, <1>3, <1>4 DEF SavedInv, Next, Environment, Unrelated

-----------------------------------------------------------------------------
(* The refinement. *)

\* A registrar call writes its own Node only: it announces it, reports on it, or,
\* for a node being removed, withdraws it.
LEMMA RegistrarMoves ==
  ASSUME TypeInv, NEW at, NEW n \in Names, NEW ready \in BOOLEAN, NEW to,
         Registrar(at, n, ready, to), at \in {"upsert", "nodeStatus"} \/ n \in retired
  PROVE  \/ UNCHANGED tenant
         \/ tenant[n] = "none" /\ tenant' = [tenant EXCEPT ![n] = "notReady"]
         \/ /\ tenant[n] # "none"
            /\ \E r \in {"ready", "notReady"} : tenant' = [tenant EXCEPT ![n] = r]
         \/ n \in retired /\ tenant' = [tenant EXCEPT ![n] = "none"]
<1>0. tenant \in [Names -> {"none", "notReady", "ready"}]
  BY DEF TypeInv, TypeOK, TenantTypeOK
<1>1. CASE UNCHANGED tenantVars
  BY <1>1 DEF tenantVars
<1>2. ASSUME NEW r, RegStep(at, n, ready, r)
      PROVE  \/ UNCHANGED tenant
             \/ tenant[n] = "none" /\ tenant' = [tenant EXCEPT ![n] = "notReady"]
             \/ /\ tenant[n] # "none"
                /\ \E s \in {"ready", "notReady"} : tenant' = [tenant EXCEPT ![n] = s]
             \/ n \in retired /\ tenant' = [tenant EXCEPT ![n] = "none"]
  <2>1. CASE at = "upsert"
    BY <1>0, <1>2, <2>1 DEF RegStep
  <2>2. CASE at = "nodeStatus"
    BY <1>0, <1>2, <2>2 DEF RegStep
  <2>3. CASE at \notin {"upsert", "nodeStatus"}
    BY <1>2, <2>3 DEF RegStep
  <2> QED
    BY <2>1, <2>2, <2>3
<1> QED
  BY <1>1, <1>2 DEF Registrar

\* Seen from outside, a registrar call for a node that is there or leaving is a
\* step of the contract.
LEMMA RegistrarRefines ==
  ASSUME TypeInv, NEW at, NEW n \in Names, NEW ready \in BOOLEAN, NEW to,
         Registrar(at, n, ready, to), at \in {"upsert", "nodeStatus"} \/ n \in retired,
         vnodes[n] # Absent \/ n \in retired, UNCHANGED <<vnodes, pool, retired>>
  PROVE  [Contract!Next]_Contract!vars
<1>0. UNCHANGED PoolSeen
  BY DEF PoolSeen
<1>1. \/ UNCHANGED tenant
      \/ Contract!Announce(n) \/ Contract!Report(n) \/ Contract!Withdraw(n)
  BY <1>0, RegistrarMoves DEF Contract!Announce, Contract!Report, Contract!Withdraw
<1> QED
  BY <1>0, <1>1 DEF Contract!Next, Contract!vars

\* Seen from outside, a step of Save, failed or not, makes a VNode appear without
\* a status, describes one that is there, or changes nothing.
LEMMA SaveRefines ==
  ASSUME TypeInv, Coherent, NEW at, NEW n \in Names, NEW st \in Statuses \ {"New"}, NEW to,
         SaveStep(at, n, st, to) \/ SaveFault(at, n, st, to),
         at = "create" => (pool.exists /\ pool.fin) \/ n \in retired,
         st = "Ready" => tenant[n] # "none" \/ n \in retired,
         st = "Terminating" => n \in retired,
         UNCHANGED <<tenant, pool, retired>>
  PROVE  [Contract!Next]_Contract!vars
<1>0. UNCHANGED PoolSeen /\ PoolSeen.exists = pool.exists /\ PoolSeen.fin = pool.fin
  BY DEF PoolSeen
<1>1. CASE UNCHANGED repoVars
  BY <1>0, <1>1 DEF Contract!vars, repoVars
<1>2. CASE SaveAccepted(at, n) /\ Put(n, SaveTarget(at, st)) /\ at \in SaveAts \ {"get"}
  <2>1. \/ UNCHANGED vnodes
        \/ vnodes' = [vnodes EXCEPT ![n] = SaveTarget(at, st)]
    BY <1>2 DEF Put, repoVars
  <2>2. CASE UNCHANGED vnodes
    BY <1>0, <2>2 DEF Contract!vars
  <2>3. CASE vnodes' = [vnodes EXCEPT ![n] = SaveTarget(at, st)] /\ at = "create"
    <3>1. Contract!Appear(n)
      BY <1>0, <1>2, <2>3 DEF Contract!Appear, SaveAccepted, SaveTarget
    <3> QED
      BY <3>1 DEF Contract!Next
  <2>4. CASE vnodes' = [vnodes EXCEPT ![n] = SaveTarget(at, st)] /\ at # "create"
    <3>1. vnodes[n] # Absent
      <4>1. CASE at = "created"
        BY <1>2, <4>1 DEF SaveAccepted, Absent
      <4>2. CASE at = "status"
        BY <1>2, <4>2 DEF SaveAccepted, Coherent
      <4> QED
        BY <1>2, <2>4, <4>1, <4>2 DEF SaveAts
    <3>2. vnodes' = [vnodes EXCEPT ![n] = st]
      BY <2>4 DEF SaveTarget
    <3>3. Contract!Describe(n, st)
      BY <1>0, <3>1, <3>2 DEF Contract!Describe
    <3> QED
      BY <3>3 DEF Contract!Next
  <2> QED
    BY <2>1, <2>2, <2>3, <2>4
<1> QED
  BY <1>1, <1>2 DEF SaveStep, SaveFault

\* Every step of the controllers is a step of the contract or changes nothing
\* that the contract speaks of.
LEMMA ContractStep ==
  ASSUME ContractInv, [Next]_vars
  PROVE  [Contract!Next]_Contract!vars
<1>0. /\ TypeInv /\ FinalizerInv /\ RegisteredInv /\ ResurrectInv /\ RetireInv
      /\ Coherent /\ SeenInv /\ WorkedInv /\ SavedInv
  BY DEF ContractInv, RegisteredInv
<1>1. pool \in Pools /\ poolCache \in Pools
  BY <1>0 DEF TypeInv, TypeOK
<1>2. ASSUME UNCHANGED <<pool, vnodes, tenant, retired>>
      PROVE  [Contract!Next]_Contract!vars
  BY <1>2 DEF Contract!vars, PoolSeen
<1>3. CASE DeliverVNode \/ DeliverPool \/ CreateSecret \/ Crash \/ UNCHANGED vars
  <2>1. UNCHANGED <<pool, vnodes, tenant, retired>>
    BY <1>3 DEF DeliverVNode, DeliverPool, CreateSecret, Crash, Apply, Relist, vars,
       repoVars, tenantVars, poolVars
  <2> QED
    BY <1>2, <2>1
<1>4. CASE EditSpec
  <2>1. UNCHANGED PoolSeen
    BY <1>1, <1>4 DEF EditSpec, PoolSeen, Pools
  <2> QED
    BY <1>4, <2>1 DEF EditSpec, Contract!vars, repoVars, tenantVars
<1>5. CASE DeletePool
  <2>1. PoolSeen' = IF PoolSeen.fin THEN [PoolSeen EXCEPT !.deleting = TRUE]
                                    ELSE [PoolSeen EXCEPT !.exists = FALSE]
    BY <1>1, <1>5 DEF DeletePool, PoolSeen, Pools
  <2>2. Contract!Abandon
    BY <1>5, <2>1 DEF DeletePool, PoolSeen, Contract!Abandon, repoVars, tenantVars
  <2> QED
    BY <2>2 DEF Contract!Next
<1>6. CASE PoolBegin
  <2>0. UNCHANGED <<vnodes, tenant, retired>>
    BY <1>6 DEF PoolBegin, poolFrame, repoVars, tenantVars
  <2>1. CASE UNCHANGED pool
    BY <1>2, <2>0, <2>1
  <2>2. CASE pool' # pool
    <3>1. pool = poolCache /\ pool' = [pool EXCEPT !.fin = TRUE]
      BY <1>6, <2>2 DEF PoolBegin
    <3>2. PoolSeen' = [exists |-> TRUE, deleting |-> FALSE, fin |-> TRUE]
      <4>1. pool'.exists = TRUE /\ pool'.deleting = FALSE /\ pool'.fin = TRUE
        BY <1>1, <1>6, <2>2, <3>1 DEF PoolBegin, Pools
      <4> QED
        BY <4>1, Zenon DEF PoolSeen
    <3>3. Contract!Guard
      BY <1>6, <2>0, <3>1, <3>2 DEF PoolBegin, PoolSeen, Contract!Guard
    <3> QED
      BY <3>3 DEF Contract!Next
  <2> QED
    BY <2>1, <2>2
<1>7. CASE PoolUnfinalize
  <2>0. UNCHANGED <<vnodes, tenant, retired>>
    BY <1>7 DEF PoolUnfinalize, poolFrame, repoVars, tenantVars
  <2>1. CASE UNCHANGED pool
    BY <1>2, <2>0, <2>1
  <2>2. CASE pool' # pool
    <3>1. pool.exists /\ pool = poolCache /\ pool' = [pool EXCEPT !.fin = FALSE, !.exists = FALSE]
      BY <1>7, <2>2 DEF PoolUnfinalize
    <3>2. pool.deleting
      BY <1>0, <1>7, <3>1 DEF PoolUnfinalize, FinalizerInv
    <3>3. PoolSeen' = [exists |-> FALSE, deleting |-> TRUE, fin |-> FALSE]
      <4>1. pool'.exists = FALSE /\ pool'.deleting = TRUE /\ pool'.fin = FALSE
        BY <1>1, <3>1, <3>2 DEF Pools
      <4> QED
        BY <4>1, Zenon DEF PoolSeen
    <3>4. Contract!Release
      BY <2>0, <3>1, <3>2, <3>3 DEF PoolSeen, Contract!Release
    <3> QED
      BY <3>4 DEF Contract!Next
  <2> QED
    BY <2>1, <2>2
<1>8. CASE \/ PoolIgnore \/ PoolBeginDeletion \/ PoolFail \/ PoolFinish
           \/ PoolRemaining \/ PoolWriteFails \/ Provision
           \/ \E n \in Names : VNodeBegin(n)
  <2>1. UNCHANGED <<pool, vnodes, tenant, retired>>
    BY <1>8 DEF PoolIgnore, PoolBeginDeletion, PoolFail, PoolFinish, PoolRemaining,
       PoolWriteFails, Provision, VNodeBegin, poolFrame, poolVars, vnodeFrame, repoVars,
       tenantVars
  <2> QED
    BY <1>2, <2>1
<1>9. CASE Deprovision
  <2>1. PICK n \in pw.work : retired' = retired \cup {n}
    BY <1>9 DEF Deprovision
  <2>2. n \in Names /\ (vnodes[n] # Absent \/ n \in retired)
    BY <1>0 DEF WorkedInv, TypeInv, TypeOK, PoolWorkers
  <2>3. Contract!Pick(n)
    BY <1>9, <2>1, <2>2 DEF Deprovision, Contract!Pick, PoolSeen, repoVars, tenantVars, poolVars
  <2> QED
    BY <2>2, <2>3 DEF Contract!Next
<1>10. CASE PoolSave
  <2>1. PICK to : SaveStep(pw.at, pw.n, pw.st, to) \/ SaveFault(pw.at, pw.n, pw.st, to)
    BY <1>10 DEF PoolSave
  <2>2. /\ pw.pc = "save" /\ pw.n \in Names /\ pw.st \in Statuses \ {"New"}
        /\ UNCHANGED <<tenant, pool, retired>>
    BY <1>0, <1>10 DEF PoolSave, TypeInv, WorkersOK, SavedInv, Statuses, tenantVars, poolVars
  <2>3. (pool.exists /\ pool.fin) \/ pw.n \in retired
    BY <1>0, <2>2 DEF FinalizerInv, ProvisionUnderFinalizer, Provisioning, RetireInv, Removing
  <2>4. /\ pw.st = "Ready" => tenant[pw.n] # "none" \/ pw.n \in retired
        /\ pw.st = "Terminating" => pw.n \in retired
    BY <1>0, <2>2 DEF RegisteredInv, RetireInv, Removing
  <2> QED
    BY <1>0, <2>1, <2>2, <2>3, <2>4, SaveRefines
<1>11. CASE PoolRegister
  <2>1. PICK to : Registrar(pw.at, pw.n, FALSE, to)
    BY <1>11 DEF PoolRegister
  <2>2. /\ pw.pc = "register" /\ pw.n \in Names /\ pw.at \in {"upsert", "nodeStatus"}
        /\ vnodes[pw.n] # Absent \/ pw.n \in retired
        /\ UNCHANGED <<vnodes, pool, retired>>
    BY <1>0, <1>11 DEF PoolRegister, TypeInv, WorkersOK, RegisteredInv, WorkedInv, PoolOn,
       repoVars, poolVars
  <2> QED
    BY <1>0, <2>1, <2>2, RegistrarRefines
<1>12. CASE PoolDeregister
  <2>1. PICK to : Registrar(pw.at, pw.n, FALSE, to)
    BY <1>12 DEF PoolDeregister
  <2>2. pw.n \in Names /\ pw.n \in retired /\ UNCHANGED <<vnodes, pool, retired>>
    BY <1>0, <1>12 DEF PoolDeregister, TypeInv, WorkersOK, RetireInv, Removing, repoVars, poolVars
  <2> QED
    BY <1>0, <2>1, <2>2, RegistrarRefines
<1>13. CASE PoolDelete
  <2>1. pw.n \in Names /\ pw.n \in retired /\ UNCHANGED <<tenant, pool, retired>>
    BY <1>0, <1>13 DEF PoolDelete, TypeInv, WorkersOK, RetireInv, Removing, tenantVars, poolVars
  <2>2. UNCHANGED vnodes \/ vnodes' = [vnodes EXCEPT ![pw.n] = Absent]
    BY <1>13 DEF PoolDelete, DeleteStep, Put, repoVars
  <2>3. CASE UNCHANGED vnodes
    BY <1>2, <2>1, <2>3
  <2>4. CASE vnodes' = [vnodes EXCEPT ![pw.n] = Absent]
    <3>1. Contract!Disappear(pw.n)
      BY <2>1, <2>4 DEF Contract!Disappear, PoolSeen
    <3> QED
      BY <2>1, <3>1 DEF Contract!Next
  <2> QED
    BY <2>2, <2>3, <2>4
<1>14. CASE VNodeRegister \/ VNodeSync
  <2>0. PICK ready \in BOOLEAN : \E to : Registrar(vw.at, vw.n, ready, to)
    BY <1>14 DEF VNodeRegister, VNodeSync
  <2>1. PICK to : Registrar(vw.at, vw.n, ready, to)
    BY <2>0
  <2>2. /\ vw.n \in Names /\ vw.at \in {"upsert", "nodeStatus"}
        /\ vnodes[vw.n] # Absent \/ vw.n \in retired
        /\ UNCHANGED <<vnodes, pool, retired>>
    BY <1>0, <1>14 DEF VNodeRegister, VNodeSync, TypeInv, WorkersOK, RegisteredInv, WorkedInv,
       repoVars, vnodeFrame, poolVars
  <2> QED
    BY <1>0, <2>1, <2>2, RegistrarRefines
<1>15. CASE VNodeSave
  <2>1. PICK to : SaveStep(vw.at, vw.n, vw.st, to) \/ SaveFault(vw.at, vw.n, vw.st, to)
    BY <1>15 DEF VNodeSave
  <2>2. /\ vw.pc = "save" /\ vw.n \in Names /\ vw.st \in {"Ready", "RegFailed", "SyncFailed"}
        /\ UNCHANGED <<tenant, pool, retired>>
    BY <1>0, <1>15 DEF VNodeSave, TypeInv, WorkersOK, SavedInv, tenantVars, poolVars, vnodeFrame
  <2>3. vw.at = "create" => vw.n \in retired
    BY <1>0, <2>2 DEF ResurrectInv, ResurrectsOnlyRetired
  <2>4. vw.st = "Ready" => tenant[vw.n] # "none" \/ vw.n \in retired
    BY <1>0, <2>2 DEF RegisteredInv
  <2>5. vw.st \in Statuses \ {"New"} /\ vw.st # "Terminating"
    BY <2>2 DEF Statuses
  <2> QED
    BY <1>0, <2>1, <2>2, <2>3, <2>4, <2>5, SaveRefines
<1> QED
  BY <1>3, <1>4, <1>5, <1>6, <1>7, <1>8, <1>9, <1>10, <1>11, <1>12, <1>13, <1>14, <1>15
  DEF Next, Environment, PoolStep, VNodeStep

\* The initial states of the controllers are those of the contract.
LEMMA ContractStart == Init => Contract!Init
<1> SUFFICES ASSUME Init PROVE Contract!Init
  OBVIOUS
<1>1. PoolSeen = [exists |-> TRUE, deleting |-> FALSE, fin |-> StartNodes # {}]
  BY DEF Init, PoolSeen
<1> QED
  BY <1>1 DEF Init, Contract!Init

\* Each tenant Node keeps its VNode, as far as the contract allows.
LEMMA NoOrphanNext ==
  ASSUME ContractInv, [Next]_vars
  PROVE  NoOrphanNodes'
<1>0. TypeInv /\ RetireInv /\ NoOrphanNodes /\ retired \subseteq retired'
  BY RetireNext DEF ContractInv, RegisteredInv
<1>1. /\ tenant \in [Names -> {"none", "notReady", "ready"}]
      /\ vnodes \in [Names -> Statuses \cup {Absent}]
  BY <1>0 DEF TypeInv, TypeOK, TenantTypeOK, RepoTypeOK
<1>2. \A n \in Names \ retired' : vnodes[n] # Absent => vnodes'[n] # Absent
  BY <1>0, NodesStay
<1>3. ASSUME NEW n \in Names \ retired', tenant'[n] # "none"
      PROVE  vnodes[n] # Absent
  <2>1. CASE UNCHANGED tenant
    BY <1>0, <1>3, <2>1 DEF NoOrphanNodes
  <2>2. ASSUME NEW m \in Names, Contract!Announce(m)
        PROVE  vnodes[n] # Absent
    BY <1>0, <1>1, <1>3, <2>2 DEF Contract!Announce, NoOrphanNodes
  <2>3. ASSUME NEW m \in Names, Contract!Report(m)
        PROVE  vnodes[n] # Absent
    BY <1>0, <1>1, <1>3, <2>3 DEF Contract!Report, NoOrphanNodes
  <2>4. ASSUME NEW m \in Names, Contract!Withdraw(m)
        PROVE  vnodes[n] # Absent
    BY <1>0, <1>1, <1>3, <2>4 DEF Contract!Withdraw, NoOrphanNodes
  <2>5. \/ UNCHANGED tenant
        \/ \E m \in Names : Contract!Announce(m) \/ Contract!Report(m) \/ Contract!Withdraw(m)
    BY ContractStep DEF Contract!Next, Contract!vars, Contract!Guard, Contract!Abandon,
       Contract!Release, Contract!Appear, Contract!Pick, Contract!Disappear, Contract!Describe
  <2> QED
    BY <2>1, <2>2, <2>3, <2>4, <2>5
<1> QED
  BY <1>2, <1>3 DEF NoOrphanNodes

\* The invariant behind the refinement is inductive.
LEMMA ContractInvariant == Spec => []ContractInv
<1>1. Init => ContractInv
  <2> SUFFICES ASSUME Init PROVE ContractInv
    OBVIOUS
  <2>1. TypeInv
    BY TypeInit
  <2>2. /\ pw.pc = "idle" /\ pw.del = FALSE /\ pw.todo = 0 /\ pw.work = {} /\ vw.pc = "idle"
        /\ watch = <<>> /\ cache = vnodes /\ poolCache = pool
        /\ pool.exists = TRUE /\ pool.deleting = FALSE
    <3>1. pw.pc = "idle" /\ pw.del = FALSE /\ pw.todo = 0 /\ pw.work = {} /\ vw.pc = "idle"
      BY DEF Init, IdlePool, IdleVNode
    <3>2. pool.exists = TRUE /\ pool.deleting = FALSE
      BY DEF Init
    <3> QED
      BY <3>1, <3>2 DEF Init
  <2>3. ReadyRegistered /\ NoOrphanNodes
    BY DEF Init, ReadyRegistered, NoOrphanNodes, Absent
  <2>4. FinalizerInv /\ RegisteredInv
    BY <2>2, <2>3 DEF FinalizerInv, ProvisionUnderFinalizer, Provisioning, Removing,
       RegisteredInv, RetireInv
  <2>5. Len(watch) = 0
    BY <2>2
  <2>6. ResurrectInv /\ Coherent /\ SeenInv
    BY <2>2, <2>5 DEF ResurrectInv, ResurrectsOnlyRetired, RetireInv, Removing, Coherent, SeenInv
  <2>7. WorkedInv /\ SavedInv
    BY <2>2 DEF WorkedInv, SavedInv, PoolOn
  <2> QED
    BY <2>1, <2>3, <2>4, <2>6, <2>7 DEF ContractInv
<1>2. ContractInv /\ [Next]_vars => ContractInv'
  <2> SUFFICES ASSUME ContractInv, [Next]_vars PROVE ContractInv'
    OBVIOUS
  <2>1. /\ TypeInv /\ FinalizerInv /\ RegisteredInv /\ ResurrectInv /\ RetireInv
        /\ Coherent /\ SeenInv /\ WorkedInv /\ SavedInv
    BY DEF ContractInv, RegisteredInv
  <2>2. TypeInv' /\ FinalizerInv' /\ RegisteredInv' /\ ResurrectInv'
    BY <2>1, TypeNext, FinalizerNext, RegisteredNext, ResurrectNext
  <2>3. Coherent' /\ SeenInv' /\ WorkedInv' /\ SavedInv'
    BY <2>1, CoherentNext, SeenNext, WorkedNext, SavedNext
  <2> QED
    BY <2>2, <2>3, NoOrphanNext DEF ContractInv
<1> QED
  BY <1>1, <1>2, PTL DEF Spec

\* The two controllers, however they interleave, lag, fail and restart, implement
\* the contract: their VNodes and Nodes appear, change and go only as it allows.
THEOREM ControllersFulfilContract == Spec => FulfilsContract
<1>1. Init => Contract!Init
  BY ContractStart
<1>2. ContractInv /\ [Next]_vars => [Contract!Next]_Contract!vars
  BY ContractStep
<1> QED
  BY <1>1, <1>2, ContractInvariant, PTL DEF Spec, FulfilsContract, Contract!Spec

\* No tenant ever has a Node without a VNode behind it, except while Deprovision
\* is at work on that name: pods cannot be scheduled to a node nobody manages.
THEOREM NodesHaveVNodes == Spec => []NoOrphanNodes
<1>1. ContractInv => NoOrphanNodes
  BY DEF ContractInv
<1> QED
  BY <1>1, ContractInvariant, PTL
=============================================================================
