------------------------- MODULE VNodeSettled_proofs -------------------------
(* The number and the names of the VNodes at rest, for every size and lag. *)
EXTENDS VNodeRefinement_proofs

-----------------------------------------------------------------------------
(* Events in flight. *)

\* Event i is the latest about n.
Last(n, i) == watch[i].n = n /\ \A j \in 1..Len(watch) : j > i => watch[j].n # n

\* Among the events about a node there is a latest one.
LastInv == \A n \in Names : Fresh(n) \/ \E i \in 1..Len(watch) : Last(n, i)

\* A node the cache does not have, or no longer has, reappears as "New".
BirthInv ==
  /\ \A n \in Names : cache[n] = Absent /\ ~Fresh(n) =>
       \E i \in 1..Len(watch) : watch[i].n = n /\ watch[i].st = "New"
  /\ \A i, k \in 1..Len(watch) :
       watch[i].st = Absent /\ k > i /\ watch[k].n = watch[i].n =>
         \E j \in 1..Len(watch) : j > i /\ watch[j].n = watch[i].n /\ watch[j].st = "New"

\* One accepted write and its event.
Written(n, st) ==
  /\ vnodes' = [vnodes EXCEPT ![n] = st]
  /\ watch' = Append(watch, [n |-> n, st |-> st])
  /\ UNCHANGED cache

\* What a write adds to the store and to the events in flight.
LEMMA WriteFacts ==
  ASSUME RepoTypeOK, NEW n \in Names, NEW st, Written(n, st)
  PROVE  /\ Len(watch) \in Nat /\ Len(watch') = Len(watch) + 1
         /\ watch'[Len(watch) + 1].n = n /\ watch'[Len(watch) + 1].st = st
         /\ \A i \in 1..Len(watch) :
              watch'[i] = watch[i] /\ i \in 1..Len(watch') /\ i < Len(watch) + 1
         /\ \A i \in 1..Len(watch') : i = Len(watch) + 1 \/ i \in 1..Len(watch)
         /\ Len(watch) + 1 \in 1..Len(watch')
         /\ vnodes'[n] = st /\ (\A m \in Names \ {n} : vnodes'[m] = vnodes[m])
         /\ cache' = cache
<1>1. watch \in Seq(Event) /\ vnodes \in [Names -> Statuses \cup {Absent}]
  BY DEF RepoTypeOK
<1>2. /\ Len(watch) \in Nat /\ Len(watch') = Len(watch) + 1
      /\ watch'[Len(watch')] = [n |-> n, st |-> st]
      /\ \A i \in 1..Len(watch) : watch'[i] = watch[i]
      /\ \A i \in 1..Len(watch') : i = Len(watch') \/ i \in 1..Len(watch)
  BY <1>1, QueueGrows DEF Written
<1>3. vnodes'[n] = st /\ \A m \in Names \ {n} : vnodes'[m] = vnodes[m]
  BY <1>1 DEF Written
<1> QED
  BY <1>2, <1>3 DEF Written

\* What the informer's step does to the cache and to the events in flight.
LEMMA ApplyFacts ==
  ASSUME RepoTypeOK, Apply
  PROVE  /\ Len(watch) \in Nat /\ Len(watch') \in Nat /\ 1 \in 1..Len(watch)
         /\ \A i \in 1..Len(watch') : watch'[i] = watch[i + 1] /\ i + 1 \in 1..Len(watch)
         /\ \A j \in 1..Len(watch) :
              j # 1 => j - 1 \in 1..Len(watch') /\ watch'[j - 1] = watch[j]
         /\ watch[1].n \in Names /\ Head(watch) = watch[1]
         /\ cache'[watch[1].n] = watch[1].st
         /\ \A m \in Names \ {watch[1].n} : cache'[m] = cache[m]
         /\ vnodes' = vnodes
<1>1. watch \in Seq(Event) /\ cache \in [Names -> Statuses \cup {Absent}] /\ watch # <<>>
  BY DEF RepoTypeOK, Apply
<1>2. /\ Len(watch) \in Nat \ {0} /\ Len(watch') = Len(watch) - 1 /\ Head(watch) = watch[1]
      /\ \A i \in 1..Len(watch') : watch'[i] = watch[i + 1] /\ i + 1 \in 1..Len(watch)
  BY <1>1, QueueShrinks DEF Apply
<1>3. ASSUME NEW j \in 1..Len(watch), j # 1
      PROVE  j - 1 \in 1..Len(watch') /\ watch'[j - 1] = watch[j]
  <2>1. j - 1 \in 1..Len(watch') /\ (j - 1) + 1 = j
    BY <1>2, <1>3
  <2> QED
    BY <1>2, <2>1
<1>4. watch[1].n \in Names
  <2>1. watch[1] \in Event
    BY <1>1, <1>2
  <2> QED
    BY <2>1 DEF Event
<1>5. cache' = [cache EXCEPT ![watch[1].n] = watch[1].st] /\ vnodes' = vnodes
  BY <1>2 DEF Apply
<1> QED
  BY <1>1, <1>2, <1>3, <1>4, <1>5

\* A step of Save writes a status over a node that is there, or creates one that
\* is not; unless a call fails the creator then goes on to write the status.
LEMMA SaveMoves ==
  ASSUME RepoTypeOK, Coherent, NEW at, NEW n \in Names, NEW st \in Statuses \ {"New"}, NEW to,
         SaveStep(at, n, st, to) \/ SaveFault(at, n, st, to)
  PROVE  \/ UNCHANGED repoVars
         \/ Written(n, st) /\ vnodes[n] # Absent
         \/ /\ Written(n, "New") /\ vnodes[n] = Absent
            /\ SaveStep(at, n, st, to) => to = "created"
<1>1. CASE UNCHANGED repoVars
  BY <1>1
<1>2. CASE at = "create" /\ SaveAccepted(at, n) /\ Put(n, SaveTarget(at, st)) /\ ~UNCHANGED repoVars
  <2>1. Written(n, "New") /\ vnodes[n] = Absent
    BY <1>2 DEF Put, Written, SaveTarget, SaveAccepted
  <2>2. SaveStep(at, n, st, to) => to = "created"
    BY <1>2 DEF SaveStep, SaveNext
  <2> QED
    BY <2>1, <2>2
<1>3. CASE at \in {"created", "status"} /\ SaveAccepted(at, n) /\ Put(n, SaveTarget(at, st)) /\ ~UNCHANGED repoVars
  <2>1. Written(n, st)
    BY <1>3 DEF Put, Written, SaveTarget
  <2>2. vnodes[n] # Absent
    BY <1>3 DEF SaveAccepted, Coherent, Absent
  <2> QED
    BY <2>1, <2>2
<1> QED
  BY <1>1, <1>2, <1>3 DEF SaveStep, SaveFault, SaveAts

\* The worker has created n and is about to write its status.
Creating(w, n) == w.pc = "save" /\ w.at = "created" /\ w.n = n

\* A host API call has failed in a way the model does not explain.
HostFailed == "host" \in budget.met

\* What has been met stays met, and a failing host call is recorded.
LEMMA MetGrows ==
  ASSUME [Next]_vars
  PROVE  /\ budget.met \subseteq budget'.met
         /\ Spend("host") => HostFailed'
         /\ Crash => "crash" \in budget'.met
<1>1. \A k : Spend(k) => budget.met \subseteq budget'.met /\ k \in budget'.met
  BY DEF Spend
<1>2. UNCHANGED budget \/ \E k : Spend(k)
  <2>1. CASE PoolStep
    <3>1. CASE PoolRegister \/ PoolDeregister
      BY <3>1 DEF PoolRegister, PoolDeregister, Registrar
    <3>2. CASE PoolSave \/ PoolDelete
      BY <3>2 DEF PoolSave, PoolDelete
    <3> QED
      BY <2>1, <3>1, <3>2 DEF PoolStep, PoolIgnore, PoolBegin, PoolBeginDeletion, Provision,
         Deprovision, PoolFail, PoolFinish, PoolRemaining, PoolUnfinalize, PoolWriteFails, poolFrame
  <2>2. CASE VNodeStep
    <3>1. CASE VNodeRegister \/ VNodeSync
      BY <3>1 DEF VNodeRegister, VNodeSync, Registrar
    <3> QED
      BY <2>2, <3>1 DEF VNodeStep, VNodeBegin, VNodeSave
  <2>3. CASE Unrelated \/ Crash \/ UNCHANGED vars
    BY <2>3 DEF Unrelated, EditSpec, DeletePool, CreateSecret, DeliverVNode, DeliverPool, Crash, vars
  <2> QED
    BY <2>1, <2>2, <2>3 DEF Next, Environment, Unrelated
<1>3. Crash => Spend("crash")
  BY DEF Crash
<1> QED
  BY <1>1, <1>2, <1>3 DEF HostFailed

\* The store changes by a status written over a node that is there, by a deletion
\* of one, or by a creation after which, unless a call fails, the creator goes on.
LEMMA RepoMoves ==
  ASSUME ContractInv, [Next]_vars
  PROVE  \/ UNCHANGED repoVars
         \/ \E n \in Names, st \in (Statuses \cup {Absent}) \ {"New"} :
              Written(n, st) /\ vnodes[n] # Absent
         \/ \E n \in Names :
              /\ Written(n, "New") /\ vnodes[n] = Absent
              /\ ~HostFailed' => Creating(pw, n)' \/ Creating(vw, n)'
         \/ DeliverVNode
         \/ Crash
<1>0. /\ TypeInv /\ RepoTypeOK /\ Coherent /\ SavedInv
      /\ pw \in PoolWorkers /\ vw \in VNodeWorkers
  BY DEF ContractInv, TypeInv, TypeOK
<1>1. CASE PoolSave
  <2>1. /\ pw.pc = "save" /\ pw.n \in Names
        /\ pw.st \in Statuses \ {"New"}
    BY <1>0, <1>1 DEF PoolSave, TypeInv, WorkersOK, SavedInv
  <2>2. PICK to \in SaveAts \cup Results :
          /\ \/ SaveStep(pw.at, pw.n, pw.st, to)
             \/ SaveFault(pw.at, pw.n, pw.st, to) /\ Spend("host")
          /\ pw' = IF to \in SaveAts THEN [pw EXCEPT !.at = to] ELSE PoolAfterSave(to)
    BY <1>1 DEF PoolSave
  <2>3. to = "created" => Creating(pw', pw.n)
    BY <1>0, <2>1, <2>2 DEF Creating, PoolWorkers, SaveAts
  <2>4. \/ UNCHANGED repoVars
        \/ Written(pw.n, pw.st) /\ vnodes[pw.n] # Absent
        \/ /\ Written(pw.n, "New") /\ vnodes[pw.n] = Absent
           /\ SaveStep(pw.at, pw.n, pw.st, to) => to = "created"
    BY <1>0, <2>1, <2>2, SaveMoves
  <2>5. ~HostFailed' => SaveStep(pw.at, pw.n, pw.st, to)
    BY <2>2, MetGrows
  <2> QED
    BY <2>1, <2>3, <2>4, <2>5
<1>2. CASE VNodeSave
  <2>1. /\ vw.pc = "save" /\ vw.n \in Names
        /\ vw.st \in Statuses \ {"New"}
    BY <1>0, <1>2 DEF VNodeSave, TypeInv, WorkersOK, SavedInv
  <2>2. PICK to \in SaveAts \cup Results :
          /\ \/ SaveStep(vw.at, vw.n, vw.st, to)
             \/ SaveFault(vw.at, vw.n, vw.st, to) /\ Spend("host")
          /\ to \in SaveAts => vw' = [vw EXCEPT !.at = to]
    BY <1>2 DEF VNodeSave, SaveAts, Results
  <2>3. to = "created" => Creating(vw', vw.n)
    BY <1>0, <2>1, <2>2 DEF Creating, VNodeWorkers, SaveAts
  <2>4. \/ UNCHANGED repoVars
        \/ Written(vw.n, vw.st) /\ vnodes[vw.n] # Absent
        \/ /\ Written(vw.n, "New") /\ vnodes[vw.n] = Absent
           /\ SaveStep(vw.at, vw.n, vw.st, to) => to = "created"
    BY <1>0, <2>1, <2>2, SaveMoves
  <2>5. ~HostFailed' => SaveStep(vw.at, vw.n, vw.st, to)
    BY <2>2, MetGrows
  <2> QED
    BY <2>1, <2>3, <2>4, <2>5
<1>3. CASE PoolDelete
  <2>1. pw.n \in Names
    BY <1>0, <1>3 DEF PoolDelete, TypeInv, WorkersOK
  <2>2. UNCHANGED repoVars \/ (Written(pw.n, Absent) /\ vnodes[pw.n] # Absent)
    BY <1>3 DEF PoolDelete, DeleteStep, Put, Written
  <2> QED
    BY <2>1, <2>2 DEF Absent
<1>4. CASE PoolQuiet
  BY <1>4, PoolQuietStep
<1>5. CASE Provision \/ Deprovision \/ PoolRegister \/ PoolDeregister
  BY <1>5 DEF Provision, Deprovision, PoolRegister, PoolDeregister, poolFrame
<1>6. CASE (\E n \in Names : VNodeBegin(n)) \/ VNodeRegister \/ VNodeSync
  BY <1>6 DEF VNodeBegin, VNodeRegister, VNodeSync
<1>7. CASE EditSpec \/ DeletePool \/ CreateSecret \/ DeliverPool \/ UNCHANGED vars
  BY <1>7 DEF EditSpec, DeletePool, CreateSecret, DeliverPool, vars
<1> QED
  BY <1>1, <1>2, <1>3, <1>4, <1>5, <1>6, <1>7
  DEF Next, Environment, PoolStep, VNodeStep, PoolQuiet

\* Every step keeps a latest event about each node.
LEMMA LastNext ==
  ASSUME ContractInv, LastInv, [Next]_vars
  PROVE  LastInv'
<1>0. RepoTypeOK
  BY DEF ContractInv, TypeInv, TypeOK
<1> SUFFICES ASSUME NEW n \in Names, ~Fresh(n)'
             PROVE  \E i \in 1..Len(watch') : Last(n, i)'
  BY DEF LastInv
<1>1. CASE UNCHANGED repoVars
  BY <1>1 DEF repoVars, LastInv, Last, Fresh
<1>2. ASSUME NEW m \in Names, NEW st, Written(m, st)
      PROVE  \E i \in 1..Len(watch') : Last(n, i)'
  <2>0. /\ Len(watch) \in Nat /\ Len(watch') = Len(watch) + 1
        /\ watch'[Len(watch) + 1].n = m
        /\ \A i \in 1..Len(watch) :
             watch'[i] = watch[i] /\ i \in 1..Len(watch') /\ i < Len(watch) + 1
        /\ \A i \in 1..Len(watch') : i = Len(watch) + 1 \/ i \in 1..Len(watch)
        /\ Len(watch) + 1 \in 1..Len(watch')
    BY <1>0, <1>2, WriteFacts
  <2>1. CASE n = m
    <3>1. \A j \in 1..Len(watch') : ~(j > Len(watch) + 1)
      BY <2>0
    <3>2. PICK k \in 1..Len(watch') : k = Len(watch) + 1
      BY <2>0
    <3> QED
      BY <2>0, <2>1, <3>1, <3>2 DEF Last
  <2>2. CASE n # m
    <3>1. ~Fresh(n)
      BY <2>0, <2>2 DEF Fresh
    <3>2. PICK i \in 1..Len(watch) : Last(n, i)
      BY <3>1 DEF LastInv
    <3>3. Last(n, i)'
      BY <2>0, <2>2, <3>2 DEF Last
    <3> QED
      BY <2>0, <3>3
  <2> QED
    BY <2>1, <2>2
<1>3. CASE DeliverVNode
  <2>0. /\ Len(watch) \in Nat
        /\ \A i \in 1..Len(watch') : watch'[i] = watch[i + 1] /\ i + 1 \in 1..Len(watch)
        /\ \A j \in 1..Len(watch) :
             j # 1 => j - 1 \in 1..Len(watch') /\ watch'[j - 1] = watch[j]
    BY <1>0, <1>3, ApplyFacts DEF DeliverVNode
  <2>1. PICK k \in 1..Len(watch') : watch'[k].n = n
    BY DEF Fresh
  <2>2. k + 1 \in 1..Len(watch) /\ watch[k + 1].n = n
    BY <2>0, <2>1
  <2>3. ~Fresh(n)
    BY <2>2 DEF Fresh
  <2>4. PICK i \in 1..Len(watch) : Last(n, i)
    BY <2>3 DEF LastInv
  <2>5. i # 1
    BY <2>0, <2>1, <2>2, <2>4 DEF Last
  <2>6. i - 1 \in 1..Len(watch') /\ watch'[i - 1].n = n
    BY <2>0, <2>4, <2>5 DEF Last
  <2>7. ASSUME NEW j \in 1..Len(watch'), j > i - 1
        PROVE  watch'[j].n # n
    <3>1. j + 1 \in 1..Len(watch) /\ j + 1 > i /\ watch'[j] = watch[j + 1]
      BY <2>0, <2>7
    <3> QED
      BY <2>4, <3>1 DEF Last
  <2>8. PICK l \in 1..Len(watch') : l = i - 1
    BY <2>6
  <2> QED
    BY <2>6, <2>7, <2>8 DEF Last
<1>4. CASE Crash
  <2>1. watch' = <<>>
    BY <1>4 DEF Crash, Relist
  <2> QED
    BY <2>1 DEF Fresh
<1> QED
  BY <1>1, <1>2, <1>3, <1>4, RepoMoves

\* The latest event in flight about a node says what is in the API server.
LEMMA Latest ==
  ASSUME Coherent, LastInv, NEW n \in Names, ~Fresh(n)
  PROVE  \E i \in 1..Len(watch) : Last(n, i) /\ watch[i].n = n /\ watch[i].st = vnodes[n]
BY DEF Coherent, LastInv, Last

\* Every step keeps BirthInv: only nodes that are there are written over.
LEMMA BirthNext ==
  ASSUME ContractInv, BirthInv, [Next]_vars
  PROVE  BirthInv'
<1>0. RepoTypeOK /\ Coherent
  BY DEF ContractInv, TypeInv, TypeOK
<1> DEFINE First(n) ==
      cache[n] = Absent /\ ~Fresh(n) =>
        \E i \in 1..Len(watch) : watch[i].n = n /\ watch[i].st = "New"
           Again(i, k) ==
      watch[i].st = Absent /\ k > i /\ watch[k].n = watch[i].n =>
        \E j \in 1..Len(watch) : j > i /\ watch[j].n = watch[i].n /\ watch[j].st = "New"
<1>a. (\A n \in Names : First(n)) /\ \A i, k \in 1..Len(watch) : Again(i, k)
  BY DEF BirthInv
<1>1. CASE UNCHANGED repoVars
  BY <1>1 DEF repoVars, BirthInv, Fresh
<1>2. ASSUME NEW m \in Names, NEW st, Written(m, st), st = "New" \/ vnodes[m] # Absent
      PROVE  BirthInv'
  <2>0. /\ Len(watch) \in Nat /\ Len(watch') = Len(watch) + 1
        /\ watch'[Len(watch) + 1].n = m /\ watch'[Len(watch) + 1].st = st
        /\ \A i \in 1..Len(watch) :
             watch'[i] = watch[i] /\ i \in 1..Len(watch') /\ i < Len(watch) + 1
        /\ \A i \in 1..Len(watch') : i = Len(watch) + 1 \/ i \in 1..Len(watch)
        /\ Len(watch) + 1 \in 1..Len(watch')
        /\ cache' = cache
    BY <1>0, <1>2, WriteFacts
  <2>1. ASSUME NEW n \in Names, cache'[n] = Absent, ~Fresh(n)'
        PROVE  \E i \in 1..Len(watch') : watch'[i].n = n /\ watch'[i].st = "New"
    <3>1. CASE n = m /\ st = "New"
      BY <2>0, <3>1
    <3>2. CASE n # m
      <4>1. ~Fresh(n)
        BY <2>0, <2>1, <3>2 DEF Fresh
      <4> QED
        BY <1>a, <2>0, <2>1, <4>1
    <3>3. CASE n = m /\ vnodes[m] # Absent
      <4>1. ~Fresh(n)
        BY <1>0, <2>0, <2>1, <3>3 DEF Coherent
      <4> QED
        BY <1>a, <2>0, <2>1, <4>1
    <3> QED
      BY <1>2, <3>1, <3>2, <3>3
  <2>2. ASSUME NEW i \in 1..Len(watch'), NEW k \in 1..Len(watch'),
               watch'[i].st = Absent, k > i, watch'[k].n = watch'[i].n
        PROVE  \E j \in 1..Len(watch') : j > i /\ watch'[j].n = watch'[i].n /\ watch'[j].st = "New"
    <3>1. i \in 1..Len(watch) /\ watch'[i] = watch[i] /\ i < Len(watch) + 1
      BY <2>0, <2>2
    <3>2. CASE k \in 1..Len(watch)
      <4>1. PICK j \in 1..Len(watch) : j > i /\ watch[j].n = watch[i].n /\ watch[j].st = "New"
        BY <1>a, <2>0, <2>2, <3>1, <3>2
      <4> QED
        BY <2>0, <3>1, <4>1
    <3>3. CASE k = Len(watch) + 1 /\ st = "New"
      BY <2>0, <2>2, <3>1, <3>3
    <3>4. CASE k = Len(watch) + 1 /\ vnodes[m] # Absent
      <4>1. watch[i].n = m /\ watch[i].st # vnodes[m]
        BY <2>0, <2>2, <3>1, <3>4
      <4>2. PICK l \in 1..Len(watch) : l > i /\ watch[l].n = m
        BY <1>0, <3>1, <4>1 DEF Coherent
      <4>3. PICK j \in 1..Len(watch) : j > i /\ watch[j].n = watch[i].n /\ watch[j].st = "New"
        BY <1>a, <2>2, <3>1, <4>1, <4>2
      <4> QED
        BY <2>0, <3>1, <4>3
    <3> QED
      BY <1>2, <2>0, <3>2, <3>3, <3>4
  <2> QED
    BY <2>1, <2>2 DEF BirthInv
<1>3. CASE DeliverVNode
  <2>0. /\ Len(watch) \in Nat /\ 1 \in 1..Len(watch)
        /\ \A i \in 1..Len(watch') : watch'[i] = watch[i + 1] /\ i + 1 \in 1..Len(watch)
        /\ \A j \in 1..Len(watch) :
             j # 1 => j - 1 \in 1..Len(watch') /\ watch'[j - 1] = watch[j]
        /\ cache'[watch[1].n] = watch[1].st
        /\ \A m \in Names \ {watch[1].n} : cache'[m] = cache[m]
    BY <1>0, <1>3, ApplyFacts DEF DeliverVNode
  <2>1. ASSUME NEW n \in Names, cache'[n] = Absent, ~Fresh(n)'
        PROVE  \E i \in 1..Len(watch') : watch'[i].n = n /\ watch'[i].st = "New"
    <3>1. PICK k \in 1..Len(watch') : watch'[k].n = n
      BY <2>1 DEF Fresh
    <3>2. k + 1 \in 1..Len(watch) /\ watch[k + 1].n = n /\ k + 1 > 1
      BY <2>0, <3>1
    <3>3. CASE n = watch[1].n
      <4>1. watch[1].st = Absent
        BY <2>0, <2>1, <3>3
      <4>2. Again(1, k + 1)
        BY <1>a, <2>0, <3>2
      <4>3. PICK j \in 1..Len(watch) : j > 1 /\ watch[j].n = watch[1].n /\ watch[j].st = "New"
        BY <3>2, <3>3, <4>1, <4>2
      <4>4. j - 1 \in 1..Len(watch') /\ watch'[j - 1] = watch[j]
        BY <2>0, <4>3
      <4> QED
        BY <3>3, <4>3, <4>4
    <3>4. CASE n # watch[1].n
      <4>1. cache[n] = Absent /\ ~Fresh(n)
        BY <2>0, <2>1, <3>2, <3>4 DEF Fresh
      <4>2. PICK j \in 1..Len(watch) : watch[j].n = n /\ watch[j].st = "New"
        BY <1>a, <4>1
      <4>3. j # 1
        BY <3>4, <4>2
      <4>4. j - 1 \in 1..Len(watch') /\ watch'[j - 1] = watch[j]
        BY <2>0, <4>2, <4>3
      <4> QED
        BY <4>2, <4>4
    <3> QED
      BY <3>3, <3>4
  <2>2. ASSUME NEW i \in 1..Len(watch'), NEW k \in 1..Len(watch'),
               watch'[i].st = Absent, k > i, watch'[k].n = watch'[i].n
        PROVE  \E j \in 1..Len(watch') : j > i /\ watch'[j].n = watch'[i].n /\ watch'[j].st = "New"
    <3>1. /\ i + 1 \in 1..Len(watch) /\ k + 1 \in 1..Len(watch) /\ k + 1 > i + 1
          /\ watch'[i] = watch[i + 1] /\ watch'[k] = watch[k + 1]
      BY <2>0, <2>2
    <3>2. Again(i + 1, k + 1)
      BY <1>a, <3>1
    <3>3. PICK j \in 1..Len(watch) :
            j > i + 1 /\ watch[j].n = watch[i + 1].n /\ watch[j].st = "New"
      BY <2>2, <3>1, <3>2
    <3>4. j - 1 \in 1..Len(watch') /\ watch'[j - 1] = watch[j] /\ j - 1 > i
      BY <2>0, <3>3
    <3> QED
      BY <3>1, <3>3, <3>4
  <2> QED
    BY <2>1, <2>2 DEF BirthInv
<1>4. CASE Crash
  <2>1. watch' = <<>> /\ Len(watch') = 0
    BY <1>4 DEF Crash, Relist
  <2> QED
    BY <2>1 DEF BirthInv, Fresh
<1> QED
  BY <1>1, <1>2, <1>3, <1>4, RepoMoves

-----------------------------------------------------------------------------
(* What queues the pool again. *)

\* Some event in flight about n will pass vnodePhaseChanged when it is applied.
Stirred(n) ==
  \/ /\ cache[n] # Absent
     /\ \E i \in 1..Len(watch) : watch[i].n = n /\ Phase(watch[i].st) # Phase(cache[n])
  \/ \E i, j \in 1..Len(watch) :
       /\ i < j /\ watch[i].n = n /\ watch[j].n = n
       /\ watch[i].st # Absent /\ Phase(watch[j].st) # Phase(watch[i].st)

\* Somebody is about to write the first status of n.
Hatching(n) == vnodes[n] = "New" /\ (Creating(pw, n) \/ Creating(vw, n))

\* The pool is queued, or will be by what is in flight or under way.
Alarm ==
  \/ pq
  \/ pw.pc = "failed"
  \/ \E n \in Names : Stirred(n)
  \/ \E n \in Names : Hatching(n)

\* Phases tell absence, the missing status and Pending apart from the others.
LEMMA PhaseFacts ==
  ASSUME NEW st
  PROVE  /\ Phase(st) = Absent <=> st = Absent
         /\ Phase(st) = "New" <=> st = "New"
         /\ Phase(st) = "Pending" <=> st = "Pending"
         /\ Phase(Absent) = Absent /\ Phase("New") = "New" /\ Phase("Pending") = "Pending"
BY DEF Phase, Absent

\* A write that changes the phase of a node stirs it.
LEMMA ChangeStirs ==
  ASSUME RepoTypeOK, Coherent, LastInv, NEW n \in Names, NEW st, Written(n, st),
         vnodes[n] # Absent, Phase(st) # Phase(vnodes[n])
  PROVE  Stirred(n)'
<1>1. /\ Len(watch) \in Nat
      /\ watch'[Len(watch) + 1].n = n /\ watch'[Len(watch) + 1].st = st
      /\ \A i \in 1..Len(watch) :
           watch'[i] = watch[i] /\ i \in 1..Len(watch') /\ i < Len(watch) + 1
      /\ Len(watch) + 1 \in 1..Len(watch')
      /\ cache' = cache
  BY WriteFacts
<1>2. CASE Fresh(n)
  <2>1. cache'[n] = vnodes[n]
    BY <1>1, <1>2 DEF Coherent
  <2> QED
    BY <1>1, <2>1 DEF Stirred
<1>3. CASE ~Fresh(n)
  <2>1. PICK i \in 1..Len(watch) : watch[i].n = n /\ watch[i].st = vnodes[n]
    BY <1>3, Latest
  <2>2. PICK j \in 1..Len(watch') : j = Len(watch) + 1
    BY <1>1
  <2>3. i \in 1..Len(watch') /\ i < j /\ watch'[i] = watch[i]
    BY <1>1, <2>1, <2>2
  <2> QED
    BY <1>1, <2>1, <2>2, <2>3 DEF Stirred
<1> QED
  BY <1>2, <1>3

\* A node stays stirred while events only pile up.
LEMMA WriteKeepsStirred ==
  ASSUME RepoTypeOK, NEW n \in Names, Stirred(n), NEW m \in Names, NEW st, Written(m, st)
  PROVE  Stirred(n)'
<1>1. /\ \A i \in 1..Len(watch) : watch'[i] = watch[i] /\ i \in 1..Len(watch')
      /\ cache' = cache
  BY WriteFacts
<1> QED
  BY <1>1 DEF Stirred

\* The event that stirs a node queues the pool when it is applied.
LEMMA DeliveryRings ==
  ASSUME RepoTypeOK, NEW n \in Names, Stirred(n), DeliverVNode
  PROVE  pq' \/ Stirred(n)'
<1>0. /\ Len(watch) \in Nat /\ 1 \in 1..Len(watch)
      /\ \A j \in 1..Len(watch) :
           j # 1 => j - 1 \in 1..Len(watch') /\ watch'[j - 1] = watch[j]
      /\ Head(watch) = watch[1]
      /\ cache'[watch[1].n] = watch[1].st
      /\ \A m \in Names \ {watch[1].n} : cache'[m] = cache[m]
  BY ApplyFacts DEF DeliverVNode
<1>a. vnodePhaseChanged(cache[watch[1].n], watch[1].st) => pq'
  BY <1>0 DEF DeliverVNode
<1>1. ASSUME NEW i \in 1..Len(watch), cache[n] # Absent, watch[i].n = n,
             Phase(watch[i].st) # Phase(cache[n])
      PROVE  pq' \/ Stirred(n)'
  <2>1. CASE watch[1].n = n /\ Phase(watch[1].st) # Phase(cache[n])
    BY <1>a, <1>1, <2>1 DEF vnodePhaseChanged
  <2>2. CASE watch[1].n # n \/ Phase(watch[1].st) = Phase(cache[n])
    <3>1. i # 1
      BY <1>1, <2>2
    <3>2. PICK k \in 1..Len(watch') : k = i - 1 /\ watch'[k] = watch[i]
      BY <1>0, <1>1, <3>1
    <3>3. cache'[n] # Absent /\ Phase(cache'[n]) = Phase(cache[n])
      <4>1. CASE watch[1].n # n
        BY <1>0, <1>1, <4>1
      <4>2. CASE watch[1].n = n
        BY <1>0, <1>1, <2>2, <4>2, PhaseFacts
      <4> QED
        BY <4>1, <4>2
    <3> QED
      BY <1>1, <3>2, <3>3 DEF Stirred
  <2> QED
    BY <2>1, <2>2
<1>2. ASSUME NEW i \in 1..Len(watch), NEW j \in 1..Len(watch), i < j,
             watch[i].n = n, watch[j].n = n, watch[i].st # Absent,
             Phase(watch[j].st) # Phase(watch[i].st)
      PROVE  Stirred(n)'
  <2>1. PICK l \in 1..Len(watch') : l = j - 1 /\ watch'[l] = watch[j]
    BY <1>0, <1>2
  <2>2. CASE i = 1
    <3>1. cache'[n] = watch[i].st
      BY <1>0, <1>2, <2>2
    <3> QED
      BY <1>2, <2>1, <3>1 DEF Stirred
  <2>3. CASE i # 1
    <3>1. PICK k \in 1..Len(watch') : k = i - 1 /\ watch'[k] = watch[i]
      BY <1>0, <1>2, <2>3
    <3>2. k < l
      BY <1>2, <2>1, <3>1
    <3> QED
      BY <1>2, <2>1, <3>1, <3>2 DEF Stirred
  <2> QED
    BY <2>2, <2>3
<1> QED
  BY <1>1, <1>2 DEF Stirred

\* Without an alarm after it, a step leaves every node there in its phase and
\* adds none.
LEMMA Steady ==
  ASSUME ContractInv, LastInv, [Next]_vars, ~HostFailed', ~Alarm'
  PROVE  /\ Present(vnodes') = Present(vnodes)
         /\ \A n \in Names : vnodes[n] # Absent => Phase(vnodes'[n]) = Phase(vnodes[n])
<1>0. RepoTypeOK /\ Coherent
  BY DEF ContractInv, TypeInv, TypeOK
<1>1. CASE vnodes' = vnodes
  BY <1>1
<1>2. ASSUME NEW m \in Names, NEW st, Written(m, st), vnodes[m] # Absent
      PROVE  /\ Present(vnodes') = Present(vnodes)
             /\ \A n \in Names : vnodes[n] # Absent => Phase(vnodes'[n]) = Phase(vnodes[n])
  <2>1. Phase(st) = Phase(vnodes[m])
    BY <1>0, <1>2, ChangeStirs DEF Alarm
  <2>2. st # Absent
    BY <1>2, <2>1, PhaseFacts
  <2>3. vnodes'[m] = st /\ \A n \in Names \ {m} : vnodes'[n] = vnodes[n]
    BY <1>0, <1>2, WriteFacts
  <2> QED
    BY <1>2, <2>1, <2>2, <2>3 DEF Present
<1>3. ASSUME NEW n \in Names, Written(n, "New"), Creating(pw, n)' \/ Creating(vw, n)'
      PROVE  FALSE
  <2>1. vnodes'[n] = "New"
    BY <1>0, <1>3, WriteFacts
  <2> QED
    BY <1>3, <2>1 DEF Alarm, Hatching
<1>4. CASE DeliverVNode \/ Crash
  BY <1>1, <1>4 DEF DeliverVNode, Apply, Crash, Relist
<1> QED
  BY <1>1, <1>2, <1>3, <1>4, RepoMoves DEF repoVars

\* A node without status keeps none, or the status written to it stirs it.
LEMMA NewStays ==
  ASSUME ContractInv, LastInv, [Next]_vars, NEW n \in Names, vnodes[n] = "New"
  PROVE  vnodes'[n] = "New" \/ Stirred(n)'
<1>0. RepoTypeOK /\ Coherent
  BY DEF ContractInv, TypeInv, TypeOK
<1>1. CASE vnodes' = vnodes
  BY <1>1
<1>2. ASSUME NEW m \in Names, NEW st, Written(m, st), st # "New" \/ vnodes[m] = Absent
      PROVE  vnodes'[n] = "New" \/ Stirred(n)'
  <2>1. CASE m = n
    <3>1. st # "New" /\ vnodes[n] # Absent
      BY <1>2, <2>1 DEF Absent
    <3> QED
      BY <1>0, <1>2, <2>1, <3>1, PhaseFacts, ChangeStirs
  <2>2. CASE m # n
    BY <1>0, <1>2, <2>2, WriteFacts
  <2> QED
    BY <2>1, <2>2
<1>3. CASE DeliverVNode \/ Crash
  BY <1>1, <1>3 DEF DeliverVNode, Apply, Crash, Relist
<1> QED
  BY <1>1, <1>2, <1>3, RepoMoves DEF repoVars

\* The write that follows Create is accepted while the node has no status.
LEMMA CreatedWrites ==
  ASSUME RepoTypeOK, NEW n \in Names, NEW st \in Statuses \ {"New"}, NEW to,
         vnodes[n] = "New", SaveStep("created", n, st, to)
  PROVE  vnodes'[n] # "New"
<1>1. SaveAccepted("created", n)
  BY DEF SaveAccepted
<1>2. Put(n, st)
  BY <1>1 DEF SaveStep, SaveTarget, SaveAts
<1> QED
  BY <1>2 DEF Put, RepoTypeOK

\* A creator stays at its write until the node has a status.
LEMMA CreatorGoesOn ==
  ASSUME ContractInv, [Next]_vars, ~Crash, ~HostFailed',
         NEW n \in Names, vnodes[n] = "New", vnodes'[n] = "New"
  PROVE  /\ Creating(pw, n) => Creating(pw, n)'
         /\ Creating(vw, n) => Creating(vw, n)'
<1>0. RepoTypeOK /\ SavedInv /\ TypeInv
  BY DEF ContractInv, TypeInv, TypeOK
<1>1. ASSUME Creating(pw, n) PROVE ~PoolSave
  <2>1. pw.st \in Statuses \ {"New"}
    BY <1>0, <1>1 DEF Creating, SavedInv, Statuses
  <2>2. ~Spend("host")
    BY MetGrows
  <2> QED
    BY <1>0, <1>1, <2>1, <2>2, CreatedWrites DEF Creating, PoolSave
<1>2. ASSUME Creating(vw, n) PROVE ~VNodeSave
  <2>1. vw.st \in Statuses \ {"New"}
    BY <1>0, <1>2 DEF Creating, SavedInv, Statuses
  <2>2. ~Spend("host")
    BY MetGrows
  <2> QED
    BY <1>0, <1>2, <2>1, <2>2, CreatedWrites DEF Creating, VNodeSave
<1>3. ASSUME Creating(pw, n) PROVE UNCHANGED pw
  <2>1. CASE PoolStep
    BY <1>1, <1>3, <2>1 DEF Creating, PoolStep, PoolIgnore, PoolBegin, PoolBeginDeletion, Provision,
       Deprovision, PoolRegister, PoolDeregister, PoolDelete, PoolFail, PoolFinish, PoolRemaining,
       PoolUnfinalize, PoolWriteFails
  <2>2. CASE VNodeStep
    BY <2>2 DEF VNodeStep, VNodeBegin, VNodeRegister, VNodeSync, VNodeSave, vnodeFrame
  <2>3. CASE Unrelated \/ UNCHANGED vars
    BY <2>3, UnrelatedStep
  <2> QED
    BY <2>1, <2>2, <2>3 DEF Next, Environment, Unrelated
<1>4. ASSUME Creating(vw, n) PROVE UNCHANGED vw
  <2>1. CASE PoolQuiet
    BY <2>1, PoolQuietStep
  <2>2. CASE PoolStep /\ ~PoolQuiet
    BY <2>2 DEF PoolStep, PoolQuiet, Provision, Deprovision, PoolSave, PoolRegister, PoolDeregister,
       PoolDelete, poolFrame
  <2>3. CASE VNodeStep
    BY <1>2, <1>4, <2>3 DEF Creating, VNodeStep, VNodeBegin, VNodeRegister, VNodeSync
  <2>4. CASE Unrelated \/ UNCHANGED vars
    BY <2>4, UnrelatedStep
  <2> QED
    BY <2>1, <2>2, <2>3, <2>4 DEF Next, Environment, Unrelated
<1> QED
  BY <1>3, <1>4 DEF Creating

\* An alarm lasts until the pool worker takes the pool from the queue.
LEMMA AlarmStays ==
  ASSUME ContractInv, LastInv, [Next]_vars, ~Crash, ~HostFailed', pq => pq', Alarm
  PROVE  Alarm'
<1>0. RepoTypeOK
  BY DEF ContractInv, TypeInv, TypeOK
<1>1. CASE pq
  BY <1>1 DEF Alarm
<1>2. CASE pw.pc = "failed"
  <2>1. CASE PoolStep
    BY <1>2, <2>1 DEF Alarm, PoolStep, PoolIgnore, PoolBegin, PoolBeginDeletion, Provision,
       Deprovision, PoolSave, PoolRegister, PoolDeregister, PoolDelete, PoolFail, PoolFinish,
       PoolRemaining, PoolUnfinalize, PoolWriteFails, PoolDone
  <2>2. CASE VNodeStep
    BY <1>2, <2>2 DEF Alarm, VNodeStep, VNodeBegin, VNodeRegister, VNodeSync, VNodeSave, vnodeFrame
  <2>3. CASE Unrelated \/ UNCHANGED vars
    BY <1>2, <2>3, UnrelatedStep DEF Alarm
  <2> QED
    BY <2>1, <2>2, <2>3 DEF Next, Environment, Unrelated
<1>3. ASSUME NEW n \in Names, Stirred(n)
      PROVE  Alarm'
  <2>1. CASE UNCHANGED repoVars
    BY <1>3, <2>1 DEF repoVars, Stirred, Alarm
  <2>2. ASSUME NEW m \in Names, NEW st, Written(m, st)
        PROVE  Alarm'
    BY <1>0, <1>3, <2>2, WriteKeepsStirred DEF Alarm
  <2>3. CASE DeliverVNode
    BY <1>0, <1>3, <2>3, DeliveryRings DEF Alarm
  <2> QED
    BY <2>1, <2>2, <2>3, RepoMoves
<1>4. ASSUME NEW n \in Names, Hatching(n)
      PROVE  Alarm'
  <2>1. vnodes'[n] = "New" => Hatching(n)'
    BY <1>4, CreatorGoesOn DEF Hatching
  <2> QED
    BY <1>4, <2>1, NewStays DEF Hatching, Alarm
<1> QED
  BY <1>1, <1>2, <1>3, <1>4 DEF Alarm

-----------------------------------------------------------------------------
(* Nothing is left half created. *)

\* NoHalfCreated, made inductive: after a crash a VNode without status is one the
\* relisted cache shows, and nobody has written it since.
HalfInv ==
  \A n \in Names : vnodes[n] = "New" =>
    \/ Creating(pw, n) \/ Creating(vw, n)
    \/ "crash" \in budget.met /\ cache[n] = "New" /\ Fresh(n)

\* Every step in which no host call fails keeps HalfInv.
LEMMA HalfNext ==
  ASSUME ContractInv, HalfInv, [Next]_vars, ~HostFailed'
  PROVE  HalfInv'
<1>0. RepoTypeOK
  BY DEF ContractInv, TypeInv, TypeOK
<1> SUFFICES ASSUME NEW n \in Names, vnodes'[n] = "New"
             PROVE  \/ Creating(pw, n)' \/ Creating(vw, n)'
                    \/ "crash" \in budget'.met /\ cache'[n] = "New" /\ Fresh(n)'
  BY DEF HalfInv
<1>1. CASE Crash
  BY <1>1, MetGrows DEF Crash, Relist, Fresh
<1>2. CASE ~Crash /\ vnodes[n] = "New" /\ (Creating(pw, n) \/ Creating(vw, n))
  BY <1>2, CreatorGoesOn
<1>3. CASE ~Crash /\ vnodes[n] = "New" /\ "crash" \in budget.met /\ cache[n] = "New" /\ Fresh(n)
  <2>0. "crash" \in budget'.met
    BY <1>3, MetGrows
  <2>1. CASE UNCHANGED repoVars
    BY <1>3, <2>0, <2>1 DEF repoVars, Fresh
  <2>2. ASSUME NEW m \in Names, NEW st, Written(m, st), st # "New" \/ vnodes[m] = Absent
        PROVE  cache'[n] = "New" /\ Fresh(n)'
    <3>1. m # n
      BY <1>0, <1>3, <2>2, WriteFacts DEF Absent
    <3> QED
      BY <1>0, <1>3, <2>2, <3>1, WriteFacts DEF Fresh
  <2>3. CASE DeliverVNode
    <3>1. /\ 1 \in 1..Len(watch)
          /\ \A i \in 1..Len(watch') : watch'[i] = watch[i + 1] /\ i + 1 \in 1..Len(watch)
          /\ \A m \in Names \ {watch[1].n} : cache'[m] = cache[m]
      BY <1>0, <2>3, ApplyFacts DEF DeliverVNode
    <3> QED
      BY <1>3, <2>0, <3>1 DEF Fresh
  <2> QED
    BY <1>3, <2>0, <2>1, <2>2, <2>3, RepoMoves
<1>4. CASE ~Crash /\ vnodes[n] # "New"
  <2>1. CASE vnodes' = vnodes
    BY <1>4, <2>1
  <2>2. ASSUME NEW m \in Names, NEW st, Written(m, st), st # "New"
        PROVE  FALSE
    BY <1>0, <1>4, <2>2, WriteFacts
  <2>3. ASSUME NEW m \in Names, Written(m, "New"), Creating(pw, m)' \/ Creating(vw, m)'
        PROVE  Creating(pw, n)' \/ Creating(vw, n)'
    BY <1>0, <1>4, <2>3, WriteFacts
  <2> QED
    BY <1>4, <2>1, <2>2, <2>3, RepoMoves DEF DeliverVNode, Apply, repoVars
<1> QED
  BY <1>1, <1>2, <1>3, <1>4 DEF HalfInv

\* With nothing stirred and nothing hatching the cache has the nodes there are.
LEMMA SameNodes ==
  ASSUME Coherent, LastInv, BirthInv, HalfInv,
         \A n \in Names : ~Stirred(n) /\ ~Hatching(n)
  PROVE  Present(cache) = Present(vnodes)
<1> SUFFICES ASSUME NEW n \in Names
             PROVE  cache[n] = Absent <=> vnodes[n] = Absent
  BY DEF Present
<1>1. CASE Fresh(n)
  BY <1>1 DEF Coherent
<1>2. CASE ~Fresh(n)
  <2>1. PICK i \in 1..Len(watch) : Last(n, i) /\ watch[i].n = n /\ watch[i].st = vnodes[n]
    BY <1>2, Latest
  <2>2. CASE cache[n] # Absent
    BY <2>1, <2>2, PhaseFacts DEF Stirred
  <2>3. CASE cache[n] = Absent
    <3>1. PICK j \in 1..Len(watch) : watch[j].n = n /\ watch[j].st = "New"
      BY <1>2, <2>3 DEF BirthInv
    <3>2. CASE j = i
      BY <1>2, <2>1, <3>1, <3>2 DEF HalfInv, Hatching
    <3>3. CASE j < i
      <4>1. Phase(watch[i].st) = Phase(watch[j].st)
        BY <2>1, <3>1, <3>3 DEF Stirred, Absent
      <4>2. vnodes[n] = "New"
        BY <2>1, <3>1, <4>1, PhaseFacts
      <4> QED
        BY <1>2, <4>2 DEF HalfInv, Hatching
    <3>4. ~(j > i)
      BY <2>1, <3>1 DEF Last
    <3> QED
      BY <3>2, <3>3, <3>4
  <2> QED
    BY <2>2, <2>3
<1> QED
  BY <1>1, <1>2

-----------------------------------------------------------------------------
(* The number of nodes at rest. *)

\* The pool worker's copy asks for nodes.
Asking == poolCache.exists /\ poolCache.valid /\ ~poolCache.deleting

\* What the pass under way still has to add; negative when it removes.
Left == IF pw.pc = "scale" THEN pw.todo ELSE 0

\* Provision has saved Pending and is on its way to the next save.
Registering == pw.pc = "register" \/ (pw.pc = "save" /\ pw.st \in {"Ready", "RegFailed"})

\* SettledCount, made inductive: while nothing will queue the pool, the pass under
\* way has changed nothing yet and what it listed is what there is. Any node it
\* adds or removes rings the alarm, because the node changes phase.
CountInv ==
  /\ ~Alarm /\ Registering => vnodes[pw.n] = "Pending"
  /\ ~Alarm /\ Asking /\ pw.pc \in {"idle", "scale"} =>
       Cardinality(Present(vnodes)) + Left = poolCache.count

\* All that SettledCount and NoHalfCreated rest on.
SettleInv ==
  /\ ContractInv /\ LastInv /\ BirthInv
  /\ ~HostFailed => HalfInv /\ CountInv

\* A step that leaves the pool worker and its copy of the pool alone.
LEMMA CountFrame ==
  ASSUME ContractInv, LastInv, CountInv, [Next]_vars, ~Crash, ~HostFailed', pq => pq',
         UNCHANGED <<pw, poolCache>>
  PROVE  CountInv'
<1>0. WorkersOK /\ SavedInv
  BY DEF ContractInv, TypeInv
<1>1. Alarm => Alarm'
  BY AlarmStays
<1>3. ASSUME ~Alarm', Registering' PROVE vnodes'[pw'.n] = "Pending"
  <2>1. pw.n \in Names /\ vnodes[pw.n] = "Pending" /\ pw' = pw
    BY <1>0, <1>1, <1>3 DEF CountInv, Registering, WorkersOK
  <2>2. Phase(vnodes'[pw.n]) = "Pending"
    BY <1>3, <2>1, Steady, PhaseFacts DEF Absent
  <2> QED
    BY <2>1, <2>2, PhaseFacts
<1>4. ASSUME ~Alarm', Asking', pw'.pc \in {"idle", "scale"}
      PROVE  Cardinality(Present(vnodes')) + Left' = poolCache'.count
  <2>1. Asking /\ Left' = Left /\ poolCache' = poolCache
    BY <1>4 DEF Asking, Left
  <2>2. Cardinality(Present(vnodes)) + Left = poolCache.count
    BY <1>1, <1>4, <2>1 DEF CountInv
  <2> QED
    BY <1>4, <2>1, <2>2, Steady
<1> QED
  BY <1>3, <1>4 DEF CountInv

\* A step that leaves the pool worker idle or scaling and asks for an alarm, or
\* for no nodes at all.
LEMMA CountIdle ==
  ASSUME pw'.pc \in {"idle", "scale", "unfinalize"},
         pw'.pc # "unfinalize" => Alarm' \/ ~Asking'
                     \/ Cardinality(Present(vnodes')) + Left' = poolCache'.count
  PROVE  CountInv'
BY DEF CountInv, Registering

\* The pool worker takes the pool from the queue.
LEMMA CountBegin ==
  ASSUME ContractInv, LastInv, BirthInv, HalfInv, [Next]_vars, ~HostFailed',
         PoolIgnore \/ PoolBegin \/ PoolBeginDeletion
  PROVE  CountInv'
<1>0. /\ \A want, del : /\ PoolScaling(want, del).pc = "scale"
                        /\ PoolScaling(want, del).todo = want - Cardinality(Present(cache))
      /\ IdlePool.pc = "idle"
  BY DEF PoolScaling, IdlePool, DesiredScaleActions, ListByPool
<1>1. UNCHANGED <<repoVars, vw, poolCache>> /\ pw.pc = "idle"
  BY DEF PoolIgnore, PoolBegin, PoolBeginDeletion, poolFrame
<1>2. CASE PoolIgnore
  BY <1>0, <1>1, <1>2, CountIdle DEF PoolIgnore, PoolDone, Asking
<1>3. CASE PoolBeginDeletion
  BY <1>0, <1>1, <1>3, CountIdle DEF PoolBeginDeletion, Asking
<1>4. CASE PoolBegin /\ ~(poolCache.fin \/ pool = poolCache)
  BY <1>0, <1>4, CountIdle DEF PoolBegin, PoolDone, Alarm
<1>5. CASE PoolBegin /\ (poolCache.fin \/ pool = poolCache) /\ ~poolCache.valid
  <2>1. pw' = IdlePool
    BY <1>5 DEF PoolBegin
  <2> QED
    BY <1>0, <1>1, <1>5, <2>1, CountIdle DEF Asking
<1>6. CASE PoolBegin /\ (poolCache.fin \/ pool = poolCache) /\ poolCache.valid
  <2>1. pw' = PoolScaling(poolCache.count, FALSE)
    BY <1>6 DEF PoolBegin
  <2>2. pw'.pc = "scale" /\ Left' = poolCache.count - Cardinality(Present(cache))
    BY <1>0, <2>1 DEF Left
  <2>3. ASSUME ~Alarm'
        PROVE  Cardinality(Present(vnodes')) + Left' = poolCache'.count
    <3>1. \A n \in Names : ~Stirred(n) /\ ~Hatching(n)
      BY <1>1, <2>3 DEF Alarm, Stirred, Hatching, Creating, repoVars
    <3>2. Present(cache) = Present(vnodes)
      BY <3>1, SameNodes DEF ContractInv
    <3>3. poolCache.count \in Nat
      BY DEF ContractInv, TypeInv, TypeOK, Pools
    <3> QED
      BY <1>1, <2>2, <3>2, <3>3, CountIsNat DEF repoVars
  <2> QED
    BY <2>2, <2>3, CountIdle
<1> QED
  BY <1>2, <1>3, <1>4, <1>5, <1>6

\* With an alarm there is nothing left to show.
LEMMA CountAlarm ==
  ASSUME Alarm'
  PROVE  CountInv'
BY DEF CountInv

\* Provision's way from Pending to the save after Register: while nothing rings,
\* the node stays Pending.
LEMMA StillPending ==
  ASSUME ContractInv, LastInv, CountInv, [Next]_vars, ~Crash, ~HostFailed', pq => pq',
         Registering, ~Alarm'
  PROVE  pw.n \in Names /\ vnodes[pw.n] = "Pending" /\ vnodes'[pw.n] = "Pending"
<1>1. pw.n \in Names
  BY DEF ContractInv, TypeInv, WorkersOK, Registering
<1>2. vnodes[pw.n] = "Pending"
  BY AlarmStays DEF CountInv
<1>3. Phase(vnodes'[pw.n]) = "Pending"
  BY <1>1, <1>2, Steady, PhaseFacts DEF Absent
<1> QED
  BY <1>1, <1>2, <1>3, PhaseFacts

\* When Save succeeds the store has the status it was given.
LEMMA SaveLeaves ==
  ASSUME RepoTypeOK, NEW at, NEW n \in Names, NEW st \in Statuses, NEW to,
         SaveStep(at, n, st, to)
  PROVE  to = "ok" => vnodes'[n] = st
<1>0. vnodes \in [Names -> Statuses \cup {Absent}]
  BY DEF RepoTypeOK
<1>1. CASE at = "get"
  BY <1>1 DEF SaveStep, SaveBranch, SaveAts
<1>2. CASE at \in SaveAts \ {"get"} /\ at # "get" /\ SaveAccepted(at, n)
  <2>1. Put(n, SaveTarget(at, st)) /\ to = SaveNext(at)
    BY <1>2 DEF SaveStep
  <2>2. vnodes'[n] = SaveTarget(at, st)
    BY <1>0, <2>1 DEF Put, repoVars
  <2> QED
    BY <1>2, <2>1, <2>2 DEF SaveNext, SaveTarget, SaveAts
<1>3. CASE at \in SaveAts \ {"get"} /\ at # "get" /\ ~SaveAccepted(at, n)
  <2>1. to = SaveRejected(at, n)
    BY <1>3 DEF SaveStep
  <2> QED
    BY <1>3, <2>1 DEF SaveRejected, SaveAts
<1> QED
  BY <1>1, <1>2, <1>3 DEF SaveStep

\* The pool worker saves.
LEMMA CountSave ==
  ASSUME ContractInv, LastInv, CountInv, [Next]_vars, ~Crash, ~HostFailed', PoolSave
  PROVE  CountInv'
<1>0. /\ TypeInv /\ RepoTypeOK /\ SavedInv /\ pw \in PoolWorkers
      /\ pw.pc = "save" /\ pw.n \in Names /\ pw.st \in Statuses
      /\ UNCHANGED <<pq, poolCache>>
  BY DEF ContractInv, TypeInv, TypeOK, WorkersOK, PoolSave, queues, poolVars
<1>1. PICK to \in SaveAts \cup Results :
        /\ SaveStep(pw.at, pw.n, pw.st, to)
        /\ pw' = IF to \in SaveAts THEN [pw EXCEPT !.at = to] ELSE PoolAfterSave(to)
  BY MetGrows DEF PoolSave
<1>3. to = "ok" => vnodes'[pw.n] = pw.st
  BY <1>0, <1>1, SaveLeaves
<1>4. CASE to \in SaveAts
  <2>1. pw'.pc = "save" /\ pw'.n = pw.n /\ pw'.st = pw.st /\ pw'.at = to
    BY <1>0, <1>1, <1>4, PoolFields
  <2>2. ASSUME ~Alarm', Registering' PROVE vnodes'[pw'.n] = "Pending"
    <3>1. Registering
      BY <1>0, <2>1, <2>2 DEF Registering
    <3> QED
      BY <1>0, <2>1, <2>2, <3>1, StillPending
  <2> QED
    BY <2>1, <2>2 DEF CountInv
<1>5. CASE to \notin SaveAts /\ to # "ok"
  <2>1. pw' = PoolFailed
    BY <1>1, <1>5 DEF PoolAfterSave
  <2>2. Alarm'
    BY <1>0, <2>1, PoolFields DEF Alarm
  <2> QED
    BY <2>2, CountAlarm
<1>6. CASE to = "ok"
  <2>0. pw' = PoolAfterSave("ok")
    BY <1>1, <1>6 DEF SaveAts
  <2>1. CASE pw.st = "Pending"
    <3>1. pw'.pc = "register" /\ pw'.n = pw.n
      BY <1>0, <2>0, <2>1 DEF PoolAfterSave, PoolWorkers
    <3> QED
      BY <1>3, <1>6, <2>1, <3>1 DEF CountInv
  <2>2. CASE pw.st = "Ready"
    <3>1. Alarm'
      <4>1. Registering
        BY <1>0, <2>2 DEF Registering
      <4> QED
        BY <1>0, <1>3, <1>6, <2>2, <4>1, StillPending
    <3> QED
      BY <3>1, CountAlarm
  <2>3. CASE pw.st = "RegFailed"
    <3>1. pw' = PoolFailed
      BY <2>0, <2>3 DEF PoolAfterSave
    <3>2. Alarm'
      BY <1>0, <3>1, PoolFields DEF Alarm
    <3> QED
      BY <3>2, CountAlarm
  <2>4. CASE pw.st = "Terminating"
    <3>1. pw'.pc = "deregister"
      BY <1>0, <2>0, <2>4 DEF PoolAfterSave, PoolWorkers
    <3> QED
      BY <3>1 DEF CountInv, Registering
  <2> QED
    BY <1>0, <2>1, <2>2, <2>3, <2>4 DEF SavedInv
<1> QED
  BY <1>1, <1>4, <1>5, <1>6

\* The pool worker picks a node, calls the registrar or deletes.
LEMMA CountWork ==
  ASSUME ContractInv, LastInv, CountInv, [Next]_vars, ~Crash, ~HostFailed',
         Provision \/ Deprovision \/ PoolRegister \/ PoolDeregister \/ PoolDelete
  PROVE  CountInv'
<1>0. /\ TypeInv /\ RepoTypeOK /\ pw \in PoolWorkers /\ WorkersOK
      /\ UNCHANGED <<pq, poolCache>>
  BY DEF ContractInv, TypeInv, TypeOK, Provision, Deprovision, PoolRegister, PoolDeregister,
     PoolDelete, queues, poolVars, poolFrame
<1>1. CASE Provision \/ Deprovision
  <2>1. PICK n, st : pw' = PoolSaving(n, st) /\ st \in {"Pending", "Terminating"}
    BY <1>1 DEF Provision, Deprovision
  <2>2. pw'.pc = "save" /\ pw'.st \in {"Pending", "Terminating"}
    BY <1>0, <2>1, PoolFields
  <2> QED
    BY <2>2 DEF CountInv, Registering
<1>2. CASE PoolRegister
  <2>1. pw.pc = "register"
    BY <1>2 DEF PoolRegister
  <2>2. PICK to : pw' = IF to \in RegAts THEN [pw EXCEPT !.at = to]
                        ELSE PoolSaving(pw.n, RegisteredStatus(to))
    BY <1>2 DEF PoolRegister
  <2>3. pw'.n = pw.n /\ pw'.pc \in {"register", "save"}
    BY <1>0, <2>1, <2>2, PoolFields
  <2>4. ~Alarm' => vnodes'[pw.n] = "Pending"
    BY <1>0, <2>1, StillPending DEF Registering
  <2> QED
    BY <2>3, <2>4 DEF CountInv
<1>3. CASE PoolDeregister
  <2>1. pw'.pc = "delete"
    BY <1>0, <1>3 DEF PoolDeregister, PoolWorkers
  <2> QED
    BY <2>1 DEF CountInv, Registering
<1>4. CASE PoolDelete
  <2>1. pw.n \in Names /\ ~Spend("host")
    BY <1>0, <1>4, MetGrows DEF PoolDelete, WorkersOK
  <2>2. PICK to \in Results :
          DeleteStep(pw.n, to) /\ (to # "ok" => pw' = PoolFailed)
    BY <1>4, <2>1 DEF PoolDelete
  <2>3. CASE to # "ok"
    <3>1. Alarm'
      BY <1>0, <2>2, <2>3, PoolFields DEF Alarm
    <3> QED
      BY <3>1, CountAlarm
  <2>4. CASE to = "ok"
    <3>1. vnodes[pw.n] # Absent /\ Put(pw.n, Absent)
      BY <2>2, <2>4 DEF DeleteStep
    <3>2. vnodes'[pw.n] = Absent
      BY <1>0, <2>1, <3>1 DEF Put, RepoTypeOK
    <3>3. Alarm'
      BY <2>1, <3>1, <3>2, Steady, PhaseFacts
    <3> QED
      BY <3>3, CountAlarm
  <2> QED
    BY <2>3, <2>4
<1> QED
  BY <1>1, <1>2, <1>3, <1>4

\* A pass ends.
LEMMA CountEnd ==
  ASSUME ContractInv, LastInv, CountInv, [Next]_vars, ~Crash, ~HostFailed',
         PoolFail \/ PoolFinish \/ PoolRemaining \/ PoolUnfinalize \/ PoolWriteFails
  PROVE  CountInv'
<1>0. IdlePool.pc = "idle" /\ [IdlePool EXCEPT !.pc = "unfinalize"].pc = "unfinalize"
  BY DEF IdlePool
<1>1. CASE PoolFail
  BY <1>1, CountAlarm DEF PoolFail, PoolDone, Alarm
<1>2. CASE PoolFinish
  <2>1. /\ pw.pc = "scale" /\ pw.todo = 0 /\ pw' = IdlePool
        /\ pq => pq'
        /\ UNCHANGED poolCache
    BY <1>2 DEF PoolFinish, PoolDone, poolFrame
  <2>2. Left' = Left /\ (Asking' => Asking)
    BY <1>0, <2>1 DEF Left, Asking
  <2>3. ASSUME ~Alarm', Asking'
        PROVE  Cardinality(Present(vnodes')) + Left' = poolCache'.count
    BY <2>1, <2>2, <2>3, AlarmStays, Steady DEF CountInv
  <2> QED
    BY <1>0, <2>1, <2>3, CountIdle
<1>3. CASE PoolRemaining
  <2>1. pw.del /\ UNCHANGED poolCache
    BY <1>3 DEF PoolRemaining, poolFrame
  <2>2. ~Asking'
    BY <2>1 DEF ContractInv, FinalizerInv, Asking
  <2>3. pw' = IdlePool \/ pw' = [IdlePool EXCEPT !.pc = "unfinalize"]
    BY <1>3 DEF PoolRemaining, PoolDone
  <2> QED
    BY <1>0, <2>2, <2>3, CountIdle
<1>4. CASE PoolUnfinalize
  <2>1. pw.pc = "unfinalize" /\ pw' = IdlePool /\ UNCHANGED poolCache
    BY <1>4 DEF PoolUnfinalize, PoolDone, poolFrame
  <2>2. ~Asking'
    BY <2>1 DEF ContractInv, FinalizerInv, Asking
  <2> QED
    BY <1>0, <2>1, <2>2, CountIdle
<1>5. ~PoolWriteFails
  BY MetGrows DEF PoolWriteFails
<1> QED
  BY <1>1, <1>2, <1>3, <1>4, <1>5

\* Every step in which no host call fails keeps CountInv.
LEMMA CountNext ==
  ASSUME ContractInv, LastInv, BirthInv, HalfInv, CountInv, [Next]_vars, ~HostFailed'
  PROVE  CountInv'
<1>1. CASE Crash
  <2>1. pw' = IdlePool /\ poolCache' = pool /\ pq' = pool.exists
    BY <1>1 DEF Crash
  <2>2. IdlePool.pc = "idle" /\ (Asking' => Alarm')
    BY <2>1 DEF IdlePool, Asking, Alarm
  <2> QED
    BY <2>1, <2>2, CountIdle
<1>2. CASE ~Crash /\ DeliverPool
  <2>1. CASE pq'
    BY <2>1, CountAlarm DEF Alarm
  <2>2. CASE ~pq'
    <3>1. /\ pool.exists = poolCache.exists /\ pool.count = poolCache.count
          /\ pool.valid = poolCache.valid /\ pool.deleting = poolCache.deleting
          /\ ~pq /\ poolCache' = pool /\ UNCHANGED <<pw, vnodes>>
      BY <1>2, <2>2 DEF DeliverPool, repoVars
    <3>2. Alarm => Alarm'
      BY <1>2, <3>1, AlarmStays
    <3>3. /\ Asking' = Asking /\ Left' = Left /\ poolCache'.count = poolCache.count
          /\ Registering' = Registering
      BY <3>1 DEF Asking, Left, Registering
    <3> QED
      BY <3>1, <3>2, <3>3 DEF CountInv
  <2> QED
    BY <2>1, <2>2
<1>3. CASE ~Crash /\ (EditSpec \/ DeletePool \/ CreateSecret \/ DeliverVNode \/ UNCHANGED vars)
  <2>1. UNCHANGED <<pw, poolCache>>
    BY <1>3 DEF EditSpec, DeletePool, CreateSecret, DeliverVNode, vars, poolVars
  <2>2. ~DeliverVNode => pq' = pq
    BY <1>3 DEF EditSpec, DeletePool, CreateSecret, vars, queues
  <2>3. DeliverVNode => (pq => pq')
    BY DEF DeliverVNode
  <2> QED
    BY <1>3, <2>1, <2>2, <2>3, CountFrame
<1>4. CASE ~Crash /\ VNodeStep
  <2>1. UNCHANGED <<pq, pw, poolCache>>
    BY <1>4 DEF VNodeStep, VNodeBegin, VNodeRegister, VNodeSync, VNodeSave, vnodeFrame, poolVars
  <2> QED
    BY <1>4, <2>1, CountFrame
<1>5. CASE ~Crash /\ PoolStep
  BY <1>5, CountBegin, CountSave, CountWork, CountEnd DEF PoolStep
<1> QED
  BY <1>1, <1>2, <1>3, <1>4, <1>5 DEF Next, Environment

\* SettleInv holds throughout.
LEMMA SettleInvariant == Spec => []SettleInv
<1>1. Init => LastInv /\ BirthInv /\ HalfInv /\ CountInv
  <2> SUFFICES ASSUME Init PROVE LastInv /\ BirthInv /\ HalfInv /\ CountInv
    OBVIOUS
  <2>1. Len(watch) = 0 /\ \A n \in Names : Fresh(n)
    BY DEF Init, Fresh
  <2>2. LastInv /\ BirthInv
    BY <2>1 DEF LastInv, BirthInv
  <2>3. HalfInv
    BY DEF Init, HalfInv, Absent
  <2>4. CountInv
    BY DEF Init, CountInv, Alarm
  <2> QED
    BY <2>2, <2>3, <2>4
<1>2. SettleInv /\ ContractInv' /\ [Next]_vars => SettleInv'
  <2> SUFFICES ASSUME SettleInv, ContractInv', [Next]_vars PROVE SettleInv'
    OBVIOUS
  <2>1. ~HostFailed' => ~HostFailed
    BY MetGrows DEF HostFailed
  <2>2. LastInv' /\ BirthInv'
    BY LastNext, BirthNext DEF SettleInv
  <2>3. ~HostFailed' => HalfInv' /\ CountInv'
    BY <2>1, HalfNext, CountNext DEF SettleInv
  <2> QED
    BY <2>2, <2>3 DEF SettleInv
<1>3. Init /\ ContractInv => SettleInv
  BY <1>1 DEF SettleInv
<1> QED
  BY <1>2, <1>3, ContractInvariant, PTL DEF Spec

\* At rest a live pool has exactly nodeCount VNodes, for every history of lagging
\* lists, zombies, name collisions, tenant outages and crashes without a failing
\* host API call: PoolService.Reconcile never leaves a wrong count that no VNode
\* event brings back to the pool controller's queue.
THEOREM CountSettles == Spec => []SettledCount
<1>1. SettleInv => SettledCount
  <2> SUFFICES ASSUME SettleInv, Quiescent, Live, ~HostFailed
               PROVE  Cardinality(Present(vnodes)) = pool.count
    BY DEF SettledCount, HostFailed
  <2>1. CountInv /\ Asking /\ Left = 0 /\ pw.pc = "idle" /\ poolCache.count = pool.count
    BY DEF SettleInv, Quiescent, Live, Asking, Left
  <2>2. ~Alarm
    BY DEF Quiescent, Alarm, Stirred, Hatching, Creating
  <2>3. Cardinality(Present(vnodes)) + 0 = pool.count
    BY <2>1, <2>2 DEF CountInv
  <2> QED
    BY <2>3, CountIsNat
<1> QED
  BY <1>1, SettleInvariant, PTL

\* Without a crash and without a failing host API call a VNode without status is
\* always one that the Save which created it is about to write.
THEOREM NothingHalfCreated == Spec => []NoHalfCreated
<1>1. SettleInv => NoHalfCreated
  BY DEF SettleInv, HostFailed, HalfInv, Creating, NoHalfCreated
<1> QED
  BY <1>1, SettleInvariant, PTL

-----------------------------------------------------------------------------
(* The names of the nodes. *)

\* What the cache has seen or will have seen once i more events are applied.
View(i) == {m \in Names : cache[m] # Absent \/ \E j \in 1..i : watch[j].n = m}

Gapless(S) == \E c \in Nat : S = 1..c

\* NamesContiguous, made inductive: whatever prefix of the events the cache has
\* applied, it has no gap, so that len(existing)+1 names the first free index of
\* some earlier store, and its predecessor is still there.
NamesInv ==
  /\ \A i \in 0..Len(watch) : Gapless(View(i))
  /\ Present(vnodes) = View(Len(watch))
  /\ pw.pc \in {"save", "register"} /\ pw.n # 1 => pw.n - 1 \in Present(vnodes)

\* Counting nodes without a gap yields the last name.
LEMMA GaplessCount ==
  ASSUME NEW S, Gapless(S)
  PROVE  Cardinality(S) \in Nat /\ S = 1..Cardinality(S)
<1>1. PICK c \in Nat : S = 1..c
  BY DEF Gapless
<1>2. Cardinality(1..c) = c
  BY FS_Interval
<1> QED
  BY <1>1, <1>2

\* As long as nothing is deprovisioned only the pool worker's Save creates.
LEMMA OnlyProvisionCreates ==
  ASSUME ContractInv, [Next]_vars, retired = {},
         NEW n \in Names, vnodes[n] = Absent, vnodes'[n] # Absent
  PROVE  pw.pc = "save" /\ pw.n = n
<1>0. TypeInv /\ RepoTypeOK /\ WorkersOK /\ WorkedInv
  BY DEF ContractInv, TypeInv, TypeOK
<1>1. CASE PoolSave
  <2>1. pw.pc = "save" /\ pw.n \in Names
    BY <1>0, <1>1 DEF PoolSave, WorkersOK
  <2>2. PICK to : SaveStep(pw.at, pw.n, pw.st, to) \/ SaveFault(pw.at, pw.n, pw.st, to)
    BY <1>1 DEF PoolSave
  <2> QED
    BY <1>0, <2>1, <2>2, SaveWrites
<1>2. ~VNodeSave
  <2> SUFFICES ASSUME VNodeSave PROVE FALSE
    OBVIOUS
  <2>1. vw.n \in Names /\ vnodes[vw.n] # Absent
    BY <1>0 DEF VNodeSave, WorkersOK, WorkedInv
  <2>2. PICK to : SaveStep(vw.at, vw.n, vw.st, to) \/ SaveFault(vw.at, vw.n, vw.st, to)
    BY DEF VNodeSave
  <2> QED
    BY <1>0, <2>1, <2>2, SaveWrites
<1>3. ~PoolDelete
  BY <1>0 DEF PoolDelete, DeleteStep, Put, RepoTypeOK, repoVars, WorkersOK
<1>4. ~PoolQuiet
  BY PoolQuietStep DEF repoVars
<1>5. ~(Provision \/ Deprovision \/ PoolRegister \/ PoolDeregister)
  BY DEF Provision, Deprovision, PoolRegister, PoolDeregister, poolFrame, repoVars
<1>6. ~((\E m \in Names : VNodeBegin(m)) \/ VNodeRegister \/ VNodeSync)
  BY DEF VNodeBegin, VNodeRegister, VNodeSync, repoVars
<1>7. ~(Unrelated \/ UNCHANGED vars \/ Crash)
  BY UnrelatedStep, CrashStep
<1> QED
  BY <1>1, <1>2, <1>3, <1>4, <1>5, <1>6, <1>7
  DEF Next, Environment, PoolStep, PoolQuiet, VNodeStep, Unrelated

\* The node the pool worker saves or registers is the one it was on already, or
\* has just been picked.
LEMMA PoolStaysOn ==
  ASSUME TypeInv, [Next]_vars, pw'.pc \in {"save", "register"}
  PROVE  \/ pw.pc \in {"save", "register"} /\ pw'.n = pw.n
         \/ Provision \/ Deprovision
<1>0. pw \in PoolWorkers
  BY DEF TypeInv, TypeOK
<1>1. CASE UNCHANGED pw
  BY <1>1
<1>2. CASE PoolSave
  <2>1. PICK to : pw' = IF to \in SaveAts THEN [pw EXCEPT !.at = to] ELSE PoolAfterSave(to)
    BY <1>2 DEF PoolSave
  <2>2. pw.pc = "save"
    BY <1>2 DEF PoolSave
  <2> QED
    BY <2>1, <2>2, PoolFields, AfterSaveFields
<1>3. CASE PoolRegister
  <2>1. PICK to : pw' = IF to \in RegAts THEN [pw EXCEPT !.at = to]
                        ELSE PoolSaving(pw.n, RegisteredStatus(to))
    BY <1>3 DEF PoolRegister
  <2>2. pw.pc = "register"
    BY <1>3 DEF PoolRegister
  <2> QED
    BY <2>1, <2>2, PoolFields
<1>4. ~PoolQuiet /\ ~Crash
  BY PoolQuietStep, CrashStep
<1>5. ~PoolDeregister
  BY <1>0 DEF PoolDeregister, PoolWorkers
<1>6. ~PoolDelete
  BY PoolDeleteStep
<1>7. VNodeStep \/ Unrelated \/ UNCHANGED vars => UNCHANGED pw
  BY UnrelatedStep DEF VNodeStep, VNodeBegin, VNodeRegister, VNodeSync, VNodeSave, vnodeFrame
<1> QED
  BY <1>1, <1>2, <1>3, <1>4, <1>5, <1>6, <1>7
  DEF Next, Environment, PoolStep, PoolQuiet, Unrelated

\* What the cache will have seen, after a step: a write adds its node at the end,
\* a delivery moves the first event's node into the cache.
LEMMA ViewMoves ==
  ASSUME ContractInv, ContractInv', [Next]_vars, retired' = {},
         Present(vnodes) = View(Len(watch))
  PROVE  /\ Present(vnodes') = View(Len(watch))'
         /\ \A i \in 0..Len(watch') :
              \/ \E k \in 0..Len(watch) : View(i)' = View(k)
              \/ View(i)' = Present(vnodes')
<1>0. /\ RepoTypeOK /\ Len(watch) \in Nat
      /\ \A i \in 1..Len(watch') : watch'[i].st # Absent
  <2>1. RepoTypeOK /\ ResurrectInv'
    BY DEF ContractInv, TypeInv, TypeOK
  <2>2. Len(watch) \in Nat
    BY <2>1 DEF RepoTypeOK
  <2>3. \A i \in 1..Len(watch') : watch'[i].st # Absent
    BY <2>1 DEF ResurrectInv
  <2> QED
    BY <2>1, <2>2, <2>3
<1>1. CASE UNCHANGED repoVars
  <2>1. vnodes' = vnodes /\ watch' = watch /\ \A i \in 0..Len(watch) : View(i)' = View(i)
    BY <1>1 DEF repoVars, View
  <2>2. View(Len(watch))' = View(Len(watch))
    BY <1>1 DEF repoVars, View
  <2> QED
    BY <2>1, <2>2
<1>2. ASSUME NEW n \in Names, NEW st, Written(n, st)
      PROVE  /\ Present(vnodes') = View(Len(watch))'
             /\ \A i \in 0..Len(watch') :
                  \/ \E k \in 0..Len(watch) : View(i)' = View(k)
                  \/ View(i)' = Present(vnodes')
  <2>0. /\ Len(watch') = Len(watch) + 1
        /\ watch'[Len(watch) + 1].n = n /\ watch'[Len(watch) + 1].st = st
        /\ \A i \in 1..Len(watch) : watch'[i] = watch[i]
        /\ \A i \in 1..Len(watch') : i = Len(watch) + 1 \/ i \in 1..Len(watch)
        /\ Len(watch) + 1 \in 1..Len(watch')
        /\ vnodes'[n] = st /\ (\A m \in Names \ {n} : vnodes'[m] = vnodes[m])
        /\ cache' = cache
    BY <1>0, <1>2, WriteFacts
  <2>1. st # Absent
    BY <1>0, <2>0
  <2>2. Present(vnodes') = Present(vnodes) \cup {n}
    BY <2>0, <2>1 DEF Present
  <2>3. View(Len(watch))' = View(Len(watch)) \cup {n}
    <3>1. ASSUME NEW m \in Names
          PROVE  (\E j \in 1..Len(watch') : watch'[j].n = m)
                   <=> (\E j \in 1..Len(watch) : watch[j].n = m) \/ m = n
      <4>1. ASSUME NEW j \in 1..Len(watch'), watch'[j].n = m
            PROVE  (\E k \in 1..Len(watch) : watch[k].n = m) \/ m = n
        BY <2>0, <4>1
      <4>2. ASSUME NEW j \in 1..Len(watch), watch[j].n = m
            PROVE  \E k \in 1..Len(watch') : watch'[k].n = m
        BY <1>0, <2>0, <4>2
      <4> QED
        BY <2>0, <4>1, <4>2
    <3> QED
      BY <2>0, <3>1 DEF View
  <2>4. ASSUME NEW i \in 0..Len(watch)
        PROVE  View(i)' = View(i)
    <3>1. \A j \in 1..i : watch'[j] = watch[j]
      BY <1>0, <2>0
    <3> QED
      BY <2>0, <3>1 DEF View
  <2>5. \A i \in 0..Len(watch') : i \in 0..Len(watch) \/ i = Len(watch')
    BY <1>0, <2>0
  <2> QED
    BY <2>2, <2>3, <2>4, <2>5
<1>3. CASE DeliverVNode
  <2>0. /\ Len(watch') \in Nat /\ 1 \in 1..Len(watch)
        /\ \A i \in 1..Len(watch') : watch'[i] = watch[i + 1] /\ i + 1 \in 1..Len(watch)
        /\ \A j \in 1..Len(watch) :
             j # 1 => j - 1 \in 1..Len(watch') /\ watch'[j - 1] = watch[j]
        /\ watch[1].n \in Names
        /\ cache'[watch[1].n] = watch[1].st
        /\ \A m \in Names \ {watch[1].n} : cache'[m] = cache[m]
        /\ vnodes' = vnodes
    BY <1>0, <1>3, ApplyFacts DEF DeliverVNode
  <2>1. Len(watch) = Len(watch') + 1
    <3>1. watch \in Seq(Event) /\ watch # <<>> /\ watch' = Tail(watch)
      BY <1>0, <1>3 DEF RepoTypeOK, DeliverVNode, Apply
    <3> QED
      BY <3>1, QueueShrinks
  <2>2. watch[1].st # Absent
    <3>1. retired = {}
      BY RetireNext DEF ContractInv, RegisteredInv
    <3> QED
      BY <2>0, <3>1 DEF ContractInv, ResurrectInv
  <2>3. ASSUME NEW i \in 0..Len(watch')
        PROVE  View(i)' = View(i + 1)
    <3>1. ASSUME NEW m \in Names, m # watch[1].n
          PROVE  (\E j \in 1..i : watch'[j].n = m) <=> (\E j \in 1..(i + 1) : watch[j].n = m)
      <4>1. ASSUME NEW j \in 1..i, watch'[j].n = m
            PROVE  \E k \in 1..(i + 1) : watch[k].n = m
        <5>1. j + 1 \in 1..(i + 1) /\ watch[j + 1].n = m
          BY <2>0, <2>3, <4>1
        <5> QED
          BY <5>1
      <4>2. ASSUME NEW j \in 1..(i + 1), watch[j].n = m
            PROVE  \E k \in 1..i : watch'[k].n = m
        <5>1. j # 1 /\ j \in 1..Len(watch)
          BY <2>1, <2>3, <3>1, <4>2
        <5>2. j - 1 \in 1..i /\ watch'[j - 1].n = m
          BY <2>0, <2>3, <4>2, <5>1
        <5> QED
          BY <5>2
      <4> QED
        BY <4>1, <4>2
    <3>2. 1 \in 1..(i + 1)
      BY <2>3
    <3>3. \A m \in Names : m \in View(i)' <=> m \in View(i + 1)
      BY <2>0, <2>2, <3>1, <3>2 DEF View
    <3> QED
      BY <3>3 DEF View
  <2>4. \A i \in 0..Len(watch') : i + 1 \in 0..Len(watch)
    BY <2>0, <2>1
  <2>5. Len(watch') \in 0..Len(watch')
    BY <2>0
  <2> QED
    BY <2>0, <2>1, <2>3, <2>4, <2>5 DEF Present
<1>4. CASE Crash
  <2>1. cache' = vnodes /\ vnodes' = vnodes /\ Len(watch') = 0
    BY <1>4 DEF Crash, Relist
  <2>2. View(0)' = Present(vnodes')
    BY <2>1 DEF View, Present
  <2> QED
    BY <2>1, <2>2
<1> QED
  BY <1>1, <1>2, <1>3, <1>4, RepoMoves

\* As long as nothing has been deprovisioned every step keeps NamesInv.
LEMMA NamesNext ==
  ASSUME ContractInv, ContractInv', NamesInv, [Next]_vars, retired' = {}
  PROVE  NamesInv'
<1>0. /\ TypeInv /\ RetireInv /\ retired = {}
      /\ Len(watch) \in Nat /\ Len(watch') \in Nat
  <2>1. TypeInv /\ TypeInv' /\ RetireInv
    BY DEF ContractInv, RegisteredInv
  <2>2. retired = {}
    BY <2>1, RetireNext
  <2>3. Len(watch) \in Nat /\ Len(watch') \in Nat
    <3>1. watch \in Seq(Event) /\ watch' \in Seq(Event)
      BY <2>1 DEF TypeInv, TypeOK, RepoTypeOK
    <3> QED
      BY <3>1
  <2> QED
    BY <2>1, <2>2, <2>3
<1>1. Present(vnodes) \subseteq Present(vnodes')
  BY <1>0, NodesStay DEF Present
<1>2. PICK c \in Nat : Present(vnodes) = 1..c
  BY <1>0 DEF NamesInv, Gapless
<1>3. Gapless(Present(vnodes'))
  <2>1. CASE Present(vnodes') = Present(vnodes)
    BY <1>2, <2>1 DEF Gapless
  <2>2. CASE Present(vnodes') # Present(vnodes)
    <3>1. \A n \in Present(vnodes') \ Present(vnodes) : pw.pc = "save" /\ pw.n = n
      BY <1>0, OnlyProvisionCreates DEF Present
    <3>2. PICK n \in Present(vnodes') \ Present(vnodes) : TRUE
      BY <1>1, <2>2
    <3>3. n \in Names /\ n \in Nat \ {0} /\ n \notin 1..c /\ pw.n = n /\ pw.pc = "save"
      BY <1>2, <3>1, <3>2, BoundsAssumption DEF Present, Names
    <3>4. n = 1 \/ n - 1 \in 1..c
      BY <1>2, <3>3 DEF NamesInv
    <3>5. n = c + 1
      BY <1>2, <3>3, <3>4
    <3>6. Present(vnodes') = Present(vnodes) \cup {n}
      BY <1>1, <3>1, <3>2
    <3>7. Present(vnodes') = 1..(c + 1)
      BY <1>2, <3>5, <3>6
    <3> QED
      BY <1>2, <3>7 DEF Gapless
  <2> QED
    BY <2>1, <2>2
<1>4. /\ Present(vnodes') = View(Len(watch))'
      /\ \A i \in 0..Len(watch') : Gapless(View(i))'
  <2>1. /\ Present(vnodes') = View(Len(watch))'
        /\ \A i \in 0..Len(watch') :
             \/ \E k \in 0..Len(watch) : View(i)' = View(k)
             \/ View(i)' = Present(vnodes')
    BY ViewMoves DEF NamesInv
  <2>2. ASSUME NEW i \in 0..Len(watch')
        PROVE  Gapless(View(i))'
    <3>1. CASE View(i)' = Present(vnodes')
      BY <1>3, <3>1 DEF Gapless
    <3>2. ASSUME NEW k \in 0..Len(watch), View(i)' = View(k)
          PROVE  Gapless(View(i))'
      BY <3>2 DEF NamesInv, Gapless
    <3> QED
      BY <2>1, <3>1, <3>2
  <2> QED
    BY <2>1, <2>2
<1>5. ASSUME pw'.pc \in {"save", "register"}, pw'.n # 1
      PROVE  pw'.n - 1 \in Present(vnodes')
  <2>1. CASE pw.pc \in {"save", "register"} /\ pw'.n = pw.n
    BY <1>1, <1>5, <2>1 DEF NamesInv
  <2>2. CASE Provision
    <3>1. pw'.n = Cardinality(Present(cache)) + 1
      BY <1>0, <2>2, PoolFields DEF Provision, NextIndex, ListByPool
    <3>2. View(0) = Present(cache) /\ 0 \in 0..Len(watch)
      BY <1>0 DEF View, Present
    <3>3. /\ Cardinality(Present(cache)) \in Nat
          /\ Present(cache) = 1..Cardinality(Present(cache))
      BY <3>2, GaplessCount DEF NamesInv
    <3>4. pw'.n - 1 \in Present(cache)
      <4> DEFINE k == Cardinality(Present(cache))
      <4>1. k \in Nat /\ pw'.n = k + 1 /\ k # 0
        BY <1>5, <3>1, <3>3
      <4>2. pw'.n - 1 = k /\ k \in 1..k
        BY <4>1
      <4> QED
        BY <3>3, <4>2
    <3>5. Present(cache) \subseteq Present(vnodes)
      BY DEF NamesInv, View, Present
    <3> QED
      BY <1>1, <3>4, <3>5
  <2>3. ~Deprovision
    BY DEF Deprovision
  <2> QED
    BY <1>0, <1>5, <2>1, <2>2, <2>3, PoolStaysOn
<1> QED
  BY <1>4, <1>5 DEF NamesInv

\* As long as nothing is deprovisioned, Provision's len(existing)+1 leaves no gap
\* in the names, however many VNodes there are and however far the list lags: a
\* stale list may lead to a name in use, never past a free one.
THEOREM NamesHaveNoGaps == Spec => []NamesContiguous
<1> DEFINE Inv == retired = {} /\ StartNodes = 1..Cardinality(StartNodes) => NamesInv
<1>1. Init => Inv
  <2> SUFFICES ASSUME Init, StartNodes = 1..Cardinality(StartNodes) PROVE NamesInv
    OBVIOUS
  <2>1. /\ Len(watch) = 0 /\ cache = vnodes /\ pw.pc = "idle"
        /\ vnodes = [n \in Names |-> IF n \in StartNodes THEN "Ready" ELSE Absent]
    BY DEF Init, IdlePool
  <2>2. Present(vnodes) = StartNodes
    BY <2>1, SpecsAssumption DEF Present, Absent
  <2>3. View(0) = Present(vnodes)
    BY <2>1 DEF View, Present
  <2>4. Cardinality(StartNodes) \in Nat
    BY <2>2, CountIsNat
  <2>5. Gapless(StartNodes)
    BY <2>4 DEF Gapless
  <2> QED
    BY <2>1, <2>2, <2>3, <2>5 DEF NamesInv
<1>2. ContractInv /\ ContractInv' /\ Inv /\ [Next]_vars => Inv'
  <2> SUFFICES ASSUME ContractInv, ContractInv', Inv, [Next]_vars, retired' = {},
                      StartNodes = 1..Cardinality(StartNodes)
               PROVE  NamesInv'
    OBVIOUS
  <2>1. retired = {}
    BY RetireNext DEF ContractInv, RegisteredInv
  <2> QED
    BY <2>1, NamesNext
<1>3. ContractInv /\ Inv => NamesContiguous
  <2> SUFFICES ASSUME ContractInv, NamesInv PROVE Present(vnodes) = 1..Cardinality(Present(vnodes))
    BY DEF NamesContiguous
  <2>1. Len(watch) \in 0..Len(watch)
    BY DEF ContractInv, TypeInv, TypeOK, RepoTypeOK
  <2>2. Gapless(Present(vnodes))
    BY <2>1 DEF NamesInv
  <2> QED
    BY <2>2, GaplessCount
<1> HIDE DEF Inv
<1> QED
  BY <1>1, <1>2, <1>3, ContractInvariant, PTL DEF Spec
=============================================================================
