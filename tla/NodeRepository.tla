--------------------------- MODULE NodeRepository ---------------------------
(***************************************************************************)
(* The VNode custom resources of one pool as the operator sees them: the   *)
(* objects in the host API server, the informer cache every read of        *)
(* mgr.GetClient() is served from, and the watch events between the two.   *)
(* On top of them, the operations of kubeclient.NodeRepository, one step   *)
(* per call to the API server.                                             *)
(*                                                                         *)
(* A VNode is identified by the index i of its name "vnode-<display>-<i>". *)
(* Its status is abstracted to the phase and the conditions the code ever  *)
(* tells apart (see Statuses); resource versions are not stored: the       *)
(* cached copy of n is current exactly when no event about n is in flight. *)
(***************************************************************************)
EXTENDS Integers, Sequences, FiniteSets

CONSTANTS MaxName,   \* bound: the largest name index
          MaxLag,    \* bound: watch events in flight between store and cache
          SameSecond \* two writes of one status may carry the same timestamps

ASSUME BoundsAssumption ==
  MaxName \in Nat \ {0} /\ MaxLag \in Nat \ {0} /\ SameSecond \in BOOLEAN

VARIABLES vnodes,    \* the objects in the API server
          cache,     \* the informer's copy
          watch      \* events written but not yet seen by the informer

repoVars == <<vnodes, cache, watch>>

Names == 1..MaxName

\* What the services write into a VNode's status:
\*   New          created, status subresource not written yet (phase "")
\*   Pending      Provision, before registration
\*   RegFailed    phase NotReady, condition Registered = False
\*   SyncFailed   phase NotReady, no Registered condition
\*   Ready        phase Ready, readyNodeConditions()
\*   Terminating  Deprovision
Statuses == {"New", "Pending", "RegFailed", "SyncFailed", "Ready", "Terminating"}
Absent == "Absent"

\* status.phase, which the pool controller's predicate compares.
Phase(st) == IF st \in {"RegFailed", "SyncFailed"} THEN "NotReady" ELSE st

Event == [n : Names, st : Statuses \cup {Absent}]

Present(store) == {n \in Names : store[n] # Absent}

RepoTypeOK ==
  /\ vnodes \in [Names -> Statuses \cup {Absent}]
  /\ cache \in [Names -> Statuses \cup {Absent}]
  /\ watch \in Seq(Event)

\* The cached copy of n carries the resource version the API server holds.
Fresh(n) == \A i \in 1..Len(watch) : watch[i].n # n

\* One write accepted by the API server. applyNodeStatus stamps the conditions
\* with the time to the second, so writing the status already there may change
\* nothing at all: the server then makes no new version and sends no event.
Put(n, st) ==
  \/ /\ Len(watch) < MaxLag
     /\ vnodes' = [vnodes EXCEPT ![n] = st]
     /\ watch' = Append(watch, [n |-> n, st |-> st])
     /\ UNCHANGED cache
  \/ SameSecond /\ vnodes[n] = st /\ UNCHANGED repoVars

-----------------------------------------------------------------------------
(***************************************************************************)
(* Save(node).  Its position is one of SaveAts:                            *)
(*   get      the cached Get that chooses between creating and updating    *)
(*   create   Create of the new object (its status is dropped by the API)  *)
(*   created  Status().Update with the resource version Create returned    *)
(*   status   updateStatus: cached Get, then Status().Update with its      *)
(*            resource version, retried on conflict.  The annotation       *)
(*            Update before it writes the values already there, so it      *)
(*            makes no new version and fails exactly where the status      *)
(*            write would.                                                 *)
(* A step leads to another position or to a result.                        *)
(***************************************************************************)
SaveAts == {"get", "create", "created", "status"}
Results == {"ok", "NotFound", "Ignorable", "Other"}

\* What the write at this position leaves in the store.
SaveTargetNoPhase(at, st) == IF at = "create" THEN "" ELSE st
SaveTarget(at, st) == IF at = "create" THEN "New" ELSE st

SaveAccepted(at, n) ==
  CASE at = "create"  -> vnodes[n] = Absent
    [] at = "created" -> vnodes[n] = "New"
    [] at = "status"  -> cache[n] # Absent /\ Fresh(n)

\* AlreadyExists is returned; a conflict or NotFound right after Create falls
\* back to updateStatus; a conflict in updateStatus is returned once the
\* retries are used up (waiting for the cache instead is not taking the step).
SaveRejected(at, n) ==
  CASE at = "create"  -> "Other"
    [] at = "created" -> "status"
    [] at = "status"  -> IF cache[n] = Absent \/ vnodes[n] = Absent
                         THEN "NotFound" ELSE "Other"

\* Where the cached Get and an accepted write lead.
SaveBranchCreateFirst(n) == "create"
SaveBranch(n) == IF cache[n] = Absent THEN "create" ELSE "status"
SaveNextNoStatus(at) == "ok"
SaveNext(at) == IF at = "create" THEN "created" ELSE "ok"

SaveStep(at, n, st, to) ==
  \/ /\ at = "get"
     /\ to = SaveBranch(n)
     /\ UNCHANGED repoVars
  \/ /\ at \in SaveAts \ {"get"}
     /\ SaveAccepted(at, n)
     /\ Put(n, SaveTarget(at, st))
     /\ to = SaveNext(at)
  \/ /\ at \in SaveAts \ {"get"}
     /\ ~SaveAccepted(at, n)
     /\ to = SaveRejected(at, n)
     /\ UNCHANGED repoVars

\* An API call of Save fails for a reason outside the model, having been
\* applied or not. updateStatus swallows a cancelled or timed-out call and
\* reports success; everywhere else the error is returned.
SaveFault(at, n, st, to) ==
  /\ at \in SaveAts \ {"get"}
  /\ to \in IF at = "status" THEN {"Other", "ok"} ELSE {"Other", "Ignorable"}
  /\ \/ UNCHANGED repoVars
     \/ SaveAccepted(at, n) /\ Put(n, SaveTarget(at, st))

\* Delete(name): deleting an object that is gone is an error to the caller.
DeleteStep(n, to) ==
  IF vnodes[n] = Absent
  THEN to = "NotFound" /\ UNCHANGED repoVars
  ELSE to = "ok" /\ Put(n, Absent)

\* ListByPool reads the cache. The cache keeps its objects in a map, so the
\* slice it returns has no order the callers could rely on.
ListByPool == Present(cache)

\* The informer applies the oldest event.
Apply ==
  /\ watch # <<>>
  /\ cache' = [cache EXCEPT ![Head(watch).n] = Head(watch).st]
  /\ watch' = Tail(watch)
  /\ UNCHANGED vnodes

\* A restarted process lists everything again.
Relist ==
  /\ cache' = vnodes
  /\ watch' = <<>>
  /\ UNCHANGED vnodes
=============================================================================
