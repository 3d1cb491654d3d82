-------------------------- MODULE NodeRemovalProofs --------------------------
(***************************************************************************)
(* Theorems about NodeRemoval, for all values of its constants: any number *)
(* of nodes, failures and crashes, lazy or eager dials, stale reads.       *)
(***************************************************************************)
EXTENDS NodeRemoval, TLAPS

\* The types the guard depends on.
GuardTypes ==
    /\ nodes \in [Nodes -> TalosNode \cup {None}]
    /\ view \in [Nodes -> TalosNode \cup {None}]
    /\ machine \in [Nodes -> {"up", "down", "wiped"}]

GInv == GuardTypes /\ GuardDiscipline

\* What every step does except PassGuard and the refreshes of the copies: no
\* object comes back, and no member is touched but the worker's.
Keeps ==
    /\ view' = view
    /\ \A n \in Nodes : Live(nodes'[n]) => Live(nodes[n])
    /\ cluster' # None => cluster # None
    /\ seen' = None => cluster' = None
    /\ \A m \in ControlPlanes :
         Untouched(m) /\ ~(Past /\ cur = m)
           => Untouched(m)' /\ ~(Past /\ cur = m)'

\* A step that keeps these keeps the invariant.
LEMMA KeepsDiscipline ==
    ASSUME GInv, Keeps, GuardTypes', WorkerDeletes'
    PROVE  GInv'
<1>1. CopiesLag'
  BY DEF GInv, GuardDiscipline, CopiesLag, Keeps
<1>2. LiveUntouched'
  <2> SUFFICES ASSUME NEW m \in ControlPlanes, Live(view[m])
               PROVE  Untouched(m)'
    BY DEF LiveUntouched, Keeps
  <2>1. ~(Past /\ cur = m)
    BY DEF GInv, GuardDiscipline, WorkerDeletes, Past
  <2>2. Untouched(m)
    BY DEF GInv, GuardDiscipline, LiveUntouched
  <2> QED BY <2>1, <2>2 DEF Keeps
<1>3. OneSpared'
  <2> SUFFICES ASSUME cluster' # None PROVE OneSpared'
    BY DEF OneSpared
  <2>1. PICK m \in ControlPlanes :
          /\ Untouched(m)
          /\ ~(Past /\ cur = m)
          /\ (\E p \in ControlPlanes : Live(view[p])) => Live(view[m])
    BY DEF GInv, GuardDiscipline, OneSpared, Keeps
  <2>2. Untouched(m)' /\ ~(Past /\ cur = m)'
    BY <2>1 DEF Keeps
  <2>3. ((\E p \in ControlPlanes : Live(view[p])) => Live(view[m]))'
    BY <2>1 DEF Keeps
  <2> QED BY <2>2, <2>3 DEF OneSpared
<1> QED BY <1>1, <1>2, <1>3 DEF GInv, GuardDiscipline

\* What a step of the worker past the guard may do to others: nothing. It touches
\* at most its own member, and brings back neither objects nor copies of them.
Spares ==
    /\ machine' \in [Nodes -> {"up", "down", "wiped"}]
    /\ cluster' # None => cluster # None
    /\ seen' = seen
    /\ cluster' = None \/ seen # None
    /\ \A m \in ControlPlanes \ {cur} : Untouched(m) => Untouched(m)'

\* A worker past the guard that goes on and spares the others.
LEMMA GoToKeeps ==
    ASSUME GInv, Past, Spares,
           NEW next, next \notin {"idle", "mark", "guard"}, GoTo(next)
    PROVE  GuardTypes' /\ Keeps /\ WorkerDeletes'
<1> USE DEF GInv, GuardDiscipline
<1>1. UNCHANGED <<nodes, view, cur, obj>> /\ pc' = next
  BY DEF GoTo
<1>2. GuardTypes'
  BY <1>1 DEF GuardTypes, Spares
<1>3. Keeps
  BY <1>1 DEF Keeps, Spares, Past
<1>4. WorkerDeletes'
  BY <1>1 DEF WorkerDeletes, Past
<1> QED BY <1>2, <1>3, <1>4

\* A reconcile that returns leaves nothing but what it did to its own member.
LEMMA DoneKeeps ==
    ASSUME GInv, pc # "idle", NEW again, Done(again),
           nodes' \in [Nodes -> TalosNode \cup {None}],
           \A n \in Nodes : Live(nodes'[n]) => Live(nodes[n]),
           \/ Past /\ Spares
           \/ UNCHANGED <<machine, etcd, cluster, seen>>
    PROVE  GuardTypes' /\ Keeps /\ WorkerDeletes'
<1> USE DEF GInv, GuardDiscipline
<1>1. view' = view /\ pc' = "idle"
  BY DEF Done
<1>2. GuardTypes'
  BY <1>1 DEF GuardTypes, Spares
<1>3. Keeps
  <2>1. \A m \in ControlPlanes : Untouched(m) /\ ~(Past /\ cur = m) => Untouched(m)'
    BY DEF Spares, Untouched
  <2> QED BY <1>1, <2>1 DEF Keeps, Spares, Past, CopiesLag
<1>4. WorkerDeletes'
  BY <1>1 DEF WorkerDeletes
<1> QED BY <1>2, <1>3, <1>4

\* A step beside the worker that revives nothing and wipes nothing.
LEMMA AsideKeeps ==
    ASSUME GInv, UNCHANGED <<view, worker, etcd>>, GuardTypes',
           \A n \in Nodes : Live(nodes'[n]) => Live(nodes[n]),
           cluster' # None => cluster # None,
           seen' = None => cluster' = None,
           \A n \in Nodes : machine'[n] = "wiped" => machine[n] = "wiped"
    PROVE  GInv'
<1> USE DEF GInv, GuardDiscipline
<1>1. Keeps
  BY RemovalAssumption DEF Keeps, worker, Past, Untouched
<1>2. WorkerDeletes'
  BY DEF WorkerDeletes, worker
<1> QED BY <1>1, <1>2, KeepsDiscipline

\* The worker starts with a node that is being deleted.
LEMMA GetKeeps ==
    ASSUME GInv, NEW n \in Nodes, Get(n)
    PROVE  GuardTypes' /\ Keeps /\ WorkerDeletes'
<1> USE DEF GInv, GuardDiscipline, GuardTypes
<1>1. UNCHANGED <<nodes, view, machine, etcd, cluster, seen>> /\ pc = "idle"
  BY DEF Get, store, world
<1>2. GuardTypes'
  BY <1>1
<1>3. ~Past /\ ~Past'
  BY <1>1 DEF Past, Get
<1>4. Keeps
  BY <1>1, <1>3 DEF Keeps, Untouched, CopiesLag
<1>5. CASE view[n] = None \/ Live(view[n])
  BY <1>1, <1>2, <1>4, <1>5 DEF WorkerDeletes, Get
<1>6. CASE ~(view[n] = None \/ Live(view[n]))
  <2>1. cur' = n /\ obj' = view[n]
    BY <1>6 DEF Get
  <2>2. view[n] \in TalosNode /\ view[n].deleting
    BY <1>6 DEF Live
  <2> QED BY <1>1, <1>2, <1>4, <1>6, <2>1, <2>2 DEF WorkerDeletes
<1> QED BY <1>5, <1>6

\* The worker's writes to its TalosNode do not revive it.
LEMMA MarkKeeps ==
    ASSUME GInv, Mark
    PROVE  GuardTypes' /\ Keeps /\ WorkerDeletes'
<1> USE DEF GInv, GuardDiscipline, GuardTypes
<1>1. UNCHANGED <<view, machine, etcd, cluster, seen, cur>> /\ pc = "mark" /\ pc' = "guard"
  BY DEF Mark, store, world
<1>2. /\ cur \in Nodes
      /\ obj \in TalosNode
      /\ obj.deleting
      /\ ~Live(view[cur])
      /\ obj = nodes[cur]
  BY <1>1 DEF WorkerDeletes, Mark, Stale
<1>3. obj' \in TalosNode /\ obj'.deleting /\ nodes' = [nodes EXCEPT ![cur] = obj']
  BY <1>2 DEF Mark, Marked, TalosNode
<1>4. GuardTypes'
  BY <1>1, <1>2, <1>3
<1>5. Keeps
  BY <1>1, <1>2, <1>3 DEF Keeps, Untouched, CopiesLag, Past, Live
<1> QED BY <1>1, <1>2, <1>3, <1>4, <1>5 DEF WorkerDeletes


-----------------------------------------------------------------------------
(* The worker's steps                                                      *)

\* Before the guard the worker changes its TalosNode at most.
LEMMA EntryKeeps ==
    ASSUME GInv, Mark \/ MarkFails \/ Block \/ GuardFails
    PROVE  GInv'
<1>1. CASE Mark
  BY <1>1, MarkKeeps, KeepsDiscipline
<1>2. CASE MarkFails
  <2>1. Done(TRUE) /\ pc # "idle" /\ UNCHANGED <<machine, etcd, cluster, seen>>
    BY <1>2 DEF MarkFails, store, world
  <2>2. \/ nodes' = nodes
        \/ obj = nodes[cur] /\ nodes' = [nodes EXCEPT ![cur] = Marked]
    BY <1>2 DEF MarkFails, PutFails, Stale
  <2>3. cur \in Nodes /\ Marked \in TalosNode /\ Marked.deleting /\ obj.deleting
    BY <2>1 DEF GInv, GuardDiscipline, WorkerDeletes, Marked, TalosNode
  <2>4. nodes' \in [Nodes -> TalosNode \cup {None}]
    BY <2>2, <2>3 DEF GInv, GuardTypes
  <2>5. \A n \in Nodes : Live(nodes'[n]) => Live(nodes[n])
    BY <2>2, <2>3 DEF GInv, GuardTypes, Live
  <2> QED BY <2>1, <2>4, <2>5, DoneKeeps, KeepsDiscipline
<1>3. CASE Block
  <2>1. Done(TRUE) /\ pc # "idle" /\ UNCHANGED <<nodes, machine, etcd, cluster, seen>>
    BY <1>3 DEF Block, store, world
  <2> QED BY <2>1, DoneKeeps, KeepsDiscipline DEF GInv, GuardTypes
<1>4. CASE GuardFails
  <2>1. Done(TRUE) /\ pc # "idle" /\ UNCHANGED <<nodes, machine, etcd, cluster, seen>>
    BY <1>4 DEF GuardFails, store, world
  <2> QED BY <2>1, DoneKeeps, KeepsDiscipline DEF GInv, GuardTypes
<1> QED BY <1>1, <1>2, <1>3, <1>4

\* The guard: the worker passes it when another control plane is live, which then
\* is the member to spare; or when the cluster is gone; or as a worker node, that
\* is no member.
LEMMA PassGuardKeeps ==
    ASSUME GInv, PassGuard
    PROVE  GInv'
<1> USE DEF GInv, GuardDiscipline
<1>1. /\ pc = "guard" /\ pc' = "drain"
      /\ UNCHANGED <<nodes, view, machine, etcd, cluster, seen, cur, obj>>
  BY DEF PassGuard, GoTo, store, world
<1>2. GuardTypes'
  BY <1>1 DEF GuardTypes
<1>3. CopiesLag'
  BY <1>1 DEF CopiesLag
<1>4. WorkerDeletes'
  BY <1>1 DEF WorkerDeletes
<1>5. LiveUntouched'
  BY <1>1 DEF LiveUntouched, Untouched
<1>6. OneSpared'
  <2> SUFFICES ASSUME cluster # None
               PROVE  \E m \in ControlPlanes :
                        /\ Untouched(m)
                        /\ cur # m
                        /\ (\E p \in ControlPlanes : Live(view[p])) => Live(view[m])
    BY <1>1 DEF OneSpared, Untouched, Past
  <2>1. CASE cur \in ControlPlanes
    <3>1. PICK m \in ControlPlanes \ {cur} : Live(view[m])
      BY <2>1 DEF PassGuard, LastControlPlane, CopiesLag
    <3> QED BY <3>1 DEF LiveUntouched
  <2>2. CASE cur \notin ControlPlanes
    BY <2>2 DEF OneSpared
  <2> QED BY <2>1, <2>2
<1> QED BY <1>2, <1>3, <1>4, <1>5, <1>6


\* The drain works in Kubernetes, not in etcd.
LEMMA DrainKeeps ==
    ASSUME GInv, Drain
    PROVE  GInv'
<1>1. Past /\ UNCHANGED <<machine, etcd, cluster, seen>>
  BY DEF Drain, SkipDrain, Cordon, Evict, NextRound, Drained, DeleteObject,
         DrainFails, Past, store, world
<1>2. Spares
  BY <1>1 DEF Spares, GInv, GuardTypes, GuardDiscipline, CopiesLag, Untouched
<1>3. \/ GoTo(AfterDrain) \/ GoTo("evict") \/ GoTo("wait") \/ GoTo("delete")
      \/ Done(TRUE) /\ nodes' = nodes
  BY DEF Drain, SkipDrain, Cordon, Evict, NextRound, Drained, DeleteObject, DrainFails
<1>4. CASE Done(TRUE) /\ nodes' = nodes
  BY <1>1, <1>2, <1>4, DoneKeeps, KeepsDiscipline DEF Past, GInv, GuardTypes
<1>5. AfterDrain \notin {"idle", "mark", "guard"}
  BY DEF AfterDrain
<1>6. CASE GoTo(AfterDrain)
  BY <1>1, <1>2, <1>5, <1>6, GoToKeeps, KeepsDiscipline
<1>7. CASE GoTo("evict")
  BY <1>1, <1>2, <1>7, GoToKeeps, KeepsDiscipline
<1>8. CASE GoTo("wait")
  BY <1>1, <1>2, <1>8, GoToKeeps, KeepsDiscipline
<1>9. CASE GoTo("delete")
  BY <1>1, <1>2, <1>9, GoToKeeps, KeepsDiscipline
<1> QED BY <1>3, <1>4, <1>6, <1>7, <1>8, <1>9

\* Only the worker's own node leaves etcd, or is removed from it.
LEMMA EtcdLeaveKeeps ==
    ASSUME GInv, EtcdLeave
    PROVE  GInv'
<1>1. pc = "leave" /\ Past /\ UNCHANGED <<machine, cluster, seen>>
  BY DEF EtcdLeave, SkipLeave, LoadFails, Leave, LeaveFails, ForceRemove,
         Leaving, Forcing, Past, store, world
<1>2. etcd' \in {etcd, etcd \ {cur}}
  BY DEF EtcdLeave, SkipLeave, LoadFails, Leave, LeaveFails, ForceRemove, world
<1>3. Spares
  BY <1>1, <1>2 DEF Spares, GInv, GuardTypes, GuardDiscipline, CopiesLag, Untouched
<1>4. \/ GoTo("reset")
      \/ Done(TRUE) /\ nodes' = nodes
      \/ Done(TRUE) /\ Leaving /\ CountAttempt
  BY DEF EtcdLeave, SkipLeave, LoadFails, Leave, LeaveFails, ForceRemove
<1>5. CASE GoTo("reset")
  BY <1>1, <1>3, <1>5, GoToKeeps, KeepsDiscipline
<1>6. CASE Done(TRUE) /\ nodes' = nodes
  BY <1>1, <1>3, <1>6, DoneKeeps, KeepsDiscipline DEF GInv, GuardTypes
<1>7. CASE Done(TRUE) /\ Leaving /\ CountAttempt /\ ~Stale
  <2>1. /\ cur \in Nodes
        /\ nodes[cur] \in TalosNode
        /\ nodes[cur].deleting
        /\ nodes[cur].attempts < MaxAttempts
    BY <1>1, <1>7 DEF GInv, GuardDiscipline, WorkerDeletes, Stale, Leaving
  <2>2. nodes' = [nodes EXCEPT ![cur].attempts = @ + 1]
    BY <1>7 DEF CountAttempt
  <2>3. nodes[cur].attempts + 1 \in 0 .. MaxAttempts
    BY <2>1, RemovalAssumption DEF TalosNode
  <2>4. [nodes[cur] EXCEPT !.attempts = @ + 1] \in TalosNode
    BY <2>1, <2>3 DEF TalosNode
  <2>5. [nodes[cur] EXCEPT !.attempts = @ + 1].deleting
    BY <2>1 DEF TalosNode
  <2>6. nodes' \in [Nodes -> TalosNode \cup {None}]
    BY <2>1, <2>2, <2>4 DEF GInv, GuardTypes
  <2>7. \A n \in Nodes : Live(nodes'[n]) => Live(nodes[n])
    BY <2>1, <2>2, <2>5 DEF GInv, GuardTypes, Live
  <2> QED BY <1>1, <1>3, <1>7, <2>6, <2>7, DoneKeeps, KeepsDiscipline
<1> QED BY <1>4, <1>5, <1>6, <1>7 DEF CountAttempt

\* Only the worker's own machine is wiped, and no cluster is brought back.
LEMMA CleanUpKeeps ==
    ASSUME GInv, CleanUp
    PROVE  GInv'
<1>1. CASE Reset
  <2>1. pc = "reset" /\ Past /\ GoTo("secret") /\ UNCHANGED <<etcd, cluster, seen>>
    BY <1>1 DEF Reset, Past, store
  <2>2. machine' = machine \/ machine' = [machine EXCEPT ![cur] = "wiped"]
    BY <1>1 DEF Reset
  <2>3. Spares
    BY <2>1, <2>2, RemovalAssumption
    DEF Spares, GInv, GuardTypes, GuardDiscipline, CopiesLag, Untouched
  <2> QED BY <2>1, <2>3, GoToKeeps, KeepsDiscipline
<1>2. CASE DeleteConfig
  <2>1. /\ pc = "secret" /\ Past /\ GoTo(AfterSecret)
        /\ UNCHANGED <<machine, etcd, cluster, seen>>
    BY <1>2 DEF DeleteConfig, Past, world
  <2>2. Spares
    BY <2>1 DEF Spares, GInv, GuardTypes, GuardDiscipline, CopiesLag, Untouched
  <2>3. AfterSecret \notin {"idle", "mark", "guard"}
    BY DEF AfterSecret
  <2> QED BY <2>1, <2>2, <2>3, GoToKeeps, KeepsDiscipline
<1>3. CASE DeleteConfigFails
  <2>1. Done(TRUE) /\ pc # "idle" /\ UNCHANGED <<nodes, machine, etcd, cluster, seen>>
    BY <1>3 DEF DeleteConfigFails, world
  <2> QED BY <2>1, DoneKeeps, KeepsDiscipline DEF GInv, GuardTypes
<1>4. CASE RemoveEndpoint
  <2>1. pc = "endpoint" /\ Past /\ GoTo("kubeconfig") /\ UNCHANGED <<machine, etcd, seen>>
    BY <1>4 DEF RemoveEndpoint, Past, world
  <2>2. \/ cluster' = cluster
        \/ Removable /\ cluster = seen
    BY <1>4 DEF RemoveEndpoint
  <2>3. Spares
    BY <2>1, <2>2 DEF Spares, Removable, GInv, GuardTypes, GuardDiscipline, CopiesLag, Untouched
  <2> QED BY <2>1, <2>3, GoToKeeps, KeepsDiscipline
<1>5. CASE RefreshKubeconfig
  <2>1. /\ pc = "kubeconfig" /\ Past /\ GoTo("final")
        /\ UNCHANGED <<machine, etcd, cluster, seen>>
    BY <1>5 DEF RefreshKubeconfig, Past, world
  <2>2. Spares
    BY <2>1 DEF Spares, GInv, GuardTypes, GuardDiscipline, CopiesLag, Untouched
  <2> QED BY <2>1, <2>2, GoToKeeps, KeepsDiscipline
<1>6. CASE RemoveFinalizer
  <2>1. Done(FALSE) /\ pc # "idle" /\ UNCHANGED <<machine, etcd, cluster, seen>>
    BY <1>6 DEF RemoveFinalizer, store, world
  <2>2. nodes' = [nodes EXCEPT ![cur] = None]
    BY <1>6 DEF RemoveFinalizer
  <2>3. nodes' \in [Nodes -> TalosNode \cup {None}]
    BY <2>2 DEF GInv, GuardTypes
  <2>4. \A n \in Nodes : Live(nodes'[n]) => Live(nodes[n])
    BY <2>2 DEF GInv, GuardTypes, Live
  <2> QED BY <2>1, <2>3, <2>4, DoneKeeps, KeepsDiscipline
<1>7. CASE RemoveFinalizerFails
  <2>1. Done(TRUE) /\ pc # "idle" /\ UNCHANGED <<machine, etcd, cluster, seen>>
    BY <1>7 DEF RemoveFinalizerFails, store, world
  <2>2. nodes' \in {nodes, [nodes EXCEPT ![cur] = None]}
    BY <1>7 DEF RemoveFinalizerFails, PutFails
  <2>3. nodes' \in [Nodes -> TalosNode \cup {None}]
    BY <2>2 DEF GInv, GuardTypes
  <2>4. \A n \in Nodes : Live(nodes'[n]) => Live(nodes[n])
    BY <2>2 DEF GInv, GuardTypes, Live
  <2> QED BY <2>1, <2>3, <2>4, DoneKeeps, KeepsDiscipline
<1> QED BY <1>1, <1>2, <1>3, <1>4, <1>5, <1>6, <1>7 DEF CleanUp

-----------------------------------------------------------------------------
(* The others' steps                                                       *)

\* A fresh copy shows no node as live that was not: if one is live, it is spared;
\* else the member spared before still is.
LEMMA RefreshKeeps ==
    ASSUME GInv, view' = nodes, UNCHANGED <<nodes, cluster, machine, etcd>>,
           seen' \in {seen, cluster},
           \/ UNCHANGED <<pc, cur, obj>>
           \/ pc' = "idle"
    PROVE  GInv'
<1> USE DEF GInv, GuardDiscipline
<1>1. GuardTypes'
  BY DEF GuardTypes
<1>2. CopiesLag'
  BY DEF CopiesLag
<1>3. WorkerDeletes'
  BY DEF WorkerDeletes, CopiesLag
<1>4. LiveUntouched'
  BY RemovalAssumption DEF LiveUntouched, CopiesLag, Untouched
<1>5. OneSpared'
  <2> SUFFICES ASSUME cluster # None PROVE OneSpared'
    BY DEF OneSpared
  <2>1. CASE \E m \in ControlPlanes : Live(nodes[m])
    <3>1. PICK m \in ControlPlanes : Live(nodes[m])
      BY <2>1
    <3>2. Untouched(m)' /\ Live(view[m])'
      BY <3>1, <1>4 DEF LiveUntouched
    <3>3. ~(Past /\ cur = m)'
      BY <3>1, <1>3 DEF WorkerDeletes, Past
    <3> QED BY <3>2, <3>3 DEF OneSpared
  <2>2. CASE ~\E m \in ControlPlanes : Live(nodes[m])
    <3>1. PICK m \in ControlPlanes : Untouched(m) /\ ~(Past /\ cur = m)
      BY DEF OneSpared
    <3>2. Untouched(m)' /\ ~(Past /\ cur = m)'
      BY <3>1 DEF Untouched, Past
    <3> QED BY <2>2, <3>2 DEF OneSpared
  <2> QED BY <2>1, <2>2
<1> QED BY <1>1, <1>2, <1>3, <1>4, <1>5

\* Users delete and annotate TalosNodes, and delete the cluster.
LEMMA UserKeeps ==
    ASSUME GInv, User
    PROVE  GInv'
<1>1. CASE DeleteCluster
  <2>1. UNCHANGED <<nodes, view, worker, etcd, machine, seen>> /\ cluster # None
    BY <1>1 DEF DeleteCluster, world
  <2>2. seen # None
    BY <2>1 DEF GInv, GuardDiscipline, CopiesLag
  <2> QED BY <2>1, <2>2, AsideKeeps DEF GInv, GuardTypes
<1>2. ASSUME NEW n \in Nodes, DeleteNode(n) PROVE GInv'
  <2>1. UNCHANGED <<view, worker, etcd, machine, cluster, seen>>
    BY <1>2 DEF DeleteNode, store, world
  <2>2. nodes' = [nodes EXCEPT ![n] = [@ EXCEPT !.deleting = TRUE]] /\ nodes[n] \in TalosNode
    BY <1>2 DEF DeleteNode, Live, GInv, GuardTypes
  <2>3. [nodes[n] EXCEPT !.deleting = TRUE] \in TalosNode
    BY <2>2 DEF TalosNode
  <2>4. ~Live([nodes[n] EXCEPT !.deleting = TRUE])
    BY <2>2 DEF TalosNode, Live
  <2>5. GuardTypes'
    BY <2>1, <2>2, <2>3 DEF GInv, GuardTypes
  <2>6. \A k \in Nodes : Live(nodes'[k]) => Live(nodes[k])
    BY <2>2, <2>4 DEF GInv, GuardTypes
  <2> QED BY <2>1, <2>5, <2>6, AsideKeeps DEF GInv, GuardDiscipline, CopiesLag
<1>3. ASSUME NEW n \in Nodes, AnnotateSkip(n) PROVE GInv'
  <2>1. UNCHANGED <<view, worker, etcd, machine, cluster, seen>>
    BY <1>3 DEF AnnotateSkip, store, world
  <2>2. /\ nodes' = [nodes EXCEPT ![n] = [@ EXCEPT !.skip = TRUE]]
        /\ nodes[n] \in TalosNode /\ nodes[n].deleting
    BY <1>3 DEF AnnotateSkip, GInv, GuardTypes
  <2>3. [nodes[n] EXCEPT !.skip = TRUE] \in TalosNode
    BY <2>2 DEF TalosNode
  <2>4. ~Live([nodes[n] EXCEPT !.skip = TRUE])
    BY <2>2 DEF TalosNode, Live
  <2>5. GuardTypes'
    BY <2>1, <2>2, <2>3 DEF GInv, GuardTypes
  <2>6. \A k \in Nodes : Live(nodes'[k]) => Live(nodes[k])
    BY <2>2, <2>4 DEF GInv, GuardTypes
  <2> QED BY <2>1, <2>5, <2>6, AsideKeeps DEF GInv, GuardDiscipline, CopiesLag
<1> QED BY <1>1, <1>2, <1>3 DEF User

\* Watches, the cluster's teardown, machines and restarts of the controller.
LEMMA EnvironmentKeeps ==
    ASSUME GInv, Environment
    PROVE  GInv'
<1> USE DEF GInv, GuardDiscipline, CopiesLag
<1>1. CASE DeliverNodes
  BY <1>1, RefreshKeeps DEF DeliverNodes, store, world
<1>2. CASE DeliverCluster
  BY <1>2, AsideKeeps DEF DeliverCluster, world, worker, GuardTypes
<1>3. CASE RemoveCredentials
  BY <1>3, AsideKeeps DEF RemoveCredentials, world, worker, GuardTypes
<1>4. CASE RemoveCluster
  BY <1>4, AsideKeeps DEF RemoveCluster, world, worker, GuardTypes
<1>5. CASE Crash
  BY <1>5, RefreshKeeps DEF Crash, world
<1>6. ASSUME NEW n \in Nodes, Schedule(n) \/ PodStops(n) PROVE GInv'
  BY <1>6, AsideKeeps DEF Schedule, PodStops, store, worker, GuardTypes
<1>7. ASSUME NEW n \in Nodes, MachineDies(n) PROVE GInv'
  BY <1>7, AsideKeeps DEF MachineDies, store, worker, GuardTypes
<1> QED BY <1>1, <1>2, <1>3, <1>4, <1>5, <1>6, <1>7 DEF Environment

-----------------------------------------------------------------------------
(* The deletion guard                                                      *)

\* Initially all control planes are members of etcd.
LEMMA InitDiscipline == Init => GInv
<1> SUFFICES ASSUME Init PROVE GInv
  OBVIOUS
<1>1. \A n \in Nodes : nodes[n] \in TalosNode /\ ~nodes[n].deleting
  BY RemovalAssumption DEF Init, TalosNode
<1>2. GuardTypes
  BY <1>1 DEF Init, GuardTypes
<1>3. \A n \in Nodes : Live(view[n])
  BY <1>1, NoneAssumption DEF Init, Live
<1>4. \A m \in ControlPlanes : Untouched(m)
  BY RemovalAssumption DEF Init, Untouched
<1>5. Endpoints[1] \in ControlPlanes
  BY RemovalAssumption
<1>6. ~Past /\ CopiesLag /\ WorkerDeletes
  BY DEF Init, Past, CopiesLag, WorkerDeletes
<1>7. LiveUntouched
  BY <1>4 DEF LiveUntouched
<1>8. OneSpared
  BY <1>3, <1>4, <1>5, <1>6, RemovalAssumption DEF OneSpared
<1> QED BY <1>2, <1>6, <1>7, <1>8 DEF GInv, GuardDiscipline

\* Every step keeps the guard's invariant.
LEMMA NextDiscipline == GInv /\ [Next]_vars => GInv'
<1> SUFFICES ASSUME GInv, [Next]_vars PROVE GInv'
  OBVIOUS
<1>1. ASSUME NEW n \in Nodes, Get(n) PROVE GInv'
  BY <1>1, GetKeeps, KeepsDiscipline
<1>2. CASE Handle
  BY <1>2, EntryKeeps, PassGuardKeeps, DrainKeeps, EtcdLeaveKeeps, CleanUpKeeps DEF Handle
<1>3. CASE User
  BY <1>3, UserKeeps
<1>4. CASE Environment
  BY <1>4, EnvironmentKeeps
<1>5. CASE UNCHANGED vars
  BY <1>5 DEF vars, store, world, worker, GInv, GuardTypes, GuardDiscipline,
              CopiesLag, WorkerDeletes, LiveUntouched, OneSpared, Untouched, Past
<1> QED BY <1>1, <1>2, <1>3, <1>4, <1>5 DEF Next

\* The guard of handleDeletion holds between its check and the last step of the
\* deletion, whatever is deleted meanwhile and however much the copies lag.
THEOREM GuardHolds == Spec => []GuardDiscipline
<1>1. GInv => GuardDiscipline
  BY DEF GInv
<1> QED BY InitDiscipline, NextDiscipline, <1>1, PTL DEF Spec

\* While the cluster exists the controller leaves some member of etcd alone.
THEOREM EtcdIsSpared == Spec => []EtcdSurvives
<1>1. GuardDiscipline => EtcdSurvives
  BY DEF GuardDiscipline, OneSpared, Untouched, EtcdSurvives
<1> QED BY GuardHolds, <1>1, PTL


-----------------------------------------------------------------------------
(* The drain                                                               *)

Draining == {"evict", "wait", "delete"}

\* A node that is being drained stays cordoned, hence empty once it is.
DInv ==
    /\ kube \in [Nodes -> {"schedulable", "cordoned", "absent"}]
    /\ pods \in [Nodes -> {"running", "terminating", "none"}]
    /\ pc # "idle" => cur \in Nodes
    /\ pc \in Draining => kube[cur] # "schedulable"
    /\ pc = "delete" => pods[cur] = "none"

\* Whoever touches neither Nodes nor pods nor starts a drain keeps it.
LEMMA OthersKeepDrained ==
    ASSUME DInv, UNCHANGED <<kube, pods>>,
           \/ UNCHANGED <<pc, cur>>
           \/ pc' \notin Draining /\ (pc' # "idle" => cur' \in Nodes)
    PROVE  DInv'
  BY DEF DInv, Draining

\* The steps of the drain keep it: nothing is scheduled on a cordoned node.
LEMMA DrainKeepsDrained ==
    ASSUME DInv, Drain
    PROVE  DInv'
<1> USE DEF DInv, Draining
<1>1. CASE SkipDrain
  <2>1. UNCHANGED <<kube, pods, cur>> /\ pc' \in {"leave", "reset"} /\ pc # "idle"
    BY <1>1 DEF SkipDrain, GoTo, AfterDrain, world
  <2> QED BY <2>1
<1>2. CASE Cordon
  BY <1>2 DEF Cordon, GoTo
<1>3. CASE Evict
  BY <1>3 DEF Evict, GoTo
<1>4. CASE NextRound
  BY <1>4 DEF NextRound, GoTo, world
<1>5. CASE Drained
  BY <1>5 DEF Drained, GoTo, world
<1>6. CASE DeleteObject
  BY <1>6 DEF DeleteObject, GoTo, AfterDrain
<1>7. CASE DrainFails
  <2>1. pc' = "idle" /\ pods' = pods
    BY <1>7 DEF DrainFails, Done
  <2>2. kube' = kube \/ kube' = [kube EXCEPT ![cur] = "absent"]
    BY <1>7 DEF DrainFails
  <2> QED BY <2>1, <2>2
<1> QED BY <1>1, <1>2, <1>3, <1>4, <1>5, <1>6, <1>7 DEF Drain

\* Nothing is being drained initially.
LEMMA InitDrained == Init => DInv
  BY RemovalAssumption DEF Init, DInv, Draining

\* Every step keeps it.
LEMMA NextDrained == DInv /\ [Next]_vars => DInv'
<1> SUFFICES ASSUME DInv, [Next]_vars PROVE DInv'
  OBVIOUS
<1> USE DEF Draining
<1>1. ASSUME NEW n \in Nodes, Get(n) PROVE DInv'
  <2>1. UNCHANGED <<kube, pods>>
    BY <1>1 DEF Get, world
  <2>2. \/ UNCHANGED <<pc, cur>>
        \/ cur' = n /\ pc' \in {"mark", "guard"}
    BY <1>1 DEF Get
  <2> QED BY <2>1, <2>2, OthersKeepDrained
<1>2. CASE Mark
  BY <1>2, OthersKeepDrained DEF Mark, world, DInv
<1>3. CASE PassGuard
  BY <1>3, OthersKeepDrained DEF PassGuard, GoTo, world, DInv
<1>4. CASE MarkFails \/ Block \/ GuardFails
  BY <1>4, OthersKeepDrained DEF MarkFails, Block, GuardFails, Done, world
<1>5. CASE Drain
  BY <1>5, DrainKeepsDrained
<1>6. CASE EtcdLeave
  <2>1. UNCHANGED <<kube, pods>> /\ pc = "leave"
    BY <1>6 DEF EtcdLeave, SkipLeave, LoadFails, Leave, LeaveFails, ForceRemove,
                Leaving, Forcing, world
  <2>2. GoTo("reset") \/ Done(TRUE)
    BY <1>6 DEF EtcdLeave, SkipLeave, LoadFails, Leave, LeaveFails, ForceRemove
  <2> QED BY <2>1, <2>2, OthersKeepDrained DEF GoTo, Done, DInv
<1>7. CASE CleanUp
  <2>1. UNCHANGED <<kube, pods>> /\ pc # "idle"
    BY <1>7 DEF CleanUp, Reset, DeleteConfig, DeleteConfigFails, RemoveEndpoint,
                RefreshKubeconfig, RemoveFinalizer, RemoveFinalizerFails, world
  <2>2. \/ GoTo("secret") \/ GoTo(AfterSecret) \/ GoTo("kubeconfig") \/ GoTo("final")
        \/ Done(TRUE) \/ Done(FALSE)
    BY <1>7 DEF CleanUp, Reset, DeleteConfig, DeleteConfigFails, RemoveEndpoint,
                RefreshKubeconfig, RemoveFinalizer, RemoveFinalizerFails
  <2> QED BY <2>1, <2>2, OthersKeepDrained DEF GoTo, Done, AfterSecret, DInv
<1>8. CASE User
  BY <1>8, OthersKeepDrained
  DEF User, DeleteCluster, DeleteNode, AnnotateSkip, worker, world
<1>9. ASSUME NEW n \in Nodes, Schedule(n) PROVE DInv'
  BY <1>9 DEF Schedule, worker, DInv
<1>10. ASSUME NEW n \in Nodes, PodStops(n) PROVE DInv'
  BY <1>10 DEF PodStops, worker, DInv
<1>11. ASSUME NEW n \in Nodes, MachineDies(n) PROVE DInv'
  BY <1>11, OthersKeepDrained DEF MachineDies, worker
<1>12. CASE Crash
  BY <1>12, OthersKeepDrained DEF Crash, world
<1>13. CASE DeliverNodes
  BY <1>13, OthersKeepDrained DEF DeliverNodes, world
<1>14. CASE DeliverCluster \/ RemoveCredentials \/ RemoveCluster
  BY <1>14, OthersKeepDrained
  DEF DeliverCluster, RemoveCredentials, RemoveCluster, worker, world
<1>15. CASE UNCHANGED vars
  BY <1>15, OthersKeepDrained DEF vars, worker, world
<1>16. CASE Handle
  BY <1>16, <1>2, <1>3, <1>4, <1>5, <1>6, <1>7 DEF Handle
<1>17. CASE Environment
  BY <1>17, <1>9, <1>10, <1>11, <1>12, <1>13, <1>14 DEF Environment
<1> QED BY <1>1, <1>8, <1>15, <1>16, <1>17 DEF Next

\* drainAndDeleteNode deletes the Node object of an emptied node only.
THEOREM DrainedFirst == Spec => EvictedBeforeDeleted
<1> DEFINE Emptied ==
        \A n \in Nodes : kube[n] # "absent" /\ kube'[n] = "absent" => pods[n] = "none"
<1>1. DInv /\ [Next]_vars => [Emptied]_vars
  <2> SUFFICES ASSUME DInv, Next,
                      NEW n \in Nodes, kube[n] # "absent", kube'[n] = "absent"
               PROVE  pods[n] = "none"
    BY DEF vars
  <2>1. kube' # kube
    OBVIOUS
  <2>2. pc = "delete" /\ kube' \in {kube, [kube EXCEPT ![cur] = "absent"]}
    <3>1. CASE Drain
      <4>1. CASE Cordon
        BY <4>1 DEF Cordon, DInv
      <4>2. CASE DeleteObject \/ DrainFails
        BY <4>2, <2>1 DEF DeleteObject, DrainFails
      <4> QED BY <3>1, <4>1, <4>2, <2>1
              DEF Drain, SkipDrain, Evict, NextRound, Drained, world
    <3>2. CASE ~Drain
      <4>1. kube' = kube
        BY <3>2 DEF Next, Handle, User, Environment, Get, Mark, MarkFails, Block,
             PassGuard, GuardFails, EtcdLeave, SkipLeave, LoadFails, Leave, LeaveFails,
             ForceRemove, CleanUp, Reset, DeleteConfig, DeleteConfigFails,
             RemoveEndpoint, RefreshKubeconfig, RemoveFinalizer, RemoveFinalizerFails,
             DeleteCluster, DeleteNode, AnnotateSkip, DeliverNodes, DeliverCluster,
             RemoveCredentials, RemoveCluster, Schedule, PodStops, MachineDies, Crash,
             world
      <4> QED BY <4>1, <2>1
    <3> QED BY <3>1, <3>2
  <2> QED BY <2>2, <2>1 DEF DInv
<1> QED BY InitDrained, NextDrained, <1>1, PTL DEF Spec, EvictedBeforeDeleted


-----------------------------------------------------------------------------
(* What a removed node leaves behind                                       *)

Finishing == {"endpoint", "kubeconfig", "final"}

\* The Secret is gone before the worker gets to the finalizer.
CInv ==
    /\ pc \in Finishing => cur \notin confs
    /\ NoConfigLeft

\* A TalosNode goes with its finalizer, and in no other way.
LEMMA OnlyFinalizerRemoves ==
    ASSUME GInv, Next, NEW n \in Nodes, nodes'[n] = None
    PROVE  nodes[n] = None \/ (pc = "final" /\ cur = n)
<1> USE DEF GInv, GuardTypes
<1> SUFFICES ASSUME nodes' # nodes
             PROVE  nodes[n] = None \/ (pc = "final" /\ cur = n)
  OBVIOUS
<1>1. CASE Mark \/ MarkFails
  <2>1. /\ cur \in Nodes
        /\ obj \in TalosNode
        /\ nodes' = [nodes EXCEPT ![cur] = Marked]
    BY <1>1 DEF Mark, MarkFails, PutFails, GuardDiscipline, WorkerDeletes
  <2>2. Marked \in TalosNode
    BY <2>1 DEF Marked, TalosNode
  <2> QED BY <2>1, <2>2, NoneAssumption
<1>2. CASE LeaveFails
  <2>1. /\ pc = "leave"
        /\ nodes' = [nodes EXCEPT ![cur].attempts = @ + 1]
        /\ ~Stale /\ obj.attempts < MaxAttempts
    BY <1>2 DEF LeaveFails, Leaving, CountAttempt
  <2>2. /\ cur \in Nodes /\ nodes[cur] \in TalosNode
        /\ nodes[cur].attempts < MaxAttempts
    BY <2>1 DEF GuardDiscipline, WorkerDeletes, Stale
  <2>3. nodes[cur].attempts + 1 \in 0 .. MaxAttempts
    BY <2>2, RemovalAssumption DEF TalosNode
  <2>4. [nodes[cur] EXCEPT !.attempts = @ + 1] \in TalosNode
    BY <2>2, <2>3 DEF TalosNode
  <2> QED BY <2>1, <2>2, <2>4, NoneAssumption
<1>3. CASE RemoveFinalizer \/ RemoveFinalizerFails
  BY <1>3 DEF RemoveFinalizer, RemoveFinalizerFails, PutFails
<1>4. ASSUME NEW k \in Nodes, DeleteNode(k)
      PROVE  nodes[n] = None
  <2>1. /\ nodes' = [nodes EXCEPT ![k] = [@ EXCEPT !.deleting = TRUE]]
        /\ nodes[k] \in TalosNode
    BY <1>4 DEF DeleteNode, Live
  <2>2. [nodes[k] EXCEPT !.deleting = TRUE] \in TalosNode
    BY <2>1 DEF TalosNode
  <2> QED BY <2>1, <2>2, NoneAssumption
<1>5. ASSUME NEW k \in Nodes, AnnotateSkip(k)
      PROVE  nodes[n] = None
  <2>1. /\ nodes' = [nodes EXCEPT ![k] = [@ EXCEPT !.skip = TRUE]]
        /\ nodes[k] \in TalosNode
    BY <1>5 DEF AnnotateSkip
  <2>2. [nodes[k] EXCEPT !.skip = TRUE] \in TalosNode
    BY <2>1 DEF TalosNode
  <2> QED BY <2>1, <2>2, NoneAssumption
<1>6. \/ Mark \/ MarkFails \/ LeaveFails \/ RemoveFinalizer \/ RemoveFinalizerFails
      \/ \E k \in Nodes : DeleteNode(k) \/ AnnotateSkip(k)
  BY DEF Next, Handle, User, Environment, Get, Block, PassGuard, GuardFails,
     Drain, SkipDrain, Cordon, Evict, NextRound, Drained, DeleteObject, DrainFails,
     EtcdLeave, SkipLeave, LoadFails, Leave, ForceRemove, CleanUp, Reset, DeleteConfig,
     DeleteConfigFails, RemoveEndpoint, RefreshKubeconfig,
     DeleteCluster, DeliverNodes, DeliverCluster, RemoveCredentials, RemoveCluster,
     Schedule, PodStops, MachineDies, Crash, GoTo
<1> QED BY <1>1, <1>2, <1>3, <1>4, <1>5, <1>6

\* Configurations only go, and the worker passes DeleteConfig.
LEMMA ConfigsGo ==
    ASSUME CInv, Next
    PROVE  confs' \subseteq confs /\ (pc' \in Finishing => cur' \notin confs')
<1> USE DEF CInv, Finishing
<1>1. CASE DeleteConfig
  BY <1>1 DEF DeleteConfig, GoTo
<1>2. CASE DeleteConfigFails
  BY <1>2 DEF DeleteConfigFails, Done
<1>3. CASE CleanUp /\ ~DeleteConfig /\ ~DeleteConfigFails
  <2>1. confs' = confs
    BY <1>3 DEF CleanUp, Reset, RemoveEndpoint, RefreshKubeconfig, RemoveFinalizer,
                RemoveFinalizerFails, store
  <2>2. \/ GoTo("secret") /\ pc = "reset"
        \/ GoTo("kubeconfig") /\ pc = "endpoint"
        \/ GoTo("final") /\ pc = "kubeconfig"
        \/ Done(TRUE) \/ Done(FALSE)
    BY <1>3 DEF CleanUp, Reset, RemoveEndpoint, RefreshKubeconfig, RemoveFinalizer,
                RemoveFinalizerFails
  <2> QED BY <2>1, <2>2 DEF GoTo, Done
<1>4. CASE Handle /\ ~CleanUp
  <2>1. confs' = confs
    BY <1>4 DEF Handle, Mark, MarkFails, Block, PassGuard, GuardFails, Drain, SkipDrain,
       Cordon, Evict, NextRound, Drained, DeleteObject, DrainFails, EtcdLeave, SkipLeave,
       LoadFails, Leave, LeaveFails, ForceRemove, store
  <2>2. pc' \notin Finishing
    BY <1>4 DEF Handle, Mark, MarkFails, Block, PassGuard, GuardFails, Drain, SkipDrain,
       Cordon, Evict, NextRound, Drained, DeleteObject, DrainFails, EtcdLeave, SkipLeave,
       LoadFails, Leave, LeaveFails, ForceRemove, GoTo, Done, AfterDrain
  <2> QED BY <2>1, <2>2
<1>5. ASSUME NEW n \in Nodes, Get(n)
      PROVE  confs' = confs /\ (UNCHANGED <<pc, cur>> \/ pc' \notin Finishing)
  BY <1>5 DEF Get, store
<1>6. CASE User \/ Environment
  <2>1. confs' = confs
    BY <1>6 DEF User, DeleteCluster, DeleteNode, AnnotateSkip, Environment, DeliverNodes,
       DeliverCluster, RemoveCredentials, RemoveCluster, Schedule, PodStops, MachineDies,
       Crash, store
  <2>2. UNCHANGED <<pc, cur>> \/ pc' = "idle"
    BY <1>6 DEF User, DeleteCluster, DeleteNode, AnnotateSkip, Environment, DeliverNodes,
       DeliverCluster, RemoveCredentials, RemoveCluster, Schedule, PodStops, MachineDies,
       Crash, worker
  <2> QED BY <2>1, <2>2
<1> QED BY <1>1, <1>2, <1>3, <1>4, <1>5, <1>6 DEF Next, Handle, CleanUp

\* All configurations are there initially, and all nodes.
LEMMA InitConfigs == Init => CInv
<1> SUFFICES ASSUME Init PROVE CInv
  OBVIOUS
<1>1. \A n \in Nodes : nodes[n] \in TalosNode
  BY RemovalAssumption DEF Init, TalosNode
<1> QED BY <1>1, NoneAssumption DEF Init, CInv, NoConfigLeft, Finishing

\* Every step keeps it.
LEMMA NextConfigs == GInv /\ CInv /\ [Next]_vars => CInv'
<1> SUFFICES ASSUME GInv, CInv, [Next]_vars PROVE CInv'
  OBVIOUS
<1>1. CASE UNCHANGED vars
  BY <1>1 DEF vars, store, worker, CInv, NoConfigLeft
<1>2. CASE Next
  <2>1. confs' \subseteq confs /\ (pc' \in Finishing => cur' \notin confs')
    BY <1>2, ConfigsGo
  <2>2. ASSUME NEW n \in Nodes, nodes'[n] = None PROVE n \notin confs
    BY <1>2, <2>2, OnlyFinalizerRemoves DEF CInv, NoConfigLeft, Finishing
  <2> QED BY <2>1, <2>2 DEF CInv, NoConfigLeft
<1> QED BY <1>1, <1>2

\* handleDeletion gives up the TalosNode only when its configuration is gone.
THEOREM ConfigsAreRemoved == Spec => []NoConfigLeft
<1>1. CInv => NoConfigLeft
  BY DEF CInv
<1> QED BY InitDiscipline, NextDiscipline, InitConfigs, NextConfigs, <1>1, PTL DEF Spec

=============================================================================
