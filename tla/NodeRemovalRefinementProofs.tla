--------------------- MODULE NodeRemovalRefinementProofs ---------------------
(***************************************************************************)
(* NodeRemoval implements Decommission, what a deletion promises, and its  *)
(* surroundings behave as ClusterLife, what ClusterProvision implements.   *)
(***************************************************************************)
EXTENDS NodeRemovalListProofs

\* What is known of every state: the types, the guard, the drain, the Secrets.
RInv == TypeOK /\ GInv /\ DInv /\ CInv

\* The variables of Decommission.
State   == [n \in Nodes |-> IF nodes[n] = None THEN "gone"
                            ELSE IF nodes[n].deleting THEN "leaving" ELSE "serving"]
Open    == cluster # None
Objects == {n \in Nodes : kube[n] # "absent"}
Loaded  == {n \in Nodes : pods[n] # "none"}
Wiped   == {n \in Nodes : machine[n] = "wiped"}

\* A step of NodeRemoval shows nothing there if it leaves these alone.
LEMMA NothingShows ==
    ASSUME UNCHANGED <<State, Open, Objects, Loaded, etcd, Wiped, confs>>
    PROVE  [Promise!Next]_(Promise!vars)
  BY DEF State, Open, Objects, Loaded, Wiped, Promise!vars

\* What the handler does to one node.
LEMMA HandlerShows ==
    ASSUME NEW n \in Nodes,
           \/ Promise!DropObject(n) \/ Promise!LeaveEtcd(n) \/ Promise!Erase(n)
           \/ Promise!DropConfig(n) \/ Promise!Forget(n)
    PROVE  [Promise!Next]_(Promise!vars)
  BY DEF Promise!Next

\* What a write to a TalosNode shows.
LEMMA StateAfter ==
    ASSUME RInv, NEW k \in Nodes, NEW o \in TalosNode \cup {None},
           nodes' = [nodes EXCEPT ![k] = o]
    PROVE  State' = [State EXCEPT ![k] = IF o = None THEN "gone"
                                         ELSE IF o.deleting THEN "leaving" ELSE "serving"]
<1>1. nodes \in [Nodes -> TalosNode \cup {None}]
  BY DEF RInv, TypeOK
<1> QED BY <1>1 DEF State

\* The worker's node is on its way out.
LEMMA CurLeaves ==
    ASSUME RInv, pc # "idle"
    PROVE  /\ cur \in Nodes /\ obj \in TalosNode /\ obj.deleting
           /\ State[cur] # "serving"
           /\ obj = nodes[cur] => State[cur] = "leaving"
<1>1. cur \in Nodes /\ obj \in TalosNode /\ obj.deleting /\ ~Live(view[cur])
  BY DEF RInv, GInv, GuardDiscipline, WorkerDeletes
<1>2. ~Live(nodes[cur])
  BY <1>1 DEF RInv, GInv, GuardDiscipline, CopiesLag
<1>3. nodes[cur] = None \/ nodes[cur].deleting
  BY <1>2 DEF Live
<1>4. obj # None
  BY <1>1, NoneAssumption
<1> QED BY <1>1, <1>3, <1>4 DEF State

\* The guard still holds when the worker gets to etcd and the machine.
LEMMA CurDispensable ==
    ASSUME RInv, Past
    PROVE  Open => \E m \in ControlPlanes \ {cur} : m \in etcd /\ m \notin Wiped
  BY DEF RInv, GInv, GuardDiscipline, OneSpared, Untouched, Open, Wiped

\* The other controllers and the users do not bring back what is gone.
LEMMA QuietSteps ==
    ASSUME Next, ~(Mark \/ MarkFails \/ CleanUp \/ EtcdLeave \/ Drain \/ User),
           \A n \in Nodes : ~(Schedule(n) \/ PodStops(n) \/ MachineDies(n)),
           ~RemoveCluster
    PROVE  UNCHANGED <<nodes, cluster, kube, pods, etcd, machine, confs>>
  BY DEF Next, Handle, Get, Block, PassGuard, GuardFails, Environment,
     DeliverNodes, DeliverCluster, RemoveCredentials, Crash, GoTo, store, world

\* Marking it, the worker leaves its TalosNode where it is.
LEMMA MarkStep ==
    ASSUME RInv, Mark \/ MarkFails
    PROVE  [Promise!Next]_(Promise!vars)
<1>1. /\ pc # "idle"
      /\ \/ nodes' = nodes
         \/ obj = nodes[cur] /\ nodes' = [nodes EXCEPT ![cur] = Marked]
  BY DEF Mark, MarkFails, PutFails, Stale
<1>2. Marked \in TalosNode /\ Marked.deleting
  BY <1>1, CurLeaves DEF Marked, TalosNode
<1>3. State' = State
  <2>1. CASE nodes' = nodes
    BY <2>1 DEF State
  <2>2. CASE obj = nodes[cur] /\ nodes' = [nodes EXCEPT ![cur] = Marked]
    <3>1. State' = [State EXCEPT ![cur] = "leaving"]
      BY <1>1, <1>2, <2>2, CurLeaves, StateAfter, NoneAssumption
    <3> QED BY <1>1, <2>2, <3>1, CurLeaves DEF State
  <2> QED BY <1>1, <2>1, <2>2
<1>4. UNCHANGED <<Open, Objects, Loaded, etcd, Wiped, confs>>
  BY DEF Mark, MarkFails, store, world, Open, Objects, Loaded, Wiped
<1> QED BY <1>3, <1>4, NothingShows

\* The drain takes pods and Node objects away, in this order.
LEMMA DrainStep ==
    ASSUME RInv, Drain
    PROVE  [Promise!Next]_(Promise!vars)
<1>1. /\ pc # "idle"
      /\ UNCHANGED <<nodes, cluster, etcd, machine, confs>>
  BY DEF Drain, SkipDrain, Cordon, Evict, NextRound, Drained, DeleteObject, DrainFails,
         GoTo, Done, store, world
<1>2. UNCHANGED <<State, Open, etcd, Wiped, confs>>
  BY <1>1 DEF State, Open, Wiped
<1>3. cur \in Nodes /\ State[cur] # "serving"
  BY <1>1, CurLeaves
<1>4. /\ kube \in [Nodes -> {"schedulable", "cordoned", "absent"}]
      /\ pods \in [Nodes -> {"running", "terminating", "none"}]
      /\ pc = "delete" => pods[cur] = "none"
  BY DEF RInv, DInv
<1>5. CASE Cordon
  <2>1. kube[cur] # "absent" /\ kube' = [kube EXCEPT ![cur] = "cordoned"] /\ pods' = pods
    BY <1>5 DEF Cordon
  <2>2. UNCHANGED <<Objects, Loaded>>
    BY <1>3, <1>4, <2>1 DEF Objects, Loaded
  <2> QED BY <1>2, <2>2, NothingShows
<1>6. CASE Evict
  <2>1. /\ pods[cur] # "none" /\ kube' = kube
        /\ pods' = pods \/ pods' = [pods EXCEPT ![cur] = "terminating"]
    BY <1>6 DEF Evict
  <2>2. UNCHANGED <<Objects, Loaded>>
    BY <1>3, <1>4, <2>1 DEF Objects, Loaded
  <2> QED BY <1>2, <2>2, NothingShows
<1>7. CASE (DeleteObject \/ DrainFails) /\ kube' # kube
  <2>1. /\ pc = "delete" /\ pods' = pods
        /\ kube' = [kube EXCEPT ![cur] = "absent"]
    BY <1>7 DEF DeleteObject, DrainFails
  <2>2. Objects' = Objects \ {cur} /\ Loaded' = Loaded /\ cur \notin Loaded
    BY <1>3, <1>4, <2>1 DEF Objects, Loaded
  <2>3. ASSUME NEW n \in Nodes, n = cur PROVE Promise!DropObject(n)
    BY <2>3, <1>2, <1>3, <2>2 DEF Promise!DropObject, State, Open, Objects, Loaded, Wiped
  <2> QED BY <1>3, <2>3, HandlerShows
<1>8. CASE ~Cordon /\ ~Evict /\ kube' = kube
  <2>1. pods' = pods
    BY <1>8 DEF Drain, SkipDrain, NextRound, Drained, DeleteObject, DrainFails, world
  <2>2. UNCHANGED <<Objects, Loaded>>
    BY <1>8, <2>1 DEF Objects, Loaded
  <2> QED BY <1>2, <2>2, NothingShows
<1>9. Cordon \/ Evict \/ DeleteObject \/ DrainFails \/ kube' = kube
  BY DEF Drain, SkipDrain, NextRound, Drained, world
<1> QED BY <1>5, <1>6, <1>7, <1>8, <1>9

\* Another control plane is spared whenever the worker's leaves etcd.
LEMMA EtcdLeaveStep ==
    ASSUME RInv, EtcdLeave
    PROVE  [Promise!Next]_(Promise!vars)
<1>1. /\ pc = "leave" /\ Past
      /\ UNCHANGED <<cluster, kube, pods, machine, confs>>
      /\ etcd' = etcd \/ etcd' = etcd \ {cur}
  BY DEF EtcdLeave, SkipLeave, LoadFails, Leave, LeaveFails, ForceRemove, Leaving, Forcing,
         Past, store, world
<1>2. UNCHANGED <<Open, Objects, Loaded, Wiped, confs>>
  BY <1>1 DEF Open, Objects, Loaded, Wiped
<1>3. cur \in Nodes /\ State[cur] # "serving"
  BY <1>1, CurLeaves
<1>4. State' = State
  <2>1. CASE nodes' = nodes
    BY <2>1 DEF State
  <2>2. CASE nodes' # nodes
    <3>1. /\ nodes' = [nodes EXCEPT ![cur].attempts = @ + 1]
          /\ obj = nodes[cur] /\ obj.attempts < MaxAttempts
      BY <2>2 DEF EtcdLeave, SkipLeave, LoadFails, Leave, LeaveFails, ForceRemove, GoTo,
                  Done, Leaving, CountAttempt, Stale
    <3>2. /\ cur \in Nodes /\ obj \in TalosNode /\ obj.deleting
          /\ State[cur] = "leaving"
      BY <1>1, <3>1, CurLeaves
    <3>3. obj.attempts + 1 \in 0 .. MaxAttempts
      BY <3>1, <3>2, RemovalAssumption DEF TalosNode
    <3>4. [obj EXCEPT !.attempts = @ + 1] \in TalosNode
          /\ [obj EXCEPT !.attempts = @ + 1].deleting
      BY <3>2, <3>3 DEF TalosNode
    <3>5. nodes' = [nodes EXCEPT ![cur] = [obj EXCEPT !.attempts = @ + 1]]
      BY <3>1
    <3>6. State' = [State EXCEPT ![cur] = "leaving"]
      BY <3>2, <3>4, <3>5, StateAfter, NoneAssumption
    <3> QED BY <3>2, <3>6 DEF State
  <2> QED BY <2>1, <2>2
<1>5. CASE etcd' = etcd
  BY <1>2, <1>4, <1>5, NothingShows
<1>6. CASE etcd' = etcd \ {cur}
  <2>1. Promise!Dispensable(cur)
    BY <1>1, CurDispensable DEF Promise!Dispensable, Open, Wiped
  <2>2. ASSUME NEW n \in Nodes, n = cur PROVE Promise!LeaveEtcd(n)
    BY <2>2, <1>2, <1>3, <1>4, <1>6, <2>1
    DEF Promise!LeaveEtcd, State, Open, Objects, Loaded, Wiped
  <2> QED BY <1>3, <2>2, HandlerShows
<1> QED BY <1>1, <1>5, <1>6

\* The disk goes under the same condition, the TalosNode after its Secret.
LEMMA CleanUpStep ==
    ASSUME RInv, CleanUp
    PROVE  [Promise!Next]_(Promise!vars)
<1>1. pc \in {"reset", "secret", "endpoint", "kubeconfig", "final"} /\ Past /\ pc # "idle"
  BY DEF CleanUp, Reset, DeleteConfig, DeleteConfigFails, RemoveEndpoint,
         RefreshKubeconfig, RemoveFinalizer, RemoveFinalizerFails, Past
<1>2. UNCHANGED <<kube, pods, etcd>>
  BY DEF CleanUp, Reset, DeleteConfig, DeleteConfigFails, RemoveEndpoint,
         RefreshKubeconfig, RemoveFinalizer, RemoveFinalizerFails, world
<1>3. UNCHANGED <<Objects, Loaded, etcd>>
  BY <1>2 DEF Objects, Loaded
<1>4. cur \in Nodes /\ State[cur] # "serving"
  BY <1>1, CurLeaves
<1>5. CASE Reset
  <2>1. /\ UNCHANGED <<nodes, cluster, confs>>
        /\ machine' = machine \/ machine' = [machine EXCEPT ![cur] = "wiped"]
    BY <1>5 DEF Reset, GoTo, store
  <2>2. UNCHANGED <<State, Open, confs>>
    BY <2>1 DEF State, Open
  <2>3. machine \in [Nodes -> {"up", "down", "wiped"}]
    BY DEF RInv, TypeOK
  <2>4. CASE machine' = machine
    <3>1. Wiped' = Wiped
      BY <2>4 DEF Wiped
    <3> QED BY <1>3, <2>2, <3>1, NothingShows
  <2>5. CASE machine' = [machine EXCEPT ![cur] = "wiped"]
    <3>1. Wiped' = Wiped \cup {cur}
      BY <1>4, <2>3, <2>5 DEF Wiped
    <3>2. Promise!Dispensable(cur)
      BY <1>1, CurDispensable DEF Promise!Dispensable, Open, Wiped
    <3>3. ASSUME NEW n \in Nodes, n = cur PROVE Promise!Erase(n)
      BY <3>3, <1>3, <1>4, <2>2, <3>1, <3>2
      DEF Promise!Erase, State, Open, Objects, Loaded, Wiped
    <3> QED BY <1>4, <3>3, HandlerShows
  <2> QED BY <2>1, <2>4, <2>5
<1>6. CASE DeleteConfig \/ DeleteConfigFails
  <2>1. /\ UNCHANGED <<nodes, cluster, machine>>
        /\ confs' = confs \/ confs' = confs \ {cur}
    BY <1>6 DEF DeleteConfig, DeleteConfigFails, GoTo, world
  <2>2. UNCHANGED <<State, Open, Wiped>>
    BY <2>1 DEF State, Open, Wiped
  <2>3. CASE confs' = confs
    BY <1>3, <2>2, <2>3, NothingShows
  <2>4. CASE confs' = confs \ {cur}
    <3>1. ASSUME NEW n \in Nodes, n = cur PROVE Promise!DropConfig(n)
      BY <3>1, <1>3, <1>4, <2>2, <2>4 DEF Promise!DropConfig, State, Open, Objects, Loaded, Wiped
    <3> QED BY <1>4, <3>1, HandlerShows
  <2> QED BY <2>1, <2>3, <2>4
<1>7. CASE RemoveEndpoint
  <2>1. UNCHANGED <<nodes, machine, confs>>
    BY <1>7 DEF RemoveEndpoint, GoTo, world
  <2>2. Open' = Open
    <3>1. \/ cluster' = cluster
          \/ /\ Removable /\ cluster = seen
             /\ cluster' = [cluster EXCEPT !.endpoints = Without(@, cur)]
      BY <1>7 DEF RemoveEndpoint
    <3>2. ASSUME Removable, cluster = seen
          PROVE  cluster # None /\ [cluster EXCEPT !.endpoints = Without(@, cur)] # None
      <4>1. cluster \in Cluster /\ cluster.endpoints \in Seq(ControlPlanes)
        BY <3>2 DEF Removable, RInv, TypeOK, Cluster
      <4>2. Without(cluster.endpoints, cur) \in Seq(ControlPlanes) \ {<<>>}
        BY <3>2, <4>1, WithoutFacts DEF Removable
      <4>3. [cluster EXCEPT !.endpoints = Without(@, cur)] \in Cluster
        BY <4>1, <4>2 DEF Cluster
      <4> QED BY <4>1, <4>3, NoneAssumption
    <3> QED BY <3>1, <3>2 DEF Open
  <2>3. UNCHANGED <<State, Wiped>>
    BY <2>1 DEF State, Wiped
  <2> QED BY <1>3, <2>1, <2>2, <2>3, NothingShows
<1>8. CASE RefreshKubeconfig \/ (RemoveFinalizerFails /\ nodes' = nodes)
  <2>1. UNCHANGED <<nodes, machine, confs, cluster>>
    BY <1>8 DEF RefreshKubeconfig, RemoveFinalizerFails, GoTo, store, world
  <2>2. UNCHANGED <<State, Wiped, Open>>
    BY <2>1 DEF State, Wiped, Open
  <2> QED BY <1>3, <2>1, <2>2, NothingShows
<1>9. CASE RemoveFinalizer \/ (RemoveFinalizerFails /\ nodes' # nodes)
  <2>1. /\ pc = "final" /\ obj = nodes[cur] /\ nodes' = [nodes EXCEPT ![cur] = None]
        /\ UNCHANGED <<machine, confs, cluster>>
    BY <1>9 DEF RemoveFinalizer, RemoveFinalizerFails, PutFails, Stale, store, world
  <2>2. State[cur] = "leaving" /\ State' = [State EXCEPT ![cur] = "gone"]
    BY <1>1, <1>4, <2>1, CurLeaves, StateAfter
  <2>3. cur \notin confs
    BY <2>1 DEF RInv, CInv, Finishing
  <2>4. UNCHANGED <<Wiped, Open, confs>>
    BY <2>1 DEF Wiped, Open
  <2>5. ASSUME NEW n \in Nodes, n = cur PROVE Promise!Forget(n)
    BY <2>5, <1>3, <2>2, <2>3, <2>4 DEF Promise!Forget, State, Open, Objects, Loaded, Wiped
  <2> QED BY <1>4, <2>5, HandlerShows
<1> QED BY <1>5, <1>6, <1>7, <1>8, <1>9 DEF CleanUp

\* A deletion that a user asks for, and what else a user may do.
LEMMA UserStep ==
    ASSUME RInv, User
    PROVE  [Promise!Next]_(Promise!vars)
<1>1. UNCHANGED <<kube, pods, etcd, machine, confs>>
  BY DEF User, DeleteCluster, DeleteNode, AnnotateSkip, store, world
<1>2. UNCHANGED <<Objects, Loaded, etcd, Wiped, confs>>
  BY <1>1 DEF Objects, Loaded, Wiped
<1>3. CASE DeleteCluster
  <2>1. cluster # None /\ cluster' = [cluster EXCEPT !.deleting = TRUE] /\ nodes' = nodes
    BY <1>3 DEF DeleteCluster
  <2>2. cluster \in Cluster
    BY <2>1 DEF RInv, TypeOK
  <2>3. cluster' \in Cluster
    BY <2>1, <2>2 DEF Cluster
  <2>4. Open' = Open /\ State' = State
    BY <2>1, <2>3, NoneAssumption DEF Open, State
  <2> QED BY <1>2, <2>4, NothingShows
<1>4. ASSUME NEW n \in Nodes, DeleteNode(n)
      PROVE  [Promise!Next]_(Promise!vars)
  <2>1. /\ nodes' = [nodes EXCEPT ![n] = [nodes[n] EXCEPT !.deleting = TRUE]]
        /\ nodes[n] \in TalosNode /\ nodes[n] # None /\ ~nodes[n].deleting
        /\ Open' = Open
    BY <1>4 DEF DeleteNode, Live, RInv, TypeOK, store, Open
  <2>2. /\ [nodes[n] EXCEPT !.deleting = TRUE] \in TalosNode
        /\ [nodes[n] EXCEPT !.deleting = TRUE].deleting
    BY <2>1 DEF TalosNode
  <2>3. State' = [State EXCEPT ![n] = "leaving"]
    BY <2>1, <2>2, StateAfter, NoneAssumption
  <2>4. State[n] = "serving"
    BY <2>1 DEF State
  <2>5. Promise!Request(n)
    BY <1>2, <2>1, <2>3, <2>4 DEF Promise!Request, State, Open, Objects, Loaded, Wiped
  <2> QED BY <2>5 DEF Promise!Next
<1>5. ASSUME NEW n \in Nodes, AnnotateSkip(n)
      PROVE  [Promise!Next]_(Promise!vars)
  <2>1. /\ nodes' = [nodes EXCEPT ![n] = [nodes[n] EXCEPT !.skip = TRUE]]
        /\ nodes[n] \in TalosNode /\ nodes[n] # None /\ nodes[n].deleting
        /\ Open' = Open
    BY <1>5 DEF AnnotateSkip, RInv, TypeOK, store, Open
  <2>2. /\ [nodes[n] EXCEPT !.skip = TRUE] \in TalosNode
        /\ [nodes[n] EXCEPT !.skip = TRUE].deleting
    BY <2>1 DEF TalosNode
  <2>3. State' = [State EXCEPT ![n] = "leaving"]
    BY <2>1, <2>2, StateAfter, NoneAssumption
  <2>4. State[n] = "leaving"
    BY <2>1 DEF State
  <2>5. State' = State
    BY <2>3, <2>4 DEF State
  <2> QED BY <1>2, <2>1, <2>5, NothingShows
<1> QED BY <1>3, <1>4, <1>5 DEF User

\* Pods come and go, machines die, and the cluster goes at last.
LEMMA SurroundingsStep ==
    ASSUME RInv,
           RemoveCluster \/ \E n \in Nodes : Schedule(n) \/ PodStops(n) \/ MachineDies(n)
    PROVE  [Promise!Next]_(Promise!vars)
<1>1. UNCHANGED <<nodes, kube, etcd, confs>>
  BY DEF RemoveCluster, Schedule, PodStops, MachineDies, store, world
<1>2. UNCHANGED <<State, Objects, etcd, confs>>
  BY <1>1 DEF State, Objects
<1>3. CASE RemoveCluster
  <2>1. cluster' = None /\ UNCHANGED <<pods, machine>>
    BY <1>3 DEF RemoveCluster, world
  <2>2. (cluster' # None) = FALSE
    BY <2>1
  <2>3. UNCHANGED <<Loaded, Wiped>>
    BY <2>1 DEF Loaded, Wiped
  <2>4. Promise!Close
    BY <1>2, <2>2, <2>3 DEF Promise!Close, State, Objects, Loaded, Wiped
  <2> QED BY <2>4 DEF Promise!Next
<1>4. /\ pods \in [Nodes -> {"running", "terminating", "none"}]
      /\ machine \in [Nodes -> {"up", "down", "wiped"}]
  BY DEF RInv, TypeOK
<1>5. ASSUME NEW n \in Nodes, Schedule(n)
      PROVE  [Promise!Next]_(Promise!vars)
  <2>1. /\ pods' = [pods EXCEPT ![n] = "running"] /\ kube[n] = "schedulable"
        /\ UNCHANGED <<cluster, machine>>
    BY <1>5 DEF Schedule, store
  <2>2. Loaded' = Loaded \cup {n} /\ n \in Objects /\ UNCHANGED <<Open, Wiped>>
    BY <1>4, <2>1 DEF Loaded, Objects, Open, Wiped
  <2>3. Promise!Load(n)
    BY <1>2, <2>2 DEF Promise!Load, State, Open, Objects, Loaded, Wiped
  <2> QED BY <2>3 DEF Promise!Next
<1>6. ASSUME NEW n \in Nodes, PodStops(n)
      PROVE  [Promise!Next]_(Promise!vars)
  <2>1. pods' = [pods EXCEPT ![n] = "none"] /\ UNCHANGED <<cluster, machine>>
    BY <1>6 DEF PodStops, store
  <2>2. Loaded' = Loaded \ {n} /\ UNCHANGED <<Open, Wiped>>
    BY <1>4, <2>1 DEF Loaded, Open, Wiped
  <2>3. Promise!Unload(n)
    BY <1>2, <2>2 DEF Promise!Unload, State, Open, Objects, Loaded, Wiped
  <2> QED BY <2>3 DEF Promise!Next
<1>7. ASSUME NEW n \in Nodes, MachineDies(n)
      PROVE  [Promise!Next]_(Promise!vars)
  <2>1. /\ machine[n] = "up" /\ machine' = [machine EXCEPT ![n] = "down"]
        /\ UNCHANGED <<cluster, pods>>
    BY <1>7 DEF MachineDies, store
  <2>2. UNCHANGED <<Wiped, Loaded, Open>>
    BY <1>4, <2>1 DEF Loaded, Open, Wiped
  <2> QED BY <1>2, <2>2, NothingShows
<1> QED BY <1>3, <1>5, <1>6, <1>7

\* Every step is one of Decommission, or shows nothing there.
LEMMA PromiseStep ==
    ASSUME RInv, [Next]_vars
    PROVE  [Promise!Next]_(Promise!vars)
<1>1. CASE Mark \/ MarkFails
  BY <1>1, MarkStep
<1>2. CASE Drain
  BY <1>2, DrainStep
<1>3. CASE EtcdLeave
  BY <1>3, EtcdLeaveStep
<1>4. CASE CleanUp
  BY <1>4, CleanUpStep
<1>5. CASE User
  BY <1>5, UserStep
<1>6. CASE RemoveCluster \/ \E n \in Nodes : Schedule(n) \/ PodStops(n) \/ MachineDies(n)
  BY <1>6, SurroundingsStep
<1>7. CASE UNCHANGED <<nodes, cluster, kube, pods, etcd, machine, confs>>
  BY <1>7, NothingShows DEF State, Open, Objects, Loaded, Wiped
<1>8. CASE UNCHANGED vars
  BY <1>7, <1>8 DEF vars, store, world
<1> QED BY <1>1, <1>2, <1>3, <1>4, <1>5, <1>6, <1>7, <1>8, QuietSteps

\* Initially nothing has begun.
LEMMA InitPromise == Init => Promise!Init
<1> SUFFICES ASSUME Init PROVE Promise!Init
  OBVIOUS
<1>1. \A n \in Nodes : nodes[n] \in TalosNode /\ ~nodes[n].deleting
  BY RemovalAssumption DEF Init, TalosNode
<1>2. State = [n \in Nodes |-> "serving"]
  BY <1>1, NoneAssumption DEF State
<1>3. cluster \in Cluster
  BY RemovalAssumption DEF Init, Cluster
<1>4. (cluster # None) = TRUE
  BY <1>3, NoneAssumption
<1>5. Objects = Nodes /\ Loaded = {} /\ Wiped = {}
  BY DEF Init, Objects, Loaded, Wiped
<1>6. etcd = ControlPlanes /\ confs = Nodes
  BY DEF Init
<1> QED BY <1>2, <1>4, <1>5, <1>6 DEF Promise!Init, State, Objects, Loaded, Wiped

\* The controller, with its outdated copies, conflicts, failed calls, crashes and
\* retries, does to nodes, etcd, machines and Secrets only what Decommission allows.
THEOREM PromiseIsKept == Spec => KeepsPromise
<1>1. TypeOK /\ GInv /\ DInv /\ CInv <=> RInv
  BY DEF RInv
<1>2. RInv /\ [Next]_vars => [Promise!Next]_(Promise!vars)
  BY PromiseStep
<1>3. Spec => []TypeOK
  BY TypeCorrect
<1> QED BY <1>1, <1>2, <1>3, InitPromise, InitDiscipline, NextDiscipline, InitDrained,
           NextDrained, InitConfigs, NextConfigs, PTL
        DEF Spec, KeepsPromise, Promise!Spec

-----------------------------------------------------------------------------
(* The TalosCluster seen from here                                         *)

Closing == cluster = None \/ cluster.deleting
LiveSet == {n \in Nodes : Live(view[n])}
Stored  == IF creds THEN {"talosconfig"} ELSE {}

\* The handler's one write to the TalosCluster neither removes it nor takes its
\* deletion back.
LEMMA ListIsCut ==
    ASSUME TypeOK, RemoveEndpoint
    PROVE  UNCHANGED <<Open, Closing>>
<1>1. \/ cluster' = cluster
      \/ /\ Removable /\ cluster = seen
         /\ cluster' = [cluster EXCEPT !.endpoints = Without(@, cur)]
  BY DEF RemoveEndpoint
<1>2. CASE cluster' = cluster
  BY <1>2 DEF Open, Closing
<1>3. CASE /\ Removable /\ cluster = seen
           /\ cluster' = [cluster EXCEPT !.endpoints = Without(@, cur)]
  <2>1. cluster \in Cluster /\ cluster.endpoints \in Seq(ControlPlanes)
    BY <1>3 DEF Removable, TypeOK, Cluster
  <2>2. Without(cluster.endpoints, cur) \in Seq(ControlPlanes) \ {<<>>}
    BY <1>3, <2>1, WithoutFacts DEF Removable
  <2>3. cluster' \in Cluster /\ cluster'.deleting = cluster.deleting
    BY <1>3, <2>1, <2>2 DEF Cluster
  <2> QED BY <2>1, <2>3, NoneAssumption DEF Open, Closing
<1> QED BY <1>1, <1>2, <1>3

\* Every step is one of ClusterLife, or shows nothing there.
LEMMA OwnerStep ==
    ASSUME TypeOK, GInv, [Next]_vars
    PROVE  [Owner!Next]_(Owner!vars)
<1>1. CASE RemoveEndpoint
  <2>1. UNCHANGED <<view, creds>>
    BY <1>1 DEF RemoveEndpoint, GoTo
  <2>2. UNCHANGED <<Open, Closing, LiveSet, Stored>>
    BY <1>1, <2>1, ListIsCut DEF LiveSet, Stored
  <2> QED BY <2>2 DEF Owner!vars, Open, Closing, LiveSet, Stored
<1>2. CASE DeleteCluster
  <2>1. /\ cluster # None /\ cluster' = [cluster EXCEPT !.deleting = TRUE]
        /\ UNCHANGED <<view, creds>>
    BY <1>2 DEF DeleteCluster
  <2>2. cluster \in Cluster
    BY <2>1 DEF TypeOK
  <2>3. cluster' \in Cluster /\ cluster'.deleting = TRUE
    BY <2>1, <2>2 DEF Cluster
  <2>4. Open' = Open /\ Closing' = TRUE
    BY <2>1, <2>3, NoneAssumption DEF Open, Closing
  <2>5. UNCHANGED <<LiveSet, Stored>>
    BY <2>1 DEF LiveSet, Stored
  <2>6. Owner!StartClosing
    BY <2>4, <2>5 DEF Owner!StartClosing, Open, Closing, LiveSet, Stored
  <2> QED BY <2>6 DEF Owner!Next
<1>3. CASE RemoveCredentials
  <2>1. /\ cluster # None /\ cluster.deleting /\ creds' = FALSE
        /\ \A n \in Nodes : ~Live(view[n])
        /\ UNCHANGED <<view, cluster>>
    BY <1>3 DEF RemoveCredentials
  <2>2. Closing /\ LiveSet = {} /\ Stored' = Stored \ {"talosconfig"}
    BY <2>1 DEF Closing, LiveSet, Stored
  <2>3. UNCHANGED <<Open, Closing, LiveSet>>
    BY <2>1 DEF Open, Closing, LiveSet
  <2>4. Owner!Revoke("talosconfig")
    BY <2>2, <2>3 DEF Owner!Revoke, Open, Closing, LiveSet, Stored
  <2> QED BY <2>4 DEF Owner!Next
<1>4. CASE RemoveCluster
  <2>1. /\ cluster # None /\ cluster.deleting /\ creds = FALSE /\ cluster' = None
        /\ UNCHANGED <<view, creds>>
    BY <1>4 DEF RemoveCluster, TypeOK
  <2>2. Stored = {} /\ Open' = FALSE
    BY <2>1 DEF Stored, Open
  <2>3. Closing' = Closing
    <3>1. Closing = TRUE
      <4>1. cluster \in Cluster
        BY <2>1 DEF TypeOK
      <4>2. cluster.deleting = TRUE
        BY <2>1, <4>1 DEF Cluster
      <4> QED BY <4>2 DEF Closing
    <3>2. Closing' = TRUE
      BY <2>1 DEF Closing
    <3> QED BY <3>1, <3>2
  <2>4. UNCHANGED <<LiveSet, Stored>>
    BY <2>1 DEF LiveSet, Stored
  <2>5. Owner!Close
    BY <2>2, <2>3, <2>4 DEF Owner!Close, Open, Closing, LiveSet, Stored
  <2> QED BY <2>5 DEF Owner!Next
<1>5. CASE DeliverNodes \/ Crash
  <2>1. view' = nodes /\ UNCHANGED <<cluster, creds>>
    BY <1>5 DEF DeliverNodes, Crash, store
  <2>2. LiveSet' \subseteq LiveSet
    BY <2>1 DEF GInv, GuardDiscipline, CopiesLag, LiveSet
  <2>3. UNCHANGED <<Open, Closing, Stored>>
    BY <2>1 DEF Open, Closing, Stored
  <2>4. Owner!NodesLeave
    BY <2>2, <2>3 DEF Owner!NodesLeave, Open, Closing, LiveSet, Stored
  <2> QED BY <2>4 DEF Owner!Next
<1>6. CASE ~(\/ RemoveEndpoint \/ DeleteCluster \/ RemoveCredentials \/ RemoveCluster
             \/ DeliverNodes \/ Crash)
  <2>1. UNCHANGED <<view, cluster, creds>>
    BY <1>6 DEF Next, Handle, User, Environment, Get, Mark, MarkFails, Block, PassGuard,
       GuardFails, Drain, SkipDrain, Cordon, Evict, NextRound, Drained, DeleteObject,
       DrainFails, EtcdLeave, SkipLeave, LoadFails, Leave, LeaveFails, ForceRemove,
       CleanUp, Reset, DeleteConfig, DeleteConfigFails, RefreshKubeconfig,
       RemoveFinalizer, RemoveFinalizerFails, DeleteNode, AnnotateSkip, DeliverCluster,
       Schedule, PodStops, MachineDies, GoTo, Done, store, vars
  <2>2. UNCHANGED <<Open, Closing, LiveSet, Stored>>
    BY <2>1 DEF Open, Closing, LiveSet, Stored
  <2> QED BY <2>2 DEF Owner!vars, Open, Closing, LiveSet, Stored
<1> QED BY <1>1, <1>2, <1>3, <1>4, <1>5, <1>6

\* What NodeRemoval takes the TalosCluster reconciler to do is within what that
\* reconciler is shown to do (FaithIsKept of ClusterProvisionProofs): the Secrets
\* outlast the live nodes, although these are counted in a copy that lags, they do
\* not come back, and the cluster goes last.
THEOREM OwnerIsAssumed == Spec => OwnerAsAssumed
<1>1. TypeOK /\ GInv /\ [Next]_vars => [Owner!Next]_(Owner!vars)
  BY OwnerStep
<1>2. Init => Owner!Init
  <2> SUFFICES ASSUME Init PROVE Owner!Init
    OBVIOUS
  <2>1. \A n \in Nodes : view[n] \in TalosNode /\ ~view[n].deleting
    BY RemovalAssumption DEF Init, TalosNode
  <2>2. LiveSet = Nodes
    BY <2>1, NoneAssumption DEF LiveSet, Live
  <2>3. cluster \in Cluster /\ cluster.deleting = FALSE
    BY RemovalAssumption DEF Init, Cluster
  <2>4. (cluster # None) = TRUE /\ Closing = FALSE
    BY <2>3, NoneAssumption DEF Closing
  <2>5. Stored \subseteq {"talosconfig"}
    BY DEF Stored
  <2> QED BY <2>2, <2>4, <2>5 DEF Owner!Init, Closing, LiveSet, Stored
<1>3. Spec => []TypeOK
  BY TypeCorrect
<1> QED BY <1>1, <1>2, <1>3, InitDiscipline, NextDiscipline, PTL
        DEF Spec, OwnerAsAssumed, Owner!Spec

=============================================================================
