----------------------------- MODULE NodeRemoval -----------------------------
(***************************************************************************)
(* The removal of TalosNodes from a running cluster: handleDeletion of     *)
(* src/internal/controller/talosnode_controller.go with the drain of       *)
(* talosnode_drain.go, for all nodes of one cluster at once.               *)
(*                                                                         *)
(* One worker reconciles the nodes one after the other.  A reconcile is    *)
(* cut at every call that changes something: the status, the Kubernetes    *)
(* node and its pods, the etcd membership, the machine, the Secrets, the   *)
(* endpoints of the cluster.  Whenever it returns early the next one       *)
(* starts from the top, over what the first one left behind.               *)
(*                                                                         *)
(* Every field of a TalosNode and of the cluster changes in one direction  *)
(* only here, so a copy is current exactly when it equals the object.      *)
(* An operator Wrong_X is X with a plausible mistake; nothing uses it.     *)
(***************************************************************************)
EXTENDS Integers, Sequences, FiniteSets

CONSTANTS
    Nodes,           \* the TalosNodes of the cluster
    ControlPlanes,   \* those with role ControlPlane
    Wipe,            \* those with spec.resetOnDelete
    Busy,            \* those that run evictable pods (the others are tainted)
    Endpoints,       \* the initial spec.endpoints of the cluster
    None,
    MaxAttempts,     \* etcdLeaveMaxAttempts
    EagerDial,       \* Dial contacts the machine (the real client does not)
    StaleReads,      \* the informer's copies may lag when they are read
    Escape,          \* a bound for TLC: the nodes that get the annotation skip-drain
    Patient,         \* a bound for TLC: they get it only when they are stuck
    MaxTroubles      \* a bound for TLC: failures, crashes and broken machines

ASSUME RemovalAssumption ==
    /\ IsFiniteSet(Nodes)
    /\ ControlPlanes \subseteq Nodes
    /\ Wipe \subseteq Nodes
    /\ Busy \subseteq Nodes
    /\ Escape \subseteq Nodes
    /\ Endpoints \in Seq(ControlPlanes) \ {<<>>}
    /\ None \notin Nodes
    /\ {EagerDial, StaleReads, Patient} \subseteq BOOLEAN
    /\ {MaxAttempts, MaxTroubles} \subseteq Nat

VARIABLES
    nodes,      \* the TalosNodes held by the API server; None once removed
    view,       \* the informer's copy of them
    cluster,    \* the TalosCluster; None once removed
    seen,       \* the informer's copy of it
    creds,      \* <cluster>-talosconfig exists
    kubeconfig, \* the endpoint <cluster>-kubeconfig points to, None without one
    confs,      \* the nodes whose <node>-config exists
    queue,      \* the nodes in the work queue
    pc, cur, obj,  \* the worker: where it is, at which node, its copy of it
    remote,     \* the endpoint its client for the cluster talks to
    etcd,       \* the members of etcd
    machine,    \* "up", "down" or "wiped"
    kube,       \* Node objects: "schedulable", "cordoned" or "absent"
    pods,       \* evictable pods of a node: "running", "terminating" or "none"
    spent       \* history: faults, crashes, broken machines

store  == <<cluster, seen, creds, kubeconfig, confs>>
world  == <<etcd, machine, kube, pods>>
worker == <<queue, pc, cur, obj, remote>>
vars   == <<nodes, view, store, worker, world, spent>>

TalosNode ==
    [deleting : BOOLEAN, marked : BOOLEAN,      \* phase Deleting
     attempts : 0 .. MaxAttempts, skip : BOOLEAN]

Cluster == [endpoints : Seq(ControlPlanes) \ {<<>>}, deleting : BOOLEAN]

ASSUME NoneAssumption == None \notin TalosNode \cup Cluster

Live(o) == o # None /\ ~o.deleting

Init ==
    /\ nodes = [n \in Nodes |-> [deleting |-> FALSE, marked |-> FALSE,
                                 attempts |-> 0, skip |-> FALSE]]
    /\ view = nodes
    /\ cluster = [endpoints |-> Endpoints, deleting |-> FALSE]
    /\ seen = cluster
    /\ creds = TRUE
    /\ kubeconfig = Head(Endpoints)
    /\ confs = Nodes
    /\ queue = {}
    /\ pc = "idle"
    /\ cur = None
    /\ obj = None
    /\ remote = None
    /\ etcd = ControlPlanes
    /\ machine = [n \in Nodes |-> "up"]
    /\ kube = [n \in Nodes |-> "schedulable"]
    /\ pods = [n \in Nodes |-> "none"]
    /\ spent = [faults |-> 0, crashes |-> 0, dead |-> 0]

-----------------------------------------------------------------------------
(* Calls                                                                   *)

Bounded == spent.faults + spent.crashes + spent.dead < MaxTroubles

Fault ==
    /\ Bounded
    /\ spent' = [spent EXCEPT !.faults = @ + 1]

Stale == obj # nodes[cur]

\* The update to o is refused, does not arrive, or its answer is lost.
PutFails(o) ==
    \/ Stale /\ UNCHANGED <<nodes, spent>>
    \/ Fault /\ UNCHANGED nodes
    \/ ~Stale /\ Fault /\ nodes' = [nodes EXCEPT ![cur] = o]

\* The handler goes on; the client for the cluster is kept during the drain.
GoTo(next) ==
    /\ pc' = next
    /\ remote' = IF next \notin {"evict", "wait", "delete"} THEN None
                 ELSE IF pc = "drain" THEN kubeconfig ELSE remote
    /\ UNCHANGED <<nodes, view, queue, cur, obj>>

\* Reconcile returns; again: with a RequeueAfter or an error.
Done(again) ==
    /\ pc' = "idle"
    /\ cur' = None
    /\ obj' = None
    /\ remote' = None
    /\ queue' = queue \cup (IF again THEN {cur} ELSE {})
    /\ UNCHANGED view

NodesRead   == StaleReads \/ view = nodes
ClusterRead == StaleReads \/ seen = cluster

Kept(list, n) == {i \in DOMAIN list : list[i] # n}

\* Where the j-th of the items that are kept is found.
Position(list, n, j) ==
    CHOOSE i \in Kept(list, n) : Cardinality(Kept(list, n) \cap (1 .. i)) = j

\* filterExclude
Without(list, n) ==
    [j \in 1 .. Cardinality(Kept(list, n)) |-> list[Position(list, n, j)]]

\* etcd works while a majority of its members runs.
Quorum(members) ==
    2 * Cardinality({m \in members : machine[m] = "up"}) > Cardinality(members)

\* The Kubernetes API server behind an endpoint answers.
Answers(e) == e \in etcd /\ machine[e] = "up" /\ Quorum(etcd)

-----------------------------------------------------------------------------
(* handleDeletion: entry and guard                                         *)

\* A node that is not being deleted is the business of module TalosNode.
Get(n) ==
    /\ pc = "idle"
    /\ n \in queue
    /\ NodesRead
    /\ queue' = queue \ {n}
    /\ IF view[n] = None \/ Live(view[n])
       THEN UNCHANGED <<pc, cur, obj>>
       ELSE /\ pc' = IF view[n].marked THEN "guard" ELSE "mark"
            /\ cur' = n
            /\ obj' = view[n]
    /\ UNCHANGED <<remote, nodes, view, store, world, spent>>

Marked == [obj EXCEPT !.marked = TRUE]

Mark ==
    /\ pc = "mark"
    /\ ~Stale
    /\ obj' = Marked
    /\ nodes' = [nodes EXCEPT ![cur] = obj']
    /\ pc' = "guard"
    /\ UNCHANGED <<view, queue, cur, remote, store, world, spent>>

Wrong_MarkFails ==
    /\ pc = "mark"
    /\ PutFails(Marked)
    /\ Done(FALSE)
    /\ UNCHANGED <<store, world>>

MarkFails ==
    /\ pc = "mark"
    /\ PutFails(Marked)
    /\ Done(TRUE)
    /\ UNCHANGED <<store, world>>

Wrong_LastControlPlane(n) ==
    seen # None /\ \A m \in ControlPlanes \ {n} : view[m] = None

\* isLastControlPlane: peers that are being deleted do not count; without a
\* cluster there is nothing to protect.
LastControlPlane(n) ==
    seen # None /\ \A m \in ControlPlanes \ {n} : ~Live(view[m])

Block ==
    /\ pc = "guard"
    /\ cur \in ControlPlanes
    /\ NodesRead /\ ClusterRead
    /\ LastControlPlane(cur)
    /\ Done(TRUE)
    /\ UNCHANGED <<nodes, store, world, spent>>

PassGuard ==
    /\ pc = "guard"
    /\ NodesRead /\ ClusterRead
    /\ cur \in ControlPlanes => ~LastControlPlane(cur)
    /\ GoTo("drain")
    /\ UNCHANGED <<store, world, spent>>

\* A read of the guard fails.
GuardFails ==
    /\ pc = "guard"
    /\ cur \in ControlPlanes
    /\ Fault
    /\ Done(TRUE)
    /\ UNCHANGED <<nodes, store, world>>

-----------------------------------------------------------------------------
(* drainAndDeleteNode                                                      *)

AfterDrain == IF cur \in ControlPlanes THEN "leave" ELSE "reset"

\* buildRemoteClient finds a kubeconfig, and the machine tells its hostname.
Resolved == ~obj.skip /\ kubeconfig # None /\ creds /\ machine[cur] = "up"

\* Asked for, or because there is no kubeconfig, the machine does not tell its
\* hostname, or Kubernetes knows no such node.
SkipDrain ==
    /\ pc = "drain"
    /\ \/ ~Resolved /\ UNCHANGED spent
       \/ Resolved /\ Answers(kubeconfig) /\ kube[cur] = "absent" /\ UNCHANGED spent
       \/ Resolved /\ Fault
    /\ GoTo(AfterDrain)
    /\ UNCHANGED <<store, world>>

Wrong_Cordon ==
    /\ pc = "drain"
    /\ Resolved
    /\ Answers(kubeconfig)
    /\ kube[cur] # "absent"
    /\ GoTo("evict")
    /\ UNCHANGED <<kube, store, etcd, machine, pods, spent>>

Cordon ==
    /\ pc = "drain"
    /\ Resolved
    /\ Answers(kubeconfig)
    /\ kube[cur] # "absent"
    /\ kube' = [kube EXCEPT ![cur] = "cordoned"]
    /\ GoTo("evict")
    /\ UNCHANGED <<store, etcd, machine, pods, spent>>

\* One round of drainPods; a PodDisruptionBudget may refuse the eviction.
Evict ==
    /\ pc = "evict"
    /\ Answers(remote)
    /\ pods[cur] # "none"
    /\ \/ pods' = [pods EXCEPT ![cur] = "terminating"] /\ UNCHANGED spent
       \/ pods[cur] = "running" /\ Fault /\ UNCHANGED pods
    /\ GoTo("wait")
    /\ UNCHANGED <<store, etcd, machine, kube>>

NextRound ==
    /\ pc = "wait"
    /\ pods[cur] = "running"
    /\ GoTo("evict")
    /\ UNCHANGED <<store, world, spent>>

Drained ==
    /\ pc \in {"evict", "wait"}
    /\ Answers(remote)
    /\ pods[cur] = "none"
    /\ GoTo("delete")
    /\ UNCHANGED <<store, world, spent>>

DeleteObject ==
    /\ pc = "delete"
    /\ Answers(remote)
    /\ kube' = [kube EXCEPT ![cur] = "absent"]
    /\ GoTo(AfterDrain)
    /\ UNCHANGED <<store, etcd, machine, pods, spent>>

\* The API server of the cluster does not answer or a call fails (the Node may
\* be gone nevertheless), or the drain runs into its timeout.
DrainFails ==
    /\ \/ /\ pc = "drain" /\ Resolved /\ ~Answers(kubeconfig)
          /\ UNCHANGED <<spent, kube>>
       \/ /\ pc \in {"evict", "wait", "delete"} /\ ~Answers(remote)
          /\ UNCHANGED <<spent, kube>>
       \/ pc = "wait" /\ pods[cur] # "none" /\ UNCHANGED <<spent, kube>>
       \/ pc = "drain" /\ ~obj.skip /\ Fault /\ UNCHANGED kube
       \/ pc \in {"evict", "wait"} /\ Fault /\ UNCHANGED kube
       \/ pc = "delete" /\ Fault /\ kube' \in {kube, [kube EXCEPT ![cur] = "absent"]}
    /\ Done(TRUE)
    /\ UNCHANGED <<nodes, store, etcd, machine, pods>>

-----------------------------------------------------------------------------
(* handleEtcdLeave                                                         *)

\* loadTalosconfig finds the cluster and its credentials.
Credentials == seen # None /\ creds

\* Without them the node does not leave etcd.
SkipLeave ==
    /\ pc = "leave"
    /\ ClusterRead
    /\ ~Credentials
    /\ GoTo("reset")
    /\ UNCHANGED <<store, world, spent>>

LoadFails ==
    /\ pc = "leave"
    /\ Fault
    /\ Done(TRUE)
    /\ UNCHANGED <<nodes, store, world>>

\* etcd refuses to shrink below a quorum, and a node that left cannot leave.
CanLeave ==
    /\ machine[cur] = "up"
    /\ cur \in etcd
    /\ Quorum(etcd)
    /\ Quorum(etcd \ {cur})

Wrong_Leaving ==
    /\ pc = "leave"
    /\ ClusterRead
    /\ Credentials
    /\ obj.attempts <= MaxAttempts

Leaving ==
    /\ pc = "leave"
    /\ ClusterRead
    /\ Credentials
    /\ obj.attempts < MaxAttempts

Leave ==
    /\ Leaving
    /\ CanLeave
    /\ etcd' = etcd \ {cur}
    /\ GoTo("reset")
    /\ UNCHANGED <<store, machine, kube, pods, spent>>

\* An error of the status write is only logged.
CountAttempt ==
    nodes' = IF Stale THEN nodes ELSE [nodes EXCEPT ![cur].attempts = @ + 1]

\* The call fails, before or after etcd removed the member; so may the write.
LeaveFails ==
    /\ Leaving
    /\ \/ ~CanLeave /\ CountAttempt /\ UNCHANGED <<etcd, spent>>
       \/ /\ Fault
          /\ UNCHANGED etcd \/ (CanLeave /\ etcd' = etcd \ {cur})
          /\ CountAttempt \/ UNCHANGED nodes
    /\ Done(TRUE)
    /\ UNCHANGED <<store, machine, kube, pods>>

Forcing ==
    /\ pc = "leave"
    /\ ClusterRead
    /\ Credentials
    /\ obj.attempts >= MaxAttempts

Peers == Without(seen.endpoints, cur)

\* dialAny: the first endpoint that can be dialled.
Survivor ==
    LET up == {i \in DOMAIN Peers : machine[Peers[i]] = "up"}
    IN  IF EagerDial /\ up # {} THEN Peers[CHOOSE i \in up : \A j \in up : i <= j]
        ELSE Head(Peers)

CanForce ==
    /\ Peers # <<>>
    /\ Answers(Survivor)
    /\ cur \in etcd => Quorum(etcd \ {cur})

Wrong_ForceRemove ==
    /\ Forcing
    /\ UNCHANGED <<etcd, spent>>
    /\ GoTo("reset")
    /\ UNCHANGED <<store, machine, kube, pods>>

\* EtcdForceRemove; without a peer, or when it fails, the handler goes on.
ForceRemove ==
    /\ Forcing
    /\ \/ CanForce /\ etcd' = etcd \ {cur} /\ UNCHANGED spent
       \/ ~CanForce /\ UNCHANGED <<etcd, spent>>
       \/ CanForce /\ Fault /\ UNCHANGED etcd
    /\ GoTo("reset")
    /\ UNCHANGED <<store, machine, kube, pods>>

-----------------------------------------------------------------------------
(* handleDeletion: clean-up                                                *)

CanReset == cur \in Wipe /\ Credentials /\ machine[cur] = "up"

Wrong_Reset ==
    /\ pc = "reset"
    /\ ClusterRead
    /\ \/ CanReset /\ machine' = [machine EXCEPT ![cur] = "wiped"] /\ GoTo("secret")
       \/ ~CanReset /\ UNCHANGED machine /\ GoTo("final")
    /\ UNCHANGED <<store, etcd, kube, pods, spent>>

\* Reset-on-delete is best effort.
Reset ==
    /\ pc = "reset"
    /\ ClusterRead
    /\ \/ /\ CanReset
          /\ machine' = [machine EXCEPT ![cur] = "wiped"]
          /\ UNCHANGED spent
       \/ ~CanReset /\ UNCHANGED <<machine, spent>>
       \/ CanReset /\ Fault /\ UNCHANGED machine
    /\ GoTo("secret")
    /\ UNCHANGED <<store, etcd, kube, pods>>

AfterSecret == IF cur \in ControlPlanes THEN "endpoint" ELSE "final"

DeleteConfig ==
    /\ pc = "secret"
    /\ confs' = confs \ {cur}
    /\ GoTo(AfterSecret)
    /\ UNCHANGED <<cluster, seen, creds, kubeconfig, world, spent>>

\* A Delete that is answered with NotFound, after an outdated read, is an error
\* as well.
DeleteConfigFails ==
    /\ pc = "secret"
    /\ Fault
    /\ confs' \in {confs, confs \ {cur}}
    /\ Done(TRUE)
    /\ UNCHANGED <<nodes, cluster, seen, creds, kubeconfig, world>>

Wrong_Removable ==
    /\ seen # None
    /\ Without(seen.endpoints, cur) # seen.endpoints
    /\ Len(Without(seen.endpoints, cur)) > 1

\* The endpoint to be removed is listed, and is not the last one.
Removable ==
    /\ seen # None
    /\ Without(seen.endpoints, cur) \notin {<<>>, seen.endpoints}

\* removeEndpointFromCluster; a conflict that outlives the retries, like any
\* other error, is only logged.
RemoveEndpoint ==
    /\ pc = "endpoint"
    /\ ClusterRead
    /\ \/ /\ Removable
          /\ cluster = seen
          /\ cluster' = [cluster EXCEPT !.endpoints = Without(@, cur)]
          /\ UNCHANGED spent
       \/ (Removable => cluster # seen) /\ UNCHANGED <<cluster, spent>>
       \/ Removable /\ Fault /\ UNCHANGED cluster
    /\ GoTo("kubeconfig")
    /\ UNCHANGED <<seen, creds, kubeconfig, confs, world>>

\* refreshKubeconfig reads the cluster again straight after the handler's own
\* update of it: the informer need not have seen that update yet.
RefreshKubeconfig ==
    /\ pc = "kubeconfig"
    /\ \/ /\ seen # None /\ kubeconfig # None
          /\ kubeconfig' = Head(seen.endpoints)
          /\ UNCHANGED spent
       \/ ~(seen # None /\ kubeconfig # None) /\ UNCHANGED <<kubeconfig, spent>>
       \/ Fault /\ UNCHANGED kubeconfig
    /\ GoTo("final")
    /\ UNCHANGED <<cluster, seen, creds, confs, world>>

\* The last finalizer goes, and the TalosNode with it.
RemoveFinalizer ==
    /\ pc = "final"
    /\ ~Stale
    /\ nodes' = [nodes EXCEPT ![cur] = None]
    /\ Done(FALSE)
    /\ UNCHANGED <<store, world, spent>>

RemoveFinalizerFails ==
    /\ pc = "final"
    /\ PutFails(None)
    /\ Done(TRUE)
    /\ UNCHANGED <<store, world>>

-----------------------------------------------------------------------------
(* The watches, the users, the other controllers and the machines          *)

\* Deletions and annotations wake the controller, status writes do not.
Woken(n) ==
    /\ nodes[n] # None
    /\ \/ nodes[n].deleting # view[n].deleting
       \/ nodes[n].skip # view[n].skip

DeliverNodes ==
    /\ view # nodes
    /\ view' = nodes
    /\ queue' = queue \cup {n \in Nodes : Woken(n)}
    /\ UNCHANGED <<nodes, pc, cur, obj, remote, store, world, spent>>

DeliverCluster ==
    /\ seen # cluster
    /\ seen' = cluster
    /\ UNCHANGED <<nodes, view, cluster, creds, kubeconfig, confs, worker, world, spent>>

DeleteNode(n) ==
    /\ Live(nodes[n])
    /\ nodes' = [nodes EXCEPT ![n].deleting = TRUE]
    /\ UNCHANGED <<view, store, worker, world, spent>>

\* The drain of n fails for as long as this holds: the API server that the
\* kubeconfig leads to does not answer.
Stuck(n) ==
    /\ ~nodes[n].skip /\ creds /\ machine[n] = "up"
    /\ kubeconfig # None /\ ~Answers(kubeconfig)

\* The escape hatch: annotation skip-drain on a terminating node.
AnnotateSkip(n) ==
    /\ n \in Escape
    /\ nodes[n] # None /\ nodes[n].deleting /\ ~nodes[n].skip
    /\ Patient => Stuck(n)
    /\ nodes' = [nodes EXCEPT ![n].skip = TRUE]
    /\ UNCHANGED <<view, store, worker, world, spent>>

DeleteCluster ==
    /\ cluster # None /\ ~cluster.deleting
    /\ cluster' = [cluster EXCEPT !.deleting = TRUE]
    /\ UNCHANGED <<nodes, view, seen, creds, kubeconfig, confs, worker, world, spent>>

\* Module ClusterProvision: its guard counts live nodes; the Secrets go first,
\* the object follows, and the kubeconfig goes with its owner.
RemoveCredentials ==
    /\ cluster # None /\ cluster.deleting /\ creds
    /\ \A n \in Nodes : ~Live(view[n])
    /\ creds' = FALSE
    /\ UNCHANGED <<nodes, view, cluster, seen, kubeconfig, confs, worker, world, spent>>

RemoveCluster ==
    /\ cluster # None /\ cluster.deleting /\ ~creds
    /\ cluster' = None
    /\ kubeconfig' = None
    /\ UNCHANGED <<nodes, view, seen, creds, confs, worker, world, spent>>

\* Pods are scheduled until the node is cordoned, and stop once evicted.
Schedule(n) ==
    /\ n \in Busy /\ kube[n] = "schedulable" /\ pods[n] = "none"
    /\ pods' = [pods EXCEPT ![n] = "running"]
    /\ UNCHANGED <<nodes, view, store, worker, etcd, machine, kube, spent>>

PodStops(n) ==
    /\ pods[n] = "terminating" /\ machine[n] = "up"
    /\ pods' = [pods EXCEPT ![n] = "none"]
    /\ UNCHANGED <<nodes, view, store, worker, etcd, machine, kube, spent>>

MachineDies(n) ==
    /\ machine[n] = "up"
    /\ Bounded
    /\ spent' = [spent EXCEPT !.dead = @ + 1]
    /\ machine' = [machine EXCEPT ![n] = "down"]
    /\ UNCHANGED <<nodes, view, store, worker, etcd, kube, pods>>

Crash ==
    /\ Bounded
    /\ spent' = [spent EXCEPT !.crashes = @ + 1]
    /\ view' = nodes
    /\ seen' = cluster
    /\ queue' = {n \in Nodes : nodes[n] # None}
    /\ pc' = "idle"
    /\ cur' = None
    /\ obj' = None
    /\ remote' = None
    /\ UNCHANGED <<nodes, cluster, creds, kubeconfig, confs, world>>

-----------------------------------------------------------------------------

Drain ==
    \/ SkipDrain \/ Cordon \/ Evict \/ NextRound \/ Drained \/ DeleteObject
    \/ DrainFails

EtcdLeave == SkipLeave \/ LoadFails \/ Leave \/ LeaveFails \/ ForceRemove

CleanUp ==
    \/ Reset \/ DeleteConfig \/ DeleteConfigFails \/ RemoveEndpoint
    \/ RefreshKubeconfig \/ RemoveFinalizer \/ RemoveFinalizerFails

Handle ==
    \/ Mark \/ MarkFails \/ Block \/ PassGuard \/ GuardFails
    \/ Drain \/ EtcdLeave \/ CleanUp

User == DeleteCluster \/ \E n \in Nodes : DeleteNode(n) \/ AnnotateSkip(n)

Environment ==
    \/ DeliverNodes \/ DeliverCluster \/ RemoveCredentials \/ RemoveCluster \/ Crash
    \/ \E n \in Nodes : Schedule(n) \/ PodStops(n) \/ MachineDies(n)

Next == (\E n \in Nodes : Get(n)) \/ Handle \/ User \/ Environment

Spec == Init /\ [][Next]_vars

\* The worker runs, the work queue is served in turn, the watches are never cut
\* off for ever, the teardown of the cluster ends (ClusterProvision!DeletionEnds)
\* and evicted pods stop.
FairSpec ==
    /\ Spec
    /\ WF_vars(Handle)
    /\ WF_vars(DeliverNodes)
    /\ WF_vars(DeliverCluster)
    /\ WF_vars(RemoveCredentials \/ RemoveCluster)
    /\ \A n \in Nodes : SF_vars(Get(n))
    /\ \A n \in Busy : WF_vars(PodStops(n))

-----------------------------------------------------------------------------
(* Properties                                                              *)

Stages == {"mark", "guard", "drain", "evict", "wait", "delete", "leave", "reset",
           "secret", "endpoint", "kubeconfig", "final"}

\* Every variable has its type; the worker has a node exactly while it works,
\* and only a control plane gets to the steps about etcd and endpoints.
TypeOK ==
    /\ nodes \in [Nodes -> TalosNode \cup {None}]
    /\ view \in [Nodes -> TalosNode \cup {None}]
    /\ cluster = None \/ cluster \in Cluster
    /\ seen = None \/ seen \in Cluster
    /\ creds \in BOOLEAN
    /\ {kubeconfig, remote} \subseteq ControlPlanes \cup {None}
    /\ pc \in {"evict", "wait", "delete"} => remote # None
    /\ confs \subseteq Nodes
    /\ queue \subseteq Nodes
    /\ IF pc = "idle" THEN cur = None /\ obj = None
       ELSE pc \in Stages /\ cur \in Nodes /\ obj \in TalosNode
    /\ pc \in {"leave", "endpoint", "kubeconfig"} => cur \in ControlPlanes
    /\ etcd \subseteq ControlPlanes
    /\ machine \in [Nodes -> {"up", "down", "wiped"}]
    /\ kube \in [Nodes -> {"schedulable", "cordoned", "absent"}]
    /\ pods \in [Nodes -> {"running", "terminating", "none"}]
    /\ spent \in [faults : Nat, crashes : Nat, dead : Nat]

\* The guard: while the cluster exists, some control plane has neither been
\* taken out of etcd nor wiped, however many nodes are deleted at once.
EtcdSurvives ==
    cluster # None => \E m \in etcd : machine[m] # "wiped"

Untouched(m) == m \in etcd /\ machine[m] # "wiped"

\* The worker has passed the guard.
Past == pc \notin {"idle", "mark", "guard"}

\* A copy may still show as live what is being deleted, never the converse.
CopiesLag ==
    /\ \A n \in Nodes : Live(nodes[n]) => Live(view[n])
    /\ seen = None => cluster = None

WorkerDeletes ==
    pc # "idle" => /\ cur \in Nodes
                   /\ obj \in TalosNode
                   /\ obj.deleting
                   /\ ~Live(view[cur])

LiveUntouched ==
    \A m \in ControlPlanes : Live(view[m]) => Untouched(m)

\* A member that no reconcile in progress can reach, live if one is live.
OneSpared ==
    cluster # None =>
        \E m \in ControlPlanes :
            /\ Untouched(m)
            /\ ~(Past /\ cur = m)
            /\ (\E p \in ControlPlanes : Live(view[p])) => Live(view[m])

\* Why the guard is enough although it counts TalosNodes, not members of etcd,
\* reads them from copies that lag, and decides long before etcd is changed: the
\* inductive invariant behind EtcdSurvives.
GuardDiscipline ==
    CopiesLag /\ WorkerDeletes /\ LiveUntouched /\ OneSpared

\* A Node object is deleted only when no evictable pod is left on it, so nothing
\* may be scheduled there between the drain and the deletion.
EvictedBeforeDeleted ==
    [][\A n \in Nodes : kube[n] # "absent" /\ kube'[n] = "absent"
         => pods[n] = "none"]_vars

\* Nothing but the handler itself could keep n in etcd: no call failed, etcd
\* keeps a quorum without n, and the first of the other endpoints, which is the
\* only one that is asked for help, is able to give it.
FreeToLeave(n) ==
    /\ cluster # None /\ creds /\ spent.faults = 0
    /\ Quorum(etcd \ {n})
    /\ LET peers == Without(cluster.endpoints, n)
       IN  peers # <<>> /\ Answers(Head(peers))

\* A control plane that is wiped, or whose finalizer goes, has left etcd, although
\* the handler starts over after a conflict, a crash or the death of a machine.
LeavesEtcdFirst ==
    [][\A n \in ControlPlanes :
         /\ \/ nodes[n] # None /\ nodes'[n] = None
            \/ machine[n] = "up" /\ machine'[n] = "wiped"
         /\ FreeToLeave(n)
         => n \notin etcd]_vars

\* The machine configuration of a removed node does not outlive it.
NoConfigLeft ==
    \A n \in Nodes : nodes[n] = None => n \notin confs

\* removeEndpointFromCluster: a control plane that is gone does not linger in the
\* manifest of the cluster, however many others went before or after it and
\* wherever the controller restarted, unless no other endpoint is left (the list
\* may name one several times) or a call failed.  The update is tried again after
\* a conflict; that this outlasts the lag of the cache is assumed (StaleReads).
EndpointsFollow ==
    cluster # None /\ spent.faults = 0 =>
        \A n \in ControlPlanes : nodes[n] = None =>
            Without(cluster.endpoints, n) \in {<<>>, cluster.endpoints}

\* What a deletion promises, whatever the copies, conflicts, retries and restarts
\* on its way: handleDeletion, with all it calls, is an instance of Decommission.
Promise == INSTANCE Decommission WITH
    state   <- [n \in Nodes |-> IF nodes[n] = None THEN "gone"
                                ELSE IF nodes[n].deleting THEN "leaving" ELSE "serving"],
    open    <- cluster # None,
    objects <- {n \in Nodes : kube[n] # "absent"},
    loaded  <- {n \in Nodes : pods[n] # "none"},
    members <- etcd,
    wiped   <- {n \in Nodes : machine[n] = "wiped"},
    configs <- confs

KeepsPromise == Promise!Spec

\* What the cluster's own controller is taken to do meanwhile, is what module
\* ClusterProvision shows it does: both are instances of ClusterLife.
Owner == INSTANCE ClusterLife WITH
    Kinds   <- {"talosconfig"},
    open    <- cluster # None,
    closing <- cluster = None \/ cluster.deleting,
    live    <- {n \in Nodes : Live(view[n])},
    stored  <- IF creds THEN {"talosconfig"} ELSE {}

OwnerAsAssumed == Owner!Spec

\* What may hold up a deletion for ever: the guard, and an API server that does
\* not answer while the machine of the node does.
Held(n) ==
    \/ n \in ControlPlanes /\ LastControlPlane(n)
    \/ Stuck(n)

\* Nothing else does, and neither of the two if it passes: not the death of the
\* machine, a restart in the middle of any step, a refused write, or a call that
\* failed or whose answer was lost.
RemovalEnds ==
    \A n \in Nodes :
        <>[](nodes[n] = None \/ Live(nodes[n]) \/ Held(n))

\* refreshKubeconfig, as its comments read: it picks up the endpoint list after
\* removeEndpointFromCluster and points to the first surviving endpoint.  Once a
\* node is gone the kubeconfig does not point to it, unless no other endpoint is
\* left or a call failed.
KubeconfigFollows ==
    cluster # None /\ spent.faults = 0 =>
        \A n \in Nodes : nodes[n] = None /\ kubeconfig = n =>
            Without(cluster.endpoints, n) = <<>>

\* docs/features.md, "tear down in order": when all TalosNodes are deleted they
\* go away, and the TalosCluster is deleted after them.
TeardownEnds ==
    (cluster # None /\ ~cluster.deleting /\ \A n \in Nodes : ~Live(nodes[n]))
        ~> (\A n \in Nodes : nodes[n] = None)

=============================================================================
