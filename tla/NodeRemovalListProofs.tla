------------------------ MODULE NodeRemovalListProofs ------------------------
(***************************************************************************)
(* Theorems about NodeRemoval that depend on spec.endpoints: the types, who *)
(* is asked to take a member out of etcd, and what the list says once a    *)
(* control plane is gone.                                                  *)
(***************************************************************************)
EXTENDS NodeRemovalProofs, FiniteSetTheorems, SequenceTheorems, WellFoundedInduction

-----------------------------------------------------------------------------
(* filterExclude                                                           *)

\* A set of natural numbers has a least element.
LEMMA LeastNumber ==
    ASSUME NEW T \in SUBSET Nat, T # {}
    PROVE  \E x \in T : \A y \in T : x <= y
<1>1. PICK x \in T : \A y \in T : ~(<<y, x>> \in OpToRel(<, Nat))
  BY NatLessThanWellFounded, WFMin
<1>2. \A y \in T : ~(y < x)
  BY <1>1 DEF OpToRel
<1> QED BY <1>2

\* Among the items that are kept, some one is the j-th.
LEMMA NthExists ==
    ASSUME NEW m \in Nat, NEW K \in SUBSET (1 .. m), NEW j \in 1 .. Cardinality(K)
    PROVE  \E i \in K : Cardinality(K \cap (1 .. i)) = j
<1> DEFINE Rank(i) == Cardinality(K \cap (1 .. i))
           T == {i \in Nat : j <= Rank(i)}
<1>1. \A i \in Nat : IsFiniteSet(K \cap (1 .. i)) /\ Rank(i) \in Nat
  <2> TAKE i \in Nat
  <2>1. IsFiniteSet(1 .. i)
    BY FS_Interval
  <2>2. K \cap (1 .. i) \in SUBSET (1 .. i)
    OBVIOUS
  <2>3. IsFiniteSet(K \cap (1 .. i))
    BY <2>1, <2>2, FS_Subset
  <2> QED BY <2>3, FS_CardinalityType
<1>2. K \cap (1 .. m) = K
  OBVIOUS
<1>3. m \in T
  BY <1>1, <1>2
<1>4. PICK i \in T : \A k \in T : i <= k
  <2>1. T \in SUBSET Nat /\ T # {}
    BY <1>3
  <2> HIDE DEF T
  <2> QED BY <2>1, LeastNumber
<1>5. j \in Nat /\ 1 <= j
  <2>1. Cardinality(K) \in Nat
    BY <1>1, <1>2
  <2> QED BY <2>1
<1>6. i # 0
  <2>1. K \cap (1 .. 0) = {}
    OBVIOUS
  <2>2. Rank(0) = 0
    BY <2>1, FS_EmptySet
  <2> QED BY <1>5, <2>2
<1>7. i - 1 \in Nat /\ ~(j <= Rank(i - 1))
  BY <1>4, <1>6
<1>8. K \cap (1 .. i) = IF i \in K THEN (K \cap (1 .. (i - 1))) \cup {i}
                        ELSE K \cap (1 .. (i - 1))
  BY <1>7
<1>9. i \notin K \cap (1 .. (i - 1))
  BY <1>7
<1>10. Rank(i) = IF i \in K THEN Rank(i - 1) + 1 ELSE Rank(i - 1)
  BY <1>1, <1>7, <1>8, <1>9, FS_AddElement
<1>11. j <= Rank(i) /\ Rank(i - 1) \in Nat /\ Rank(i) \in Nat
  BY <1>1, <1>4, <1>7
<1>12. i \in K /\ Rank(i) = j
  <2> HIDE DEF Rank
  <2> QED BY <1>5, <1>7, <1>10, <1>11
<1> QED BY <1>12

\* The first i numbers.
LEMMA FirstNumbers ==
    ASSUME NEW i \in Nat
    PROVE  IsFiniteSet(1 .. i) /\ Cardinality(1 .. i) = i
  BY FS_Interval

\* The positions of the items that are kept.
LEMMA KeptFinite ==
    ASSUME NEW S, NEW list \in Seq(S), NEW n
    PROVE  /\ Kept(list, n) \in SUBSET (1 .. Len(list))
           /\ IsFiniteSet(Kept(list, n))
           /\ Cardinality(Kept(list, n)) \in Nat
<1>1. Len(list) \in Nat /\ Kept(list, n) \in SUBSET (1 .. Len(list))
  BY DEF Kept
<1>2. IsFiniteSet(1 .. Len(list))
  BY <1>1, FirstNumbers
<1>3. IsFiniteSet(Kept(list, n))
  BY <1>1, <1>2, FS_Subset
<1> QED BY <1>1, <1>3, FS_CardinalityType

\* Where the j-th item comes from.
LEMMA PositionOfItem ==
    ASSUME NEW S, NEW list \in Seq(S), NEW n, NEW j \in 1 .. Cardinality(Kept(list, n))
    PROVE  /\ Position(list, n, j) \in Kept(list, n)
           /\ Cardinality(Kept(list, n) \cap (1 .. Position(list, n, j))) = j
<1>1. Len(list) \in Nat /\ Kept(list, n) \in SUBSET (1 .. Len(list))
  BY KeptFinite
<1>2. \E i \in Kept(list, n) : Cardinality(Kept(list, n) \cap (1 .. i)) = j
  BY <1>1, NthExists
<1> QED BY <1>2 DEF Position

\* What filterExclude returns: a list, without n, empty when there was nothing
\* else, and the same one when there was nothing to remove.
LEMMA WithoutFacts ==
    ASSUME NEW S, NEW list \in Seq(S), NEW n
    PROVE  /\ Without(list, n) \in Seq(S)
           /\ \A j \in DOMAIN Without(list, n) : Without(list, n)[j] # n
           /\ \A j \in DOMAIN Without(list, n) :
                \E i \in DOMAIN list : Without(list, n)[j] = list[i]
           /\ Without(list, n) = <<>> <=> \A i \in DOMAIN list : list[i] = n
           /\ Without(list, n) = list <=> \A i \in DOMAIN list : list[i] # n
<1> DEFINE kept == Kept(list, n)
           rest == Without(list, n)
           pos(j) == Position(list, n, j)
<1>1. IsFiniteSet(kept) /\ Cardinality(kept) \in Nat
  BY KeptFinite
<1>2. rest = [j \in 1 .. Cardinality(kept) |-> list[pos(j)]]
  BY DEF Without
<1>3. \A j \in 1 .. Cardinality(kept) : pos(j) \in kept /\ Cardinality(kept \cap (1 .. pos(j))) = j
  BY PositionOfItem
<1>4. /\ Len(list) \in Nat /\ DOMAIN list = 1 .. Len(list)
      /\ list = [j \in 1 .. Len(list) |-> list[j]]
      /\ \A i \in DOMAIN list : list[i] \in S
  OBVIOUS
<1>5. \A i \in kept : i \in DOMAIN list /\ list[i] # n /\ list[i] \in S
  BY <1>4 DEF Kept
<1>6. kept = {} <=> \A i \in DOMAIN list : list[i] = n
  BY DEF Kept
<1>7. kept = DOMAIN list <=> \A i \in DOMAIN list : list[i] # n
  BY DEF Kept
<1> HIDE DEF kept, rest, pos
<1>8. DOMAIN rest = 1 .. Cardinality(kept)
  BY <1>2
<1>9. \A j \in DOMAIN rest : rest[j] \in S /\ rest[j] # n
                             /\ \E i \in DOMAIN list : rest[j] = list[i]
  BY <1>2, <1>3, <1>5, <1>8
<1>10. rest \in Seq(S)
  <2>1. rest \in [1 .. Cardinality(kept) -> S]
    BY <1>2, <1>8, <1>9
  <2> QED BY <1>1, <2>1, SeqDef
<1>11. rest = <<>> <=> kept = {}
  <2>1. kept = {} <=> Cardinality(kept) = 0
    BY <1>1, FS_EmptySet
  <2>2. Len(rest) = Cardinality(kept)
    BY <1>1, <1>8, <1>10
  <2> QED BY <1>10, <2>1, <2>2
<1>12. rest = list => \A i \in DOMAIN list : list[i] # n
  BY <1>9
<1>13. ASSUME \A i \in DOMAIN list : list[i] # n PROVE rest = list
  <2>1. kept = 1 .. Len(list)
    BY <1>4, <1>7, <1>13
  <2>2. Cardinality(kept) = Len(list)
    BY <1>4, <2>1, FirstNumbers
  <2>3. \A j \in 1 .. Len(list) : pos(j) = j
    <3> TAKE j \in 1 .. Len(list)
    <3>1. pos(j) \in 1 .. Len(list) /\ Cardinality(kept \cap (1 .. pos(j))) = j
      BY <1>3, <2>1, <2>2
    <3>2. kept \cap (1 .. pos(j)) = 1 .. pos(j) /\ pos(j) \in Nat
      BY <1>4, <2>1, <3>1
    <3> QED BY <3>1, <3>2, FirstNumbers
  <2> QED BY <1>2, <1>4, <2>2, <2>3
<1> QED BY <1>6, <1>9, <1>10, <1>11, <1>12, <1>13 DEF rest

\* Filtering twice is filtering once.
LEMMA WithoutTwice ==
    ASSUME NEW S, NEW list \in Seq(S), NEW n
    PROVE  Without(Without(list, n), n) = Without(list, n)
<1>1. /\ Without(list, n) \in Seq(S)
      /\ \A j \in DOMAIN Without(list, n) : Without(list, n)[j] # n
  BY WithoutFacts
<1> QED BY <1>1, WithoutFacts

\* The first of the endpoints, which is where the clients go.
LEMMA FirstEndpoint ==
    ASSUME NEW list \in Seq(ControlPlanes) \ {<<>>}
    PROVE  Head(list) \in ControlPlanes /\ Head(list) = list[1] /\ 1 \in DOMAIN list
<1>1. Len(list) \in Nat /\ Len(list) # 0 /\ DOMAIN list = 1 .. Len(list)
  OBVIOUS
<1> QED BY <1>1

-----------------------------------------------------------------------------
(* Types                                                                   *)

ObjectTypes ==
    /\ nodes \in [Nodes -> TalosNode \cup {None}]
    /\ view \in [Nodes -> TalosNode \cup {None}]

StoreTypes ==
    /\ cluster = None \/ cluster \in Cluster
    /\ seen = None \/ seen \in Cluster
    /\ creds \in BOOLEAN
    /\ kubeconfig \in ControlPlanes \cup {None}
    /\ confs \subseteq Nodes

WorkerTypes ==
    /\ remote \in ControlPlanes \cup {None}
    /\ pc \in {"evict", "wait", "delete"} => remote # None
    /\ queue \subseteq Nodes
    /\ IF pc = "idle" THEN cur = None /\ obj = None
       ELSE pc \in Stages /\ cur \in Nodes /\ obj \in TalosNode
    /\ pc \in {"leave", "endpoint", "kubeconfig"} => cur \in ControlPlanes

WorldTypes ==
    /\ etcd \subseteq ControlPlanes
    /\ machine \in [Nodes -> {"up", "down", "wiped"}]
    /\ kube \in [Nodes -> {"schedulable", "cordoned", "absent"}]
    /\ pods \in [Nodes -> {"running", "terminating", "none"}]
    /\ spent \in [faults : Nat, crashes : Nat, dead : Nat]

\* The type invariant in parts.
LEMMA TypesByPart == TypeOK <=> ObjectTypes /\ StoreTypes /\ WorkerTypes /\ WorldTypes
  BY DEF TypeOK, ObjectTypes, StoreTypes, WorkerTypes, WorldTypes

\* The initial values have their types.
LEMMA InitTypes == Init => TypeOK
<1> SUFFICES ASSUME Init PROVE TypeOK
  OBVIOUS
<1>1. Head(Endpoints) \in ControlPlanes
  BY FirstEndpoint, RemovalAssumption
<1>2. ObjectTypes
  BY RemovalAssumption DEF Init, ObjectTypes, TalosNode
<1>3. StoreTypes
  BY <1>1, RemovalAssumption DEF Init, StoreTypes, Cluster
<1>4. WorkerTypes
  BY DEF Init, WorkerTypes
<1>5. WorldTypes
  BY RemovalAssumption DEF Init, WorldTypes
<1> QED BY <1>2, <1>3, <1>4, <1>5, TypesByPart

\* What is written to a TalosNode is one: attempts is counted while it is less
\* than the limit, by a reconcile that read it, and by nobody else.
LEMMA ObjectTypesKept ==
    ASSUME TypeOK, Next
    PROVE  ObjectTypes'
<1> USE DEF ObjectTypes
<1>1. ObjectTypes /\ (pc # "idle" => cur \in Nodes /\ obj \in TalosNode)
  BY DEF TypeOK
<1>2. view' \in {view, nodes}
  BY DEF Next, Handle, User, Environment, Get, Mark, MarkFails, Block, PassGuard,
     GuardFails, Drain, SkipDrain, Cordon, Evict, NextRound, Drained, DeleteObject,
     DrainFails, EtcdLeave, SkipLeave, LoadFails, Leave, LeaveFails, ForceRemove, CleanUp,
     Reset, DeleteConfig, DeleteConfigFails, RemoveEndpoint, RefreshKubeconfig,
     RemoveFinalizer, RemoveFinalizerFails, DeleteNode, AnnotateSkip, DeleteCluster,
     DeliverNodes, DeliverCluster, RemoveCredentials, RemoveCluster, Schedule, PodStops,
     MachineDies, Crash, GoTo, Done
<1>3. CASE Mark \/ MarkFails
  <2>1. Marked \in TalosNode
    BY <1>1, <1>3 DEF Mark, MarkFails, Marked, TalosNode
  <2> QED BY <1>1, <1>2, <1>3, <2>1 DEF Mark, MarkFails, PutFails
<1>4. CASE LeaveFails /\ nodes' # nodes
  <2>1. /\ pc = "leave"
        /\ nodes' = [nodes EXCEPT ![cur].attempts = @ + 1]
        /\ nodes[cur] = obj /\ obj.attempts < MaxAttempts
    BY <1>4 DEF LeaveFails, Leaving, CountAttempt, Stale
  <2>2. obj.attempts + 1 \in 0 .. MaxAttempts
    BY <1>1, <2>1, RemovalAssumption DEF TalosNode
  <2>3. [nodes[cur] EXCEPT !.attempts = @ + 1] \in TalosNode
    BY <1>1, <2>1, <2>2 DEF TalosNode
  <2> QED BY <1>1, <1>2, <2>1, <2>3
<1>5. CASE RemoveFinalizer \/ RemoveFinalizerFails
  BY <1>1, <1>2, <1>5 DEF RemoveFinalizer, RemoveFinalizerFails, PutFails
<1>6. ASSUME NEW k \in Nodes, DeleteNode(k)
      PROVE  ObjectTypes'
  <2>1. /\ nodes' = [nodes EXCEPT ![k] = [@ EXCEPT !.deleting = TRUE]]
        /\ nodes[k] \in TalosNode
    BY <1>1, <1>6 DEF DeleteNode, Live
  <2>2. [nodes[k] EXCEPT !.deleting = TRUE] \in TalosNode
    BY <2>1 DEF TalosNode
  <2> QED BY <1>1, <1>2, <2>1, <2>2
<1>7. ASSUME NEW k \in Nodes, AnnotateSkip(k)
      PROVE  ObjectTypes'
  <2>1. /\ nodes' = [nodes EXCEPT ![k] = [@ EXCEPT !.skip = TRUE]]
        /\ nodes[k] \in TalosNode
    BY <1>1, <1>7 DEF AnnotateSkip
  <2>2. [nodes[k] EXCEPT !.skip = TRUE] \in TalosNode
    BY <2>1 DEF TalosNode
  <2> QED BY <1>1, <1>2, <2>1, <2>2
<1>8. \/ Mark \/ MarkFails \/ LeaveFails \/ RemoveFinalizer \/ RemoveFinalizerFails
      \/ nodes' = nodes
      \/ \E k \in Nodes : DeleteNode(k) \/ AnnotateSkip(k)
  BY DEF Next, Handle, User, Environment, Get, Block, PassGuard, GuardFails,
     Drain, SkipDrain, Cordon, Evict, NextRound, Drained, DeleteObject, DrainFails,
     EtcdLeave, SkipLeave, LoadFails, Leave, ForceRemove, CleanUp, Reset, DeleteConfig,
     DeleteConfigFails, RemoveEndpoint, RefreshKubeconfig,
     DeleteCluster, DeliverNodes, DeliverCluster, RemoveCredentials, RemoveCluster,
     Schedule, PodStops, MachineDies, Crash, GoTo
<1> QED BY <1>1, <1>2, <1>3, <1>4, <1>5, <1>6, <1>7, <1>8

\* The list of endpoints never gets empty, and the kubeconfig points to one.
LEMMA StoreTypesKept ==
    ASSUME TypeOK, Next
    PROVE  StoreTypes'
<1> USE DEF StoreTypes
<1>1. StoreTypes /\ cur \in Nodes \cup {None}
  BY DEF TypeOK
<1>2. CASE RemoveEndpoint
  <2>1. /\ UNCHANGED <<seen, creds, kubeconfig, confs>>
        /\ \/ cluster' = cluster
           \/ /\ Removable /\ cluster = seen
              /\ cluster' = [cluster EXCEPT !.endpoints = Without(@, cur)]
    BY <1>2 DEF RemoveEndpoint
  <2>2. ASSUME Removable, cluster = seen PROVE Without(cluster.endpoints, cur) \in Seq(ControlPlanes) \ {<<>>}
    <3>1. cluster.endpoints \in Seq(ControlPlanes)
      BY <1>1, <2>2 DEF Removable, Cluster
    <3> QED BY <2>2, <3>1, WithoutFacts DEF Removable
  <2> QED BY <1>1, <2>1, <2>2 DEF Removable, Cluster
<1>3. CASE RefreshKubeconfig
  <2>1. /\ UNCHANGED <<cluster, seen, creds, confs>>
        /\ kubeconfig' = kubeconfig \/ (seen # None /\ kubeconfig' = Head(seen.endpoints))
    BY <1>3 DEF RefreshKubeconfig
  <2>2. ASSUME seen # None PROVE Head(seen.endpoints) \in ControlPlanes
    BY <1>1, <2>2, FirstEndpoint DEF Cluster
  <2> QED BY <1>1, <2>1, <2>2
<1>4. CASE DeleteConfig \/ DeleteConfigFails
  BY <1>1, <1>4 DEF DeleteConfig, DeleteConfigFails
<1>5. CASE DeleteCluster \/ DeliverCluster \/ RemoveCredentials \/ RemoveCluster \/ Crash
  BY <1>1, <1>5 DEF DeleteCluster, DeliverCluster, RemoveCredentials, RemoveCluster, Crash,
                    Cluster
<1>6. \/ RemoveEndpoint \/ RefreshKubeconfig \/ DeleteConfig \/ DeleteConfigFails
      \/ DeleteCluster \/ DeliverCluster \/ RemoveCredentials \/ RemoveCluster \/ Crash
      \/ UNCHANGED store
  BY DEF Next, Handle, User, Environment, Get, Mark, MarkFails, Block, PassGuard,
     GuardFails, Drain, SkipDrain, Cordon, Evict, NextRound, Drained, DeleteObject,
     DrainFails, EtcdLeave, SkipLeave, LoadFails, Leave, LeaveFails, ForceRemove, CleanUp,
     Reset, RemoveFinalizer, RemoveFinalizerFails, DeleteNode, AnnotateSkip,
     DeliverNodes, Schedule, PodStops, MachineDies
<1>7. CASE UNCHANGED store
  BY <1>1, <1>7 DEF store
<1> QED BY <1>2, <1>3, <1>4, <1>5, <1>6, <1>7

\* Where the worker is, and with what: only a control plane gets to the steps
\* about etcd and endpoints, and a drain has a client.
LEMMA WorkerTypesKept ==
    ASSUME TypeOK, Next
    PROVE  WorkerTypes'
<1> USE DEF WorkerTypes, Stages
<1>1. WorkerTypes /\ kubeconfig \in ControlPlanes \cup {None}
  BY DEF TypeOK
<1>2. None \notin Nodes /\ ControlPlanes \subseteq Nodes
  BY RemovalAssumption
<1>3. ASSUME NEW n \in Nodes, Get(n) PROVE WorkerTypes'
  <2>1. view[n] = None \/ view[n] \in TalosNode
    BY DEF TypeOK
  <2> QED BY <1>1, <1>3, <2>1 DEF Get
<1>4. CASE Mark
  <2>1. obj' \in TalosNode
    BY <1>1, <1>4 DEF Mark, Marked, TalosNode
  <2> QED BY <1>1, <1>4, <2>1 DEF Mark
<1>5. ASSUME NEW again, Done(again), pc # "idle" PROVE WorkerTypes'
  BY <1>1, <1>5 DEF Done
<1>6. CASE PassGuard
  BY <1>1, <1>6 DEF PassGuard, GoTo
<1>7. CASE SkipDrain \/ DeleteObject
  <2>1. GoTo(AfterDrain) /\ pc # "idle"
    BY <1>7 DEF SkipDrain, DeleteObject
  <2> QED BY <1>1, <2>1 DEF GoTo, AfterDrain
<1>8. CASE Cordon
  BY <1>1, <1>8 DEF Cordon, GoTo, Resolved
<1>9. CASE Evict \/ NextRound \/ Drained
  BY <1>1, <1>9 DEF Evict, NextRound, Drained, GoTo
<1>10. CASE SkipLeave \/ Leave \/ ForceRemove \/ Reset
  <2>1. pc \in {"leave", "reset"} /\ (GoTo("reset") \/ GoTo("secret"))
    BY <1>10 DEF SkipLeave, Leave, Leaving, ForceRemove, Forcing, Reset
  <2> QED BY <1>1, <2>1 DEF GoTo
<1>11. CASE DeleteConfig
  BY <1>1, <1>11 DEF DeleteConfig, GoTo, AfterSecret
<1>12. CASE RemoveEndpoint \/ RefreshKubeconfig
  <2>1. pc \in {"endpoint", "kubeconfig"} /\ (GoTo("kubeconfig") \/ GoTo("final"))
    BY <1>12 DEF RemoveEndpoint, RefreshKubeconfig
  <2> QED BY <1>1, <2>1 DEF GoTo
<1>13. \/ \E n \in Nodes : Get(n)
       \/ Mark
       \/ pc # "idle" /\ (Done(TRUE) \/ Done(FALSE))
       \/ PassGuard \/ SkipDrain \/ DeleteObject \/ Cordon \/ Evict \/ NextRound \/ Drained
       \/ SkipLeave \/ Leave \/ ForceRemove \/ Reset \/ DeleteConfig
       \/ RemoveEndpoint \/ RefreshKubeconfig
       \/ DeliverNodes \/ Crash \/ UNCHANGED worker
  BY DEF Next, Handle, User, Environment, MarkFails, Block, GuardFails, Drain, DrainFails,
     EtcdLeave, LoadFails, LeaveFails, Leaving, CleanUp, DeleteConfigFails,
     RemoveFinalizer, RemoveFinalizerFails, DeleteNode, AnnotateSkip, DeleteCluster,
     DeliverCluster, RemoveCredentials, RemoveCluster, Schedule, PodStops, MachineDies
<1>14. CASE DeliverNodes \/ Crash
  BY <1>1, <1>14 DEF DeliverNodes, Crash
<1>15. CASE UNCHANGED worker
  BY <1>1, <1>15 DEF worker
<1> QED BY <1>3, <1>4, <1>5, <1>6, <1>7, <1>8, <1>9, <1>10, <1>11, <1>12, <1>13, <1>14, <1>15

\* The etcd membership only shrinks; the rest has few values.
LEMMA WorldTypesKept ==
    ASSUME TypeOK, Next
    PROVE  WorldTypes'
<1>1. WorldTypes
  BY DEF TypeOK, WorldTypes
<1>2. etcd' \subseteq ControlPlanes
  <2>1. etcd' \in {etcd, etcd \ {cur}}
    BY DEF Next, Handle, User, Environment, Get, Mark, MarkFails, Block, PassGuard,
       GuardFails, Drain, SkipDrain, Cordon, Evict, NextRound, Drained, DeleteObject,
       DrainFails, EtcdLeave, SkipLeave, LoadFails, Leave, LeaveFails, ForceRemove,
       CleanUp, Reset, DeleteConfig, DeleteConfigFails, RemoveEndpoint,
       RefreshKubeconfig, RemoveFinalizer, RemoveFinalizerFails, DeleteNode,
       AnnotateSkip, DeleteCluster, DeliverNodes, DeliverCluster, RemoveCredentials,
       RemoveCluster, Schedule, PodStops, MachineDies, Crash, world
  <2> QED BY <1>1, <2>1 DEF WorldTypes
<1>3. machine' \in [Nodes -> {"up", "down", "wiped"}]
  <2>1. \/ machine' = machine
        \/ machine' = [machine EXCEPT ![cur] = "wiped"]
        \/ \E n \in Nodes : machine' = [machine EXCEPT ![n] = "down"]
    BY DEF Next, Handle, User, Environment, Get, Mark, MarkFails, Block, PassGuard,
       GuardFails, Drain, SkipDrain, Cordon, Evict, NextRound, Drained, DeleteObject,
       DrainFails, EtcdLeave, SkipLeave, LoadFails, Leave, LeaveFails, ForceRemove,
       CleanUp, Reset, DeleteConfig, DeleteConfigFails, RemoveEndpoint,
       RefreshKubeconfig, RemoveFinalizer, RemoveFinalizerFails, DeleteNode,
       AnnotateSkip, DeleteCluster, DeliverNodes, DeliverCluster, RemoveCredentials,
       RemoveCluster, Schedule, PodStops, MachineDies, Crash, world
  <2> QED BY <1>1, <2>1 DEF WorldTypes
<1>4. kube' \in [Nodes -> {"schedulable", "cordoned", "absent"}]
  <2>1. \/ kube' = kube
        \/ kube' = [kube EXCEPT ![cur] = "cordoned"]
        \/ kube' = [kube EXCEPT ![cur] = "absent"]
    BY DEF Next, Handle, User, Environment, Get, Mark, MarkFails, Block, PassGuard,
       GuardFails, Drain, SkipDrain, Cordon, Evict, NextRound, Drained, DeleteObject,
       DrainFails, EtcdLeave, SkipLeave, LoadFails, Leave, LeaveFails, ForceRemove,
       CleanUp, Reset, DeleteConfig, DeleteConfigFails, RemoveEndpoint,
       RefreshKubeconfig, RemoveFinalizer, RemoveFinalizerFails, DeleteNode,
       AnnotateSkip, DeleteCluster, DeliverNodes, DeliverCluster, RemoveCredentials,
       RemoveCluster, Schedule, PodStops, MachineDies, Crash, world
  <2> QED BY <1>1, <2>1 DEF WorldTypes
<1>5. pods' \in [Nodes -> {"running", "terminating", "none"}]
  <2>1. \/ pods' = pods
        \/ pods' = [pods EXCEPT ![cur] = "terminating"]
        \/ \E n \in Nodes : pods' = [pods EXCEPT ![n] = "running"]
        \/ \E n \in Nodes : pods' = [pods EXCEPT ![n] = "none"]
    BY DEF Next, Handle, User, Environment, Get, Mark, MarkFails, Block, PassGuard,
       GuardFails, Drain, SkipDrain, Cordon, Evict, NextRound, Drained, DeleteObject,
       DrainFails, EtcdLeave, SkipLeave, LoadFails, Leave, LeaveFails, ForceRemove,
       CleanUp, Reset, DeleteConfig, DeleteConfigFails, RemoveEndpoint,
       RefreshKubeconfig, RemoveFinalizer, RemoveFinalizerFails, DeleteNode,
       AnnotateSkip, DeleteCluster, DeliverNodes, DeliverCluster, RemoveCredentials,
       RemoveCluster, Schedule, PodStops, MachineDies, Crash, world
  <2> QED BY <1>1, <2>1 DEF WorldTypes
<1>6. spent' \in [faults : Nat, crashes : Nat, dead : Nat]
  <2>1. \/ spent' = spent
        \/ spent' = [spent EXCEPT !.faults = @ + 1]
        \/ spent' = [spent EXCEPT !.crashes = @ + 1]
        \/ spent' = [spent EXCEPT !.dead = @ + 1]
    BY DEF Next, Handle, User, Environment, Get, Mark, MarkFails, Block, PassGuard,
       GuardFails, Drain, SkipDrain, Cordon, Evict, NextRound, Drained, DeleteObject,
       DrainFails, EtcdLeave, SkipLeave, LoadFails, Leave, LeaveFails, ForceRemove,
       CleanUp, Reset, DeleteConfig, DeleteConfigFails, RemoveEndpoint,
       RefreshKubeconfig, RemoveFinalizer, RemoveFinalizerFails, DeleteNode,
       AnnotateSkip, DeleteCluster, DeliverNodes, DeliverCluster, RemoveCredentials,
       RemoveCluster, Schedule, PodStops, MachineDies, Crash, Fault, PutFails
  <2> QED BY <1>1, <2>1 DEF WorldTypes
<1> QED BY <1>2, <1>3, <1>4, <1>5, <1>6 DEF WorldTypes

\* Every variable of the removal keeps its type; with it that the list of
\* endpoints is never empty and that attempts stays within etcdLeaveMaxAttempts.
THEOREM TypeCorrect == Spec => []TypeOK
<1>1. TypeOK /\ [Next]_vars => TypeOK'
  <2> SUFFICES ASSUME TypeOK, [Next]_vars PROVE TypeOK'
    OBVIOUS
  <2>1. CASE Next
    <3>1. ObjectTypes' /\ StoreTypes' /\ WorkerTypes' /\ WorldTypes'
      BY <2>1, ObjectTypesKept, StoreTypesKept, WorkerTypesKept, WorldTypesKept
    <3> QED BY <3>1 DEF TypeOK, ObjectTypes, StoreTypes, WorkerTypes, WorldTypes
  <2>2. CASE UNCHANGED vars
    BY <2>2 DEF vars, store, world, worker, TypeOK
  <2> QED BY <2>1, <2>2
<1> QED BY InitTypes, <1>1, PTL DEF Spec

-----------------------------------------------------------------------------
(* A control plane leaves etcd first                                       *)

\* The worker is done with etcd.
PastEtcd == {"reset", "secret", "endpoint", "kubeconfig", "final"}

\* Once the worker is past the etcd steps its control plane has left, unless
\* something else than the handler kept it.
LInv ==
    pc \in PastEtcd /\ cur \in ControlPlanes /\ FreeToLeave(cur) => cur \notin etcd

\* Nothing that a control plane needs to leave etcd comes back.
NoBetter(n) ==
    /\ cluster' # None => /\ cluster # None
                          /\ Without(cluster'.endpoints, n) = Without(cluster.endpoints, n)
    /\ creds' => creds
    /\ spent.faults <= spent'.faults
    /\ \A m \in Nodes : machine'[m] = "up" => machine[m] = "up"

\* A quorum that is left was there before: machines do not recover.
LEMMA QuorumBefore ==
    ASSUME NEW members \in SUBSET Nodes,
           \A m \in Nodes : machine'[m] = "up" => machine[m] = "up",
           2 * Cardinality({m \in members : machine'[m] = "up"}) > Cardinality(members)
    PROVE  Quorum(members)
<1> DEFINE now   == {m \in members : machine'[m] = "up"}
           before == {m \in members : machine[m] = "up"}
<1>1. IsFiniteSet(members)
  BY RemovalAssumption, FS_Subset
<1>2. before \in SUBSET members /\ now \in SUBSET before
  OBVIOUS
<1> HIDE DEF now, before
<1>3. IsFiniteSet(before) /\ IsFiniteSet(now)
  BY <1>1, <1>2, FS_Subset
<1>4. Cardinality(now) <= Cardinality(before)
  BY <1>2, <1>3, FS_Subset
<1>5. Cardinality(now) \in Nat /\ Cardinality(before) \in Nat /\ Cardinality(members) \in Nat
  BY <1>1, <1>3, FS_CardinalityType
<1>6. 2 * Cardinality(now) > Cardinality(members)
  BY DEF now
<1>7. 2 * Cardinality(before) > Cardinality(members)
  BY <1>4, <1>5, <1>6
<1> QED BY <1>7 DEF Quorum, before

\* While the members stay, a control plane that is free to leave was so before.
LEMMA FreeBefore ==
    ASSUME TypeOK, TypeOK', NEW n \in ControlPlanes, NoBetter(n), etcd' = etcd,
           FreeToLeave(n)'
    PROVE  FreeToLeave(n)
<1>1. etcd \in SUBSET Nodes /\ etcd \ {n} \in SUBSET Nodes
  BY RemovalAssumption DEF TypeOK
<1>2. \A m \in Nodes : machine'[m] = "up" => machine[m] = "up"
  BY DEF NoBetter
<1>3. /\ cluster # None /\ creds /\ spent.faults = 0
      /\ cluster' # None /\ Without(cluster'.endpoints, n) = Without(cluster.endpoints, n)
  BY DEF NoBetter, FreeToLeave, TypeOK
<1>4. Quorum(etcd \ {n})
  <2>1. Quorum(etcd \ {n})'
    BY DEF FreeToLeave
  <2> QED BY <1>1, <1>2, <2>1, QuorumBefore DEF Quorum
<1> DEFINE peers == Without(cluster.endpoints, n)
<1>5. peers # <<>> /\ Answers(Head(peers))
  <2>1. /\ peers # <<>>
        /\ machine'[Head(peers)] = "up" /\ Head(peers) \in etcd /\ Quorum(etcd)'
    BY <1>3 DEF FreeToLeave, Answers
  <2>2. Quorum(etcd)
    BY <1>1, <1>2, <2>1, QuorumBefore DEF Quorum
  <2>3. machine[Head(peers)] = "up"
    BY <1>1, <1>2, <2>1
  <2> QED BY <2>1, <2>2, <2>3 DEF Answers
<1> QED BY <1>3, <1>4, <1>5 DEF FreeToLeave

\* The world only gets worse for the worker's node; its own entry in the list of
\* endpoints does not count.
LEMMA StepNoBetter ==
    ASSUME TypeOK, Next
    PROVE  NoBetter(cur)
<1>1. spent.faults <= spent'.faults
  <2>1. spent \in [faults : Nat, crashes : Nat, dead : Nat]
    BY DEF TypeOK
  <2>2. \/ spent' = spent
        \/ spent' = [spent EXCEPT !.faults = @ + 1]
        \/ spent' = [spent EXCEPT !.crashes = @ + 1]
        \/ spent' = [spent EXCEPT !.dead = @ + 1]
    BY DEF Next, Handle, User, Environment, Get, Mark, MarkFails, Block, PassGuard,
       GuardFails, Drain, SkipDrain, Cordon, Evict, NextRound, Drained, DeleteObject,
       DrainFails, EtcdLeave, SkipLeave, LoadFails, Leave, LeaveFails, ForceRemove,
       CleanUp, Reset, DeleteConfig, DeleteConfigFails, RemoveEndpoint,
       RefreshKubeconfig, RemoveFinalizer, RemoveFinalizerFails, DeleteNode,
       AnnotateSkip, DeleteCluster, DeliverNodes, DeliverCluster, RemoveCredentials,
       RemoveCluster, Schedule, PodStops, MachineDies, Crash, Fault, PutFails
  <2> QED BY <2>1, <2>2
<1>2. creds' => creds
  BY DEF Next, Handle, User, Environment, Get, Mark, MarkFails, Block, PassGuard,
     GuardFails, Drain, SkipDrain, Cordon, Evict, NextRound, Drained, DeleteObject,
     DrainFails, EtcdLeave, SkipLeave, LoadFails, Leave, LeaveFails, ForceRemove,
     CleanUp, Reset, DeleteConfig, DeleteConfigFails, RemoveEndpoint,
     RefreshKubeconfig, RemoveFinalizer, RemoveFinalizerFails, DeleteNode,
     AnnotateSkip, DeleteCluster, DeliverNodes, DeliverCluster, RemoveCredentials,
     RemoveCluster, Schedule, PodStops, MachineDies, Crash, store
<1>3. \A m \in Nodes : machine'[m] = "up" => machine[m] = "up"
  <2>1. machine \in [Nodes -> {"up", "down", "wiped"}]
    BY DEF TypeOK
  <2>2. \/ machine' = machine
        \/ machine' = [machine EXCEPT ![cur] = "wiped"]
        \/ \E n \in Nodes : machine' = [machine EXCEPT ![n] = "down"]
    BY DEF Next, Handle, User, Environment, Get, Mark, MarkFails, Block, PassGuard,
       GuardFails, Drain, SkipDrain, Cordon, Evict, NextRound, Drained, DeleteObject,
       DrainFails, EtcdLeave, SkipLeave, LoadFails, Leave, LeaveFails, ForceRemove,
       CleanUp, Reset, DeleteConfig, DeleteConfigFails, RemoveEndpoint,
       RefreshKubeconfig, RemoveFinalizer, RemoveFinalizerFails, DeleteNode,
       AnnotateSkip, DeleteCluster, DeliverNodes, DeliverCluster, RemoveCredentials,
       RemoveCluster, Schedule, PodStops, MachineDies, Crash, world
  <2> QED BY <2>1, <2>2
<1>4. cluster' # None => /\ cluster # None
                         /\ Without(cluster'.endpoints, cur) = Without(cluster.endpoints, cur)
  <2>1. CASE RemoveEndpoint /\ cluster' # cluster
    <3>1. /\ cluster # None
          /\ cluster' = [cluster EXCEPT !.endpoints = Without(@, cur)]
      BY <2>1 DEF RemoveEndpoint, Removable
    <3>2. cluster \in Cluster
      BY <3>1 DEF TypeOK
    <3>3. cluster'.endpoints = Without(cluster.endpoints, cur) /\ cluster.endpoints \in Seq(ControlPlanes)
      BY <3>1, <3>2 DEF Cluster
    <3> QED BY <3>1, <3>3, WithoutTwice
  <2>2. CASE DeleteCluster
    <3>1. cluster # None /\ cluster' = [cluster EXCEPT !.deleting = TRUE]
      BY <2>2 DEF DeleteCluster
    <3>2. cluster \in Cluster
      BY <3>1 DEF TypeOK
    <3>3. cluster'.endpoints = cluster.endpoints
      BY <3>1, <3>2 DEF Cluster
    <3> QED BY <3>1, <3>3
  <2>3. \/ RemoveEndpoint /\ cluster' # cluster
        \/ DeleteCluster \/ cluster' = cluster \/ cluster' = None
    BY DEF Next, Handle, User, Environment, Get, Mark, MarkFails, Block, PassGuard,
       GuardFails, Drain, SkipDrain, Cordon, Evict, NextRound, Drained, DeleteObject,
       DrainFails, EtcdLeave, SkipLeave, LoadFails, Leave, LeaveFails, ForceRemove,
       CleanUp, Reset, DeleteConfig, DeleteConfigFails,
       RefreshKubeconfig, RemoveFinalizer, RemoveFinalizerFails, DeleteNode,
       AnnotateSkip, DeliverNodes, DeliverCluster, RemoveCredentials,
       RemoveCluster, Schedule, PodStops, MachineDies, Crash, store
  <2> QED BY <2>1, <2>2, <2>3
<1> QED BY <1>1, <1>2, <1>3, <1>4 DEF NoBetter

\* Which steps lead past the etcd steps, or stay there.
LEMMA PastEtcdSteps ==
    ASSUME TypeOK, Next, pc' \in PastEtcd
    PROVE  \/ pc \in PastEtcd /\ UNCHANGED <<cur, etcd>>
           \/ SkipLeave \/ Leave \/ ForceRemove
           \/ cur' = cur /\ cur \notin ControlPlanes
<1> USE DEF PastEtcd
<1>1. CASE SkipDrain \/ DeleteObject
  BY <1>1 DEF SkipDrain, DeleteObject, GoTo, AfterDrain
<1>2. CASE CleanUp
  BY <1>2 DEF CleanUp, Reset, DeleteConfig, DeleteConfigFails, RemoveEndpoint,
     RefreshKubeconfig, RemoveFinalizer, RemoveFinalizerFails, GoTo, Done, world
<1>3. CASE User
  BY <1>3 DEF User, DeleteNode, AnnotateSkip, DeleteCluster, worker, world
<1>4. CASE Environment
  BY <1>4 DEF Environment, DeliverNodes, DeliverCluster, RemoveCredentials,
     RemoveCluster, Schedule, PodStops, MachineDies, Crash, worker, world
<1>5. ASSUME NEW n \in Nodes, Get(n)
      PROVE  FALSE
  BY <1>5 DEF Get
<1> QED BY <1>1, <1>2, <1>3, <1>4, <1>5 DEF Next, Handle, Mark, MarkFails, Block,
        PassGuard, GuardFails, Drain, Cordon, Evict, NextRound, Drained, DrainFails,
        EtcdLeave, LoadFails, LeaveFails, GoTo, Done

\* The survivor that is asked is the first of the other endpoints, if that runs.
LEMMA SurvivorIsFirst ==
    ASSUME Peers \in Seq(ControlPlanes) \ {<<>>}, machine[Head(Peers)] = "up"
    PROVE  Survivor = Head(Peers)
<1> DEFINE up == {i \in DOMAIN Peers : machine[Peers[i]] = "up"}
<1>1. 1 \in up /\ Head(Peers) = Peers[1]
  BY FirstEndpoint
<1>2. \A i \in up : i \in Nat /\ 1 <= i
  OBVIOUS
<1> HIDE DEF up
<1>3. (CHOOSE i \in up : \A j \in up : i <= j) = 1
  BY <1>1, <1>2
<1> QED BY <1>1, <1>3 DEF Survivor, up

\* handleEtcdLeave goes on without the node leaving etcd only when it is not free to:
\* there are no credentials, no survivor, no quorum, or a call failed.
LEMMA GoesOnWhenLeft ==
    ASSUME StaleReads = FALSE, TypeOK, SkipLeave \/ Leave \/ ForceRemove, FreeToLeave(cur)'
    PROVE  cur' = cur /\ cur \notin etcd'
<1>1. /\ cur' = cur /\ UNCHANGED <<cluster, seen, creds, machine>> /\ pc = "leave"
      /\ seen = cluster
  BY DEF SkipLeave, Leave, Leaving, ForceRemove, Forcing, ClusterRead, GoTo, store, world
<1>2. cluster' # None /\ creds' /\ spent'.faults = 0
  BY DEF FreeToLeave
<1>3. CASE SkipLeave
  BY <1>1, <1>2, <1>3 DEF SkipLeave, Credentials
<1>4. CASE Leave
  BY <1>1, <1>4 DEF Leave
<1>5. CASE ForceRemove /\ etcd' = etcd
  <2>1. Without(cluster.endpoints, cur) # <<>> /\ Answers(Head(Peers)) /\ Quorum(etcd \ {cur})
    BY <1>1, <1>5 DEF FreeToLeave, Peers, Answers, Quorum
  <2>2. cluster \in Cluster
    BY <1>1, <1>2 DEF TypeOK
  <2>3. Peers \in Seq(ControlPlanes) \ {<<>>}
    BY <1>1, <2>1, <2>2, WithoutFacts DEF Peers, Cluster
  <2>4. Survivor = Head(Peers)
    BY <2>1, <2>3, SurvivorIsFirst DEF Answers
  <2>5. CanForce
    BY <2>1, <2>3, <2>4 DEF CanForce
  <2>6. spent \in [faults : Nat, crashes : Nat, dead : Nat]
    BY DEF TypeOK
  <2>7. ~Fault
    BY <1>2, <2>6 DEF Fault
  <2> QED BY <1>1, <1>5, <2>5, <2>7 DEF ForceRemove
<1>6. CASE ForceRemove /\ etcd' # etcd
  BY <1>1, <1>6 DEF ForceRemove
<1> QED BY <1>3, <1>4, <1>5, <1>6

\* Every step keeps it.
LEMMA NextLeft ==
    ASSUME StaleReads = FALSE, TypeOK, TypeOK', LInv, Next
    PROVE  LInv'
<1> SUFFICES ASSUME pc' \in PastEtcd, cur' \in ControlPlanes, FreeToLeave(cur)'
             PROVE  cur' \notin etcd'
  BY DEF LInv
<1>1. CASE pc \in PastEtcd /\ UNCHANGED <<cur, etcd>>
  <2>1. FreeToLeave(cur)
    BY <1>1, StepNoBetter, FreeBefore
  <2> QED BY <1>1, <2>1 DEF LInv
<1>2. CASE SkipLeave \/ Leave \/ ForceRemove
  BY <1>2, GoesOnWhenLeft
<1> QED BY <1>1, <1>2, PastEtcdSteps

\* Provided the copy of the cluster is current when it is read: a control plane
\* that nothing else kept in etcd has left it before handleDeletion wipes its
\* machine or gives up its finalizer, after whatever crashes and retries. With a
\* lagging copy the endpoint that is asked may be gone.
THEOREM LeavesFirst ==
    ASSUME StaleReads = FALSE
    PROVE  Spec => LeavesEtcdFirst
<1> DEFINE Left ==
        \A n \in ControlPlanes :
            /\ \/ nodes[n] # None /\ nodes'[n] = None
               \/ machine[n] = "up" /\ machine'[n] = "wiped"
            /\ FreeToLeave(n)
            => n \notin etcd
<1>1. Init => LInv
  BY DEF Init, LInv, PastEtcd
<1>2. TypeOK /\ TypeOK' /\ LInv /\ [Next]_vars => LInv'
  <2> SUFFICES ASSUME TypeOK, TypeOK', LInv, [Next]_vars PROVE LInv'
    OBVIOUS
  <2>1. CASE Next
    BY <2>1, NextLeft
  <2>2. CASE UNCHANGED vars
    BY <2>2 DEF vars, store, world, worker, LInv, FreeToLeave, Quorum, Answers
  <2> QED BY <2>1, <2>2
<1>3. TypeOK /\ GInv /\ LInv /\ [Next]_vars => [Left]_vars
  <2> SUFFICES ASSUME TypeOK, GInv, LInv, Next,
                      NEW n \in ControlPlanes,
                      \/ nodes[n] # None /\ nodes'[n] = None
                      \/ machine[n] = "up" /\ machine'[n] = "wiped",
                      FreeToLeave(n)
               PROVE  n \notin etcd
    BY DEF vars
  <2>1. n \in Nodes
    BY RemovalAssumption
  <2>2. CASE nodes[n] # None /\ nodes'[n] = None
    <3>1. pc = "final" /\ cur = n
      BY <2>1, <2>2, OnlyFinalizerRemoves
    <3> QED BY <3>1 DEF LInv, PastEtcd
  <2>3. CASE machine[n] = "up" /\ machine'[n] = "wiped"
    <3>1. machine \in [Nodes -> {"up", "down", "wiped"}]
      BY DEF TypeOK
    <3>2. CASE Reset
      <4>1. pc = "reset" /\ machine' \in {machine, [machine EXCEPT ![cur] = "wiped"]}
        BY <3>2 DEF Reset
      <4>2. cur = n
        BY <2>1, <2>3, <3>1, <4>1
      <4> QED BY <4>1, <4>2 DEF LInv, PastEtcd
    <3>3. CASE ~Reset
      <4>1. \/ machine' = machine
            \/ \E k \in Nodes : machine' = [machine EXCEPT ![k] = "down"]
        BY <3>3 DEF Next, Handle, User, Environment, Get, Mark, MarkFails, Block, PassGuard,
           GuardFails, Drain, SkipDrain, Cordon, Evict, NextRound, Drained, DeleteObject,
           DrainFails, EtcdLeave, SkipLeave, LoadFails, Leave, LeaveFails, ForceRemove,
           CleanUp, DeleteConfig, DeleteConfigFails, RemoveEndpoint,
           RefreshKubeconfig, RemoveFinalizer, RemoveFinalizerFails, DeleteNode,
           AnnotateSkip, DeleteCluster, DeliverNodes, DeliverCluster, RemoveCredentials,
           RemoveCluster, Schedule, PodStops, MachineDies, Crash, world
      <4> QED BY <2>1, <2>3, <3>1, <4>1
    <3> QED BY <3>2, <3>3
  <2> QED BY <2>2, <2>3
<1>4. LeavesEtcdFirst <=> [][Left]_vars
  BY DEF LeavesEtcdFirst
<1> HIDE DEF Left
<1>5. Spec => []TypeOK
  BY TypeCorrect
<1> QED BY <1>1, <1>2, <1>3, <1>4, <1>5, InitDiscipline, NextDiscipline, PTL DEF Spec

-----------------------------------------------------------------------------
(* The list of endpoints follows                                           *)

\* n is not among the endpoints, unless there is no other.
Unlisted(n) == Without(cluster.endpoints, n) \in {<<>>, cluster.endpoints}

\* After the step that takes its endpoint off the list a node stays unlisted,
\* although the list changes with the removal of other nodes.
KInv ==
    cluster # None /\ spent.faults = 0 =>
        \A n \in ControlPlanes :
            nodes[n] = None \/ (pc \in {"kubeconfig", "final"} /\ cur = n)
              => Unlisted(n)

\* What the filter does to a list that names nobody else, or not n at all.
LEMMA UnlistedStays ==
    ASSUME NEW list \in Seq(ControlPlanes), NEW n, NEW k,
           Without(list, k) \notin {<<>>, list},
           Without(list, n) \in {<<>>, list}
    PROVE  /\ Without(list, n) = list
           /\ Without(Without(list, k), n) = Without(list, k)
<1>1. \/ \A i \in DOMAIN list : list[i] = n
      \/ \A i \in DOMAIN list : list[i] # n
  BY WithoutFacts
<1>2. CASE \A i \in DOMAIN list : list[i] = n
  <2>1. (\A i \in DOMAIN list : list[i] = k) \/ (\A i \in DOMAIN list : list[i] # k)
    BY <1>2
  <2> QED BY <2>1, WithoutFacts
<1>3. CASE \A i \in DOMAIN list : list[i] # n
  <2>1. Without(list, n) = list
    BY <1>3, WithoutFacts
  <2>2. Without(list, k) \in Seq(ControlPlanes)
    BY WithoutFacts
  <2>3. \A j \in DOMAIN Without(list, k) : Without(list, k)[j] # n
    <3>1. \A j \in DOMAIN Without(list, k) : \E i \in DOMAIN list : Without(list, k)[j] = list[i]
      BY WithoutFacts
    <3> QED BY <1>3, <3>1
  <2>4. Without(Without(list, k), n) = Without(list, k)
    BY <2>2, <2>3, WithoutFacts
  <2> QED BY <2>1, <2>4
<1> QED BY <1>1, <1>2, <1>3

\* The removal of the worker's endpoint, if no call fails.
LEMMA RemoveEndpointFollows ==
    ASSUME StaleReads = FALSE, TypeOK, TypeOK', KInv, RemoveEndpoint
    PROVE  KInv'
<1> SUFFICES ASSUME cluster' # None, spent'.faults = 0,
                    NEW n \in ControlPlanes,
                    nodes'[n] = None \/ (pc' \in {"kubeconfig", "final"} /\ cur' = n)
             PROVE  Unlisted(n)'
  BY DEF KInv
<1>1. /\ UNCHANGED <<nodes, cur>> /\ pc' = "kubeconfig" /\ pc = "endpoint"
      /\ seen = cluster
  BY DEF RemoveEndpoint, GoTo, ClusterRead
<1>2. ~Fault
  BY DEF Fault, TypeOK
<1>3. cluster # None /\ spent' = spent
  BY <1>1, <1>2 DEF RemoveEndpoint, Removable
<1>4. cluster.endpoints \in Seq(ControlPlanes) /\ cluster \in Cluster
  BY <1>3 DEF TypeOK, Cluster
<1>5. nodes[n] = None => Unlisted(n)
  BY <1>3 DEF KInv
<1>6. CASE Removable
  <2>1. cluster'.endpoints = Without(cluster.endpoints, cur)
    BY <1>1, <1>2, <1>4, <1>6 DEF RemoveEndpoint, Cluster
  <2>2. Without(cluster.endpoints, cur) \notin {<<>>, cluster.endpoints}
    BY <1>1, <1>6 DEF Removable
  <2>3. Without(cluster'.endpoints, cur) = cluster'.endpoints
    BY <1>4, <2>1, WithoutTwice
  <2>4. ASSUME nodes[n] = None PROVE Without(cluster'.endpoints, n) = cluster'.endpoints
    <3>1. Without(cluster.endpoints, n) \in {<<>>, cluster.endpoints}
      BY <1>5, <2>4 DEF Unlisted
    <3>2. Without(Without(cluster.endpoints, cur), n) = Without(cluster.endpoints, cur)
      BY <1>4, <2>2, <3>1, UnlistedStays
    <3> QED BY <2>1, <3>2
  <2> QED BY <1>1, <2>3, <2>4 DEF Unlisted
<1>7. CASE ~Removable
  <2>1. cluster' = cluster
    BY <1>7 DEF RemoveEndpoint
  <2>2. Unlisted(cur)
    BY <1>1, <1>3, <1>7 DEF Removable, Unlisted
  <2> QED BY <1>1, <1>5, <2>1, <2>2 DEF Unlisted
<1> QED BY <1>6, <1>7

\* Nobody else changes the list or brings the worker past that step.
LEMMA OthersFollow ==
    ASSUME TypeOK, Next, ~RemoveEndpoint
    PROVE  /\ cluster' # None => /\ cluster # None
                                 /\ cluster'.endpoints = cluster.endpoints
           /\ pc' \in {"kubeconfig", "final"} /\ cur' \in ControlPlanes
                => pc \in {"kubeconfig", "final"} /\ cur' = cur
<1>1. CASE DeleteCluster
  <2>1. cluster # None /\ cluster' = [cluster EXCEPT !.deleting = TRUE]
    BY <1>1 DEF DeleteCluster
  <2>2. cluster \in Cluster
    BY <2>1 DEF TypeOK
  <2>3. cluster'.endpoints = cluster.endpoints
    BY <2>1, <2>2 DEF Cluster
  <2> QED BY <1>1, <2>1, <2>3 DEF DeleteCluster, worker
<1>2. CASE ~DeleteCluster
  <2>1. cluster' = None \/ UNCHANGED cluster
    BY <1>2 DEF Next, Handle, User, Environment, Get, Mark, MarkFails, Block, PassGuard,
       GuardFails, Drain, SkipDrain, Cordon, Evict, NextRound, Drained, DeleteObject,
       DrainFails, EtcdLeave, SkipLeave, LoadFails, Leave, LeaveFails, ForceRemove,
       CleanUp, Reset, DeleteConfig, DeleteConfigFails, RefreshKubeconfig,
       RemoveFinalizer, RemoveFinalizerFails, DeleteNode, AnnotateSkip, DeliverNodes,
       DeliverCluster, RemoveCredentials, RemoveCluster, Schedule, PodStops,
       MachineDies, Crash, store
  <2>2. pc' \in {"kubeconfig", "final"} /\ cur' \in ControlPlanes
          => pc \in {"kubeconfig", "final"} /\ cur' = cur
    <3>1. CASE DeleteConfig
      BY <3>1 DEF DeleteConfig, GoTo, AfterSecret
    <3>2. CASE SkipDrain \/ DeleteObject
      BY <3>2 DEF SkipDrain, DeleteObject, GoTo, AfterDrain
    <3>3. CASE Handle /\ ~DeleteConfig /\ ~SkipDrain /\ ~DeleteObject
      BY <3>3 DEF Handle, Mark, MarkFails, Block, PassGuard, GuardFails, Drain, Cordon,
         Evict, NextRound, Drained, DrainFails, EtcdLeave, SkipLeave, LoadFails, Leave,
         LeaveFails, ForceRemove, CleanUp, Reset, DeleteConfigFails, RefreshKubeconfig,
         RemoveFinalizer, RemoveFinalizerFails, GoTo, Done
    <3>4. CASE ~Handle
      BY <3>4 DEF Next, Get, User, Environment, DeleteNode, AnnotateSkip, DeleteCluster,
         DeliverNodes, DeliverCluster, RemoveCredentials, RemoveCluster, Schedule,
         PodStops, MachineDies, Crash, worker
    <3> QED BY <3>1, <3>2, <3>3, <3>4
  <2> QED BY <2>1, <2>2
<1> QED BY <1>1, <1>2

\* Every step keeps it.
LEMMA NextFollows ==
    ASSUME StaleReads = FALSE, TypeOK, TypeOK', GInv, KInv, Next
    PROVE  KInv'
<1>1. CASE RemoveEndpoint
  BY <1>1, RemoveEndpointFollows
<1>2. CASE ~RemoveEndpoint
  <2> SUFFICES ASSUME cluster' # None, spent'.faults = 0,
                      NEW n \in ControlPlanes,
                      nodes'[n] = None \/ (pc' \in {"kubeconfig", "final"} /\ cur' = n)
               PROVE  Unlisted(n)'
    BY DEF KInv
  <2>1. /\ cluster # None
        /\ cluster'.endpoints = cluster.endpoints
        /\ pc' \in {"kubeconfig", "final"} /\ cur' = n
             => pc \in {"kubeconfig", "final"} /\ cur = n
    BY <1>2, OthersFollow
  <2>2. spent.faults = 0
    BY StepNoBetter DEF NoBetter, TypeOK
  <2>3. nodes'[n] = None => nodes[n] = None \/ (pc = "final" /\ cur = n)
    BY OnlyFinalizerRemoves, RemovalAssumption
  <2>4. Unlisted(n)
    BY <2>1, <2>2, <2>3 DEF KInv
  <2> QED BY <2>1, <2>4 DEF Unlisted
<1> QED BY <1>1, <1>2

\* Provided the copy of the cluster is current when removeEndpointFromCluster reads
\* it: spec.endpoints never goes on naming a control plane that is gone, in whatever
\* order control planes are removed and wherever the controller restarts.
THEOREM EndpointsAreCut ==
    ASSUME StaleReads = FALSE
    PROVE  Spec => []EndpointsFollow
<1>1. Init => KInv
  <2> SUFFICES ASSUME Init PROVE KInv
    OBVIOUS
  <2>1. \A n \in Nodes : nodes[n] \in TalosNode
    BY RemovalAssumption DEF Init, TalosNode
  <2> QED BY <2>1, NoneAssumption, RemovalAssumption DEF Init, KInv
<1>2. TypeOK /\ TypeOK' /\ GInv /\ KInv /\ [Next]_vars => KInv'
  <2> SUFFICES ASSUME TypeOK, TypeOK', GInv, KInv, [Next]_vars PROVE KInv'
    OBVIOUS
  <2>1. CASE Next
    BY <2>1, NextFollows
  <2>2. CASE UNCHANGED vars
    BY <2>2 DEF vars, store, world, worker, KInv, Unlisted
  <2> QED BY <2>1, <2>2
<1>3. KInv => EndpointsFollow
  <2> SUFFICES ASSUME KInv, cluster # None, spent.faults = 0,
                      NEW n \in ControlPlanes, nodes[n] = None
               PROVE  Unlisted(n)
    BY DEF EndpointsFollow, Unlisted
  <2> QED BY DEF KInv
<1>4. Spec => []TypeOK
  BY TypeCorrect
<1> QED BY <1>1, <1>2, <1>3, <1>4, InitDiscipline, NextDiscipline, PTL DEF Spec

=============================================================================
