------------------------ MODULE ClusterProvisionProofs ------------------------
(***************************************************************************)
(* Theorems about ClusterProvision, for all values of its constants: any   *)
(* versions and nodes, and edits, failures and crashes without bound.      *)
(***************************************************************************)
EXTENDS ClusterProvision, TLAPS

-----------------------------------------------------------------------------
(* Types                                                                   *)

\* TypeOK in three parts: the cluster and its copy, the worker, the rest.
StoreTypes ==
    /\ cluster \in Cluster \cup {None}
    /\ cache \in Cluster \cup {None}
    /\ lag \in {"none", "quiet", "loud"}

WorkerTypes ==
    /\ queued \in BOOLEAN
    /\ pc \in PCs
    /\ IF pc = "idle" THEN obj = None ELSE obj \in Cluster
    /\ fresh \in BOOLEAN
    /\ ca \in Nat \cup {None}
    /\ pc = "store" => ca # None
    /\ at \in 0 .. 4

RestTypes ==
    /\ secrets \in [Kinds -> Contents \cup {None}]
    /\ nodes \in [Nodes -> {"live", "terminating", "gone"}]
    /\ lastCa \in Nat

SpentType == spent \in [edits : Nat, faults : Nat, crashes : Nat]

\* The parts make up the type invariant.
LEMMA TypeParts ==
    /\ TypeOK <=> StoreTypes /\ WorkerTypes /\ RestTypes /\ SpentType
    /\ TypeOK' <=> StoreTypes' /\ WorkerTypes' /\ RestTypes' /\ SpentType'
  BY DEF TypeOK, StoreTypes, WorkerTypes, RestTypes, SpentType

\* Absence is neither a cluster nor a bundle nor a Secret.
LEMMA NoneIsNothing ==
    /\ \A o \in Cluster : o # None
    /\ \A n \in Nat : n # None
    /\ \A c \in Contents : c # None
  BY NoneAssumption DEF Contents

\* The four Secrets have different names.
LEMMA KindFacts ==
    /\ \A i \in 1 .. 4 : Stored[i] \in Kinds
    /\ \A i, j \in 1 .. 4 : i # j => Stored[i] # Stored[j]
    /\ \A k \in Kinds : \E i \in 1 .. 4 : k = Stored[i]
    /\ Stored[1] = "secrets" /\ "secrets" \in Kinds
<1>1. Stored[1] = "secrets" /\ Stored[2] = "controlplane" /\ Stored[3] = "worker"
      /\ Stored[4] = "talosconfig"
  BY DEF Stored
<1>2. \A i \in 1 .. 4 : i = 1 \/ i = 2 \/ i = 3 \/ i = 4
  OBVIOUS
<1>3. \A i, j \in 1 .. 4 : i # j => Stored[i] # Stored[j]
  BY <1>1, <1>2
<1> QED BY <1>1, <1>3 DEF Kinds

\* The records that the handlers and the user write.
LEMMA ClusterUpdates ==
    ASSUME NEW o \in Cluster
    PROVE  /\ [o EXCEPT !.fin = TRUE] \in Cluster
           /\ \A p \in Phases : [o EXCEPT !.phase = p] \in Cluster
           /\ Provisioning(o) \in Cluster
           /\ Provisioned(o) \in Cluster
           /\ \A v \in Versions : [o EXCEPT !.ver = v, !.gen = @ + 1] \in Cluster
           /\ [o EXCEPT !.deleting = TRUE, !.gen = @ + 1] \in Cluster
<1>1. o.gen + 1 \in Nat /\ o.gen \in Nat
  BY DEF Cluster
<1> QED BY <1>1 DEF Cluster, Provisioning, Provisioned, Phases

\* What those writes leave alone.
LEMMA FieldsWritten ==
    ASSUME NEW o \in Cluster
    PROVE  /\ LET w == [o EXCEPT !.fin = TRUE] IN
                w.fin /\ w.deleting = o.deleting /\ w.generated = o.generated
           /\ \A p \in Phases : LET w == [o EXCEPT !.phase = p] IN
                w.fin = o.fin /\ w.deleting = o.deleting /\ w.generated = o.generated
           /\ LET w == Provisioning(o) IN
                w.fin = o.fin /\ w.deleting = o.deleting /\ ~w.generated
           /\ LET w == Provisioned(o) IN
                w.fin = o.fin /\ w.deleting = o.deleting /\ w.generated
           /\ \A v \in Versions : LET w == [o EXCEPT !.ver = v, !.gen = @ + 1] IN
                w.fin = o.fin /\ w.deleting = o.deleting /\ w.generated = o.generated
           /\ LET w == [o EXCEPT !.deleting = TRUE, !.gen = @ + 1] IN
                w.fin = o.fin /\ w.deleting /\ w.generated = o.generated
  BY DEF Cluster, Provisioning, Provisioned

\* A failure is counted.
LEMMA FaultType ==
    SpentType /\ (Fault \/ UNCHANGED spent) => SpentType'
  BY DEF SpentType, Fault

\* Reconcile returns.
LEMMA DoneType ==
    ASSUME WorkerTypes, NEW again \in BOOLEAN, Done(again)
    PROVE  WorkerTypes'
<1>1. (queued \/ again) \in BOOLEAN
  OBVIOUS
<1>2. queued' \in BOOLEAN
  BY <1>1 DEF Done
<1>3. pc' = "idle" /\ obj' = None /\ fresh' = FALSE /\ ca' = None /\ at' = 0
  BY DEF Done
<1>4. at' \in 0 .. 4 /\ ca' \in Nat \cup {None} /\ pc' \in PCs
  BY DEF Done, PCs
<1>6. fresh' \in BOOLEAN
  BY <1>3
<1>5. (pc' = "store" => ca' # None) /\ (IF pc' = "idle" THEN obj' = None ELSE obj' \in Cluster)
  BY <1>3
<1> QED BY <1>2, <1>4, <1>5, <1>6 DEF WorkerTypes

\* Reconcile goes on without a write to the cluster.
LEMMA GoToType ==
    ASSUME StoreTypes, WorkerTypes, NEW next \in PCs \ {"idle"}, pc # "idle", GoTo(next),
           ca' \in Nat \cup {None}, next = "store" => ca' # None, at' \in 0 .. 4
    PROVE  StoreTypes' /\ WorkerTypes'
<1>1. StoreTypes'
  BY DEF StoreTypes, GoTo
<1>2. obj \in Cluster
  BY DEF WorkerTypes
<1>3. pc' = next /\ UNCHANGED <<queued, obj, fresh>>
  BY DEF GoTo
<1>4. IF pc' = "idle" THEN obj' = None ELSE obj' \in Cluster
  BY <1>2, <1>3
<1> QED BY <1>1, <1>3, <1>4 DEF WorkerTypes

\* A write, accepted or not.
LEMMA WriteType ==
    ASSUME TypeOK, NEW o \in Cluster, Accepted(o) \/ Refused(o), UNCHANGED cache
    PROVE  StoreTypes' /\ SpentType'
<1>1. SpentType'
  BY FaultType, TypeParts DEF Accepted, Refused
<1>2. cluster' \in Cluster \cup {None} /\ lag' \in {"none", "quiet", "loud"}
  BY TypeParts DEF StoreTypes, Accepted, Refused, Write
<1> QED BY <1>1, <1>2, TypeParts DEF StoreTypes

\* A write with which a reconcile ends.
LEMMA EndsWithWrite ==
    ASSUME TypeOK, NEW o \in Cluster, Accepted(o) \/ Refused(o),
           NEW again \in BOOLEAN, Done(again), UNCHANGED <<cache, secrets, nodes, lastCa>>
    PROVE  TypeOK'
<1>1. RestTypes'
  BY TypeParts DEF RestTypes
<1> QED BY <1>1, WriteType, DoneType, TypeParts

\* A status that provision could not write.
LEMMA UnsavedType ==
    ASSUME TypeOK, NEW o \in Cluster, Unsaved(o), UNCHANGED <<cache, secrets, nodes, lastCa>>
    PROVE  TypeOK'
<1>1. RestTypes'
  BY TypeParts DEF RestTypes
<1>2. (fresh /\ cluster' = cluster) \in BOOLEAN
  OBVIOUS
<1>3. WorkerTypes'
  BY <1>2, TypeParts DEF WorkerTypes, Unsaved, PCs
<1> QED BY <1>1, <1>3, WriteType, TypeParts DEF Unsaved

\* What is stored for a bundle.
LEMMA ContentType ==
    ASSUME TypeOK, pc = "store", at < 4
    PROVE  /\ Content \in Contents
           /\ Kind \in Kinds
           /\ Created(Kind) \in [Kinds -> Contents \cup {None}]
<1>1. Content \in Contents
  BY TypeParts DEF WorkerTypes, Content, Contents, Cluster
<1>2. at + 1 \in 1 .. 4
  BY TypeParts DEF WorkerTypes
<1>3. Kind \in Kinds
  BY <1>2, KindFacts DEF Kind
<1> QED BY <1>1, <1>3, TypeParts DEF RestTypes, Created

\* What is left after a deletion.
LEMMA DeletedType ==
    ASSUME TypeOK, at < 4
    PROVE  Deleted(Kind) \in [Kinds -> Contents \cup {None}]
  BY TypeParts DEF RestTypes, Deleted

\* The steps of provision.
LEMMA ProvisionTypes ==
    ASSUME TypeOK, Get \/ AddFinalizer \/ Provision
    PROVE  TypeOK'
<1> USE TypeParts
<1>0. StoreTypes /\ WorkerTypes /\ RestTypes /\ SpentType
  OBVIOUS
<1>1. CASE Get
  <2>1. (lag = "none") \in BOOLEAN /\ FALSE \in BOOLEAN
    OBVIOUS
  <2>2. WorkerTypes'
    BY <1>0, <1>1, <2>1 DEF Get, WorkerTypes, StoreTypes, PCs
  <2> QED BY <1>0, <1>1, <2>2 DEF Get, StoreTypes, RestTypes, SpentType
<1>2. CASE AddFinalizer
  <2> DEFINE o == [obj EXCEPT !.fin = TRUE]
  <2>1. o \in Cluster
    BY <1>0, <1>2, ClusterUpdates DEF AddFinalizer, WorkerTypes
  <2>2. Accepted(o) \/ Refused(o)
    BY <1>2 DEF AddFinalizer
  <2>3. StoreTypes' /\ SpentType'
    BY <1>2, <2>1, <2>2, WriteType DEF AddFinalizer
  <2>4. RestTypes'
    BY <1>0, <1>2 DEF AddFinalizer, RestTypes
  <2>5. CASE Done(TRUE)
    BY <1>0, <2>3, <2>4, <2>5, DoneType
  <2>6. CASE obj' = o /\ UNCHANGED <<queued, pc, fresh, ca, at>>
    <3>1. WorkerTypes'
      BY <1>0, <1>2, <2>1, <2>6 DEF WorkerTypes, AddFinalizer
    <3> QED BY <2>3, <2>4, <3>1
  <2> QED BY <1>2, <2>5, <2>6 DEF AddFinalizer
<1>3. CASE BeginProvision
  <2> DEFINE o == Provisioning(obj)
  <2>1. o \in Cluster
    BY <1>0, <1>3, ClusterUpdates DEF BeginProvision, WorkerTypes
  <2>2. CASE Unsaved(o)
    BY <1>3, <2>1, <2>2, UnsavedType DEF BeginProvision
  <2>3. CASE Accepted(o) /\ obj' = o /\ pc' = "load" /\ UNCHANGED <<queued, fresh, ca, at>>
    <3>1. StoreTypes' /\ SpentType'
      BY <1>3, <2>1, <2>3, WriteType DEF BeginProvision
    <3>2. WorkerTypes'
      BY <1>0, <2>1, <2>3 DEF WorkerTypes, PCs
    <3> QED BY <1>0, <1>3, <3>1, <3>2 DEF BeginProvision, RestTypes
  <2> QED BY <1>3, <2>2, <2>3 DEF BeginProvision
<1>4. CASE LoadBundle
  <2>1. secrets["secrets"] \in Contents
    BY <1>0, <1>4, KindFacts DEF LoadBundle, RestTypes
  <2>2. ca' \in Nat /\ ca' # None
    BY <1>4, <2>1, NoneIsNothing DEF LoadBundle, Contents
  <2>3. StoreTypes' /\ WorkerTypes'
    BY <1>0, <1>4, <2>2, GoToType DEF LoadBundle, WorkerTypes, PCs
  <2> QED BY <1>0, <1>4, <2>3, FaultType DEF LoadBundle, GoTo, RestTypes
<1>5. CASE GenBundle
  <2>1. ca' \in Nat /\ ca' # None /\ lastCa' \in Nat
    BY <1>0, <1>5, NoneIsNothing DEF GenBundle, RestTypes
  <2>2. StoreTypes' /\ WorkerTypes'
    BY <1>0, <1>5, <2>1, GoToType DEF GenBundle, NoBundle, WorkerTypes, PCs
  <2> QED BY <1>0, <1>5, <2>1, <2>2, FaultType DEF GenBundle, NoBundle, GoTo, RestTypes
<1>6. CASE GenBundleFails
  <2>1. StoreTypes' /\ WorkerTypes'
    BY <1>0, <1>6, GoToType DEF GenBundleFails, NoBundle, WorkerTypes, PCs
  <2> QED BY <1>0, <1>6, <2>1, FaultType DEF GenBundleFails, NoBundle, GoTo, RestTypes
<1>7. CASE Store
  <2>1. at' \in 0 .. 4
    BY <1>0, <1>7 DEF Store, WorkerTypes
  <2>2. StoreTypes' /\ WorkerTypes'
    BY <1>0, <1>7, <2>1, GoToType DEF Store, WorkerTypes, PCs
  <2>3. secrets' \in [Kinds -> Contents \cup {None}]
    BY <1>7, ContentType DEF Store
  <2> QED BY <1>0, <1>7, <2>2, <2>3, FaultType DEF Store, GoTo, RestTypes
<1>8. CASE StoreFails
  <2>1. StoreTypes' /\ WorkerTypes'
    BY <1>0, <1>8, GoToType DEF StoreFails, WorkerTypes, PCs
  <2>2. secrets' \in [Kinds -> Contents \cup {None}]
    BY <1>0, <1>8, ContentType DEF StoreFails, RestTypes
  <2> QED BY <1>0, <1>8, <2>1, <2>2, FaultType DEF StoreFails, GoTo, RestTypes
<1>9. CASE SaveReady
  <2> DEFINE o == Provisioned(obj)
  <2>1. o \in Cluster
    BY <1>0, <1>9, ClusterUpdates DEF SaveReady, WorkerTypes
  <2>2. CASE Unsaved(o)
    BY <1>9, <2>1, <2>2, UnsavedType DEF SaveReady
  <2>3. CASE Accepted(o) /\ Done(FALSE)
    BY <1>9, <2>1, <2>3, EndsWithWrite DEF SaveReady
  <2> QED BY <1>9, <2>2, <2>3 DEF SaveReady
<1>10. CASE SetError
  <2> DEFINE o == [obj EXCEPT !.phase = "Error"]
  <2>1. o \in Cluster
    BY <1>0, <1>10, ClusterUpdates DEF SetError, WorkerTypes, Phases
  <2> QED BY <1>10, <2>1, EndsWithWrite DEF SetError
<1> QED BY <1>1, <1>2, <1>3, <1>4, <1>5, <1>6, <1>7, <1>8, <1>9, <1>10 DEF Provision

\* The steps of the deletion.
LEMMA TeardownTypes ==
    ASSUME TypeOK, Teardown
    PROVE  TypeOK'
<1> USE TypeParts
<1>0. StoreTypes /\ WorkerTypes /\ RestTypes /\ SpentType
  OBVIOUS
<1>1. CASE CountFails
  <2>1. WorkerTypes'
    BY <1>0, <1>1, DoneType DEF CountFails
  <2> QED BY <1>0, <1>1, <2>1, FaultType DEF CountFails, StoreTypes, RestTypes
<1>2. CASE BlockDeletion
  <2> DEFINE o == [obj EXCEPT !.phase = "Deleting"]
  <2>1. o \in Cluster
    BY <1>0, <1>2, ClusterUpdates DEF BlockDeletion, Deletes, WorkerTypes, Phases
  <2> QED BY <1>2, <2>1, EndsWithWrite DEF BlockDeletion
<1>3. CASE BeginDeletion
  <2>1. StoreTypes' /\ WorkerTypes'
    BY <1>0, <1>3, GoToType DEF BeginDeletion, Deletes, WorkerTypes, PCs
  <2> QED BY <1>0, <1>3, <2>1, FaultType DEF BeginDeletion, GoTo, RestTypes
<1>4. CASE DeleteSecret
  <2>1. at' \in 0 .. 4
    BY <1>0, <1>4 DEF DeleteSecret, WorkerTypes
  <2>2. StoreTypes' /\ WorkerTypes'
    BY <1>0, <1>4, <2>1, GoToType DEF DeleteSecret, WorkerTypes, PCs
  <2>3. secrets' \in [Kinds -> Contents \cup {None}]
    BY <1>4, DeletedType DEF DeleteSecret
  <2> QED BY <1>0, <1>4, <2>2, <2>3, FaultType DEF DeleteSecret, GoTo, RestTypes
<1>5. CASE DeleteSecretFails
  <2>1. WorkerTypes'
    BY <1>0, <1>5, DoneType DEF DeleteSecretFails
  <2>2. secrets' \in [Kinds -> Contents \cup {None}]
    BY <1>0, <1>5, DeletedType DEF DeleteSecretFails, RestTypes
  <2> QED BY <1>0, <1>5, <2>1, <2>2, FaultType
             DEF DeleteSecretFails, StoreTypes, RestTypes
<1>6. CASE RemoveFinalizer
  <2>1. Done(TRUE) \/ Done(FALSE)
    BY <1>6 DEF RemoveFinalizer
  <2>2. WorkerTypes'
    BY <1>0, <2>1, DoneType
  <2>3. StoreTypes'
    BY <1>0, <1>6 DEF RemoveFinalizer, Removed, StoreTypes
  <2>4. SpentType'
    BY <1>0, <1>6, FaultType DEF RemoveFinalizer
  <2> QED BY <1>0, <1>6, <2>2, <2>3, <2>4 DEF RemoveFinalizer, RestTypes
<1> QED BY <1>1, <1>2, <1>3, <1>4, <1>5, <1>6 DEF Teardown

\* The watch, the users and crashes.
LEMMA OthersTypes ==
    ASSUME TypeOK, Deliver \/ User \/ NodeGone \/ Crash
    PROVE  TypeOK'
<1> USE TypeParts
<1>0. StoreTypes /\ WorkerTypes /\ RestTypes /\ SpentType
  OBVIOUS
<1>1. CASE Deliver
  <2>1. (queued \/ lag = "loud") \in BOOLEAN
    OBVIOUS
  <2>2. WorkerTypes'
    BY <1>0, <1>1, <2>1 DEF Deliver, WorkerTypes
  <2> QED BY <1>0, <1>1, <2>2 DEF Deliver, StoreTypes, RestTypes, SpentType
<1>2. ASSUME NEW o \in Cluster \cup {None}, UserWrites(o), SpentType' PROVE TypeOK'
  <2>1. StoreTypes' /\ RestTypes'
    BY <1>0, <1>2 DEF UserWrites, StoreTypes, RestTypes
  <2>2. WorkerTypes'
    BY <1>0, <1>2 DEF UserWrites, WorkerTypes
  <2> QED BY <1>2, <2>1, <2>2
<1>3. CASE EditSpec
  <2>1. PICK v \in Versions : UserWrites([cluster EXCEPT !.ver = v, !.gen = @ + 1])
    BY <1>3 DEF EditSpec
  <2>2. cluster \in Cluster
    BY <1>0, <1>3 DEF EditSpec, StoreTypes
  <2>3. [cluster EXCEPT !.ver = v, !.gen = @ + 1] \in Cluster
    BY <2>2, ClusterUpdates
  <2>4. SpentType'
    BY <1>0, <1>3 DEF EditSpec, SpentType
  <2> QED BY <1>2, <2>1, <2>3, <2>4
<1>4. CASE DeleteCluster
  <2>1. cluster \in Cluster
    BY <1>0, <1>4 DEF DeleteCluster, StoreTypes
  <2>2. [cluster EXCEPT !.deleting = TRUE, !.gen = @ + 1] \in Cluster
    BY <2>1, ClusterUpdates
  <2>3. SpentType'
    BY <1>0, <1>4 DEF DeleteCluster, SpentType
  <2> QED BY <1>2, <1>4, <2>2, <2>3 DEF DeleteCluster
<1>5. CASE DeleteNode \/ NodeGone
  BY <1>0, <1>5 DEF DeleteNode, NodeGone, OtherwiseUnchanged, StoreTypes, WorkerTypes,
                    RestTypes, SpentType
<1>6. CASE Crash
  <2>1. (cluster # None) \in BOOLEAN
    OBVIOUS
  <2>2. WorkerTypes'
    BY <1>0, <1>6, <2>1, DoneType DEF Crash
  <2> QED BY <1>0, <1>6, <2>2 DEF Crash, StoreTypes, RestTypes, SpentType
<1> QED BY <1>1, <1>3, <1>4, <1>5, <1>6 DEF User

\* The types are kept by every step.
LEMMA NextTypes == TypeOK /\ [Next]_vars => TypeOK'
<1> SUFFICES ASSUME TypeOK, [Next]_vars PROVE TypeOK'
  OBVIOUS
<1>1. CASE UNCHANGED vars
  BY <1>1 DEF vars, TypeOK
<1> QED BY <1>1, ProvisionTypes, TeardownTypes, OthersTypes DEF Next, Reconcile

\* The types hold initially.
LEMMA InitTypes == Init => TypeOK
<1> SUFFICES ASSUME Init PROVE TypeOK
  OBVIOUS
<1>1. cluster \in Cluster
  <2>1. PICK v \in Versions :
          cluster = [gen |-> 1, fin |-> FALSE, deleting |-> FALSE, ver |-> v,
                     phase |-> "", obsGen |-> 0, generated |-> FALSE]
    BY DEF Init
  <2> QED BY <2>1 DEF Cluster, Phases
<1>2. /\ secrets \in [Kinds -> Contents \cup {None}]
      /\ nodes \in [Nodes -> {"live", "terminating", "gone"}]
      /\ spent \in [edits : Nat, faults : Nat, crashes : Nat]
  BY DEF Init
<1>3. cache = cluster /\ queued = TRUE /\ pc = "idle" /\ obj = None /\ fresh = FALSE
  BY DEF Init
<1>4. at = 0 /\ lastCa = 0 /\ ca = None /\ lag = "none"
  BY DEF Init
<1>5. fresh \in BOOLEAN
  BY <1>3
<1>6. queued \in BOOLEAN
  BY <1>3
<1>7. /\ (pc = "store" => ca # None)
      /\ (IF pc = "idle" THEN obj = None ELSE obj \in Cluster)
      /\ cache \in Cluster
      /\ pc \in PCs
  BY <1>1, <1>3 DEF PCs
<1>8. at \in 0 .. 4 /\ lastCa \in Nat /\ ca \in Nat \cup {None}
      /\ lag \in {"none", "quiet", "loud"}
  BY <1>4
<1> QED BY <1>1, <1>2, <1>5, <1>6, <1>7, <1>8 DEF TypeOK

\* Every variable of the cluster model keeps its type.
THEOREM TypeCorrect == Spec => []TypeOK
  BY InitTypes, NextTypes, PTL DEF Spec

-----------------------------------------------------------------------------
(* What the worker knows and what is stored                                *)

PInv == TypeOK /\ ProvisionDiscipline

\* The worker's copy is a cluster.
LEMMA WorkerCopy ==
    PInv /\ pc # "idle" => obj \in Cluster /\ obj # None
  BY NoneIsNothing DEF PInv, TypeOK

\* Outcomes of a write of o to the API server.
LEMMA WriteOutcome ==
    ASSUME NEW o, Accepted(o) \/ Refused(o)
    PROVE  \/ UNCHANGED <<cluster, lag>>
           \/ fresh /\ cluster' = o /\ lag' # "none"
  BY DEF Accepted, Refused, Write

\* What may be written: a finalizer is not dropped by it, a deletion not taken back,
\* and the condition is claimed only with all Secrets stored.
Writable(o) ==
    /\ o \in Cluster
    /\ (obj.fin => o.fin) /\ (o.deleting <=> obj.deleting)
    /\ fresh /\ o.generated /\ ~o.deleting => \A k \in Kinds : secrets[k] # None

\* Such a write keeps what does not depend on the worker.
LEMMA WriteKeeps ==
    ASSUME PInv, pc # "idle", NEW o, Writable(o), Accepted(o) \/ Refused(o),
           UNCHANGED <<cache, secrets>>
    PROVE  /\ lag' = "none" => cache' = cluster'
           /\ cache' # None /\ cluster' # None =>
                (cache'.deleting => cluster'.deleting) /\ (cache'.fin => cluster'.fin)
           /\ \A k \in Kinds : secrets'[k] # None => cluster' # None /\ cluster'.fin
           /\ ReadyMeansStored'
<1>0. CopiesTrue /\ Onwards /\ ReadyMeansStored
  BY DEF PInv, ProvisionDiscipline
<1>1. CASE UNCHANGED <<cluster, lag>>
  BY <1>0, <1>1 DEF CopiesTrue, Onwards, ReadyMeansStored
<1>2. CASE fresh /\ cluster' = o /\ lag' # "none"
  <2>1. o # None
    BY NoneIsNothing DEF Writable
  <2>2. cluster # None /\ (obj.fin <=> cluster.fin) /\ (obj.deleting <=> cluster.deleting)
    BY <1>0, <1>2 DEF CopiesTrue
  <2>3. (cluster.fin => o.fin) /\ (o.deleting <=> cluster.deleting)
    BY <2>2 DEF Writable
  <2>4. ReadyMeansStored'
    BY <1>2 DEF ReadyMeansStored, Writable
  <2> QED BY <1>0, <1>2, <2>1, <2>2, <2>3, <2>4 DEF Onwards
<1> QED BY <1>1, <1>2, WriteOutcome

\* A reconcile that ends with such a write, or with none.
LEMMA EndKeeps ==
    ASSUME PInv, pc # "idle", NEW o, Writable(o), Accepted(o) \/ Refused(o),
           NEW again, Done(again), UNCHANGED <<cache, secrets>>
    PROVE  ProvisionDiscipline'
<1>1. pc' = "idle" /\ obj' = None /\ fresh' = FALSE /\ at' = 0
  BY DEF Done
<1>2. CopiesTrue'
  BY <1>1, WriteKeeps DEF CopiesTrue
<1>3. Onwards'
  BY <1>1, WriteKeeps DEF Onwards
<1>4. Counted'
  BY <1>1 DEF Counted
<1> QED BY <1>2, <1>3, <1>4, WriteKeeps DEF ProvisionDiscipline

\* A status that provision could not write.
LEMMA UnsavedKeeps ==
    ASSUME PInv, pc # "idle", NEW o, Writable(o), o.fin => obj.fin, Unsaved(o),
           UNCHANGED <<cache, secrets>>
    PROVE  ProvisionDiscipline'
<1>0. CopiesTrue /\ Onwards /\ obj # None
  BY WorkerCopy DEF PInv, ProvisionDiscipline
<1>1. pc' = "setError" /\ obj' = o /\ (fresh' => fresh /\ cluster' = cluster)
  BY DEF Unsaved
<1>2. Refused(o)
  BY DEF Unsaved
<1>3. CopiesTrue'
  BY <1>0, <1>1, <1>2, WriteKeeps DEF CopiesTrue, Writable
<1>4. Onwards'
  <2>1. o # None /\ (o.fin <=> obj.fin) /\ (o.deleting <=> obj.deleting)
    BY NoneIsNothing DEF Writable
  <2>2. cluster # None => (obj.deleting => cluster.deleting) /\ (obj.fin => cluster.fin)
    BY <1>0 DEF Onwards
  <2>3. cluster' = cluster \/ cluster' = o
    BY <1>2, WriteOutcome
  <2>4. cluster' # None => (o.deleting => cluster'.deleting) /\ (o.fin => cluster'.fin)
    BY <2>1, <2>2, <2>3
  <2> QED BY <1>1, <1>2, <2>4, WriteKeeps DEF Onwards
<1>5. Counted'
  BY <1>1 DEF Counted, Writable
<1> QED BY <1>2, <1>3, <1>4, <1>5, WriteKeeps DEF ProvisionDiscipline

\* A step after which the worker has the same copy of the same cluster.
LEMMA GoToKeeps ==
    ASSUME PInv, pc # "idle", NEW next \in {"store", "delete"}, pc # "setError",
           GoTo(next),
           next = "store" => pc \in {"load", "store"},
           next = "delete" => obj.deleting /\ ~Guarded,
           \A k \in Kinds : secrets'[k] # None => cluster # None /\ cluster.fin,
           (\A k \in Kinds : secrets[k] # None => secrets'[k] # None)
             \/ (obj.deleting /\ pc = "delete"),
           next = "store" => \A i \in 1 .. at' : secrets'[Stored[i]] # None,
           next = "delete" => \A i \in 1 .. at' : secrets'[Stored[i]] = None
    PROVE  ProvisionDiscipline'
<1>0. CopiesTrue /\ Onwards /\ Counted /\ ReadyMeansStored
  BY DEF PInv, ProvisionDiscipline
<1>1. pc' = next /\ UNCHANGED <<cluster, cache, lag, obj, fresh, nodes>>
  BY DEF GoTo
<1>2. CopiesTrue'
  BY <1>0, <1>1 DEF CopiesTrue
<1>3. Guarded' <=> Guarded
  BY <1>1 DEF Guarded
<1>4. Onwards'
  BY <1>0, <1>1, <1>3 DEF Onwards
<1>5. obj.deleting => cluster = None \/ cluster.deleting
  BY <1>0, WorkerCopy DEF Onwards
<1>6. Counted'
  BY <1>0, <1>1 DEF Counted
<1>7. ReadyMeansStored'
  BY <1>0, <1>1, <1>5 DEF ReadyMeansStored
<1> QED BY <1>2, <1>4, <1>6, <1>7 DEF ProvisionDiscipline

\* provision calls setError; the Secrets may be more than before.
LEMMA FailKeeps ==
    ASSUME PInv, pc \in {"load", "store"}, GoTo("setError"),
           \A k \in Kinds : secrets[k] # None => secrets'[k] # None
    PROVE  ProvisionDiscipline'
<1>0. CopiesTrue /\ Onwards /\ Counted /\ ReadyMeansStored
  BY DEF PInv, ProvisionDiscipline
<1>1. pc' = "setError" /\ UNCHANGED <<cluster, cache, lag, obj, fresh, nodes>>
  BY DEF GoTo
<1>2. CopiesTrue'
  BY <1>0, <1>1 DEF CopiesTrue
<1>3. Onwards'
  BY <1>0, <1>1 DEF Onwards
<1>4. Counted'
  BY <1>0, <1>1 DEF Counted
<1>5. ReadyMeansStored'
  BY <1>0, <1>1 DEF ReadyMeansStored
<1> QED BY <1>2, <1>3, <1>4, <1>5 DEF ProvisionDiscipline

\* The start of Reconcile.
LEMMA GetKeeps == PInv /\ Get => ProvisionDiscipline'
<1> SUFFICES ASSUME PInv, Get PROVE ProvisionDiscipline'
  OBVIOUS
<1>0. CopiesTrue /\ Onwards /\ Counted /\ ReadyMeansStored
  BY DEF PInv, ProvisionDiscipline
<1>1. pc = "idle" /\ fresh \in BOOLEAN /\ UNCHANGED <<cluster, cache, lag, at, secrets, nodes>>
  BY DEF Get, PInv, TypeOK
<1>2. CASE UNCHANGED <<pc, obj, fresh>>
  <2>1. CopiesTrue' /\ Counted' /\ ReadyMeansStored'
    BY <1>0, <1>1, <1>2 DEF CopiesTrue, Counted, ReadyMeansStored
  <2>2. Onwards'
    BY <1>0, <1>1, <1>2 DEF Onwards
  <2> QED BY <2>1, <2>2 DEF ProvisionDiscipline
<1>3. CASE cache # None /\ pc' = "start" /\ obj' = cache /\ fresh' = (lag = "none")
  <2>0. fresh' => cluster = cache
    BY <1>0, <1>3 DEF CopiesTrue
  <2>1. CopiesTrue'
    BY <1>0, <1>1, <1>3, <2>0 DEF CopiesTrue
  <2>2. Onwards'
    BY <1>0, <1>1, <1>3 DEF Onwards
  <2>3. Counted'
    BY <1>0, <1>1, <1>3, <2>0 DEF Counted, ReadyMeansStored
  <2>4. ReadyMeansStored'
    BY <1>0, <1>1 DEF ReadyMeansStored
  <2> QED BY <2>1, <2>2, <2>3, <2>4 DEF ProvisionDiscipline
<1> QED BY <1>2, <1>3 DEF Get

\* The finalizer is added before anything else.
LEMMA AddKeeps == PInv /\ AddFinalizer => ProvisionDiscipline'
<1> SUFFICES ASSUME PInv, AddFinalizer PROVE ProvisionDiscipline'
  OBVIOUS
<1> DEFINE o == [obj EXCEPT !.fin = TRUE]
<1>0. /\ CopiesTrue /\ Counted /\ pc = "start" /\ obj \in Cluster
      /\ UNCHANGED <<cache, secrets, nodes>>
  BY WorkerCopy DEF PInv, ProvisionDiscipline, AddFinalizer
<1>1. o \in Cluster /\ o.fin /\ (o.deleting <=> obj.deleting) /\ (o.generated <=> obj.generated)
  <2>1. o.fin /\ o.deleting = obj.deleting /\ o.generated = obj.generated
    BY <1>0 DEF Cluster
  <2> HIDE DEF o
  <2>2. (o.deleting <=> obj.deleting) /\ (o.generated <=> obj.generated)
    BY <2>1
  <2> QED BY <1>0, <2>1, <2>2, ClusterUpdates DEF o
<1>2. CASE Refused(o) /\ Done(TRUE)
  <2> HIDE DEF o
  <2>1. Writable(o)
    BY <1>0, <1>1 DEF Writable, Counted
  <2> QED BY <1>0, <1>2, <2>1, EndKeeps
<1>3. CASE Accepted(o) /\ obj' = o /\ UNCHANGED <<queued, pc, fresh, ca, at>>
  <2> HIDE DEF o
  <2>1. Writable(o)
    BY <1>0, <1>1 DEF Writable, Counted
  <2>2. cluster' = o /\ o # None /\ fresh
    BY <1>1, <1>3, NoneIsNothing DEF Accepted, Write
  <2>3. CopiesTrue'
    BY <1>0, <1>3, <2>1, <2>2, WriteKeeps DEF CopiesTrue
  <2>4. Onwards'
    BY <1>0, <1>3, <2>1, <2>2, WriteKeeps DEF Onwards
  <2>5. Counted'
    BY <1>0, <1>1, <1>3, <2>2 DEF Counted
  <2> QED BY <1>0, <1>3, <2>1, <2>3, <2>4, <2>5, WriteKeeps DEF ProvisionDiscipline
<1> QED BY <1>2, <1>3 DEF AddFinalizer

\* Phase Provisioning.
LEMMA BeginKeeps == PInv /\ BeginProvision => ProvisionDiscipline'
<1> SUFFICES ASSUME PInv, BeginProvision PROVE ProvisionDiscipline'
  OBVIOUS
<1> DEFINE o == Provisioning(obj)
<1>0. /\ CopiesTrue /\ Counted /\ pc = "start" /\ obj \in Cluster
      /\ obj.fin /\ ~obj.deleting
      /\ UNCHANGED <<cache, secrets, nodes>>
  BY WorkerCopy DEF PInv, ProvisionDiscipline, BeginProvision
<1>1. o \in Cluster /\ o.fin /\ ~o.deleting /\ ~o.generated
  BY <1>0, ClusterUpdates, FieldsWritten
<1>4. Unsaved(o) \/ (Accepted(o) /\ obj' = o /\ pc' = "load" /\ UNCHANGED <<fresh, at>>)
  BY DEF BeginProvision
<1> HIDE DEF o
<1>5. Writable(o)
  BY <1>0, <1>1 DEF Writable
<1>2. CASE Unsaved(o)
  BY <1>0, <1>2, <1>5, UnsavedKeeps
<1>3. CASE Accepted(o) /\ obj' = o /\ pc' = "load" /\ UNCHANGED <<fresh, at>>
  <2>2. cluster' = o /\ o # None /\ fresh
    BY <1>1, <1>3, NoneIsNothing DEF Accepted, Write
  <2>3. CopiesTrue'
    BY <1>0, <1>3, <1>5, <2>2, WriteKeeps DEF CopiesTrue
  <2>4. Onwards'
    BY <1>0, <1>1, <1>3, <1>5, <2>2, WriteKeeps DEF Onwards
  <2>5. Counted'
    BY <1>0, <1>1, <1>3, <2>2 DEF Counted
  <2> QED BY <1>0, <1>3, <1>5, <2>3, <2>4, <2>5, WriteKeeps DEF ProvisionDiscipline
<1> QED BY <1>2, <1>3, <1>4

\* Create leaves no Secret missing that was there.
LEMMA CreatedIsThere ==
    ASSUME PInv, pc = "store", at < 4
    PROVE  /\ Created(Kind)[Kind] # None
           /\ \A k \in Kinds : secrets[k] # None => Created(Kind)[k] # None
           /\ at \in 0 .. 3 /\ Kind = Stored[at + 1]
<1>1. Content # None /\ Kind \in Kinds
  BY ContentType, NoneIsNothing DEF PInv
<1>2. secrets \in [Kinds -> Contents \cup {None}] /\ at \in 0 .. 3
  BY DEF PInv, TypeOK
<1> QED BY <1>1, <1>2 DEF Created, Kind

\* The bundle and the Secrets.
LEMMA StoreKeeps ==
    ASSUME PInv, LoadBundle \/ GenBundle \/ GenBundleFails \/ Store \/ StoreFails
    PROVE  ProvisionDiscipline'
<1>0. Onwards /\ Counted /\ secrets \in [Kinds -> Contents \cup {None}]
  BY DEF PInv, ProvisionDiscipline, TypeOK
<1>1. CASE LoadBundle \/ GenBundle
  <2>1. pc = "load" /\ GoTo("store") /\ UNCHANGED <<at, secrets>>
    BY <1>1 DEF LoadBundle, GenBundle, NoBundle
  <2>2. at = 0
    BY <1>0, <2>1 DEF Counted
  <2> QED BY <1>0, <2>1, <2>2, GoToKeeps DEF Onwards, PCs
<1>2. CASE GenBundleFails
  BY <1>2, FailKeeps DEF GenBundleFails, NoBundle
<1>3. CASE Store
  <2>1. pc = "store" /\ at < 4 /\ GoTo("store") /\ secrets' = Created(Kind) /\ at' = at + 1
    BY <1>3 DEF Store
  <2>2. cluster # None /\ cluster.fin
    BY <1>0, <2>1 DEF Onwards
  <2>3. \A i \in 1 .. at' : secrets'[Stored[i]] # None
    <3> SUFFICES ASSUME NEW i \in 1 .. at' PROVE secrets'[Stored[i]] # None
      OBVIOUS
    <3>1. i = at + 1 \/ i \in 1 .. at
      BY <2>1, CreatedIsThere
    <3>2. i \in 1 .. 4
      BY <2>1, CreatedIsThere
    <3> QED BY <1>0, <2>1, <3>1, <3>2, CreatedIsThere, KindFacts DEF Counted
  <2> QED BY <2>1, <2>2, <2>3, CreatedIsThere, GoToKeeps DEF PCs
<1>4. CASE StoreFails
  <2>1. \A k \in Kinds : secrets[k] # None => secrets'[k] # None
    BY <1>4, CreatedIsThere DEF StoreFails
  <2> QED BY <1>4, <2>1, FailKeeps DEF StoreFails
<1> QED BY <1>1, <1>2, <1>3, <1>4

\* The end of provision.
LEMMA ReadyKeeps == PInv /\ (SaveReady \/ SetError) => ProvisionDiscipline'
<1> SUFFICES ASSUME PInv, SaveReady \/ SetError PROVE ProvisionDiscipline'
  OBVIOUS
<1>0. /\ Counted /\ obj \in Cluster /\ pc # "idle"
      /\ UNCHANGED <<cache, secrets, nodes>>
  BY WorkerCopy DEF PInv, ProvisionDiscipline, SaveReady, SetError
<1>1. CASE SaveReady
  <2> DEFINE o == Provisioned(obj)
  <2>1. o \in Cluster /\ o.fin = obj.fin /\ o.deleting = obj.deleting
    BY <1>0, ClusterUpdates, FieldsWritten
  <2>2. Unsaved(o) \/ (Accepted(o) /\ Done(FALSE))
    BY <1>1 DEF SaveReady
  <2>3. \A k \in Kinds : secrets[k] # None
    BY <1>0, <1>1, KindFacts DEF SaveReady, Counted
  <2> HIDE DEF o
  <2>4. Writable(o) /\ (o.fin => obj.fin)
    BY <1>0, <2>1, <2>3 DEF Writable
  <2> QED BY <1>0, <2>2, <2>4, EndKeeps, UnsavedKeeps
<1>2. CASE SetError
  <2> DEFINE o == [obj EXCEPT !.phase = "Error"]
  <2>1. o \in Cluster
    BY <1>0, ClusterUpdates DEF Phases
  <2>2. o.fin = obj.fin /\ o.deleting = obj.deleting /\ o.generated = obj.generated
    BY <1>0 DEF Cluster
  <2>3. (Accepted(o) \/ Refused(o)) /\ Done(TRUE)
    BY <1>2 DEF SetError
  <2> HIDE DEF o
  <2>4. Writable(o)
    BY <1>0, <2>1, <2>2 DEF Writable, Counted
  <2> QED BY <1>0, <2>3, <2>4, EndKeeps
<1> QED BY <1>1, <1>2

\* A reconcile that ends without a write.
LEMMA ReturnKeeps ==
    ASSUME PInv, pc # "idle", NEW again, Done(again), UNCHANGED <<cluster, cache, lag>>,
           \A k \in Kinds : secrets'[k] # None => secrets[k] # None,
           (\A k \in Kinds : secrets[k] # None => secrets'[k] # None) \/ obj.deleting
    PROVE  ProvisionDiscipline'
<1>0. CopiesTrue /\ Onwards /\ ReadyMeansStored
  BY DEF PInv, ProvisionDiscipline
<1>1. pc' = "idle" /\ obj' = None /\ fresh' = FALSE /\ at' = 0
  BY DEF Done
<1>2. CopiesTrue'
  BY <1>0, <1>1 DEF CopiesTrue
<1>3. Onwards'
  BY <1>0, <1>1 DEF Onwards
<1>4. Counted'
  BY <1>1 DEF Counted
<1>5. obj.deleting => cluster = None \/ cluster.deleting
  BY <1>0, WorkerCopy DEF Onwards
<1>6. ReadyMeansStored'
  BY <1>0, <1>5 DEF ReadyMeansStored
<1> QED BY <1>2, <1>3, <1>4, <1>6 DEF ProvisionDiscipline

\* Delete leaves no Secret where there was none.
LEMMA DeletedIsGone ==
    ASSUME PInv, pc = "delete", at < 4
    PROVE  /\ Deleted(Kind)[Kind] = None
           /\ \A k \in Kinds : Deleted(Kind)[k] # None => secrets[k] # None
           /\ at \in 0 .. 3 /\ Kind = Stored[at + 1]
<1>1. secrets \in [Kinds -> Contents \cup {None}] /\ at \in 0 .. 3
  BY DEF PInv, TypeOK
<1>2. Kind \in Kinds
  BY <1>1, KindFacts DEF Kind
<1> QED BY <1>1, <1>2 DEF Deleted, Kind

\* The steps of the deletion.
LEMMA TeardownKeeps == PInv /\ Teardown => ProvisionDiscipline'
<1> SUFFICES ASSUME PInv, Teardown PROVE ProvisionDiscipline'
  OBVIOUS
<1>0. /\ CopiesTrue /\ Onwards /\ Counted /\ ReadyMeansStored
      /\ secrets \in [Kinds -> Contents \cup {None}]
  BY DEF PInv, ProvisionDiscipline, TypeOK
<1>1. CASE CountFails
  BY <1>1, ReturnKeeps DEF CountFails, Deletes
<1>2. CASE BlockDeletion
  <2> DEFINE o == [obj EXCEPT !.phase = "Deleting"]
  <2>0. obj \in Cluster /\ obj.deleting /\ pc # "idle" /\ UNCHANGED <<cache, secrets>>
    BY <1>2, WorkerCopy DEF BlockDeletion, Deletes
  <2>1. o \in Cluster
    BY <2>0, ClusterUpdates DEF Phases
  <2>2. o.fin = obj.fin /\ o.deleting = obj.deleting
    BY <2>0 DEF Cluster
  <2>3. (Accepted(o) \/ Refused(o)) /\ Done(TRUE)
    BY <1>2 DEF BlockDeletion
  <2> HIDE DEF o
  <2>4. Writable(o)
    BY <2>0, <2>1, <2>2 DEF Writable
  <2> QED BY <2>0, <2>3, <2>4, EndKeeps
<1>3. CASE BeginDeletion
  <2>1. pc = "start" /\ obj.deleting /\ ~Guarded /\ GoTo("delete") /\ UNCHANGED <<at, secrets>>
    BY <1>3 DEF BeginDeletion, Deletes
  <2>2. at = 0
    BY <1>0, <2>1 DEF Counted
  <2> QED BY <1>0, <2>1, <2>2, GoToKeeps DEF Onwards
<1>4. CASE DeleteSecret
  <2>1. pc = "delete" /\ at < 4 /\ GoTo("delete") /\ secrets' = Deleted(Kind) /\ at' = at + 1
    BY <1>4 DEF DeleteSecret
  <2>2. obj.deleting /\ ~Guarded
    BY <1>0, <2>1 DEF Onwards
  <2>3. \A i \in 1 .. at' : secrets'[Stored[i]] = None
    <3> SUFFICES ASSUME NEW i \in 1 .. at' PROVE secrets'[Stored[i]] = None
      OBVIOUS
    <3>1. i = at + 1 \/ i \in 1 .. at
      BY <2>1, DeletedIsGone
    <3>2. i \in 1 .. 4
      BY <2>1, DeletedIsGone
    <3> QED BY <1>0, <2>1, <3>1, <3>2, DeletedIsGone, KindFacts DEF Counted
  <2>4. \A k \in Kinds : secrets'[k] # None => cluster # None /\ cluster.fin
    BY <1>0, <2>1, DeletedIsGone DEF Onwards
  <2> QED BY <2>1, <2>2, <2>3, <2>4, GoToKeeps
<1>5. CASE DeleteSecretFails
  <2>1. pc = "delete" /\ at < 4 /\ UNCHANGED <<cluster, cache, lag>> /\ Done(TRUE)
    BY <1>5 DEF DeleteSecretFails
  <2>2. obj.deleting
    BY <1>0, <2>1 DEF Onwards
  <2>3. \A k \in Kinds : secrets'[k] # None => secrets[k] # None
    BY <1>5, <2>1, DeletedIsGone DEF DeleteSecretFails
  <2> QED BY <2>1, <2>2, <2>3, ReturnKeeps
<1>6. CASE RemoveFinalizer
  <2>0. /\ pc = "delete" /\ at = 4 /\ UNCHANGED <<cache, secrets>>
        /\ Done(TRUE) \/ Done(FALSE)
    BY <1>6 DEF RemoveFinalizer
  <2>1. CASE UNCHANGED <<cluster, lag>>
    BY <2>0, <2>1, ReturnKeeps
  <2>2. CASE Removed
    <3>1. pc' = "idle" /\ obj' = None /\ fresh' = FALSE /\ at' = 0
      BY <2>0 DEF Done
    <3>2. \A k \in Kinds : secrets[k] = None
      BY <1>0, <2>0, KindFacts DEF Counted
    <3>3. CopiesTrue' /\ Counted' /\ ReadyMeansStored'
      BY <2>2, <3>1 DEF CopiesTrue, Counted, ReadyMeansStored, Removed
    <3>4. Onwards'
      BY <2>0, <2>2, <3>1, <3>2 DEF Onwards, Removed
    <3> QED BY <3>3, <3>4 DEF ProvisionDiscipline
  <2> QED BY <1>6, <2>1, <2>2 DEF RemoveFinalizer
<1> QED BY <1>1, <1>2, <1>3, <1>4, <1>5, <1>6 DEF Teardown

\* A user's write to the cluster.
LEMMA UserWriteKeeps ==
    ASSUME PInv, NEW o \in Cluster \cup {None}, UserWrites(o), cluster # None,
           o = None => ~cluster.fin,
           o # None => /\ (o.fin <=> cluster.fin) /\ (cluster.deleting => o.deleting)
                       /\ (o.generated <=> cluster.generated)
    PROVE  ProvisionDiscipline'
<1>0. CopiesTrue /\ Onwards /\ Counted /\ ReadyMeansStored
  BY DEF PInv, ProvisionDiscipline
<1>1. /\ cluster' = o /\ lag' = "loud" /\ fresh' = FALSE
      /\ UNCHANGED <<cache, pc, obj, at, secrets, nodes>>
  BY DEF UserWrites
<1>2. CopiesTrue'
  BY <1>1 DEF CopiesTrue
<1>3. Guarded' <=> Guarded
  BY <1>1 DEF Guarded
<1>4. Onwards'
  <2>1. \A x \in {cache', obj'} : x # None /\ cluster' # None =>
          (x.deleting => cluster'.deleting) /\ (x.fin => cluster'.fin)
    BY <1>0, <1>1 DEF Onwards
  <2>2. pc' \in {"load", "store"} => cluster' # None /\ cluster'.fin
    BY <1>0, <1>1 DEF Onwards
  <2>3. \A k \in Kinds : secrets'[k] # None => cluster' # None /\ cluster'.fin
    BY <1>0, <1>1 DEF Onwards
  <2>4. pc' = "delete" => obj'.deleting /\ ~Guarded'
    BY <1>0, <1>1, <1>3 DEF Onwards
  <2> QED BY <2>1, <2>2, <2>3, <2>4 DEF Onwards
<1>5. Counted'
  BY <1>0, <1>1 DEF Counted
<1>6. ReadyMeansStored'
  BY <1>0, <1>1 DEF ReadyMeansStored
<1> QED BY <1>2, <1>4, <1>5, <1>6 DEF ProvisionDiscipline

\* The watch, the users and crashes.
LEMMA OthersKeep == PInv /\ (Deliver \/ User \/ NodeGone \/ Crash) => ProvisionDiscipline'
<1> SUFFICES ASSUME PInv, Deliver \/ User \/ NodeGone \/ Crash PROVE ProvisionDiscipline'
  OBVIOUS
<1>0. CopiesTrue /\ Onwards /\ Counted /\ ReadyMeansStored
  BY DEF PInv, ProvisionDiscipline
<1>1. CASE Deliver
  <2>0. /\ cache' = cluster /\ UNCHANGED <<cluster, pc, obj, fresh, at, secrets, nodes>>
    BY <1>1 DEF Deliver
  <2>1. CopiesTrue' /\ Counted' /\ ReadyMeansStored'
    BY <1>0, <2>0 DEF CopiesTrue, Counted, ReadyMeansStored
  <2>2. Guarded' <=> Guarded
    BY <2>0 DEF Guarded
  <2>3. Onwards'
    BY <1>0, <2>0, <2>2 DEF Onwards
  <2> QED BY <2>1, <2>3 DEF ProvisionDiscipline
<1>2. CASE EditSpec
  <2>1. PICK v \in Versions : UserWrites([cluster EXCEPT !.ver = v, !.gen = @ + 1])
    BY <1>2 DEF EditSpec
  <2> DEFINE o == [cluster EXCEPT !.ver = v, !.gen = @ + 1]
  <2>2. cluster \in Cluster /\ cluster # None
    BY <1>2 DEF EditSpec, PInv, TypeOK
  <2>3. o \in Cluster
    BY <2>2, ClusterUpdates
  <2>4. o.fin = cluster.fin /\ o.deleting = cluster.deleting /\ o.generated = cluster.generated
    BY <2>2 DEF Cluster
  <2> HIDE DEF o
  <2>5. UserWrites(o) /\ o # None
    BY <2>1, <2>3, NoneIsNothing DEF o
  <2> QED BY <2>2, <2>3, <2>4, <2>5, UserWriteKeeps
<1>3. CASE DeleteCluster
  <2> DEFINE o == [cluster EXCEPT !.deleting = TRUE, !.gen = @ + 1]
  <2>2. cluster \in Cluster /\ cluster # None
    BY <1>3 DEF DeleteCluster, PInv, TypeOK
  <2>3. o \in Cluster
    BY <2>2, ClusterUpdates
  <2>4. o.fin = cluster.fin /\ o.deleting /\ o.generated = cluster.generated
    BY <2>2 DEF Cluster
  <2>5. UserWrites(IF cluster.fin THEN o ELSE None)
    BY <1>3 DEF DeleteCluster
  <2> HIDE DEF o
  <2>6. o # None
    BY <2>3, NoneIsNothing
  <2>7. CASE cluster.fin
    BY <2>2, <2>3, <2>4, <2>5, <2>6, <2>7, UserWriteKeeps
  <2>8. CASE ~cluster.fin
    BY <2>2, <2>5, <2>8, UserWriteKeeps
  <2> QED BY <2>7, <2>8
<1>4. CASE DeleteNode \/ NodeGone
  <2>0. /\ UNCHANGED <<cluster, cache, lag, pc, obj, fresh, at, secrets>>
        /\ Guarded' => Guarded
    BY <1>4 DEF DeleteNode, NodeGone, OtherwiseUnchanged, Guarded, PInv, TypeOK
  <2>1. CopiesTrue' /\ Counted' /\ ReadyMeansStored'
    BY <1>0, <2>0 DEF CopiesTrue, Counted, ReadyMeansStored
  <2>3. Onwards'
    BY <1>0, <2>0 DEF Onwards
  <2> QED BY <2>1, <2>3 DEF ProvisionDiscipline
<1>5. CASE Crash
  <2>0. /\ UNCHANGED <<cluster, secrets, nodes>> /\ cache' = cluster
        /\ pc' = "idle" /\ obj' = None /\ fresh' = FALSE /\ at' = 0
    BY <1>5 DEF Crash, Done
  <2>1. CopiesTrue' /\ Counted' /\ ReadyMeansStored'
    BY <1>0, <2>0 DEF CopiesTrue, Counted, ReadyMeansStored
  <2>3. Onwards'
    BY <1>0, <2>0 DEF Onwards
  <2> QED BY <2>1, <2>3 DEF ProvisionDiscipline
<1> QED BY <1>1, <1>2, <1>3, <1>4, <1>5 DEF User

\* Initially nothing is stored.
LEMMA InitDiscipline == Init => PInv
<1> SUFFICES ASSUME Init PROVE PInv
  OBVIOUS
<1>1. /\ cache = cluster /\ pc = "idle" /\ obj = None /\ fresh = FALSE /\ at = 0
      /\ \A k \in Kinds : secrets[k] = None
  BY DEF Init
<1>2. ~cluster.generated
  <2>1. PICK v \in Versions :
          cluster = [gen |-> 1, fin |-> FALSE, deleting |-> FALSE, ver |-> v,
                     phase |-> "", obsGen |-> 0, generated |-> FALSE]
    BY DEF Init
  <2>2. cluster.generated = FALSE
    BY <2>1
  <2> QED BY <2>2
<1>3. CopiesTrue /\ Onwards
  BY <1>1 DEF CopiesTrue, Onwards
<1>4. Counted /\ ReadyMeansStored
  BY <1>1, <1>2 DEF Counted, ReadyMeansStored
<1> QED BY <1>3, <1>4, InitTypes DEF PInv, ProvisionDiscipline

\* Every step keeps the invariant.
LEMMA NextDiscipline == PInv /\ [Next]_vars => PInv'
<1> SUFFICES ASSUME PInv, [Next]_vars PROVE PInv'
  OBVIOUS
<1>1. TypeOK'
  BY NextTypes DEF PInv
<1>2. CASE Next
  <2>1. ProvisionDiscipline'
    BY <1>2, GetKeeps, AddKeeps, BeginKeeps, StoreKeeps, ReadyKeeps, TeardownKeeps, OthersKeep
       DEF Next, Reconcile, Provision
  <2> QED BY <1>1, <2>1 DEF PInv
<1>3. CASE UNCHANGED vars
  <2>1. CopiesTrue' /\ Counted' /\ ReadyMeansStored'
    BY <1>3 DEF PInv, ProvisionDiscipline, CopiesTrue, Counted, ReadyMeansStored, vars
  <2>2. Onwards'
    BY <1>3 DEF PInv, ProvisionDiscipline, Onwards, Guarded, vars
  <2> QED BY <1>1, <2>1, <2>2 DEF PInv, ProvisionDiscipline
<1> QED BY <1>2, <1>3

\* The inductive invariant of provisioning and teardown: a write that is accepted was
\* made from the latest copy, and the Secrets that the worker counted are there, or gone.
THEOREM DisciplineHolds == Spec => []ProvisionDiscipline
<1>1. PInv => ProvisionDiscipline
  BY DEF PInv
<1> QED BY InitDiscipline, NextDiscipline, <1>1, PTL DEF Spec

\* ConfigsGenerated is claimed only while all four Secrets exist.
THEOREM ReadyIsStored == Spec => []ReadyMeansStored
<1>1. ProvisionDiscipline => ReadyMeansStored
  BY DEF ProvisionDiscipline
<1> QED BY DisciplineHolds, <1>1, PTL

\* The cluster leaves with its Secrets.
THEOREM NothingIsLeft == Spec => []NothingLeft
<1>1. ProvisionDiscipline => NothingLeft
  BY DEF ProvisionDiscipline, Onwards, NothingLeft
<1> QED BY DisciplineHolds, <1>1, PTL

-----------------------------------------------------------------------------
(* What a step may do to the Secrets                                       *)

\* Secrets are stored one by one while the worker is at it, and deleted only once no
\* live node was left.
LEMMA SecretsChange ==
    ASSUME PInv, [Next]_vars
    PROVE  \/ UNCHANGED secrets
           \/ pc = "store" /\ at < 4 /\ secrets' = Created(Kind)
           \/ pc = "delete" /\ at < 4 /\ secrets' = Deleted(Kind)
  BY DEF Next, Reconcile, Get, AddFinalizer, Provision, BeginProvision, LoadBundle,
         GenBundle, GenBundleFails, Store, StoreFails, SaveReady, SetError, Teardown,
         CountFails, BlockDeletion, BeginDeletion, DeleteSecret, DeleteSecretFails,
         RemoveFinalizer, Deliver, User, EditSpec, DeleteCluster, DeleteNode, UserWrites,
         NodeGone, Crash, OtherwiseUnchanged, vars

-----------------------------------------------------------------------------
(* What the other controllers rely on                                      *)

\* A teardown is not forgotten: the copy that a later reconcile starts from shows
\* the deletion as soon as one reconcile has seen it.
Forward ==
    /\ cache = None => cluster = None
    /\ obj # None /\ obj.deleting => cache = None \/ cache.deleting
    /\ pc \in {"load", "store"} => ~obj.deleting

FInv == PInv /\ Forward

\* No write of the worker revokes or makes up a deletion; a reconcile starts from
\* the cache.
LEMMA CopyChanges ==
    ASSUME PInv, [Next]_vars
    PROVE  /\ cache' = cache \/ cache' = cluster
           /\ \/ obj' = None
              \/ obj # None /\ obj' # None /\ (obj'.deleting <=> obj.deleting)
              \/ cache # None /\ obj' = cache /\ pc' = "start" /\ cache' = cache
           /\ pc' \in {"load", "store"} =>
                \/ UNCHANGED obj /\ pc \in {"load", "store"}
                \/ obj' # None /\ ~obj'.deleting
<1>1. pc # "idle" => obj \in Cluster /\ obj # None
  BY WorkerCopy
<1>2. CASE AddFinalizer
  <2>1. obj \in Cluster /\ pc = "start" /\ cache' = cache
    BY <1>1, <1>2 DEF AddFinalizer
  <2>2. [obj EXCEPT !.fin = TRUE].deleting = obj.deleting /\ [obj EXCEPT !.fin = TRUE] # None
    BY <2>1, FieldsWritten, ClusterUpdates, NoneIsNothing
  <2>3. \/ obj' = None /\ pc' = "idle"
        \/ obj' = [obj EXCEPT !.fin = TRUE] /\ pc' = "start"
    BY <1>2, <2>1 DEF AddFinalizer, Done
  <2> QED BY <1>1, <2>1, <2>2, <2>3
<1>3. CASE BeginProvision
  <2>1. obj \in Cluster /\ pc = "start" /\ cache' = cache /\ ~obj.deleting
    BY <1>1, <1>3 DEF BeginProvision
  <2>2. ~Provisioning(obj).deleting /\ Provisioning(obj) # None
    BY <2>1, FieldsWritten, ClusterUpdates, NoneIsNothing
  <2>3. obj' = Provisioning(obj)
    BY <1>3 DEF BeginProvision, Unsaved
  <2> QED BY <1>1, <2>1, <2>2, <2>3
<1>4. CASE SaveReady
  <2>1. obj \in Cluster /\ pc = "store" /\ cache' = cache
    BY <1>1, <1>4 DEF SaveReady
  <2>2. Provisioned(obj).deleting = obj.deleting /\ Provisioned(obj) # None
    BY <2>1, FieldsWritten, ClusterUpdates, NoneIsNothing
  <2>3. \/ obj' = None /\ pc' = "idle"
        \/ obj' = Provisioned(obj) /\ pc' = "setError"
    BY <1>4 DEF SaveReady, Unsaved, Done
  <2> QED BY <1>1, <2>1, <2>2, <2>3
<1>5. CASE LoadBundle \/ GenBundle \/ GenBundleFails \/ Store \/ StoreFails
  BY <1>1, <1>5 DEF LoadBundle, NoBundle, GenBundle, GenBundleFails, Store, StoreFails, GoTo
<1>6. CASE SetError \/ Teardown
  BY <1>1, <1>6 DEF SetError, Teardown, CountFails, BlockDeletion, BeginDeletion,
     Deletes, DeleteSecret, DeleteSecretFails, RemoveFinalizer, GoTo, Done
<1>7. CASE Get
  BY <1>7 DEF Get
<1>8. CASE Deliver \/ User \/ NodeGone \/ Crash \/ UNCHANGED vars
  BY <1>1, <1>8 DEF Deliver, User, EditSpec, DeleteCluster, DeleteNode, UserWrites, NodeGone,
     Crash, Done, OtherwiseUnchanged, vars, PInv, TypeOK
<1> QED BY <1>2, <1>3, <1>4, <1>5, <1>6, <1>7, <1>8 DEF Next, Reconcile, Provision

\* A removed cluster stays removed, and what a Secret is removed under.
LEMMA ClusterGoes ==
    ASSUME PInv, [Next]_vars
    PROVE  /\ cluster = None => cluster' = None
           /\ cluster' = None /\ cluster # None =>
                 /\ UNCHANGED nodes
                 /\ \/ UNCHANGED <<cache, obj>>
                    \/ pc = "delete" /\ obj' = None /\ cache' = cache
           /\ nodes' # nodes => UNCHANGED <<cluster, cache, obj, secrets>>
<1>1. fresh => cluster # None
  BY DEF PInv, ProvisionDiscipline, CopiesTrue
<1>2. ASSUME NEW o \in Cluster, pc # "idle", Accepted(o) \/ Refused(o)
      PROVE  (cluster = None => cluster' = None) /\ (cluster # None => cluster' # None)
  BY <1>1, <1>2, WriteOutcome, NoneIsNothing
<1>3. pc # "idle" => obj \in Cluster
  BY WorkerCopy
<1>4. CASE AddFinalizer
  <2>1. [obj EXCEPT !.fin = TRUE] \in Cluster /\ pc # "idle"
    BY <1>3, <1>4, ClusterUpdates DEF AddFinalizer
  <2>2. Accepted([obj EXCEPT !.fin = TRUE]) \/ Refused([obj EXCEPT !.fin = TRUE])
    BY <1>4 DEF AddFinalizer
  <2> QED BY <1>2, <1>4, <2>1, <2>2 DEF AddFinalizer
<1>5. CASE BeginProvision
  <2>1. Provisioning(obj) \in Cluster /\ pc # "idle"
    BY <1>3, <1>5, ClusterUpdates DEF BeginProvision
  <2>2. Accepted(Provisioning(obj)) \/ Refused(Provisioning(obj))
    BY <1>5 DEF BeginProvision, Unsaved
  <2> QED BY <1>2, <1>5, <2>1, <2>2 DEF BeginProvision
<1>6. CASE SaveReady
  <2>1. Provisioned(obj) \in Cluster /\ pc # "idle"
    BY <1>3, <1>6, ClusterUpdates DEF SaveReady
  <2>2. Accepted(Provisioned(obj)) \/ Refused(Provisioned(obj))
    BY <1>6 DEF SaveReady, Unsaved
  <2> QED BY <1>2, <1>6, <2>1, <2>2 DEF SaveReady
<1>7. CASE SetError
  <2>1. [obj EXCEPT !.phase = "Error"] \in Cluster /\ pc # "idle"
    BY <1>3, <1>7, ClusterUpdates DEF SetError, Phases
  <2>2. Accepted([obj EXCEPT !.phase = "Error"]) \/ Refused([obj EXCEPT !.phase = "Error"])
    BY <1>7 DEF SetError
  <2> QED BY <1>2, <1>7, <2>1, <2>2 DEF SetError
<1>8. CASE BlockDeletion
  <2>1. [obj EXCEPT !.phase = "Deleting"] \in Cluster /\ pc # "idle"
    BY <1>3, <1>8, ClusterUpdates DEF BlockDeletion, Deletes, Phases
  <2>2. Accepted([obj EXCEPT !.phase = "Deleting"]) \/ Refused([obj EXCEPT !.phase = "Deleting"])
    BY <1>8 DEF BlockDeletion
  <2> QED BY <1>2, <1>8, <2>1, <2>2 DEF BlockDeletion
<1>9. CASE LoadBundle \/ GenBundle \/ GenBundleFails \/ Store \/ StoreFails
  BY <1>9 DEF LoadBundle, GenBundle, GenBundleFails, Store, StoreFails, GoTo
<1>10. CASE CountFails \/ BeginDeletion \/ DeleteSecret \/ DeleteSecretFails
  BY <1>10 DEF CountFails, BeginDeletion, DeleteSecret, DeleteSecretFails, GoTo
<1>11. CASE RemoveFinalizer
  BY <1>1, <1>11 DEF RemoveFinalizer, Removed, Done
<1>12. CASE Get \/ Deliver \/ DeleteNode \/ NodeGone \/ Crash \/ UNCHANGED vars
  BY <1>12 DEF Get, Deliver, DeleteNode, NodeGone, Crash, OtherwiseUnchanged, vars
<1>13. CASE EditSpec
  <2>1. PICK v \in Versions :
          cluster # None /\ UserWrites([cluster EXCEPT !.ver = v, !.gen = @ + 1])
    BY <1>13 DEF EditSpec
  <2>2. [cluster EXCEPT !.ver = v, !.gen = @ + 1] \in Cluster
    BY <2>1, ClusterUpdates DEF PInv, TypeOK
  <2>3. cluster' # None
    BY <2>1, <2>2, NoneIsNothing DEF UserWrites
  <2> QED BY <2>1, <2>3 DEF UserWrites
<1>14. CASE DeleteCluster
  <2>1. cluster # None /\ UNCHANGED <<cache, obj, nodes>>
    BY <1>14, Zenon DEF DeleteCluster, UserWrites
  <2> QED BY <2>1
<1> QED BY <1>4, <1>5, <1>6, <1>7, <1>8, <1>9, <1>10, <1>11, <1>12, <1>13, <1>14
        DEF Next, Reconcile, Provision, Teardown, User

\* Initially nothing is being deleted.
LEMMA InitForward == Init => Forward
  BY DEF Init, Forward

\* Every step keeps it.
LEMMA NextForward ==
    ASSUME FInv, [Next]_vars
    PROVE  Forward'
<1>1. /\ cache = None => cluster = None
      /\ obj # None /\ obj.deleting => cache = None \/ cache.deleting
      /\ pc \in {"load", "store"} => ~obj.deleting
  BY DEF FInv, Forward
<1>2. cache # None /\ cluster # None /\ cache.deleting => cluster.deleting
  BY DEF FInv, PInv, ProvisionDiscipline, Onwards
<1>3. cache = None \/ cache.deleting => cache' = None \/ cache'.deleting
  BY <1>1, <1>2, CopyChanges DEF FInv
<1>4. cache' = None => cluster' = None
  BY <1>1, CopyChanges, ClusterGoes DEF FInv
<1>5. obj' # None /\ obj'.deleting => cache' = None \/ cache'.deleting
  BY <1>1, <1>3, CopyChanges DEF FInv
<1>6. pc' \in {"load", "store"} => ~obj'.deleting
  BY <1>1, CopyChanges DEF FInv
<1> QED BY <1>4, <1>5, <1>6 DEF Forward

\* Once the worker has set to tearing the cluster down it does not provision it again.
LEMMA ClosingStays ==
    ASSUME FInv, [Next]_vars, Closing
    PROVE  Closing'
<1>1. cache = None => cluster = None
  BY DEF FInv, Forward
<1>2. cache # None /\ cluster # None /\ cache.deleting => cluster.deleting
  BY DEF FInv, PInv, ProvisionDiscipline, Onwards
<1>3. cache' = None \/ cache'.deleting
  BY <1>1, <1>2, CopyChanges DEF FInv, Closing
<1>4. obj' = None \/ obj'.deleting
  BY CopyChanges DEF FInv, Closing
<1> QED BY <1>3, <1>4 DEF Closing

\* Every step is one of ClusterLife, or shows nothing there.
LEMMA LifeStep ==
    ASSUME FInv, PInv', [Next]_vars
    PROVE  [Life!Next]_(Life!vars)
<1> DEFINE open    == cluster # None
           live    == {n \in Nodes : nodes[n] = "live"}
           stored  == {k \in Kinds : secrets[k] # None}
<1>0. secrets \in [Kinds -> Contents \cup {None}] /\ PInv
  BY DEF FInv, PInv, TypeOK
<1>1. CASE pc = "store" /\ at < 4 /\ secrets' = Created(Kind) /\ secrets' # secrets
  <2>1. UNCHANGED <<cluster, cache, nodes, obj>>
    BY <1>1 DEF Next, Reconcile, Get, AddFinalizer, Provision, BeginProvision, LoadBundle,
         GenBundle, GenBundleFails, Store, StoreFails, SaveReady, SetError, Teardown,
         CountFails, BlockDeletion, BeginDeletion, DeleteSecret, DeleteSecretFails,
         RemoveFinalizer, Deliver, User, EditSpec, DeleteCluster, DeleteNode, UserWrites,
         NodeGone, Crash, OtherwiseUnchanged, vars, GoTo
  <2>2. open /\ ~Closing /\ Closing' = Closing
    BY <1>0, <1>1, <2>1, WorkerCopy DEF FInv, Forward, PInv, ProvisionDiscipline, Onwards, Closing
  <2>3. Kind \in Kinds /\ stored' = stored \cup {Kind}
    <3>1. Created(Kind)[Kind] # None /\ Kind \in Kinds
      BY <1>0, <1>1, CreatedIsThere, ContentType DEF PInv
    <3>2. \A k \in Kinds \ {Kind} : Created(Kind)[k] = secrets[k]
      BY <1>0, <3>1 DEF Created
    <3> QED BY <1>1, <3>1, <3>2
  <2>4. live' = live
    BY <2>1
  <2> QED BY <2>1, <2>2, <2>3, <2>4 DEF Life!Next, Life!Issue
<1>2. CASE pc = "delete" /\ at < 4 /\ secrets' = Deleted(Kind) /\ secrets' # secrets
  <2>1. UNCHANGED <<cluster, nodes>>
    BY <1>2 DEF Next, Reconcile, Get, AddFinalizer, Provision, BeginProvision, LoadBundle,
         GenBundle, GenBundleFails, Store, StoreFails, SaveReady, SetError, Teardown,
         CountFails, BlockDeletion, BeginDeletion, DeleteSecret, DeleteSecretFails,
         RemoveFinalizer, Deliver, User, EditSpec, DeleteCluster, DeleteNode, UserWrites,
         NodeGone, Crash, OtherwiseUnchanged, vars, GoTo
  <2>2. Closing /\ live = {}
    BY <1>0, <1>2, WorkerCopy DEF FInv, Forward, PInv, ProvisionDiscipline, Onwards, Closing, Guarded
  <2>3. Closing' = TRUE /\ Closing = TRUE
    BY <2>2, ClosingStays DEF Closing
  <2>4. Kind \in Kinds /\ stored' = stored \ {Kind}
    <3>1. Kind \in Kinds
      BY <1>0, <1>2, KindFacts DEF PInv, TypeOK, Kind
    <3>2. /\ Deleted(Kind)[Kind] = None
          /\ \A k \in Kinds \ {Kind} : Deleted(Kind)[k] = secrets[k]
      BY <1>0, <3>1 DEF Deleted
    <3> QED BY <1>2, <3>1, <3>2
  <2>5. live' = live
    BY <2>1
  <2> QED BY <2>1, <2>2, <2>3, <2>4, <2>5 DEF Life!Next, Life!Revoke
<1>3. CASE UNCHANGED secrets
  <2>1. stored' = stored
    BY <1>3
  <2>2. CASE cluster # None /\ cluster' = None
    <3>1. stored = {}
      BY <1>3, <2>2 DEF PInv, ProvisionDiscipline, Onwards
    <3>2. UNCHANGED nodes /\ Closing' = Closing
      <4>1. CASE UNCHANGED <<cache, obj>>
        BY <1>0, <2>2, <4>1, ClusterGoes DEF Closing
      <4>2. CASE pc = "delete" /\ obj' = None /\ cache' = cache
        <5>1. obj # None /\ obj.deleting
          BY <1>0, <4>2, WorkerCopy DEF PInv, ProvisionDiscipline, Onwards
        <5>2. cache = None \/ cache.deleting
          BY <5>1 DEF FInv, Forward
        <5> QED BY <1>0, <2>2, <4>2, <5>1, <5>2, ClusterGoes DEF Closing
      <4> QED BY <1>0, <2>2, <4>1, <4>2, ClusterGoes
    <3>3. live' = live
      BY <3>2
    <3> QED BY <2>1, <2>2, <3>1, <3>2, <3>3 DEF Life!Next, Life!Close
  <2>3. CASE nodes' # nodes
    <3>1. UNCHANGED <<cluster, cache, obj>>
      BY <1>0, <2>3, ClusterGoes
    <3>2. live' \subseteq live
      BY <2>3 DEF FInv, PInv, TypeOK, Next, Reconcile, Get, AddFinalizer, Provision, BeginProvision, LoadBundle,
         GenBundle, GenBundleFails, Store, StoreFails, SaveReady, SetError, Teardown,
         CountFails, BlockDeletion, BeginDeletion, DeleteSecret, DeleteSecretFails,
         RemoveFinalizer, Deliver, User, EditSpec, DeleteCluster, DeleteNode, UserWrites,
         NodeGone, Crash, vars, GoTo
    <3>3. Closing' = Closing
      BY <3>1 DEF Closing
    <3> QED BY <2>1, <3>1, <3>2, <3>3 DEF Life!Next, Life!NodesLeave
  <2>4. CASE nodes' = nodes /\ (cluster = None <=> cluster' = None)
    <3>1. live' = live /\ open' = open
      BY <2>4
    <3>2. CASE Closing' <=> Closing
      <4>1. Closing' = Closing
        BY <3>2 DEF Closing
      <4> QED BY <2>1, <3>1, <4>1 DEF Life!vars
    <3>3. CASE Closing' /\ ~Closing
      <4>1. Closing' = TRUE
        BY <3>3 DEF Closing
      <4> QED BY <2>1, <3>1, <4>1 DEF Life!Next, Life!StartClosing
    <3> QED BY <3>2, <3>3, ClosingStays
  <2> QED BY <1>0, <2>2, <2>3, <2>4, ClusterGoes
<1> QED BY <1>0, <1>1, <1>2, <1>3, SecretsChange

\* The TalosCluster reconciler implements ClusterLife, whatever is edited, fails or
\* crashes and however outdated its copies are: an interrupted teardown is resumed,
\* never turned back into provisioning.
THEOREM FaithIsKept == Spec => KeepsFaith
<1>1. FInv /\ PInv' /\ [Next]_vars => [Life!Next]_(Life!vars)
  BY LifeStep
<1>2. FInv /\ [Next]_vars => Forward'
  BY NextForward
<1>3. Init => Life!Init
  <2> SUFFICES ASSUME Init PROVE Life!Init
    OBVIOUS
  <2>0. PICK v \in Versions :
          cluster = [gen |-> 1, fin |-> FALSE, deleting |-> FALSE, ver |-> v,
                     phase |-> "", obsGen |-> 0, generated |-> FALSE]
    BY DEF Init
  <2>1. cluster # None
    <3>1. cluster \in Cluster
      BY <2>0 DEF Cluster, Phases
    <3> QED BY <3>1, NoneIsNothing
  <2>2. cluster.deleting = FALSE
    BY <2>0
  <2>3. /\ cache = cluster
        /\ {n \in Nodes : nodes[n] = "live"} = Nodes
    BY DEF Init
  <2>4. Closing = FALSE
    BY <2>1, <2>2, <2>3 DEF Closing
  <2>5. (cluster # None) = TRUE
    BY <2>1
  <2>6. {k \in Kinds : secrets[k] # None} \subseteq Kinds
    OBVIOUS
  <2> QED BY <2>3, <2>4, <2>5, <2>6 DEF Life!Init
<1>4. FInv <=> PInv /\ Forward
  BY DEF FInv
<1> QED BY <1>1, <1>2, <1>3, <1>4, InitDiscipline, NextDiscipline, InitForward, PTL
        DEF Spec, KeepsFaith, Life!Spec

-----------------------------------------------------------------------------
(* One authority                                                           *)

AInv == PInv /\ OneAuthority

\* What a Create does to the authorities.
LEMMA CreatedAuthority ==
    ASSUME AInv, pc = "store", at < 4, NEW k \in Kinds, Created(Kind)[k] # None
    PROVE  /\ Created(Kind)[k].ca = ca
           /\ secrets["secrets"] # None => Created(Kind)["secrets"] # None
<1>1. secrets \in [Kinds -> Contents \cup {None}] /\ Kind \in Kinds
  BY ContentType DEF AInv, PInv, TypeOK
<1>2. Content.ca = ca
  BY DEF Content
<1>3. \A l \in Kinds : secrets[l] # None => secrets[l].ca = ca
  BY DEF AInv, OneAuthority
<1>4. Created(Kind)[k] = secrets[k] \/ Created(Kind)[k] = Content
  BY <1>1 DEF Created
<1>5. secrets[k] # None => Created(Kind)[k] = secrets[k]
  BY <1>1 DEF Created
<1>6. Created(Kind)[k].ca = ca
  BY <1>2, <1>3, <1>4
<1> QED BY <1>6, CreatedIsThere, KindFacts DEF AInv

\* With reads that succeed every step keeps the authority.
LEMMA NextAuthority ==
    ASSUME ~UnreliableReads
    PROVE  AInv /\ [Next]_vars => AInv'
<1> SUFFICES ASSUME AInv, [Next]_vars PROVE OneAuthority'
  BY NextDiscipline DEF AInv
<1>0. /\ OneAuthority /\ CopiesTrue /\ Onwards /\ Counted
      /\ secrets \in [Kinds -> Contents \cup {None}] /\ "secrets" \in Kinds
  BY KindFacts DEF AInv, PInv, ProvisionDiscipline, TypeOK
<1>1. CASE LoadBundle
  BY <1>0, <1>1 DEF OneAuthority, LoadBundle, GoTo
<1>2. CASE GenBundle
  <2>1. secrets["secrets"] = None /\ pc = "load"
    BY <1>2 DEF GenBundle, NoBundle
  <2>2. \A k \in Kinds : secrets[k] = None
    BY <1>0, <2>1 DEF OneAuthority
  <2> QED BY <1>2, <2>2 DEF OneAuthority, GenBundle
<1>3. ASSUME pc = "store", at < 4, secrets' = Created(Kind) \/ UNCHANGED secrets,
             UNCHANGED <<ca, cluster>>,
             pc' = "store" => at' = at + 1 /\ secrets' = Created(Kind)
      PROVE  OneAuthority'
  <2>1. \A k \in Kinds : secrets'[k] # None => secrets'[k].ca = ca
    BY <1>0, <1>3, CreatedAuthority DEF OneAuthority
  <2>2. \A k, l \in Kinds : secrets'[k] # None /\ secrets'[l] # None =>
          secrets'[k].ca = secrets'[l].ca
    BY <2>1
  <2>3. ASSUME secrets'["secrets"] = None PROVE \A k \in Kinds : secrets'[k] = None
    <3>1. secrets["secrets"] = None
      BY <1>0, <1>3, <2>3, CreatedIsThere DEF AInv
    <3>2. at = 0
      BY <1>0, <1>3, <3>1, KindFacts DEF Counted, AInv, PInv, TypeOK
    <3>3. Kind = "secrets"
      BY <3>2, KindFacts DEF Kind
    <3>4. \A k \in Kinds : secrets[k] = None
      BY <1>0, <1>3, <3>1 DEF OneAuthority
    <3> QED BY <1>3, <2>3, <3>3, <3>4, CreatedIsThere DEF AInv
  <2> QED BY <1>3, <2>1, <2>2, <2>3 DEF OneAuthority
<1>4. CASE Store
  BY <1>3, <1>4 DEF Store, GoTo
<1>5. CASE StoreFails
  BY <1>3, <1>5 DEF StoreFails, GoTo
<1>6. ASSUME pc = "delete", UNCHANGED cluster, pc' \notin {"load", "store"},
             secrets' = Deleted(Kind) /\ at < 4
      PROVE  OneAuthority'
  <2>1. \A k \in Kinds : secrets'[k] # None => secrets'[k] = secrets[k]
    BY <1>0, <1>6 DEF Deleted
  <2>2. \A k \in Kinds : secrets[k] # None => cluster.deleting
    BY <1>0, <1>6, WorkerCopy DEF Onwards, AInv
  <2> QED BY <1>0, <1>6, <2>1, <2>2 DEF OneAuthority
<1>7. ASSUME UNCHANGED secrets, pc' = "store" => pc = "store" /\ UNCHANGED ca,
             pc' = "load" => pc = "load" \/ ~cluster.deleting,
             cluster' # cluster => cluster' = None \/ (cluster.deleting => cluster'.deleting)
      PROVE  OneAuthority'
  <2>1. cluster' = None => \A k \in Kinds : secrets'[k] = None
    BY NextDiscipline DEF AInv, PInv, ProvisionDiscipline, Onwards
  <2> QED BY <1>0, <1>7, <2>1 DEF OneAuthority
<1>8. ASSUME NEW o \in Cluster, o.deleting = obj.deleting, Accepted(o) \/ Refused(o)
      PROVE  cluster' # cluster => (cluster.deleting => cluster'.deleting)
  BY <1>0, <1>8, WriteOutcome DEF CopiesTrue
<1>9. CASE AddFinalizer
  <2> DEFINE o == [obj EXCEPT !.fin = TRUE]
  <2>1. obj \in Cluster /\ (Accepted(o) \/ Refused(o))
    BY <1>9, WorkerCopy DEF AInv, AddFinalizer
  <2>2. o \in Cluster /\ o.deleting = obj.deleting
    BY <2>1, ClusterUpdates DEF Cluster
  <2>3. UNCHANGED secrets /\ pc' \in {"idle", "start"}
    BY <1>9 DEF AddFinalizer, Done
  <2> HIDE DEF o
  <2> QED BY <1>7, <1>8, <2>1, <2>2, <2>3
<1>10. CASE BeginProvision
  <2> DEFINE o == Provisioning(obj)
  <2>1. obj \in Cluster /\ (Accepted(o) \/ Refused(o))
    BY <1>10, WorkerCopy DEF AInv, BeginProvision, Unsaved
  <2>2. o \in Cluster /\ o.deleting = obj.deleting
    BY <2>1, ClusterUpdates, FieldsWritten
  <2>3. UNCHANGED secrets /\ (pc' = "setError" \/ (pc' = "load" /\ fresh)) /\ ~obj.deleting
    BY <1>10 DEF BeginProvision, Unsaved, Accepted
  <2>4. fresh => ~cluster.deleting
    BY <1>0, <2>3 DEF CopiesTrue
  <2> HIDE DEF o
  <2> QED BY <1>7, <1>8, <2>1, <2>2, <2>3, <2>4
<1>11. CASE SaveReady
  <2> DEFINE o == Provisioned(obj)
  <2>1. obj \in Cluster /\ (Accepted(o) \/ Refused(o))
    BY <1>11, WorkerCopy DEF AInv, SaveReady, Unsaved
  <2>2. o \in Cluster /\ o.deleting = obj.deleting
    BY <2>1, ClusterUpdates, FieldsWritten
  <2>3. UNCHANGED secrets /\ pc' \in {"idle", "setError"}
    BY <1>11 DEF SaveReady, Unsaved, Done
  <2> HIDE DEF o
  <2> QED BY <1>7, <1>8, <2>1, <2>2, <2>3
<1>12. ASSUME NEW p \in Phases, pc # "idle", UNCHANGED secrets, Done(TRUE),
              Accepted([obj EXCEPT !.phase = p]) \/ Refused([obj EXCEPT !.phase = p])
       PROVE  OneAuthority'
  <2> DEFINE o == [obj EXCEPT !.phase = p]
  <2>1. obj \in Cluster
    BY <1>12, WorkerCopy DEF AInv
  <2>2. o \in Cluster /\ o.deleting = obj.deleting
    BY <2>1, ClusterUpdates DEF Cluster
  <2>3. pc' = "idle"
    BY <1>12 DEF Done
  <2> HIDE DEF o
  <2> QED BY <1>7, <1>8, <1>12, <2>2, <2>3 DEF o
<1>13. CASE SetError \/ BlockDeletion
  BY <1>12, <1>13 DEF SetError, BlockDeletion, Deletes, Phases
<1>14. CASE Get \/ GenBundleFails \/ CountFails \/ BeginDeletion \/ RemoveFinalizer
  BY <1>7, <1>14 DEF Get, GenBundleFails, NoBundle, CountFails, BeginDeletion,
                     RemoveFinalizer, Removed, GoTo, Done
<1>15. CASE DeleteSecret
  BY <1>6, <1>15 DEF DeleteSecret, GoTo
<1>16. CASE DeleteSecretFails
  BY <1>6, <1>7, <1>16 DEF DeleteSecretFails, Done
<1>17. CASE EditSpec
  <2>1. PICK v \in Versions : cluster' = [cluster EXCEPT !.ver = v, !.gen = @ + 1]
    BY <1>17 DEF EditSpec, UserWrites
  <2>2. cluster \in Cluster
    BY <1>17 DEF EditSpec, AInv, PInv, TypeOK
  <2>3. cluster'.deleting = cluster.deleting
    BY <2>1, <2>2 DEF Cluster
  <2>4. UNCHANGED <<secrets, pc, ca>>
    BY <1>17 DEF EditSpec, UserWrites
  <2> QED BY <1>7, <2>3, <2>4
<1>18. CASE DeleteCluster
  BY <1>7, <1>18 DEF DeleteCluster, UserWrites
<1>19. CASE Deliver \/ DeleteNode \/ NodeGone \/ Crash \/ UNCHANGED vars
  BY <1>7, <1>19 DEF Deliver, DeleteNode, NodeGone, Crash, Done, OtherwiseUnchanged, vars
<1> QED BY <1>1, <1>2, <1>4, <1>5, <1>9, <1>10, <1>11, <1>13, <1>14, <1>15, <1>16, <1>17,
           <1>18, <1>19 DEF Next, Reconcile, Provision, Teardown, User

\* Initially nothing is signed.
LEMMA InitAuthority == Init => AInv
<1> SUFFICES ASSUME Init PROVE OneAuthority
  BY InitDiscipline DEF AInv
<1>1. pc = "idle" /\ \A k \in Kinds : secrets[k] = None
  BY DEF Init
<1> QED BY <1>1 DEF OneAuthority

\* When the reads of the bundle succeed, all Secrets are signed by the authority in
\* <cluster>-secrets, whatever fails, restarts or is edited while they are stored.
THEOREM SameAuthority ==
    ASSUME ~UnreliableReads
    PROVE  Spec => []SameCA
<1>1. AInv => SameCA
  BY KindFacts DEF AInv, OneAuthority, SameCA
<1> QED BY InitAuthority, NextAuthority, <1>1, PTL DEF Spec

\* When the reads of the bundle succeed, no second authority ever signs a Secret.
THEOREM PKIStays ==
    ASSUME ~UnreliableReads
    PROVE  Spec => PKINeverReplaced
<1>1. AInv /\ [Next]_vars =>
        [\A k, l \in Kinds : secrets[k] # None /\ secrets'[l] # None
           => secrets'[l].ca = secrets[k].ca]_vars
  <2> SUFFICES ASSUME AInv, [Next]_vars, NEW k \in Kinds, NEW l \in Kinds,
                      secrets[k] # None, secrets'[l] # None
               PROVE  secrets'[l].ca = secrets[k].ca
    OBVIOUS
  <2>0. secrets \in [Kinds -> Contents \cup {None}]
    BY DEF AInv, PInv, TypeOK
  <2>1. CASE UNCHANGED secrets
    BY <2>1 DEF AInv, OneAuthority
  <2>2. CASE pc = "store" /\ at < 4 /\ secrets' = Created(Kind)
    BY <2>2, CreatedAuthority DEF AInv, OneAuthority
  <2>3. CASE pc = "delete" /\ secrets' = Deleted(Kind)
    <3>1. secrets'[l] = secrets[l]
      BY <2>0, <2>3 DEF Deleted
    <3> QED BY <3>1 DEF AInv, OneAuthority
  <2> QED BY <2>1, <2>2, <2>3, SecretsChange DEF AInv
<1> QED BY InitAuthority, NextAuthority, <1>1, PTL DEF Spec, PKINeverReplaced
=============================================================================
