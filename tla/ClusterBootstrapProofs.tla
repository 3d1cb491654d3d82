------------------------ MODULE ClusterBootstrapProofs ------------------------
(***************************************************************************)
(* Theorems about ClusterBootstrap, for all values of its constants: any   *)
(* number of control planes, lazy and eager dials, deadlines, and failures,*)
(* crashes, edits and broken machines without bound.                       *)
(***************************************************************************)
EXTENDS ClusterBootstrap, SequenceTheorems, TLAPS

-----------------------------------------------------------------------------
(* Types                                                                   *)

\* TypeOK in three parts: the resource and its copy, the worker, the rest.
StoreTypes ==
    /\ boot \in TalosClusterBootstrap \cup {None}
    /\ cache \in TalosClusterBootstrap \cup {None}
    /\ lag \in {"none", "quiet", "loud"}

WorkerTypes ==
    /\ queued \in BOOLEAN
    /\ pc \in PCs
    /\ IF pc = "idle" THEN obj = None ELSE obj \in TalosClusterBootstrap
    /\ fresh \in BOOLEAN
    /\ eps \in Seq(Machines)
    /\ pc \in {"dial", "bootstrap", "record", "fetch"} => eps # <<>>

WorldTypes ==
    /\ cluster \in (Seq(Machines) \ {<<>>}) \cup {None}
    /\ kubeconfig \in Machines \cup {None}
    /\ refresh \in BOOLEAN
    /\ node \in [Machines -> {"bare", "configured", "ready", "gone"}]
    /\ up \subseteq Machines
    /\ etcd \in [Machines -> Nat]
    /\ formed \in Nat
    /\ calm \in BOOLEAN

\* The parts make up the type invariant.
LEMMA TypeParts ==
    /\ TypeOK <=> StoreTypes /\ WorkerTypes /\ WorldTypes /\ troubles \in Nat
    /\ TypeOK' <=> StoreTypes' /\ WorkerTypes' /\ WorldTypes' /\ troubles' \in Nat
  BY DEF TypeOK, StoreTypes, WorkerTypes, WorldTypes

\* A list of endpoints starts with a machine.
LEMMA HeadIsMachine ==
    ASSUME NEW list \in Seq(Machines), list # <<>>
    PROVE  /\ Head(list) \in Machines
           /\ list[1] = Head(list)
           /\ Len(list) \in Nat /\ Len(list) >= 1
           /\ <<Head(list)>> \in Seq(Machines)
           /\ <<Head(list)>> # <<>>
  BY HeadTailProperties, EmptySeq, LenProperties

\* The records that the handlers and the user write.
LEMMA BootstrapUpdates ==
    ASSUME NEW o \in TalosClusterBootstrap
    PROVE  /\ [o EXCEPT !.fin = TRUE] \in TalosClusterBootstrap
           /\ \A p \in Phases : [o EXCEPT !.phase = p] \in TalosClusterBootstrap
           /\ \A b \in BOOLEAN :
                \A p \in Phases : [o EXCEPT !.phase = p, !.api = b] \in TalosClusterBootstrap
           /\ [o EXCEPT !.done = TRUE] \in TalosClusterBootstrap
           /\ [o EXCEPT !.stored = TRUE] \in TalosClusterBootstrap
           /\ Begun(o) \in TalosClusterBootstrap
           /\ [o EXCEPT !.ref = ~@, !.gen = @ + 1] \in TalosClusterBootstrap
           /\ [o EXCEPT !.deleting = TRUE, !.gen = @ + 1] \in TalosClusterBootstrap
<1>1. o.gen + 1 \in Nat /\ o.gen \in Nat
  BY DEF TalosClusterBootstrap
<1>2. [o EXCEPT !.ref = ~@, !.gen = @ + 1] \in TalosClusterBootstrap
  <2>1. (~o.ref) \in BOOLEAN
    BY Zenon
  <2> QED BY <1>1, <2>1 DEF TalosClusterBootstrap
<1>3. [o EXCEPT !.deleting = TRUE, !.gen = @ + 1] \in TalosClusterBootstrap
  BY <1>1 DEF TalosClusterBootstrap
<1>4. Begun(o) \in TalosClusterBootstrap
  BY <1>1 DEF TalosClusterBootstrap, Begun, Phases
<1> QED BY <1>2, <1>3, <1>4 DEF TalosClusterBootstrap

\* A new resource.
LEMMA NewType == NewBootstrap \in TalosClusterBootstrap
  BY DEF NewBootstrap, TalosClusterBootstrap, Phases

\* Trouble only counts itself.
LEMMA TroubleType ==
    ASSUME troubles \in Nat, Trouble \/ UNCHANGED troubles
    PROVE  troubles' \in Nat
  BY DEF Trouble

\* A reconcile that ends leaves the worker without a copy.
LEMMA DoneType ==
    ASSUME WorkerTypes, NEW again \in BOOLEAN, Done(again)
    PROVE  WorkerTypes'
<1>1. queued' \in BOOLEAN
  BY DEF Done, WorkerTypes
<1> QED BY <1>1, EmptySeq DEF Done, WorkerTypes, PCs

\* A worker that goes on keeps its copy.
LEMMA GoToType ==
    ASSUME StoreTypes, WorkerTypes, pc # "idle",
           NEW next \in PCs \ {"idle"}, GoTo(next),
           eps' \in Seq(Machines),
           next \in {"dial", "bootstrap", "record", "fetch"} => eps' # <<>>
    PROVE  StoreTypes' /\ WorkerTypes'
  BY DEF GoTo, StoreTypes, WorkerTypes

\* Writes of a bootstrap to the API server.
LEMMA WriteType ==
    ASSUME StoreTypes, troubles \in Nat, NEW o \in TalosClusterBootstrap,
           Accepted(o) \/ Refused(o), UNCHANGED cache
    PROVE  StoreTypes' /\ troubles' \in Nat
<1>1. Trouble \/ UNCHANGED troubles
  BY DEF Accepted, Refused
<1>2. \/ boot' = o /\ lag' \in {"loud", "quiet"}
      \/ UNCHANGED <<boot, lag>>
  BY DEF Accepted, Refused, Write
<1> QED BY <1>1, <1>2, TroubleType DEF StoreTypes

\* Writes whose error Reconcile returns.
LEMMA SaveType ==
    ASSUME TypeOK, pc # "idle", NEW o \in TalosClusterBootstrap,
           NEW next \in PCs \ {"idle"}, Save(o, next),
           next \in {"dial", "bootstrap", "record", "fetch"} => eps # <<>>
    PROVE  TypeOK'
<1> USE TypeParts
<1>1. Accepted(o) \/ Refused(o)
  BY DEF Save
<1>2. UNCHANGED cache /\ UNCHANGED world
  BY DEF Save
<1>3. StoreTypes' /\ troubles' \in Nat
  BY <1>1, <1>2, WriteType
<1>4. WorldTypes'
  BY <1>2 DEF WorldTypes, world
<1>5. CASE Done(TRUE)
  BY <1>3, <1>4, <1>5, DoneType
<1>6. CASE obj' = o /\ pc' = next /\ UNCHANGED <<queued, fresh, eps>>
  BY <1>3, <1>4, <1>6 DEF WorkerTypes
<1> QED BY <1>5, <1>6 DEF Save

\* A step of the worker that goes on.
LEMMA GoesOn ==
    ASSUME TypeOK, pc # "idle", WorldTypes', Trouble \/ UNCHANGED troubles,
           NEW next \in PCs \ {"idle"}, GoTo(next),
           eps' \in Seq(Machines),
           next \in {"dial", "bootstrap", "record", "fetch"} => eps' # <<>>
    PROVE  TypeOK'
  BY GoToType, TroubleType, TypeParts

\* A step with which a reconcile ends.
LEMMA Ends ==
    ASSUME TypeOK, StoreTypes', WorldTypes', Trouble \/ UNCHANGED troubles,
           NEW again \in BOOLEAN, Done(again)
    PROVE  TypeOK'
  BY DoneType, TroubleType, TypeParts

\* A step with which a reconcile ends after a write.
LEMMA EndsWithWrite ==
    ASSUME TypeOK, UNCHANGED world, UNCHANGED cache,
           NEW o \in TalosClusterBootstrap, Accepted(o) \/ Refused(o),
           NEW again \in BOOLEAN, Done(again)
    PROVE  TypeOK'
<1>1. WorldTypes'
  BY TypeParts DEF WorldTypes, world
<1> QED BY <1>1, WriteType, DoneType, TypeParts

\* The start of Reconcile, up to phase Bootstrapping.
LEMMA StartTypes ==
    ASSUME TypeOK,
           \/ Get \/ AddFinalizer \/ ReadsFail \/ WaitForNodes \/ ShortCircuit
           \/ BeginBootstrap
    PROVE  TypeOK'
<1> USE TypeParts
<1>0. StoreTypes /\ WorkerTypes /\ WorldTypes /\ troubles \in Nat
  OBVIOUS
<1>w. UNCHANGED world => WorldTypes'
  BY <1>0 DEF WorldTypes, world
<1>o. pc = "start" => obj \in TalosClusterBootstrap
  BY <1>0 DEF WorkerTypes
<1>1. CASE Get
  <2>1. StoreTypes'
    BY <1>0, <1>1 DEF Get, StoreTypes
  <2>2. WorkerTypes'
    <3>1. CASE cache = None \/ NeedsNothing(cache)
      BY <1>0, <1>1, <3>1 DEF Get, WorkerTypes
    <3>2. CASE ~(cache = None \/ NeedsNothing(cache))
      <4>1. obj' = cache /\ pc' \in {"delete", "start"} /\ UNCHANGED eps
            /\ queued' = FALSE /\ fresh' = (lag = "none")
        BY <1>1, <3>2 DEF Get
      <4>2. cache \in TalosClusterBootstrap
        BY <1>0, <3>2 DEF StoreTypes
      <4>3. fresh' \in BOOLEAN
        BY <4>1
      <4> QED BY <1>0, <4>1, <4>2, <4>3 DEF WorkerTypes, PCs
    <3> QED BY <3>1, <3>2
  <2> QED BY <1>1, <1>w, <2>1, <2>2 DEF Get
<1>2. CASE AddFinalizer
  <2>1. [obj EXCEPT !.fin = TRUE] \in TalosClusterBootstrap
    BY <1>2, <1>o, BootstrapUpdates DEF AddFinalizer
  <2> QED BY <1>2, <2>1, SaveType DEF AddFinalizer, PCs
<1>3. CASE ReadsFail
  <2>1. pc = "start" /\ GoTo("setError") /\ UNCHANGED world /\ eps' \in Seq(Machines)
    BY <1>0, <1>3 DEF ReadsFail, WorkerTypes
  <2>2. Trouble \/ UNCHANGED troubles
    BY <1>3 DEF ReadsFail
  <2> QED BY <1>w, <2>1, <2>2, GoesOn DEF PCs
<1>4. CASE WaitForNodes
  <2> DEFINE o == [obj EXCEPT !.phase = "WaitingForNodes"]
  <2>1. o \in TalosClusterBootstrap
    BY <1>4, <1>o, BootstrapUpdates DEF WaitForNodes, Reads, Phases
  <2>2. UNCHANGED cache /\ UNCHANGED world /\ pc = "start"
    BY <1>4 DEF WaitForNodes, Reads
  <2>3. CASE Accepted(o) /\ Done(TRUE)
    BY <2>1, <2>2, <2>3, EndsWithWrite
  <2>4. CASE /\ Refused(o)
             /\ pc' = "setError"
             /\ fresh' = (fresh /\ boot' = boot)
             /\ UNCHANGED <<queued, obj, eps>>
    <3>1. StoreTypes' /\ troubles' \in Nat
      BY <1>0, <2>1, <2>2, <2>4, WriteType
    <3>2. fresh' \in BOOLEAN
      BY <2>4
    <3>3. WorkerTypes'
      BY <1>0, <2>2, <2>4, <3>2 DEF WorkerTypes, PCs
    <3> QED BY <1>w, <2>2, <3>1, <3>3
  <2> QED BY <1>4, <2>3, <2>4 DEF WaitForNodes
<1>5. CASE ShortCircuit
  <2>1. pc = "start" /\ GoTo("probe") /\ UNCHANGED world /\ eps' \in Seq(Machines)
        /\ UNCHANGED troubles
    BY <1>0, <1>5 DEF ShortCircuit, Reads, WorkerTypes
  <2> QED BY <1>w, <2>1, GoesOn DEF PCs
<1>6. CASE BeginBootstrap
  <2> DEFINE o == Begun(obj)
  <2>1. o \in TalosClusterBootstrap
    BY <1>6, <1>o, BootstrapUpdates DEF BeginBootstrap, Reads
  <2>2. UNCHANGED cache /\ UNCHANGED world /\ pc = "start" /\ cluster # None
    BY <1>6 DEF BeginBootstrap, Reads
  <2>3. Targets \in Seq(Machines) /\ Targets # <<>>
    BY <1>0, <2>2, HeadIsMachine DEF Targets, WorldTypes
  <2>4. CASE Refused(o) /\ Done(TRUE)
    BY <2>1, <2>2, <2>4, EndsWithWrite
  <2>5. CASE /\ Accepted(o)
             /\ obj' = o
             /\ pc' = "dial"
             /\ eps' = Targets
             /\ UNCHANGED <<queued, fresh>>
    <3>1. StoreTypes' /\ troubles' \in Nat
      BY <1>0, <2>1, <2>2, <2>5, WriteType
    <3>2. WorkerTypes'
      BY <1>0, <2>1, <2>3, <2>5 DEF WorkerTypes, PCs
    <3> QED BY <1>w, <2>2, <3>1, <3>2
  <2> QED BY <1>6, <2>4, <2>5 DEF BeginBootstrap
<1> QED BY <1>1, <1>2, <1>3, <1>4, <1>5, <1>6

\* Only etcd changes.
LEMMA EtcdTypes ==
    ASSUME WorldTypes, UNCHANGED <<cluster, kubeconfig, refresh, node, up, calm>>,
           \/ UNCHANGED <<etcd, formed>>
           \/ \E m \in Machines : Formed(m)
    PROVE  WorldTypes'
<1>1. formed + 1 \in Nat
  BY DEF WorldTypes
<1>2. etcd' \in [Machines -> Nat] /\ formed' \in Nat
  BY <1>1 DEF WorldTypes, Formed
<1> QED BY <1>2 DEF WorldTypes

\* The dial and the Bootstrap call.
LEMMA BootstrapTypes ==
    ASSUME TypeOK,
           \/ Dial \/ DialFails \/ Bootstrap \/ BootstrapFails
           \/ BootstrapTimesOut \/ RecordBootstrap
    PROVE  TypeOK'
<1> USE TypeParts
<1>0. StoreTypes /\ WorkerTypes /\ WorldTypes /\ troubles \in Nat
  OBVIOUS
<1>w. UNCHANGED world => WorldTypes'
  BY <1>0 DEF WorldTypes, world
<1>e. pc \in {"dial", "bootstrap", "record"} => eps # <<>> /\ eps[1] \in Machines
  BY <1>0, HeadIsMachine DEF WorkerTypes
<1>1. CASE Dial
  <2>1. PICK i \in 1 .. Len(eps) : eps' = <<eps[i]>>
    BY <1>1 DEF Dial
  <2>2. eps[i] \in Machines
    BY <1>0, <2>1, ElementOfSeq DEF WorkerTypes
  <2>3. eps' \in Seq(Machines) /\ eps' # <<>>
    BY <2>1, <2>2
  <2> DEFINE next == IF obj.done THEN "fetch" ELSE "bootstrap"
  <2>4. GoTo(next) /\ next \in PCs \ {"idle"} /\ pc # "idle" /\ UNCHANGED troubles
        /\ UNCHANGED world
    BY <1>1 DEF Dial, PCs
  <2> HIDE DEF next
  <2> QED BY <1>w, <2>3, <2>4, GoesOn
<1>2. CASE DialFails
  <2>1. pc = "dial" /\ GoTo("setError") /\ UNCHANGED world /\ eps' \in Seq(Machines)
    BY <1>0, <1>2 DEF DialFails, WorkerTypes
  <2>2. Trouble \/ UNCHANGED troubles
    BY <1>2 DEF DialFails
  <2> QED BY <1>w, <2>1, <2>2, GoesOn DEF PCs
<1>3. CASE Bootstrap
  <2>1. /\ pc = "bootstrap" /\ GoTo("record") /\ UNCHANGED troubles /\ UNCHANGED eps
        /\ UNCHANGED <<cluster, kubeconfig, refresh, node, up, calm>>
        /\ Formed(eps[1])
    BY <1>3 DEF Bootstrap
  <2>2. WorldTypes'
    BY <1>0, <1>e, <2>1, EtcdTypes
  <2>3. eps' \in Seq(Machines) /\ eps' # <<>>
    BY <1>0, <1>e, <2>1 DEF WorkerTypes
  <2> QED BY <2>1, <2>2, <2>3, GoesOn DEF PCs
<1>4. CASE BootstrapFails
  <2>1. /\ pc = "bootstrap" /\ GoTo("setError") /\ UNCHANGED eps
        /\ UNCHANGED <<cluster, kubeconfig, refresh, node, up, calm>>
        /\ UNCHANGED <<etcd, formed>> \/ Formed(eps[1])
        /\ Trouble \/ UNCHANGED troubles
    BY <1>4 DEF BootstrapFails
  <2>2. WorldTypes'
    BY <1>0, <1>e, <2>1, EtcdTypes
  <2>3. eps' \in Seq(Machines)
    BY <1>0, <2>1 DEF WorkerTypes
  <2> QED BY <2>1, <2>2, <2>3, GoesOn DEF PCs
<1>5. CASE BootstrapTimesOut
  <2>1. /\ pc = "bootstrap" /\ Done(FALSE) /\ UNCHANGED <<boot, cache, lag>>
        /\ UNCHANGED <<cluster, kubeconfig, refresh, node, up, calm>>
        /\ UNCHANGED <<etcd, formed>> \/ Formed(eps[1])
        /\ Trouble
    BY <1>5 DEF BootstrapTimesOut
  <2>2. WorldTypes'
    BY <1>0, <1>e, <2>1, EtcdTypes
  <2>3. StoreTypes'
    BY <1>0, <2>1 DEF StoreTypes
  <2> QED BY <2>1, <2>2, <2>3, Ends
<1>6. CASE RecordBootstrap
  <2>1. pc = "record" /\ Save([obj EXCEPT !.done = TRUE], "fetch")
    BY <1>6 DEF RecordBootstrap
  <2>2. [obj EXCEPT !.done = TRUE] \in TalosClusterBootstrap
    BY <1>0, <2>1, BootstrapUpdates DEF WorkerTypes
  <2> QED BY <1>e, <2>1, <2>2, SaveType DEF PCs
<1> QED BY <1>1, <1>2, <1>3, <1>4, <1>5, <1>6

\* The kubeconfig is fetched and stored.
LEMMA KubeconfigTypes ==
    ASSUME TypeOK,
           Fetch \/ FetchFails \/ FetchTimesOut \/ SaveFails \/ MarkStored
    PROVE  TypeOK'
<1> USE TypeParts
<1>0. StoreTypes /\ WorkerTypes /\ WorldTypes /\ troubles \in Nat
  OBVIOUS
<1>w. UNCHANGED world => WorldTypes'
  BY <1>0 DEF WorldTypes, world
<1>k. SavedKubeconfig \in Machines
  BY <1>0, BootstrapAssumption, HeadIsMachine DEF SavedKubeconfig, First, WorldTypes
<1>1. CASE Fetch
  <2>1. pc = "fetch" /\ GoTo("mark") /\ UNCHANGED troubles /\ eps' \in Seq(Machines)
    BY <1>0, <1>1 DEF Fetch, WorkerTypes
  <2>2. WorldTypes'
    BY <1>0, <1>1, <1>k DEF Fetch, WorldTypes
  <2> QED BY <2>1, <2>2, GoesOn DEF PCs
<1>2. CASE FetchFails
  <2>1. pc = "fetch" /\ GoTo("retry") /\ UNCHANGED world /\ eps' \in Seq(Machines)
        /\ (Trouble \/ UNCHANGED troubles)
    BY <1>0, <1>2 DEF FetchFails, WorkerTypes
  <2> QED BY <1>w, <2>1, GoesOn DEF PCs
<1>3. CASE FetchTimesOut
  <2>1. pc = "fetch" /\ Done(FALSE) /\ UNCHANGED <<boot, cache, lag>> /\ UNCHANGED world
        /\ Trouble
    BY <1>3 DEF FetchTimesOut
  <2>2. StoreTypes'
    BY <1>0, <2>1 DEF StoreTypes
  <2> QED BY <1>w, <2>1, <2>2, Ends
<1>4. CASE SaveFails
  <2>1. pc = "fetch" /\ GoTo("setError") /\ Trouble /\ eps' \in Seq(Machines)
    BY <1>0, <1>4 DEF SaveFails, WorkerTypes
  <2>2. WorldTypes'
    BY <1>0, <1>4, <1>k DEF SaveFails, WorldTypes
  <2> QED BY <2>1, <2>2, GoesOn DEF PCs
<1>5. CASE MarkStored
  <2>1. pc = "mark" /\ Save([obj EXCEPT !.stored = TRUE], "probe")
    BY <1>5 DEF MarkStored
  <2>2. [obj EXCEPT !.stored = TRUE] \in TalosClusterBootstrap
    BY <1>0, <2>1, BootstrapUpdates DEF WorkerTypes
  <2> QED BY <2>1, <2>2, SaveType DEF PCs
<1> QED BY <1>1, <1>2, <1>3, <1>4, <1>5

\* What is reported is a bootstrap.
LEMMA ReportedType ==
    ASSUME obj \in TalosClusterBootstrap, pc \in {"setError", "retry", "unreachable"}
    PROVE  Reported \in TalosClusterBootstrap
<1>1. {"Error", "WaitingForKubeconfig", "WaitingForAPIServer"} \subseteq Phases
  BY DEF Phases
<1>2. CASE pc = "setError"
  BY <1>1, <1>2, BootstrapUpdates DEF Reported
<1>3. CASE pc = "retry"
  BY <1>1, <1>3, BootstrapUpdates DEF Reported
<1>4. CASE pc = "unreachable"
  BY <1>1, <1>4, BootstrapUpdates DEF Reported
<1> QED BY <1>2, <1>3, <1>4

\* The probe and the reports.
LEMMA ProbeTypes ==
    ASSUME TypeOK, SecretMissing \/ Unreachable \/ Complete \/ Report
    PROVE  TypeOK'
<1> USE TypeParts
<1>0. StoreTypes /\ WorkerTypes /\ WorldTypes /\ troubles \in Nat
  OBVIOUS
<1>w. UNCHANGED world => WorldTypes'
  BY <1>0 DEF WorldTypes, world
<1>1. CASE SecretMissing
  <2>1. pc = "probe" /\ GoTo("setError") /\ UNCHANGED world /\ eps' \in Seq(Machines)
        /\ (Trouble \/ UNCHANGED troubles)
    BY <1>0, <1>1 DEF SecretMissing, WorkerTypes
  <2> QED BY <1>w, <2>1, GoesOn DEF PCs
<1>2. CASE Unreachable
  <2>1. pc = "probe" /\ GoTo("unreachable") /\ UNCHANGED world /\ eps' \in Seq(Machines)
        /\ (Trouble \/ UNCHANGED troubles)
    BY <1>0, <1>2 DEF Unreachable, WorkerTypes
  <2> QED BY <1>w, <2>1, GoesOn DEF PCs
<1>3. CASE Complete
  <2> DEFINE o == [obj EXCEPT !.phase = "Completed", !.api = TRUE]
  <2>1. o \in TalosClusterBootstrap
    BY <1>0, <1>3, BootstrapUpdates DEF Complete, WorkerTypes, Phases
  <2>2. UNCHANGED cache /\ UNCHANGED world /\ (Accepted(o) \/ Refused(o))
        /\ (Done(TRUE) \/ Done(FALSE))
    BY <1>3 DEF Complete
  <2> HIDE DEF o
  <2> QED BY <2>1, <2>2, EndsWithWrite
<1>4. CASE Report
  <2>1. /\ UNCHANGED cache /\ UNCHANGED world
        /\ Accepted(Reported) \/ Refused(Reported)
        /\ Done(TRUE) /\ pc \in {"setError", "retry", "unreachable"}
    BY <1>4 DEF Report
  <2>2. Reported \in TalosClusterBootstrap
    BY <1>0, <2>1, ReportedType DEF WorkerTypes
  <2> QED BY <2>1, <2>2, EndsWithWrite
<1> QED BY <1>1, <1>2, <1>3, <1>4

\* The deletion of the resource.
LEMMA DeletionTypes ==
    ASSUME TypeOK, DeleteSecret \/ DeleteSecretFails \/ SkipSecret \/ RemoveFinalizer
    PROVE  TypeOK'
<1> USE TypeParts
<1>0. StoreTypes /\ WorkerTypes /\ WorldTypes /\ troubles \in Nat
  OBVIOUS
<1>w. UNCHANGED world => WorldTypes'
  BY <1>0 DEF WorldTypes, world
<1>1. CASE DeleteSecret
  <2>1. pc = "delete" /\ GoTo("final") /\ UNCHANGED troubles /\ eps' \in Seq(Machines)
    BY <1>0, <1>1 DEF DeleteSecret, WorkerTypes
  <2>2. WorldTypes'
    BY <1>0, <1>1 DEF DeleteSecret, WorldTypes
  <2> QED BY <2>1, <2>2, GoesOn DEF PCs
<1>2. CASE DeleteSecretFails
  <2>1. pc = "delete" /\ Done(TRUE) /\ Trouble /\ UNCHANGED <<boot, cache, lag>>
    BY <1>2 DEF DeleteSecretFails
  <2>2. WorldTypes'
    BY <1>0, <1>2 DEF DeleteSecretFails, WorldTypes
  <2>3. StoreTypes'
    BY <1>0, <2>1 DEF StoreTypes
  <2> QED BY <2>1, <2>2, <2>3, Ends
<1>3. CASE SkipSecret
  <2>1. pc = "delete" /\ GoTo("final") /\ UNCHANGED world /\ eps' \in Seq(Machines)
        /\ (Trouble \/ UNCHANGED troubles)
    BY <1>0, <1>3 DEF SkipSecret, WorkerTypes
  <2> QED BY <1>w, <2>1, GoesOn DEF PCs
<1>4. CASE RemoveFinalizer
  <2>1. UNCHANGED world /\ UNCHANGED cache /\ (Trouble \/ UNCHANGED troubles)
        /\ (Done(TRUE) \/ Done(FALSE))
    BY <1>4 DEF RemoveFinalizer
  <2>2. boot' \in {None, boot} /\ lag' \in {"loud", lag}
    BY <1>4 DEF RemoveFinalizer
  <2>3. StoreTypes'
    BY <1>0, <2>1, <2>2 DEF StoreTypes
  <2> QED BY <1>w, <2>1, <2>3, Ends
<1> QED BY <1>1, <1>2, <1>3, <1>4

\* The watch, the user and crashes.
LEMMA UserTypes ==
    ASSUME TypeOK, Deliver \/ User \/ Crash
    PROVE  TypeOK'
<1> USE TypeParts
<1>0. StoreTypes /\ WorkerTypes /\ WorldTypes /\ troubles \in Nat
  OBVIOUS
<1>w. UNCHANGED world => WorldTypes'
  BY <1>0 DEF WorldTypes, world
<1>1. CASE Deliver
  <2>1. StoreTypes'
    BY <1>0, <1>1 DEF Deliver, StoreTypes
  <2>2. (queued \/ lag = "loud") \in BOOLEAN
    OBVIOUS
  <2>3. WorkerTypes'
    BY <1>0, <1>1, <2>2 DEF Deliver, WorkerTypes
  <2> QED BY <1>0, <1>1, <1>w, <2>1, <2>3 DEF Deliver
<1>2. ASSUME NEW o \in TalosClusterBootstrap \cup {None}, UserWrites(o), Trouble
      PROVE  TypeOK'
  <2>1. StoreTypes'
    BY <1>0, <1>2 DEF UserWrites, StoreTypes
  <2>2. WorkerTypes'
    BY <1>0, <1>2 DEF UserWrites, WorkerTypes
  <2> QED BY <1>0, <1>2, <1>w, <2>1, <2>2, TroubleType DEF UserWrites
<1>3. CASE EditRef
  <2>1. boot \in TalosClusterBootstrap
    BY <1>0, <1>3 DEF EditRef, StoreTypes
  <2> QED BY <1>2, <1>3, <2>1, BootstrapUpdates DEF EditRef
<1>4. CASE DeleteBootstrap
  <2>1. boot \in TalosClusterBootstrap
    BY <1>0, <1>4 DEF DeleteBootstrap, StoreTypes
  <2>2. [boot EXCEPT !.deleting = TRUE, !.gen = @ + 1] \in TalosClusterBootstrap
    BY <2>1, BootstrapUpdates
  <2>3. CASE boot.fin
    BY <1>2, <1>4, <2>2, <2>3 DEF DeleteBootstrap
  <2>4. CASE ~boot.fin
    BY <1>2, <1>4, <2>4 DEF DeleteBootstrap
  <2> QED BY <2>3, <2>4
<1>5. CASE CreateBootstrap
  BY <1>2, <1>5, NewType DEF CreateBootstrap
<1>6. CASE Crash
  <2>1. StoreTypes'
    BY <1>0, <1>6 DEF Crash, StoreTypes
  <2>2. (boot # None) \in BOOLEAN
    OBVIOUS
  <2> QED BY <1>6, <1>w, <2>1, <2>2, Ends DEF Crash
<1> QED BY <1>1, <1>3, <1>4, <1>5, <1>6 DEF User

\* A list of endpoints without the one at position i.
LEMMA RemovedType ==
    ASSUME NEW list \in Seq(Machines), Len(list) > 1, NEW i \in 1 .. Len(list)
    PROVE  /\ RemovedAt(list, i) \in Seq(Machines) \ {<<>>}
           /\ i # 1 => Head(RemovedAt(list, i)) = Head(list)
<1> DEFINE n == Len(list) - 1
           r == [j \in 1 .. n |-> list[IF j < i THEN j ELSE j + 1]]
<1>1. n \in Nat /\ n >= 1 /\ Len(list) = n + 1
  BY LenProperties
<1>2. \A j \in 1 .. n : (IF j < i THEN j ELSE j + 1) \in 1 .. Len(list)
  BY <1>1
<1>3. \A j \in 1 .. n : list[IF j < i THEN j ELSE j + 1] \in Machines
  BY <1>2, ElementOfSeq
<1>4. r \in [1 .. n -> Machines]
  BY <1>3
<1>5. r \in Seq(Machines)
  BY <1>1, <1>4, SeqDef
<1>6. DOMAIN r = 1 .. n /\ 1 \in 1 .. n
  BY <1>1
<1>7. r # <<>>
  <2>1. DOMAIN r = 1 .. Len(r)
    BY <1>5, LenProperties
  <2>2. 1 \in 1 .. Len(r) /\ Len(r) \in Nat
    BY <1>5, <1>6, <2>1, LenProperties
  <2> HIDE DEF r
  <2>3. Len(r) # 0
    BY <2>2
  <2> QED BY <2>3, EmptySeq
<1>8. RemovedAt(list, i) = r
  BY DEF RemovedAt
<1>9. ASSUME i # 1 PROVE Head(r) = Head(list)
  <2>1. r[1] = list[1]
    BY <1>6, <1>9
  <2>2. list # <<>>
    BY EmptySeq
  <2> QED BY <1>5, <1>7, <2>1, <2>2, HeadIsMachine
<1> HIDE DEF r
<1> QED BY <1>5, <1>7, <1>8, <1>9

\* A step of the others.
LEMMA AsideType ==
    ASSUME TypeOK, OutsideStep, queued' \in BOOLEAN, WorldTypes',
           Trouble \/ UNCHANGED troubles
    PROVE  TypeOK'
<1>1. StoreTypes'
  BY TypeParts DEF StoreTypes, OutsideStep
<1>2. WorkerTypes'
  BY TypeParts DEF WorkerTypes, OutsideStep
<1> QED BY <1>1, <1>2, TroubleType, TypeParts

\* A machine and its TalosNode.
LEMMA MachineTypes ==
    ASSUME TypeOK, NEW m \in Machines, Machine(m)
    PROVE  TypeOK'
<1> USE TypeParts
<1>0. StoreTypes /\ WorkerTypes /\ WorldTypes /\ troubles \in Nat
  OBVIOUS
<1>q. queued \in BOOLEAN
  BY <1>0 DEF WorkerTypes
<1>1. CASE Configure(m)
  BY <1>0, <1>1, <1>q, AsideType DEF Configure, WorldTypes
<1>2. CASE BecomeReady(m)
  <2>1. (queued \/ (cache # None /\ cache.ref)) \in BOOLEAN
    OBVIOUS
  <2>2. queued' \in BOOLEAN /\ UNCHANGED troubles /\ OutsideStep
    BY <1>2, <2>1 DEF BecomeReady
  <2>3. WorldTypes'
    BY <1>0, <1>2 DEF BecomeReady, WorldTypes
  <2> QED BY <2>2, <2>3, AsideType
<1>3. CASE BecomeUnready(m)
  BY <1>0, <1>3, <1>q, AsideType DEF BecomeUnready, WorldTypes
<1>4. CASE Join(m)
  BY <1>0, <1>4, <1>q, AsideType DEF Join, WorldTypes
<1>5. CASE Wipe(m)
  <2>1. (calm /\ m # First) \in BOOLEAN
    OBVIOUS
  <2>2. WorldTypes'
    BY <1>0, <1>5, <2>1 DEF Wipe, WorldTypes
  <2> QED BY <1>5, <1>q, <2>2, AsideType DEF Wipe
<1>6. CASE MachineDies(m)
  BY <1>0, <1>6, <1>q, AsideType DEF MachineDies, WorldTypes
<1>7. CASE RemoveNode(m)
  <2>1. (calm /\ m # First) \in BOOLEAN
    OBVIOUS
  <2>2. PICK i \in 1 .. Len(cluster) : cluster' = RemovedAt(cluster, i)
    BY <1>7 DEF RemoveNode
  <2>3. cluster' \in Seq(Machines) \ {<<>>}
    BY <1>0, <1>7, <2>2, RemovedType DEF RemoveNode, WorldTypes
  <2>4. WorldTypes'
    BY <1>0, <1>7, <2>1, <2>3 DEF RemoveNode, WorldTypes
  <2> QED BY <1>7, <1>q, <2>4, AsideType DEF RemoveNode
<1> QED BY <1>1, <1>2, <1>3, <1>4, <1>5, <1>6, <1>7 DEF Machine

\* The kubeconfig, the endpoints and the cluster.
LEMMA ClusterTypes ==
    ASSUME TypeOK, RefreshKubeconfig \/ EditEndpoints \/ RemoveCluster \/ CollectSecret
    PROVE  TypeOK'
<1> USE TypeParts
<1>0. StoreTypes /\ WorkerTypes /\ WorldTypes /\ troubles \in Nat
  OBVIOUS
<1>q. queued \in BOOLEAN
  BY <1>0 DEF WorkerTypes
<1>1. CASE RefreshKubeconfig
  <2>1. cluster # None => Head(cluster) \in Machines
    BY <1>0, HeadIsMachine DEF WorldTypes
  <2>2. WorldTypes' /\ OutsideStep /\ UNCHANGED queued /\ (Trouble \/ UNCHANGED troubles)
    BY <1>0, <1>1, <2>1 DEF RefreshKubeconfig, WorldTypes
  <2> QED BY <1>q, <2>2, AsideType
<1>2. CASE EditEndpoints
  <2>1. cluster \in Seq(Machines) \ {<<>>}
    BY <1>0, <1>2 DEF EditEndpoints, WorldTypes
  <2>2. PICK i \in 2 .. Len(cluster) :
          cluster' = [cluster EXCEPT ![1] = cluster[i], ![i] = cluster[1]]
    BY <1>2 DEF EditEndpoints
  <2>3. /\ i \in 1 .. Len(cluster) /\ 1 \in 1 .. Len(cluster)
        /\ cluster \in [1 .. Len(cluster) -> Machines] /\ Len(cluster) \in Nat
    BY <2>1, <2>2, LenProperties
  <2>4. cluster' \in [1 .. Len(cluster) -> Machines]
    BY <2>2, <2>3
  <2>5. cluster' \in Seq(Machines) /\ cluster' # <<>>
    BY <2>3, <2>4, SeqDef
  <2>6. WorldTypes'
    BY <1>0, <1>2, <2>5 DEF EditEndpoints, WorldTypes
  <2> QED BY <1>2, <1>q, <2>6, AsideType DEF EditEndpoints
<1>3. CASE RemoveCluster
  BY <1>0, <1>3, <1>q, AsideType DEF RemoveCluster, WorldTypes
<1>4. CASE CollectSecret
  BY <1>0, <1>4, <1>q, AsideType DEF CollectSecret, WorldTypes
<1> QED BY <1>1, <1>2, <1>3, <1>4

\* The initial state has its types.
LEMMA InitTypes == Init => TypeOK
<1> SUFFICES ASSUME Init PROVE TypeOK
  OBVIOUS
<1> USE TypeParts
<1>1. StoreTypes
  BY NewType DEF Init, StoreTypes
<1>2. WorkerTypes
  BY EmptySeq DEF Init, WorkerTypes, PCs
<1>3. WorldTypes
  BY BootstrapAssumption DEF Init, WorldTypes
<1>4. troubles \in Nat
  BY DEF Init
<1> QED BY <1>1, <1>2, <1>3, <1>4

\* Every step keeps the types.
LEMMA NextTypes == TypeOK /\ [Next]_vars => TypeOK'
<1> SUFFICES ASSUME TypeOK, [Next]_vars PROVE TypeOK'
  OBVIOUS
<1>1. CASE Reconcile
  BY <1>1, StartTypes, BootstrapTypes, KubeconfigTypes, ProbeTypes, DeletionTypes
     DEF Reconcile
<1>2. CASE Deliver \/ User \/ Crash
  BY <1>2, UserTypes
<1>3. CASE Others
  BY <1>3, MachineTypes, ClusterTypes DEF Others
<1>4. CASE UNCHANGED vars
  BY <1>4 DEF vars, worker, world, TypeOK
<1> QED BY <1>1, <1>2, <1>3, <1>4 DEF Next

\* Every variable keeps its type.
THEOREM TypeCorrect == Spec => []TypeOK
BY InitTypes, NextTypes, PTL DEF Spec

-----------------------------------------------------------------------------
(* What the worker knows and what is recorded                              *)

BInv == TypeOK /\ BootstrapDiscipline

At == {"start", "dial", "bootstrap", "record", "fetch", "mark", "probe",
       "setError", "retry", "unreachable"}

\* The worker's copy is a bootstrap.
LEMMA WorkerCopy ==
    BInv /\ pc # "idle" => obj \in TalosClusterBootstrap /\ obj # None
  BY NoneAssumption DEF BInv, TypeOK

\* Outcomes of a write of o to the API server.
LEMMA WriteOutcome ==
    ASSUME NEW o, Accepted(o) \/ Refused(o)
    PROVE  \/ UNCHANGED <<boot, lag>>
           \/ fresh /\ boot' = o /\ lag' # "none"
  BY DEF Accepted, Refused, Write

\* A step that leaves resource, copies and worker alone, or returns, and neither
\* takes the kubeconfig away from a cluster nor returns it to a worker that has
\* deleted it.
LEMMA AsideKeeps ==
    ASSUME BInv, UNCHANGED <<boot, cache, lag>>,
           \/ UNCHANGED <<pc, obj, fresh>>
           \/ pc' = "idle" /\ obj' = None /\ fresh' = FALSE,
           cluster' # None => cluster # None,
           kubeconfig # None /\ cluster' # None => kubeconfig' # None,
           pc' = "final" /\ kubeconfig = None => kubeconfig' = None
    PROVE  BootstrapDiscipline'
<1> USE DEF BInv, BootstrapDiscipline
<1>1. CopiesTrue'
  BY DEF CopiesTrue
<1>2. WorkerKnows'
  BY DEF WorkerKnows
<1>3. NewStartsOver'
  BY DEF NewStartsOver
<1>4. SecretWhereClaimed'
  BY DEF SecretWhereClaimed, ClaimIsStored
<1> QED BY <1>1, <1>2, <1>3, <1>4

\* A worker that goes on with the same copy.
LEMMA GoToKeeps ==
    ASSUME BInv, pc \in At, pc = "start" => obj.fin,
           NEW next \in At \ {"start", "dial"}, GoTo(next),
           next = "bootstrap" => pc = "dial" /\ ~obj.done,
           next = "mark" => kubeconfig' # None,
           UNCHANGED cluster,
           kubeconfig # None => kubeconfig' # None
    PROVE  BootstrapDiscipline'
<1> USE DEF BInv, BootstrapDiscipline
<1>1. UNCHANGED <<boot, cache, lag, obj, fresh>> /\ pc' = next
  BY DEF GoTo
<1>2. CopiesTrue'
  BY <1>1 DEF CopiesTrue, At
<1>3. WorkerKnows'
  BY <1>1 DEF WorkerKnows, At
<1>4. NewStartsOver'
  BY <1>1 DEF NewStartsOver
<1>5. SecretWhereClaimed'
  BY <1>1 DEF SecretWhereClaimed, ClaimIsStored, At
<1> QED BY <1>2, <1>3, <1>4, <1>5

\* What the worker writes outside a deletion: it is no deletion, it has the
\* finalizer, and claims a kubeconfig only where there is one.
Writable(o) ==
    /\ o \in TalosClusterBootstrap
    /\ ~o.deleting /\ o.fin
    /\ o.stored => obj.stored \/ kubeconfig # None \/ cluster = None

\* A write of the worker, after which it returns or goes on with what it wrote.
LEMMA WriteKeeps ==
    ASSUME BInv, pc \in At, NEW o, Writable(o),
           Accepted(o) \/ Refused(o),
           UNCHANGED cache, UNCHANGED <<cluster, kubeconfig>>,
           \/ pc' = "idle" /\ obj' = None /\ fresh' = FALSE
           \/ /\ fresh /\ boot' = o /\ obj' = o /\ fresh' = fresh
              /\ pc' \in At \ {"bootstrap", "mark"}
              /\ ~UpToDate(o)
    PROVE  BootstrapDiscipline'
<1> USE DEF BInv, BootstrapDiscipline
<1>1. \/ UNCHANGED <<boot, lag>>
      \/ fresh /\ boot' = o /\ lag' # "none"
  BY WriteOutcome
<1>2. o # None
  BY NoneAssumption DEF Writable
<1>3. fresh => obj = boot /\ boot # None /\ ~obj.deleting /\ ~boot.deleting
  BY DEF CopiesTrue, WorkerKnows, At
<1>d. o.deleting = FALSE /\ obj.deleting = FALSE
  <2>1. o \in TalosClusterBootstrap /\ obj \in TalosClusterBootstrap
    BY WorkerCopy DEF Writable, At
  <2>2. ~o.deleting /\ ~obj.deleting
    BY DEF Writable, WorkerKnows, At
  <2> QED BY <2>1, <2>2 DEF TalosClusterBootstrap
<1>4. CopiesTrue'
  BY <1>1, <1>2, <1>3, <1>d DEF CopiesTrue, At
<1>5. WorkerKnows'
  BY <1>1, <1>2, <1>3 DEF WorkerKnows, Writable, At
<1>6. fresh => ~cache.deleting
  BY <1>3 DEF CopiesTrue
<1>7. NewStartsOver'
  BY <1>1, <1>2, <1>3, <1>6 DEF NewStartsOver, Writable
<1>8. SecretWhereClaimed'
  BY <1>1, <1>2, <1>3 DEF SecretWhereClaimed, ClaimIsStored, Writable, At
<1> QED BY <1>4, <1>5, <1>7, <1>8

\* Writes whose error Reconcile returns.
LEMMA SaveKeeps ==
    ASSUME BInv, pc \in At, NEW o, Writable(o), ~UpToDate(o),
           NEW next \in At \ {"bootstrap", "mark"}, Save(o, next)
    PROVE  BootstrapDiscipline'
<1>1. (Accepted(o) \/ Refused(o)) /\ UNCHANGED cache /\ UNCHANGED <<cluster, kubeconfig>>
  BY DEF Save, world
<1>2. CASE Done(TRUE)
  BY <1>1, <1>2, WriteKeeps DEF Done
<1>3. CASE Accepted(o) /\ obj' = o /\ pc' = next /\ UNCHANGED fresh
  BY <1>1, <1>3, WriteKeeps DEF Accepted, Write
<1> QED BY <1>2, <1>3 DEF Save

\* The fields that the handlers' writes set and leave.
LEMMA FieldsWritten ==
    ASSUME NEW o \in TalosClusterBootstrap
    PROVE  /\ \A p \in Phases :
                LET q == [o EXCEPT !.phase = p] IN
                /\ q.deleting = o.deleting /\ q.fin = o.fin /\ q.stored = o.stored
                /\ q.done = o.done /\ q.phase = p
           /\ \A p \in Phases, b \in BOOLEAN :
                LET q == [o EXCEPT !.phase = p, !.api = b] IN
                /\ q.deleting = o.deleting /\ q.fin = o.fin /\ q.stored = o.stored
                /\ q.done = o.done /\ q.phase = p
           /\ LET q == Begun(o) IN
                /\ q.deleting = o.deleting /\ q.fin = o.fin /\ q.stored = o.stored
                /\ q.done = o.done /\ q.phase = "Bootstrapping"
           /\ LET q == [o EXCEPT !.fin = TRUE] IN
                /\ q.deleting = o.deleting /\ q.fin /\ q.stored = o.stored
                /\ q.done = o.done /\ (UpToDate(q) => UpToDate(o))
           /\ LET q == [o EXCEPT !.done = TRUE] IN
                /\ q.deleting = o.deleting /\ q.fin = o.fin /\ q.stored = o.stored
                /\ q.done /\ (UpToDate(q) => UpToDate(o))
           /\ LET q == [o EXCEPT !.stored = TRUE] IN
                /\ q.deleting = o.deleting /\ q.fin = o.fin /\ q.stored
                /\ q.done = o.done /\ (UpToDate(q) => UpToDate(o))
  BY DEF TalosClusterBootstrap, Begun, UpToDate


\* The worker takes a copy that needs something.
LEMMA GetKeeps == BInv /\ Get => BootstrapDiscipline'
<1> SUFFICES ASSUME BInv, Get PROVE BootstrapDiscipline'
  OBVIOUS
<1> USE DEF BInv, BootstrapDiscipline
<1>0. pc = "idle" /\ UNCHANGED <<boot, cache, lag>> /\ UNCHANGED <<cluster, kubeconfig>>
  BY DEF Get, world
<1>1. CASE cache = None \/ NeedsNothing(cache)
  <2>1. UNCHANGED <<pc, obj, fresh>>
    BY <1>1 DEF Get
  <2> QED BY <1>0, <2>1, AsideKeeps
<1>2. CASE ~(cache = None \/ NeedsNothing(cache))
  <2>1. /\ pc' = IF cache.deleting THEN "delete" ELSE "start"
        /\ obj' = cache
        /\ fresh' = (lag = "none")
    BY <1>2 DEF Get
  <2>2. cache # None /\ cache \in TalosClusterBootstrap
    BY <1>2 DEF TypeOK
  <2>3. CopiesTrue'
    BY <1>0, <2>1, <2>2 DEF CopiesTrue
  <2>4. WorkerKnows'
    <3>1. CASE cache.deleting
      <4>1. cache.fin
        BY <1>2, <3>1 DEF NeedsNothing
      <4> QED BY <1>0, <2>1, <3>1, <4>1 DEF WorkerKnows
    <3>2. CASE ~cache.deleting
      <4>1. ~UpToDate(cache)
        BY <1>2, <2>2, <3>2 DEF NeedsNothing, UpToDate, WorkerKnows
      <4> QED BY <1>0, <2>1, <3>2, <4>1 DEF WorkerKnows
    <3> QED BY <3>1, <3>2
  <2>5. NewStartsOver'
    BY <1>0, <2>1 DEF NewStartsOver
  <2>6. SecretWhereClaimed'
    BY <1>0, <2>1 DEF SecretWhereClaimed, ClaimIsStored
  <2> QED BY <2>3, <2>4, <2>5, <2>6
<1> QED BY <1>1, <1>2

\* The phase WaitingForNodes.
LEMMA WaitKeeps == BInv /\ WaitForNodes => BootstrapDiscipline'
<1> SUFFICES ASSUME BInv, WaitForNodes PROVE BootstrapDiscipline'
  OBVIOUS
<1> DEFINE o == [obj EXCEPT !.phase = "WaitingForNodes"]
<1>0. pc = "start" /\ obj.fin /\ UNCHANGED cache /\ UNCHANGED <<cluster, kubeconfig>>
  BY DEF WaitForNodes, Reads, world
<1>1. obj \in TalosClusterBootstrap /\ ~obj.deleting
  BY <1>0, WorkerCopy DEF BInv, BootstrapDiscipline, WorkerKnows
<1>2. /\ o \in TalosClusterBootstrap /\ "WaitingForNodes" \in Phases
      /\ o.deleting = obj.deleting /\ o.fin = obj.fin /\ o.stored = obj.stored
      /\ o.phase = "WaitingForNodes"
  <2>1. "WaitingForNodes" \in Phases
    BY DEF Phases
  <2>2. o \in TalosClusterBootstrap
    BY <1>1, <2>1, BootstrapUpdates
  <2>3. /\ o.deleting = obj.deleting /\ o.fin = obj.fin /\ o.stored = obj.stored
        /\ o.phase = "WaitingForNodes"
    BY <1>1 DEF TalosClusterBootstrap
  <2> QED BY <2>1, <2>2, <2>3
<1>3. Writable(o)
  BY <1>0, <1>1, <1>2 DEF Writable
<1> HIDE DEF o
<1>4. CASE Accepted(o) /\ Done(TRUE)
  BY <1>0, <1>3, <1>4, WriteKeeps DEF Done, At
<1>5. CASE /\ Refused(o)
           /\ pc' = "setError"
           /\ fresh' = (fresh /\ boot' = boot)
           /\ UNCHANGED obj
  <2> USE DEF BInv, BootstrapDiscipline
  <2>1. \/ UNCHANGED <<boot, lag>>
        \/ fresh /\ boot' = o /\ lag' # "none"
    BY <1>5, WriteOutcome
  <2>2. o # None /\ (fresh => obj = boot /\ boot # None /\ ~boot.deleting)
    BY <1>1, <1>2, NoneAssumption DEF CopiesTrue
  <2>3. fresh' => fresh /\ boot' = boot
    BY <1>5
  <2>4. CopiesTrue'
    BY <1>0, <1>5, <2>1, <2>2, <2>3 DEF CopiesTrue
  <2>5. WorkerKnows'
    BY <1>0, <1>1, <1>2, <1>5, <2>1, <2>2 DEF WorkerKnows
  <2>6. NewStartsOver'
    BY <1>0, <1>1, <1>2, <1>5, <2>1, <2>2 DEF NewStartsOver
  <2>7. SecretWhereClaimed'
    BY <1>0, <1>1, <1>2, <1>5, <2>1, <2>2 DEF SecretWhereClaimed, ClaimIsStored
  <2> QED BY <2>4, <2>5, <2>6, <2>7
<1> QED BY <1>4, <1>5 DEF WaitForNodes, o

\* The start of Reconcile, up to phase Bootstrapping.
LEMMA StartKeeps ==
    ASSUME BInv, AddFinalizer \/ ReadsFail \/ ShortCircuit \/ BeginBootstrap
    PROVE  BootstrapDiscipline'
<1>0. pc = "start" /\ obj \in TalosClusterBootstrap /\ ~obj.deleting /\ ~UpToDate(obj)
  <2>1. pc = "start"
    BY DEF AddFinalizer, ReadsFail, ShortCircuit, BeginBootstrap, Reads
  <2> QED BY <2>1, WorkerCopy DEF BInv, BootstrapDiscipline, WorkerKnows
<1>1. CASE AddFinalizer
  <2> DEFINE o == [obj EXCEPT !.fin = TRUE]
  <2>1. Writable(o) /\ ~UpToDate(o)
    BY <1>0, BootstrapUpdates, FieldsWritten DEF Writable
  <2>2. Save(o, "start")
    BY <1>1 DEF AddFinalizer
  <2> HIDE DEF o
  <2> QED BY <1>0, <2>1, <2>2, SaveKeeps DEF At
<1>2. CASE ReadsFail
  <2>1. obj.fin /\ GoTo("setError") /\ UNCHANGED <<cluster, kubeconfig>>
    BY <1>2 DEF ReadsFail, world
  <2> QED BY <1>0, <2>1, GoToKeeps DEF At
<1>3. CASE ShortCircuit
  <2>1. obj.fin /\ GoTo("probe") /\ UNCHANGED <<cluster, kubeconfig>>
    BY <1>3 DEF ShortCircuit, Reads, world
  <2> QED BY <1>0, <2>1, GoToKeeps DEF At
<1>4. CASE BeginBootstrap
  <2> DEFINE o == Begun(obj)
  <2>1. obj.fin /\ UNCHANGED cache /\ UNCHANGED <<cluster, kubeconfig>>
    BY <1>4 DEF BeginBootstrap, Reads, world
  <2>2. Writable(o) /\ ~UpToDate(o)
    BY <1>0, <2>1, BootstrapUpdates, FieldsWritten DEF Writable, UpToDate
  <2>3. \/ Accepted(o) /\ obj' = o /\ pc' = "dial" /\ UNCHANGED fresh
        \/ Refused(o) /\ Done(TRUE)
    BY <1>4 DEF BeginBootstrap
  <2> HIDE DEF o
  <2>4. CASE Accepted(o) /\ obj' = o /\ pc' = "dial" /\ UNCHANGED fresh
    BY <1>0, <2>1, <2>2, <2>4, WriteKeeps DEF Accepted, Write, At
  <2>5. CASE Refused(o) /\ Done(TRUE)
    BY <1>0, <2>1, <2>2, <2>5, WriteKeeps DEF Done, At
  <2> QED BY <2>3, <2>4, <2>5
<1> QED BY <1>1, <1>2, <1>3, <1>4

\* The dial and the Bootstrap call.
LEMMA BootstrapKeeps ==
    ASSUME BInv,
           \/ Dial \/ DialFails \/ Bootstrap \/ BootstrapFails
           \/ BootstrapTimesOut \/ RecordBootstrap
    PROVE  BootstrapDiscipline'
<1>1. CASE Dial
  <2> DEFINE next == IF obj.done THEN "fetch" ELSE "bootstrap"
  <2>1. pc = "dial" /\ GoTo(next) /\ UNCHANGED <<cluster, kubeconfig>>
    BY <1>1 DEF Dial, world
  <2>2. next \in {"fetch", "bootstrap"} /\ (next = "bootstrap" => ~obj.done)
    OBVIOUS
  <2> HIDE DEF next
  <2> QED BY <2>1, <2>2, GoToKeeps DEF At
<1>2. CASE DialFails
  <2>1. pc = "dial" /\ GoTo("setError") /\ UNCHANGED <<cluster, kubeconfig>>
    BY <1>2 DEF DialFails, world
  <2> QED BY <2>1, GoToKeeps DEF At
<1>3. CASE Bootstrap
  <2>1. pc = "bootstrap" /\ GoTo("record") /\ UNCHANGED <<cluster, kubeconfig>>
    BY <1>3 DEF Bootstrap
  <2> QED BY <2>1, GoToKeeps DEF At
<1>4. CASE BootstrapFails
  <2>1. pc = "bootstrap" /\ GoTo("setError") /\ UNCHANGED <<cluster, kubeconfig>>
    BY <1>4 DEF BootstrapFails
  <2> QED BY <2>1, GoToKeeps DEF At
<1>5. CASE BootstrapTimesOut
  <2>1. Done(FALSE) /\ UNCHANGED <<boot, cache, lag>> /\ UNCHANGED <<cluster, kubeconfig>>
    BY <1>5 DEF BootstrapTimesOut
  <2> QED BY <2>1, AsideKeeps DEF Done
<1>6. CASE RecordBootstrap
  <2> DEFINE o == [obj EXCEPT !.done = TRUE]
  <2>1. pc = "record" /\ Save(o, "fetch")
    BY <1>6 DEF RecordBootstrap
  <2>2. /\ obj \in TalosClusterBootstrap /\ ~obj.deleting /\ obj.fin
        /\ ~UpToDate(obj)
    BY <2>1, WorkerCopy DEF BInv, BootstrapDiscipline, WorkerKnows
  <2>3. Writable(o) /\ ~UpToDate(o)
    <3>1. o \in TalosClusterBootstrap
      BY <2>2, BootstrapUpdates
    <3>2. /\ o.deleting = obj.deleting /\ o.fin = obj.fin
          /\ o.stored => obj.stored \/ kubeconfig # None \/ cluster = None
          /\ UpToDate(o) => UpToDate(obj)
      BY <2>2 DEF TalosClusterBootstrap, UpToDate
    <3> QED BY <2>2, <3>1, <3>2 DEF Writable
  <2> HIDE DEF o
  <2> QED BY <2>1, <2>3, SaveKeeps DEF At
<1> QED BY <1>1, <1>2, <1>3, <1>4, <1>5, <1>6

\* Storing a kubeconfig leaves one.
LEMMA SavedIsThere ==
    ASSUME BInv
    PROVE  SavedKubeconfig # None
<1>1. First \in Machines
  BY BootstrapAssumption, HeadIsMachine DEF First
<1> QED BY <1>1, BootstrapAssumption DEF SavedKubeconfig

\* The kubeconfig is fetched and stored.
LEMMA KubeconfigKeeps ==
    ASSUME BInv, Fetch \/ FetchFails \/ FetchTimesOut \/ SaveFails \/ MarkStored
    PROVE  BootstrapDiscipline'
<1>1. CASE Fetch
  <2>1. pc = "fetch" /\ GoTo("mark") /\ UNCHANGED cluster /\ kubeconfig' # None
    BY <1>1, SavedIsThere DEF Fetch
  <2> QED BY <2>1, GoToKeeps DEF At
<1>2. CASE FetchFails
  <2>1. pc = "fetch" /\ GoTo("retry") /\ UNCHANGED <<cluster, kubeconfig>>
    BY <1>2 DEF FetchFails, world
  <2> QED BY <2>1, GoToKeeps DEF At
<1>3. CASE FetchTimesOut
  <2>1. Done(FALSE) /\ UNCHANGED <<boot, cache, lag>> /\ UNCHANGED <<cluster, kubeconfig>>
    BY <1>3 DEF FetchTimesOut, world
  <2> QED BY <2>1, AsideKeeps DEF Done
<1>4. CASE SaveFails
  <2>1. pc = "fetch" /\ GoTo("setError") /\ UNCHANGED cluster
        /\ (kubeconfig # None => kubeconfig' # None)
    BY <1>4, SavedIsThere DEF SaveFails
  <2> QED BY <2>1, GoToKeeps DEF At
<1>5. CASE MarkStored
  <2> DEFINE o == [obj EXCEPT !.stored = TRUE]
  <2>1. pc = "mark" /\ Save(o, "probe")
    BY <1>5 DEF MarkStored
  <2>2. /\ obj \in TalosClusterBootstrap /\ ~obj.deleting /\ obj.fin
        /\ ~UpToDate(obj)
        /\ kubeconfig # None \/ cluster = None
    BY <2>1, WorkerCopy DEF BInv, BootstrapDiscipline, WorkerKnows, SecretWhereClaimed
  <2>3. Writable(o) /\ ~UpToDate(o)
    <3>1. o \in TalosClusterBootstrap
      BY <2>2, BootstrapUpdates
    <3>2. /\ o.deleting = obj.deleting /\ o.fin = obj.fin
          /\ o.stored => obj.stored \/ kubeconfig # None \/ cluster = None
          /\ UpToDate(o) => UpToDate(obj)
      BY <2>2 DEF TalosClusterBootstrap, UpToDate
    <3> QED BY <2>2, <3>1, <3>2 DEF Writable
  <2> HIDE DEF o
  <2> QED BY <2>1, <2>3, SaveKeeps DEF At
<1> QED BY <1>1, <1>2, <1>3, <1>4, <1>5


\* What is reported is no deletion and not completed.
LEMMA ReportedFields ==
    ASSUME BInv, pc \in {"setError", "retry", "unreachable"}
    PROVE  Writable(Reported) /\ ~UpToDate(Reported)
<1>1. obj \in TalosClusterBootstrap /\ ~obj.deleting /\ obj.fin
  BY WorkerCopy DEF BInv, BootstrapDiscipline, WorkerKnows
<1>2. Reported \in TalosClusterBootstrap
  BY <1>1, ReportedType
<1>3. /\ Reported.deleting = obj.deleting /\ Reported.fin = obj.fin
      /\ Reported.stored = obj.stored /\ Reported.phase # "Completed"
  <2>1. CASE pc = "setError"
    BY <1>1, <2>1 DEF Reported, TalosClusterBootstrap
  <2>2. CASE pc = "retry"
    BY <1>1, <2>2 DEF Reported, TalosClusterBootstrap
  <2>3. CASE pc = "unreachable"
    BY <1>1, <2>3 DEF Reported, TalosClusterBootstrap
  <2> QED BY <2>1, <2>2, <2>3
<1> QED BY <1>1, <1>2, <1>3 DEF Writable, UpToDate

\* The probe and the reports.
LEMMA ProbeKeeps ==
    ASSUME BInv, SecretMissing \/ Unreachable \/ Complete \/ Report
    PROVE  BootstrapDiscipline'
<1>1. CASE SecretMissing
  <2>1. pc = "probe" /\ GoTo("setError") /\ UNCHANGED <<cluster, kubeconfig>>
    BY <1>1 DEF SecretMissing, world
  <2> QED BY <2>1, GoToKeeps DEF At
<1>2. CASE Unreachable
  <2>1. pc = "probe" /\ GoTo("unreachable") /\ UNCHANGED <<cluster, kubeconfig>>
    BY <1>2 DEF Unreachable, world
  <2> QED BY <2>1, GoToKeeps DEF At
<1>3. CASE Complete
  <2> DEFINE o == [obj EXCEPT !.phase = "Completed", !.api = TRUE]
  <2>1. /\ pc = "probe" /\ UNCHANGED cache /\ UNCHANGED <<cluster, kubeconfig>>
        /\ Accepted(o) \/ Refused(o)
        /\ Done(FALSE) \/ Done(TRUE)
    BY <1>3 DEF Complete, world
  <2>2. obj \in TalosClusterBootstrap /\ ~obj.deleting /\ obj.fin
    BY <2>1, WorkerCopy DEF BInv, BootstrapDiscipline, WorkerKnows
  <2>3. Writable(o)
    <3>1. "Completed" \in Phases
      BY DEF Phases
    <3>2. o \in TalosClusterBootstrap
      BY <2>2, <3>1, BootstrapUpdates
    <3>3. o.deleting = obj.deleting /\ o.fin = obj.fin /\ o.stored = obj.stored
      BY <2>2 DEF TalosClusterBootstrap
    <3> QED BY <2>2, <3>2, <3>3 DEF Writable
  <2> HIDE DEF o
  <2> QED BY <2>1, <2>3, WriteKeeps DEF Done, At
<1>4. CASE Report
  <2>1. /\ pc \in {"setError", "retry", "unreachable"}
        /\ UNCHANGED cache /\ UNCHANGED <<cluster, kubeconfig>>
        /\ Accepted(Reported) \/ Refused(Reported)
        /\ Done(TRUE)
    BY <1>4 DEF Report, world
  <2>2. Writable(Reported)
    BY <2>1, ReportedFields
  <2> QED BY <2>1, <2>2, WriteKeeps DEF Done, At
<1> QED BY <1>1, <1>2, <1>3, <1>4

\* The deletion of the resource: no live one has a claim to the Secret.
LEMMA DeletionKeeps ==
    ASSUME BInv, DeleteSecret \/ DeleteSecretFails \/ SkipSecret \/ RemoveFinalizer
    PROVE  BootstrapDiscipline'
<1> USE DEF BInv, BootstrapDiscipline
<1>0. /\ pc \in {"delete", "final"} /\ obj # None /\ obj.deleting
      /\ boot # None /\ ~boot.deleting => ~boot.stored
  <2>1. pc \in {"delete", "final"}
    BY DEF DeleteSecret, DeleteSecretFails, SkipSecret, RemoveFinalizer
  <2>2. obj # None /\ obj.deleting
    BY <2>1, WorkerCopy DEF WorkerKnows
  <2> QED BY <2>1, <2>2 DEF NewStartsOver
<1>1. ASSUME pc = "delete", GoTo("final"), UNCHANGED cluster,
             ~UnreliableReads /\ obj.ref /\ cluster # None => kubeconfig' = None
      PROVE  BootstrapDiscipline'
  <2>1. UNCHANGED <<boot, cache, lag, obj, fresh>> /\ pc' = "final"
    BY <1>1 DEF GoTo
  <2>2. CopiesTrue'
    BY <2>1 DEF CopiesTrue
  <2>3. WorkerKnows'
    BY <1>1, <2>1 DEF WorkerKnows
  <2>4. NewStartsOver'
    BY <2>1 DEF NewStartsOver
  <2>5. SecretWhereClaimed'
    BY <1>0, <1>1, <2>1 DEF SecretWhereClaimed, ClaimIsStored
  <2> QED BY <2>2, <2>3, <2>4, <2>5
<1>2. CASE DeleteSecret
  BY <1>1, <1>2 DEF DeleteSecret
<1>3. CASE SkipSecret
  BY <1>1, <1>3 DEF SkipSecret, world
<1>4. CASE DeleteSecretFails
  <2>1. UNCHANGED <<boot, cache, lag>> /\ pc' = "idle" /\ obj' = None /\ fresh' = FALSE
    BY <1>4 DEF DeleteSecretFails, Done
  <2>2. CopiesTrue' /\ WorkerKnows' /\ NewStartsOver'
    BY <2>1 DEF CopiesTrue, WorkerKnows, NewStartsOver
  <2>3. SecretWhereClaimed'
    BY <1>0, <2>1 DEF SecretWhereClaimed, ClaimIsStored
  <2> QED BY <2>2, <2>3
<1>5. CASE RemoveFinalizer
  <2>1. /\ UNCHANGED <<cache, cluster, kubeconfig>>
        /\ pc' = "idle" /\ obj' = None /\ fresh' = FALSE
    BY <1>5 DEF RemoveFinalizer, Done, world
  <2>2. \/ UNCHANGED <<boot, lag>>
        \/ boot' = None /\ lag' = "loud"
    BY <1>5 DEF RemoveFinalizer
  <2>3. CopiesTrue'
    BY <2>1, <2>2 DEF CopiesTrue
  <2>4. WorkerKnows'
    BY <2>1, <2>2 DEF WorkerKnows
  <2>5. NewStartsOver'
    BY <2>1, <2>2 DEF NewStartsOver
  <2>6. SecretWhereClaimed'
    BY <2>1, <2>2 DEF SecretWhereClaimed, ClaimIsStored
  <2> QED BY <2>3, <2>4, <2>5, <2>6
<1> QED BY <1>2, <1>3, <1>4, <1>5

\* What the user makes of a bootstrap: it is edited, it is being deleted or gone, or
\* it is a new one.
LEMMA UserOutcome ==
    ASSUME BInv, User
    PROVE  /\ UserWrites(boot')
           /\ \/ boot' = None
              \/ boot = None /\ boot' = NewBootstrap
              \/ /\ boot # None /\ boot' # None
                 /\ boot'.fin = boot.fin /\ boot'.phase = boot.phase
                 /\ boot'.done = boot.done /\ boot'.stored = boot.stored
                 /\ boot'.gen # boot.gen
                 /\ boot.deleting => boot'.deleting
<1>0. boot # None => boot \in TalosClusterBootstrap
  BY DEF BInv, TypeOK
<1>1. CASE EditRef
  <2> DEFINE o == [boot EXCEPT !.ref = ~@, !.gen = @ + 1]
  <2>1. boot \in TalosClusterBootstrap /\ boot # None /\ UserWrites(o)
    BY <1>0, <1>1 DEF EditRef
  <2>2. /\ o.fin = boot.fin /\ o.phase = boot.phase /\ o.done = boot.done
        /\ o.stored = boot.stored /\ o.deleting = boot.deleting
        /\ o.gen = boot.gen + 1 /\ boot.gen \in Nat
    BY <2>1 DEF TalosClusterBootstrap
  <2>3. o # None
    BY <2>1, BootstrapUpdates, NoneAssumption
  <2>4. boot' = o
    BY <2>1 DEF UserWrites
  <2> HIDE DEF o
  <2> QED BY <2>1, <2>2, <2>3, <2>4
<1>2. CASE DeleteBootstrap
  <2> DEFINE o == [boot EXCEPT !.deleting = TRUE, !.gen = @ + 1]
  <2>1. boot \in TalosClusterBootstrap /\ boot # None
        /\ UserWrites(IF boot.fin THEN o ELSE None)
    BY <1>0, <1>2 DEF DeleteBootstrap
  <2>2. /\ o.fin = boot.fin /\ o.phase = boot.phase /\ o.done = boot.done
        /\ o.stored = boot.stored /\ o.deleting
        /\ o.gen = boot.gen + 1 /\ boot.gen \in Nat
    BY <2>1 DEF TalosClusterBootstrap
  <2>3. o # None
    BY <2>1, BootstrapUpdates, NoneAssumption
  <2>4. boot' = IF boot.fin THEN o ELSE None
    BY <2>1 DEF UserWrites
  <2> HIDE DEF o
  <2> QED BY <2>1, <2>2, <2>3, <2>4
<1>3. CASE CreateBootstrap
  <2>1. boot = None /\ UserWrites(NewBootstrap) /\ boot' = NewBootstrap
    BY <1>3 DEF CreateBootstrap, UserWrites
  <2> QED BY <2>1
<1> QED BY <1>1, <1>2, <1>3 DEF User

\* The watch, the user and crashes.
LEMMA UserKeeps ==
    ASSUME BInv, Deliver \/ User \/ Crash
    PROVE  BootstrapDiscipline'
<1> USE DEF BInv, BootstrapDiscipline
<1>1. CASE Deliver
  <2>1. /\ cache' = boot /\ lag' = "none"
        /\ UNCHANGED <<boot, pc, obj, fresh, cluster, kubeconfig>>
    BY <1>1 DEF Deliver, world
  <2>2. CopiesTrue' /\ WorkerKnows' /\ NewStartsOver'
    BY <2>1 DEF CopiesTrue, WorkerKnows, NewStartsOver
  <2>3. SecretWhereClaimed'
    BY <2>1 DEF SecretWhereClaimed, ClaimIsStored
  <2> QED BY <2>2, <2>3
<1>2. CASE User
  <2>1. /\ lag' = "loud" /\ fresh' = FALSE
        /\ UNCHANGED <<cache, pc, obj, cluster, kubeconfig>>
    BY <1>2, UserOutcome DEF UserWrites, world
  <2>2. \/ boot' = None
        \/ boot' = NewBootstrap
        \/ /\ boot # None /\ boot' # None
           /\ boot'.fin = boot.fin /\ boot'.phase = boot.phase
           /\ boot'.done = boot.done /\ boot'.stored = boot.stored
           /\ boot.deleting => boot'.deleting
    BY <1>2, UserOutcome
  <2>3. ~NewBootstrap.done /\ ~NewBootstrap.stored /\ NewBootstrap.phase # "Completed"
    BY DEF NewBootstrap
  <2>4. CopiesTrue'
    BY <2>1 DEF CopiesTrue
  <2>5. WorkerKnows'
    BY <2>1, <2>2, <2>3 DEF WorkerKnows
  <2>6. NewStartsOver'
    BY <2>1, <2>2, <2>3 DEF NewStartsOver
  <2>7. SecretWhereClaimed'
    BY <2>1, <2>2, <2>3 DEF SecretWhereClaimed, ClaimIsStored
  <2> QED BY <2>4, <2>5, <2>6, <2>7
<1>3. CASE Crash
  <2>1. /\ cache' = boot /\ pc' = "idle" /\ obj' = None /\ fresh' = FALSE
        /\ UNCHANGED <<boot, cluster, kubeconfig>>
    BY <1>3 DEF Crash, Done, world
  <2>2. CopiesTrue' /\ WorkerKnows' /\ NewStartsOver'
    BY <2>1 DEF CopiesTrue, WorkerKnows, NewStartsOver
  <2>3. SecretWhereClaimed'
    BY <2>1 DEF SecretWhereClaimed, ClaimIsStored
  <2> QED BY <2>2, <2>3
<1> QED BY <1>1, <1>2, <1>3

\* The others rewrite the kubeconfig, and take it away with the cluster only.
LEMMA OthersKeep ==
    ASSUME BInv, Others
    PROVE  BootstrapDiscipline'
<1>1. UNCHANGED <<boot, cache, lag, pc, obj, fresh>>
  BY DEF Others, Machine, Configure, BecomeReady, BecomeUnready, Join, Wipe, MachineDies,
         RemoveNode, RefreshKubeconfig, EditEndpoints, RemoveCluster, CollectSecret,
         OutsideStep
<1>2. cluster' # None => cluster # None
  BY DEF Others, Machine, Configure, BecomeReady, BecomeUnready, Join, Wipe, MachineDies,
         RemoveNode, RefreshKubeconfig, EditEndpoints, RemoveCluster, CollectSecret
<1>3. /\ kubeconfig # None /\ cluster' # None => kubeconfig' # None
      /\ kubeconfig = None => kubeconfig' = None
  <2>1. CASE RefreshKubeconfig
    <3>1. cluster # None => Head(cluster) # None
      BY HeadIsMachine, BootstrapAssumption DEF BInv, TypeOK
    <3> QED BY <2>1, <3>1 DEF RefreshKubeconfig
  <2>2. CASE ~RefreshKubeconfig
    BY <2>2 DEF Others, Machine, Configure, BecomeReady, BecomeUnready, Join, Wipe,
                MachineDies, RemoveNode, EditEndpoints, RemoveCluster, CollectSecret
  <2> QED BY <2>1, <2>2
<1> QED BY <1>1, <1>2, <1>3, AsideKeeps

\* Initially nothing is recorded.
LEMMA InitDiscipline == Init => BInv
<1> SUFFICES ASSUME Init PROVE BInv
  OBVIOUS
<1>0. /\ boot = NewBootstrap /\ cache = NewBootstrap /\ obj = None
      /\ pc = "idle" /\ fresh = FALSE
      /\ ~NewBootstrap.stored /\ NewBootstrap.phase # "Completed"
  BY DEF Init, NewBootstrap
<1>1. CopiesTrue /\ WorkerKnows /\ NewStartsOver /\ SecretWhereClaimed
  BY <1>0 DEF CopiesTrue, WorkerKnows, NewStartsOver, SecretWhereClaimed, ClaimIsStored
<1> QED BY <1>1, InitTypes DEF BInv, BootstrapDiscipline

\* Every step keeps the invariant.
LEMMA NextDiscipline == BInv /\ [Next]_vars => BInv'
<1> SUFFICES ASSUME BInv, [Next]_vars PROVE BInv'
  OBVIOUS
<1>1. TypeOK'
  BY NextTypes DEF BInv
<1>2. CASE Reconcile
  <2>1. BootstrapDiscipline'
    BY <1>2, GetKeeps, WaitKeeps, StartKeeps, BootstrapKeeps, KubeconfigKeeps, ProbeKeeps,
       DeletionKeeps DEF Reconcile
  <2> QED BY <1>1, <2>1 DEF BInv
<1>3. CASE Deliver \/ User \/ Crash
  BY <1>1, <1>3, UserKeeps DEF BInv
<1>4. CASE Others
  BY <1>1, <1>4, OthersKeep DEF BInv
<1>5. CASE UNCHANGED vars
  BY <1>1, <1>5, AsideKeeps DEF BInv, vars, worker, world
<1> QED BY <1>2, <1>3, <1>4, <1>5 DEF Next

\* The inductive invariant of the bootstrap: a write that is accepted was made from
\* the latest copy, and what the worker believes of etcd and the kubeconfig is true.
THEOREM DisciplineHolds == Spec => []BootstrapDiscipline
<1>1. BInv => BootstrapDiscipline
  BY DEF BInv
<1> QED BY InitDiscipline, NextDiscipline, <1>1, PTL DEF Spec

\* Bootstrap is not sent for a resource that records that it was bootstrapped.
THEOREM NeverRepeated == Spec => []RecordedNeverRepeated
<1>1. BootstrapDiscipline => RecordedNeverRepeated
  BY DEF BootstrapDiscipline, WorkerKnows, RecordedNeverRepeated
<1> QED BY DisciplineHolds, <1>1, PTL

\* KubeconfigAvailable is true only while the Secret is there.
THEOREM ClaimHolds == Spec => []ClaimIsStored
<1>1. BootstrapDiscipline => ClaimIsStored
  BY DEF BootstrapDiscipline, SecretWhereClaimed
<1> QED BY DisciplineHolds, <1>1, PTL

-----------------------------------------------------------------------------
(* What a step may do to the resource                                      *)

\* A write of the worker outside a deletion.
WorkerWrites ==
    /\ fresh /\ pc \in At /\ boot # None /\ boot' # None
    /\ boot.done => boot'.done
    /\ boot.stored => boot'.stored

\* Whoever changes a bootstrap is the user, the worker with the latest copy, or the
\* worker at the end of a deletion.
LEMMA BootChanges ==
    ASSUME BInv, [Next]_vars
    PROVE  \/ boot' = boot
           \/ boot = None
           \/ boot' = None /\ (boot.fin => fresh /\ pc = "final" /\ UNCHANGED world)
           \/ /\ boot' # None /\ boot'.gen # boot.gen
              /\ boot'.done = boot.done /\ boot'.stored = boot.stored
           \/ WorkerWrites
<1>0. boot # None => boot \in TalosClusterBootstrap
  BY DEF BInv, TypeOK
<1>w. ASSUME pc \in At, NEW o, o # None, Accepted(o) \/ Refused(o),
             obj.done => o.done, obj.stored => o.stored
      PROVE  boot' = boot \/ WorkerWrites
  BY <1>w, WriteOutcome DEF BInv, BootstrapDiscipline, CopiesTrue, WorkerWrites
<1>t. \A o \in TalosClusterBootstrap : o # None
  BY NoneAssumption
<1>1. CASE AddFinalizer \/ WaitForNodes \/ BeginBootstrap
  <2>1. pc = "start" /\ obj \in TalosClusterBootstrap
    BY <1>1, WorkerCopy DEF AddFinalizer, WaitForNodes, BeginBootstrap, Reads
  <2> DEFINE f == [obj EXCEPT !.fin = TRUE]
             w == [obj EXCEPT !.phase = "WaitingForNodes"]
             b == Begun(obj)
  <2>2. f \in TalosClusterBootstrap /\ b \in TalosClusterBootstrap
    BY <2>1, BootstrapUpdates
  <2>3. w \in TalosClusterBootstrap
    BY <2>1, BootstrapUpdates DEF Phases
  <2>4. /\ f.done = obj.done /\ f.stored = obj.stored
        /\ w.done = obj.done /\ w.stored = obj.stored
    BY <2>1 DEF TalosClusterBootstrap
  <2>5. b.done = obj.done /\ b.stored = obj.stored
    BY <2>1 DEF TalosClusterBootstrap, Begun
  <2>6. \/ Accepted(f) \/ Refused(f)
        \/ Accepted(w) \/ Refused(w)
        \/ Accepted(b) \/ Refused(b)
    BY <1>1 DEF AddFinalizer, Save, WaitForNodes, BeginBootstrap
  <2> HIDE DEF f, w, b
  <2> QED BY <1>w, <1>t, <2>1, <2>2, <2>3, <2>4, <2>5, <2>6 DEF At
<1>2. CASE RecordBootstrap
  <2> DEFINE o == [obj EXCEPT !.done = TRUE]
  <2>1. pc = "record" /\ (Accepted(o) \/ Refused(o))
    BY <1>2 DEF RecordBootstrap, Save
  <2>2. obj \in TalosClusterBootstrap
    BY <2>1, WorkerCopy
  <2>3. o \in TalosClusterBootstrap
    BY <2>2, BootstrapUpdates
  <2>4. o.done /\ o.stored = obj.stored
    BY <2>2 DEF TalosClusterBootstrap
  <2> HIDE DEF o
  <2> QED BY <1>w, <1>t, <2>1, <2>3, <2>4 DEF At
<1>3. CASE MarkStored
  <2> DEFINE o == [obj EXCEPT !.stored = TRUE]
  <2>1. pc = "mark" /\ (Accepted(o) \/ Refused(o))
    BY <1>3 DEF MarkStored, Save
  <2>2. obj \in TalosClusterBootstrap
    BY <2>1, WorkerCopy
  <2>3. o \in TalosClusterBootstrap
    BY <2>2, BootstrapUpdates
  <2>4. o.stored /\ o.done = obj.done
    BY <2>2 DEF TalosClusterBootstrap
  <2> HIDE DEF o
  <2> QED BY <1>w, <1>t, <2>1, <2>3, <2>4 DEF At
<1>4. CASE Complete
  <2> DEFINE o == [obj EXCEPT !.phase = "Completed", !.api = TRUE]
  <2>1. pc = "probe" /\ (Accepted(o) \/ Refused(o))
    BY <1>4 DEF Complete
  <2>2. obj \in TalosClusterBootstrap
    BY <2>1, WorkerCopy
  <2>3. o \in TalosClusterBootstrap
    BY <2>2, BootstrapUpdates DEF Phases
  <2>4. o.done = obj.done /\ o.stored = obj.stored
    BY <2>2 DEF TalosClusterBootstrap
  <2> HIDE DEF o
  <2> QED BY <1>w, <1>t, <2>1, <2>3, <2>4 DEF At
<1>5. CASE Report
  <2>1. pc \in {"setError", "retry", "unreachable"} /\ (Accepted(Reported) \/ Refused(Reported))
    BY <1>5 DEF Report
  <2>2. obj \in TalosClusterBootstrap
    BY <2>1, WorkerCopy
  <2>3. Reported \in TalosClusterBootstrap
    BY <2>1, <2>2, ReportedType
  <2>4. Reported.done = obj.done /\ Reported.stored = obj.stored
    <3>1. CASE pc = "setError"
      BY <2>2, <3>1 DEF Reported, TalosClusterBootstrap
    <3>2. CASE pc = "retry"
      BY <2>2, <3>2 DEF Reported, TalosClusterBootstrap
    <3>3. CASE pc = "unreachable"
      BY <2>2, <3>3 DEF Reported, TalosClusterBootstrap
    <3> QED BY <2>1, <3>1, <3>2, <3>3
  <2> QED BY <1>w, <1>t, <2>1, <2>3, <2>4 DEF At
<1>6. CASE RemoveFinalizer
  BY <1>6 DEF RemoveFinalizer
<1>7. CASE User
  <2>1. CASE boot' = None
    <3>1. CASE DeleteBootstrap
      <4>1. boot # None /\ boot' = IF boot.fin
                                   THEN [boot EXCEPT !.deleting = TRUE, !.gen = @ + 1]
                                   ELSE None
        BY <3>1 DEF DeleteBootstrap, UserWrites
      <4>2. [boot EXCEPT !.deleting = TRUE, !.gen = @ + 1] # None
        BY <1>0, <4>1, BootstrapUpdates, NoneAssumption
      <4> QED BY <2>1, <4>1, <4>2
    <3>2. CASE EditRef
      <4>1. boot # None /\ boot' = [boot EXCEPT !.ref = ~@, !.gen = @ + 1]
        BY <3>2 DEF EditRef, UserWrites
      <4>2. [boot EXCEPT !.ref = ~@, !.gen = @ + 1] # None
        BY <1>0, <4>1, BootstrapUpdates, NoneAssumption
      <4> QED BY <2>1, <4>1, <4>2
    <3>3. CASE CreateBootstrap
      BY <3>3 DEF CreateBootstrap
    <3> QED BY <1>7, <3>1, <3>2, <3>3 DEF User
  <2>2. CASE boot' # None
    BY <1>7, <2>2, UserOutcome
  <2> QED BY <2>1, <2>2
<1>8. CASE \/ Get \/ ReadsFail \/ ShortCircuit \/ Dial \/ DialFails
           \/ Bootstrap \/ BootstrapFails \/ BootstrapTimesOut
           \/ Fetch \/ FetchFails \/ FetchTimesOut \/ SaveFails
           \/ SecretMissing \/ Unreachable
           \/ DeleteSecret \/ DeleteSecretFails \/ SkipSecret
           \/ Deliver \/ Crash \/ UNCHANGED vars
  BY <1>8 DEF Get, ReadsFail, ShortCircuit, Dial, DialFails, Bootstrap, BootstrapFails,
              BootstrapTimesOut, Fetch, FetchFails, FetchTimesOut, SaveFails,
              SecretMissing, Unreachable, DeleteSecret, DeleteSecretFails, SkipSecret,
              Deliver, Crash, vars, GoTo
<1>9. CASE Others
  BY <1>9 DEF Others, Machine, Configure, BecomeReady, BecomeUnready, Join, Wipe,
              MachineDies, RemoveNode, RefreshKubeconfig, EditEndpoints, RemoveCluster,
              CollectSecret, OutsideStep
<1> QED BY <1>1, <1>2, <1>3, <1>4, <1>5, <1>6, <1>7, <1>8, <1>9 DEF Next, Reconcile

\* No write takes Bootstrapped or KubeconfigAvailable back.
THEOREM ConditionsStay == Spec => ConditionsKept
<1>1. BInv /\ [Next]_vars =>
        [boot # None /\ boot' # None =>
           (boot.done => boot'.done) /\ (boot.stored => boot'.stored)]_vars
  BY BootChanges DEF WorkerWrites
<1> QED BY InitDiscipline, NextDiscipline, <1>1, PTL DEF Spec, ConditionsKept

\* Nothing is written to a bootstrap that has completed.
THEOREM CompletedStays == Spec => CompletedIsFinal
<1>1. BInv /\ [Next]_vars =>
        [boot # None /\ UpToDate(boot) /\ boot' # None /\ boot'.gen = boot.gen =>
           boot' = boot]_vars
  <2>1. BInv /\ WorkerWrites => ~UpToDate(boot)
    BY DEF WorkerWrites, At, BInv, BootstrapDiscipline, CopiesTrue, WorkerKnows
  <2> QED BY <2>1, BootChanges
<1> QED BY InitDiscipline, NextDiscipline, <1>1, PTL DEF Spec, CompletedIsFinal

\* When the reads of the deletion handler succeed, the kubeconfig goes with the
\* bootstrap.
THEOREM SecretGoes ==
    ASSUME ~UnreliableReads
    PROVE  Spec => SecretGoesToo
<1>1. BInv /\ [Next]_vars =>
        [boot # None /\ boot' = None /\ boot.fin /\ boot.ref /\ cluster # None
           => kubeconfig = None]_vars
  <2>1. BInv /\ fresh /\ pc = "final" /\ boot.ref /\ cluster # None => kubeconfig = None
    BY DEF BInv, BootstrapDiscipline, CopiesTrue, SecretWhereClaimed
  <2> QED BY <2>1, BootChanges DEF WorkerWrites
<1> QED BY InitDiscipline, NextDiscipline, <1>1, PTL DEF Spec, SecretGoesToo

-----------------------------------------------------------------------------
(* One etcd cluster                                                        *)

\* Nobody is a member of an etcd cluster without the first endpoint.
OneEtcdInv == BInv /\ CallGoesToFirst

\* Initially nobody is a member of an etcd cluster.
LEMMA InitOneEtcd == Init => OneEtcdInv
  BY InitDiscipline, BootstrapAssumption DEF OneEtcdInv, CallGoesToFirst, Init, First

\* A Bootstrap call to the first endpoint starts no second cluster.
LEMMA FormedKeeps ==
    ASSUME TypeOK, calm => eps = <<First>>,
           calm => \A m \in Machines : etcd[m] # 0 => etcd[m] = etcd[First],
           Formed(eps[1]) \/ UNCHANGED <<etcd, formed>>
    PROVE  calm => \A m \in Machines : etcd'[m] # 0 => etcd'[m] = etcd'[First]
<1> SUFFICES ASSUME calm, NEW m \in Machines, etcd'[m] # 0
             PROVE  etcd'[m] = etcd'[First]
  OBVIOUS
<1>1. eps[1] = First /\ etcd \in [Machines -> Nat] /\ First \in Machines
  BY HeadIsMachine, BootstrapAssumption DEF TypeOK, First
<1>2. CASE UNCHANGED etcd
  BY <1>2
<1>3. CASE etcd[First] = 0 /\ etcd' = [etcd EXCEPT ![First] = formed + 1]
  <2>1. m = First
    BY <1>1, <1>3
  <2> QED BY <2>1
<1> QED BY <1>1, <1>2, <1>3 DEF Formed

\* The steps of the worker.
LEMMA WorkerKeepsFirst == OneEtcdInv /\ Reconcile => CallGoesToFirst'
<1> SUFFICES ASSUME OneEtcdInv, Reconcile, calm PROVE CallGoesToFirst'
  <2>1. Reconcile => calm' = calm
    BY DEF Reconcile, Get, AddFinalizer, ReadsFail, WaitForNodes, ShortCircuit,
           BeginBootstrap, Dial, DialFails, Bootstrap, BootstrapFails,
           BootstrapTimesOut, RecordBootstrap, Fetch, FetchFails, FetchTimesOut,
           SaveFails, MarkStored, SecretMissing, Unreachable, Complete, Report,
           DeleteSecret, DeleteSecretFails, SkipSecret, RemoveFinalizer, Save, world
  <2> QED BY <2>1 DEF CallGoesToFirst
<1>0. /\ TypeOK /\ WorkerKnows
      /\ Head(cluster) = First
      /\ pc \in {"dial", "bootstrap"} /\ ~obj.done => eps = <<First>>
      /\ \A m \in Machines : etcd[m] # 0 => etcd[m] = etcd[First]
  BY DEF OneEtcdInv, BInv, BootstrapDiscipline, CallGoesToFirst
<1>1. ASSUME UNCHANGED <<cluster, etcd>>,
             pc' \in {"dial", "bootstrap"} /\ ~obj'.done => eps' = <<First>>
      PROVE  CallGoesToFirst'
  BY <1>0, <1>1 DEF CallGoesToFirst
<1>2. CASE BeginBootstrap
  <2>1. CASE Done(TRUE)
    BY <1>1, <1>2, <2>1 DEF BeginBootstrap, Done, world
  <2>2. CASE obj' = Begun(obj) /\ eps' = Targets
    <3>1. obj.done => Begun(obj).done
      BY DEF Begun
    <3>2. obj \in TalosClusterBootstrap
      BY <1>0, <1>2 DEF TypeOK, BeginBootstrap, Reads
    <3>3. Begun(obj).done = obj.done
      BY <3>2 DEF Begun, TalosClusterBootstrap
    <3>4. ~obj'.done => eps' = <<First>>
      BY <1>0, <2>2, <3>3 DEF Targets
    <3> QED BY <1>1, <1>2, <3>4 DEF BeginBootstrap, world
  <2> QED BY <1>2, <2>1, <2>2 DEF BeginBootstrap
<1>3. CASE Dial
  <2>1. ~obj.done => eps' = <<First>>
    <3> SUFFICES ASSUME ~obj.done PROVE eps' = <<First>>
      OBVIOUS
    <3>1. eps = <<First>>
      BY <1>0, <1>3 DEF Dial
    <3>2. PICK i \in 1 .. Len(eps) : eps' = <<eps[i]>>
      BY <1>3 DEF Dial
    <3>3. i = 1
      BY <3>1, <3>2
    <3> QED BY <3>1, <3>2, <3>3
  <2>2. UNCHANGED <<cluster, etcd, obj>>
    BY <1>3 DEF Dial, GoTo, world
  <2> QED BY <1>1, <2>1, <2>2
<1>4. CASE Bootstrap \/ BootstrapFails \/ BootstrapTimesOut
  <2>1. pc = "bootstrap" /\ eps = <<First>>
    BY <1>0, <1>4 DEF Bootstrap, BootstrapFails, BootstrapTimesOut, WorkerKnows
  <2>2. Formed(eps[1]) \/ UNCHANGED <<etcd, formed>>
    BY <1>4 DEF Bootstrap, BootstrapFails, BootstrapTimesOut
  <2>3. \A m \in Machines : etcd'[m] # 0 => etcd'[m] = etcd'[First]
    BY <1>0, <2>1, <2>2, FormedKeeps
  <2>4. UNCHANGED cluster /\ pc' \notin {"dial", "bootstrap"}
    BY <1>4 DEF Bootstrap, BootstrapFails, BootstrapTimesOut, GoTo, Done
  <2> QED BY <1>0, <2>3, <2>4 DEF CallGoesToFirst
<1>5. CASE \/ Get \/ AddFinalizer \/ ReadsFail \/ WaitForNodes \/ ShortCircuit
           \/ DialFails \/ RecordBootstrap \/ Fetch \/ FetchFails \/ FetchTimesOut
           \/ SaveFails \/ MarkStored \/ SecretMissing \/ Unreachable \/ Complete
           \/ Report \/ DeleteSecret \/ DeleteSecretFails \/ SkipSecret
           \/ RemoveFinalizer
  <2>1. UNCHANGED <<cluster, etcd>> /\ pc' \notin {"dial", "bootstrap"}
    BY <1>5 DEF Get, AddFinalizer, ReadsFail, WaitForNodes, ShortCircuit, DialFails,
           RecordBootstrap, Fetch, FetchFails, FetchTimesOut, SaveFails, MarkStored,
           SecretMissing, Unreachable, Complete, Report, DeleteSecret,
           DeleteSecretFails, SkipSecret, RemoveFinalizer, Save, GoTo, Done, world
  <2> QED BY <1>1, <2>1
<1> QED BY <1>2, <1>3, <1>4, <1>5 DEF Reconcile

\* The steps of the machines, of the other controllers and of the user.
LEMMA OthersKeepFirst ==
    OneEtcdInv /\ (Others \/ Deliver \/ User \/ Crash \/ UNCHANGED vars) => CallGoesToFirst'
<1> SUFFICES ASSUME OneEtcdInv, Others \/ Deliver \/ User \/ Crash \/ UNCHANGED vars, calm'
             PROVE  CallGoesToFirst'
  BY DEF CallGoesToFirst
<1>0. TypeOK /\ (calm => CallGoesToFirst)
  BY DEF OneEtcdInv, BInv
<1>1. ASSUME calm, UNCHANGED <<pc, obj, eps>>, UNCHANGED <<cluster, etcd>>
      PROVE  CallGoesToFirst'
  BY <1>0, <1>1 DEF CallGoesToFirst
<1>2. ASSUME NEW m \in Machines, Machine(m) PROVE CallGoesToFirst'
  <2>0. etcd \in [Machines -> Nat] /\ First \in Machines
    BY <1>0, HeadIsMachine, BootstrapAssumption DEF TypeOK, First
  <2>1. CASE Configure(m) \/ BecomeReady(m) \/ BecomeUnready(m) \/ MachineDies(m)
    BY <1>1, <2>1 DEF Configure, BecomeReady, BecomeUnready, MachineDies, OutsideStep
  <2>2. CASE Join(m)
    <3>1. calm /\ UNCHANGED <<pc, obj, eps, cluster>>
      BY <2>2 DEF Join, OutsideStep
    <3>2. PICK n \in up : etcd[n] # 0 /\ etcd' = [etcd EXCEPT ![m] = etcd[n]]
      BY <2>2 DEF Join
    <3>3. n \in Machines /\ etcd[n] = etcd[First]
      BY <1>0, <3>1, <3>2 DEF TypeOK, CallGoesToFirst
    <3>4. etcd[m] = 0
      BY <2>2 DEF Join
    <3>5. \A k \in Machines : etcd'[k] # 0 => etcd'[k] = etcd'[First]
      BY <1>0, <2>0, <3>1, <3>2, <3>3, <3>4 DEF CallGoesToFirst
    <3> QED BY <1>0, <3>1, <3>5 DEF CallGoesToFirst
  <2>3. ASSUME calm, m # First, etcd' = [etcd EXCEPT ![m] = 0]
        PROVE  \A k \in Machines : etcd'[k] # 0 => etcd'[k] = etcd'[First]
    BY <1>0, <2>0, <2>3 DEF CallGoesToFirst
  <2>4. CASE Wipe(m)
    <3>1. calm /\ m # First /\ UNCHANGED <<pc, obj, eps, cluster>>
          /\ etcd' = [etcd EXCEPT ![m] = 0]
      BY <2>4 DEF Wipe, OutsideStep
    <3> QED BY <1>0, <2>3, <3>1 DEF CallGoesToFirst
  <2>5. CASE RemoveNode(m)
    <3>1. calm /\ m # First /\ UNCHANGED <<pc, obj, eps>>
          /\ etcd' = [etcd EXCEPT ![m] = 0]
      BY <2>5 DEF RemoveNode, OutsideStep
    <3>2. PICK i \in 1 .. Len(cluster) :
            cluster[i] = m /\ cluster' = RemovedAt(cluster, i)
      BY <2>5 DEF RemoveNode
    <3>3. cluster \in Seq(Machines) /\ cluster # <<>> /\ Len(cluster) > 1
          /\ Head(cluster) = First
      BY <1>0, <2>5, <3>1 DEF TypeOK, RemoveNode, CallGoesToFirst
    <3>4. i # 1
      BY <3>1, <3>2, <3>3, HeadIsMachine
    <3>5. Head(cluster') = First /\ cluster' \in Seq(Machines)
      BY <3>2, <3>3, <3>4, RemovedType
    <3> QED BY <1>0, <2>3, <3>1, <3>5 DEF CallGoesToFirst
  <2> QED BY <1>2, <2>1, <2>2, <2>4, <2>5 DEF Machine
<1>3. CASE RefreshKubeconfig \/ CollectSecret
  BY <1>1, <1>3 DEF RefreshKubeconfig, CollectSecret, OutsideStep
<1>4. CASE EditEndpoints \/ RemoveCluster
  BY <1>4 DEF EditEndpoints, RemoveCluster
<1>5. CASE User \/ Deliver \/ UNCHANGED vars
  BY <1>1, <1>5 DEF User, EditRef, DeleteBootstrap, CreateBootstrap, UserWrites, Deliver,
                    vars, worker, world
<1>6. CASE Crash
  BY <1>0, <1>6 DEF Crash, Done, world, CallGoesToFirst
<1> QED BY <1>2, <1>3, <1>4, <1>5, <1>6 DEF Others

\* "Bootstrap must happen on endpoints[0]": as long as that stays the same machine and
\* keeps its data there is one etcd cluster, however often the call is sent.
THEOREM OneEtcdHolds == Spec => []OneEtcdWhileCalm
<1>1. OneEtcdInv /\ [Next]_vars => OneEtcdInv'
  BY NextDiscipline, WorkerKeepsFirst, OthersKeepFirst DEF OneEtcdInv, Next
<1>2. OneEtcdInv => OneEtcdWhileCalm
  BY DEF OneEtcdInv, CallGoesToFirst, OneEtcdWhileCalm, OneEtcd
<1> QED BY InitOneEtcd, <1>1, <1>2, PTL DEF Spec
=============================================================================
