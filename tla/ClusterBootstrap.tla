--------------------------- MODULE ClusterBootstrap ---------------------------
(***************************************************************************)
(* The bootstrap of a cluster                                              *)
(* (src/internal/controller/talosclusterbootstrap_controller.go): wait for *)
(* a control plane, bootstrap etcd on the first endpoint, store the        *)
(* kubeconfig, wait for the API server; and the deletion of the resource.  *)
(*                                                                         *)
(* The worker meets what the other controllers and the user do meanwhile:  *)
(* TalosNodes become ready or are reset, control planes join etcd, leave   *)
(* or break, the endpoints of the cluster change and the kubeconfig is     *)
(* rewritten.  A machine is named by its endpoint.                         *)
(*                                                                         *)
(* An operator Wrong_X is X with a plausible mistake; nothing uses it.     *)
(***************************************************************************)
EXTENDS Integers, Sequences

CONSTANTS
    Machines,        \* the control planes
    Endpoints,       \* the initial spec.endpoints of the TalosCluster
    None,
    EagerDial,       \* Dial contacts the machine (the real client does not)
    Timeouts,        \* a call may run into its deadline
    UnreliableReads, \* a read of handleDeletion may fail
    MaxTroubles      \* a bound for TLC: failures, crashes, edits and mishaps

ASSUME BootstrapAssumption ==
    /\ Endpoints \in Seq(Machines) \ {<<>>}
    /\ None \notin Machines
    /\ {EagerDial, Timeouts, UnreliableReads} \subseteq BOOLEAN
    /\ MaxTroubles \in Nat

VARIABLES
    boot,       \* the TalosClusterBootstrap; None while there is none
    cache,      \* the informer's copy of it
    lag,        \* what the cache misses: "none", "quiet" (dropped by the event
                \*   filter) or "loud" changes
    queued,     \* the work queue holds the bootstrap
    pc,         \* where the worker is in Reconcile
    obj,        \* its copy of the bootstrap
    fresh,      \* obj carries the latest resourceVersion
    eps,        \* its endpoints of the cluster, the one it talks to first
    cluster,    \* spec.endpoints of the TalosCluster; None once that is gone
    kubeconfig, \* the machine <cluster>-kubeconfig points to, None without one
    refresh,    \* a TalosNode's deletion has yet to rewrite the kubeconfig
    node,       \* a machine's TalosNode: "bare" (in maintenance mode), "configured",
                \*   "ready" (phase Ready) or "gone"
    up,         \* the machines that run
    etcd,       \* the etcd cluster a machine is a member of, 0 for none
    formed,     \* history: how many etcd clusters were bootstrapped
    calm,       \* history: the first endpoint is still the same and kept its data
    troubles    \* history: failures, crashes, edits and mishaps so far

worker == <<queued, pc, obj, fresh, eps>>
world  == <<cluster, kubeconfig, refresh, node, up, etcd, formed, calm>>
vars   == <<boot, cache, lag, worker, world, troubles>>

Phases == {"", "WaitingForNodes", "Bootstrapping", "WaitingForKubeconfig",
           "WaitingForAPIServer", "Completed", "Error"}
TalosClusterBootstrap ==
    [gen : Nat, fin : BOOLEAN, deleting : BOOLEAN,
     ref : BOOLEAN,       \* spec.clusterRef names the cluster, not another one
     phase : Phases, obsGen : Nat,
     done : BOOLEAN,      \* condition Bootstrapped
     stored : BOOLEAN,    \* condition KubeconfigAvailable
     api : BOOLEAN]       \* condition APIServerReady

ASSUME NoneAssumption == None \notin TalosClusterBootstrap

NewBootstrap ==
    [gen |-> 1, fin |-> FALSE, deleting |-> FALSE, ref |-> TRUE, phase |-> "",
     obsGen |-> 0, done |-> FALSE, stored |-> FALSE, api |-> FALSE]

\* isBootstrapUpToDate
UpToDate(o) == o.phase = "Completed" /\ o.obsGen = o.gen /\ o.api

First == Head(Endpoints)

Init ==
    /\ boot = NewBootstrap
    /\ cache = boot
    /\ lag = "none"
    /\ queued = TRUE
    /\ pc = "idle"
    /\ obj = None
    /\ fresh = FALSE
    /\ eps = <<>>
    /\ cluster = Endpoints
    /\ kubeconfig = None
    /\ refresh = FALSE
    /\ node = [m \in Machines |-> "configured"]
    /\ up = Machines
    /\ etcd = [m \in Machines |-> 0]
    /\ formed = 0
    /\ calm = TRUE
    /\ troubles = 0

-----------------------------------------------------------------------------
(* Calls                                                                   *)

\* A failure, a crash, an edit or a mishap.
Trouble == troubles < MaxTroubles /\ troubles' = troubles + 1

\* Reconcile returns; again: with a RequeueAfter or an error.
Done(again) ==
    /\ pc' = "idle"
    /\ obj' = None
    /\ fresh' = FALSE
    /\ eps' = <<>>
    /\ queued' = (queued \/ again)

GoTo(next) ==
    /\ pc' = next
    /\ UNCHANGED <<boot, cache, lag, queued, obj, fresh>>

\* Update or Status().Update of o: rejected unless obj is current.
Write(o) ==
    /\ boot' = o
    /\ lag' = IF lag = "loud" THEN "loud" ELSE "quiet"

Accepted(o) == fresh /\ Write(o) /\ UNCHANGED troubles

\* A conflict, or the API server could not be reached, or its answer was lost.
Refused(o) ==
    \/ ~fresh /\ UNCHANGED <<boot, lag, troubles>>
    \/ Trouble /\ UNCHANGED <<boot, lag>>
    \/ Trouble /\ fresh /\ Write(o)

\* A write whose error Reconcile returns.
Save(o, next) ==
    /\ \/ /\ Accepted(o)
          /\ obj' = o
          /\ pc' = next
          /\ UNCHANGED <<queued, fresh, eps>>
       \/ Refused(o) /\ Done(TRUE)
    /\ UNCHANGED <<cache, world>>

\* A call to the Talos API of a machine gets an answer.
Answers(m) == m \in up /\ node[m] \in {"configured", "ready"}

\* The Kubernetes API server behind an endpoint gets an answer.
Reachable(m) == m \in up /\ etcd[m] # 0

\* The real Dial does not contact anybody, so it succeeds.
Dials(m) == EagerDial => Answers(m)

-----------------------------------------------------------------------------
(* Reconcile                                                               *)

Wrong_NeedsNothing(o) == o.deleting /\ ~o.fin
\* An object that is up to date, or that is deleted without a finalizer.
NeedsNothing(o) ==
    IF o.deleting THEN ~o.fin ELSE o.fin /\ UpToDate(o)

Get ==
    /\ pc = "idle"
    /\ queued
    /\ queued' = FALSE
    /\ IF cache = None \/ NeedsNothing(cache)
       THEN UNCHANGED <<pc, obj, fresh>>
       ELSE /\ pc' = IF cache.deleting THEN "delete" ELSE "start"
            /\ obj' = cache
            /\ fresh' = (lag = "none")
    /\ UNCHANGED <<boot, cache, lag, eps, world, troubles>>

AddFinalizer ==
    /\ pc = "start"
    /\ ~obj.fin
    /\ Save([obj EXCEPT !.fin = TRUE], "start")

\* The cluster does not exist, or it or the TalosNodes cannot be read.
ReadsFail ==
    /\ pc = "start"
    /\ obj.fin
    /\ \/ ~(obj.ref /\ cluster # None) /\ UNCHANGED troubles
       \/ Trouble
    /\ GoTo("setError")
    /\ UNCHANGED <<eps, world>>

\* readyControlPlaneCount > 0
SomeReady == \E m \in Machines : node[m] = "ready"

Reads == pc = "start" /\ obj.fin /\ obj.ref /\ cluster # None

\* waitForReadyNodes
WaitForNodes ==
    /\ Reads
    /\ ~SomeReady
    /\ LET o == [obj EXCEPT !.phase = "WaitingForNodes"] IN
       \/ Accepted(o) /\ Done(TRUE)
       \/ /\ Refused(o)
          /\ pc' = "setError"
          /\ fresh' = (fresh /\ boot' = boot)
          /\ UNCHANGED <<queued, obj, eps>>
    /\ UNCHANGED <<cache, world>>

\* The kubeconfig is already saved.
ShortCircuit ==
    /\ Reads
    /\ SomeReady
    /\ obj.stored
    /\ GoTo("probe")
    /\ UNCHANGED <<eps, world, troubles>>

Wrong_Begun(o) == [o EXCEPT !.phase = "Bootstrapping", !.obsGen = o.gen, !.done = FALSE]
Begun(o) == [o EXCEPT !.phase = "Bootstrapping", !.obsGen = o.gen]

Wrong_Targets == <<cluster[Len(cluster)]>>

\* Bootstrap is for the first endpoint only; any other serves the kubeconfig.
Targets == IF obj.done THEN cluster ELSE <<Head(cluster)>>

Wrong_BeginBootstrap ==
    /\ Reads
    /\ SomeReady
    /\ ~obj.stored
    /\ Accepted(Begun(obj)) \/ Refused(Begun(obj))
    /\ obj' = Begun(obj)
    /\ pc' = "dial"
    /\ eps' = Targets
    /\ UNCHANGED <<queued, fresh, cache, world>>

BeginBootstrap ==
    /\ Reads
    /\ SomeReady
    /\ ~obj.stored
    /\ LET o == Begun(obj) IN
       \/ /\ Accepted(o)
          /\ obj' = o
          /\ pc' = "dial"
          /\ eps' = Targets
          /\ UNCHANGED <<queued, fresh>>
       \/ Refused(o) /\ Done(TRUE)
    /\ UNCHANGED <<cache, world>>

\* The talosconfig is read, and the first endpoint that can be dialled is taken.
Dial ==
    /\ pc = "dial"
    /\ cluster # None
    /\ \E i \in 1 .. Len(eps) :
         /\ Dials(eps[i])
         /\ \A j \in 1 .. (i - 1) : ~Dials(eps[j])
         /\ eps' = <<eps[i]>>
    /\ GoTo(IF obj.done THEN "fetch" ELSE "bootstrap")
    /\ UNCHANGED <<world, troubles>>

\* No talosconfig, which goes with the cluster, or nobody to talk to.
DialFails ==
    /\ pc = "dial"
    /\ \/ cluster = None /\ UNCHANGED troubles
       \/ (\A i \in 1 .. Len(eps) : ~Dials(eps[i])) /\ UNCHANGED troubles
       \/ Trouble
    /\ GoTo("setError")
    /\ UNCHANGED <<eps, world>>

\* The machine's part of the Bootstrap call: a machine whose etcd has data
\* answers AlreadyExists.
Formed(m) ==
    IF etcd[m] = 0
    THEN etcd' = [etcd EXCEPT ![m] = formed + 1] /\ formed' = formed + 1
    ELSE UNCHANGED <<etcd, formed>>

\* AlreadyExists counts as success.
Bootstrap ==
    /\ pc = "bootstrap"
    /\ Answers(eps[1])
    /\ Formed(eps[1])
    /\ GoTo("record")
    /\ UNCHANGED <<eps, cluster, kubeconfig, refresh, node, up, calm, troubles>>

\* The machine does not answer, or its answer is lost.
BootstrapFails ==
    /\ pc = "bootstrap"
    /\ \/ ~Answers(eps[1]) /\ UNCHANGED <<etcd, formed, troubles>>
       \/ Trouble /\ UNCHANGED <<etcd, formed>>
       \/ Trouble /\ Answers(eps[1]) /\ Formed(eps[1])
    /\ GoTo("setError")
    /\ UNCHANGED <<eps, cluster, kubeconfig, refresh, node, up, calm>>

\* IsContextCancelled: a deadline is taken for a shutdown, nothing is recorded
\* and nothing comes back.
BootstrapTimesOut ==
    /\ pc = "bootstrap"
    /\ Timeouts
    /\ Trouble
    /\ \/ UNCHANGED <<etcd, formed>>
       \/ Answers(eps[1]) /\ Formed(eps[1])
    /\ Done(FALSE)
    /\ UNCHANGED <<boot, cache, lag, cluster, kubeconfig, refresh, node, up, calm>>

RecordBootstrap ==
    /\ pc = "record"
    /\ Save([obj EXCEPT !.done = TRUE], "fetch")

Wrong_SavedKubeconfig == kubeconfig

\* saveKubeconfig: Create leaves a Secret that exists as it is.
SavedKubeconfig == IF kubeconfig = None THEN First ELSE kubeconfig

\* GetKubeconfig and saveKubeconfig.  The configurations of the machines were
\* rendered once, so the kubeconfig names the endpoint that was the first then.
Fetch ==
    /\ pc = "fetch"
    /\ Answers(eps[1])
    /\ kubeconfig' = SavedKubeconfig
    /\ GoTo("mark")
    /\ UNCHANGED <<eps, cluster, refresh, node, up, etcd, formed, calm, troubles>>

FetchFails ==
    /\ pc = "fetch"
    /\ \/ ~Answers(eps[1]) /\ UNCHANGED troubles
       \/ Trouble
    /\ GoTo("retry")
    /\ UNCHANGED <<eps, world>>

FetchTimesOut ==
    /\ pc = "fetch"
    /\ Timeouts
    /\ Trouble
    /\ Done(FALSE)
    /\ UNCHANGED <<boot, cache, lag, world>>

\* saveKubeconfig fails, or its answer is lost.
SaveFails ==
    /\ pc = "fetch"
    /\ Answers(eps[1])
    /\ Trouble
    /\ kubeconfig' \in {kubeconfig, SavedKubeconfig}
    /\ GoTo("setError")
    /\ UNCHANGED <<eps, cluster, refresh, node, up, etcd, formed, calm>>

MarkStored ==
    /\ pc = "mark"
    /\ Save([obj EXCEPT !.stored = TRUE], "probe")

\* waitForAPIServer
SecretMissing ==
    /\ pc = "probe"
    /\ \/ kubeconfig = None /\ UNCHANGED troubles
       \/ Trouble
    /\ GoTo("setError")
    /\ UNCHANGED <<eps, world>>

Unreachable ==
    /\ pc = "probe"
    /\ kubeconfig # None
    /\ \/ ~Reachable(kubeconfig) /\ UNCHANGED troubles
       \/ Trouble
    /\ GoTo("unreachable")
    /\ UNCHANGED <<eps, world>>

Complete ==
    /\ pc = "probe"
    /\ kubeconfig # None
    /\ Reachable(kubeconfig)
    /\ LET o == [obj EXCEPT !.phase = "Completed", !.api = TRUE] IN
       \/ Accepted(o) /\ Done(FALSE)
       \/ Refused(o) /\ Done(TRUE)
    /\ UNCHANGED <<cache, world>>

Wrong_Reported == [obj EXCEPT !.phase = "Failed"]

\* What is written when a step did not succeed: setError and its like.
Reported ==
    CASE pc = "setError"    -> [obj EXCEPT !.phase = "Error"]
      [] pc = "retry"       -> [obj EXCEPT !.phase = "WaitingForKubeconfig"]
      [] pc = "unreachable" -> [obj EXCEPT !.phase = "WaitingForAPIServer",
                                           !.api = FALSE]

Wrong_Report ==
    /\ pc \in {"setError", "retry", "unreachable"}
    /\ Accepted(Reported) \/ Refused(Reported)
    /\ Done(FALSE)
    /\ UNCHANGED <<cache, world>>

\* An error of this write is only logged; the bootstrap is looked at again later.
Report ==
    /\ pc \in {"setError", "retry", "unreachable"}
    /\ Accepted(Reported) \/ Refused(Reported)
    /\ Done(TRUE)
    /\ UNCHANGED <<cache, world>>

-----------------------------------------------------------------------------
(* handleDeletion                                                          *)

DeleteSecret ==
    /\ pc = "delete"
    /\ obj.ref
    /\ cluster # None
    /\ kubeconfig' = None
    /\ GoTo("final")
    /\ UNCHANGED <<eps, cluster, refresh, node, up, etcd, formed, calm, troubles>>

Wrong_DeleteSecretFails ==
    /\ pc = "delete"
    /\ obj.ref
    /\ cluster # None
    /\ Trouble
    /\ kubeconfig' \in {kubeconfig, None}
    /\ Done(FALSE)
    /\ UNCHANGED <<boot, cache, lag, cluster, refresh, node, up, etcd, formed, calm>>

DeleteSecretFails ==
    /\ pc = "delete"
    /\ obj.ref
    /\ cluster # None
    /\ Trouble
    /\ kubeconfig' \in {kubeconfig, None}
    /\ Done(TRUE)
    /\ UNCHANGED <<boot, cache, lag, cluster, refresh, node, up, etcd, formed, calm>>

Wrong_SkipSecret ==
    /\ pc = "delete"
    /\ GoTo("final")
    /\ UNCHANGED <<eps, world, troubles>>

\* There is no such cluster; an error of either read is not looked at further.
SkipSecret ==
    /\ pc = "delete"
    /\ \/ ~(obj.ref /\ cluster # None) /\ UNCHANGED troubles
       \/ UnreliableReads /\ Trouble
    /\ GoTo("final")
    /\ UNCHANGED <<eps, world>>

\* The last finalizer is removed, and with it the object.
RemoveFinalizer ==
    /\ pc = "final"
    /\ \/ /\ fresh
          /\ boot' = None
          /\ lag' = "loud"
          /\ \/ Done(FALSE) /\ UNCHANGED troubles
             \/ Done(TRUE) /\ Trouble
       \/ /\ ~fresh /\ UNCHANGED troubles
          /\ Done(TRUE)
          /\ UNCHANGED <<boot, lag>>
       \/ /\ Trouble
          /\ Done(TRUE)
          /\ UNCHANGED <<boot, lag>>
    /\ UNCHANGED <<cache, world>>

-----------------------------------------------------------------------------
(* The watch, the user and crashes                                         *)

\* GenerationChangedPredicate lets new objects, spec edits and deletions through.
Deliver ==
    /\ lag # "none"
    /\ cache' = boot
    /\ lag' = "none"
    /\ queued' = (queued \/ lag = "loud")
    /\ UNCHANGED <<boot, pc, obj, fresh, eps, world, troubles>>

UserWrites(o) ==
    /\ boot' = o
    /\ lag' = "loud"
    /\ fresh' = FALSE
    /\ UNCHANGED <<cache, queued, pc, obj, eps, world>>

EditRef ==
    /\ boot # None
    /\ Trouble
    /\ UserWrites([boot EXCEPT !.ref = ~@, !.gen = @ + 1])

\* Without a finalizer the object goes at once.
DeleteBootstrap ==
    /\ boot # None
    /\ ~boot.deleting
    /\ Trouble
    /\ UserWrites(IF boot.fin THEN [boot EXCEPT !.deleting = TRUE, !.gen = @ + 1]
                              ELSE None)

CreateBootstrap ==
    /\ boot = None
    /\ Trouble
    /\ UserWrites(NewBootstrap)

Crash ==
    /\ Trouble
    /\ cache' = boot
    /\ lag' = "none"
    /\ Done(boot # None)
    /\ UNCHANGED <<boot, world>>

-----------------------------------------------------------------------------
(* The other controllers and the machines                                  *)

OutsideStep == UNCHANGED <<boot, cache, lag, pc, obj, fresh, eps>>

\* TalosNode: the first configuration of a machine.
Configure(m) ==
    /\ node[m] = "bare"
    /\ m \in up
    /\ node' = [node EXCEPT ![m] = "configured"]
    /\ OutsideStep
    /\ UNCHANGED <<queued, cluster, kubeconfig, refresh, up, etcd, formed, calm, troubles>>

\* nodeReadyPredicate and nodeToBootstrap: the bootstrap is queued.
BecomeReady(m) ==
    /\ node[m] = "configured"
    /\ m \in up
    /\ node' = [node EXCEPT ![m] = "ready"]
    /\ queued' = (queued \/ (cache # None /\ cache.ref))
    /\ OutsideStep
    /\ UNCHANGED <<cluster, kubeconfig, refresh, up, etcd, formed, calm, troubles>>

\* TalosNode: an edit, an upgrade or an error ends phase Ready.
BecomeUnready(m) ==
    /\ node[m] = "ready"
    /\ Trouble
    /\ node' = [node EXCEPT ![m] = "configured"]
    /\ OutsideStep
    /\ UNCHANGED <<queued, cluster, kubeconfig, refresh, up, etcd, formed, calm>>

\* A configured control plane joins the etcd that it finds.
Join(m) ==
    /\ Answers(m)
    /\ etcd[m] = 0
    /\ \E n \in up : etcd[n] # 0 /\ etcd' = [etcd EXCEPT ![m] = etcd[n]]
    /\ OutsideStep
    /\ UNCHANGED <<queued, cluster, kubeconfig, refresh, node, up, formed, calm, troubles>>

\* The machine is reset: by annotation, or by hand.
Wipe(m) ==
    /\ node[m] \in {"configured", "ready"}
    /\ Trouble
    /\ node' = [node EXCEPT ![m] = "bare"]
    /\ etcd' = [etcd EXCEPT ![m] = 0]
    /\ calm' = (calm /\ m # First)
    /\ OutsideStep
    /\ UNCHANGED <<queued, cluster, kubeconfig, refresh, up, formed>>

MachineDies(m) ==
    /\ m \in up
    /\ Trouble
    /\ up' = up \ {m}
    /\ OutsideStep
    /\ UNCHANGED <<queued, cluster, kubeconfig, refresh, node, etcd, formed, calm>>

\* removeEndpointFromCluster; no endpoint is listed twice.
RemovedAt(list, i) ==
    [j \in 1 .. (Len(list) - 1) |-> list[IF j < i THEN j ELSE j + 1]]

\* NodeRemoval: the control plane leaves etcd and the endpoints; another one is left.
RemoveNode(m) ==
    /\ cluster # None
    /\ Len(cluster) > 1
    /\ Trouble
    /\ \E i \in 1 .. Len(cluster) :
         cluster[i] = m /\ cluster' = RemovedAt(cluster, i)
    /\ node' = [node EXCEPT ![m] = "gone"]
    /\ etcd' = [etcd EXCEPT ![m] = 0]
    /\ calm' = (calm /\ m # First)
    /\ refresh' = TRUE
    /\ OutsideStep
    /\ UNCHANGED <<queued, kubeconfig, up, formed>>

\* NodeRemoval: refreshKubeconfig, if there is one; a failure is not repaired.
RefreshKubeconfig ==
    /\ refresh
    /\ refresh' = FALSE
    /\ \/ /\ kubeconfig' = IF kubeconfig = None \/ cluster = None THEN kubeconfig
                           ELSE Head(cluster)
          /\ UNCHANGED troubles
       \/ Trouble /\ UNCHANGED kubeconfig
    /\ OutsideStep
    /\ UNCHANGED <<queued, cluster, node, up, etcd, formed, calm>>

\* The user puts another endpoint first.
EditEndpoints ==
    /\ cluster # None
    /\ Trouble
    /\ \E i \in 2 .. Len(cluster) :
         cluster' = [cluster EXCEPT ![1] = cluster[i], ![i] = cluster[1]]
    /\ calm' = FALSE
    /\ OutsideStep
    /\ UNCHANGED <<queued, kubeconfig, refresh, node, up, etcd, formed>>

\* ClusterProvision: the cluster is deleted after its nodes.
RemoveCluster ==
    /\ cluster # None
    /\ Trouble
    /\ cluster' = None
    /\ node' = [m \in Machines |-> "gone"]
    /\ etcd' = [m \in Machines |-> 0]
    /\ calm' = FALSE
    /\ OutsideStep
    /\ UNCHANGED <<queued, kubeconfig, refresh, up, formed>>

\* The garbage collector: the cluster owns the kubeconfig.
CollectSecret ==
    /\ cluster = None
    /\ kubeconfig # None
    /\ kubeconfig' = None
    /\ OutsideStep
    /\ UNCHANGED <<queued, cluster, refresh, node, up, etcd, formed, calm, troubles>>

-----------------------------------------------------------------------------

Reconcile ==
    \/ Get \/ AddFinalizer \/ ReadsFail \/ WaitForNodes \/ ShortCircuit
    \/ BeginBootstrap \/ Dial \/ DialFails
    \/ Bootstrap \/ BootstrapFails \/ BootstrapTimesOut \/ RecordBootstrap
    \/ Fetch \/ FetchFails \/ FetchTimesOut \/ SaveFails \/ MarkStored
    \/ SecretMissing \/ Unreachable \/ Complete \/ Report
    \/ DeleteSecret \/ DeleteSecretFails \/ SkipSecret \/ RemoveFinalizer

User == EditRef \/ DeleteBootstrap \/ CreateBootstrap

Machine(m) ==
    \/ Configure(m) \/ BecomeReady(m) \/ BecomeUnready(m) \/ Join(m)
    \/ Wipe(m) \/ MachineDies(m) \/ RemoveNode(m)

\* Without further trouble every machine that runs becomes a member of etcd.
Settle == \E m \in Machines : Configure(m) \/ BecomeReady(m) \/ Join(m)

Others ==
    \/ \E m \in Machines : Machine(m)
    \/ RefreshKubeconfig \/ EditEndpoints \/ RemoveCluster \/ CollectSecret

Next == Reconcile \/ Deliver \/ User \/ Crash \/ Others

Spec == Init /\ [][Next]_vars

\* The worker is always scheduled, the watch is never cut off for ever, and a
\* machine that runs is configured, becomes ready and joins etcd.
FairSpec ==
    /\ Spec
    /\ WF_vars(Reconcile)
    /\ WF_vars(Deliver)
    /\ WF_vars(Settle)

-----------------------------------------------------------------------------
(* Properties                                                              *)

PCs == {"idle", "start", "dial", "bootstrap", "record", "fetch", "mark", "probe",
        "setError", "retry", "unreachable", "delete", "final"}

\* Every variable has its type.
TypeOK ==
    /\ boot \in TalosClusterBootstrap \cup {None}
    /\ cache \in TalosClusterBootstrap \cup {None}
    /\ lag \in {"none", "quiet", "loud"}
    /\ queued \in BOOLEAN
    /\ pc \in PCs
    /\ IF pc = "idle" THEN obj = None ELSE obj \in TalosClusterBootstrap
    /\ fresh \in BOOLEAN
    /\ eps \in Seq(Machines)
    /\ pc \in {"dial", "bootstrap", "record", "fetch"} => eps # <<>>
    /\ cluster \in (Seq(Machines) \ {<<>>}) \cup {None}
    /\ kubeconfig \in Machines \cup {None}
    /\ refresh \in BOOLEAN
    /\ node \in [Machines -> {"bare", "configured", "ready", "gone"}]
    /\ up \subseteq Machines
    /\ etcd \in [Machines -> Nat]
    /\ formed \in Nat
    /\ calm \in BOOLEAN
    /\ troubles \in Nat

\* All members belong to the same etcd cluster.
OneEtcd ==
    \A m, n \in Machines : etcd[m] # 0 /\ etcd[n] # 0 => etcd[m] = etcd[n]

\* "Bootstrap must happen on endpoints[0]".  As long as that is the same machine
\* and keeps its data, there is one etcd cluster, however often Bootstrap is
\* sent: by a retry, after a restart, by a resource that was created anew.
OneEtcdWhileCalm == calm => OneEtcd

\* Once the API server holds Bootstrapped the call is never sent again for that
\* resource, not even by a worker that started from an outdated copy.
RecordedNeverRepeated ==
    pc = "bootstrap" /\ boot # None => ~boot.done

\* A write made from an outdated copy does not take back what was recorded.
ConditionsKept ==
    [][boot # None /\ boot' # None =>
         (boot.done => boot'.done) /\ (boot.stored => boot'.stored)]_vars

\* KubeconfigAvailable is true only while the Secret is there, unless the
\* bootstrap or the cluster is being deleted: the probe relies on it, nothing
\* fetches the kubeconfig a second time.
ClaimIsStored ==
    boot # None /\ boot.stored /\ ~boot.deleting /\ cluster # None =>
        kubeconfig # None

\* docs/api-reference.md: "Once phase == Completed the resource is a permanent
\* no-op": until its spec is edited or it is deleted nothing is written to it.
CompletedIsFinal ==
    [][boot # None /\ UpToDate(boot) /\ boot' # None /\ boot'.gen = boot.gen =>
         boot' = boot]_vars

\* The kubeconfig goes with the bootstrap that stored it, if that still names
\* the cluster, however often its deletion is interrupted.
SecretGoesToo ==
    [][boot # None /\ boot' = None /\ boot.fin /\ boot.ref /\ cluster # None
         => kubeconfig = None]_vars

\* Somebody waits for the bootstrap, and it has what it needs: a ready node, a
\* first endpoint that answers, and the API server the kubeconfig points to.
Healthy ==
    /\ boot # None /\ boot.ref /\ ~boot.deleting
    /\ cluster # None
    /\ SomeReady
    /\ Answers(Head(cluster))
    /\ kubeconfig # None => Reachable(kubeconfig)

\* A call that ran into its deadline was the last thing that happened: the phase
\* is left at Bootstrapping, and nothing comes back.
Stalled ==
    /\ Timeouts
    /\ pc = "idle" /\ ~queued /\ lag # "loud"
    /\ boot # None /\ boot.phase = "Bootstrapping"

\* A healthy bootstrap completes, except that one whose last call ran into its
\* deadline waits for an event.
BootstrapCompletes ==
    <>[](Healthy /\ ~Stalled) =>
        <>[](boot # None /\ boot.phase = "Completed" /\ boot.api)

\* A bootstrap that is deleted goes.
DeletionEnds ==
    (boot # None /\ boot.deleting) ~> (boot = None)

\* README.md: "Falls back to any available control plane endpoint if the primary
\* is unreachable": once etcd runs, a ready control plane that is a member and
\* answers is enough to get the kubeconfig.
FallsBack ==
    LET Waiting == boot # None /\ boot.done /\ boot.ref /\ ~boot.deleting
        Available == cluster # None /\
            \E i \in 1 .. Len(cluster) :
              /\ Answers(cluster[i])
              /\ node[cluster[i]] = "ready"
              /\ Reachable(cluster[i])
    IN <>[](Waiting /\ Available) => <>(kubeconfig # None)

-----------------------------------------------------------------------------
(* The safety properties in inductive form                                 *)

\* What the copies are worth: one that misses nothing is the resource, and one
\* that a write will be accepted from is, too.
CopiesTrue ==
    /\ lag = "none" => cache = boot
    /\ fresh => /\ pc # "idle" /\ boot # None /\ obj = boot
                /\ cache # None /\ cache.deleting = obj.deleting

\* The worker knows what it recorded: it is not about to send Bootstrap when
\* that is done, and not at work on a bootstrap that needs nothing.
WorkerKnows ==
    /\ pc = "bootstrap" => ~obj.done
    /\ pc \in {"dial", "bootstrap"} /\ boot # None /\ boot.done => obj.done
    /\ pc \notin {"idle", "start"} => obj.fin
    /\ pc \notin {"idle", "delete", "final"} => ~UpToDate(obj)
    /\ pc # "idle" => (obj.deleting <=> pc \in {"delete", "final"})
    /\ \A o \in {boot, cache} : o # None /\ o.phase = "Completed" => o.fin

\* A copy that is being deleted is the past of a bootstrap that is not: the new
\* one cannot have stored a kubeconfig yet.
NewStartsOver ==
    \A o \in {cache, obj} :
      o # None /\ o.deleting /\ boot # None /\ ~boot.deleting => ~boot.stored

\* The kubeconfig is where the worker believes it is.
SecretWhereClaimed ==
    /\ ClaimIsStored
    /\ pc = "mark" /\ cluster # None => kubeconfig # None
    /\ ~UnreliableReads /\ pc = "final" /\ obj.ref /\ cluster # None =>
         kubeconfig = None

BootstrapDiscipline ==
    CopiesTrue /\ WorkerKnows /\ NewStartsOver /\ SecretWhereClaimed

\* As long as the first endpoint stays, Bootstrap goes there, and whoever is a
\* member of etcd is so with it.
CallGoesToFirst ==
    calm =>
      /\ Head(cluster) = First
      /\ pc \in {"dial", "bootstrap"} /\ ~obj.done => eps = <<First>>
      /\ \A m \in Machines : etcd[m] # 0 => etcd[m] = etcd[First]

=============================================================================
