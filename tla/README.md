# Verification of yk-talos-management

The repository is a Kubernetes operator that manages Talos Linux clusters. Three
controllers watch three custom resources, and each keeps its state in the status and
the annotations of its resource, in Secrets, and in Talos machines it drives over gRPC.
This directory holds TLA+ models of the controllers, TLC configurations that check them
on small instances, and TLAPS proofs for every value of the constants.

## 1. Inventory

| Component | State | Operations | Correct when |
|---|---|---|---|
| TalosNode reconciler (`talosnode_controller.go`, `talosnode_upgrade.go`, `talosnode_extensions.go`) | spec, status, annotations of the node; the `<node>-config` Secret; the machine | add finalizer, apply configuration, check drift, upgrade by annotation or by spec, install extensions, standalone reset, record errors | the status never claims more than was done; the machine ends up as the spec says; imperative requests happen at most once |
| TalosCluster reconciler (`taloscluster_controller.go`, `secrets.go`) | spec and status of the cluster; four Secrets | generate or reload the PKI bundle, store the Secrets, guard and perform the teardown | one PKI for the life of the cluster; nothing missing when Ready; nothing left behind |
| TalosNode deletion (`handleDeletion` ff., `talosnode_drain.go`) | the finalizer, deletionAttempts; etcd membership, pods, endpoints, kubeconfig | last-control-plane guard, drain, etcd leave or force-remove, reset, clean-up | etcd keeps a member the controller leaves alone; a node is emptied, out of etcd, wiped and forgotten in this order; deletion ends |
| TalosClusterBootstrap reconciler (`talosclusterbootstrap_controller.go`) | spec and status conditions of the bootstrap; the kubeconfig Secret | wait for a control plane, bootstrap etcd, fetch and store the kubeconfig, probe the API server, remove the kubeconfig | one etcd cluster; what is recorded is never lost or repeated; the kubeconfig is there while it is claimed, and goes with the bootstrap |
| Talos client, dialer, Image Factory client | none | gRPC and HTTP calls | outside the models: each call succeeds, fails, or succeeds and loses its answer |
| Retry delays, conditions, finalizers | none | pure functions | delays are abstracted to "back in the queue" |
| Metrics, events, manager set-up, CRDs, chart | write-only or declarative | - | not modelled |

The components never call each other. They meet in the API server: the cluster's Secrets
feed `applyConfig` and every dial; a node that becomes Ready wakes the bootstrap
controller; a node's deletion edits the cluster's endpoints and the kubeconfig; the
cluster's deletion waits for nodes. Each controller runs one worker, so reconciles of one
kind never overlap, but users, the informer cache, machines and the other controllers act
between any two calls.

What is hard here:

- **the copy**: a reconcile works on a copy read from a cache that may lag, mutates it in
  place and writes it back; status writes carry the resourceVersion and may be refused,
  annotation patches do not and always land;
- **the order of writes**: each handler writes status, annotation, machine and Secret in
  some order, and the process may die between any two;
- **wake-ups**: the event filter drops status changes, so whatever must happen later
  needs a requeue, and an early return without one is final until the next event;
- **lost answers**: a call that failed may have been carried out.

`PROJECT.json` lists the hazards line by line with the properties aimed at them.

## 2. Modules

| Module | What it is |
|---|---|
| `OneShot` | abstract: a request is recorded, then performed at most once |
| `TalosNode` | the reconcile loop of one live TalosNode with its machine, user and cache |
| `MCTalosNode` | instances for TLC |
| `TalosNodeProofs` | theorems about `TalosNode`: types, status, resets |
| `TalosNodeVersionProofs` | theorems about the versions of a `TalosNode` |
| `ClusterLife` | abstract: what the other controllers may rely on of a TalosCluster |
| `ClusterProvision` | the life of a TalosCluster and its four Secrets |
| `MCClusterProvision` | instances for TLC |
| `ClusterProvisionProofs` | theorems about `ClusterProvision` |
| `Decommission` | abstract: what the deletion of TalosNodes promises |
| `NodeRemoval` | the deletion of the TalosNodes of one cluster, with etcd, Kubernetes and the machines |
| `MCNodeRemoval` | instances for TLC |
| `NodeRemovalProofs` | theorems about `NodeRemoval`: the guard, the drain, the Secrets |
| `NodeRemovalListProofs` | theorems that depend on the list of endpoints: types, the order of etcd and wipe, the endpoints |
| `NodeRemovalRefinementProofs` | `NodeRemoval` implements `Decommission` and assumes no more than `ClusterLife` |
| `ClusterBootstrap` | the life of a TalosClusterBootstrap, with the nodes, endpoints, kubeconfig and etcd it depends on |
| `MCClusterBootstrap` | instances for TLC |
| `ClusterBootstrapProofs` | theorems about `ClusterBootstrap` |

`ClusterBootstrap` takes from the other models what a bootstrap sees of them: a node becomes
ready (`TalosNode`), a node leaves etcd and the endpoints and rewrites the kubeconfig
(`NodeRemoval`), the cluster goes (`ClusterProvision`). `NodeRemoval` takes from
`ClusterProvision` what a node's deletion sees of the cluster's: the Secrets go, then the
cluster (`RemoveCredentials`, `RemoveCluster`), under that module's guard.

That interface is stated once, in `ClusterLife`: the Secrets are taken away only when the
cluster is being torn down and no live TalosNode is left, they do not come back, and the
cluster goes after the last of them. `ClusterProvision` is shown to implement it
(`KeepsFaith`: with four Secrets and the nodes as they are), and `NodeRemoval` to let the
cluster do nothing else (`OwnerAsAssumed`: with the one Secret it reads and the nodes as
the informer shows them, which is what `activeNodeCount` counts). What the second does not
say is that it lets the cluster do everything `ClusterLife` allows; it leaves out a cluster
that goes without ever having had a Secret, under which no node was configured.

`Decommission` is what the deletion of nodes amounts to for somebody who sees only the
resources and the machines: nothing happens to a node that nobody asked to delete; its
Kubernetes node goes only without evictable pods; etcd membership and disks go only while
another control plane is a member and not wiped, or the cluster is gone; the TalosNode goes
after its machine configuration. There is no worker in it, no copy, no attempt and no failure.

### TalosNode

`node` is the resource in the API server, `cache` the informer's copy and `lag` what the
cache misses (nothing, only writes that the event filter drops, or more). `queued` is the
work queue. `pc`, `obj`, `fresh` and `img` are the worker: where it is, its copy, whether
that copy carries the latest resourceVersion, and the image handed to `handleUpgrade`.
`saved` is the `<node>-config` Secret and `mach` the machine.

An action is one segment of a handler that ends with a call that changes something:

| Code | Actions |
|---|---|
| `Reconcile`, `ensureFinalizer` | `Get`, `AddFinalizer`, `AddFinalizerFails` |
| `checkUpgradeComplete` | `PollUpgrade`, `CompleteUpgrade`, `CompleteUpgradeFails` |
| `reconcileVersion`, `computeDesiredImage` | `SpecUpgrade`, `RecordSchematic`, `SchematicFails`, and `Settling` when they do not take over |
| `handleUpgrade` | `AnnotationUpgrade`, `RejectUntagged`, `BlockDowngrade`, `UpgradeUnreachable`, `SkipContainer`, `MarkUpgrading(Fails)`, `SendUpgrade(Fails)`, `RecordUpgrade`, `RecordFailedUpgrade`, `SaveUpgradeError` |
| `handleStandaloneReset` | `RecordReset(Fails)`, `SendReset(Fails)`, `SaveReset` |
| `checkDrift`, `applyConfig` | `StayUpToDate`, `DriftInSync`, `BeginApply(Fails)`, `Push`, `PushFails`, `PushTimesOut`, `SaveNodeConfig(Fails)`, `SaveApplied(Fails)` |
| `setError` | `SetError` |
| environment | `Deliver`, `EditSpec`, `RequestUpgrade`, `RequestReset`, `Reboot`, `ExternalDrift`, `Crash` |

Abstractions: a rendered configuration (base and patches) is one value; an image is an
extension list and a tag; versions are ordered integers, `NoTag` and `Opaque` are a missing
tag and a tag that is not a version (`image@sha256:...`); delays, retry counters, messages,
events and metrics are left out. Reads of the cluster and its Secrets fail or succeed with
the call they serve. Dials are lazy, as in `RealDialer`: they only build a client, so the
fallback from the insecure to the mTLS connection in `applyConfig`, which waits for a dial
to fail, is not reached. The call that follows succeeds only over the connection that the
machine wants (`Reachable`): without TLS in maintenance mode, with mTLS once it is
configured. A status write, a patch or a finalizer write is accepted, is refused, or is
accepted and its answer is lost (`PutFails`, `PatchFails`). `FirstDoc` is the first YAML
document of a configuration, the only one that `configsDiffer` decodes, so drift in the
standalone documents after it is not seen (`Drifted`). The cache is current or holds one
older version, and it catches up at once: two reads in a row never see two different
outdated versions.

### ClusterProvision

`cluster`, `cache`, `lag`, `queued`, `pc`, `obj` and `fresh` are as above; `ca` is the
bundle in memory, `at` the number of Secrets already written or deleted in this reconcile,
in the order of `Stored`; `secrets` is what is stored. A bundle is known by its authority; a
generated configuration by the authority and the version it was rendered for.

| Code | Actions |
|---|---|
| `Reconcile`, `ensureFinalizer` | `Get`, `AddFinalizer` |
| `provision` | `BeginProvision`, `LoadBundle`, `GenBundle`, four times `Store` or `StoreFails`, `SaveReady`; the failures of its reads and of generating |
| `setError` | `SetError` |
| `handleDeletion`, `DeleteMultiple` | `BlockDeletion`, `BeginDeletion`, four times `DeleteSecret`, `RemoveFinalizer`, and their failures |
| environment | `Deliver`, edits, `DeleteCluster`, TalosNodes that are deleted and go, `Crash` |

Every write is accepted, is refused (a conflict, an unreachable API server), or is accepted
and its answer lost; so are creations and deletions of Secrets. The TalosNodes that
reference the cluster are fixed at the start and only ever leave. Left out: an empty
endpoint list, which the CRD refuses; bundles that do not parse; a Secret that the cached
read of its deletion does not show yet, which the garbage collector takes by its owner
reference; and a request that ends in its deadline, after which nothing is requeued (the
TalosNode and bootstrap models have that case).

### ClusterBootstrap

`boot` is the resource, and `cache`, `lag`, `queued`, `pc`, `obj`, `fresh` the watch and the
worker as above; `eps` is the endpoints the worker tries. `cluster` is `spec.endpoints` of
the TalosCluster, `kubeconfig` the machine the stored kubeconfig names. A machine is named
by its endpoint; `node` is the state of its TalosNode, `etcd` the etcd cluster it is a
member of, `up` says whether it runs. `formed` and `calm` are history.

| Code | Actions |
|---|---|
| `Reconcile`, `ensureFinalizer` | `Get`, `AddFinalizer`, `ReadsFail` |
| `waitForReadyNodes` | `WaitForNodes` |
| status `Bootstrapping`, the choice of the endpoints, `dialAny` | `BeginBootstrap`, `Dial`, `DialFails` |
| `client.Bootstrap` and condition Bootstrapped | `Bootstrap`, `BootstrapFails`, `BootstrapTimesOut`, `RecordBootstrap` |
| `GetKubeconfig`, `saveKubeconfig`, condition KubeconfigAvailable | `Fetch`, `FetchFails`, `FetchTimesOut`, `SaveFails`, `MarkStored`, `ShortCircuit` |
| `waitForAPIServer` | `SecretMissing`, `Unreachable`, `Complete` |
| `setError` and the statuses written on failure | `Report` |
| `handleDeletion` | `DeleteSecret(Fails)`, `SkipSecret`, `RemoveFinalizer` |
| `nodeReadyPredicate`, `nodeToBootstrap` | `BecomeReady` |
| environment | `Deliver`, `EditRef`, `DeleteBootstrap`, `CreateBootstrap`, `Crash`, `Configure`, `BecomeUnready`, `Join`, `Wipe`, `MachineDies`, `RemoveNode`, `RefreshKubeconfig`, `EditEndpoints`, `RemoveCluster`, `CollectSecret` |

Abstractions: the cluster, the TalosNodes and Secrets are read as they are at that moment,
so staleness enters through the cached bootstrap and through what happens between a read
and the call it leads to. `spec.clusterRef` names the cluster or does not. The machines'
configurations were rendered once, so a fetched kubeconfig names the endpoint that was
first at that time. A machine with etcd data answers a second Bootstrap with AlreadyExists;
one that was reset, or never joined, forms a new etcd cluster. No endpoint is listed twice.
A cluster that was deleted does not come back. One counter, `troubles`, bounds failures,
crashes, edits and mishaps together.

### NodeRemoval

`nodes` and `cluster` are the resources, `view` and `seen` the informer's copies. Every field
changes in one direction only here, so a copy is up to date exactly when it equals the
resource, and a write is refused exactly when the worker's copy `obj` does not equal it.
`creds`, `kubeconfig` and `confs` are the Secrets the handler uses. `queue`, `pc`, `cur` and
`remote` are the work queue and the worker: where it is, at which node, and which endpoint
its Kubernetes client talks to. `etcd`, `machine`, `kube` and `pods` are the outside world.

| Code | Actions |
|---|---|
| `Reconcile`, `handleDeletion` | `Get`, `Mark(Fails)`, `Block`, `PassGuard`, `GuardFails`, `Reset`, `DeleteConfig(Fails)`, `RemoveFinalizer(Fails)` |
| `isLastControlPlane` | `LastControlPlane` |
| `drainAndDeleteNode`, `cordonNode`, `drainPods`, `deleteNodeObject` | `SkipDrain`, `Cordon`, `Evict`, `NextRound`, `Drained`, `DeleteObject`, `DrainFails` |
| `handleEtcdLeave`, `loadTalosconfig`, `EtcdForceRemoveByIP`, `dialAny` | `SkipLeave`, `LoadFails`, `Leave(Fails)`, `ForceRemove` |
| `removeEndpointFromCluster`, `refreshKubeconfig` | `RemoveEndpoint`, `RefreshKubeconfig` |
| environment | `DeliverNodes`, `DeliverCluster`, `DeleteNode`, `AnnotateSkip`, `DeleteCluster`, `RemoveCredentials`, `RemoveCluster`, `Schedule`, `PodStops`, `MachineDies`, `Crash` |

Abstractions: a watch delivers all TalosNodes, or the cluster, at once; Secrets are read as
they are; the pods of a node are one pod, running, terminating or gone; etcd works while a
majority of its members runs, and refuses a change that would end this; the API server
behind an endpoint answers while its machine runs and is a member, and etcd works. A
conflict that outlives `RetryOnConflict` is a cache that does not catch up: with
`StaleReads = FALSE` every read waits for the cache except the one in `refreshKubeconfig`,
which follows the handler's own update at once, without a retry, and takes what the cache
shows. `MaxAttempts` is `etcdLeaveMaxAttempts`, 3 in the code and 1 in the runs. TLC
considers `MaxTroubles` failures, lost answers, crashes and broken machines together; users
may set `skip-drain` on the nodes of `Escape`, in the runs only when the drain cannot
succeed otherwise (`Patient`). Dials are lazy as in the real
client (`EagerDial = FALSE`): they succeed, so `dialAny` returns the first peer. The
annotation `skip-drain` stands for `spec.skipDrain` as well. The set of nodes is fixed, and
all have been configured and bootstrapped.

## 3. Runs

| Run | Question | Bounds |
|---|---|---|
| `node_safety` | do status and machine stay consistent, and does the node end up as its spec says, with stale reads, edits, a reset, drift, failures, lost answers, deadlines and a crash in any order? | 3 configurations, two of which differ only after the first document; 1 annotation image; 2 edits, 1 reset, 2 failures (drift included), 1 crash: 1.54 million states |
| `node_imperative` | are resets one-shot, versions truthful and upgrades finite, when annotations and spec compete? | 2 specs, 4 images (older, newer, untagged, digest), 3 edits, 2 resets, 1 crash; machine or container: 549,000 states |
| `node_uptodate`, `node_reset_crash`, `node_fallback` | what the comments and the documentation say and the code does not do | the least that shows it |
| `cluster_life` | one PKI, no Secret missing or left over, is every step one of `ClusterLife`, do provisioning and teardown end? | 2 versions (one refused), 2 nodes, 1 edit, 1 failure or lost answer, 1 crash: 183,000 states |
| `cluster_same_ca` | another statement the code does not keep | as above, 2 failures, unreliable reads |
| `removal_life` | does etcd survive, is each node drained, out of etcd, wiped and forgotten in that order, does the list of endpoints follow, is every step one of `Decommission`, and does a deletion end, unless it is held on purpose? | 3 control planes deleted in any order, with or without the cluster; one is wiped on deletion, has pods and may get `skip-drain`; 1 trouble at any step: a failed call, a lost answer, a crash or a broken machine |
| `removal_teardown` | does the documented order of a teardown work? | 2 control planes and a worker with pods, no failure |
| `removal_kubeconfig` | does the kubeconfig leave the node that goes? | as above |
| `bootstrap_life` | is there one etcd cluster, are conditions kept and true, does a bootstrap complete or go? | 2 control planes; any 2 of failures, lost answers, deadlines, crashes, resets, broken machines, node removals, edits, deletions and re-creations: 195,000 states |
| `bootstrap_fallback` | does the kubeconfig come from another control plane when the first does not answer? | as above, no deadlines |

The bounds are enough for the interesting cases: a second edit overtakes a reconcile that
is still working on the first; a second reset shows what a left-over companion annotation
does; one crash can fall between any two calls. Two configurations with the same first
document are what drift detection cannot tell apart. Three control planes are the least
with which etcd survives a broken machine; one attempt to leave is enough to see a retry
and the force-remove after it; one trouble of any kind falls between any two calls of any
deletion, while the other nodes are deleted too. The safety of a deletion is proved for any
number of troubles; its end is checked for one, that is, not for a machine that breaks
after a crash. Two troubles are what the hazards of a bootstrap need: a lost answer or a
crash after the call and a change of the outside world, or a deletion and an outdated copy.
The inductive invariants `BootstrapDiscipline` and `ProvisionDiscipline` also held with 3
troubles (1.05 million states) and with 2 edits and 2 failures (1.2 million) before they
were proved; those instances exceed the time of a run kept here. `CHECK_DEADLOCK FALSE` is
set everywhere because a node or a cluster for which nothing is left to do stops: with the
work queue empty, drift detection off and the users' edits spent, there is no next step.

**Fairness.** The worker (`Reconcile` as a whole), the watch (`Deliver`) and, for nodes, the
reboot of a machine that accepted an image are weakly fair: controller-runtime always
schedules its worker and re-lists a broken watch. Users, failures and crashes are not, and
they are bounded, so every behaviour has a suffix without them. In `NodeRemoval` several
nodes share the worker: each node's turn is strongly fair, because the work queue is served
in order and whoever comes back goes to its end. Evicted pods stop on a running machine, and
a cluster whose nodes are all being deleted goes, which `cluster_life` shows (`DeletionEnds`).
In `ClusterBootstrap` machines that run are configured, become ready and join an etcd they
find (`Settle`), which the TalosNode controller (`node_safety`) and Talos see to.
Fairness is on the disjunction, not on each action, because a failing call is no less a
step than a succeeding one; the bound on failures is what rules out failing for ever.

**What the runs that pass show.** The configuration goes over an unauthenticated connection
only while nothing was applied; `ConfigApplied` implies a saved configuration; Ready is
claimed for the current spec; an upgrade is announced before it is sent and is never a
downgrade; without failures the reported version is the one that runs and upgrades end; a
reset is performed once per request. A node that is only configured, neither upgraded nor
reset, converges, in all cases but two that the code does not get out of: the machine runs
and no configuration is on record (`Stranded`, see `node_fallback`), or the last call ended
in a deadline, which the code takes for a shutdown (`Abandoned`). A cluster has one PKI,
never misses a Secret while it is Ready, leaves none behind, keeps them while a live node
needs them, stores none once the teardown has begun, and both provisioning and teardown
end. While a cluster exists the controller leaves some member of etcd alone, however many
control planes are deleted; a control plane that could leave etcd has left it before it is
wiped or forgotten; the list of endpoints does not name a control plane that is gone, as
long as the retries of the update outlast the lag of the cache and no call failed; and a
deletion ends, whatever failed, broke or restarted, unless the guard holds it or the
kubeconfig leads to an API server that does not answer, when only `skip-drain` helps
(`Held`). As long as the first endpoint is the same machine and keeps its data there is one
etcd cluster, whatever is retried, lost, restarted or created anew; a recorded bootstrap is
never repeated, a recorded condition never lost to an outdated copy; the kubeconfig is
stored while the bootstrap says so and goes with it; nothing is written to a completed
bootstrap; and a bootstrap that has a ready node, a first endpoint and an API server that
answer completes, except that one whose last call ran into its deadline waits for the next
event (`Stalled`): the code takes the deadline for a shutdown and requeues nothing.

**Disagreements.**

- `node_uptodate`: a failed apply leaves the new generation observed and the old
  `ConfigApplied`; an upgrade that completes next sets Ready, and the spec counts as
  applied (`talosnode_controller.go:133`).
- `node_reset_crash`: a restart between the Reset call and the status write leaves a wiped
  machine that is never configured again (`docs/features.md:154`).
- `node_fallback`: a machine that already runs when its TalosNode is created, or that was
  configured before a crash or a failed write, is dialled without TLS for ever: the fallback
  to mTLS waits for `DialInsecure` to fail, which it does not
  (`talosnode_controller.go:702`).
- `cluster_same_ca`: a failed or outdated read of the bundle makes `provision` sign the
  remaining Secrets with a new authority (`taloscluster_controller.go:157`).
- `removal_teardown`: when all TalosNodes are deleted first, the control planes that are left
  are held by the guard until the TalosCluster is deleted too (`docs/features.md:203`).
- `removal_kubeconfig`: `refreshKubeconfig` reads the cluster from the cache straight after
  the handler has updated it, so it may find the list from before and point the kubeconfig to
  the node that goes, without any failure (`talosnode_controller.go:576`).
- `bootstrap_fallback`: the fallback to another control plane is in `dialAny`, and the real
  dial does not contact anybody: it succeeds at the first endpoint, and the call that then
  fails is not tried elsewhere (`README.md:15`).

More were met and have no run:

- after a restart between persisting the schematic and sending the upgrade the extensions
  look installed (`talosnode_extensions.go:65`);
- a restart before `last-upgrade` is persisted makes `checkUpgradeComplete` wait for the
  previous upgrade's version (`talosnode_upgrade.go:136`);
- nodes already being deleted do not count in the cluster's deletion guard, so they can
  lose their credentials (`CHANGELOG.md:37`);
- after a change of `talosVersion` or `kubernetesVersion` the machine configurations are
  rendered again but `SecretManager.Create` leaves the existing Secrets as they are, where
  `docs/features.md:19` says they are regenerated (`secrets.go:47`);
- drift in the standalone documents of a configuration is never seen, since `configsDiffer`
  decodes the first document (`talosnode_controller.go:225`), where `docs/features.md:88`
  speaks of the running configuration;
- after a call that ended in a deadline nothing requeues the node: `EventuallyConverged`
  needs its exception `Abandoned`;
- when the answer to the patch that records a reset is lost, the request counts as handled
  and the reset is not sent (`talosnode_controller.go:352`);
- a TalosNode created after the cluster's deletion guard took its list loses its credentials
  (`taloscluster_controller.go:85`); the nodes of `ClusterProvision` are fixed at the start;
- when the record of a bootstrap is lost (the resource is created anew, or the answer and
  the status write are) and the first endpoint has changed or was reset meanwhile, Bootstrap
  goes to a machine without data and a second etcd cluster forms, against the comment at
  `talosclusterbootstrap_controller.go:125`: without `calm`, `OneEtcd` fails;
- a kubeconfig stored after its machine was removed from the endpoints names that machine:
  `refreshKubeconfig` found no Secret to rewrite, and nothing fetches it again;
- a read that fails in the bootstrap's `handleDeletion` is not looked at further and the
  kubeconfig Secret stays: with `UnreliableReads = TRUE`, `SecretGoesToo` fails.

## 4. Proofs

`TalosNodeProofs` proves, from the named assumptions on the constants (`DataAssumption`,
`EnvironmentAssumption`, `SwitchAssumption`, `BoundAssumption`) and for all their values, stale
reads, deadlines, lost answers and unbounded faults included:

1. `TypeCorrect`: the type invariant. One lemma per group of actions, on top of lemmas that
   say what a write to a node, its status, its annotations or the machine builds.
2. `DisciplineHolds`: `StatusDiscipline` is inductive given the types. None of the safety
   properties is inductive alone: that `pushFirst` implies an unset `ConfigApplied` needs that
   nobody else writes the status meanwhile (`StatusOwned`), which needs that the status was
   written with a current copy (`CopySync`), which for `Get` needs that a cache that misses
   nothing equals the resource (`CacheSync`). `SavedFirst` and `Committed` say what the worker
   established before its last write.
3. `InsecureSafe`, `SavedBeforeApplied`, `UpgradeSafe`, `NoDowngrades` follow from it; `ReadyIsCurrent` is the
   action property, from the invariant and the lemma that only the last write of
   `applyConfig` (`SaveApplied`, or `SaveAppliedFails` whose answer is lost) sets it there.
4. `ResetDisciplineHolds` and `ResetsOnce`: with up-to-date reads (`StaleReads = FALSE`),
   `TalosNode` implements `OneShot` under the refinement mapping `requested`, `consumed`,
   `performed` <- the reset annotation, its companion, the resets the machine carried out.
   Recording a request is `Consume`, the machine's reset `Perform` even if the answer is lost,
   and every other step stutters. The hypothesis is needed: the annotation patch carries no
   resourceVersion.

`TalosNodeVersionProofs` goes on from there, with up-to-date reads and for as long as no call
failed and the controller did not crash:

1. `VersionsTracked`. A machine that accepted an image runs the old version until it reboots,
   and the controller learns of the new one from an annotation, so neither property below is
   inductive. `VersionDiscipline` keeps track of the image the machine may be about to boot:
   before an upgrade is sent, none but the reported version (`Settled`); then the one in
   memory until `last-upgrade` names it, and that one from there on (`Underway`), which is not
   older than what the machine runs. It takes that nobody reconfigures or resets a node in
   phase Upgrading (`NotUpgrading`) and that the worker decides on the persisted status
   (`WorkerSees`).
2. `ReportedIsRunning` follows. `NoFallback` is the action property: only a reboot changes what
   a machine runs (`OnlyReboot`). That nothing failed is part of what both state: an answer
   that was lost leaves a machine that boots a version nobody recorded. That reads are up to
   date is what the argument needs, since a patch of the annotations hands even an outdated
   worker a current copy.

`NodeRemovalProofs` and the two modules after it prove, from `RemovalAssumption` and
`NoneAssumption`, for any number of nodes, stale reads, lazy and eager dials, and unbounded
failures, crashes and broken machines:

1. `GuardHolds` and `EtcdIsSpared`. `EtcdSurvives` is not inductive: the guard looks at
   resources in a cache, the damage is done minutes later in etcd. `GuardDiscipline` connects
   them: a copy may still show as live what is being deleted, never the converse
   (`CopiesLag`); the worker only handles nodes that its cache shows as being deleted
   (`WorkerDeletes`); so whoever is live in the cache is still a member (`LiveUntouched`); and
   while the cluster exists some member is out of the worker's reach, a live one if there is
   one (`OneSpared`). Passing the guard needs another live node, which becomes the member
   spared; a refreshed copy only has fewer live nodes; and every other step touches the
   worker's own member at most (`Spares`, `Keeps`).
2. `DrainedFirst`: a node under drain stays cordoned, so nothing is scheduled on it once it
   is empty.
3. `ConfigsAreRemoved`: a TalosNode goes only with its finalizer, and the worker gets there
   through `DeleteConfig`.

`NodeRemovalListProofs` is about what depends on `spec.endpoints`:

1. What `filterExclude` returns (`WithoutFacts`): a list of the same kind, without the
   endpoint, empty exactly if nothing else was listed, unchanged exactly if it was not listed.
   The library's filter is recursive and nothing can be proved about it here, so `Without` is
   defined by the positions of the items it keeps; that this is the filter is
   `FilterAssumption` of `MCNodeRemoval`, which TLC evaluates for all lists up to a bound. That
   there is a j-th item to keep (`NthExists`) needs no induction: it is at the least position
   up to which j items are kept (`LeastNumber`).
2. `TypeCorrect`, with what the types say of the code: the list of endpoints never gets
   empty, only a control plane gets to etcd and to the list, a drain has a client, and
   `attempts` stays within the limit.
3. `LeavesFirst`. The property compares two moments: what may have kept the node in etcd is
   asked when it is wiped or forgotten, but it left, or did not, several reconciles earlier,
   perhaps before a crash. `LInv` says that a control plane past the etcd step for which
   nothing stands in the way now has left. It is inductive because nothing gets better in the
   meantime (`NoBetter`): machines only break, members only leave, failures stay on record
   and the endpoint that is asked stays the first of the others, except where the worker
   itself takes its own endpoint off the list; so who is free to leave was so when the
   worker asked (`FreeBefore`).
4. `EndpointsAreCut`. `KInv` says that a control plane that is gone, or about to go, is not
   listed, unless no other endpoint is (`Unlisted`); removing further endpoints keeps that,
   the removal of the last kind of endpoint being refused (`UnlistedStays`).

   Both assume that a copy is current when it is read (`StaleReads = FALSE`). They need it:
   a lagging copy of the cluster may name a control plane that is gone as the first to ask,
   and an update made from one is refused until the retries are used up. That no call failed is part of what both
   state, since the handler only logs a failed force-remove or update and goes on.

`NodeRemovalRefinementProofs` proves the two refinements, without assuming current copies:

1. `PromiseIsKept`: `NodeRemoval` implements `Decommission`. Each action changes at most one
   of the abstract variables, most of them none. What a step does is allowed because of what
   the invariants remember of earlier steps: the worker's node is being deleted even if its
   copy is old (`WorkerDeletes`, `CopiesLag`), another control plane is spared when the
   worker gets to etcd and to the disk, long after the guard (`OneSpared`), the node under
   drain is empty (`DInv`), its configuration is gone (`CInv`). Failed calls whose effect
   took place, steps that are repeated after a crash, and refused writes are steps of
   `Decommission` or stutter.
2. `OwnerIsAssumed`: what surrounds the deletion keeps to `ClusterLife`. The live nodes in the
   informer's copies only get fewer, although a watch replaces all of them at once
   (`CopiesLag`), and the handler's own update of the cluster neither removes it nor takes its
   deletion back (`ListIsCut`).

`ClusterProvisionProofs` proves, from `ClusterAssumption` and `NoneAssumption`, for any
versions and nodes and unbounded edits, failures and crashes:

1. `TypeCorrect` and `DisciplineHolds`. `ReadyMeansStored` and `NothingLeft`
   are about Secrets that a worker stores or deletes one by one, from a
   copy that may be outdated. `ProvisionDiscipline` says what it has done so far: the first
   `at` Secrets are there, or gone (`Counted`); a copy never shows a deletion or a finalizer
   that the cluster does not have, and nothing is stored without a finalizer (`Onwards`); a
   copy that a write is accepted from is the cluster but for its status (`CopiesTrue`).
2. `ReadyIsStored` and `NothingIsLeft` follow. What comes next rests on the lemma that says
   which steps change a Secret (`SecretsChange`).
3. `FaithIsKept`: the reconciler implements `ClusterLife`, whatever its copies show. The
   teardown has begun, for the abstract specification, once both the informer's copy and the
   worker's are of a deleted cluster (`Closing`); it cannot begin earlier, since a worker with
   an older copy may still store a Secret. `Forward` is why it is never taken back: a worker
   that saw the deletion has it from the informer, whose copy does not go back, and one that
   provisions has not seen it.
4. `SameAuthority` and `PKIStays`, assuming that reads are reliable
   (`~UnreliableReads`): `OneAuthority` adds that the bundle in memory signed what is stored,
   and that no other Secret is there without the bundle unless the cluster is being torn
   down. The hypothesis is needed: `cluster_same_ca` shows what happens without it.

`ClusterBootstrapProofs` proves, from `BootstrapAssumption` and `NoneAssumption`, for any
control planes and endpoints, lazy and eager dials, deadlines and unbounded troubles:

1. `TypeCorrect` and `DisciplineHolds`. `BootstrapDiscipline` connects three copies of one
   status: what the API server holds, what the worker started from and what it has written
   since. `WorkerKnows` is why an outdated copy does no harm: whoever gets past the first
   status write had the current copy, and whoever did not is stopped there. `NewStartsOver`
   is about a bootstrap that was deleted and created anew while a worker still deletes the
   old one.
2. `NeverRepeated` and `ClaimHolds` follow from it; `ConditionsStay`, `CompletedStays` and
   `SecretGoes` are action properties, from the lemma that says what a step may write to the
   resource (`BootChanges`). `SecretGoes` assumes `~UnreliableReads`.
3. `OneEtcdHolds`: while the first endpoint stays (`calm`), the call goes there and every
   member of etcd is in that machine's etcd cluster (`CallGoesToFirst`), so a repeated call
   finds data, and who joins finds the same etcd.

Only model-checked is liveness (`EventuallyConverged`, `UpgradeEnds`, `EventuallyProvisioned`,
`DeletionEnds`, `RemovalEnds`, `BootstrapCompletes`), which is beyond the prover, and that
`Without` is the recursive filter. Everything else that a passing run checks is a theorem.
`NothingLeft` and `NoConfigLeft` are theorems that no run checks by themselves: the
refinements that `cluster_life` and `removal_life` check imply them.

## 5. Plan

Done: `TalosNode`, `OneShot`, `ClusterProvision`, `NodeRemoval` and `ClusterBootstrap`,
each with theorems, and the refinements of `OneShot`, `ClusterLife` and `Decommission`.
What is left, in order:

1. Pure algorithms: `GetRetryDelay` (with `RETRY_BASE_DELAY=0` the delay is 0 and nothing is
   requeued, `config.go:23`), the patch merge of `applyConfig`, version comparison.
2. The one-shot refinement for upgrades by annotation; an abstract specification of what a
   bootstrap promises, like `Decommission`.
3. The statement about installed extensions, in a form that the code keeps.

## Not modelled

gRPC and TLS plumbing, the Image Factory's HTTP, metrics, events, manager set-up, generated
code and the chart decide nothing the properties can tell apart. Delays are a place in the
work queue: no property depends on their length. A request that ends in its deadline is left
out of `ClusterProvision` and `NodeRemoval`; its effect, that nothing comes back until the
next event, is in `TalosNode` and `ClusterBootstrap`.
