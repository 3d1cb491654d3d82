-------------------------- MODULE ClusterProvision --------------------------
(***************************************************************************)
(* The life of a TalosCluster                                              *)
(* (src/internal/controller/taloscluster_controller.go and the             *)
(* SecretManager of src/internal/talos/secrets.go): generating the PKI     *)
(* bundle and the configurations signed with it, storing them one Secret   *)
(* after the other, and removing them again once no TalosNode is left that *)
(* the deletion guard waits for.                                           *)
(*                                                                         *)
(* A reconcile is cut at every call to the API server.  A bundle is known  *)
(* by its certificate authority, a number that no other bundle has.        *)
(*                                                                         *)
(* An operator Wrong_X is X with a plausible mistake; nothing uses it.     *)
(***************************************************************************)
EXTENDS Integers, Sequences

CONSTANTS
    Versions,        \* values of spec.talosVersion
    BadVersions,     \* those that do not parse as a version
    Nodes,           \* the TalosNodes that reference the cluster
    None,            \* an absent object, secret or bundle
    UnreliableReads, \* the read of the bundle may fail or be outdated
    MaxEdits, MaxFaults, MaxCrashes   \* bounds for TLC

ASSUME ClusterAssumption ==
    /\ BadVersions \subseteq Versions
    /\ UnreliableReads \in BOOLEAN
    /\ {MaxEdits, MaxFaults, MaxCrashes} \subseteq Nat

VARIABLES
    cluster,   \* the TalosCluster held by the API server; None once removed
    cache,     \* the informer's copy of it
    lag,       \* what the cache misses: "none", "quiet" (dropped by the event
               \*   filter) or "loud" changes
    queued,    \* the work queue holds the cluster
    pc,        \* where the worker is in Reconcile
    obj,       \* the worker's in-memory copy
    fresh,     \* obj carries the latest resourceVersion
    ca,        \* the bundle in memory
    at,        \* how many of the Secrets are already written or deleted
    secrets,   \* the generated Secrets
    nodes,     \* the TalosNodes: "live", "terminating" or "gone"
    lastCa,    \* history: how many bundles were generated
    spent      \* history: edits, faults and crashes so far

vars == <<cluster, cache, lag, queued, pc, obj, fresh, ca, at,
          secrets, nodes, lastCa, spent>>

Stored == <<"secrets", "controlplane", "worker", "talosconfig">>
Kinds  == {Stored[i] : i \in 1 .. 4}

Phases == {"", "Provisioning", "Ready", "Error", "Deleting"}
Cluster ==
    [gen : Nat, fin : BOOLEAN, deleting : BOOLEAN, ver : Versions,
     phase : Phases, obsGen : Nat,
     generated : BOOLEAN]          \* condition ConfigsGenerated

ASSUME NoneAssumption == None \notin Cluster \cup Nat \cup [ca : Nat, ver : Versions]

\* isUpToDate
UpToDate(o) == o.obsGen = o.gen /\ o.phase = "Ready" /\ o.generated

Init ==
    /\ \E v \in Versions :
         cluster = [gen |-> 1, fin |-> FALSE, deleting |-> FALSE, ver |-> v,
                    phase |-> "", obsGen |-> 0, generated |-> FALSE]
    /\ cache = cluster
    /\ lag = "none"
    /\ queued = TRUE
    /\ pc = "idle"
    /\ obj = None
    /\ fresh = FALSE
    /\ ca = None
    /\ at = 0
    /\ secrets = [k \in Kinds |-> None]
    /\ nodes = [n \in Nodes |-> "live"]
    /\ lastCa = 0
    /\ spent = [edits |-> 0, faults |-> 0, crashes |-> 0]

-----------------------------------------------------------------------------
(* Calls to the API server                                                 *)

Fault ==
    /\ spent.faults < MaxFaults
    /\ spent' = [spent EXCEPT !.faults = @ + 1]

\* Update or Status().Update of o: rejected unless obj is current.
Write(o) ==
    /\ cluster' = o
    /\ lag' = IF lag = "loud" THEN "loud" ELSE "quiet"

Accepted(o) == fresh /\ Write(o) /\ UNCHANGED spent

\* A conflict, or the API server could not be reached, or its answer was lost.
Refused(o) ==
    \/ ~fresh /\ UNCHANGED <<cluster, lag, spent>>
    \/ Fault /\ UNCHANGED <<cluster, lag>>
    \/ Fault /\ fresh /\ Write(o)

\* Reconcile returns; again: with a RequeueAfter or an error.
Done(again) ==
    /\ pc' = "idle"
    /\ obj' = None
    /\ fresh' = FALSE
    /\ ca' = None
    /\ at' = 0
    /\ queued' = (queued \/ again)

GoTo(next) ==
    /\ pc' = next
    /\ UNCHANGED <<cluster, cache, lag, queued, obj, fresh, nodes>>

\* provision could not write o: setError is called with it.
Unsaved(o) ==
    /\ Refused(o)
    /\ obj' = o
    /\ pc' = "setError"
    /\ fresh' = (fresh /\ cluster' = cluster)
    /\ UNCHANGED <<queued, ca, at>>

-----------------------------------------------------------------------------
(* Reconcile                                                               *)

\* An object that is gone, or up to date, or was deleted before it had a
\* finalizer, needs nothing.
NeedsNothing(o) ==
    IF o.deleting THEN ~o.fin ELSE o.fin /\ UpToDate(o)

Get ==
    /\ pc = "idle"
    /\ queued
    /\ queued' = FALSE
    /\ IF cache = None \/ NeedsNothing(cache)
       THEN UNCHANGED <<pc, obj, fresh>>
       ELSE pc' = "start" /\ obj' = cache /\ fresh' = (lag = "none")
    /\ UNCHANGED <<cluster, cache, lag, ca, at, secrets, nodes, lastCa, spent>>

AddFinalizer ==
    /\ pc = "start"
    /\ ~obj.fin
    /\ LET o == [obj EXCEPT !.fin = TRUE] IN
       \/ /\ Accepted(o)
          /\ obj' = o
          /\ UNCHANGED <<queued, pc, fresh, ca, at>>
       \/ Refused(o) /\ Done(TRUE)
    /\ UNCHANGED <<cache, secrets, nodes, lastCa>>

\* provision: the first status write
Provisioning(o) ==
    [o EXCEPT !.phase = "Provisioning", !.obsGen = o.gen, !.generated = FALSE]

BeginProvision ==
    /\ pc = "start"
    /\ obj.fin
    /\ ~obj.deleting
    /\ LET o == Provisioning(obj) IN
       \/ /\ Accepted(o)
          /\ obj' = o
          /\ pc' = "load"
          /\ UNCHANGED <<queued, fresh, ca, at>>
       \/ Unsaved(o)
    /\ UNCHANGED <<cache, secrets, nodes, lastCa>>

Wrong_LoadBundle ==
    /\ pc = "load"
    /\ secrets["secrets"] # None
    /\ ca' = lastCa + 1
    /\ lastCa' = lastCa + 1
    /\ GoTo("store")
    /\ UNCHANGED <<at, secrets, spent>>

LoadBundle ==
    /\ pc = "load"
    /\ secrets["secrets"] # None
    /\ ca' = secrets["secrets"].ca
    /\ GoTo("store")
    /\ UNCHANGED <<at, secrets, lastCa, spent>>

\* Any error of the read counts as "no bundle yet".
NoBundle ==
    /\ pc = "load"
    /\ \/ secrets["secrets"] = None /\ UNCHANGED spent
       \/ UnreliableReads /\ Fault

GenBundle ==
    /\ NoBundle
    /\ obj.ver \notin BadVersions
    /\ ca' = lastCa + 1
    /\ lastCa' = lastCa + 1
    /\ GoTo("store")
    /\ UNCHANGED <<at, secrets>>

\* GenSecretsBundle does not accept the version.
GenBundleFails ==
    /\ NoBundle
    /\ obj.ver \in BadVersions
    /\ GoTo("setError")
    /\ UNCHANGED <<ca, at, secrets, lastCa>>

\* The Secret that is next.
Kind == Stored[at + 1]

\* GenConfig runs once the bundle is stored; it does not accept the version.
Renders == Kind = "secrets" \/ obj.ver \notin BadVersions

Wrong_Content == [ca |-> ca, ver |-> obj]
Content == [ca |-> ca, ver |-> obj.ver]

\* SecretManager.Create: a Secret that exists is left as it is.
Created(k) == [secrets EXCEPT ![k] = IF @ = None THEN Content ELSE @]

Store ==
    /\ pc = "store"
    /\ at < 4
    /\ Renders
    /\ secrets' = Created(Kind)
    /\ at' = at + 1
    /\ GoTo("store")
    /\ UNCHANGED <<ca, lastCa, spent>>

Wrong_StoreFails ==
    /\ pc = "store"
    /\ at < 4
    /\ Renders
    /\ Fault
    /\ at' = at + 1
    /\ GoTo("store")
    /\ UNCHANGED <<ca, secrets, lastCa>>

\* Create fails, before or after the API server stored the Secret.
StoreFails ==
    /\ pc = "store"
    /\ at < 4
    /\ \/ ~Renders /\ UNCHANGED <<secrets, spent>>
       \/ Renders /\ Fault /\ secrets' \in {secrets, Created(Kind)}
    /\ GoTo("setError")
    /\ UNCHANGED <<ca, at, lastCa>>

Provisioned(o) == [o EXCEPT !.phase = "Ready", !.generated = TRUE]

SaveReady ==
    /\ pc = "store"
    /\ at = 4
    /\ LET o == Provisioned(obj) IN
       \/ Accepted(o) /\ Done(FALSE)
       \/ Unsaved(o)
    /\ UNCHANGED <<cache, secrets, nodes, lastCa>>

Wrong_SetError ==
    /\ pc = "setError"
    /\ LET o == [obj EXCEPT !.phase = "Error"] IN Accepted(o) \/ Refused(o)
    /\ Done(FALSE)
    /\ UNCHANGED <<cache, secrets, nodes, lastCa>>

\* setError: the in-memory copy, whatever provision made of it, is written with
\* phase Error, and the cluster is looked at again after a delay.
SetError ==
    /\ pc = "setError"
    /\ LET o == [obj EXCEPT !.phase = "Error"] IN Accepted(o) \/ Refused(o)
    /\ Done(TRUE)
    /\ UNCHANGED <<cache, secrets, nodes, lastCa>>

-----------------------------------------------------------------------------
(* handleDeletion                                                          *)

\* activeNodeCount: nodes that were already marked for deletion do not count.
Guarded == \E n \in Nodes : nodes[n] = "live"

Deletes == pc = "start" /\ obj.fin /\ obj.deleting

CountFails ==
    /\ Deletes
    /\ Fault
    /\ Done(TRUE)
    /\ UNCHANGED <<cluster, cache, lag, secrets, nodes, lastCa>>

\* The deletion is blocked; an error of the status write is only logged.
BlockDeletion ==
    /\ Deletes
    /\ Guarded
    /\ LET o == [obj EXCEPT !.phase = "Deleting"] IN Accepted(o) \/ Refused(o)
    /\ Done(TRUE)
    /\ UNCHANGED <<cache, secrets, nodes, lastCa>>

BeginDeletion ==
    /\ Deletes
    /\ ~Guarded
    /\ GoTo("delete")
    /\ UNCHANGED <<ca, at, secrets, lastCa, spent>>

Deleted(k) == [secrets EXCEPT ![k] = None]

\* SecretManager.Delete: a Secret that is not there counts as deleted.
DeleteSecret ==
    /\ pc = "delete"
    /\ at < 4
    /\ secrets' = Deleted(Kind)
    /\ at' = at + 1
    /\ GoTo("delete")
    /\ UNCHANGED <<ca, lastCa, spent>>

Wrong_DeleteSecretFails ==
    /\ pc = "delete"
    /\ at < 4
    /\ Fault
    /\ at' = at + 1
    /\ GoTo("delete")
    /\ UNCHANGED <<ca, secrets, lastCa>>

DeleteSecretFails ==
    /\ pc = "delete"
    /\ at < 4
    /\ Fault
    /\ secrets' \in {secrets, Deleted(Kind)}
    /\ Done(TRUE)
    /\ UNCHANGED <<cluster, cache, lag, nodes, lastCa>>

Removed == cluster' = None /\ lag' = "loud"

Wrong_RemoveFinalizer ==
    /\ pc = "delete"
    /\ at = 4
    /\ Done(FALSE)
    /\ \/ fresh /\ Removed /\ UNCHANGED spent
       \/ ~fresh /\ UNCHANGED <<cluster, lag, spent>>
    /\ UNCHANGED <<cache, secrets, nodes, lastCa>>

\* The last finalizer is removed, and with it the object.
RemoveFinalizer ==
    /\ pc = "delete"
    /\ at = 4
    /\ \/ fresh /\ Removed /\ Done(FALSE) /\ UNCHANGED spent
       \/ fresh /\ Removed /\ Done(TRUE) /\ Fault
       \/ ~fresh /\ Done(TRUE) /\ UNCHANGED <<cluster, lag, spent>>
       \/ Fault /\ Done(TRUE) /\ UNCHANGED <<cluster, lag>>
    /\ UNCHANGED <<cache, secrets, nodes, lastCa>>

-----------------------------------------------------------------------------
(* The watch, the users and crashes                                        *)

\* GenerationChangedPredicate lets spec edits and deletions through.
Deliver ==
    /\ lag # "none"
    /\ cache' = cluster
    /\ lag' = "none"
    /\ queued' = (queued \/ lag = "loud")
    /\ UNCHANGED <<cluster, pc, obj, fresh, ca, at, secrets, nodes, lastCa, spent>>

UserWrites(o) ==
    /\ cluster # None
    /\ cluster' = o
    /\ lag' = "loud"
    /\ fresh' = FALSE
    /\ UNCHANGED <<cache, queued, pc, obj, ca, at, secrets, nodes, lastCa>>

EditSpec ==
    /\ cluster # None
    /\ spent.edits < MaxEdits
    /\ spent' = [spent EXCEPT !.edits = @ + 1]
    /\ \E v \in Versions \ {cluster.ver} :
         UserWrites([cluster EXCEPT !.ver = v, !.gen = @ + 1])

\* Without a finalizer the object goes at once.
DeleteCluster ==
    /\ cluster # None
    /\ ~cluster.deleting
    /\ UserWrites(IF cluster.fin THEN [cluster EXCEPT !.deleting = TRUE, !.gen = @ + 1]
                                 ELSE None)
    /\ UNCHANGED spent

OtherwiseUnchanged ==
    UNCHANGED <<cluster, cache, lag, queued, pc, obj, fresh, ca, at, secrets,
                lastCa, spent>>

\* A user deletes a TalosNode; its own controller finishes with it later.
DeleteNode ==
    \E n \in Nodes :
        /\ nodes[n] = "live"
        /\ nodes' = [nodes EXCEPT ![n] = "terminating"]
        /\ OtherwiseUnchanged

NodeGone ==
    \E n \in Nodes :
        /\ nodes[n] = "terminating"
        /\ nodes' = [nodes EXCEPT ![n] = "gone"]
        /\ OtherwiseUnchanged

Crash ==
    /\ spent.crashes < MaxCrashes
    /\ spent' = [spent EXCEPT !.crashes = @ + 1]
    /\ cache' = cluster
    /\ lag' = "none"
    /\ Done(cluster # None)
    /\ UNCHANGED <<cluster, secrets, nodes, lastCa>>

-----------------------------------------------------------------------------

Provision ==
    \/ BeginProvision \/ LoadBundle \/ GenBundle \/ GenBundleFails
    \/ Store \/ StoreFails \/ SaveReady \/ SetError

Teardown ==
    \/ CountFails \/ BlockDeletion \/ BeginDeletion
    \/ DeleteSecret \/ DeleteSecretFails \/ RemoveFinalizer

Reconcile == Get \/ AddFinalizer \/ Provision \/ Teardown

User == EditSpec \/ DeleteCluster \/ DeleteNode

Next == Reconcile \/ Deliver \/ User \/ NodeGone \/ Crash

Spec == Init /\ [][Next]_vars

\* The worker is always scheduled and the watch is never cut off for ever.
FairSpec == Spec /\ WF_vars(Reconcile) /\ WF_vars(Deliver)

-----------------------------------------------------------------------------
(* Properties                                                              *)

PCs == {"idle", "start", "load", "store", "delete", "setError"}

Contents == [ca : Nat, ver : Versions]

\* Every variable has its type; obj is absent exactly between reconciles.
TypeOK ==
    /\ cluster \in Cluster \cup {None}
    /\ cache \in Cluster \cup {None}
    /\ lag \in {"none", "quiet", "loud"}
    /\ queued \in BOOLEAN
    /\ pc \in PCs
    /\ IF pc = "idle" THEN obj = None ELSE obj \in Cluster
    /\ fresh \in BOOLEAN
    /\ ca \in Nat \cup {None}
    /\ pc = "store" => ca # None
    /\ at \in 0 .. 4
    /\ secrets \in [Kinds -> Contents \cup {None}]
    /\ nodes \in [Nodes -> {"live", "terminating", "gone"}]
    /\ lastCa \in Nat
    /\ spent \in [edits : Nat, faults : Nat, crashes : Nat]

\* provision: "so that all config secrets always share the same CA".  No Secret
\* is ever signed by another authority than the one in <cluster>-secrets.
SameCA ==
    \A k \in Kinds : secrets[k] # None /\ secrets["secrets"] # None =>
        secrets[k].ca = secrets["secrets"].ca

\* The PKI of a cluster is generated once: after a bundle was stored, no other
\* authority ever signs a Secret, not even after a failed teardown.
PKINeverReplaced ==
    [][\A k, l \in Kinds : secrets[k] # None /\ secrets'[l] # None
         => secrets'[l].ca = secrets[k].ca]_vars

\* ConfigsGenerated is claimed only while all four Secrets exist or their
\* removal has begun: a consumer that waits for Ready finds them.
ReadyMeansStored ==
    cluster # None /\ cluster.generated /\ ~cluster.deleting =>
        \A k \in Kinds : secrets[k] # None

\* The object leaves with its Secrets: nothing is left behind that a failed or
\* interrupted reconcile had stored.
NothingLeft ==
    cluster = None => \A k \in Kinds : secrets[k] = None

\* The worker has set to tearing the cluster down: neither its copy nor the one
\* it would start from again is of a cluster that nobody deleted.
Closing ==
    /\ cache = None \/ cache.deleting
    /\ obj = None \/ obj.deleting

\* What the controllers of the TalosNodes and of the bootstrap rely on: the Secrets
\* outlast the live nodes, none comes back once the teardown has begun, not even
\* from an interrupted reconcile, and the cluster goes last.
Life == INSTANCE ClusterLife WITH
    open    <- cluster # None,
    closing <- Closing,
    live    <- {n \in Nodes : nodes[n] = "live"},
    stored  <- {k \in Kinds : secrets[k] # None}

KeepsFaith == Life!Spec

\* Unless it is deleted or its version is refused, a cluster ends up provisioned
\* for the spec it has.
EventuallyProvisioned ==
    <>[](\/ cluster = None
         \/ cluster.deleting
         \/ cluster.ver \in BadVersions
         \/ UpToDate(cluster))

\* A deleted cluster goes away once no live node is left.
DeletionEnds ==
    (cluster # None /\ cluster.deleting /\ ~Guarded) ~> (cluster = None)

-----------------------------------------------------------------------------
(* The safety properties in inductive form                                 *)

\* What the copies are worth: one that misses nothing is the cluster, and one
\* that a write will be accepted from differs from it at most in its status.
CopiesTrue ==
    /\ lag = "none" => cache = cluster
    /\ fresh => /\ pc # "idle" /\ cluster # None
                /\ (obj.fin <=> cluster.fin) /\ (obj.deleting <=> cluster.deleting)
                /\ pc # "setError" => obj = cluster

\* A deletion is never taken back, and nothing is stored without a finalizer.
Onwards ==
    /\ \A o \in {cache, obj} : o # None /\ cluster # None =>
         (o.deleting => cluster.deleting) /\ (o.fin => cluster.fin)
    /\ pc \in {"load", "store"} => cluster # None /\ cluster.fin
    /\ pc = "delete" => obj.deleting /\ ~Guarded
    /\ \A k \in Kinds : secrets[k] # None => cluster # None /\ cluster.fin

\* The worker has dealt with the Secrets that it counted.
Counted ==
    /\ pc \in {"idle", "start", "load"} => at = 0
    /\ pc = "store" => \A i \in 1 .. at : secrets[Stored[i]] # None
    /\ pc = "delete" => \A i \in 1 .. at : secrets[Stored[i]] = None
    /\ fresh /\ obj.generated /\ ~obj.deleting => \A k \in Kinds : secrets[k] # None

ProvisionDiscipline == CopiesTrue /\ Onwards /\ Counted /\ ReadyMeansStored

\* One authority signs what is stored and what is about to be, and as long as the
\* cluster is not being deleted its bundle is the first Secret to be there.
OneAuthority ==
    /\ \A k, l \in Kinds : secrets[k] # None /\ secrets[l] # None =>
         secrets[k].ca = secrets[l].ca
    /\ pc = "store" => \A k \in Kinds : secrets[k] # None => secrets[k].ca = ca
    /\ secrets["secrets"] = None /\ (\E k \in Kinds : secrets[k] # None) =>
         cluster.deleting /\ pc \notin {"load", "store"}

=============================================================================
