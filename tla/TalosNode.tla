----------------------------- MODULE TalosNode -----------------------------
(***************************************************************************)
(* The reconcile loop of one live TalosNode                                *)
(* (src/internal/controller/talosnode_controller.go, talosnode_upgrade.go, *)
(* talosnode_extensions.go): configuration, drift repair, upgrades and     *)
(* standalone reset.  Deletion is not part of this module.                 *)
(*                                                                         *)
(* Three actors share the custom resource: the user, who edits the spec    *)
(* and the annotations; the worker, which handles one reconcile at a time  *)
(* on a copy it read from the informer cache; and the watch, which brings  *)
(* the cache up to date and wakes the worker up.  The worker's action is   *)
(* cut at every call that writes to the API server or to the Talos         *)
(* machine, so that edits, crashes and failures fall between any two.      *)
(*                                                                         *)
(* An operator Wrong_X is X with a plausible mistake.  Nothing uses it: put *)
(* in the place of X it makes a property below fail, which shows that the  *)
(* property depends on what X does.                                        *)
(***************************************************************************)
EXTENDS Integers, Sequences

CONSTANTS
    Cfgs,            \* rendered machine configurations (base + patches)
    FirstDoc,        \* the first YAML document of each, without the appended ones
    Exts, NoExt,     \* lists of system extensions; NoExt is the empty list
    Versions,        \* Talos versions, ordered as integers
    Specs,           \* the specs a user may write
    UpgradeImages,   \* the images a user may put in the upgrade annotation
    Machines,        \* the machines the node may be created for
    None,            \* an absent value
    StaleReads,      \* Get may be served from a cache that lags
    Timeouts,        \* ApplyConfig may end in DeadlineExceeded
    MaxEdits, MaxResets, MaxFaults, MaxCrashes   \* bounds for TLC

NoTag  == 0     \* versionFromImage found no tag; also an unknown version
Opaque == -1    \* a tag that is not a version, as in image@sha256:...

Tags   == Versions \cup {NoTag, Opaque}
Images == [ext : Exts, tag : Tags]
NodeSpec == [cfg : Cfgs, ver : Versions \cup {NoTag}, ext : Exts, drift : BOOLEAN]
Spent  == [edits : Nat, faults : Nat, crashes : Nat]
Machine ==
    [mode : {"maintenance", "running"}, cfg : Cfgs \cup {None},
     ver : Versions, ext : Exts, pending : Images \cup {None},
     container : BOOLEAN]

ASSUME DataAssumption ==
    /\ DOMAIN FirstDoc = Cfgs
    /\ Versions \subseteq Nat \ {0}
    /\ NoExt \in Exts
    /\ None \notin Cfgs \cup Exts \cup Images

ASSUME EnvironmentAssumption ==
    /\ Specs \subseteq NodeSpec
    /\ UpgradeImages \subseteq Images
    /\ Machines \subseteq {m \in Machine : m.pending = None}
    /\ \A m \in Machines : m.mode = "running" => m.cfg # None

ASSUME SwitchAssumption ==
    {StaleReads, Timeouts} \subseteq BOOLEAN

ASSUME BoundAssumption ==
    {MaxEdits, MaxResets, MaxFaults, MaxCrashes} \subseteq Nat

VARIABLES
    node,       \* the TalosNode held by the API server
    cache,      \* the informer's copy of it
    lag,        \* what the cache misses: "none", "quiet" writes that the event
                \*   filter drops, or at least one "loud" one that it lets through
    queued,     \* the work queue holds the node (now or after a delay)
    pc,         \* where the worker is in Reconcile
    obj,        \* the worker's in-memory copy of the node
    fresh,      \* obj carries the latest resourceVersion
    img,        \* the image handed to handleUpgrade
    saved,      \* content of the <node>-config secret
    mach,       \* the Talos machine
    resetLog,   \* history: request identifiers sent to the machine by Reset
    spent       \* history: edits, faults and crashes so far

api    == <<node, cache, lag, queued>>
worker == <<pc, obj, fresh, img>>
world  == <<saved, mach, resetLog, spent>>
vars   == <<node, cache, lag, queued, pc, obj, fresh, img,
            saved, mach, resetLog, spent>>

-----------------------------------------------------------------------------
(* The resource and the conditions Reconcile branches on                   *)

Phases == {"", "Pending", "Applying", "Ready", "Error", "Upgrading"}

Status ==
    [phase : Phases, obsGen : Nat,
     applied : BOOLEAN,                     \* condition ConfigApplied
     curVer : Versions \cup {NoTag},        \* currentTalosVersion
     instExt : Exts \cup {None}]            \* ExtensionsUpToDate + the list

\* The annotations; lastExt stands for last-extensions and current-schematic,
\* which are always written together.
Annotations ==
    [upgrade : Images \cup {None}, lastUpgrade : Images \cup {None},
     reset : Nat, lastReset : Nat, lastExt : Exts \cup {None}]

Node == [gen : Nat, fin : BOOLEAN, spec : NodeSpec, ann : Annotations, status : Status]

TagOf(image) == IF image = None THEN NoTag ELSE image.tag

Wrong_IsDowngrade(current, target) == current > 0 /\ target > current
IsDowngrade(current, target) == current > 0 /\ target > 0 /\ current > target

UpToDate(o) ==
    /\ o.status.obsGen = o.gen
    /\ o.status.phase = "Ready"
    /\ o.status.applied

UpgradeRequested(o) ==
    o.ann.upgrade # None /\ o.ann.upgrade # o.ann.lastUpgrade

Wrong_ResetRequested(o) == o.ann.reset # 0
ResetRequested(o) ==
    o.ann.reset # 0 /\ o.ann.reset # o.ann.lastReset

VersionManaged(o) == o.spec.ver # NoTag /\ o.status.applied

SchematicMissing(o) == o.spec.ext # NoExt /\ o.ann.lastExt # o.spec.ext

DesiredImage(o) == [ext |-> o.spec.ext, tag |-> o.spec.ver]

\* reconcileVersion after computeDesiredImage; dirty: the factory was called
SpecUpgradeDue(o, dirty) ==
    /\ o.spec.ver # o.status.curVer \/ dirty
    /\ ~IsDowngrade(o.status.curVer, o.spec.ver)

Running == mach.mode = "running"

Wrong_Upgraded(o) == Running

\* checkUpgradeComplete: the version answered is the one last-upgrade names
Upgraded(o) ==
    /\ Running
    /\ TagOf(o.ann.lastUpgrade) \in {NoTag, mach.ver}

\* configsDiffer unmarshals one YAML document of each configuration.
Drifted == Running /\ saved # None /\ FirstDoc[mach.cfg] # FirstDoc[saved]

Init ==
    /\ \E s \in Specs :
         node = [gen |-> 1, fin |-> FALSE, spec |-> s,
                 ann |-> [upgrade |-> None, lastUpgrade |-> None, reset |-> 0,
                          lastReset |-> 0, lastExt |-> None],
                 status |-> [phase |-> "", obsGen |-> 0, applied |-> FALSE,
                             curVer |-> NoTag, instExt |-> None]]
    /\ cache = node
    /\ lag = "none"
    /\ queued = TRUE
    /\ pc = "idle"
    /\ obj = None
    /\ fresh = FALSE
    /\ img = None
    /\ saved = None
    /\ mach \in Machines
    /\ resetLog = <<>>
    /\ spent = [edits |-> 0, faults |-> 0, crashes |-> 0]

-----------------------------------------------------------------------------
(* Calls to the API server and how a reconcile ends                        *)

\* Something outside the controller failed; TLC bounds how often.
Fault ==
    /\ spent.faults < MaxFaults
    /\ spent' = [spent EXCEPT !.faults = @ + 1]

\* Status().Patch with a merge patch of the changed fields: never rejected.
Wrong_PutStatus(s) ==
    /\ node' = [node EXCEPT !.status =
                  [f \in DOMAIN s |-> IF s[f] # obj.status[f] THEN s[f] ELSE @[f]]]
    /\ lag' = IF lag = "loud" THEN "loud" ELSE "quiet"
    /\ UNCHANGED cache

\* Status().Update: rejected unless obj has the latest resourceVersion.  The
\* write touches neither generation nor annotations, so its event is dropped.
PutStatus(s) ==
    /\ fresh
    /\ node' = [node EXCEPT !.status = s]
    /\ lag' = IF lag = "loud" THEN "loud" ELSE "quiet"
    /\ UNCHANGED cache

\* The write of status s is refused by a conflict, does not arrive, or is accepted
\* and its answer is lost.
PutFails(s) ==
    \/ ~fresh /\ UNCHANGED <<node, cache, lag, spent>>
    \/ Fault /\ UNCHANGED <<node, cache, lag>>
    \/ Fault /\ PutStatus(s)

\* patchAnnotations: a merge patch carries no resourceVersion and always lands.
PatchAnnotations(a) ==
    /\ node' = [node EXCEPT !.ann = a]
    /\ lag' = IF node' = node THEN lag ELSE "loud"
    /\ UNCHANGED cache

\* It does not arrive, or its answer is lost.
PatchFails(a) == Fault /\ (PatchAnnotations(a) \/ UNCHANGED <<node, cache, lag>>)

\* The response of a successful write replaces the in-memory copy.
Refresh(next) ==
    /\ obj' = node'
    /\ fresh' = TRUE
    /\ pc' = next
    /\ UNCHANGED queued

\* Reconcile returns; again: with a RequeueAfter or an error.
Done(again) ==
    /\ pc' = "idle"
    /\ obj' = None
    /\ fresh' = FALSE
    /\ img' = None
    /\ queued' = (queued \/ again)

\* A write whose answer is lost leaves the copy behind what it wrote.
KeepCopy == fresh' = (fresh /\ node' = node)

InError == [obj.status EXCEPT !.phase = "Error"]

\* setError on the in-memory copy o, reached by PutFails or any other failure.
Fail(o) ==
    /\ obj' = o
    /\ pc' = "setError"
    /\ KeepCopy
    /\ UNCHANGED <<img, queued>>

WithStatus(o, s) == [o EXCEPT !.status = s]

-----------------------------------------------------------------------------
(* Reconcile: reading the node and the finalizer                           *)

Get ==
    /\ pc = "idle"
    /\ queued
    /\ StaleReads \/ lag = "none"
    /\ queued' = FALSE
    /\ pc' = "start"
    /\ obj' = cache
    /\ fresh' = (lag = "none")
    /\ UNCHANGED <<node, cache, lag, img>>
    /\ UNCHANGED world

PutFinalizer ==
    /\ fresh
    /\ node' = [node EXCEPT !.fin = TRUE]
    /\ lag' = IF lag = "loud" THEN "loud" ELSE "quiet"
    /\ UNCHANGED cache

AddFinalizer ==
    /\ pc = "start"
    /\ ~obj.fin
    /\ PutFinalizer
    /\ Refresh("start")
    /\ UNCHANGED img
    /\ UNCHANGED world

AddFinalizerFails ==
    /\ pc = "start"
    /\ ~obj.fin
    /\ \/ ~fresh /\ UNCHANGED <<node, cache, lag, spent>>
       \/ Fault /\ (PutFinalizer \/ UNCHANGED <<node, cache, lag>>)
    /\ Done(TRUE)
    /\ UNCHANGED <<saved, mach, resetLog>>

Dispatching == pc = "start" /\ obj.fin

-----------------------------------------------------------------------------
(* checkUpgradeComplete                                                    *)

Polling == Dispatching /\ obj.status.phase = "Upgrading"

PollUpgrade ==
    /\ Polling
    /\ \/ ~Upgraded(obj) /\ UNCHANGED spent
       \/ Fault
    /\ Done(TRUE)
    /\ UNCHANGED <<node, cache, lag, saved, mach, resetLog>>

\* The conditions TalosVersionUpToDate and ExtensionsUpToDate are set here; the
\* extensions recorded are those of the spec at this moment.
Completed ==
    [obj.status EXCEPT !.phase = "Ready", !.curVer = mach.ver,
                       !.instExt = IF obj.spec.ext = NoExt THEN @ ELSE obj.spec.ext]

CompleteUpgrade ==
    /\ Polling
    /\ Upgraded(obj)
    /\ PutStatus(Completed)
    /\ Done(obj.spec.drift)
    /\ UNCHANGED world

CompleteUpgradeFails ==
    /\ Polling
    /\ Upgraded(obj)
    /\ PutFails(Completed)
    /\ Done(TRUE)
    /\ UNCHANGED <<saved, mach, resetLog>>

-----------------------------------------------------------------------------
(* reconcileVersion and handleUpgrade                                      *)

Unclaimed == Dispatching /\ obj.status.phase # "Upgrading"

StartUpgrade(image) ==
    /\ pc' = "upgrade"
    /\ img' = image
    /\ UNCHANGED <<obj, fresh>>
    /\ UNCHANGED api
    /\ UNCHANGED world

AnnotationUpgrade ==
    /\ Unclaimed
    /\ UpgradeRequested(obj)
    /\ StartUpgrade(obj.ann.upgrade)

Versioning == Unclaimed /\ ~UpgradeRequested(obj) /\ VersionManaged(obj)

SpecUpgrade ==
    /\ Versioning
    /\ ~SchematicMissing(obj)
    /\ SpecUpgradeDue(obj, FALSE)
    /\ StartUpgrade(DesiredImage(obj))

SchematicKnown == [node.ann EXCEPT !.lastExt = obj.spec.ext]

\* The factory answers, the schematic is persisted, and the refreshed copy is
\* compared again; the image is still the one computed before the patch.
RecordSchematic ==
    /\ Versioning
    /\ SchematicMissing(obj)
    /\ PatchAnnotations(SchematicKnown)
    /\ IF SpecUpgradeDue(node', TRUE)
       THEN Refresh("upgrade") /\ img' = DesiredImage(obj)
       ELSE Refresh("settle")  /\ img' = None
    /\ UNCHANGED world

\* The patch, or the call of the factory before it.
SchematicFails ==
    /\ Versioning
    /\ SchematicMissing(obj)
    /\ PatchFails(SchematicKnown)
    /\ Done(TRUE)
    /\ UNCHANGED <<saved, mach, resetLog>>

RejectUntagged ==
    /\ pc = "upgrade"
    /\ TagOf(img) = NoTag
    /\ Done(FALSE)
    /\ UNCHANGED <<node, cache, lag>>
    /\ UNCHANGED world

Wrong_ConsumeUpgrade ==
    PatchAnnotations([node.ann EXCEPT !.lastUpgrade = node.ann.upgrade])

ConsumeUpgrade == PatchAnnotations([node.ann EXCEPT !.lastUpgrade = img])

\* patchAnnotations failed: the handler logs the error and goes on.
LoseConsume == PatchFails([node.ann EXCEPT !.lastUpgrade = img])

BlockDowngrade ==
    /\ pc = "upgrade"
    /\ IsDowngrade(obj.status.curVer, TagOf(img))
    /\ \/ ConsumeUpgrade /\ UNCHANGED spent
       \/ LoseConsume
    /\ Done(FALSE)
    /\ UNCHANGED <<saved, mach, resetLog>>

Permitted ==
    /\ pc = "upgrade"
    /\ TagOf(img) # NoTag
    /\ ~IsDowngrade(obj.status.curVer, TagOf(img))

UpgradeUnreachable ==
    /\ Permitted
    /\ \/ ~Running /\ UNCHANGED spent
       \/ Fault
    /\ Done(TRUE)
    /\ UNCHANGED <<node, cache, lag, saved, mach, resetLog>>

SkipContainer ==
    /\ Permitted
    /\ Running
    /\ mach.container
    /\ Done(FALSE)
    /\ UNCHANGED <<node, cache, lag>>
    /\ UNCHANGED world

Upgrading == [obj.status EXCEPT !.phase = "Upgrading"]

MarkUpgrading ==
    /\ Permitted
    /\ Running
    /\ ~mach.container
    /\ PutStatus(Upgrading)
    /\ Refresh("upgradeSend")
    /\ UNCHANGED img
    /\ UNCHANGED world

Wrong_MarkUpgradingFails ==
    /\ Permitted
    /\ Running
    /\ ~mach.container
    /\ PutFails(Upgrading)
    /\ pc' = "upgradeSend"
    /\ UNCHANGED <<obj, fresh, queued, img, saved, mach, resetLog>>

MarkUpgradingFails ==
    /\ Permitted
    /\ Running
    /\ ~mach.container
    /\ PutFails(Upgrading)
    /\ Done(TRUE)
    /\ UNCHANGED <<saved, mach, resetLog>>

\* The machine answers; it keeps running the old version until it reboots.
SendUpgrade ==
    /\ pc = "upgradeSend"
    /\ mach' = [mach EXCEPT !.pending = img]
    /\ pc' = "upgradeRecord"
    /\ UNCHANGED <<obj, fresh, img, saved, resetLog, spent>>
    /\ UNCHANGED api

\* The call fails, before or after the machine acted on it.
SendUpgradeFails ==
    /\ pc = "upgradeSend"
    /\ Fault
    /\ mach' \in {mach, [mach EXCEPT !.pending = img]}
    /\ pc' = "upgradeFailed"
    /\ UNCHANGED <<obj, fresh, img, saved, resetLog>>
    /\ UNCHANGED api

RecordUpgrade ==
    /\ pc = "upgradeRecord"
    /\ \/ ConsumeUpgrade /\ UNCHANGED spent
       \/ LoseConsume
    /\ Done(TRUE)
    /\ UNCHANGED <<saved, mach, resetLog>>

RecordFailedUpgrade ==
    /\ pc = "upgradeFailed"
    /\ \/ ConsumeUpgrade /\ Refresh("upgradeError") /\ UNCHANGED spent
       \/ LoseConsume /\ pc' = "upgradeError" /\ KeepCopy /\ UNCHANGED <<obj, queued>>
    /\ UNCHANGED <<img, saved, mach, resetLog>>

SaveUpgradeError ==
    /\ pc = "upgradeError"
    /\ \/ PutStatus(InError) /\ UNCHANGED spent
       \/ PutFails(InError)
    /\ Done(FALSE)
    /\ UNCHANGED <<saved, mach, resetLog>>

-----------------------------------------------------------------------------
(* handleStandaloneReset                                                   *)

\* reconcileVersion returned without taking the reconcile over.
Settling ==
    \/ pc = "settle"
    \/ /\ Unclaimed
       /\ ~UpgradeRequested(obj)
       /\ VersionManaged(obj) =>
            ~SchematicMissing(obj) /\ ~SpecUpgradeDue(obj, FALSE)

Wrong_RecordReset ==
    /\ Settling
    /\ ResetRequested(obj)
    /\ UNCHANGED <<node, cache, lag>>
    /\ Refresh("resetSend")
    /\ UNCHANGED img
    /\ UNCHANGED world

Recorded == [node.ann EXCEPT !.lastReset = obj.ann.reset]

RecordReset ==
    /\ Settling
    /\ ResetRequested(obj)
    /\ PatchAnnotations(Recorded)
    /\ Refresh("resetSend")
    /\ UNCHANGED img
    /\ UNCHANGED world

RecordResetFails ==
    /\ Settling
    /\ ResetRequested(obj)
    /\ PatchFails(Recorded)
    /\ Done(TRUE)
    /\ UNCHANGED <<saved, mach, resetLog>>

Wiped == [mach EXCEPT !.mode = "maintenance", !.cfg = None, !.pending = None]

SendReset ==
    /\ pc = "resetSend"
    /\ Running
    /\ mach' = Wiped
    /\ resetLog' = Append(resetLog, obj.ann.lastReset)
    /\ pc' = "resetSave"
    /\ UNCHANGED <<obj, fresh, img, saved, spent>>
    /\ UNCHANGED api

\* tryReset failed: the machine was never reached, or it was and the answer
\* got lost.  The handler returns without a requeue.
SendResetFails ==
    /\ pc = "resetSend"
    /\ \/ ~Running /\ UNCHANGED <<mach, resetLog, spent>>
       \/ Fault /\ UNCHANGED <<mach, resetLog>>
       \/ /\ Running
          /\ Fault
          /\ mach' = Wiped
          /\ resetLog' = Append(resetLog, obj.ann.lastReset)
    /\ Done(FALSE)
    /\ UNCHANGED <<node, cache, lag, saved>>

AfterReset == [obj.status EXCEPT !.phase = "Pending", !.applied = FALSE]

SaveReset ==
    /\ pc = "resetSave"
    /\ \/ PutStatus(AfterReset) /\ UNCHANGED spent
       \/ PutFails(AfterReset)
    /\ Done(FALSE)
    /\ UNCHANGED <<saved, mach, resetLog>>

-----------------------------------------------------------------------------
(* checkDrift, applyConfig and setError                                    *)

NothingToDo == Settling /\ ~ResetRequested(obj) /\ UpToDate(obj)

StayUpToDate ==
    /\ NothingToDo
    /\ ~obj.spec.drift
    /\ Done(FALSE)
    /\ UNCHANGED <<node, cache, lag>>
    /\ UNCHANGED world

DriftInSync ==
    /\ NothingToDo
    /\ obj.spec.drift
    /\ \/ ~Drifted /\ UNCHANGED spent
       \/ Fault
    /\ Done(TRUE)
    /\ UNCHANGED <<node, cache, lag, saved, mach, resetLog>>

ApplyDue ==
    /\ Settling
    /\ ~ResetRequested(obj)
    /\ UpToDate(obj) => obj.spec.drift /\ Drifted

Applying == [obj.status EXCEPT !.phase = "Applying", !.obsGen = obj.gen]

\* firstApply is decided on the copy as it was before the write.
BeginApply ==
    /\ ApplyDue
    /\ PutStatus(Applying)
    /\ Refresh(IF obj.status.applied THEN "push" ELSE "pushFirst")
    /\ UNCHANGED img
    /\ UNCHANGED world

BeginApplyFails ==
    /\ ApplyDue
    /\ PutFails(Applying)
    /\ Fail(WithStatus(obj, Applying))
    /\ UNCHANGED <<saved, mach, resetLog>>

\* firstApply dials without TLS, otherwise mTLS.  A machine in maintenance mode
\* only answers the first, a running one only the second.  The real dial only
\* builds a client, so the one without TLS never fails, and what is meant to
\* follow its failure, another dial with mTLS, is never reached.
Reachable == IF pc = "push" THEN Running ELSE ~Running

Pushing == pc \in {"push", "pushFirst"}

Configured == [mach EXCEPT !.mode = "running", !.cfg = obj.spec.cfg]

Push ==
    /\ Pushing
    /\ Reachable
    /\ mach' = Configured
    /\ pc' = "save"
    /\ UNCHANGED <<obj, fresh, img, saved, resetLog, spent>>
    /\ UNCHANGED api

\* Reading the cluster, its secrets or a patch failed, or the machine refused.
PushFails ==
    /\ Pushing
    /\ \/ ~Reachable /\ UNCHANGED <<mach, spent>>
       \/ Fault /\ UNCHANGED mach
       \/ Reachable /\ Fault /\ mach' = Configured
    /\ UNCHANGED <<node, cache, lag, saved, resetLog>>
    /\ Fail(obj)

\* DeadlineExceeded counts as a cancelled context: no error, no requeue.
PushTimesOut ==
    /\ Timeouts
    /\ Pushing
    /\ Fault
    /\ UNCHANGED mach \/ (Reachable /\ mach' = Configured)
    /\ Done(FALSE)
    /\ UNCHANGED <<node, cache, lag, saved, resetLog>>

Wrong_SaveNodeConfig ==
    /\ pc = "save"
    /\ saved' = obj.spec
    /\ pc' = "applied"
    /\ UNCHANGED <<obj, fresh, img, mach, resetLog, spent>>
    /\ UNCHANGED api

SaveNodeConfig ==
    /\ pc = "save"
    /\ saved' = obj.spec.cfg
    /\ pc' = "applied"
    /\ UNCHANGED <<obj, fresh, img, mach, resetLog, spent>>
    /\ UNCHANGED api

Wrong_SaveNodeConfigFails ==
    /\ pc = "save"
    /\ Fault
    /\ pc' = "applied"
    /\ UNCHANGED <<obj, fresh, img, saved, mach, resetLog>>
    /\ UNCHANGED api

SaveNodeConfigFails ==
    /\ pc = "save"
    /\ Fault
    /\ UNCHANGED <<node, cache, lag, saved, mach, resetLog>>
    /\ Fail(obj)

Applied == [obj.status EXCEPT !.phase = "Ready", !.applied = TRUE]

SaveApplied ==
    /\ pc = "applied"
    /\ PutStatus(Applied)
    /\ Done(obj.spec.drift)
    /\ UNCHANGED world

SaveAppliedFails ==
    /\ pc = "applied"
    /\ PutFails(Applied)
    /\ Fail(WithStatus(obj, Applied))
    /\ UNCHANGED <<saved, mach, resetLog>>

Wrong_SetError ==
    /\ pc = "setError"
    /\ \/ PutStatus(InError) /\ UNCHANGED spent
       \/ PutFails(InError)
    /\ Done(FALSE)
    /\ UNCHANGED <<saved, mach, resetLog>>

SetError ==
    /\ pc = "setError"
    /\ \/ PutStatus(InError) /\ UNCHANGED spent
       \/ PutFails(InError)
    /\ Done(TRUE)
    /\ UNCHANGED <<saved, mach, resetLog>>

-----------------------------------------------------------------------------
(* The watch, the user, the machine and crashes                            *)

\* The informer catches up; the event filter lets through changes of the
\* generation or of the annotations.
Deliver ==
    /\ lag # "none"
    /\ cache' = node
    /\ lag' = "none"
    /\ queued' = (queued \/ lag = "loud")
    /\ UNCHANGED node
    /\ UNCHANGED worker
    /\ UNCHANGED world

UserWrites(n) ==
    /\ spent.edits < MaxEdits
    /\ spent' = [spent EXCEPT !.edits = @ + 1]
    /\ node' = n
    /\ lag' = "loud"
    /\ fresh' = FALSE
    /\ UNCHANGED <<cache, queued, pc, obj, img, saved, mach, resetLog>>

EditSpec ==
    \E s \in Specs \ {node.spec} :
        UserWrites([node EXCEPT !.spec = s, !.gen = @ + 1])

RequestUpgrade ==
    \E i \in UpgradeImages \ {node.ann.upgrade} :
        UserWrites([node EXCEPT !.ann.upgrade = i])

\* A new request carries an identifier that was not used before.
RequestReset ==
    /\ node.ann.reset < MaxResets
    /\ UserWrites([node EXCEPT !.ann.reset = @ + 1])

\* The machine reboots into the image it was sent.
Reboot ==
    /\ mach.pending # None
    /\ \E v \in Versions :
         /\ mach.pending.tag # Opaque => v = mach.pending.tag
         /\ mach' = [mach EXCEPT !.ver = v, !.ext = mach.pending.ext,
                                 !.pending = None]
    /\ UNCHANGED <<saved, resetLog, spent>>
    /\ UNCHANGED api
    /\ UNCHANGED worker

\* Somebody changes the running configuration behind the controller's back.
ExternalDrift ==
    /\ Running
    /\ Fault
    /\ \E c \in Cfgs \ {mach.cfg} : mach' = [mach EXCEPT !.cfg = c]
    /\ UNCHANGED <<saved, resetLog>>
    /\ UNCHANGED api
    /\ UNCHANGED worker

\* The controller restarts: locals are lost, the cache is listed anew, and the
\* listing enqueues every node.
Crash ==
    /\ spent.crashes < MaxCrashes
    /\ spent' = [spent EXCEPT !.crashes = @ + 1]
    /\ cache' = node
    /\ lag' = "none"
    /\ Done(TRUE)
    /\ UNCHANGED <<node, saved, mach, resetLog>>

-----------------------------------------------------------------------------

Upgrade ==
    \/ PollUpgrade \/ CompleteUpgrade \/ CompleteUpgradeFails
    \/ AnnotationUpgrade \/ SpecUpgrade \/ RecordSchematic \/ SchematicFails
    \/ RejectUntagged \/ BlockDowngrade \/ UpgradeUnreachable \/ SkipContainer
    \/ MarkUpgrading \/ MarkUpgradingFails \/ SendUpgrade \/ SendUpgradeFails
    \/ RecordUpgrade \/ RecordFailedUpgrade \/ SaveUpgradeError

Reset ==
    \/ RecordReset \/ RecordResetFails \/ SendReset \/ SendResetFails \/ SaveReset

Apply ==
    \/ StayUpToDate \/ DriftInSync \/ BeginApply \/ BeginApplyFails
    \/ Push \/ PushFails \/ PushTimesOut \/ SaveNodeConfig \/ SaveNodeConfigFails
    \/ SaveApplied \/ SaveAppliedFails \/ SetError

Reconcile ==
    Get \/ AddFinalizer \/ AddFinalizerFails \/ Upgrade \/ Reset \/ Apply

User == EditSpec \/ RequestUpgrade \/ RequestReset

Next == Reconcile \/ Deliver \/ User \/ Reboot \/ ExternalDrift \/ Crash

Spec == Init /\ [][Next]_vars

\* The controller's only worker is always scheduled, the watch is never cut off
\* for ever, and a machine that accepted an image reboots.  Users, failures and
\* crashes owe nothing.
Fairness == WF_vars(Reconcile) /\ WF_vars(Deliver) /\ WF_vars(Reboot)

FairSpec == Spec /\ Fairness

-----------------------------------------------------------------------------
(* Properties                                                              *)

PCs == {"idle", "start", "settle", "upgrade", "upgradeSend", "upgradeRecord",
        "upgradeFailed", "upgradeError", "resetSend", "resetSave", "push",
        "pushFirst", "save", "applied", "setError"}

\* Every variable has its type; obj is absent exactly between reconciles.
TypeOK ==
    /\ node \in Node
    /\ cache \in Node
    /\ lag \in {"none", "quiet", "loud"}
    /\ queued \in BOOLEAN
    /\ pc \in PCs
    /\ IF pc = "idle" THEN obj = None ELSE obj \in Node
    /\ fresh \in BOOLEAN
    /\ img \in Images \cup {None}
    /\ saved \in Cfgs \cup {None}
    /\ mach \in Machine
    /\ resetLog \in Seq(Nat)
    /\ spent \in Spent

\* applyConfig sends the machine configuration, secrets included, over an
\* unauthenticated connection only while the resource itself says that no
\* configuration was applied: never because the worker's copy is stale.
InsecureOnlyWhileUnconfigured ==
    pc = "pushFirst" => ~node.status.applied

\* ConfigApplied is never claimed before the configuration is in the secret
\* that checkDrift compares with: drift repair cannot be skipped for ever.
AppliedImpliesSaved ==
    node.status.applied => saved # None

\* When applyConfig reports Ready, the configuration sent is the one of the
\* spec the API server holds at that moment, and the generation is its own: an
\* edit made while the configuration was being sent is never reported applied.
ReadyClaimsCurrentSpec ==
    [][pc = "applied" /\ node'.status # node.status =>
         saved = node'.spec.cfg /\ node'.status.obsGen = node'.gen]_vars

\* handleUpgrade sends the upgrade only after phase Upgrading is persisted, so
\* that a restart at any later point resumes in checkUpgradeComplete.
UpgradeAnnounced ==
    pc = "upgradeSend" => node.status.phase = "Upgrading"

\* handleUpgrade never sends an image older than the version the API server
\* reports at that moment, whatever the worker read earlier.
NoDowngradeSent ==
    pc = "upgradeSend" => ~IsDowngrade(node.status.curVer, TagOf(img))

Disturbed == spent.faults > 0 \/ spent.crashes > 0

\* As long as nothing failed, the version reported by a node that is not being
\* upgraded is the one the machine runs, and no other one is on its way.
ReportedVersionRuns ==
    ~Disturbed /\ node.status.phase # "Upgrading" /\ node.status.curVer # NoTag =>
        /\ mach.ver = node.status.curVer
        /\ mach.pending # None => mach.pending.tag = node.status.curVer

\* As long as nothing failed, a machine whose version is known is never taken
\* to an older one (by an image whose tag is a version).
VersionNeverFalls ==
    [][~Disturbed /\ node.status.curVer # NoTag /\ mach'.ver # mach.ver
         => mach'.ver > mach.ver \/ mach.pending.tag = Opaque]_vars

\* The reset annotation is one-shot: a request is recorded before it is sent
\* to the machine and is sent at most once, whatever crashes.
Ledger == INSTANCE OneShot WITH
    requested <- node.ann.reset,
    consumed  <- node.ann.lastReset,
    performed <- resetLog
ResetAtMostOnce == Ledger!Spec

\* The spec is applied and, with drift detection, the machine runs it, as far as
\* the first document of its configuration goes.
Converged ==
    /\ UpToDate(node)
    /\ saved = node.spec.cfg
    /\ node.spec.drift => Running /\ FirstDoc[mach.cfg] = FirstDoc[saved]

\* What the code does not get out of by itself: a machine that runs while no
\* configuration is on record, which is dialled without TLS for ever, and a call
\* that ended in a deadline, which is taken for a shutdown.
Stranded  == Running /\ ~node.status.applied
Abandoned == pc = "idle" /\ ~queued /\ node.status.phase = "Applying"

\* Configuration alone: no upgrade, no reset.
OnlyConfigured ==
    node.spec.ver = NoTag /\ node.ann.upgrade = None /\ node.ann.reset = 0

\* Once users and failures leave the node alone its spec is applied and kept
\* applied, whatever was edited, refused, lost, changed behind the controller's
\* back or interrupted before, in all cases but those two.
EventuallyConverged ==
    []OnlyConfigured => <>[](Converged \/ Stranded \/ Abandoned)

\* As long as nothing failed, an upgrade that was announced is concluded, if
\* the tag of its image is a version that GetVersion can report.
UpgradeEnds ==
    node.status.phase = "Upgrading" ~>
        \/ node.status.phase # "Upgrading"
        \/ TagOf(node.ann.lastUpgrade) = Opaque
        \/ Disturbed

\* isNodeUpToDate, as its comment reads: "the node config has been successfully
\* applied and the spec hasn't changed".
UpToDateMeansApplied ==
    UpToDate(node) => saved = node.spec.cfg

\* applyConfig, as its comment reads: "Node may already be running (e.g. after CR
\* recreation) - fall back to mTLS."  A machine that runs when its TalosNode is
\* created is brought under control.
RunningIsAdopted ==
    (Running /\ ~node.status.applied) ~> (node.status.applied \/ ~Running)

\* docs/features.md: after a reset the controller re-applies the machine
\* configuration once the node comes back up.
ResetIsReconfigured ==
    (resetLog # <<>> /\ ~Running) ~> Running

-----------------------------------------------------------------------------
(* The invariants above in inductive form                                  *)

\* Only the worker writes the status: between its own writes its copy of the
\* status is the persisted one, even when the rest of the copy is outdated.
Owning == {"upgradeSend", "upgradeRecord", "upgradeFailed", "upgradeError",
           "resetSend", "resetSave", "push", "pushFirst", "save", "applied"}

CacheSync == lag = "none" => cache = node

CopySync ==
    pc # "idle" /\ fresh =>
        /\ obj.gen = node.gen
        /\ obj.spec = node.spec
        /\ obj.ann = node.ann
        /\ pc # "setError" => obj.status = node.status

StatusOwned == pc \in Owning => obj.status = node.status

SavedFirst ==
    /\ node.status.applied \/ cache.status.applied => saved # None
    /\ pc # "idle" => (obj.status.applied => saved # None)
    /\ pc = "applied" => saved = obj.spec.cfg

Committed ==
    /\ pc = "pushFirst" => ~obj.status.applied
    /\ pc = "upgradeSend" =>
         /\ obj.status.phase = "Upgrading"
         /\ ~IsDowngrade(obj.status.curVer, TagOf(img))
    /\ pc \in {"push", "pushFirst", "save", "applied"} =>
         obj.status.obsGen = obj.gen

\* What the worker does between two writes rests on what it last wrote: the
\* inductive invariant behind the safety properties of the node.
StatusDiscipline == CacheSync /\ CopySync /\ StatusOwned /\ SavedFirst /\ Committed

\* Provided Get never reads a lagging cache: last-reset never runs ahead of the
\* requests, the machine never heard of a later request than the recorded one,
\* and a worker about to call Reset is the first to do so for its request.
ResetDiscipline ==
    /\ node.ann.lastReset <= node.ann.reset
    /\ \A i \in DOMAIN resetLog : resetLog[i] <= node.ann.lastReset
    /\ pc \in {"start", "settle", "upgrade"} =>
         /\ obj.ann.lastReset = node.ann.lastReset
         /\ obj.ann.lastReset <= obj.ann.reset
         /\ obj.ann.reset <= node.ann.reset
    /\ pc = "resetSend" =>
         /\ obj.ann.lastReset = node.ann.lastReset
         /\ node.ann.lastReset > 0
         /\ \A i \in DOMAIN resetLog : resetLog[i] < node.ann.lastReset

=============================================================================
