----------------------- MODULE TalosNodeVersionProofs -----------------------
(***************************************************************************)
(* Proofs about the versions of a TalosNode, for every value of its        *)
(* constants: as long as nothing failed and Get is not served from a cache *)
(* that lags, the reported version is the one the machine runs, and no     *)
(* upgrade takes the machine to an older one.                              *)
(*                                                                         *)
(* Neither property is inductive.  A machine that accepted an image runs   *)
(* the old version until it reboots, and the controller learns of the new  *)
(* one through an annotation: what has to be known all along is which      *)
(* image the machine may be about to boot, and where that image is on      *)
(* record meanwhile.                                                       *)
(***************************************************************************)
EXTENDS TalosNodeProofs

\* Where the worker is past checkUpgradeComplete and not in an upgrade.
Beside == {"settle", "upgrade", "resetSend", "resetSave", "push", "pushFirst",
           "save", "applied", "setError"}

\* The status that the worker decides on is the persisted one.
WorkerSees ==
    pc \in {"start", "settle", "upgrade"} => obj.status = node.status

\* Nobody reconfigures, resets or upgrades a node during an upgrade.
NotUpgrading ==
    pc \in Beside =>
        /\ node.status.phase # "Upgrading"
        /\ obj.status.phase # "Upgrading"
        /\ obj.status.curVer = node.status.curVer

\* An upgrade is announced, and its image has a tag.
Sending ==
    pc \in {"upgradeSend", "upgradeRecord"} =>
        node.status.phase = "Upgrading" /\ TagOf(img) # NoTag

\* Before an upgrade is sent the machine runs, or boots, what is reported.
Settled ==
    /\ node.status.phase # "Upgrading" \/ pc = "upgradeSend"
    /\ node.status.curVer # NoTag
    => /\ mach.ver = node.status.curVer
       /\ mach.pending # None => mach.pending.tag = node.status.curVer

\* The image of the upgrade under way: in memory until last-upgrade names it.
Target == IF pc = "upgradeRecord" THEN TagOf(img) ELSE TagOf(node.ann.lastUpgrade)

\* After it was sent the machine boots that image and no other one, and no
\* machine whose version is known boots an older one.
Underway ==
    node.status.phase = "Upgrading" /\ pc # "upgradeSend" =>
        /\ Target # NoTag
        /\ mach.pending # None => mach.pending.tag = Target
        /\ node.status.curVer # NoTag /\ Target # Opaque => Target >= mach.ver

\* As long as nothing failed.
Tracked ==
    ~Disturbed =>
        /\ pc \notin {"upgradeFailed", "upgradeError"}
        /\ Settled
        /\ Underway

VersionDiscipline == WorkerSees /\ NotUpgrading /\ Sending /\ Tracked

-----------------------------------------------------------------------------
(* What the writes do to the version and the image on record               *)

\* Reading back the phase and the version of a written status.
LEMMA VersionAccess ==
    ASSUME NEW s \in Status, NEW v, NEW w
    PROVE  /\ LET t == [s EXCEPT !.phase = v]
              IN  t.phase = v /\ t.curVer = s.curVer
           /\ LET t == [s EXCEPT !.phase = "Applying", !.obsGen = v]
              IN  t.phase = "Applying" /\ t.curVer = s.curVer
           /\ LET t == [s EXCEPT !.phase = "Pending", !.applied = FALSE]
              IN  t.phase = "Pending" /\ t.curVer = s.curVer
           /\ LET t == [s EXCEPT !.phase = "Ready", !.applied = TRUE]
              IN  t.phase = "Ready" /\ t.curVer = s.curVer
           /\ LET t == [s EXCEPT !.phase = "Ready", !.curVer = v, !.instExt = w]
              IN  t.phase = "Ready" /\ t.curVer = v
  BY DEF Status

\* Reading back the image on record after a patch.
LEMMA LastUpgradeAccess ==
    ASSUME NEW a \in Annotations, NEW v
    PROVE  /\ [a EXCEPT !.lastUpgrade = v].lastUpgrade = v
           /\ [a EXCEPT !.lastExt = v].lastUpgrade = a.lastUpgrade
           /\ [a EXCEPT !.lastReset = v].lastUpgrade = a.lastUpgrade
           /\ [a EXCEPT !.reset = v].lastUpgrade = a.lastUpgrade
           /\ [a EXCEPT !.upgrade = v].lastUpgrade = a.lastUpgrade
  BY DEF Annotations

\* Reading back the version and the pending image of a machine.
LEMMA MachineAccess ==
    ASSUME NEW m \in Machine, NEW v, NEW w
    PROVE  /\ LET n == [m EXCEPT !.pending = v]
              IN  n.ver = m.ver /\ n.pending = v
           /\ LET n == [m EXCEPT !.mode = "running", !.cfg = v]
              IN  n.ver = m.ver /\ n.pending = m.pending
           /\ LET n == [m EXCEPT !.cfg = v]
              IN  n.ver = m.ver /\ n.pending = m.pending
           /\ LET n == [m EXCEPT !.mode = "maintenance", !.cfg = None, !.pending = None]
              IN  n.ver = m.ver /\ n.pending = None
           /\ LET n == [m EXCEPT !.ver = v, !.ext = w, !.pending = None]
              IN  n.ver = v /\ n.pending = None
  BY DEF Machine

\* A failure outside the controller, or a crash, disturbs; nothing takes it back.
LEMMA FaultDisturbs == TypeOK /\ Fault => Disturbed'
<1> SUFFICES ASSUME TypeOK, Fault PROVE Disturbed'
  OBVIOUS
<1>1. spent \in Spent /\ spent' = [spent EXCEPT !.faults = @ + 1]
  BY DEF TypeOK, Fault
<1>2. spent.faults \in Nat /\ spent'.faults = spent.faults + 1
  BY <1>1 DEF Spent
<1> QED BY <1>2 DEF Disturbed

\* No step makes the node undisturbed again.
Onward == spent' = spent \/ Disturbed'

\* A machine that is left at its version, with what it was about to boot or less.
MachineKept == mach'.ver = mach.ver /\ mach'.pending \in {mach.pending, None}

\* The reported version, the phase and the image on record are left alone.
RecordKept ==
    /\ node'.status = node.status
    /\ node'.ann.lastUpgrade = node.ann.lastUpgrade

\* What matters to the versions is left alone.
VersionsKept == RecordKept /\ MachineKept /\ Onward

\* The worker's copy is worth what it was: a reconcile ends, nothing happens to
\* the worker, or it goes on with the same copy or with a refreshed one.
WorkerKept ==
    \/ pc' = "idle"
    \/ pc' = pc /\ obj' = obj /\ img' = img
    \/ pc' = "start" /\ obj' = node'
    \/ pc' \in Beside /\ obj'.status = obj.status /\ pc \in Beside

\* A step that leaves the versions alone, and does not drop the image on its way.
LEMMA KeptVersions ==
    ASSUME VersionDiscipline, VersionsKept, WorkerKept,
           pc \in {"upgradeSend", "upgradeRecord"} => pc' = pc \/ Disturbed',
           pc' \in {"settle", "upgrade"} => obj'.status = node'.status
    PROVE  VersionDiscipline'
<1> USE DEF VersionDiscipline
<1>1. WorkerSees'
  BY DEF WorkerSees, VersionsKept, RecordKept, WorkerKept, Beside
<1>2. NotUpgrading'
  BY DEF NotUpgrading, VersionsKept, RecordKept, WorkerKept, Beside
<1>3. Sending'
  BY DEF Sending, VersionsKept, RecordKept, WorkerKept, Beside, TagOf
<1>4. ASSUME ~Disturbed' PROVE Settled' /\ Underway' /\ pc' \notin {"upgradeFailed", "upgradeError"}
  <2>1. ~Disturbed /\ spent' = spent
    BY <1>4 DEF VersionsKept, Onward, Disturbed
  <2>2. Settled /\ Underway /\ pc \notin {"upgradeFailed", "upgradeError"}
    BY <2>1 DEF Tracked
  <2>3. pc' \notin {"upgradeFailed", "upgradeError"}
    BY <2>2 DEF WorkerKept, Beside
  <2>4. /\ pc' = "upgradeSend" <=> pc = "upgradeSend"
        /\ pc' = "upgradeRecord" <=> pc = "upgradeRecord"
        /\ pc = "upgradeRecord" => img' = img
    BY <1>4 DEF WorkerKept, Beside
  <2>5. Target' = Target
    BY <2>4 DEF Target, TagOf, VersionsKept, RecordKept
  <2>6. Settled'
    BY <2>2, <2>4 DEF Settled, VersionsKept, RecordKept, MachineKept
  <2>7. Underway'
    BY <2>2, <2>4, <2>5 DEF Underway, VersionsKept, RecordKept, MachineKept
  <2> QED BY <2>3, <2>6, <2>7
<1>5. Tracked'
  BY <1>4 DEF Tracked
<1> QED BY <1>1, <1>2, <1>3, <1>5

\* A failed or interrupted step, after which the versions are no longer tracked.
LEMMA DisturbedVersions ==
    ASSUME Disturbed', WorkerSees', NotUpgrading', Sending'
    PROVE  VersionDiscipline'
  BY DEF VersionDiscipline, Tracked

\* A status write beside an upgrade: it neither starts one nor reports a version.
LEMMA StatusVersions ==
    ASSUME TypeOK, VersionDiscipline, UNCHANGED <<mach, spent>>,
           pc \in Beside \cup {"start"},
           node.status.phase # "Upgrading", obj.status.curVer = node.status.curVer,
           NEW s, PutStatus(s), s.phase # "Upgrading", s.curVer = obj.status.curVer,
           \/ pc' = "idle"
           \/ pc' \in Beside \ {"settle", "upgrade"} /\ obj' = node'
    PROVE  VersionDiscipline'
<1> USE DEF VersionDiscipline
<1>1. node'.status = s
  BY PutStatusEffect
<1>2. WorkerSees' /\ NotUpgrading' /\ Sending'
  BY <1>1 DEF WorkerSees, NotUpgrading, Sending, Beside
<1>3. ASSUME ~Disturbed' PROVE Settled' /\ Underway' /\ pc' \notin {"upgradeFailed", "upgradeError"}
  <2>1. Settled
    BY <1>3 DEF Tracked, Disturbed
  <2>2. Settled'
    BY <1>1, <2>1 DEF Settled
  <2>3. Underway'
    BY <1>1 DEF Underway
  <2>4. pc' \notin {"upgradeFailed", "upgradeError"}
    BY DEF Beside
  <2> QED BY <2>2, <2>3, <2>4
<1> QED BY <1>2, <1>3 DEF Tracked

\* A write that fails changes nothing, because the copy was outdated, or disturbs;
\* then it may have been accepted all the same.
LEMMA PutFailsEffect ==
    ASSUME TypeOK, NEW s, PutFails(s)
    PROVE  /\ UNCHANGED <<node, spent>> \/ Disturbed'
           /\ node' = node \/ node'.status = s
  BY FaultDisturbs, PutStatusEffect DEF PutFails

-----------------------------------------------------------------------------
(* The steps                                                               *)

\* A step that ends the reconcile and leaves the versions alone.
LEMMA IdleVersions ==
    ASSUME VersionDiscipline, pc' = "idle", VersionsKept,
           pc \notin {"upgradeSend", "upgradeRecord"} \/ Disturbed'
    PROVE  VersionDiscipline'
  BY KeptVersions DEF WorkerKept

\* A failed write of the status or of an annotation that ends the reconcile.
LEMMA FailedVersions ==
    ASSUME TypeOK, VersionDiscipline, pc' = "idle", UNCHANGED mach,
           UNCHANGED <<node, spent>> \/ Disturbed',
           pc \notin {"upgradeSend", "upgradeRecord"}
    PROVE  VersionDiscipline'
<1>1. CASE UNCHANGED <<node, spent>>
  BY <1>1, IdleVersions DEF VersionsKept, RecordKept, MachineKept, Onward
<1>2. CASE Disturbed'
  BY <1>2, DisturbedVersions DEF WorkerSees, NotUpgrading, Sending, Beside
<1> QED BY <1>1, <1>2

\* checkUpgradeComplete: what it reports is what the announced image made of the
\* machine.
LEMMA CompleteVersions ==
    ASSUME TypeOK, StatusDiscipline, VersionDiscipline, CompleteUpgrade
    PROVE  VersionDiscipline'
<1>1. /\ pc = "start" /\ obj.status.phase = "Upgrading" /\ Upgraded(obj)
      /\ PutStatus(Completed) /\ pc' = "idle" /\ UNCHANGED <<mach, spent>>
  BY DEF CompleteUpgrade, Polling, Dispatching, Done, world
<1>2. Completed.phase = "Ready" /\ Completed.curVer = mach.ver
  BY <1>1, ObjType, NodeFields, VersionAccess DEF Completed
<1>3. node'.status = Completed /\ node'.ann = node.ann /\ fresh
  BY <1>1, PutStatusEffect
<1>4. obj.ann = node.ann /\ obj.status = node.status
  BY <1>1, <1>3 DEF StatusDiscipline, CopySync
<1>5. WorkerSees' /\ NotUpgrading' /\ Sending'
  BY <1>1 DEF WorkerSees, NotUpgrading, Sending, Beside
<1>6. ASSUME ~Disturbed' PROVE Settled' /\ Underway' /\ pc' \notin {"upgradeFailed", "upgradeError"}
  <2>1. Underway
    BY <1>1, <1>6 DEF VersionDiscipline, Tracked, Disturbed
  <2>2. /\ Target # NoTag
        /\ mach.pending # None => mach.pending.tag = Target
    BY <1>1, <1>4, <2>1 DEF Underway
  <2>3. Target = mach.ver
    BY <1>1, <1>4, <2>2 DEF Target, Upgraded
  <2>4. Settled'
    BY <1>1, <1>2, <1>3, <2>2, <2>3 DEF Settled
  <2>5. Underway'
    BY <1>2, <1>3 DEF Underway
  <2> QED BY <1>1, <2>4, <2>5
<1> QED BY <1>5, <1>6 DEF VersionDiscipline, Tracked

\* The upgrade is announced with the image that will be sent.
LEMMA MarkVersions ==
    ASSUME TypeOK, VersionDiscipline, MarkUpgrading
    PROVE  VersionDiscipline'
<1>1. /\ pc = "upgrade" /\ TagOf(img) # NoTag
      /\ PutStatus(Upgrading) /\ pc' = "upgradeSend" /\ obj' = node'
      /\ UNCHANGED <<img, mach, spent>>
  BY DEF MarkUpgrading, Permitted, Refresh, world
<1>2. Upgrading.phase = "Upgrading" /\ Upgrading.curVer = obj.status.curVer
  BY <1>1, ObjType, NodeFields, VersionAccess DEF Upgrading
<1>3. node'.status = Upgrading
  BY <1>1, PutStatusEffect
<1>4. node.status.phase # "Upgrading" /\ obj.status.curVer = node.status.curVer
  BY <1>1 DEF VersionDiscipline, NotUpgrading, Beside
<1>5. WorkerSees' /\ NotUpgrading'
  BY <1>1 DEF WorkerSees, NotUpgrading, Beside
<1>6. Sending'
  BY <1>1, <1>2, <1>3 DEF Sending, TagOf
<1>7. ASSUME ~Disturbed' PROVE Settled' /\ Underway' /\ pc' \notin {"upgradeFailed", "upgradeError"}
  <2>1. Settled
    BY <1>1, <1>7 DEF VersionDiscipline, Tracked, Disturbed
  <2>2. Settled'
    BY <1>1, <1>2, <1>3, <1>4, <2>1 DEF Settled
  <2>3. Underway'
    BY <1>1 DEF Underway
  <2> QED BY <1>1, <2>2, <2>3
<1> QED BY <1>5, <1>6, <1>7 DEF VersionDiscipline, Tracked

\* The machine accepts the image: it is not older than what runs.
LEMMA SendVersions ==
    ASSUME TypeOK, StatusDiscipline, VersionDiscipline, SendUpgrade
    PROVE  VersionDiscipline'
<1>1. /\ pc = "upgradeSend" /\ pc' = "upgradeRecord"
      /\ mach' = [mach EXCEPT !.pending = img]
      /\ UNCHANGED <<node, obj, img, spent>>
  BY DEF SendUpgrade, api
<1>2. mach'.ver = mach.ver /\ mach'.pending = img
  BY <1>1, MachineAccess DEF TypeOK
<1>3. node.status.phase = "Upgrading" /\ TagOf(img) # NoTag
  BY <1>1 DEF VersionDiscipline, Sending
<1>4. WorkerSees' /\ NotUpgrading'
  BY <1>1 DEF WorkerSees, NotUpgrading, Beside
<1>5. Sending'
  BY <1>1, <1>3 DEF Sending, TagOf
<1>6. Target' = TagOf(img)
  BY <1>1 DEF Target, TagOf
<1>7. img # None /\ img.tag = TagOf(img)
  BY <1>3 DEF TagOf
<1>8. TagOf(img) # Opaque => TagOf(img) \in Nat /\ TagOf(img) > 0
  BY <1>3, <1>7, DataAssumption DEF TypeOK, Images, Tags, NoTag, Opaque
<1>9. ASSUME node.status.curVer # NoTag, TagOf(img) # Opaque
      PROVE  TagOf(img) >= node.status.curVer
  <2>1. node.status.curVer \in Nat /\ node.status.curVer > 0
    <3>1. node.status.curVer \in Versions \cup {NoTag}
      BY NodeFields DEF TypeOK, Status
    <3>2. node.status.curVer \in Versions
      BY <1>9, <3>1
    <3>3. \A v \in Versions : v \in Nat /\ v > 0
      BY DataAssumption
    <3> QED BY <3>2, <3>3
  <2>2. ~IsDowngrade(node.status.curVer, TagOf(img))
    BY <1>1 DEF StatusDiscipline, Committed, StatusOwned, Owning
  <2> QED BY <1>8, <1>9, <2>1, <2>2 DEF IsDowngrade
<1>10. ASSUME ~Disturbed' PROVE Settled' /\ Underway' /\ pc' \notin {"upgradeFailed", "upgradeError"}
  <2>1. Settled
    BY <1>1, <1>10 DEF VersionDiscipline, Tracked, Disturbed
  <2>2. Settled'
    BY <1>1, <1>3 DEF Settled
  <2>3. node.status.curVer # NoTag => mach.ver = node.status.curVer
    BY <1>1, <2>1 DEF Settled
  <2>4. Underway'
    BY <1>1, <1>2, <1>3, <1>6, <1>7, <1>9, <2>3 DEF Underway
  <2> QED BY <1>1, <2>2, <2>4
<1> QED BY <1>4, <1>5, <1>10 DEF VersionDiscipline, Tracked

\* The worker gets beside an upgrade, or stays there.
LEMMA BesideVersions ==
    ASSUME VersionDiscipline, VersionsKept, pc' \in Beside,
           node.status.phase # "Upgrading",
           obj'.status.phase # "Upgrading",
           obj'.status.curVer = node.status.curVer,
           pc' \in {"settle", "upgrade"} => obj'.status = node.status
    PROVE  VersionDiscipline'
<1>1. node'.status = node.status
  BY DEF VersionsKept, RecordKept
<1>2. WorkerSees' /\ NotUpgrading' /\ Sending'
  BY <1>1 DEF WorkerSees, NotUpgrading, Sending, Beside
<1>3. ASSUME ~Disturbed' PROVE Settled' /\ Underway' /\ pc' \notin {"upgradeFailed", "upgradeError"}
  <2>1. Settled
    BY <1>3 DEF VersionDiscipline, Tracked, VersionsKept, Onward, Disturbed
  <2>2. Settled'
    BY <1>1, <2>1 DEF Settled, VersionsKept, MachineKept
  <2>3. Underway'
    BY <1>1 DEF Underway
  <2>4. pc' \notin {"upgradeFailed", "upgradeError"}
    BY DEF Beside
  <2> QED BY <2>2, <2>3, <2>4
<1> QED BY <1>2, <1>3 DEF VersionDiscipline, Tracked

\* A status write beside an upgrade fails, and the worker goes on to setError.
LEMMA RefusedVersions ==
    ASSUME TypeOK, VersionDiscipline, UNCHANGED mach,
           node.status.phase # "Upgrading", obj.status.curVer = node.status.curVer,
           NEW s, PutFails(s), s.phase # "Upgrading", s.curVer = obj.status.curVer,
           pc' = "setError", obj'.status = s
    PROVE  VersionDiscipline'
<1>1. node' = node \/ node'.status = s
  BY PutFailsEffect
<1>2. CASE UNCHANGED <<node, spent>>
  BY <1>2, BesideVersions DEF VersionsKept, RecordKept, MachineKept, Onward, Beside
<1>3. CASE Disturbed'
  BY <1>1, <1>3, DisturbedVersions DEF WorkerSees, NotUpgrading, Sending, Beside
<1> QED BY <1>2, <1>3, PutFailsEffect

\* last-upgrade is recorded beside an upgrade, or for the one that was sent.
LEMMA ConsumeVersions ==
    ASSUME TypeOK, VersionDiscipline, pc \in {"upgrade", "upgradeRecord"}, pc' = "idle",
           UNCHANGED mach,
           \/ ConsumeUpgrade /\ UNCHANGED spent
           \/ LoseConsume
    PROVE  VersionDiscipline'
<1>1. WorkerSees' /\ NotUpgrading' /\ Sending'
  BY DEF WorkerSees, NotUpgrading, Sending, Beside
<1>2. CASE LoseConsume
  BY <1>1, <1>2, FaultDisturbs, DisturbedVersions DEF LoseConsume, PatchFails
<1>3. CASE ConsumeUpgrade /\ UNCHANGED spent
  <2> DEFINE a == [node.ann EXCEPT !.lastUpgrade = img]
  <2>1. a.lastUpgrade = img
    BY NodeFields, LastUpgradeAccess DEF TypeOK
  <2>2. PatchAnnotations(a)
    BY <1>3 DEF ConsumeUpgrade
  <2> HIDE DEF a
  <2>3. node'.status = node.status /\ node'.ann.lastUpgrade = img
    BY <2>1, <2>2, PatchEffect
  <2>4. ASSUME ~Disturbed' PROVE Settled' /\ Underway'
    <3>1. Settled /\ Underway
      BY <1>3, <2>4 DEF VersionDiscipline, Tracked, Disturbed
    <3>2. Settled'
      BY <2>3, <3>1 DEF Settled
    <3>3. CASE pc = "upgrade"
      <4>1. node'.status.phase # "Upgrading"
        BY <2>3, <3>3 DEF VersionDiscipline, NotUpgrading, Beside
      <4> QED BY <3>2, <4>1 DEF Underway
    <3>4. CASE pc = "upgradeRecord"
      <4>1. Target' = Target
        BY <2>3, <3>4 DEF Target, TagOf
      <4>2. Underway'
        BY <2>3, <3>1, <3>4, <4>1 DEF Underway
      <4> QED BY <3>2, <4>2
    <3> QED BY <3>3, <3>4
  <2> QED BY <1>1, <2>4 DEF VersionDiscipline, Tracked
<1> QED BY <1>2, <1>3

\* What the worker knows when reconcileVersion has let it pass.
LEMMA SettlingKnows ==
    ASSUME VersionDiscipline, Settling \/ Unclaimed
    PROVE  /\ pc \in {"start", "settle"}
           /\ node.status.phase # "Upgrading"
           /\ obj.status = node.status
<1>1. CASE pc = "settle"
  BY <1>1 DEF VersionDiscipline, WorkerSees, NotUpgrading, Beside
<1>2. CASE Unclaimed
  BY <1>2 DEF VersionDiscipline, WorkerSees, Unclaimed, Dispatching
<1> QED BY <1>1, <1>2 DEF Settling

\* The upgrade handlers.
LEMMA UpgradeVersions ==
    ASSUME TypeOK, StatusDiscipline, VersionDiscipline, Upgrade
    PROVE  VersionDiscipline'
<1>1. CASE PollUpgrade \/ RejectUntagged \/ SkipContainer \/ UpgradeUnreachable
  <2>1. pc \in {"start", "upgrade"} /\ pc' = "idle" /\ UNCHANGED <<node, mach>>
    BY <1>1 DEF PollUpgrade, RejectUntagged, SkipContainer, UpgradeUnreachable, Polling,
       Permitted, Dispatching, Done, world
  <2>2. Onward
    BY <1>1, FaultDisturbs DEF PollUpgrade, RejectUntagged, SkipContainer,
       UpgradeUnreachable, Onward, world
  <2> QED BY <2>1, <2>2, IdleVersions DEF VersionsKept, RecordKept, MachineKept
<1>2. CASE CompleteUpgrade
  BY <1>2, CompleteVersions
<1>3. CASE CompleteUpgradeFails \/ MarkUpgradingFails \/ SchematicFails
  <2>1. pc \in {"start", "upgrade"} /\ pc' = "idle" /\ UNCHANGED mach
    BY <1>3 DEF CompleteUpgradeFails, MarkUpgradingFails, SchematicFails, Polling, Permitted,
       Versioning, Unclaimed, Dispatching, Done
  <2>2. UNCHANGED <<node, spent>> \/ Disturbed'
    BY <1>3, PutFailsEffect, FaultDisturbs
    DEF CompleteUpgradeFails, MarkUpgradingFails, SchematicFails, PatchFails
  <2> QED BY <2>1, <2>2, FailedVersions
<1>4. CASE AnnotationUpgrade \/ SpecUpgrade
  <2>1. Unclaimed /\ pc' = "upgrade" /\ UNCHANGED <<node, obj, mach, spent>>
    BY <1>4 DEF AnnotationUpgrade, SpecUpgrade, Versioning, StartUpgrade, api, world
  <2>2. node.status.phase # "Upgrading" /\ obj.status = node.status
    BY <2>1, SettlingKnows
  <2> QED BY <2>1, <2>2, BesideVersions
          DEF VersionsKept, RecordKept, MachineKept, Onward, Beside
<1>5. CASE RecordSchematic
  <2>1. SchematicKnown.lastUpgrade = node.ann.lastUpgrade
    BY NodeFields, LastUpgradeAccess DEF TypeOK, SchematicKnown
  <2>2. /\ Unclaimed /\ PatchAnnotations(SchematicKnown) /\ UNCHANGED <<mach, spent>>
        /\ pc' \in {"upgrade", "settle"} /\ obj' = node'
    BY <1>5 DEF RecordSchematic, Versioning, Refresh, world
  <2>3. node'.status = node.status /\ node'.ann.lastUpgrade = node.ann.lastUpgrade
    BY <2>1, <2>2, PatchEffect
  <2>4. node.status.phase # "Upgrading"
    BY <2>2, SettlingKnows
  <2> QED BY <2>2, <2>3, <2>4, BesideVersions
          DEF VersionsKept, RecordKept, MachineKept, Onward, Beside
<1>6. CASE BlockDowngrade \/ RecordUpgrade
  BY <1>6, ConsumeVersions DEF BlockDowngrade, RecordUpgrade, Done
<1>7. CASE MarkUpgrading
  BY <1>7, MarkVersions
<1>8. CASE SendUpgrade
  BY <1>8, SendVersions
<1>9. CASE SendUpgradeFails
  BY <1>9, FaultDisturbs, DisturbedVersions
  DEF SendUpgradeFails, WorkerSees, NotUpgrading, Sending, Beside
<1>10. CASE RecordFailedUpgrade \/ SaveUpgradeError
  <2>1. pc \in {"upgradeFailed", "upgradeError"} /\ pc' \in {"upgradeError", "idle"}
    BY <1>10 DEF RecordFailedUpgrade, SaveUpgradeError, Refresh, Done
  <2>2. spent' = spent \/ Disturbed'
    BY <1>10, FaultDisturbs, PutFailsEffect
    DEF RecordFailedUpgrade, SaveUpgradeError, LoseConsume, PatchFails
  <2>3. Disturbed'
    BY <2>1, <2>2 DEF VersionDiscipline, Tracked, Disturbed
  <2> QED BY <2>1, <2>3, DisturbedVersions DEF WorkerSees, NotUpgrading, Sending, Beside
<1> QED BY <1>1, <1>2, <1>3, <1>4, <1>5, <1>6, <1>7, <1>8, <1>9, <1>10 DEF Upgrade

\* handleStandaloneReset: a reset drops an image that the machine has yet to boot.
LEMMA ResetVersions ==
    ASSUME TypeOK, VersionDiscipline, Reset
    PROVE  VersionDiscipline'
<1>1. CASE RecordReset
  <2>1. Recorded.lastUpgrade = node.ann.lastUpgrade
    BY NodeFields, LastUpgradeAccess DEF TypeOK, Recorded
  <2>2. /\ Settling /\ PatchAnnotations(Recorded) /\ UNCHANGED <<mach, spent>>
        /\ pc' = "resetSend" /\ obj' = node'
    BY <1>1 DEF RecordReset, Refresh, world
  <2>3. node'.status = node.status /\ node'.ann.lastUpgrade = node.ann.lastUpgrade
    BY <2>1, <2>2, PatchEffect
  <2>4. node.status.phase # "Upgrading"
    BY <2>2, SettlingKnows
  <2> QED BY <2>2, <2>3, <2>4, BesideVersions
          DEF VersionsKept, RecordKept, MachineKept, Onward, Beside
<1>2. CASE RecordResetFails
  <2>1. pc \in {"start", "settle"} /\ pc' = "idle" /\ UNCHANGED mach /\ Disturbed'
    BY <1>2, SettlingKnows, FaultDisturbs DEF RecordResetFails, PatchFails, Done
  <2> QED BY <2>1, FailedVersions
<1>3. Wiped.ver = mach.ver /\ Wiped.pending = None
  BY MachineAccess DEF TypeOK, Wiped
<1>4. CASE SendReset
  <2>1. /\ pc = "resetSend" /\ pc' = "resetSave" /\ mach' = Wiped
        /\ UNCHANGED <<node, obj, spent>>
    BY <1>4 DEF SendReset, api
  <2>2. NotUpgrading
    BY DEF VersionDiscipline
  <2> QED BY <1>3, <2>1, <2>2, BesideVersions
          DEF NotUpgrading, VersionsKept, RecordKept, MachineKept, Onward, Beside
<1>5. CASE SendResetFails
  <2>1. /\ pc = "resetSend" /\ pc' = "idle" /\ UNCHANGED node
        /\ mach' = mach \/ mach' = Wiped
    BY <1>5 DEF SendResetFails, Done
  <2>2. Onward
    BY <1>5, FaultDisturbs DEF SendResetFails, Onward
  <2> QED BY <1>3, <2>1, <2>2, IdleVersions DEF VersionsKept, RecordKept, MachineKept
<1>6. CASE SaveReset
  <2>1. pc = "resetSave" /\ pc' = "idle" /\ UNCHANGED mach
        /\ ((PutStatus(AfterReset) /\ UNCHANGED spent) \/ PutFails(AfterReset))
    BY <1>6 DEF SaveReset, Done
  <2>2. AfterReset.phase = "Pending" /\ AfterReset.curVer = obj.status.curVer
    BY <2>1, ObjType, NodeFields, VersionAccess DEF AfterReset
  <2>3. node.status.phase # "Upgrading" /\ obj.status.curVer = node.status.curVer
    BY <2>1 DEF VersionDiscipline, NotUpgrading, Beside
  <2>4. CASE PutStatus(AfterReset) /\ UNCHANGED spent
    BY <2>1, <2>2, <2>3, <2>4, StatusVersions DEF Beside
  <2>5. CASE PutFails(AfterReset)
    BY <2>1, <2>5, PutFailsEffect, FailedVersions
  <2> QED BY <2>1, <2>4, <2>5
<1> QED BY <1>1, <1>2, <1>4, <1>5, <1>6 DEF Reset

\* checkDrift, applyConfig and setError: a configuration changes no version.
LEMMA ApplyVersions ==
    ASSUME TypeOK, VersionDiscipline, Apply
    PROVE  VersionDiscipline'
<1>1. CASE StayUpToDate \/ DriftInSync
  <2>1. Settling /\ pc' = "idle" /\ UNCHANGED <<node, mach>>
    BY <1>1 DEF StayUpToDate, DriftInSync, NothingToDo, Done, world
  <2>2. Onward
    BY <1>1, FaultDisturbs DEF StayUpToDate, DriftInSync, Onward, world
  <2>3. pc \in {"start", "settle"}
    BY <2>1, SettlingKnows
  <2> QED BY <2>1, <2>2, <2>3, IdleVersions DEF VersionsKept, RecordKept, MachineKept
<1>2. CASE BeginApply \/ BeginApplyFails
  <2>1. ApplyDue /\ Settling
    BY <1>2 DEF BeginApply, BeginApplyFails, ApplyDue
  <2>2. /\ pc \in {"start", "settle"}
        /\ node.status.phase # "Upgrading"
        /\ obj.status = node.status
    BY <2>1, SettlingKnows
  <2>3. Applying.phase = "Applying" /\ Applying.curVer = obj.status.curVer
    BY <2>2, ObjType, NodeFields, VersionAccess DEF Applying
  <2>4. CASE BeginApply
    <3>1. /\ PutStatus(Applying) /\ obj' = node' /\ UNCHANGED <<mach, spent>>
          /\ pc' \in {"push", "pushFirst"}
      BY <2>4 DEF BeginApply, Refresh, world
    <3> QED BY <2>2, <2>3, <3>1, StatusVersions DEF Beside
  <2>5. CASE BeginApplyFails
    <3>1. /\ PutFails(Applying) /\ pc' = "setError" /\ obj' = WithStatus(obj, Applying)
          /\ UNCHANGED mach
      BY <2>5 DEF BeginApplyFails, Fail
    <3>2. obj'.status = Applying
      BY <2>2, <3>1, ObjType, NodeAccess DEF WithStatus
    <3> QED BY <2>2, <2>3, <3>1, <3>2, RefusedVersions DEF Beside
  <2> QED BY <1>2, <2>4, <2>5
<1>3. pc \in Beside => obj \in Node /\ NotUpgrading
  BY ObjType DEF VersionDiscipline, Beside
<1>4. pc \in Beside => Configured.ver = mach.ver /\ Configured.pending = mach.pending
  BY MachineAccess DEF TypeOK, Configured
<1>5. CASE Push \/ PushFails \/ SaveNodeConfig \/ SaveNodeConfigFails
  <2>1. /\ pc \in Beside /\ pc' \in Beside \ {"settle", "upgrade"}
        /\ mach' \in {mach, Configured} /\ UNCHANGED <<node, obj>>
    BY <1>5 DEF Push, PushFails, SaveNodeConfig, SaveNodeConfigFails, Pushing, Fail, api,
       Beside
  <2>2. Onward
    BY <1>5, FaultDisturbs DEF Push, PushFails, SaveNodeConfig, SaveNodeConfigFails, Onward
  <2> QED BY <1>3, <1>4, <2>1, <2>2, BesideVersions
          DEF NotUpgrading, VersionsKept, RecordKept, MachineKept
<1>6. CASE PushTimesOut
  <2>1. /\ pc \in Beside /\ pc \notin {"upgradeSend", "upgradeRecord"} /\ pc' = "idle"
        /\ mach' \in {mach, Configured} /\ UNCHANGED node
    BY <1>6 DEF PushTimesOut, Pushing, Done, Beside
  <2>2. Onward
    BY <1>6, FaultDisturbs DEF PushTimesOut, Onward
  <2> QED BY <1>4, <2>1, <2>2, IdleVersions DEF VersionsKept, RecordKept, MachineKept
<1>7. CASE SaveApplied
  <2>1. /\ pc = "applied" /\ pc' = "idle" /\ PutStatus(Applied) /\ UNCHANGED <<mach, spent>>
    BY <1>7 DEF SaveApplied, Done, world
  <2>2. Applied.phase = "Ready" /\ Applied.curVer = obj.status.curVer
    BY <2>1, ObjType, NodeFields, VersionAccess DEF Applied
  <2> QED BY <1>3, <2>1, <2>2, StatusVersions DEF NotUpgrading, Beside
<1>8. CASE SaveAppliedFails
  <2>1. /\ pc = "applied" /\ PutFails(Applied) /\ pc' = "setError"
        /\ obj' = WithStatus(obj, Applied) /\ UNCHANGED mach
    BY <1>8 DEF SaveAppliedFails, Fail
  <2>2. Applied.phase = "Ready" /\ Applied.curVer = obj.status.curVer
    BY <2>1, ObjType, NodeFields, VersionAccess DEF Applied
  <2>3. obj'.status = Applied
    BY <2>1, ObjType, NodeAccess DEF WithStatus
  <2> QED BY <1>3, <2>1, <2>2, <2>3, RefusedVersions
          DEF NotUpgrading, Beside
<1>9. CASE SetError
  <2>1. pc = "setError" /\ pc' = "idle" /\ UNCHANGED mach
        /\ ((PutStatus(InError) /\ UNCHANGED spent) \/ PutFails(InError))
    BY <1>9 DEF SetError, Done
  <2>2. InError.phase = "Error" /\ InError.curVer = obj.status.curVer
    BY <2>1, ObjType, NodeFields, VersionAccess DEF InError
  <2>3. CASE PutStatus(InError) /\ UNCHANGED spent
    BY <1>3, <2>1, <2>2, <2>3, StatusVersions DEF NotUpgrading, Beside
  <2>4. CASE PutFails(InError)
    BY <2>1, <2>4, PutFailsEffect, FailedVersions
  <2> QED BY <2>1, <2>3, <2>4
<1> QED BY <1>1, <1>2, <1>5, <1>6, <1>7, <1>8, <1>9 DEF Apply

\* The machine boots the image it was sent.
LEMMA RebootVersions ==
    ASSUME TypeOK, VersionDiscipline, Reboot
    PROVE  /\ VersionDiscipline'
           /\ ~Disturbed /\ node.status.curVer # NoTag =>
                mach'.ver >= mach.ver \/ mach.pending.tag = Opaque
<1>1. /\ mach.pending # None /\ spent' = spent
      /\ UNCHANGED <<node, pc, obj, img>>
  BY DEF Reboot, api, worker
<1>2. PICK v \in Versions :
         /\ mach.pending.tag # Opaque => v = mach.pending.tag
         /\ mach' = [mach EXCEPT !.ver = v, !.ext = mach.pending.ext, !.pending = None]
  BY DEF Reboot
<1>3. mach'.ver = v /\ mach'.pending = None
  BY <1>2, MachineAccess DEF TypeOK
<1>4. v \in Nat /\ v # Opaque /\ mach.ver \in Nat
  <2>1. \A w \in Versions : w \in Nat /\ w # Opaque
    BY DataAssumption DEF Opaque
  <2>2. mach.ver \in Versions
    BY DEF TypeOK, Machine
  <2> QED BY <2>1, <2>2
<1>5. node.status.curVer # Opaque
  <2>1. node.status.curVer \in Versions \cup {NoTag}
    BY NodeFields DEF TypeOK, Status
  <2> QED BY <2>1, DataAssumption DEF NoTag, Opaque
<1>6. WorkerSees' /\ NotUpgrading' /\ Sending'
  BY <1>1 DEF VersionDiscipline, WorkerSees, NotUpgrading, Sending, TagOf
<1>7. Target' = Target
  BY <1>1 DEF Target, TagOf
<1>8. ASSUME ~Disturbed
      PROVE  /\ Settled' /\ Underway' /\ pc \notin {"upgradeFailed", "upgradeError"}
             /\ node.status.curVer # NoTag =>
                  mach'.ver >= mach.ver \/ mach.pending.tag = Opaque
  <2>1. Settled /\ Underway /\ pc \notin {"upgradeFailed", "upgradeError"}
    BY <1>8 DEF VersionDiscipline, Tracked
  <2>2. Settled'
    BY <1>1, <1>2, <1>3, <1>5, <2>1 DEF Settled
  <2>3. node.status.phase = "Upgrading" /\ pc # "upgradeSend" =>
          /\ mach.pending.tag = Target
          /\ Target # Opaque => v = Target
    BY <1>1, <1>2, <2>1 DEF Underway
  <2>4. Underway'
    BY <1>1, <1>3, <1>4, <1>7, <2>1, <2>3 DEF Underway
  <2>5. CASE node.status.phase = "Upgrading" /\ pc # "upgradeSend"
    BY <1>2, <1>3, <2>1, <2>2, <2>3, <2>4, <2>5 DEF Underway
  <2>6. CASE ~(node.status.phase = "Upgrading" /\ pc # "upgradeSend")
    <3>1. node.status.curVer # NoTag => mach.ver = mach.pending.tag
      BY <1>1, <2>1, <2>6 DEF Settled
    <3> QED BY <1>2, <1>3, <1>4, <2>1, <2>2, <2>4, <3>1
  <2> QED BY <2>5, <2>6
<1>9. Disturbed' <=> Disturbed
  BY <1>1 DEF Disturbed
<1> QED BY <1>1, <1>6, <1>8, <1>9 DEF VersionDiscipline, Tracked

\* Users edit the spec and request upgrades and resets; they record nothing.
LEMMA UserVersions ==
    ASSUME TypeOK, VersionDiscipline, User
    PROVE  VersionDiscipline'
<1>1. ASSUME NEW n, UserWrites(n), n.status = node.status,
             n.ann.lastUpgrade = node.ann.lastUpgrade
      PROVE  VersionDiscipline'
  <2>1. /\ UNCHANGED <<pc, obj, img, mach>> /\ node' = n
        /\ spent' = [spent EXCEPT !.edits = @ + 1]
    BY <1>1 DEF UserWrites
  <2>2. spent'.faults = spent.faults /\ spent'.crashes = spent.crashes
    BY <2>1 DEF TypeOK, Spent
  <2>3. Disturbed' <=> Disturbed
    BY <2>2 DEF Disturbed
  <2>4. Target' = Target /\ TagOf(img)' = TagOf(img)
    BY <1>1, <2>1 DEF Target, TagOf
  <2>5. Settled' <=> Settled
    BY <1>1, <2>1 DEF Settled
  <2>6. Underway' <=> Underway
    BY <1>1, <2>1, <2>4 DEF Underway
  <2>7. WorkerSees' /\ NotUpgrading' /\ Sending'
    BY <1>1, <2>1, <2>4 DEF VersionDiscipline, WorkerSees, NotUpgrading, Sending
  <2> QED BY <2>1, <2>3, <2>5, <2>6, <2>7 DEF VersionDiscipline, Tracked
<1>2. CASE EditSpec
  <2>1. PICK s \in Specs : UserWrites([node EXCEPT !.spec = s, !.gen = @ + 1])
    BY <1>2 DEF EditSpec
  <2> DEFINE n == [node EXCEPT !.spec = s, !.gen = @ + 1]
  <2>2. n.status = node.status /\ n.ann = node.ann
    BY NodeAccess DEF TypeOK
  <2> HIDE DEF n
  <2> QED BY <1>1, <2>1, <2>2 DEF n
<1>3. CASE RequestUpgrade
  <2>1. PICK i \in UpgradeImages : UserWrites([node EXCEPT !.ann.upgrade = i])
    BY <1>3 DEF RequestUpgrade
  <2> DEFINE n == [node EXCEPT !.ann.upgrade = i]
             b == [node.ann EXCEPT !.upgrade = i]
  <2>2. n.status = node.status /\ n.ann = b
    BY NodeAccess DEF TypeOK
  <2>3. b.lastUpgrade = node.ann.lastUpgrade
    BY NodeFields, LastUpgradeAccess DEF TypeOK
  <2> HIDE DEF n, b
  <2> QED BY <1>1, <2>1, <2>2, <2>3 DEF n
<1>4. CASE RequestReset
  <2> DEFINE n == [node EXCEPT !.ann.reset = @ + 1]
             b == [node.ann EXCEPT !.reset = node.ann.reset + 1]
  <2>1. UserWrites(n)
    BY <1>4 DEF RequestReset
  <2>2. n.status = node.status /\ n.ann = b
    BY NodeAccess DEF TypeOK
  <2>3. b.lastUpgrade = node.ann.lastUpgrade
    BY NodeFields, LastUpgradeAccess DEF TypeOK
  <2> HIDE DEF n, b
  <2> QED BY <1>1, <2>1, <2>2, <2>3
<1> QED BY <1>2, <1>3, <1>4 DEF User

\* Every step keeps track of the versions, when Get is not served from a cache
\* that lags.
LEMMA VersionStep ==
    ASSUME StaleReads = FALSE, TypeOK, StatusDiscipline, VersionDiscipline, [Next]_vars
    PROVE  VersionDiscipline'
<1>1. CASE Get
  <2>1. /\ lag = "none" /\ pc = "idle" /\ pc' = "start" /\ obj' = cache
        /\ UNCHANGED <<node, mach, spent>>
    BY <1>1 DEF Get, world
  <2>2. cache = node
    BY <2>1 DEF StatusDiscipline, CacheSync
  <2> QED BY <2>1, <2>2, KeptVersions
          DEF VersionsKept, RecordKept, MachineKept, WorkerKept, Onward
<1>2. CASE AddFinalizer
  <2>1. /\ pc = "start" /\ pc' = "start" /\ obj' = node'
        /\ node' = [node EXCEPT !.fin = TRUE] /\ UNCHANGED <<mach, spent>>
    BY <1>2 DEF AddFinalizer, PutFinalizer, Refresh, world
  <2>2. node'.status = node.status /\ node'.ann = node.ann
    BY <2>1, NodeAccess DEF TypeOK
  <2> QED BY <2>1, <2>2, KeptVersions
          DEF VersionsKept, RecordKept, MachineKept, WorkerKept, Onward
<1>3. CASE AddFinalizerFails
  <2>1. /\ pc = "start" /\ pc' = "idle" /\ UNCHANGED mach
        /\ UNCHANGED <<node, spent>> \/ Disturbed'
    BY <1>3, FaultDisturbs DEF AddFinalizerFails, Done
  <2> QED BY <2>1, FailedVersions
<1>4. CASE Upgrade
  BY <1>4, UpgradeVersions
<1>5. CASE Reset
  BY <1>5, ResetVersions
<1>6. CASE Apply
  BY <1>6, ApplyVersions
<1>7. CASE User
  BY <1>7, UserVersions
<1>8. CASE Reboot
  BY <1>8, RebootVersions
<1>9. CASE Deliver \/ UNCHANGED vars
  <2>1. UNCHANGED <<node, pc, obj, img, mach, spent>>
    BY <1>9 DEF Deliver, worker, world, vars
  <2>2. pc \in {"settle", "upgrade"} => obj.status = node.status
    BY DEF VersionDiscipline, WorkerSees
  <2> QED BY <2>1, <2>2, KeptVersions
          DEF VersionsKept, RecordKept, MachineKept, WorkerKept, Onward
<1>10. CASE ExternalDrift
  <2>1. /\ UNCHANGED <<node, pc, obj, img>> /\ Fault
        /\ \E c \in Cfgs : mach' = [mach EXCEPT !.cfg = c]
    BY <1>10 DEF ExternalDrift, api, worker
  <2>2. mach'.ver = mach.ver /\ mach'.pending = mach.pending
    BY <2>1, MachineAccess DEF TypeOK
  <2>3. pc \in {"settle", "upgrade"} => obj.status = node.status
    BY DEF VersionDiscipline, WorkerSees
  <2> QED BY <2>1, <2>2, <2>3, FaultDisturbs, KeptVersions
          DEF VersionsKept, RecordKept, MachineKept, WorkerKept, Onward
<1>11. CASE Crash
  <2>1. pc' = "idle" /\ spent' = [spent EXCEPT !.crashes = @ + 1]
    BY <1>11 DEF Crash, Done
  <2>2. spent.crashes \in Nat /\ spent'.crashes = spent.crashes + 1
    BY <2>1 DEF TypeOK, Spent
  <2> QED BY <2>1, <2>2, DisturbedVersions
          DEF Disturbed, WorkerSees, NotUpgrading, Sending, Beside
<1> QED BY <1>1, <1>2, <1>3, <1>4, <1>5, <1>6, <1>7, <1>8, <1>9, <1>10, <1>11
        DEF Next, Reconcile

\* Initially no version is known and no image is pending.
LEMMA VersionInit == Init => VersionDiscipline
<1> SUFFICES ASSUME Init PROVE VersionDiscipline
  OBVIOUS
<1>1. node.status.curVer = NoTag /\ node.status.phase = ""
  <2>1. PICK s \in Specs :
         node = [gen |-> 1, fin |-> FALSE, spec |-> s,
                 ann |-> [upgrade |-> None, lastUpgrade |-> None, reset |-> 0,
                          lastReset |-> 0, lastExt |-> None],
                 status |-> [phase |-> "", obsGen |-> 0, applied |-> FALSE,
                             curVer |-> NoTag, instExt |-> None]]
    BY DEF Init
  <2> QED BY <2>1
<1>2. pc = "idle"
  BY DEF Init
<1> QED BY <1>1, <1>2
        DEF VersionDiscipline, WorkerSees, NotUpgrading, Sending, Tracked, Settled, Underway,
            Beside

\* What checkUpgradeComplete and the upgrade annotations keep track of.
THEOREM VersionsTracked ==
    ASSUME StaleReads = FALSE
    PROVE  Spec => []VersionDiscipline
<1>1. TypeOK /\ StatusDiscipline /\ VersionDiscipline /\ [Next]_vars => VersionDiscipline'
  BY VersionStep
<1> QED BY <1>1, VersionInit, TypeCorrect, DisciplineHolds, PTL DEF Spec

\* As long as nothing failed, a node that is not being upgraded reports the
\* version that its machine runs, however annotations, spec and resets compete.
THEOREM ReportedIsRunning ==
    ASSUME StaleReads = FALSE
    PROVE  Spec => []ReportedVersionRuns
<1>1. VersionDiscipline => ReportedVersionRuns
  BY DEF VersionDiscipline, Tracked, Settled, ReportedVersionRuns
<1> QED BY <1>1, VersionsTracked, PTL

\* Only a reboot changes the version of a machine.
LEMMA OnlyReboot ==
    ASSUME TypeOK, [Next]_vars, ~Reboot
    PROVE  mach'.ver = mach.ver
<1>1. Wiped.ver = mach.ver
  BY MachineAccess DEF TypeOK, Wiped
<1>2. Configured.ver = mach.ver
  BY MachineAccess DEF TypeOK, Configured
<1>3. [mach EXCEPT !.pending = img].ver = mach.ver
  BY MachineAccess DEF TypeOK
<1>4. \A c \in Cfgs : [mach EXCEPT !.cfg = c].ver = mach.ver
  BY MachineAccess DEF TypeOK
<1>5. CASE Upgrade
  <2>1. mach' = mach \/ mach' = [mach EXCEPT !.pending = img]
    BY <1>5 DEF Upgrade, PollUpgrade, CompleteUpgrade, CompleteUpgradeFails,
       AnnotationUpgrade, SpecUpgrade, StartUpgrade, RecordSchematic, SchematicFails,
       RejectUntagged, BlockDowngrade, UpgradeUnreachable, SkipContainer, MarkUpgrading,
       MarkUpgradingFails, SendUpgrade, SendUpgradeFails, RecordUpgrade,
       RecordFailedUpgrade, SaveUpgradeError, world
  <2> QED BY <1>3, <2>1
<1>6. CASE Reset
  <2>1. mach' = mach \/ mach' = Wiped
    BY <1>6 DEF Reset, RecordReset, RecordResetFails, SendReset, SendResetFails, SaveReset,
       world
  <2> QED BY <1>1, <2>1
<1>7. CASE Apply
  <2>1. mach' = mach \/ mach' = Configured
    BY <1>7 DEF Apply, StayUpToDate, DriftInSync, BeginApply, BeginApplyFails, Push,
       PushFails, PushTimesOut, SaveNodeConfig, SaveNodeConfigFails, SaveApplied,
       SaveAppliedFails, SetError, world
  <2> QED BY <1>2, <2>1
<1>8. CASE ExternalDrift
  BY <1>4, <1>8 DEF ExternalDrift
<1>9. CASE Get \/ AddFinalizer \/ AddFinalizerFails \/ Deliver \/ User \/ Crash
           \/ UNCHANGED vars
  BY <1>9 DEF Get, AddFinalizer, AddFinalizerFails, Deliver, User, EditSpec,
     RequestUpgrade, RequestReset, UserWrites, Crash, vars, world
<1> QED BY <1>5, <1>6, <1>7, <1>8, <1>9 DEF Next, Reconcile

\* As long as nothing failed, no upgrade takes a machine of a known version to an
\* older one: checkDowngrade is done minutes before the machine reboots, yet what
\* the machine runs then is still what it compared with.
THEOREM NoFallback ==
    ASSUME StaleReads = FALSE
    PROVE  Spec => VersionNeverFalls
<1>1. TypeOK /\ VersionDiscipline /\ [Next]_vars =>
        [~Disturbed /\ node.status.curVer # NoTag /\ mach'.ver # mach.ver
           => mach'.ver > mach.ver \/ mach.pending.tag = Opaque]_vars
  <2> SUFFICES ASSUME TypeOK, VersionDiscipline, [Next]_vars,
                      ~Disturbed, node.status.curVer # NoTag, mach'.ver # mach.ver,
                      mach.pending.tag # Opaque
               PROVE  mach'.ver > mach.ver
    OBVIOUS
  <2>1. Reboot
    BY OnlyReboot
  <2>2. mach'.ver >= mach.ver
    BY <2>1, RebootVersions
  <2>3. mach.ver \in Nat /\ mach'.ver \in Nat
    BY TypeStep, MachineUpdates, DataAssumption DEF TypeOK
  <2> QED BY <2>2, <2>3
<1> QED BY <1>1, VersionsTracked, TypeCorrect, PTL DEF Spec, VersionNeverFalls

=============================================================================
