-------------------------- MODULE TalosNodeProofs --------------------------
(***************************************************************************)
(* Proofs about TalosNode, for every value of its constants.               *)
(*                                                                         *)
(* The argument has three layers.  First the types: the lemmas of the two  *)
(* first sections say what the actions' building blocks build, so that no  *)
(* later step has to open a record.  Then the status discipline: an        *)
(* inductive invariant that says what the worker may rely on between two   *)
(* of its writes, from which the safety properties follow.  Last the reset *)
(* discipline, which carries the refinement of OneShot.                    *)
(***************************************************************************)
EXTENDS TalosNode, TLAPS

-----------------------------------------------------------------------------
(* Types of the records the actions build                                  *)

\* The parts of a node have their types.
LEMMA NodeFields ==
    ASSUME NEW n \in Node
    PROVE  /\ n.gen \in Nat
           /\ n.fin \in BOOLEAN
           /\ n.spec \in NodeSpec
           /\ n.ann \in Annotations
           /\ n.status \in Status
  BY DEF Node

\* The writes to a node build nodes: finalizer, status, annotations, and an edit
\* of the spec that bumps the generation.
LEMMA NodeUpdates ==
    ASSUME NEW n \in Node
    PROVE  /\ [n EXCEPT !.fin = TRUE] \in Node
           /\ \A s \in Status : [n EXCEPT !.status = s] \in Node
           /\ \A a \in Annotations : [n EXCEPT !.ann = a] \in Node
           /\ \A s \in NodeSpec : [n EXCEPT !.spec = s, !.gen = @ + 1] \in Node
<1>1. [n EXCEPT !.fin = TRUE] \in Node
  BY DEF Node
<1>2. ASSUME NEW s \in Status PROVE [n EXCEPT !.status = s] \in Node
  BY DEF Node
<1>3. ASSUME NEW a \in Annotations PROVE [n EXCEPT !.ann = a] \in Node
  BY DEF Node
<1>4. ASSUME NEW s \in NodeSpec PROVE [n EXCEPT !.spec = s, !.gen = @ + 1] \in Node
  <2>1. n.gen + 1 \in Nat
    BY NodeFields
  <2> QED
    BY <2>1 DEF Node
<1> QED
  BY <1>1, <1>2, <1>3, <1>4

\* The annotations have their types, and keep them under every patch.
LEMMA AnnotationUpdates ==
    ASSUME NEW a \in Annotations
    PROVE  /\ a.reset \in Nat
           /\ a.lastReset \in Nat
           /\ a.upgrade \in Images \cup {None}
           /\ a.lastUpgrade \in Images \cup {None}
           /\ \A e \in Exts : [a EXCEPT !.lastExt = e] \in Annotations
           /\ \A i \in Images \cup {None} :
                /\ [a EXCEPT !.lastUpgrade = i] \in Annotations
                /\ [a EXCEPT !.upgrade = i] \in Annotations
           /\ \A k \in Nat :
                /\ [a EXCEPT !.lastReset = k] \in Annotations
                /\ [a EXCEPT !.reset = k] \in Annotations
  BY DEF Annotations

\* Every status that the handlers write is a status.
LEMMA StatusUpdates ==
    ASSUME NEW s \in Status
    PROVE  /\ \A p \in Phases : [s EXCEPT !.phase = p] \in Status
           /\ [s EXCEPT !.phase = "Pending", !.applied = FALSE] \in Status
           /\ [s EXCEPT !.phase = "Ready", !.applied = TRUE] \in Status
           /\ \A g \in Nat : [s EXCEPT !.phase = "Applying", !.obsGen = g] \in Status
           /\ \A v \in Versions, e \in Exts \cup {None} :
                [s EXCEPT !.phase = "Ready", !.curVer = v, !.instExt = e] \in Status
           /\ s.instExt \in Exts \cup {None}
           /\ s.phase \in Phases
  BY DEF Status, Phases

\* What Upgrade, ApplyConfig, Reset and a reboot make of a machine is a machine.
LEMMA MachineUpdates ==
    ASSUME NEW m \in Machine
    PROVE  /\ m.ver \in Versions
           /\ m.pending \in Images \cup {None}
           /\ \A i \in Images \cup {None} : [m EXCEPT !.pending = i] \in Machine
           /\ \A c \in Cfgs : [m EXCEPT !.cfg = c] \in Machine
           /\ \A c \in Cfgs : [m EXCEPT !.mode = "running", !.cfg = c] \in Machine
           /\ [m EXCEPT !.mode = "maintenance", !.cfg = None, !.pending = None] \in Machine
           /\ \A v \in Versions, e \in Exts :
                [m EXCEPT !.ver = v, !.ext = e, !.pending = None] \in Machine
  BY DEF Machine

\* The parts of a spec have their types, and computeDesiredImage builds an image.
LEMMA SpecFields ==
    ASSUME NEW s \in NodeSpec
    PROVE  /\ s.cfg \in Cfgs
           /\ s.ext \in Exts
           /\ s.drift \in BOOLEAN
           /\ [ext |-> s.ext, tag |-> s.ver] \in Images
  BY DEF NodeSpec, Images, Tags

\* The counters of users, failures and crashes stay natural numbers.
LEMMA SpentUpdates ==
    ASSUME NEW s \in Spent
    PROVE  /\ [s EXCEPT !.faults = @ + 1] \in Spent
           /\ [s EXCEPT !.edits = @ + 1] \in Spent
           /\ [s EXCEPT !.crashes = @ + 1] \in Spent
  BY DEF Spent

-----------------------------------------------------------------------------
(* Types after the building blocks of the actions                          *)

\* A failure outside the controller only counts itself.
LEMMA FaultType == TypeOK /\ Fault => spent' \in Spent
  BY SpentUpdates DEF TypeOK, Fault

\* A reconcile that ends leaves the worker without a copy.
LEMMA DoneType ==
    ASSUME TypeOK, NEW b \in BOOLEAN, Done(b)
    PROVE  /\ pc' = "idle" /\ obj' = None /\ img' = None
           /\ fresh' \in BOOLEAN /\ queued' \in BOOLEAN
  BY DEF TypeOK, Done

\* Status().Update keeps the types of the resource and of the cache.
LEMMA PutStatusType ==
    ASSUME TypeOK, NEW s \in Status, PutStatus(s)
    PROVE  /\ node' \in Node /\ cache' \in Node
           /\ lag' \in {"none", "quiet", "loud"}
  BY NodeUpdates DEF TypeOK, PutStatus

\* A write that is refused, or whose answer is lost, keeps them as well.
LEMMA PutFailsType ==
    ASSUME TypeOK, NEW s \in Status, PutFails(s)
    PROVE  /\ node' \in Node /\ cache' \in Node
           /\ lag' \in {"none", "quiet", "loud"}
           /\ spent' \in Spent
  BY FaultType, PutStatusType DEF TypeOK, PutFails

\* A failure that setError is told of leaves the worker with a copy.
LEMMA FailType ==
    ASSUME TypeOK, NEW o \in Node, Fail(o)
    PROVE  /\ obj' \in Node /\ pc' = "setError" /\ fresh' \in BOOLEAN
           /\ UNCHANGED <<img, queued>>
  BY DEF TypeOK, Fail, KeepCopy

\* patchAnnotations keeps the types of the resource and of the cache.
LEMMA PatchType ==
    ASSUME TypeOK, NEW a \in Annotations, PatchAnnotations(a)
    PROVE  /\ node' \in Node /\ cache' \in Node
           /\ lag' \in {"none", "quiet", "loud"}
  BY NodeUpdates DEF TypeOK, PatchAnnotations

\* So does one whose answer is lost.
LEMMA PatchFailsType ==
    ASSUME TypeOK, NEW a \in Annotations, PatchFails(a)
    PROVE  /\ node' \in Node /\ cache' \in Node
           /\ lag' \in {"none", "quiet", "loud"}
           /\ spent' \in Spent
  BY FaultType, PatchType DEF TypeOK, PatchFails

\* Within a reconcile the worker holds a node.
LEMMA ObjType == TypeOK /\ pc # "idle" => obj \in Node
  BY DEF TypeOK

\* Recording last-upgrade, or failing to, keeps the types.
LEMMA ConsumeType ==
    ASSUME TypeOK, ConsumeUpgrade \/ LoseConsume
    PROVE  /\ node' \in Node /\ cache' \in Node
           /\ lag' \in {"none", "quiet", "loud"}
  <1>1. [node.ann EXCEPT !.lastUpgrade = img] \in Annotations
    BY AnnotationUpdates, NodeFields DEF TypeOK
  <1> QED
    BY <1>1, PatchType, PatchFailsType DEF ConsumeUpgrade, LoseConsume

-----------------------------------------------------------------------------

\* checkUpgradeComplete, reconcileVersion and handleUpgrade preserve the types.
LEMMA UpgradeType == TypeOK /\ Upgrade => TypeOK'
<1> SUFFICES ASSUME TypeOK, Upgrade PROVE TypeOK'
  OBVIOUS
<1> USE DEF PCs
<1>1. CASE PollUpgrade
  BY <1>1, FaultType, DoneType DEF PollUpgrade, TypeOK
<1>2. CASE CompleteUpgrade \/ CompleteUpgradeFails
  <2>1. obj \in Node
    BY <1>2, ObjType DEF CompleteUpgrade, CompleteUpgradeFails, Polling, Dispatching
  <2>2. Completed \in Status
    BY <2>1, NodeFields, StatusUpdates, MachineUpdates, SpecFields DEF TypeOK, Completed
  <2>3. obj.spec.drift \in BOOLEAN
    BY <2>1, NodeFields, SpecFields
  <2>4. CASE CompleteUpgrade
    BY <2>2, <2>3, <2>4, PutStatusType, DoneType DEF CompleteUpgrade, TypeOK, world
  <2>5. CASE CompleteUpgradeFails
    BY <2>2, <2>5, PutFailsType, DoneType DEF CompleteUpgradeFails, TypeOK
  <2> QED
    BY <1>2, <2>4, <2>5
<1>4. CASE AnnotationUpgrade
  <2>1. obj.ann.upgrade \in Images \cup {None}
    BY <1>4, ObjType, NodeFields, AnnotationUpdates
    DEF AnnotationUpgrade, Unclaimed, Dispatching
  <2> QED
    BY <1>4, <2>1 DEF AnnotationUpgrade, Unclaimed, Dispatching, StartUpgrade, TypeOK, api, world
<1>5. CASE SpecUpgrade
  <2>1. DesiredImage(obj) \in Images
    BY <1>5, ObjType, NodeFields, SpecFields
    DEF SpecUpgrade, Versioning, Unclaimed, Dispatching, DesiredImage
  <2> QED
    BY <1>5, <2>1 DEF SpecUpgrade, Versioning, Unclaimed, Dispatching, StartUpgrade, TypeOK, api, world
<1>6. CASE RecordSchematic \/ SchematicFails
  <2>1. DesiredImage(obj) \in Images /\ obj.spec.ext \in Exts
    BY <1>6, ObjType, NodeFields, SpecFields
    DEF RecordSchematic, SchematicFails, Versioning, Unclaimed, Dispatching, DesiredImage
  <2>2. SchematicKnown \in Annotations
    BY <2>1, NodeFields, AnnotationUpdates DEF TypeOK, SchematicKnown
  <2>3. CASE RecordSchematic
    <3>1. node' \in Node /\ cache' \in Node /\ lag' \in {"none", "quiet", "loud"}
      BY <2>2, <2>3, PatchType DEF RecordSchematic
    <3> QED
      BY <2>1, <2>3, <3>1 DEF RecordSchematic, Refresh, TypeOK, world
  <2>4. CASE SchematicFails
    BY <2>2, <2>4, PatchFailsType, DoneType DEF SchematicFails, TypeOK
  <2> QED
    BY <1>6, <2>3, <2>4
<1>8. CASE RejectUntagged
  BY <1>8, DoneType DEF RejectUntagged, TypeOK, world
<1>9. CASE BlockDowngrade
  <2>1. spent' \in Spent
    BY <1>9, FaultType DEF BlockDowngrade, LoseConsume, PatchFails, TypeOK
  <2> QED
    BY <1>9, <2>1, ConsumeType, DoneType DEF BlockDowngrade, TypeOK
<1>10. CASE UpgradeUnreachable
  BY <1>10, FaultType, DoneType DEF UpgradeUnreachable, TypeOK
<1>11. CASE SkipContainer
  BY <1>11, DoneType DEF SkipContainer, TypeOK, world
<1>12. CASE MarkUpgrading \/ MarkUpgradingFails
  <2>1. Upgrading \in Status
    BY <1>12, ObjType, NodeFields, StatusUpdates
    DEF MarkUpgrading, MarkUpgradingFails, Permitted, Upgrading, Phases
  <2>2. CASE MarkUpgrading
    BY <2>1, <2>2, PutStatusType DEF MarkUpgrading, Refresh, TypeOK, world
  <2>3. CASE MarkUpgradingFails
    BY <2>1, <2>3, PutFailsType, DoneType DEF MarkUpgradingFails, TypeOK
  <2> QED
    BY <1>12, <2>2, <2>3
<1>14. CASE SendUpgrade
  <2>1. mach' \in Machine
    BY <1>14, MachineUpdates DEF SendUpgrade, TypeOK
  <2> QED
    BY <1>14, <2>1 DEF SendUpgrade, TypeOK, api
<1>15. CASE SendUpgradeFails
  <2>1. mach' \in Machine /\ spent' \in Spent
    BY <1>15, MachineUpdates, FaultType DEF SendUpgradeFails, TypeOK
  <2> QED
    BY <1>15, <2>1 DEF SendUpgradeFails, TypeOK, api
<1>16. CASE RecordUpgrade
  <2>1. spent' \in Spent
    BY <1>16, FaultType DEF RecordUpgrade, LoseConsume, PatchFails, TypeOK
  <2> QED
    BY <1>16, <2>1, ConsumeType, DoneType DEF RecordUpgrade, TypeOK
<1>17. CASE RecordFailedUpgrade
  <2>1. spent' \in Spent
    BY <1>17, FaultType DEF RecordFailedUpgrade, LoseConsume, PatchFails, TypeOK
  <2>2. node' \in Node /\ cache' \in Node /\ lag' \in {"none", "quiet", "loud"}
    BY <1>17, ConsumeType DEF RecordFailedUpgrade
  <2>3. /\ pc' = "upgradeError" /\ obj' \in Node /\ fresh' \in BOOLEAN
        /\ UNCHANGED queued
    BY <1>17, <2>2, ObjType DEF RecordFailedUpgrade, Refresh, KeepCopy, TypeOK
  <2> QED
    BY <1>17, <2>1, <2>2, <2>3 DEF RecordFailedUpgrade, TypeOK
<1>18. CASE SaveUpgradeError
  <2>1. InError \in Status
    BY <1>18, ObjType, NodeFields, StatusUpdates DEF SaveUpgradeError, InError, Phases
  <2>2. node' \in Node /\ cache' \in Node /\ lag' \in {"none", "quiet", "loud"}
        /\ spent' \in Spent
    BY <1>18, <2>1, PutStatusType, PutFailsType DEF SaveUpgradeError, TypeOK
  <2> QED
    BY <1>18, <2>2, DoneType DEF SaveUpgradeError, TypeOK
<1> QED
  BY <1>1, <1>2, <1>4, <1>5, <1>6, <1>8, <1>9, <1>10, <1>11, <1>12,
     <1>14, <1>15, <1>16, <1>17, <1>18 DEF Upgrade

\* handleStandaloneReset preserves the types.
LEMMA ResetType == TypeOK /\ Reset => TypeOK'
<1> SUFFICES ASSUME TypeOK, Reset PROVE TypeOK'
  OBVIOUS
<1> USE DEF PCs
<1>1. ASSUME RecordReset \/ RecordResetFails PROVE Recorded \in Annotations
  <2>1. obj.ann.reset \in Nat
    BY <1>1, ObjType, NodeFields, AnnotationUpdates
    DEF RecordReset, RecordResetFails, Settling, Unclaimed, Dispatching
  <2> QED
    BY <2>1, NodeFields, AnnotationUpdates DEF TypeOK, Recorded
<1>2. CASE RecordReset \/ RecordResetFails
  <2>1. CASE RecordReset
    <3>1. node' \in Node /\ cache' \in Node /\ lag' \in {"none", "quiet", "loud"}
      BY <1>1, <2>1, PatchType DEF RecordReset
    <3> QED
      BY <2>1, <3>1 DEF RecordReset, Refresh, TypeOK, world
  <2>2. CASE RecordResetFails
    BY <1>1, <2>2, PatchFailsType, DoneType DEF RecordResetFails, TypeOK
  <2> QED
    BY <1>2, <2>1, <2>2
<1>3. ASSUME pc = "resetSend"
      PROVE  Wiped \in Machine /\ Append(resetLog, obj.ann.lastReset) \in Seq(Nat)
  <2>1. Wiped \in Machine
    BY MachineUpdates DEF TypeOK, Wiped
  <2>2. obj.ann.lastReset \in Nat
    BY <1>3, ObjType, NodeFields, AnnotationUpdates
  <2>3. resetLog \in Seq(Nat)
    BY DEF TypeOK
  <2> QED
    BY <2>1, <2>2, <2>3
<1>4. CASE SendReset
  BY <1>3, <1>4 DEF SendReset, TypeOK, api
<1>5. CASE SendResetFails
  <2>1. mach' \in Machine /\ resetLog' \in Seq(Nat) /\ spent' \in Spent
    BY <1>3, <1>5, FaultType DEF SendResetFails, TypeOK
  <2> QED
    BY <1>5, <2>1, DoneType DEF SendResetFails, TypeOK
<1>6. CASE SaveReset
  <2>1. AfterReset \in Status
    BY <1>6, ObjType, NodeFields, StatusUpdates DEF SaveReset, AfterReset
  <2>2. node' \in Node /\ cache' \in Node /\ lag' \in {"none", "quiet", "loud"}
        /\ spent' \in Spent
    BY <1>6, <2>1, PutStatusType, PutFailsType DEF SaveReset, TypeOK
  <2> QED
    BY <1>6, <2>2, DoneType DEF SaveReset, TypeOK
<1> QED
  BY <1>2, <1>4, <1>5, <1>6 DEF Reset

\* checkDrift, applyConfig and setError preserve the types.
LEMMA ApplyType == TypeOK /\ Apply => TypeOK'
<1> SUFFICES ASSUME TypeOK, Apply PROVE TypeOK'
  OBVIOUS
<1> USE DEF PCs
<1>1. CASE StayUpToDate
  BY <1>1, DoneType DEF StayUpToDate, TypeOK, world
<1>2. CASE DriftInSync
  BY <1>2, FaultType, DoneType DEF DriftInSync, TypeOK
<1>3. ASSUME ApplyDue PROVE obj \in Node /\ Applying \in Status
  <2>1. obj \in Node
    BY <1>3, ObjType DEF ApplyDue, Settling, Unclaimed, Dispatching
  <2> QED
    BY <2>1, NodeFields, StatusUpdates DEF Applying
<1>4. CASE BeginApply
  <2>1. node' \in Node /\ cache' \in Node /\ lag' \in {"none", "quiet", "loud"}
    BY <1>3, <1>4, PutStatusType DEF BeginApply
  <2> QED
    BY <1>4, <2>1 DEF BeginApply, Refresh, TypeOK, world
<1>5. CASE BeginApplyFails
  <2>1. WithStatus(obj, Applying) \in Node
    BY <1>3, <1>5, NodeUpdates DEF BeginApplyFails, WithStatus
  <2> QED
    BY <1>3, <1>5, <2>1, PutFailsType, FailType DEF BeginApplyFails, TypeOK
<1>6. ASSUME pc \notin {"idle"} PROVE obj \in Node /\ obj.spec.cfg \in Cfgs
  BY <1>6, ObjType, NodeFields, SpecFields
<1>7. ASSUME Pushing PROVE Configured \in Machine
  BY <1>6, <1>7, MachineUpdates DEF Pushing, Configured, TypeOK
<1>8. CASE Push
  BY <1>7, <1>8 DEF Push, Pushing, TypeOK, api
<1>9. CASE PushFails
  <2>1. mach' \in Machine /\ spent' \in Spent
    BY <1>7, <1>9, FaultType DEF PushFails, TypeOK
  <2> QED
    BY <1>6, <1>9, <2>1, FailType DEF PushFails, Pushing, TypeOK
<1>10. CASE PushTimesOut
  <2>1. mach' \in Machine /\ spent' \in Spent
    BY <1>7, <1>10, FaultType DEF PushTimesOut, TypeOK
  <2> QED
    BY <1>10, <2>1, DoneType DEF PushTimesOut, TypeOK
<1>11. CASE SaveNodeConfig
  BY <1>6, <1>11 DEF SaveNodeConfig, TypeOK, api
<1>12. CASE SaveNodeConfigFails
  BY <1>6, <1>12, FaultType, FailType DEF SaveNodeConfigFails, TypeOK
<1>13. ASSUME pc = "applied" PROVE Applied \in Status
  BY <1>6, <1>13, NodeFields, StatusUpdates DEF Applied
<1>14. CASE SaveApplied
  <2>1. obj.spec.drift \in BOOLEAN
    BY <1>6, <1>14, NodeFields, SpecFields DEF SaveApplied
  <2> QED
    BY <1>13, <1>14, <2>1, PutStatusType, DoneType DEF SaveApplied, TypeOK, world
<1>15. CASE SaveAppliedFails
  <2>1. WithStatus(obj, Applied) \in Node
    BY <1>6, <1>13, <1>15, NodeUpdates DEF SaveAppliedFails, WithStatus
  <2> QED
    BY <1>13, <1>15, <2>1, PutFailsType, FailType DEF SaveAppliedFails, TypeOK
<1>16. CASE SetError
  <2>1. InError \in Status
    BY <1>6, <1>16, NodeFields, StatusUpdates DEF SetError, InError, Phases
  <2>2. node' \in Node /\ cache' \in Node /\ lag' \in {"none", "quiet", "loud"}
        /\ spent' \in Spent
    BY <1>16, <2>1, PutStatusType, PutFailsType DEF SetError, TypeOK
  <2> QED
    BY <1>16, <2>2, DoneType DEF SetError, TypeOK
<1> QED
  BY <1>1, <1>2, <1>4, <1>5, <1>8, <1>9, <1>10, <1>11, <1>12, <1>14, <1>15, <1>16
  DEF Apply

\* Every action preserves the types.
LEMMA TypeStep == TypeOK /\ [Next]_vars => TypeOK'
<1> SUFFICES ASSUME TypeOK, [Next]_vars PROVE TypeOK'
  OBVIOUS
<1> USE DEF PCs
<1>1. CASE Get
  BY <1>1 DEF Get, TypeOK, world
<1>2. CASE AddFinalizer
  BY <1>2, NodeUpdates DEF AddFinalizer, PutFinalizer, Refresh, TypeOK, world
<1>3. CASE AddFinalizerFails
  <2>1. node' \in Node /\ cache' \in Node /\ lag' \in {"none", "quiet", "loud"}
        /\ spent' \in Spent
    BY <1>3, NodeUpdates, FaultType DEF AddFinalizerFails, PutFinalizer, TypeOK
  <2> QED
    BY <1>3, <2>1, DoneType DEF AddFinalizerFails, TypeOK
<1>4. CASE Deliver
  BY <1>4 DEF Deliver, TypeOK, worker, world
<1>5. ASSUME NEW n \in Node, UserWrites(n) PROVE TypeOK'
  BY <1>5, SpentUpdates DEF UserWrites, TypeOK
<1>6. CASE EditSpec
  <2>1. PICK s \in Specs : UserWrites([node EXCEPT !.spec = s, !.gen = @ + 1])
    BY <1>6 DEF EditSpec
  <2>2. [node EXCEPT !.spec = s, !.gen = @ + 1] \in Node
    BY NodeUpdates, EnvironmentAssumption DEF TypeOK
  <2> QED
    BY <1>5, <2>1, <2>2
<1>7. CASE RequestUpgrade
  <2>1. PICK i \in UpgradeImages : UserWrites([node EXCEPT !.ann.upgrade = i])
    BY <1>7 DEF RequestUpgrade
  <2>2. [node EXCEPT !.ann.upgrade = i] \in Node
    BY NodeFields, NodeUpdates, AnnotationUpdates, EnvironmentAssumption DEF TypeOK
  <2> QED
    BY <1>5, <2>1, <2>2
<1>8. CASE RequestReset
  <2>1. [node EXCEPT !.ann.reset = @ + 1] \in Node
    <3>1. node \in Node /\ node.ann \in Annotations
      BY NodeFields DEF TypeOK
    <3>2. [node.ann EXCEPT !.reset = @ + 1] \in Annotations
      BY <3>1 DEF Annotations
    <3> QED
      BY <3>1, <3>2, NodeUpdates
  <2> QED
    BY <1>5, <1>8, <2>1 DEF RequestReset
<1>9. CASE Reboot
  <2>1. PICK v \in Versions :
          mach' = [mach EXCEPT !.ver = v, !.ext = mach.pending.ext, !.pending = None]
    BY <1>9 DEF Reboot
  <2>2. mach.pending.ext \in Exts
    BY <1>9, MachineUpdates DEF Reboot, TypeOK, Images
  <2>3. mach' \in Machine
    BY <2>1, <2>2, MachineUpdates DEF TypeOK
  <2> QED
    BY <1>9, <2>3 DEF Reboot, TypeOK, api, worker
<1>10. CASE ExternalDrift
  <2>1. mach' \in Machine /\ spent' \in Spent
    BY <1>10, MachineUpdates, FaultType DEF ExternalDrift, TypeOK
  <2> QED
    BY <1>10, <2>1 DEF ExternalDrift, TypeOK, api, worker
<1>11. CASE Crash
  BY <1>11, SpentUpdates, DoneType DEF Crash, TypeOK
<1>12. CASE UNCHANGED vars
  BY <1>12 DEF TypeOK, vars
<1> QED
  BY <1>1, <1>2, <1>3, <1>4, <1>6, <1>7, <1>8, <1>9, <1>10, <1>11, <1>12,
     UpgradeType, ResetType, ApplyType DEF Next, Reconcile, User

\* The types hold initially.
LEMMA TypeInit == Init => TypeOK
<1> SUFFICES ASSUME Init PROVE TypeOK
  OBVIOUS
<1>1. PICK s \in Specs :
         node = [gen |-> 1, fin |-> FALSE, spec |-> s,
                 ann |-> [upgrade |-> None, lastUpgrade |-> None, reset |-> 0,
                          lastReset |-> 0, lastExt |-> None],
                 status |-> [phase |-> "", obsGen |-> 0, applied |-> FALSE,
                             curVer |-> NoTag, instExt |-> None]]
  BY DEF Init
<1>2. node.ann \in Annotations /\ node.status \in Status /\ node.spec \in NodeSpec
  BY <1>1, EnvironmentAssumption DEF Annotations, Status, Phases
<1>3. node \in Node
  BY <1>1, <1>2 DEF Node
<1>4. mach \in Machine /\ spent \in Spent
  BY EnvironmentAssumption DEF Init, Spent
<1> QED
  <2>1. resetLog \in Seq(Nat)
    <3>1. resetLog = <<>>
      BY DEF Init
    <3> QED
      BY <3>1
  <2>2. fresh \in BOOLEAN /\ queued \in BOOLEAN /\ img \in Images \cup {None}
    BY DEF Init
  <2>3. pc \in PCs /\ IF pc = "idle" THEN obj = None ELSE obj \in Node
    BY DEF Init, PCs
  <2>4. cache \in Node /\ lag \in {"none", "quiet", "loud"} /\ saved \in Cfgs \cup {None}
    BY <1>3 DEF Init
  <2> QED
    BY <1>3, <1>4, <2>1, <2>2, <2>3, <2>4 DEF TypeOK

\* Every variable keeps its type.
THEOREM TypeCorrect == Spec => []TypeOK
  BY TypeInit, TypeStep, PTL DEF Spec

-----------------------------------------------------------------------------
(* What the writes do to the fields of the node                            *)

\* Reading back a written node.
LEMMA NodeAccess ==
    ASSUME NEW n \in Node, NEW v, NEW g
    PROVE  /\ LET m == [n EXCEPT !.status = v]
              IN  m.status = v /\ m.gen = n.gen /\ m.fin = n.fin
                  /\ m.spec = n.spec /\ m.ann = n.ann
           /\ LET m == [n EXCEPT !.ann = v]
              IN  m.status = n.status /\ m.gen = n.gen /\ m.fin = n.fin
                  /\ m.spec = n.spec /\ m.ann = v
           /\ LET m == [n EXCEPT !.fin = TRUE]
              IN  m.status = n.status /\ m.gen = n.gen
                  /\ m.spec = n.spec /\ m.ann = n.ann
           /\ LET m == [n EXCEPT !.spec = v, !.gen = g]
              IN  m.status = n.status /\ m.ann = n.ann
  BY DEF Node

\* Reading back a written status.
LEMMA StatusAccess ==
    ASSUME NEW s \in Status, NEW v, NEW w
    PROVE  /\ LET t == [s EXCEPT !.phase = v]
              IN  t.phase = v /\ t.applied = s.applied /\ t.curVer = s.curVer
                  /\ t.obsGen = s.obsGen
           /\ LET t == [s EXCEPT !.phase = "Applying", !.obsGen = v]
              IN  t.applied = s.applied /\ t.obsGen = v
           /\ LET t == [s EXCEPT !.phase = "Pending", !.applied = FALSE]
              IN  ~t.applied
           /\ LET t == [s EXCEPT !.phase = "Ready", !.applied = TRUE]
              IN  t.applied /\ t.obsGen = s.obsGen
           /\ LET t == [s EXCEPT !.phase = "Ready", !.curVer = v, !.instExt = w]
              IN  t.applied = s.applied
  BY DEF Status

\* Status().Update succeeds only on a current copy, replaces the status and
\* nothing else, and leaves the cache behind.
LEMMA PutStatusEffect ==
    ASSUME TypeOK, NEW s, PutStatus(s)
    PROVE  /\ fresh = TRUE
           /\ node'.status = s /\ node'.gen = node.gen
           /\ node'.spec = node.spec /\ node'.ann = node.ann
           /\ cache' = cache /\ lag' # "none"
  BY NodeAccess DEF TypeOK, PutStatus

\* patchAnnotations replaces the annotations and nothing else, and leaves the
\* cache behind unless it changed nothing.
LEMMA PatchEffect ==
    ASSUME TypeOK, NEW a, PatchAnnotations(a)
    PROVE  /\ node'.status = node.status /\ node'.gen = node.gen
           /\ node'.spec = node.spec /\ node'.ann = a
           /\ cache' = cache
           /\ lag' = "none" => lag = "none" /\ node' = node
  BY NodeAccess DEF TypeOK, PatchAnnotations

-----------------------------------------------------------------------------
(* The status discipline                                                   *)

\* A reconcile ends without a write.
LEMMA EndQuietly ==
    ASSUME StatusDiscipline, pc' = "idle", UNCHANGED <<node, cache, lag, saved>>
    PROVE  StatusDiscipline'
  BY DEF StatusDiscipline, CacheSync, CopySync, StatusOwned, SavedFirst, Committed, Owning

\* A reconcile ends with a status write.
LEMMA EndWithStatus ==
    ASSUME TypeOK, StatusDiscipline, pc' = "idle", UNCHANGED saved,
           NEW s, PutStatus(s), s.applied => saved # None
    PROVE  StatusDiscipline'
  BY PutStatusEffect
  DEF StatusDiscipline, CacheSync, CopySync, StatusOwned, SavedFirst, Committed, Owning

\* A reconcile ends with a patch of the annotations.
LEMMA EndWithPatch ==
    ASSUME TypeOK, StatusDiscipline, pc' = "idle", UNCHANGED saved,
           NEW a, PatchAnnotations(a)
    PROVE  StatusDiscipline'
  BY PatchEffect
  DEF StatusDiscipline, CacheSync, CopySync, StatusOwned, SavedFirst, Committed, Owning

\* A reconcile ends with a status write that is refused, or whose answer is lost.
LEMMA EndWithoutStatus ==
    ASSUME TypeOK, StatusDiscipline, pc' = "idle", UNCHANGED saved,
           NEW s, PutFails(s), s.applied => saved # None
    PROVE  StatusDiscipline'
  BY EndQuietly, EndWithStatus DEF PutFails

\* A reconcile ends with a patch that does not arrive, or whose answer is lost.
LEMMA EndWithoutPatch ==
    ASSUME TypeOK, StatusDiscipline, pc' = "idle", UNCHANGED saved,
           NEW a, PatchFails(a)
    PROVE  StatusDiscipline'
  BY EndQuietly, EndWithPatch DEF PatchFails

\* The worker goes on with a copy refreshed by a patch.
LEMMA GoOnAfterPatch ==
    ASSUME TypeOK, StatusDiscipline, UNCHANGED saved,
           NEW a, PatchAnnotations(a), NEW p, Refresh(p),
           p \in {"upgrade", "settle", "upgradeError", "resetSend"}
    PROVE  StatusDiscipline'
  BY PatchEffect
  DEF Refresh, StatusDiscipline, CacheSync, CopySync, StatusOwned, SavedFirst, Committed, Owning

\* The upgrade handlers preserve the status discipline: handleUpgrade announces
\* the upgrade before it sends it.
LEMMA UpgradeDiscipline ==
    ASSUME TypeOK, StatusDiscipline, Upgrade
    PROVE  StatusDiscipline'
<1>1. CASE PollUpgrade
  BY <1>1, EndQuietly DEF PollUpgrade, Done
<1>2. CASE CompleteUpgrade \/ CompleteUpgradeFails
  <2>1. obj \in Node /\ (obj.status.applied => saved # None)
    BY <1>2, ObjType DEF CompleteUpgrade, CompleteUpgradeFails, Polling, Dispatching,
                         StatusDiscipline, SavedFirst
  <2>2. Completed.applied = obj.status.applied
    BY <2>1, NodeFields, StatusAccess DEF Completed
  <2>3. /\ PutStatus(Completed) \/ PutFails(Completed)
        /\ pc' = "idle" /\ UNCHANGED saved
    BY <1>2 DEF CompleteUpgrade, CompleteUpgradeFails, Done, world
  <2> QED
    BY <2>1, <2>2, <2>3, EndWithStatus, EndWithoutStatus
<1>4. CASE AnnotationUpgrade
  BY <1>4 DEF AnnotationUpgrade, StartUpgrade, Unclaimed, Dispatching, api, world,
     StatusDiscipline, CacheSync, CopySync, StatusOwned, SavedFirst, Committed, Owning
<1>5. CASE SpecUpgrade
  BY <1>5 DEF SpecUpgrade, StartUpgrade, Versioning, Unclaimed, Dispatching, api, world,
     StatusDiscipline, CacheSync, CopySync, StatusOwned, SavedFirst, Committed, Owning
<1>6. CASE RecordSchematic
  <2>1. UNCHANGED saved
    BY <1>6 DEF RecordSchematic, world
  <2>2. PatchAnnotations(SchematicKnown)
        /\ (Refresh("upgrade") \/ Refresh("settle"))
    BY <1>6 DEF RecordSchematic
  <2> QED
    BY <2>1, <2>2, GoOnAfterPatch
<1>7. CASE SchematicFails
  BY <1>7, EndWithoutPatch DEF SchematicFails, Done
<1>8. CASE RejectUntagged
  BY <1>8, EndQuietly DEF RejectUntagged, Done, world
<1>9. CASE BlockDowngrade
  <2>1. pc' = "idle" /\ UNCHANGED saved
    BY <1>9 DEF BlockDowngrade, Done
  <2>2. CASE ConsumeUpgrade
    BY <2>1, <2>2, EndWithPatch DEF ConsumeUpgrade
  <2>3. CASE LoseConsume
    BY <2>1, <2>3, EndWithoutPatch DEF LoseConsume
  <2> QED
    BY <1>9, <2>2, <2>3 DEF BlockDowngrade
<1>10. CASE UpgradeUnreachable
  BY <1>10, EndQuietly DEF UpgradeUnreachable, Done
<1>11. CASE SkipContainer
  BY <1>11, EndQuietly DEF SkipContainer, Done, world
<1>12. CASE MarkUpgrading
  <2>1. obj \in Node
    BY <1>12, ObjType DEF MarkUpgrading, Permitted
  <2>2. fresh = TRUE /\ node'.status = Upgrading /\ node'.gen = node.gen
        /\ node'.spec = node.spec /\ node'.ann = node.ann
        /\ cache' = cache /\ lag' # "none"
    BY <1>12, PutStatusEffect DEF MarkUpgrading
  <2>3. Upgrading.phase = "Upgrading" /\ Upgrading.applied = obj.status.applied
        /\ Upgrading.curVer = obj.status.curVer
    BY <2>1, NodeFields, StatusAccess DEF Upgrading
  <2>4. pc = "upgrade" /\ ~IsDowngrade(obj.status.curVer, TagOf(img))
        /\ obj' = node' /\ pc' = "upgradeSend" /\ img' = img /\ saved' = saved
    BY <1>12 DEF MarkUpgrading, Permitted, Refresh, world
  <2>5. TagOf(img)' = TagOf(img)
    BY <2>4 DEF TagOf
  <2>6. Committed'
    <3>1. ~IsDowngrade(obj'.status.curVer, TagOf(img)')
      BY <2>2, <2>3, <2>4, <2>5
    <3>2. obj'.status.phase = "Upgrading"
      BY <2>2, <2>3, <2>4
    <3> QED
      BY <2>4, <3>1, <3>2 DEF Committed, IsDowngrade, TagOf
  <2>7. CacheSync' /\ CopySync' /\ StatusOwned' /\ SavedFirst'
    BY <2>2, <2>3, <2>4
    DEF StatusDiscipline, CacheSync, CopySync, StatusOwned, SavedFirst, Owning
  <2> QED
    BY <2>6, <2>7 DEF StatusDiscipline
<1>13. CASE MarkUpgradingFails
  <2>1. obj \in Node /\ (obj.status.applied => saved # None)
    BY <1>13, ObjType DEF MarkUpgradingFails, Permitted, StatusDiscipline, SavedFirst
  <2>2. Upgrading.applied = obj.status.applied
    BY <2>1, NodeFields, StatusAccess DEF Upgrading
  <2> QED
    BY <1>13, <2>1, <2>2, EndWithoutStatus DEF MarkUpgradingFails, Done
<1>14. CASE SendUpgrade
  BY <1>14 DEF SendUpgrade, api,
     StatusDiscipline, CacheSync, CopySync, StatusOwned, SavedFirst, Committed, Owning
<1>15. CASE SendUpgradeFails
  BY <1>15 DEF SendUpgradeFails, api,
     StatusDiscipline, CacheSync, CopySync, StatusOwned, SavedFirst, Committed, Owning
<1>16. CASE RecordUpgrade
  <2>1. pc' = "idle" /\ UNCHANGED saved
    BY <1>16 DEF RecordUpgrade, Done
  <2>2. CASE ConsumeUpgrade
    BY <2>1, <2>2, EndWithPatch DEF ConsumeUpgrade
  <2>3. CASE LoseConsume
    BY <2>1, <2>3, EndWithoutPatch DEF LoseConsume
  <2> QED
    BY <1>16, <2>2, <2>3 DEF RecordUpgrade
<1>17. CASE RecordFailedUpgrade
  <2>1. CASE ConsumeUpgrade /\ Refresh("upgradeError")
    BY <1>17, <2>1, GoOnAfterPatch DEF RecordFailedUpgrade, ConsumeUpgrade
  <2>2. CASE LoseConsume /\ pc' = "upgradeError" /\ KeepCopy /\ UNCHANGED <<obj, queued>>
    <3>1. /\ node'.status = node.status /\ cache' = cache
          /\ lag' = "none" => lag = "none" /\ node' = node
      BY <2>2, PatchEffect DEF LoseConsume, PatchFails
    <3>2. fresh' => fresh /\ node' = node
      BY <2>2 DEF KeepCopy
    <3> QED
      BY <1>17, <2>2, <3>1, <3>2 DEF RecordFailedUpgrade,
         StatusDiscipline, CacheSync, CopySync, StatusOwned, SavedFirst, Committed, Owning
  <2> QED
    BY <1>17, <2>1, <2>2 DEF RecordFailedUpgrade
<1>18. CASE SaveUpgradeError
  <2>1. obj \in Node /\ (obj.status.applied => saved # None)
    BY <1>18, ObjType DEF SaveUpgradeError, StatusDiscipline, SavedFirst
  <2>2. InError.applied = obj.status.applied
    BY <2>1, NodeFields, StatusAccess DEF InError
  <2>3. pc' = "idle" /\ UNCHANGED saved
    BY <1>18 DEF SaveUpgradeError, Done
  <2>4. CASE PutStatus(InError)
    BY <2>1, <2>2, <2>3, <2>4, EndWithStatus
  <2>5. CASE PutFails(InError)
    BY <2>1, <2>2, <2>3, <2>5, EndWithoutStatus
  <2> QED
    BY <1>18, <2>4, <2>5 DEF SaveUpgradeError
<1> QED
  BY <1>1, <1>2, <1>4, <1>5, <1>6, <1>7, <1>8, <1>9, <1>10, <1>11, <1>12,
     <1>13, <1>14, <1>15, <1>16, <1>17, <1>18 DEF Upgrade

\* handleStandaloneReset preserves the status discipline.
LEMMA ResetActionsDiscipline ==
    ASSUME TypeOK, StatusDiscipline, Reset
    PROVE  StatusDiscipline'
<1>1. CASE RecordReset
  BY <1>1, GoOnAfterPatch DEF RecordReset, world
<1>2. CASE RecordResetFails
  BY <1>2, EndWithoutPatch DEF RecordResetFails, Done
<1>3. CASE SendReset
  BY <1>3 DEF SendReset, api,
     StatusDiscipline, CacheSync, CopySync, StatusOwned, SavedFirst, Committed, Owning
<1>4. CASE SendResetFails
  BY <1>4, EndQuietly DEF SendResetFails, Done
<1>5. CASE SaveReset
  <2>1. ~AfterReset.applied
    BY <1>5, ObjType, NodeFields, StatusAccess DEF SaveReset, AfterReset
  <2>2. pc' = "idle" /\ UNCHANGED saved
    BY <1>5 DEF SaveReset, Done
  <2>3. PutStatus(AfterReset) \/ PutFails(AfterReset)
    BY <1>5 DEF SaveReset
  <2> QED
    BY <2>1, <2>2, <2>3, EndWithStatus, EndWithoutStatus
<1> QED
  BY <1>1, <1>2, <1>3, <1>4, <1>5 DEF Reset

\* A step of applyConfig failed before anything was written.
LEMMA FailQuietly ==
    ASSUME StatusDiscipline, NEW o, Fail(o), UNCHANGED <<node, cache, lag, saved>>,
           o.gen = obj.gen, o.spec = obj.spec, o.ann = obj.ann,
           pc # "idle", o.status.applied => saved # None
    PROVE  StatusDiscipline'
  BY DEF Fail, KeepCopy, StatusDiscipline, CacheSync, CopySync, StatusOwned, SavedFirst,
         Committed, Owning

\* Nor was it, or its answer got lost, when a status write fails.
LEMMA FailAfterWrite ==
    ASSUME TypeOK, StatusDiscipline, NEW s, PutFails(s), Fail(WithStatus(obj, s)),
           UNCHANGED saved, pc # "idle", s.applied => saved # None
    PROVE  StatusDiscipline'
<1> DEFINE o == WithStatus(obj, s)
<1>1. /\ o.gen = obj.gen /\ o.spec = obj.spec /\ o.ann = obj.ann
      /\ o.status = s
  BY ObjType, NodeAccess DEF WithStatus
<1>2. Fail(o)
  OBVIOUS
<1> HIDE DEF o
<1>3. CASE UNCHANGED <<node, cache, lag>>
  BY <1>1, <1>2, <1>3, FailQuietly
<1>4. CASE PutStatus(s)
  <2>1. /\ node'.status = s /\ cache' = cache /\ lag' # "none" /\ fresh = TRUE
        /\ node'.gen = node.gen /\ node'.spec = node.spec /\ node'.ann = node.ann
    BY <1>4, PutStatusEffect
  <2>2. CopySync'
    BY <1>1, <1>2, <2>1 DEF StatusDiscipline, CopySync, Fail
  <2> QED
    BY <1>1, <1>2, <2>1, <2>2
    DEF Fail, StatusDiscipline, CacheSync, StatusOwned, SavedFirst, Committed, Owning
<1> QED
  BY <1>3, <1>4 DEF PutFails

\* applyConfig preserves the status discipline: it saves the configuration before
\* it claims ConfigApplied.
LEMMA ApplyDiscipline ==
    ASSUME TypeOK, StatusDiscipline, Apply
    PROVE  StatusDiscipline'
<1>1. CASE StayUpToDate
  BY <1>1, EndQuietly DEF StayUpToDate, Done, world
<1>2. CASE DriftInSync
  BY <1>2, EndQuietly DEF DriftInSync, Done
<1>3. ASSUME pc # "idle"
      PROVE  obj \in Node /\ (obj.status.applied => saved # None)
  BY <1>3, ObjType DEF StatusDiscipline, SavedFirst
<1>4. ASSUME ApplyDue
      PROVE  /\ pc # "idle" /\ pc \notin Owning
             /\ Applying.applied = obj.status.applied
             /\ Applying.obsGen = obj.gen
  <2>1. pc \in {"settle", "start"}
    BY <1>4 DEF ApplyDue, Settling, Unclaimed, Dispatching
  <2> QED
    BY <1>3, <2>1, NodeFields, StatusAccess DEF Applying, Owning
<1>5. CASE BeginApply
  <2>1. fresh = TRUE /\ node'.status = Applying /\ node'.gen = node.gen
        /\ node'.spec = node.spec /\ node'.ann = node.ann
        /\ cache' = cache /\ lag' # "none"
    BY <1>5, PutStatusEffect DEF BeginApply
  <2>2. obj' = node' /\ saved' = saved
        /\ pc' = (IF obj.status.applied THEN "push" ELSE "pushFirst")
    BY <1>5 DEF BeginApply, Refresh, world
  <2>3. obj.gen = node.gen /\ (obj.status.applied => saved # None)
    BY <1>3, <1>4, <1>5, <2>1 DEF BeginApply, StatusDiscipline, CopySync
  <2>4. Applying.applied = obj.status.applied /\ Applying.obsGen = obj.gen
    BY <1>4, <1>5 DEF BeginApply
  <2>5. CacheSync' /\ CopySync' /\ StatusOwned' /\ SavedFirst'
    BY <2>1, <2>2, <2>3, <2>4
    DEF StatusDiscipline, CacheSync, CopySync, StatusOwned, SavedFirst, Committed, Owning
  <2>6. Committed'
    BY <2>1, <2>2, <2>3, <2>4 DEF Committed
  <2> QED
    BY <2>5, <2>6 DEF StatusDiscipline
<1>6. CASE BeginApplyFails
  <2>1. pc # "idle" /\ Applying.applied = obj.status.applied
    BY <1>4, <1>6 DEF BeginApplyFails
  <2> QED
    BY <1>3, <1>6, <2>1, FailAfterWrite DEF BeginApplyFails
<1>7. CASE Push
  BY <1>7 DEF Push, Pushing, api,
     StatusDiscipline, CacheSync, CopySync, StatusOwned, SavedFirst, Committed, Owning
<1>8. CASE PushFails
  BY <1>3, <1>8, FailQuietly DEF PushFails, Pushing
<1>9. CASE PushTimesOut
  BY <1>9, EndQuietly DEF PushTimesOut, Done
<1>10. CASE SaveNodeConfig
  <2>1. obj.spec.cfg # None
    BY <1>3, <1>10, NodeFields, SpecFields, DataAssumption DEF SaveNodeConfig
  <2> QED
    BY <1>10, <2>1 DEF SaveNodeConfig, api,
       StatusDiscipline, CacheSync, CopySync, StatusOwned, SavedFirst, Committed, Owning
<1>11. CASE SaveNodeConfigFails
  BY <1>3, <1>11, FailQuietly DEF SaveNodeConfigFails
<1>12. ASSUME pc = "applied"
       PROVE  saved # None
  BY <1>3, <1>12, NodeFields, SpecFields, DataAssumption
  DEF StatusDiscipline, SavedFirst
<1>13. CASE SaveApplied
  BY <1>12, <1>13, EndWithStatus DEF SaveApplied, Done, world
<1>14. CASE SaveAppliedFails
  BY <1>12, <1>14, FailAfterWrite DEF SaveAppliedFails
<1>15. CASE SetError
  <2>1. InError.applied = obj.status.applied
    BY <1>3, <1>15, NodeFields, StatusAccess DEF SetError, InError
  <2>2. /\ pc # "idle" /\ pc' = "idle" /\ UNCHANGED saved
        /\ PutStatus(InError) \/ PutFails(InError)
    BY <1>15 DEF SetError, Done
  <2> QED
    BY <1>3, <2>1, <2>2, EndWithStatus, EndWithoutStatus
<1> QED
  BY <1>1, <1>2, <1>5, <1>6, <1>7, <1>8, <1>9, <1>10, <1>11, <1>13, <1>14, <1>15
  DEF Apply

\* Every step preserves the status discipline.
LEMMA DisciplineStep == TypeOK /\ StatusDiscipline /\ [Next]_vars => StatusDiscipline'
<1> SUFFICES ASSUME TypeOK, StatusDiscipline, [Next]_vars PROVE StatusDiscipline'
  OBVIOUS
<1>1. CASE Get
  BY <1>1 DEF Get, world,
     StatusDiscipline, CacheSync, CopySync, StatusOwned, SavedFirst, Committed, Owning
<1>2. CASE AddFinalizer
  <2>1. node'.status = node.status /\ node'.gen = node.gen
        /\ node'.spec = node.spec /\ node'.ann = node.ann
    BY <1>2, NodeAccess DEF AddFinalizer, PutFinalizer, TypeOK
  <2>2. cache' = cache /\ lag' # "none" /\ saved' = saved
        /\ obj' = node' /\ pc' = "start"
    BY <1>2 DEF AddFinalizer, PutFinalizer, Refresh, world
  <2> QED
    BY <2>1, <2>2 DEF StatusDiscipline, CacheSync, CopySync, StatusOwned, SavedFirst, Committed, Owning
<1>3. CASE AddFinalizerFails
  <2>1. pc' = "idle" /\ UNCHANGED saved
    BY <1>3 DEF AddFinalizerFails, Done
  <2>2. CASE UNCHANGED <<node, cache, lag>>
    BY <2>1, <2>2, EndQuietly
  <2>3. CASE PutFinalizer
    <3>1. node'.status = node.status
      BY <2>3, NodeAccess DEF PutFinalizer, TypeOK
    <3>2. cache' = cache /\ lag' # "none"
      BY <2>3 DEF PutFinalizer
    <3> QED
      BY <2>1, <3>1, <3>2
      DEF StatusDiscipline, CacheSync, CopySync, StatusOwned, SavedFirst, Committed, Owning
  <2> QED
    BY <1>3, <2>2, <2>3 DEF AddFinalizerFails
<1>4. CASE Deliver
  BY <1>4 DEF Deliver, worker, world,
     StatusDiscipline, CacheSync, CopySync, StatusOwned, SavedFirst, Committed, Owning
<1>5. ASSUME NEW n, UserWrites(n), n.status = node.status
      PROVE  StatusDiscipline'
  <2>1. TagOf(img)' = TagOf(img)
    BY <1>5 DEF UserWrites, TagOf
  <2>2. Committed'
    BY <1>5, <2>1 DEF UserWrites, StatusDiscipline, Committed, IsDowngrade, TagOf
  <2>3. CacheSync' /\ CopySync' /\ StatusOwned' /\ SavedFirst'
    BY <1>5 DEF UserWrites, StatusDiscipline, CacheSync, CopySync, StatusOwned, SavedFirst
  <2> QED
    BY <2>2, <2>3 DEF StatusDiscipline
<1>6. CASE EditSpec
  <2>1. PICK s \in Specs : UserWrites([node EXCEPT !.spec = s, !.gen = @ + 1])
    BY <1>6 DEF EditSpec
  <2>2. [node EXCEPT !.spec = s, !.gen = @ + 1].status = node.status
    BY NodeAccess DEF TypeOK
  <2> QED
    BY <1>5, <2>1, <2>2
<1>7. CASE RequestUpgrade
  <2>1. PICK i \in UpgradeImages : UserWrites([node EXCEPT !.ann.upgrade = i])
    BY <1>7 DEF RequestUpgrade
  <2>2. [node EXCEPT !.ann.upgrade = i].status = node.status
    BY NodeAccess DEF TypeOK
  <2> QED
    BY <1>5, <2>1, <2>2
<1>8. CASE RequestReset
  <2>1. [node EXCEPT !.ann.reset = @ + 1].status = node.status
    BY NodeAccess DEF TypeOK
  <2> QED
    BY <1>5, <1>8, <2>1 DEF RequestReset
<1>9. CASE Reboot
  BY <1>9 DEF Reboot, api, worker,
     StatusDiscipline, CacheSync, CopySync, StatusOwned, SavedFirst, Committed, Owning
<1>10. CASE ExternalDrift
  BY <1>10 DEF ExternalDrift, api, worker,
     StatusDiscipline, CacheSync, CopySync, StatusOwned, SavedFirst, Committed, Owning
<1>11. CASE Crash
  BY <1>11 DEF Crash, Done,
     StatusDiscipline, CacheSync, CopySync, StatusOwned, SavedFirst, Committed, Owning
<1>12. CASE UNCHANGED vars
  BY <1>12 DEF vars,
     StatusDiscipline, CacheSync, CopySync, StatusOwned, SavedFirst, Committed, Owning
<1> QED
  BY <1>1, <1>2, <1>3, <1>4, <1>6, <1>7, <1>8, <1>9, <1>10, <1>11, <1>12,
     UpgradeDiscipline, ResetActionsDiscipline, ApplyDiscipline
  DEF Next, Reconcile, User

\* The status discipline holds initially.
LEMMA DisciplineInit == Init => StatusDiscipline
<1> SUFFICES ASSUME Init PROVE StatusDiscipline
  OBVIOUS
<1>1. ~node.status.applied
  <2>1. PICK s \in Specs :
         node = [gen |-> 1, fin |-> FALSE, spec |-> s,
                 ann |-> [upgrade |-> None, lastUpgrade |-> None, reset |-> 0,
                          lastReset |-> 0, lastExt |-> None],
                 status |-> [phase |-> "", obsGen |-> 0, applied |-> FALSE,
                             curVer |-> NoTag, instExt |-> None]]
    BY DEF Init
  <2> QED
    BY <2>1
<1>2. cache = node /\ pc = "idle"
  BY DEF Init
<1> QED
  BY <1>1, <1>2
  DEF StatusDiscipline, CacheSync, CopySync, StatusOwned, SavedFirst, Committed, Owning

\* The status discipline: between two writes of a reconcile the status the worker
\* remembers is the persisted one, whatever users and the watch do meanwhile.
THEOREM DisciplineHolds == Spec => []StatusDiscipline
<1>1. Init => StatusDiscipline
  BY DisciplineInit
<1>2. TypeOK /\ StatusDiscipline /\ [Next]_vars => StatusDiscipline'
  BY DisciplineStep
<1> QED
  BY <1>1, <1>2, TypeCorrect, PTL DEF Spec

\* applyConfig sends the configuration over an unauthenticated connection only
\* while no configuration is recorded as applied.
THEOREM InsecureSafe == Spec => []InsecureOnlyWhileUnconfigured
<1>1. StatusDiscipline => InsecureOnlyWhileUnconfigured
  BY DEF StatusDiscipline, StatusOwned, Committed, Owning, InsecureOnlyWhileUnconfigured
<1> QED
  BY <1>1, DisciplineHolds, PTL

\* ConfigApplied is never set before saveNodeConfig stored what was applied.
THEOREM SavedBeforeApplied == Spec => []AppliedImpliesSaved
<1>1. StatusDiscipline => AppliedImpliesSaved
  BY DEF StatusDiscipline, SavedFirst, AppliedImpliesSaved
<1> QED
  BY <1>1, DisciplineHolds, PTL

\* handleUpgrade calls Upgrade only when phase Upgrading is persisted and the
\* image is not older than the reported version.
THEOREM UpgradeSafe == Spec => [](UpgradeAnnounced /\ NoDowngradeSent)
<1>1. StatusDiscipline => UpgradeAnnounced /\ NoDowngradeSent
  BY DEF StatusDiscipline, StatusOwned, Committed, Owning, UpgradeAnnounced,
         NoDowngradeSent
<1> QED
  BY <1>1, DisciplineHolds, PTL

\* The half of it that performUpgrade's version gate is about: what is sent is
\* never older than the version the status reports.
THEOREM NoDowngrades == Spec => []NoDowngradeSent
  BY UpgradeSafe, PTL

-----------------------------------------------------------------------------
(* Ready is claimed for the current spec only                              *)

\* While the last status write of applyConfig is due, no other step touches the
\* status.
LEMMA StatusUntouched ==
    ASSUME TypeOK, pc = "applied", [Next]_vars, ~SaveApplied, ~SaveAppliedFails
    PROVE  node'.status = node.status
<1>1. CASE Crash \/ Deliver \/ Reboot \/ ExternalDrift \/ UNCHANGED vars
  BY <1>1 DEF Crash, Deliver, Reboot, ExternalDrift, api, vars
<1>2. CASE User
  <2>1. CASE EditSpec
    <3>1. PICK s \in Specs : UserWrites([node EXCEPT !.spec = s, !.gen = @ + 1])
      BY <2>1 DEF EditSpec
    <3> QED
      BY <3>1, NodeAccess DEF UserWrites, TypeOK
  <2>2. CASE RequestUpgrade
    <3>1. PICK i \in UpgradeImages : UserWrites([node EXCEPT !.ann.upgrade = i])
      BY <2>2 DEF RequestUpgrade
    <3> QED
      BY <3>1, NodeAccess DEF UserWrites, TypeOK
  <2>3. CASE RequestReset
    <3>1. UserWrites([node EXCEPT !.ann.reset = @ + 1])
      BY <2>3 DEF RequestReset
    <3> QED
      BY <3>1, NodeAccess DEF UserWrites, TypeOK
  <2> QED
    BY <1>2, <2>1, <2>2, <2>3 DEF User
<1>3. CASE Get \/ AddFinalizer \/ AddFinalizerFails
  BY <1>3 DEF Get, AddFinalizer, AddFinalizerFails
<1>4. CASE Upgrade
  BY <1>4 DEF Upgrade, PollUpgrade, CompleteUpgrade, CompleteUpgradeFails, AnnotationUpgrade,
     SpecUpgrade, RecordSchematic, SchematicFails, RejectUntagged, BlockDowngrade,
     UpgradeUnreachable, SkipContainer, MarkUpgrading, MarkUpgradingFails, SendUpgrade,
     SendUpgradeFails, RecordUpgrade, RecordFailedUpgrade, SaveUpgradeError,
     Permitted, Polling, Versioning, Unclaimed, Dispatching
<1>5. CASE Reset
  BY <1>5 DEF Reset, RecordReset, RecordResetFails, SendReset, SendResetFails, SaveReset,
     Settling, Unclaimed, Dispatching
<1>6. CASE Apply
  BY <1>6 DEF Apply, StayUpToDate, DriftInSync, BeginApply, BeginApplyFails, Push,
     PushFails, PushTimesOut, SaveNodeConfig, SaveNodeConfigFails,
     SetError, NothingToDo, ApplyDue, Settling, Unclaimed, Dispatching, Pushing
<1> QED
  BY <1>1, <1>2, <1>3, <1>4, <1>5, <1>6 DEF Next, Reconcile

\* The configuration reported as applied is that of the spec at that moment.
THEOREM ReadyIsCurrent == Spec => ReadyClaimsCurrentSpec
<1> DEFINE Claim == pc = "applied" /\ node'.status # node.status =>
                      saved = node'.spec.cfg /\ node'.status.obsGen = node'.gen
<1>1. TypeOK /\ StatusDiscipline /\ [Next]_vars => Claim
  <2> SUFFICES ASSUME TypeOK, StatusDiscipline, [Next]_vars,
                      pc = "applied", node'.status # node.status
               PROVE  saved = node'.spec.cfg /\ node'.status.obsGen = node'.gen
    OBVIOUS
  <2>1. SaveApplied \/ SaveAppliedFails
    BY StatusUntouched
  <2>2. fresh = TRUE /\ node'.status = Applied /\ node'.gen = node.gen
        /\ node'.spec = node.spec
    BY <2>1, PutStatusEffect DEF SaveApplied, SaveAppliedFails, PutFails
  <2>3. obj.gen = node.gen /\ obj.spec = node.spec /\ saved = obj.spec.cfg
        /\ obj.status.obsGen = obj.gen
    BY <2>2 DEF StatusDiscipline, CopySync, SavedFirst, Committed
  <2>4. Applied.obsGen = obj.status.obsGen
    BY ObjType, NodeFields, StatusAccess DEF Applied
  <2> QED
    BY <2>2, <2>3, <2>4
<1> QED
  BY <1>1, TypeCorrect, DisciplineHolds, PTL DEF Spec, ReadyClaimsCurrentSpec

-----------------------------------------------------------------------------
(* A reset request is performed at most once                               *)

\* Where a reconcile is before it has taken a request.
Dispatched == {"start", "settle", "upgrade"}

\* Reading back the reset annotations from patched annotations.
LEMMA AnnotationAccess ==
    ASSUME NEW a \in Annotations, NEW v
    PROVE  /\ LET b == [a EXCEPT !.lastExt = v]
              IN  b.reset = a.reset /\ b.lastReset = a.lastReset
           /\ LET b == [a EXCEPT !.lastUpgrade = v]
              IN  b.reset = a.reset /\ b.lastReset = a.lastReset
           /\ LET b == [a EXCEPT !.upgrade = v]
              IN  b.reset = a.reset /\ b.lastReset = a.lastReset
           /\ LET b == [a EXCEPT !.lastReset = v]
              IN  b.reset = a.reset /\ b.lastReset = v
           /\ LET b == [a EXCEPT !.reset = v]
              IN  b.reset = v /\ b.lastReset = a.lastReset
  BY DEF Annotations

\* The reset annotations and the machine's log of resets are natural numbers.
LEMMA ResetFields ==
    ASSUME TypeOK
    PROVE  /\ node.ann \in Annotations
           /\ node.ann.reset \in Nat /\ node.ann.lastReset \in Nat
           /\ pc # "idle" => obj.ann.reset \in Nat /\ obj.ann.lastReset \in Nat
           /\ resetLog \in Seq(Nat)
           /\ \A i \in DOMAIN resetLog : resetLog[i] \in Nat
  BY ObjType, NodeFields, AnnotationUpdates DEF TypeOK

\* The step leaves the request, its companion and the machine's resets alone.
ResetKept ==
    /\ node'.ann.reset = node.ann.reset
    /\ node'.ann.lastReset = node.ann.lastReset
    /\ resetLog' = resetLog

\* Where the worker goes in such a step, and with which copy.
CopyKept ==
    \/ pc' \notin Dispatched \cup {"resetSend"}
    \/ pc' = pc /\ obj' = obj
    \/ pc \in Dispatched /\ pc' \in Dispatched /\ obj' = obj
    \/ pc' \in Dispatched /\ obj' = node'

\* What every step of the node means to the abstract ledger.
LedgerStep == ResetDiscipline' /\ [Ledger!Next]_(Ledger!vars)

\* A step that leaves the reset annotations alone is a stuttering step of the
\* ledger and keeps the discipline.
LEMMA QuietStep ==
    ASSUME TypeOK, TypeOK', ResetDiscipline, ResetKept, CopyKept
    PROVE  LedgerStep
<1>1. [Ledger!Next]_(Ledger!vars)
  BY DEF ResetKept, Ledger!vars
<1>2. node.ann.reset \in Nat /\ node.ann.lastReset \in Nat
  BY ResetFields
<1>3. ResetDiscipline'
  BY <1>2 DEF ResetDiscipline, ResetKept, CopyKept, Dispatched
<1> QED
  BY <1>1, <1>3 DEF LedgerStep

\* Status().Update leaves the reset annotations alone.
LEMMA StatusWriteKeeps ==
    ASSUME TypeOK, NEW s, PutStatus(s), UNCHANGED resetLog
    PROVE  ResetKept
  BY PutStatusEffect DEF ResetKept

\* So does a patch of other annotations.
LEMMA PatchKeeps ==
    ASSUME TypeOK, NEW a, PatchAnnotations(a), UNCHANGED resetLog,
           a.reset = node.ann.reset, a.lastReset = node.ann.lastReset
    PROVE  ResetKept
  BY PatchEffect DEF ResetKept

\* So does a status write that is refused, or whose answer is lost.
LEMMA StatusFailureKeeps ==
    ASSUME TypeOK, NEW s, PutFails(s), UNCHANGED resetLog
    PROVE  ResetKept
  BY StatusWriteKeeps DEF PutFails, ResetKept

\* So does a patch of other annotations that may not arrive.
LEMMA PatchFailsKeeps ==
    ASSUME TypeOK, NEW a, PatchFails(a), UNCHANGED resetLog,
           a.reset = node.ann.reset, a.lastReset = node.ann.lastReset
    PROVE  ResetKept
  BY PatchKeeps DEF PatchFails, ResetKept

\* So does recording last-upgrade, or failing to.
LEMMA ConsumeKeeps ==
    ASSUME TypeOK, ConsumeUpgrade \/ LoseConsume, UNCHANGED resetLog
    PROVE  ResetKept
<1> DEFINE a == [node.ann EXCEPT !.lastUpgrade = img]
<1>1. a.reset = node.ann.reset /\ a.lastReset = node.ann.lastReset
  BY ResetFields, AnnotationAccess
<1>2. PatchAnnotations(a) \/ PatchFails(a)
  BY DEF ConsumeUpgrade, LoseConsume
<1> HIDE DEF a
<1> QED
  BY <1>1, <1>2, PatchKeeps, PatchFailsKeeps

\* So do the upgrade handlers.
LEMMA UpgradeKeeps ==
    ASSUME TypeOK, Upgrade
    PROVE  ResetKept /\ CopyKept
<1>1. CASE PollUpgrade \/ RejectUntagged \/ UpgradeUnreachable \/ SkipContainer
  BY <1>1 DEF PollUpgrade, RejectUntagged, UpgradeUnreachable, SkipContainer, Done, world,
     ResetKept, CopyKept, Dispatched
<1>10. CASE CompleteUpgradeFails \/ MarkUpgradingFails
  BY <1>10, StatusFailureKeeps DEF CompleteUpgradeFails, MarkUpgradingFails, Done, CopyKept,
     Dispatched
<1>2. CASE CompleteUpgrade
  BY <1>2, StatusWriteKeeps DEF CompleteUpgrade, Done, world, CopyKept, Dispatched
<1>3. CASE AnnotationUpgrade \/ SpecUpgrade
  BY <1>3 DEF AnnotationUpgrade, SpecUpgrade, Versioning, Unclaimed, Dispatching,
     StartUpgrade, api, world, ResetKept, CopyKept, Dispatched
<1>4. CASE RecordSchematic \/ SchematicFails
  <2>1. SchematicKnown.reset = node.ann.reset /\ SchematicKnown.lastReset = node.ann.lastReset
    BY ResetFields, AnnotationAccess DEF SchematicKnown
  <2>2. CASE RecordSchematic
    <3>1. PatchAnnotations(SchematicKnown) /\ resetLog' = resetLog
          /\ (Refresh("upgrade") \/ Refresh("settle"))
      BY <2>2 DEF RecordSchematic, world
    <3> QED
      BY <2>1, <3>1, PatchKeeps DEF Refresh, CopyKept, Dispatched
  <2>3. CASE SchematicFails
    BY <2>1, <2>3, PatchFailsKeeps DEF SchematicFails, Done, CopyKept, Dispatched
  <2> QED
    BY <1>4, <2>2, <2>3
<1>5. CASE BlockDowngrade \/ RecordUpgrade
  BY <1>5, ConsumeKeeps DEF BlockDowngrade, RecordUpgrade, Done, CopyKept, Dispatched
<1>6. CASE MarkUpgrading
  BY <1>6, StatusWriteKeeps DEF MarkUpgrading, Refresh, world, CopyKept, Dispatched
<1>7. CASE SendUpgrade \/ SendUpgradeFails
  BY <1>7 DEF SendUpgrade, SendUpgradeFails, api, ResetKept, CopyKept, Dispatched
<1>8. CASE RecordFailedUpgrade
  BY <1>8, ConsumeKeeps DEF RecordFailedUpgrade, Refresh, CopyKept, Dispatched
<1>9. CASE SaveUpgradeError
  <2>1. pc' = "idle" /\ resetLog' = resetLog
    BY <1>9 DEF SaveUpgradeError, Done
  <2>2. ResetKept
    BY <1>9, <2>1, StatusWriteKeeps, StatusFailureKeeps DEF SaveUpgradeError
  <2> QED
    BY <2>1, <2>2 DEF CopyKept, Dispatched
<1> QED
  BY <1>1, <1>2, <1>3, <1>4, <1>5, <1>6, <1>7, <1>8, <1>9, <1>10 DEF Upgrade

\* So do checkDrift, applyConfig and setError.
LEMMA ApplyKeeps ==
    ASSUME TypeOK, Apply
    PROVE  ResetKept /\ CopyKept
<1>1. CASE StayUpToDate \/ DriftInSync \/ Push \/ PushFails
           \/ PushTimesOut \/ SaveNodeConfig \/ SaveNodeConfigFails
  BY <1>1 DEF StayUpToDate, DriftInSync, Push, PushFails, PushTimesOut,
     SaveNodeConfig, SaveNodeConfigFails, Fail, Done, api, world,
     ResetKept, CopyKept, Dispatched
<1>5. CASE BeginApplyFails \/ SaveAppliedFails
  BY <1>5, StatusFailureKeeps DEF BeginApplyFails, SaveAppliedFails, Fail, CopyKept, Dispatched
<1>2. CASE BeginApply
  BY <1>2, StatusWriteKeeps DEF BeginApply, Refresh, world, CopyKept, Dispatched
<1>3. CASE SaveApplied
  BY <1>3, StatusWriteKeeps DEF SaveApplied, Done, world, CopyKept, Dispatched
<1>4. CASE SetError
  <2>1. pc' = "idle" /\ resetLog' = resetLog
    BY <1>4 DEF SetError, Done
  <2>2. ResetKept
    BY <1>4, <2>1, StatusWriteKeeps, StatusFailureKeeps DEF SetError
  <2> QED
    BY <2>1, <2>2 DEF CopyKept, Dispatched
<1> QED
  BY <1>1, <1>2, <1>3, <1>4, <1>5 DEF Apply

\* The request is recorded: the worker was the first to see it.  When the answer is
\* lost the reset is not performed, neither then nor later.
LEMMA RecordResetStep ==
    ASSUME TypeOK, ResetDiscipline, Settling, ResetRequested(obj),
           PatchAnnotations(Recorded), resetLog' = resetLog,
           pc' = "idle" \/ (pc' = "resetSend" /\ obj' = node')
    PROVE  LedgerStep
<1>1. pc \in Dispatched /\ pc # "idle"
  BY DEF Settling, Unclaimed, Dispatching, Dispatched
<1>2. Recorded.reset = node.ann.reset /\ Recorded.lastReset = obj.ann.reset
  BY ResetFields, AnnotationAccess DEF Recorded
<1>3. /\ PatchAnnotations(Recorded) /\ resetLog' = resetLog
      /\ pc' = "idle" \/ (pc' = "resetSend" /\ obj' = node')
  OBVIOUS
<1>4. node'.ann.reset = node.ann.reset /\ node'.ann.lastReset = obj.ann.reset
  BY <1>2, <1>3, PatchEffect
<1>5. obj.ann.reset \in Nat /\ node.ann.reset \in Nat /\ node.ann.lastReset \in Nat
  BY <1>1, ResetFields
<1>6. node.ann.lastReset < obj.ann.reset /\ obj.ann.reset <= node.ann.reset
  <2>1. obj.ann.lastReset = node.ann.lastReset /\ obj.ann.lastReset <= obj.ann.reset
        /\ obj.ann.reset <= node.ann.reset
    BY <1>1 DEF ResetDiscipline, Dispatched
  <2>2. obj.ann.reset # obj.ann.lastReset
    BY DEF ResetRequested
  <2> QED
    BY <1>5, <2>1, <2>2
<1>7. \A i \in DOMAIN resetLog : resetLog[i] \in Nat /\ resetLog[i] <= node.ann.lastReset
  BY ResetFields DEF ResetDiscipline
<1>8. ResetDiscipline'
  BY <1>3, <1>4, <1>5, <1>6, <1>7 DEF ResetDiscipline
<1>9. Ledger!Consume
  BY <1>3, <1>4, <1>5, <1>6 DEF Ledger!Consume
<1> QED
  BY <1>8, <1>9 DEF LedgerStep, Ledger!Next

\* The machine acts on the request, whether the worker hears of it or not.
LEMMA PerformStep ==
    ASSUME TypeOK, ResetDiscipline, pc = "resetSend", UNCHANGED node,
           resetLog' = Append(resetLog, obj.ann.lastReset),
           pc' \notin Dispatched \cup {"resetSend"}
    PROVE  LedgerStep
<1> DEFINE k == node.ann.lastReset
<1>1. obj.ann.lastReset = k /\ k > 0 /\ k \in Nat
  BY ResetFields DEF ResetDiscipline
<1>2. resetLog \in Seq(Nat) /\ DOMAIN resetLog = 1 .. Len(resetLog)
  BY ResetFields
<1>3. \A i \in 1 .. Len(resetLog) : resetLog[i] \in Nat /\ resetLog[i] < k
  BY <1>2, ResetFields DEF ResetDiscipline
<1>4. Ledger!Perform
  <2>1. \A i \in 1 .. Len(resetLog) : resetLog[i] # k
    BY <1>1, <1>3
  <2> QED
    BY <1>1, <2>1 DEF Ledger!Perform
<1>5. \A i \in DOMAIN resetLog' : resetLog'[i] <= k
  <2>1. resetLog' = Append(resetLog, k)
    BY <1>1
  <2> HIDE DEF k
  <2> QED
    BY <1>1, <1>2, <1>3, <2>1
<1>6. ResetDiscipline'
  BY <1>5 DEF ResetDiscipline, Dispatched
<1> QED
  BY <1>4, <1>6 DEF LedgerStep, Ledger!Next

\* handleStandaloneReset consumes or performs a request, or stutters.
LEMMA ResetSteps ==
    ASSUME TypeOK, TypeOK', ResetDiscipline, Reset
    PROVE  LedgerStep
<1>1. CASE RecordReset
  BY <1>1, RecordResetStep DEF RecordReset, Refresh, world
<1>2. CASE RecordResetFails
  <2>1. Settling /\ ResetRequested(obj) /\ resetLog' = resetLog /\ pc' = "idle"
    BY <1>2 DEF RecordResetFails, Done
  <2>2. CASE node' = node
    BY <2>1, <2>2, QuietStep DEF ResetKept, CopyKept, Dispatched
  <2>3. CASE PatchAnnotations(Recorded)
    BY <2>1, <2>3, RecordResetStep
  <2> QED
    BY <1>2, <2>2, <2>3 DEF RecordResetFails, PatchFails
<1>3. CASE SendReset
  BY <1>3, PerformStep DEF SendReset, api, Dispatched
<1>4. CASE SendResetFails
  <2>1. pc = "resetSend" /\ pc' = "idle" /\ node' = node
        /\ (resetLog' = resetLog \/ resetLog' = Append(resetLog, obj.ann.lastReset))
    BY <1>4 DEF SendResetFails, Done
  <2>2. CASE resetLog' = resetLog
    BY <2>1, <2>2, QuietStep DEF ResetKept, CopyKept, Dispatched
  <2>3. CASE resetLog' = Append(resetLog, obj.ann.lastReset)
    BY <2>1, <2>3, PerformStep DEF Dispatched
  <2> QED
    BY <2>1, <2>2, <2>3
<1>5. CASE SaveReset
  <2>1. pc' = "idle" /\ resetLog' = resetLog
    BY <1>5 DEF SaveReset, Done
  <2>2. ResetKept
    BY <1>5, <2>1, StatusWriteKeeps, StatusFailureKeeps DEF SaveReset
  <2> QED
    BY <2>1, <2>2, QuietStep DEF CopyKept, Dispatched
<1> QED
  BY <1>1, <1>2, <1>3, <1>4, <1>5 DEF Reset

\* A user requests a reset, or stutters.
LEMMA UserSteps ==
    ASSUME TypeOK, TypeOK', ResetDiscipline, User
    PROVE  LedgerStep
<1>1. ASSUME NEW n, UserWrites(n), n.ann.reset = node.ann.reset,
             n.ann.lastReset = node.ann.lastReset
      PROVE  LedgerStep
  BY <1>1, QuietStep DEF UserWrites, ResetKept, CopyKept
<1>2. CASE EditSpec
  <2>1. PICK s \in Specs : UserWrites([node EXCEPT !.spec = s, !.gen = @ + 1])
    BY <1>2 DEF EditSpec
  <2>2. [node EXCEPT !.spec = s, !.gen = @ + 1].ann = node.ann
    BY NodeAccess DEF TypeOK
  <2> QED
    BY <1>1, <2>1, <2>2
<1>3. CASE RequestUpgrade
  <2>1. PICK i \in UpgradeImages : UserWrites([node EXCEPT !.ann.upgrade = i])
    BY <1>3 DEF RequestUpgrade
  <2> DEFINE n == [node EXCEPT !.ann.upgrade = i]
             b == [node.ann EXCEPT !.upgrade = i]
  <2>2. n.ann = b
    BY NodeAccess DEF TypeOK
  <2>3. b.reset = node.ann.reset /\ b.lastReset = node.ann.lastReset
    BY ResetFields, AnnotationAccess
  <2> HIDE DEF b
  <2>4. n.ann.reset = node.ann.reset /\ n.ann.lastReset = node.ann.lastReset
    BY <2>2, <2>3
  <2> HIDE DEF n
  <2> QED
    BY <1>1, <2>1, <2>4 DEF n
<1>4. CASE RequestReset
  <2> DEFINE n == [node EXCEPT !.ann.reset = @ + 1]
  <2>1. UserWrites(n)
    BY <1>4 DEF RequestReset
  <2> DEFINE b == [node.ann EXCEPT !.reset = node.ann.reset + 1]
  <2>2. n.ann = b
    BY NodeAccess DEF TypeOK
  <2>3. b.reset = node.ann.reset + 1 /\ b.lastReset = node.ann.lastReset
    BY ResetFields, AnnotationAccess
  <2> HIDE DEF b
  <2>4. n.ann.reset = node.ann.reset + 1 /\ n.ann.lastReset = node.ann.lastReset
    BY <2>2, <2>3
  <2> HIDE DEF n
  <2>5. node'.ann.reset = node.ann.reset + 1 /\ node'.ann.lastReset = node.ann.lastReset
        /\ resetLog' = resetLog /\ pc' = pc /\ obj' = obj
    BY <2>1, <2>4 DEF UserWrites
  <2>6. Ledger!Request
    BY <2>5 DEF Ledger!Request
  <2>7. ResetDiscipline'
    <3>1. node.ann.reset \in Nat /\ node.ann.lastReset \in Nat
          /\ (pc # "idle" => obj.ann.reset \in Nat)
      BY ResetFields
    <3> QED
      BY <2>5, <3>1 DEF ResetDiscipline
  <2> QED
    BY <2>6, <2>7 DEF LedgerStep, Ledger!Next
<1> QED
  BY <1>2, <1>3, <1>4 DEF User

\* With an up-to-date cache every step keeps the discipline and is a step of the
\* ledger, or leaves it alone.
LEMMA LedgerSteps ==
    ASSUME StaleReads = FALSE, TypeOK, TypeOK', StatusDiscipline, ResetDiscipline, [Next]_vars
    PROVE  LedgerStep
<1>1. CASE Get
  <2>1. lag = "none" /\ node' = node /\ resetLog' = resetLog /\ pc' = "start"
        /\ obj' = cache
    BY <1>1 DEF Get, world
  <2>2. cache = node
    BY <2>1 DEF StatusDiscipline, CacheSync
  <2> QED
    BY <2>1, <2>2, QuietStep DEF ResetKept, CopyKept, Dispatched
<1>2. CASE AddFinalizer
  <2>1. node'.ann = node.ann
    BY <1>2, NodeAccess DEF AddFinalizer, PutFinalizer, TypeOK
  <2>2. resetLog' = resetLog /\ pc' = "start" /\ obj' = node'
    BY <1>2 DEF AddFinalizer, Refresh, world
  <2> QED
    BY <2>1, <2>2, QuietStep DEF ResetKept, CopyKept, Dispatched
<1>3. CASE AddFinalizerFails
  <2>1. resetLog' = resetLog /\ pc' = "idle" /\ (node' = node \/ PutFinalizer)
    BY <1>3 DEF AddFinalizerFails, Done
  <2>2. node'.ann = node.ann
    BY <2>1, NodeAccess DEF PutFinalizer, TypeOK
  <2> QED
    BY <2>1, <2>2, QuietStep DEF ResetKept, CopyKept, Dispatched
<1>4. CASE Upgrade
  BY <1>4, UpgradeKeeps, QuietStep
<1>5. CASE Reset
  BY <1>5, ResetSteps
<1>6. CASE Apply
  BY <1>6, ApplyKeeps, QuietStep
<1>7. CASE User
  BY <1>7, UserSteps
<1>8. CASE Deliver \/ Reboot \/ ExternalDrift \/ Crash \/ UNCHANGED vars
  BY <1>8, QuietStep DEF Deliver, Reboot, ExternalDrift, Crash, Done, api, worker, world, vars,
     ResetKept, CopyKept, Dispatched
<1> QED
  BY <1>1, <1>2, <1>3, <1>4, <1>5, <1>6, <1>7, <1>8 DEF Next, Reconcile

\* Nothing was requested initially.
LEMMA LedgerInit == Init => ResetDiscipline /\ Ledger!Init
<1> SUFFICES ASSUME Init PROVE ResetDiscipline /\ Ledger!Init
  OBVIOUS
<1>1. node.ann.reset = 0 /\ node.ann.lastReset = 0
  <2>1. PICK s \in Specs :
         node = [gen |-> 1, fin |-> FALSE, spec |-> s,
                 ann |-> [upgrade |-> None, lastUpgrade |-> None, reset |-> 0,
                          lastReset |-> 0, lastExt |-> None],
                 status |-> [phase |-> "", obsGen |-> 0, applied |-> FALSE,
                             curVer |-> NoTag, instExt |-> None]]
    BY DEF Init
  <2> QED
    BY <2>1
<1>2. resetLog = <<>> /\ pc = "idle"
  BY DEF Init
<1> QED
  BY <1>1, <1>2 DEF ResetDiscipline, Ledger!Init

\* ResetDiscipline is an invariant when Get never reads a lagging cache.
THEOREM ResetDisciplineHolds ==
    ASSUME StaleReads = FALSE
    PROVE  Spec => []ResetDiscipline
<1>1. TypeOK /\ TypeOK' /\ StatusDiscipline /\ ResetDiscipline /\ [Next]_vars
        => ResetDiscipline'
  BY LedgerSteps DEF LedgerStep
<1> QED
  BY <1>1, LedgerInit, TypeCorrect, DisciplineHolds, PTL DEF Spec

\* The reset annotation is one-shot: the reconcile loop implements the abstract
\* ledger, in which a request is performed at most once and never before it was
\* recorded, through crashes and lost answers, as long as Get is up to date.
THEOREM ResetsOnce ==
    ASSUME StaleReads = FALSE
    PROVE  Spec => ResetAtMostOnce
<1>1. TypeOK /\ TypeOK' /\ StatusDiscipline /\ ResetDiscipline /\ [Next]_vars
        => [Ledger!Next]_(Ledger!vars)
  BY LedgerSteps DEF LedgerStep
<1>2. Init => Ledger!Init
  BY LedgerInit
<1> QED
  BY <1>1, <1>2, TypeCorrect, DisciplineHolds, ResetDisciplineHolds, PTL
  DEF Spec, ResetAtMostOnce, Ledger!Spec

=============================================================================
