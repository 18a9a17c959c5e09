------------------------ MODULE CloudSchedulesProofs ------------------------
(***************************************************************************)
(* Proofs about CloudSchedules, for any number of requests and any bounds. *)
(*                                                                         *)
(* The types hold in general, and so does a pause as far as syncs go: what *)
(* protects it is the lock under which a sync reads the status that it     *)
(* later replaces (Locked).  The sync schedule is proved where the sync    *)
(* button is not used, since the button writes back a status it has read   *)
(* before (run stale_cloud_status).                                        *)
(*                                                                         *)
(* What the asset's task is depends on more than the lock: the form writes *)
(* it for the monitoring that it has read, while syncs change the row.     *)
(* That works out because syncs only take the monitoring forward (Fresh,   *)
(* Later), which neither the switch nor a resource that comes back does.   *)
(***************************************************************************)
EXTENDS CloudSchedules, TLAPS

Writes == [status: Status \cup {Kept}, mon: Monitoring \cup {Kept},
           task: Task \cup {Kept}, cloudTask: Task \cup {Kept}]
SyncState ==
  [pc: {"idle", "locked", "restore", "inventory", "save", "commit"},
   status: Status, mon: Monitoring]
ManualState ==
  [pc: {"idle", "inventory", "save", "compare", "store", "reschedule"},
   status: Status, mon: Monitoring, changed: BOOLEAN]
EditorState ==
  [pc: {"idle", "save", "cloudTask", "load", "assets"},
   target: {"active", "paused"}, mon: Monitoring]
TogglerState ==
  [pc: {"idle", "save", "reschedule"}, target: {"active", "disabled"},
   changed: BOOLEAN]

-----------------------------------------------------------------------------
(* What the helpers return *)

LEMMA IdleTypes ==
  /\ NoWrites \in Writes
  /\ IdleSync \in SyncState
  /\ IdleManual \in ManualState
  /\ IdleEditor \in EditorState
  /\ IdleToggler \in TogglerState
BY DEF NoWrites, Writes, IdleSync, SyncState, IdleManual, ManualState,
       IdleEditor, EditorState, IdleToggler, TogglerState, Status, Monitoring,
       Task, Kept

LEMMA TaskTypes ==
  /\ \A s \in Status : CloudTaskFor(s) \in {"on", "off"}
  /\ \A m \in Monitoring : AssetTaskFor(m) \in {"on", "off"}
  /\ \A m \in Monitoring, t \in Task : Reconciled(m, t) \in Task
  /\ \A o, m \in Monitoring, t \in Task : TaskAfterSave(o, m, t) \in Task
  /\ \A m \in Monitoring : Revived(m) \in Monitoring
BY DEF CloudTaskFor, AssetTaskFor, Reconciled, TaskAfterSave, Revived, Status,
       Monitoring, Task

LEMMA OwnTypes ==
  ASSUME TypeOK
  PROVE  /\ Own("status") \in Status
         /\ Own("mon") \in Monitoring
         /\ Own("task") \in Task
         /\ Own("cloudTask") \in Task
BY DEF TypeOK, Own, Rows, Kept

LEMMA WrittenTypes ==
  ASSUME TypeOK, NEW t \in Task
  PROVE  /\ Written("task", t) \in Task \cup {Kept}
         /\ Written("cloudTask", t) \in Task \cup {Kept}
BY DEF TypeOK, Written

\* What is committed when the transaction ends.
LEMMA Committed ==
  ASSUME TypeOK, db' = [f \in DOMAIN db |-> Own(f)]
  PROVE  /\ db' \in Rows
         /\ db'.status = Own("status") /\ db'.cloudTask = Own("cloudTask")
         /\ db'.mon = Own("mon") /\ db'.task = Own("task")
<1>1. DOMAIN db = {"status", "mon", "task", "cloudTask"}
  BY DEF TypeOK, Rows
<1>2. db' = [status |-> Own("status"), mon |-> Own("mon"),
             task |-> Own("task"), cloudTask |-> Own("cloudTask")]
  BY <1>1
<1> QED BY <1>2, OwnTypes DEF Rows

-----------------------------------------------------------------------------
(* Types *)

LEMMA InitType == Init => TypeOK
<1> SUFFICES ASSUME Init PROVE TypeOK OBVIOUS
<1>1. db \in Rows
  BY DEF Init, Rows, Status, Monitoring, Task
<1>2. /\ manual \in [Manuals -> ManualState]
      /\ editor \in [Editors -> EditorState]
      /\ toggler \in [Togglers -> TogglerState]
  BY IdleTypes DEF Init
<1>3. txn \in Writes /\ sync \in SyncState
  BY IdleTypes DEF Init
<1>4. /\ requests \in 0..MaxRequests /\ tokenChanges \in 0..MaxTokenChanges
      /\ listChanges \in 0..MaxListChanges /\ failures \in 0..MaxFailures
  BY ScheduleAssumption DEF Init
<1> QED BY <1>1, <1>2, <1>3, <1>4
     DEF Init, TypeOK, Writes, SyncState, ManualState, EditorState,
         TogglerState

LEMMA SyncType ==
  ASSUME TypeOK, SyncDue \/ Sync \/ SyncFail
  PROVE  TypeOK'
<1> USE DEF SyncState, Writes
<1>1. UNCHANGED <<requestVars, providerVars>>
  BY DEF SyncDue, Sync, SyncFail, SyncLock, SyncReject, SyncAccept, SyncRestore,
         SyncFind, SyncSave, SyncMiss, SyncCommit
<1>2. due' \in BOOLEAN
  BY DEF TypeOK, SyncDue, Sync, SyncFail, SyncLock, SyncReject, SyncAccept,
         SyncRestore, SyncFind, SyncSave, SyncMiss, SyncCommit
<1>3. failures' \in 0..MaxFailures
  <2>1. CASE SyncFail
    BY <2>1, ScheduleAssumption DEF TypeOK, SyncFail
  <2>2. CASE UNCHANGED failures
    BY <2>2 DEF TypeOK
  <2> QED BY <2>1, <2>2
       DEF SyncDue, Sync, SyncLock, SyncReject, SyncAccept, SyncRestore,
           SyncFind, SyncSave, SyncMiss, SyncCommit
<1>4. db' \in Rows
  <2>1. CASE SyncCommit
    BY <2>1, Committed DEF SyncCommit
  <2>2. CASE UNCHANGED db
    BY <2>2 DEF TypeOK
  <2> QED BY <2>1, <2>2
       DEF SyncDue, Sync, SyncFail, SyncLock, SyncReject, SyncAccept,
           SyncRestore, SyncFind, SyncSave, SyncMiss
<1>5. sync' \in SyncState
  <2>1. CASE SyncDue
    BY <2>1 DEF TypeOK, SyncDue
  <2>2. CASE SyncFail \/ SyncCommit
    BY <2>2, IdleTypes DEF SyncFail, SyncCommit
  <2>3. CASE SyncLock
    BY <2>3, IdleTypes DEF TypeOK, SyncLock, Rows
  <2>4. CASE SyncReject \/ SyncRestore \/ SyncSave \/ SyncMiss
    BY <2>4 DEF TypeOK, SyncReject, SyncRestore, SyncSave, SyncMiss
  <2>5. CASE SyncAccept
    BY <2>5 DEF TypeOK, SyncAccept, Rows, Status
  <2>6. CASE SyncFind
    BY <2>6 DEF TypeOK, SyncFind, Rows
  <2> QED BY <2>1, <2>2, <2>3, <2>4, <2>5, <2>6 DEF Sync
<1>6. txn' \in Writes
  <2>1. CASE SyncDue \/ SyncLock \/ SyncFind
    BY <2>1 DEF TypeOK, SyncDue, SyncLock, SyncFind
  <2>2. CASE SyncFail \/ SyncCommit
    BY <2>2, IdleTypes DEF SyncFail, SyncCommit
  <2>3. CASE SyncReject
    <3>1. CloudTaskFor("invalid") \in Task /\ "none" \in Task
          /\ "invalid" \in Status
      BY TaskTypes DEF Task, Status
    <3> DEFINE t == Written("task", "none")
               c == Written("cloudTask", CloudTaskFor("invalid"))
    <3>2. t \in Task \cup {Kept} /\ c \in Task \cup {Kept}
      BY <3>1, WrittenTypes
    <3>3. txn' \in {txn, [txn EXCEPT !.task = t, !.status = "invalid",
                                     !.cloudTask = c]}
      BY <2>3 DEF SyncReject
    <3> HIDE DEF t, c
    <3> QED BY <3>1, <3>2, <3>3 DEF TypeOK
  <2>4. CASE SyncAccept
    <3>1. CloudTaskFor("active") \in Task /\ "active" \in Status
      BY TaskTypes DEF Task, Status
    <3> DEFINE c == Written("cloudTask", CloudTaskFor("active"))
    <3>2. c \in Task \cup {Kept}
      BY <3>1, WrittenTypes
    <3>3. txn' \in {txn, [txn EXCEPT !.status = "active", !.cloudTask = c]}
      BY <2>4 DEF SyncAccept
    <3> HIDE DEF c
    <3> QED BY <3>1, <3>2, <3>3 DEF TypeOK
  <2>5. CASE SyncRestore
    <3>1. Reconciled(sync.mon, Own("task")) \in Task
      BY TaskTypes, OwnTypes DEF TypeOK
    <3> QED BY <2>5, <3>1, WrittenTypes DEF TypeOK, SyncRestore
  <2>6. CASE SyncSave
    <3>1. Revived(sync.mon) \in Monitoring
      BY TaskTypes DEF TypeOK
    <3>2. TaskAfterSave(db.mon, Revived(sync.mon), Own("task")) \in Task
      BY <3>1, TaskTypes, OwnTypes DEF TypeOK, Rows
    <3> QED BY <2>6, <3>1, <3>2, WrittenTypes DEF TypeOK, SyncSave
  <2>7. CASE SyncMiss
    BY <2>7 DEF TypeOK, SyncMiss, Monitoring
  <2> QED BY <2>1, <2>2, <2>3, <2>4, <2>5, <2>6, <2>7 DEF Sync
<1> QED BY <1>1, <1>2, <1>3, <1>4, <1>5, <1>6
     DEF TypeOK, requestVars, providerVars

LEMMA RequestCount ==
  ASSUME TypeOK, requests < MaxRequests, requests' = requests + 1
  PROVE  requests' \in 0..MaxRequests
BY ScheduleAssumption DEF TypeOK

LEMMA ManualType ==
  ASSUME TypeOK, NEW m \in Manuals, Manual(m)
  PROVE  TypeOK'
<1> USE DEF ManualState
<1>1. UNCHANGED <<editor, toggler, Others>>
  BY DEF Manual, ManualLoad, ManualFind, ManualSave, ManualMiss, ManualFail,
         ManualCompare, ManualStore, ManualReschedule
<1>2. requests' \in 0..MaxRequests
  <2>1. CASE ManualLoad(m)
    BY <2>1, RequestCount DEF ManualLoad
  <2>2. CASE UNCHANGED requests
    BY <2>2 DEF TypeOK
  <2> QED BY <2>1, <2>2
       DEF Manual, ManualFind, ManualSave, ManualMiss, ManualFail,
           ManualCompare, ManualStore, ManualReschedule
<1>3. db' \in Rows
  <2>1. CASE ManualSave(m)
    <3> DEFINE mon == Revived(manual[m].mon)
               t == TaskAfterSave(db.mon, mon, db.task)
    <3>1. mon \in Monitoring
      BY TaskTypes DEF TypeOK
    <3>2. t \in Task
      BY <3>1, TaskTypes DEF TypeOK, Rows
    <3>3. db' = [db EXCEPT !.mon = mon, !.task = t]
      BY <2>1 DEF ManualSave
    <3> HIDE DEF mon, t
    <3> QED BY <3>1, <3>2, <3>3 DEF TypeOK, Rows
  <2>2. CASE ManualMiss(m)
    BY <2>2 DEF ManualMiss, TypeOK, Rows, Monitoring
  <2>3. CASE ManualStore(m)
    BY <2>3 DEF ManualStore, TypeOK, Rows
  <2>4. CASE ManualReschedule(m)
    <3>1. CloudTaskFor(manual[m].status) \in Task
      BY TaskTypes DEF TypeOK, Task
    <3> QED BY <2>4, <3>1 DEF ManualReschedule, TypeOK, Rows
  <2>5. CASE UNCHANGED db
    BY <2>5 DEF TypeOK
  <2> QED BY <2>1, <2>2, <2>3, <2>4, <2>5
       DEF Manual, ManualLoad, ManualFind, ManualFail, ManualCompare
<1>4. manual' \in [Manuals -> ManualState]
  <2> DEFINE loaded == [IdleManual EXCEPT !.pc = "inventory",
                                          !.status = db.status]
  <2>1. loaded \in ManualState
    BY IdleTypes DEF TypeOK, Rows
  <2>2. CASE ManualLoad(m)
    <3>1. manual' = [manual EXCEPT ![m] = loaded]
      BY <2>2 DEF ManualLoad
    <3> HIDE DEF loaded
    <3> QED BY <2>1, <3>1 DEF TypeOK
  <2> HIDE DEF loaded
  <2>3. CASE ManualFind(m)
    <3> DEFINE s == [manual[m] EXCEPT !.pc = "save", !.mon = db.mon]
    <3>1. manual[m] \in ManualState /\ db.mon \in Monitoring
      BY DEF TypeOK, Rows
    <3>2. s \in ManualState
      BY <3>1
    <3>3. manual' = [manual EXCEPT ![m] = s]
      BY <2>3, <3>1 DEF ManualFind
    <3> HIDE DEF s
    <3> QED BY <3>2, <3>3 DEF TypeOK
  <2>4. CASE ManualSave(m) \/ ManualMiss(m)
    BY <2>4 DEF ManualSave, ManualMiss, TypeOK
  <2>5. CASE ManualCompare(m)
    <3> DEFINE s == [manual[m] EXCEPT !.pc = "store",
                                     !.changed = db.status # manual[m].status]
    <3>1. manual[m] \in ManualState
      BY DEF TypeOK, Rows
    <3>2. s \in ManualState
      BY <3>1
    <3>3. manual' = [manual EXCEPT ![m] = s]
      BY <2>5, <3>1 DEF ManualCompare
    <3> HIDE DEF s
    <3> QED BY <3>2, <3>3 DEF TypeOK
  <2>6. CASE ManualStore(m)
    BY <2>6, IdleTypes DEF ManualStore, TypeOK
  <2>7. CASE ManualFail(m) \/ ManualReschedule(m)
    BY <2>7, IdleTypes DEF ManualFail, ManualReschedule, TypeOK
  <2> QED BY <2>2, <2>3, <2>4, <2>5, <2>6, <2>7 DEF Manual
<1> QED BY <1>1, <1>2, <1>3, <1>4 DEF TypeOK, Others, providerVars

LEMMA EditType ==
  ASSUME TypeOK, NEW e \in Editors, Edit(e)
  PROVE  TypeOK'
<1> USE DEF EditorState
<1>1. UNCHANGED <<manual, toggler, Others>>
  BY DEF Edit, EditStep, EditSubmit, RepairStart, EditSave, EditCloudTask,
         EditLoad, EditAssets
<1>2. requests' \in 0..MaxRequests
  <2>1. CASE EditSubmit(e) \/ RepairStart(e)
    BY <2>1, RequestCount DEF EditSubmit, RepairStart
  <2>2. CASE UNCHANGED requests
    BY <2>2 DEF TypeOK
  <2> QED BY <2>1, <2>2 DEF Edit, EditStep, EditSave, EditCloudTask, EditLoad,
                            EditAssets
<1>3. /\ editor[e] \in EditorState
      /\ editor[e].target \in Status
  BY DEF TypeOK, Status
<1>4. db' \in Rows
  <2>1. CASE EditSave(e)
    BY <1>3, <2>1 DEF EditSave, TypeOK, Rows
  <2>2. CASE EditCloudTask(e)
    <3>1. CloudTaskFor(editor[e].target) \in Task
      BY <1>3, TaskTypes DEF Task
    <3> QED BY <2>2, <3>1 DEF EditCloudTask, TypeOK, Rows
  <2>3. CASE EditAssets(e)
    <3> DEFINE t == IF editor[e].target = "active"
                    THEN Reconciled(editor[e].mon, db.task)
                    ELSE IF editor[e].mon = "unknown" THEN db.task ELSE "none"
    <3>1. t \in Task
      BY <1>3, TaskTypes DEF TypeOK, Rows, Task
    <3>2. db' = [db EXCEPT !.task = t]
      BY <2>3 DEF EditAssets
    <3> HIDE DEF t
    <3> QED BY <3>1, <3>2 DEF TypeOK, Rows
  <2>4. CASE UNCHANGED db
    BY <2>4 DEF TypeOK
  <2> QED BY <2>1, <2>2, <2>3, <2>4
       DEF Edit, EditStep, EditSubmit, RepairStart, EditLoad
<1>5. editor' \in [Editors -> EditorState]
  <2>1. CASE EditSubmit(e)
    <3>1. PICK target \in {"active", "paused"} :
            editor' = [editor EXCEPT ![e] =
              [IdleEditor EXCEPT !.pc = "save", !.target = target]]
      BY <2>1 DEF EditSubmit
    <3> DEFINE s == [IdleEditor EXCEPT !.pc = "save", !.target = target]
    <3>2. s \in EditorState
      BY IdleTypes
    <3>3. editor' = [editor EXCEPT ![e] = s]
      BY <3>1
    <3> HIDE DEF s
    <3> QED BY <3>2, <3>3 DEF TypeOK
  <2>6. CASE RepairStart(e)
    BY <2>6, IdleTypes DEF RepairStart, TypeOK
  <2>2. CASE EditSave(e)
    BY <2>2 DEF EditSave, TypeOK
  <2>5. CASE EditCloudTask(e)
    BY <2>5 DEF EditCloudTask, TypeOK
  <2>3. CASE EditLoad(e)
    <3> DEFINE s == [editor[e] EXCEPT !.pc = "assets", !.mon = db.mon]
    <3>1. editor[e] \in EditorState /\ db.mon \in Monitoring
      BY DEF TypeOK, Rows
    <3>2. s \in EditorState
      BY <3>1
    <3>3. editor' = [editor EXCEPT ![e] = s]
      BY <2>3, <3>1 DEF EditLoad
    <3> HIDE DEF s
    <3> QED BY <3>2, <3>3 DEF TypeOK
  <2>4. CASE EditAssets(e)
    BY <2>4, IdleTypes DEF EditAssets, TypeOK
  <2> QED BY <2>1, <2>2, <2>3, <2>4, <2>5, <2>6 DEF Edit, EditStep
<1> QED BY <1>1, <1>2, <1>4, <1>5 DEF TypeOK, Others, providerVars

LEMMA ToggleType ==
  ASSUME TypeOK, NEW t \in Togglers, Toggle(t)
  PROVE  TypeOK'
<1> USE DEF TogglerState
<1>1. UNCHANGED <<manual, editor, Others>>
  BY DEF Toggle, ToggleLoad, ToggleSave, ToggleReschedule
<1>2. requests' \in 0..MaxRequests
  <2>1. CASE ToggleLoad(t)
    BY <2>1, RequestCount DEF ToggleLoad
  <2>2. CASE UNCHANGED requests
    BY <2>2 DEF TypeOK
  <2> QED BY <2>1, <2>2 DEF Toggle, ToggleSave, ToggleReschedule
<1>3. toggler[t].target \in Monitoring
  BY DEF TypeOK, Monitoring
<1>4. db' \in Rows
  <2>1. CASE ToggleSave(t)
    BY <1>3, <2>1 DEF ToggleSave, TypeOK, Rows
  <2>2. CASE ToggleReschedule(t)
    <3>1. AssetTaskFor(toggler[t].target) \in Task
      BY <1>3, TaskTypes DEF Task
    <3> QED BY <2>2, <3>1 DEF ToggleReschedule, TypeOK, Rows
  <2>3. CASE UNCHANGED db
    BY <2>3 DEF TypeOK
  <2> QED BY <2>1, <2>2, <2>3 DEF Toggle, ToggleLoad
<1>5. toggler' \in [Togglers -> TogglerState]
  <2>1. CASE ToggleLoad(t)
    BY <2>1 DEF ToggleLoad, TypeOK
  <2>2. CASE ToggleSave(t)
    BY <2>2, IdleTypes DEF ToggleSave, TypeOK
  <2>3. CASE ToggleReschedule(t)
    BY <2>3, IdleTypes DEF ToggleReschedule, TypeOK
  <2> QED BY <2>1, <2>2, <2>3 DEF Toggle
<1> QED BY <1>1, <1>2, <1>4, <1>5 DEF TypeOK, Others, providerVars

LEMMA WebhookType ==
  ASSUME TypeOK, Webhook
  PROVE  TypeOK'
<1>1. requests' \in 0..MaxRequests
  BY RequestCount DEF Webhook
<1> QED BY <1>1 DEF Webhook, TypeOK, providerVars

LEMMA NextType == TypeOK /\ [Next]_vars => TypeOK'
<1> SUFFICES ASSUME TypeOK, [Next]_vars PROVE TypeOK' OBVIOUS
<1>1. CASE TokenChanges
  BY <1>1, ScheduleAssumption DEF TokenChanges, TypeOK, requestVars
<1>2. CASE ListChanges
  BY <1>2, ScheduleAssumption DEF ListChanges, TypeOK, requestVars
<1>3. CASE UNCHANGED vars
  BY <1>3 DEF vars, TypeOK
<1> QED BY <1>1, <1>2, <1>3, SyncType, WebhookType, ManualType, EditType,
            ToggleType DEF Next

-----------------------------------------------------------------------------
(* Pauses *)

\* The sync replaces only a status that it has read under the lock, and never
\* that of a paused cloud.
Locked ==
  /\ sync.pc = "idle" => txn = NoWrites
  /\ sync.pc = "locked" => txn = NoWrites /\ sync.status = db.status
  /\ txn.status # Kept => db.status # "paused" /\ txn.status # "paused"
  /\ txn.cloudTask # Kept => txn.cloudTask = "on" /\ db.status # "paused"

LockInv == TypeOK /\ Locked

\* Steps that leave the status and the sync's transaction alone.
LEMMA LockedKept ==
  ASSUME Locked, UNCHANGED <<sync, txn>>, db'.status = db.status
  PROVE  Locked'
BY DEF Locked

\* The writes of a sync that has read status s under the lock.
LEMMA SyncWrites ==
  ASSUME TypeOK, Locked, sync.pc = "locked", db.status # "paused",
         NEW s \in {"active", "invalid"}, NEW t \in Task \cup {Kept},
         \/ txn' = [txn EXCEPT !.task = t, !.status = s,
              !.cloudTask = Written("cloudTask", CloudTaskFor(s))]
         \/ txn' = [txn EXCEPT !.status = s,
              !.cloudTask = Written("cloudTask", CloudTaskFor(s))]
  PROVE  txn'.status = s /\ txn'.cloudTask \in {"on", Kept}
<1> DEFINE c == Written("cloudTask", CloudTaskFor(s))
<1>1. c \in {"on", Kept}
  BY DEF Written, CloudTaskFor, Locked, NoWrites
<1>2. \/ txn' = [txn EXCEPT !.task = t, !.status = s, !.cloudTask = c]
      \/ txn' = [txn EXCEPT !.status = s, !.cloudTask = c]
  OBVIOUS
<1> HIDE DEF c
<1> QED BY <1>1, <1>2 DEF TypeOK

LEMMA SyncLocked ==
  ASSUME LockInv, SyncDue \/ Sync \/ SyncFail
  PROVE  Locked'
<1>1. NoWrites.status = Kept /\ NoWrites.cloudTask = Kept
  BY DEF NoWrites
<1>2. CASE SyncDue
  BY <1>2, LockedKept DEF LockInv, SyncDue
<1>3. CASE SyncFail \/ SyncCommit
  <2>1. sync' = IdleSync /\ txn' = NoWrites
    BY <1>3 DEF SyncFail, SyncCommit
  <2>2. sync'.pc = "idle"
    BY <2>1 DEF IdleSync
  <2> QED BY <1>1, <2>1, <2>2 DEF Locked
<1>4. CASE SyncLock
  <2>1. sync'.pc = "locked" /\ sync'.status = db.status
    BY <1>4 DEF SyncLock, IdleSync
  <2>2. txn' = NoWrites /\ db' = db
    BY <1>4 DEF SyncLock, LockInv, Locked
  <2> QED BY <1>1, <2>1, <2>2 DEF Locked
<1>5. CASE SyncReject
  <2>1. sync.pc = "locked" /\ sync'.pc = "commit" /\ UNCHANGED db
    BY <1>5 DEF SyncReject, LockInv, TypeOK
  <2>2. CASE sync.status = "active"
    <3>1. db.status = "active"
      BY <2>1, <2>2 DEF LockInv, Locked
    <3>2. Written("task", "none") \in Task \cup {Kept}
      BY WrittenTypes DEF LockInv, Task
    <3>3. txn'.status = "invalid" /\ txn'.cloudTask \in {"on", Kept}
      BY <1>5, <2>1, <2>2, <3>1, <3>2, SyncWrites DEF SyncReject, LockInv
    <3> QED BY <2>1, <3>1, <3>3 DEF Locked
  <2>3. CASE sync.status # "active"
    BY <1>1, <1>5, <2>1, <2>3 DEF SyncReject, LockInv, Locked
  <2> QED BY <2>2, <2>3
<1>6. CASE SyncAccept
  <2>1. /\ sync.pc = "locked" /\ UNCHANGED db
        /\ sync'.pc \in {"restore", "inventory", "commit"}
    BY <1>6 DEF SyncAccept, LockInv, TypeOK
  <2>2. CASE sync.status = "invalid"
    <3>1. db.status = "invalid"
      BY <2>1, <2>2 DEF LockInv, Locked
    <3>2. txn' = [txn EXCEPT !.status = "active",
            !.cloudTask = Written("cloudTask", CloudTaskFor("active"))]
      BY <1>6, <2>2 DEF SyncAccept
    <3>3. txn'.status = "active" /\ txn'.cloudTask \in {"on", Kept}
      BY <2>1, <3>1, <3>2, SyncWrites DEF LockInv
    <3> QED BY <2>1, <3>1, <3>3 DEF Locked
  <2>3. CASE sync.status # "invalid"
    BY <1>1, <1>6, <2>1, <2>3 DEF SyncAccept, LockInv, Locked
  <2> QED BY <2>2, <2>3
<1>7. CASE SyncRestore \/ SyncFind \/ SyncSave \/ SyncMiss
  <2>1. UNCHANGED db /\ sync'.pc \in {"inventory", "save", "commit"}
    BY <1>7 DEF SyncRestore, SyncFind, SyncSave, SyncMiss, LockInv, TypeOK
  <2>2. txn'.status = txn.status /\ txn'.cloudTask = txn.cloudTask
    BY <1>7 DEF SyncRestore, SyncFind, SyncSave, SyncMiss, LockInv, TypeOK
  <2> QED BY <2>1, <2>2 DEF LockInv, Locked
<1> QED BY <1>2, <1>3, <1>4, <1>5, <1>6, <1>7 DEF Sync

\* What the form and the command write: only the form its status, under no
\* lock.  The command starts where the form goes on to the cloud's schedule.
LEMMA FormStep ==
  ASSUME TypeOK, NEW e \in Editors, Edit(e)
  PROVE  /\ UNCHANGED <<sync, txn>>
         /\ \/ EditSave(e)
            \/ EditCloudTask(e) /\ db'.status = db.status
            \/ RepairStart(e) /\ UNCHANGED db
            \/ /\ ~EditSave(e) /\ ~EditCloudTask(e) /\ ~RepairStart(e)
               /\ db'.status = db.status /\ db'.cloudTask = db.cloudTask
               /\ editor[e].pc # "cloudTask" /\ editor'[e].pc # "cloudTask"
<1>1. UNCHANGED <<sync, txn>>
  BY DEF Edit, EditStep, EditSubmit, RepairStart, EditSave, EditCloudTask,
         EditLoad, EditAssets, Others
<1>2. CASE EditCloudTask(e)
  BY <1>1, <1>2 DEF EditCloudTask, TypeOK, Rows
<1>3. editor[e].pc \in {"idle", "load", "assets"}
        => ~EditSave(e) /\ ~EditCloudTask(e) /\ editor[e].pc # "cloudTask"
  BY DEF EditSave, EditCloudTask
<1>4. IdleEditor.pc = "idle" /\ editor \in [Editors -> EditorState]
  BY DEF IdleEditor, TypeOK, EditorState
<1>5. editor'[e].pc # "cloudTask" => ~RepairStart(e)
  BY <1>4 DEF RepairStart, IdleEditor
<1>6. CASE EditSubmit(e)
  <2>1. editor[e].pc = "idle" /\ UNCHANGED db
    BY <1>6 DEF EditSubmit
  <2>2. PICK target \in {"active", "paused"} :
          editor' = [editor EXCEPT ![e] =
            [IdleEditor EXCEPT !.pc = "save", !.target = target]]
    BY <1>6 DEF EditSubmit
  <2>3. editor'[e].pc = "save"
    BY <1>4, <2>2 DEF IdleEditor
  <2> QED BY <1>1, <1>3, <1>5, <2>1, <2>3
<1>7. CASE EditLoad(e)
  <2>1. editor[e].pc = "load" /\ UNCHANGED db
    BY <1>7 DEF EditLoad
  <2>2. editor'[e].pc = "assets"
    BY <1>4, <1>7 DEF EditLoad, EditorState
  <2> QED BY <1>1, <1>3, <1>5, <2>1, <2>2
<1>8. CASE EditAssets(e)
  <2>1. editor[e].pc = "assets" /\ editor'[e].pc = "idle"
    BY <1>4, <1>8 DEF EditAssets
  <2>2. db'.status = db.status /\ db'.cloudTask = db.cloudTask
    BY <1>8 DEF EditAssets, TypeOK, Rows
  <2> QED BY <1>1, <1>3, <1>5, <2>1, <2>2
<1>9. RepairStart(e) => UNCHANGED db
  BY DEF RepairStart
<1> QED BY <1>1, <1>2, <1>6, <1>7, <1>8, <1>9 DEF Edit, EditStep

LEMMA SwitchStep ==
  ASSUME TypeOK, NEW t \in Togglers, Toggle(t)
  PROVE  /\ UNCHANGED <<sync, txn, editor>>
         /\ db'.status = db.status /\ db'.cloudTask = db.cloudTask
BY DEF TypeOK, Rows, Toggle, ToggleLoad, ToggleSave, ToggleReschedule, Others

LEMMA OtherStep ==
  ASSUME Webhook \/ TokenChanges \/ ListChanges \/ UNCHANGED vars
  PROVE  UNCHANGED <<db, sync, txn, editor>>
BY DEF Webhook, TokenChanges, ListChanges, vars, requestVars

LEMMA InitLock == Init => LockInv
BY InitType DEF Init, LockInv, Locked, NoWrites, IdleSync

\* The button writes the status only while no sync holds the lock.
LEMMA ButtonStep ==
  ASSUME TypeOK, NEW m \in Manuals, Manual(m)
  PROVE  /\ UNCHANGED <<sync, txn, editor>>
         /\ \/ db'.status = db.status
            \/ ManualStore(m) /\ db'.status = manual[m].status
<1>1. UNCHANGED <<sync, txn, editor>>
  BY DEF Manual, ManualLoad, ManualFind, ManualSave, ManualMiss, ManualFail,
         ManualCompare, ManualStore, ManualReschedule, Others
<1>2. CASE ManualStore(m)
  BY <1>1, <1>2 DEF ManualStore, TypeOK, Rows
<1>3. CASE ManualSave(m) \/ ManualMiss(m) \/ ManualReschedule(m)
  BY <1>1, <1>3 DEF ManualSave, ManualMiss, ManualReschedule, TypeOK, Rows
<1>4. CASE UNCHANGED db
  BY <1>1, <1>4
<1> QED BY <1>2, <1>3, <1>4 DEF Manual, ManualLoad, ManualFind, ManualFail,
                                ManualCompare

LEMMA NextLock == LockInv /\ [Next]_vars => LockInv'
<1> SUFFICES ASSUME LockInv, [Next]_vars PROVE Locked'
  BY NextType DEF LockInv
<1>1. ASSUME NEW e \in Editors, Edit(e) PROVE Locked'
  <2>1. CASE EditSave(e)
    <3>1. sync.pc = "idle" /\ txn = NoWrites /\ UNCHANGED <<sync, txn>>
      BY <2>1 DEF EditSave, CloudUnlocked, LockInv, Locked, Others
    <3> QED BY <3>1 DEF Locked, NoWrites
  <2> QED BY <1>1, <2>1, FormStep, LockedKept DEF LockInv
<1>2. ASSUME NEW m \in Manuals, Manual(m) PROVE Locked'
  <2>1. CASE ManualStore(m)
    <3>1. sync.pc = "idle" /\ txn = NoWrites /\ UNCHANGED <<sync, txn>>
      BY <2>1 DEF ManualStore, CloudUnlocked, LockInv, Locked, Others
    <3> QED BY <3>1 DEF Locked, NoWrites
  <2> QED BY <1>2, <2>1, ButtonStep, LockedKept DEF LockInv
<1>3. ASSUME NEW t \in Togglers, Toggle(t) PROVE Locked'
  BY <1>3, SwitchStep, LockedKept DEF LockInv
<1>4. CASE Webhook \/ TokenChanges \/ ListChanges \/ UNCHANGED vars
  BY <1>4, OtherStep, LockedKept DEF LockInv
<1> QED BY <1>1, <1>2, <1>3, <1>4, SyncLocked DEF Next

\* A pause is ended by the form or by the button, whatever syncs are under way.
LEMMA PauseStep ==
  ASSUME LockInv, [Next]_vars, db.status = "paused", db'.status # "paused"
  PROVE  \/ \E e \in Editors : editor[e].pc = "save" /\ editor'[e].pc # "save"
         \/ \E m \in Manuals : /\ manual[m].pc = "store"
                               /\ manual'[m].pc # "store"
                               /\ manual[m].status # "paused"
<1>1. CASE SyncCommit
  <2>1. db'.status = Own("status")
    BY <1>1, Committed DEF SyncCommit, LockInv
  <2> QED BY <2>1 DEF LockInv, Locked, Own
<1>2. CASE UNCHANGED db
  BY <1>2
<1>3. ASSUME NEW e \in Editors, Edit(e)
      PROVE  editor[e].pc = "save" /\ editor'[e].pc # "save"
  <2>1. EditSave(e)
    BY <1>3, FormStep DEF LockInv
  <2> QED BY <2>1 DEF EditSave, LockInv, TypeOK
<1>4. ASSUME NEW m \in Manuals, Manual(m)
      PROVE  /\ manual[m].pc = "store" /\ manual'[m].pc # "store"
             /\ manual[m].status # "paused"
  <2>1. ManualStore(m) /\ db'.status = manual[m].status
    BY <1>4, ButtonStep DEF LockInv
  <2> QED BY <2>1 DEF ManualStore, LockInv, TypeOK, IdleManual
<1>5. ASSUME NEW t \in Togglers, Toggle(t) PROVE FALSE
  BY <1>5, SwitchStep DEF LockInv
<1>6. (SyncDue \/ Sync \/ SyncFail) => SyncCommit \/ UNCHANGED db
  BY DEF SyncDue, Sync, SyncFail, SyncLock, SyncReject, SyncAccept,
         SyncRestore, SyncFind, SyncSave, SyncMiss
<1> QED BY <1>1, <1>2, <1>3, <1>4, <1>5, <1>6, OtherStep DEF Next

-----------------------------------------------------------------------------
(* The sync's schedule *)

\* The schedule agrees with the status unless the form is between the two,
\* and then with what the form is about to write.
Follows ==
  /\ \A e \in Editors : editor[e].pc = "cloudTask" =>
       (editor[e].target = "paused" <=> db.status = "paused")
  /\ (\A e \in Editors : editor[e].pc # "cloudTask") =>
       (db.cloudTask = "on" <=> db.status # "paused")

FollowInv == LockInv /\ Follows

LEMMA InitFollows == Init => FollowInv
BY InitLock DEF Init, FollowInv, Follows, IdleEditor

LEMMA NextFollows ==
  ASSUME Manuals = {}, \A e, f \in Editors : e = f
  PROVE  FollowInv /\ [Next]_vars => FollowInv'
<1> SUFFICES ASSUME FollowInv, [Next]_vars PROVE Follows'
  BY NextLock DEF FollowInv
<1>1. CASE SyncCommit
  <2>1. /\ db'.status = Own("status") /\ db'.cloudTask = Own("cloudTask")
        /\ UNCHANGED editor
    BY <1>1, Committed DEF SyncCommit, FollowInv, LockInv, requestVars
  <2> QED BY <2>1 DEF FollowInv, LockInv, Locked, Follows, Own
<1>2. CASE UNCHANGED <<db, editor>>
  BY <1>2 DEF FollowInv, Follows
<1>3. ASSUME NEW e \in Editors, Edit(e) PROVE Follows'
  <2>1. editor \in [Editors -> EditorState] /\ db \in Rows
    BY DEF FollowInv, LockInv, TypeOK, EditorState
  <2>2. CASE EditSave(e)
    <3>1. db'.status = editor[e].target /\ editor'[e].pc = "cloudTask"
          /\ editor'[e].target = editor[e].target
      BY <2>1, <2>2 DEF EditSave, Rows, EditorState
    <3> QED BY <3>1 DEF Follows
  <2>3. CASE EditCloudTask(e)
    <3>1. /\ db'.status = db.status
          /\ db'.cloudTask = CloudTaskFor(editor[e].target)
          /\ editor[e].pc = "cloudTask" /\ editor'[e].pc = "load"
      BY <2>1, <2>3 DEF EditCloudTask, Rows, EditorState
    <3>2. editor[e].target \in {"active", "paused"}
      BY <2>1 DEF EditorState
    <3> QED BY <3>1, <3>2 DEF FollowInv, Follows, CloudTaskFor
  <2>5. CASE RepairStart(e)
    <3>1. /\ db'.status = db.status /\ db.status # "paused"
          /\ editor'[e].pc = "cloudTask" /\ editor'[e].target = "active"
      BY <2>1, <2>5 DEF RepairStart, IdleEditor
    <3> QED BY <3>1 DEF Follows
  <2>4. CASE ~EditSave(e) /\ ~EditCloudTask(e) /\ ~RepairStart(e)
    <3>1. db'.status = db.status /\ db'.cloudTask = db.cloudTask
          /\ editor[e].pc # "cloudTask" /\ editor'[e].pc # "cloudTask"
      BY <1>3, <2>4, FormStep DEF FollowInv, LockInv
    <3> QED BY <3>1 DEF FollowInv, Follows
  <2> QED BY <2>2, <2>3, <2>4, <2>5
<1>4. ASSUME NEW t \in Togglers, Toggle(t) PROVE Follows'
  BY <1>4, SwitchStep DEF FollowInv, LockInv, Follows
<1>5. (SyncDue \/ Sync \/ SyncFail) => SyncCommit \/ UNCHANGED <<db, editor>>
  BY DEF SyncDue, Sync, SyncFail, SyncLock, SyncReject, SyncAccept,
         SyncRestore, SyncFind, SyncSave, SyncMiss, requestVars
<1> QED BY <1>1, <1>2, <1>3, <1>4, <1>5, OtherStep DEF Next

-----------------------------------------------------------------------------
(* The asset's task: when it must not run *)

\* A monitoring value that no sync and no form writes: b is still what was read.
Fresh(a, b) == b \in {"unknown", "disabled"} => a = b

\* What the task never is, whatever is under way.
Sound(mon, task) ==
  /\ mon = "unknown" => task = "none"
  /\ mon = "disabled" => task # "on"

\* The form or the command is about to write the task.
Pending(e) ==
  \/ editor[e].pc \in {"cloudTask", "load"}
  \/ editor[e].pc = "assets" /\ editor[e].mon # "unknown"

\* What the sync has read of the asset is what is committed, and a sync that
\* finds the cloud paused writes nothing.
SyncReads ==
  /\ sync.pc \in {"restore", "save"} => sync.mon = db.mon
  /\ sync.pc # "commit" => txn.mon = Kept
  /\ db.status = "paused" =>
       txn = NoWrites /\ sync.pc \in {"idle", "locked", "commit"}

\* What the form writes agrees with the status it has written and with what
\* has become of the asset since it was loaded.
FormAgrees ==
  \A e \in Editors :
    /\ editor[e].pc \in {"cloudTask", "load", "assets"} =>
         (editor[e].target = "paused" <=> db.status = "paused")
    /\ editor[e].pc = "assets" =>
         /\ editor[e].target = "paused" => editor[e].mon = db.mon
         /\ Fresh(editor[e].mon, db.mon)
         /\ Fresh(editor[e].mon, Own("mon"))

\* The committed rows, and those that the sync is about to commit.
TaskRests ==
  /\ Fresh(db.mon, Own("mon"))
  /\ Sound(db.mon, db.task)
  /\ Sound(Own("mon"), Own("task"))
  /\ (\A e \in Editors : ~Pending(e)) =>
       (db.status = "paused" => db.task # "on")

RestInv == LockInv /\ SyncReads /\ FormAgrees /\ TaskRests

LEMMA InitRest == Init => RestInv
<1> SUFFICES ASSUME Init PROVE SyncReads /\ FormAgrees /\ TaskRests
  BY InitLock DEF RestInv
<1>1. SyncReads /\ FormAgrees
  BY DEF Init, SyncReads, FormAgrees, NoWrites, IdleSync, IdleEditor
<1>2. TaskRests
  BY DEF Init, TaskRests, Fresh, Sound, Own, NoWrites
<1> QED BY <1>1, <1>2

\* What a write of the sync makes of the task.
LEMMA WrittenTask ==
  ASSUME TypeOK, NEW t \in Task, txn'.task = Written("task", t),
         db'.task = db.task
  PROVE  /\ Own("task")' = t
         /\ t = Own("task") => txn'.task = txn.task
BY DEF TypeOK, Rows, Own, Written, Task, Kept

LEMMA NoWritesOwn ==
  ASSUME txn = NoWrites
  PROVE  /\ Own("status") = db.status
         /\ Own("mon") = db.mon
         /\ Own("task") = db.task
BY DEF NoWrites, Own

\* Everything that a step of the sync other than its commit has to keep.
LEMMA SyncRest ==
  ASSUME RestInv, UNCHANGED <<db, editor>>,
         sync'.pc \in {"restore", "save"} => sync'.mon = db.mon,
         sync'.pc # "commit" => txn'.mon = Kept,
         db.status = "paused" =>
           txn' = NoWrites /\ sync'.pc \in {"idle", "locked", "commit"},
         Fresh(db.mon, Own("mon")'),
         Sound(Own("mon")', Own("task")')
  PROVE  (SyncReads /\ FormAgrees /\ TaskRests)'
<1>1. SyncReads'
  BY DEF SyncReads
<1>2. FormAgrees'
  BY DEF RestInv, FormAgrees, Fresh
<1>3. TaskRests'
  BY DEF RestInv, TaskRests, Pending
<1> QED BY <1>1, <1>2, <1>3

\* The tasks that the sync writes.
LEMMA SyncTasks ==
  ASSUME RestInv, SyncReject \/ SyncAccept \/ SyncRestore \/ SyncFind
                  \/ SyncSave \/ SyncMiss
  PROVE  /\ Fresh(db.mon, Own("mon")')
         /\ Sound(Own("mon")', Own("task")')
<1>1. /\ TypeOK /\ UNCHANGED db
      /\ Sound(Own("mon"), Own("task"))
      /\ sync.pc # "commit" /\ txn.mon = Kept /\ Own("mon") = db.mon
  BY DEF RestInv, LockInv, TaskRests, SyncReads, Own, SyncReject, SyncAccept,
         SyncRestore, SyncFind, SyncSave, SyncMiss
<1>2. CASE SyncReject
  <2>1. CASE sync.status = "active"
    <3>1. /\ txn'.task = Written("task", "none")
          /\ txn'.mon = txn.mon
      BY <1>1, <1>2, <2>1 DEF SyncReject, TypeOK
    <3>2. "none" \in Task
      BY DEF Task
    <3>3. Own("task")' = "none"
      BY <1>1, <3>1, <3>2, WrittenTask
    <3>4. Own("mon")' = db.mon
      BY <1>1, <3>1 DEF Own
    <3> QED BY <3>3, <3>4 DEF Fresh, Sound
  <2>2. CASE sync.status # "active"
    <3>1. Own("task")' = Own("task") /\ Own("mon")' = db.mon
      BY <1>1, <1>2, <2>2 DEF SyncReject, Own
    <3> QED BY <1>1, <3>1 DEF Fresh
  <2> QED BY <2>1, <2>2
<1>3. CASE SyncAccept \/ SyncFind
  <2>1. txn'.task = txn.task /\ txn'.mon = txn.mon
    BY <1>1, <1>3 DEF SyncAccept, SyncFind, TypeOK
  <2>2. Own("task")' = Own("task") /\ Own("mon")' = db.mon
    BY <1>1, <2>1 DEF Own
  <2> QED BY <1>1, <2>2 DEF Fresh
<1>4. CASE SyncRestore
  <2>1. /\ txn'.task = Written("task", Reconciled(sync.mon, Own("task")))
        /\ txn'.mon = txn.mon
    BY <1>1, <1>4 DEF SyncRestore, TypeOK
  <2>2. sync.mon = db.mon
    BY <1>4 DEF RestInv, SyncReads, SyncRestore
  <2>3. Reconciled(db.mon, Own("task")) \in Task
    BY <1>1, TaskTypes, OwnTypes DEF TypeOK, Rows
  <2>4. Own("task")' = Reconciled(db.mon, Own("task"))
    BY <1>1, <2>1, <2>2, <2>3, WrittenTask
  <2>5. Own("mon")' = db.mon
    BY <1>1, <2>1 DEF Own
  <2> QED BY <1>1, <2>4, <2>5 DEF Fresh, Sound, Reconciled, AssetTaskFor
<1>5. CASE SyncSave
  <2> DEFINE t == TaskAfterSave(db.mon, Revived(sync.mon), Own("task"))
  <2>1. txn'.task = Written("task", t) /\ txn'.mon = Revived(sync.mon)
    BY <1>1, <1>5 DEF SyncSave, TypeOK
  <2>2. sync.mon = db.mon /\ db.mon \in Monitoring
    BY <1>1, <1>5 DEF RestInv, SyncReads, SyncSave, TypeOK, Rows
  <2>3. t \in Task
    BY <1>1, <2>2, TaskTypes, OwnTypes
  <2>4. Own("task")' = t
    BY <1>1, <2>1, <2>3, WrittenTask
  <2>5. Own("mon")' = Revived(db.mon)
    BY <1>1, <2>1, <2>2 DEF Own, Revived, Monitoring, Kept
  <2> QED BY <1>1, <2>2, <2>4, <2>5
       DEF Fresh, Sound, TaskAfterSave, Revived, Monitoring
<1>6. CASE SyncMiss
  <2>1. /\ txn'.task = txn.task
        /\ txn'.mon = IF db.mon = "unknown" THEN Kept ELSE "gone"
    BY <1>1, <1>6 DEF SyncMiss, TypeOK
  <2>2. Own("task")' = Own("task")
    BY <1>1, <2>1 DEF Own
  <2>3. Own("mon")' = IF db.mon = "unknown" THEN db.mon ELSE "gone"
    BY <1>1, <2>1 DEF Own, Kept
  <2> QED BY <1>1, <2>2, <2>3 DEF Fresh, Sound
<1> QED BY <1>2, <1>3, <1>4, <1>5, <1>6

\* Where the sync goes, and that it writes nothing to a paused cloud.
LEMMA SyncMoves ==
  ASSUME RestInv, SyncReject \/ SyncAccept \/ SyncRestore \/ SyncFind
                  \/ SyncSave \/ SyncMiss
  PROVE  /\ UNCHANGED <<db, editor>>
         /\ sync'.pc \in {"restore", "save"} => sync'.mon = db.mon
         /\ sync'.pc # "commit" => txn'.mon = Kept
         /\ db.status = "paused" =>
              txn' = NoWrites /\ sync'.pc \in {"idle", "locked", "commit"}
<1>1. UNCHANGED <<db, editor>>
  BY DEF SyncReject, SyncAccept, SyncRestore, SyncFind, SyncSave, SyncMiss,
         requestVars
<1>2. sync \in SyncState /\ txn \in Writes /\ sync.pc # "commit"
      /\ txn.mon = Kept
  BY DEF RestInv, SyncReads, LockInv, TypeOK, SyncState, Writes, SyncReject,
         SyncAccept, SyncRestore, SyncFind, SyncSave, SyncMiss
<1>3. CASE SyncReject
  <2>1. sync'.pc = "commit" /\ sync.pc = "locked"
    BY <1>2, <1>3 DEF SyncReject, SyncState
  <2>2. sync.status # "active" => txn' = txn
    BY <1>3 DEF SyncReject
  <2> QED BY <1>1, <2>1, <2>2 DEF RestInv, LockInv, Locked
<1>4. CASE SyncAccept
  <2>1. /\ sync.pc = "locked"
        /\ sync'.pc \in {"restore", "inventory", "commit"}
        /\ sync'.pc = "restore" => sync'.mon = db.mon
        /\ txn'.mon = txn.mon
        /\ sync.status = "paused" => txn' = txn /\ sync'.pc = "commit"
    BY <1>2, <1>4 DEF SyncAccept, SyncState, Writes
  <2> QED BY <1>1, <1>2, <2>1 DEF RestInv, LockInv, Locked
<1>5. CASE SyncRestore \/ SyncFind
  <2>1. /\ sync.pc \in {"restore", "inventory"}
        /\ sync'.pc \in {"inventory", "save"}
        /\ sync'.pc = "save" => sync'.mon = db.mon
        /\ txn'.mon = txn.mon
    BY <1>2, <1>5 DEF SyncRestore, SyncFind, SyncState, Writes
  <2> QED BY <1>1, <1>2, <2>1 DEF RestInv, SyncReads
<1>6. CASE SyncSave \/ SyncMiss
  <2>1. /\ sync.pc \in {"save", "inventory"} /\ sync'.pc = "commit"
    BY <1>2, <1>6 DEF SyncSave, SyncMiss, SyncState
  <2> QED BY <1>1, <2>1 DEF RestInv, SyncReads
<1> QED BY <1>3, <1>4, <1>5, <1>6

LEMMA SyncKeepsRest ==
  ASSUME RestInv, SyncDue \/ Sync \/ SyncFail
  PROVE  (SyncReads /\ FormAgrees /\ TaskRests)'
<1>1. IdleSync.pc = "idle" /\ NoWrites.mon = Kept
  BY DEF IdleSync, NoWrites
<1>2. Fresh(db.mon, db.mon) /\ Sound(db.mon, db.task)
  BY DEF Fresh, RestInv, TaskRests
<1>3. CASE SyncDue
  BY <1>3 DEF SyncDue, requestVars, RestInv, SyncReads, FormAgrees, TaskRests,
              Own, Pending
<1>4. CASE SyncFail
  <2>1. UNCHANGED <<db, editor>> /\ txn' = NoWrites /\ sync' = IdleSync
    BY <1>4 DEF SyncFail, requestVars
  <2>2. Own("mon")' = db.mon /\ Own("task")' = db.task
    BY <2>1 DEF NoWrites, Own
  <2> QED BY <1>1, <1>2, <2>1, <2>2, SyncRest
<1>5. CASE SyncLock
  <2>1. /\ UNCHANGED <<db, editor>> /\ txn' = NoWrites
        /\ sync'.pc = "locked"
    BY <1>5 DEF SyncLock, requestVars, RestInv, LockInv, Locked, IdleSync
  <2>2. Own("mon")' = db.mon /\ Own("task")' = db.task
    BY <2>1 DEF NoWrites, Own
  <2> QED BY <1>1, <1>2, <2>1, <2>2, SyncRest
<1>6. CASE SyncCommit
  <2>1. /\ db'.status = Own("status") /\ db'.mon = Own("mon")
        /\ db'.task = Own("task")
        /\ txn' = NoWrites /\ sync' = IdleSync /\ editor' = editor
    BY <1>6, Committed DEF SyncCommit, requestVars, RestInv, LockInv
  <2>2. Own("mon")' = Own("mon") /\ Own("task")' = Own("task")
    BY <2>1 DEF NoWrites, Own
  <2>3. /\ db'.status = "paused" <=> db.status = "paused"
        /\ db.status = "paused" => db'.mon = db.mon /\ db'.task = db.task
    BY <2>1 DEF RestInv, LockInv, Locked, SyncReads, Own, NoWrites, Kept
  <2>4. SyncReads'
    BY <1>1, <2>1 DEF SyncReads
  <2>5. FormAgrees'
    BY <2>1, <2>2, <2>3 DEF RestInv, FormAgrees
  <2>6. TaskRests'
    <3>1. Fresh(db'.mon, Own("mon")')
      BY <2>1, <2>2 DEF Fresh
    <3> QED BY <2>1, <2>2, <2>3, <3>1 DEF RestInv, TaskRests, Pending
  <2> QED BY <2>4, <2>5, <2>6
<1>7. CASE SyncReject \/ SyncAccept \/ SyncRestore \/ SyncFind \/ SyncSave
           \/ SyncMiss
  BY <1>7, SyncTasks, SyncMoves, SyncRest
<1> QED BY <1>3, <1>4, <1>5, <1>6, <1>7 DEF Sync

\* The steps of the form and the command, field by field.
LEMMA EditFields ==
  ASSUME RestInv, NEW e \in Editors, Edit(e)
  PROVE  /\ UNCHANGED <<sync, txn>>
         /\ db'.mon = db.mon
         /\ \A f \in Editors \ {e} : editor'[f] = editor[f]
         /\ ~EditSave(e) => db'.status = db.status
         /\ ~EditAssets(e) => db'.task = db.task
<1>1. db \in Rows /\ editor \in [Editors -> EditorState]
  BY DEF RestInv, LockInv, TypeOK, EditorState
<1>2. UNCHANGED <<sync, txn>>
  BY DEF Edit, EditStep, EditSubmit, RepairStart, EditSave, EditCloudTask,
         EditLoad, EditAssets, Others
<1>3. \A f \in Editors \ {e} : editor'[f] = editor[f]
  BY <1>1 DEF Edit, EditStep, EditSubmit, RepairStart, EditSave,
              EditCloudTask, EditLoad, EditAssets
<1>4. /\ db'.mon = db.mon
      /\ ~EditSave(e) => db'.status = db.status
      /\ ~EditAssets(e) => db'.task = db.task
  BY <1>1 DEF Rows, Edit, EditStep, EditSubmit, RepairStart, EditSave,
                    EditCloudTask, EditLoad, EditAssets
<1> QED BY <1>2, <1>3, <1>4

LEMMA EditKeepsRest ==
  ASSUME RestInv, NEW e \in Editors, \A f \in Editors : f = e, Edit(e)
  PROVE  (SyncReads /\ FormAgrees /\ TaskRests)'
<1>1. /\ db \in Rows /\ editor \in [Editors -> EditorState]
      /\ TypeOK /\ UNCHANGED <<sync, txn>> /\ db'.mon = db.mon
      /\ Own("mon")' = Own("mon")
  BY EditFields DEF RestInv, LockInv, TypeOK, EditorState, Own
<1>2. IdleEditor.pc = "idle"
  BY DEF IdleEditor
<1>3. CASE EditAssets(e)
  <2> DEFINE t == IF editor[e].target = "active"
                  THEN Reconciled(editor[e].mon, db.task)
                  ELSE IF editor[e].mon = "unknown" THEN db.task ELSE "none"
  <2>1. /\ editor[e].pc = "assets" /\ editor'[e].pc = "idle"
        /\ db'.task = t /\ db'.status = db.status /\ txn.task = Kept
    BY <1>1, <1>2, <1>3 DEF EditAssets, Free, Rows
  <2>2. /\ editor[e].target = "paused" <=> db.status = "paused"
        /\ editor[e].target = "paused" => editor[e].mon = db.mon
        /\ Fresh(editor[e].mon, db.mon) /\ Fresh(editor[e].mon, Own("mon"))
        /\ editor[e].target \in {"active", "paused"}
    BY <1>1, <2>1 DEF RestInv, FormAgrees, EditorState
  <2>3. Own("task")' = t /\ Own("task") = db.task
    BY <1>1, <2>1 DEF Own
  <2>4. Sound(db.mon, db.task) /\ Sound(Own("mon"), db.task)
    BY <2>3 DEF RestInv, TaskRests
  <2>5. Sound(db.mon, t) /\ Sound(Own("mon"), t)
    BY <2>2, <2>4 DEF Sound, Fresh, Reconciled, AssetTaskFor
  <2>6. db.status = "paused" => t # "on"
    BY <2>2, <2>4 DEF Sound
  <2> HIDE DEF t
  <2>7. SyncReads'
    BY <1>1, <2>1 DEF RestInv, SyncReads
  <2>8. FormAgrees'
    BY <1>1, <2>1 DEF FormAgrees
  <2>9. TaskRests'
    BY <1>1, <2>1, <2>3, <2>5, <2>6 DEF RestInv, TaskRests
  <2> QED BY <2>7, <2>8, <2>9
<1>4. CASE EditSave(e)
  <2>1. /\ editor'[e].pc = "cloudTask" /\ editor'[e].target = editor[e].target
        /\ db'.status = editor[e].target /\ db'.task = db.task
        /\ editor[e].target \in {"active", "paused"}
    BY <1>1, <1>4 DEF EditSave, Rows, EditorState
  <2>2. sync.pc = "idle" /\ txn = NoWrites
    BY <1>4 DEF EditSave, CloudUnlocked, RestInv, LockInv, Locked
  <2>3. SyncReads'
    BY <1>1, <2>2 DEF SyncReads, NoWrites
  <2>4. FormAgrees'
    BY <1>1, <2>1 DEF FormAgrees
  <2>5. Own("task")' = Own("task")
    BY <1>1, <2>1 DEF Own
  <2>6. Pending(e)'
    BY <2>1 DEF Pending
  <2>7. TaskRests'
    BY <1>1, <2>1, <2>5, <2>6 DEF RestInv, TaskRests
  <2> QED BY <2>3, <2>4, <2>7
<1>5. CASE EditLoad(e)
  <2>1. /\ editor'[e].pc = "assets" /\ editor'[e].target = editor[e].target
        /\ editor'[e].mon = db.mon /\ editor[e].pc = "load"
        /\ db' = db
    BY <1>1, <1>5 DEF EditLoad, EditorState
  <2>2. SyncReads'
    BY <1>1, <2>1 DEF RestInv, SyncReads
  <2>3. Fresh(db.mon, Own("mon"))
    BY DEF RestInv, TaskRests
  <2>4. FormAgrees'
    BY <1>1, <2>1, <2>3 DEF RestInv, FormAgrees, Fresh
  <2>5. Own("task")' = Own("task")
    BY <1>1, <2>1 DEF Own
  <2>6. Pending(e)' \/ db.mon = "unknown"
    BY <2>1 DEF Pending
  <2>7. TaskRests'
    BY <1>1, <2>1, <2>5, <2>6 DEF RestInv, TaskRests, Sound
  <2> QED BY <2>2, <2>4, <2>7
<1>6. CASE EditCloudTask(e) \/ RepairStart(e) \/ EditSubmit(e)
  <2>1. db'.status = db.status /\ db'.task = db.task
    BY <1>1, <1>6 DEF EditCloudTask, RepairStart, EditSubmit, Rows
  <2>2. SyncReads'
    BY <1>1, <2>1 DEF RestInv, SyncReads
  <2>3. /\ editor'[e].pc \in {"load", "cloudTask", "save"}
        /\ editor'[e].pc = "load" => editor[e].pc = "cloudTask"
                                     /\ editor'[e].target = editor[e].target
        /\ editor'[e].pc = "cloudTask" =>
             editor'[e].target = "active" /\ db.status # "paused"
        /\ editor'[e].pc = "save" => editor[e].pc = "idle"
    <3>1. CASE EditCloudTask(e)
      BY <1>1, <3>1 DEF EditCloudTask, EditorState
    <3>2. CASE RepairStart(e)
      BY <1>1, <3>2 DEF RestInv, LockInv, TypeOK, RepairStart, IdleEditor
    <3>3. CASE EditSubmit(e)
      <4>1. PICK target \in {"active", "paused"} :
              editor' = [editor EXCEPT ![e] =
                [IdleEditor EXCEPT !.pc = "save", !.target = target]]
        BY <3>3 DEF EditSubmit
      <4>2. editor'[e].pc = "save"
        BY <1>1, <4>1 DEF IdleEditor
      <4> QED BY <3>3, <4>2 DEF EditSubmit
    <3> QED BY <1>6, <3>1, <3>2, <3>3
  <2>4. FormAgrees'
    BY <1>1, <2>1, <2>3 DEF RestInv, FormAgrees
  <2>5. Own("task")' = Own("task")
    BY <1>1, <2>1 DEF Own
  <2>6. (\A f \in Editors : ~Pending(f))' => \A f \in Editors : ~Pending(f)
    BY <1>1, <2>3 DEF Pending
  <2>7. TaskRests'
    BY <1>1, <2>1, <2>5, <2>6 DEF RestInv, TaskRests
  <2> QED BY <2>2, <2>4, <2>7
<1> QED BY <1>3, <1>4, <1>5, <1>6 DEF Edit, EditStep

LEMMA NextRest ==
  ASSUME Manuals = {}, Togglers = {}, \A e, f \in Editors : e = f
  PROVE  RestInv /\ [Next]_vars => RestInv'
<1> SUFFICES ASSUME RestInv, [Next]_vars
             PROVE  (SyncReads /\ FormAgrees /\ TaskRests)'
  BY NextLock DEF RestInv
<1>1. ASSUME NEW e \in Editors, Edit(e)
      PROVE  (SyncReads /\ FormAgrees /\ TaskRests)'
  BY <1>1, EditKeepsRest
<1>2. CASE UNCHANGED <<db, sync, txn, editor>>
  BY <1>2 DEF RestInv, SyncReads, FormAgrees, TaskRests, Own, Pending
<1> QED BY <1>1, <1>2, SyncKeepsRest, OtherStep DEF Next

-----------------------------------------------------------------------------
(* The asset's task: when it must run *)

\* What monitoring b can be when it was a before, without the switch and for a
\* resource that does not come back.
Later(a, b) == b = a \/ b = "gone" \/ (a = "unknown" /\ b = "active")

\* A monitored asset of an active cloud has its task.
Checked(status, mon, task) == status = "active" /\ mon = "active" => task = "on"

\* A resource that is gone does not come back.
GoneForGood ==
  /\ ~listed => listChanges = 1
  /\ db.mon = "gone" \/ Own("mon") = "gone" => ~listed
  /\ sync.pc = "save" => sync.mon # "gone"

\* What the sync has made of the row, and that a new row comes with its task.
CreatedWithTask ==
  /\ Later(db.mon, Own("mon"))
  /\ db.mon = "unknown" /\ Own("mon") # "unknown" =>
       Own("mon") = "active" /\ txn.task = "on"

\* The form has loaded the asset as it is, or as it was before a sync.
FormUpToDate ==
  \A e \in Editors : editor[e].pc = "assets" =>
    /\ Later(editor[e].mon, db.mon)
    /\ Later(editor[e].mon, Own("mon"))

\* Unless the task is about to be written, by the form or by a sync that
\* recovers the cloud.
TaskRuns ==
  (\A e \in Editors : ~Pending(e)) =>
    /\ Checked(db.status, db.mon, db.task)
    /\ sync.pc # "restore" => Checked(Own("status"), Own("mon"), Own("task"))

RunInv ==
  RestInv /\ GoneForGood /\ CreatedWithTask /\ FormUpToDate /\ TaskRuns

LEMMA InitRun == Init => RunInv
<1> SUFFICES ASSUME Init
             PROVE  GoneForGood /\ CreatedWithTask /\ FormUpToDate /\ TaskRuns
  BY InitRest DEF RunInv
<1>1. /\ Own("mon") = db.mon /\ Own("status") = db.status
      /\ Own("task") = db.task
  BY NoWritesOwn DEF Init
<1>2. GoneForGood /\ CreatedWithTask /\ FormUpToDate
  BY <1>1 DEF Init, GoneForGood, CreatedWithTask, FormUpToDate, Later,
              IdleSync, IdleEditor
<1>3. TaskRuns
  BY <1>1 DEF Init, TaskRuns, Checked
<1> QED BY <1>2, <1>3

\* Everything that a step of the sync other than its commit has to keep.
LEMMA SyncRun ==
  ASSUME RunInv, UNCHANGED <<db, editor, listed, listChanges>>,
         Own("mon")' = "gone" => ~listed,
         sync'.pc = "save" => sync'.mon # "gone",
         CreatedWithTask',
         Later(db.mon, Own("mon")'),
         sync'.pc # "restore" /\ (\A e \in Editors : ~Pending(e)) =>
           Checked(Own("status")', Own("mon")', Own("task")')
  PROVE  (GoneForGood /\ CreatedWithTask /\ FormUpToDate /\ TaskRuns)'
<1>1. GoneForGood'
  BY DEF RunInv, GoneForGood
<1>2. FormUpToDate'
  BY DEF RunInv, FormUpToDate, Later
<1>3. TaskRuns'
  BY DEF RunInv, TaskRuns, Pending
<1> QED BY <1>1, <1>2, <1>3

LEMMA SyncTasksRun ==
  ASSUME TypeIsScheduled, RunInv,
         SyncReject \/ SyncAccept \/ SyncRestore \/ SyncFind \/ SyncSave
         \/ SyncMiss
  PROVE  /\ Own("mon")' = "gone" => ~listed
         /\ sync'.pc = "save" => sync'.mon # "gone"
         /\ CreatedWithTask'
         /\ Later(db.mon, Own("mon")')
         /\ sync'.pc # "restore" /\ (\A e \in Editors : ~Pending(e)) =>
              Checked(Own("status")', Own("mon")', Own("task")')
<1>1. /\ TypeOK /\ UNCHANGED db /\ db.mon \in Monitoring
      /\ sync \in SyncState /\ txn \in Writes
      /\ Sound(Own("mon"), Own("task"))
      /\ sync.pc # "commit" /\ txn.mon = Kept /\ Own("mon") = db.mon
      /\ db.mon = "gone" => ~listed
  BY DEF RunInv, RestInv, LockInv, TypeOK, Rows, SyncState, Writes, TaskRests,
         SyncReads, GoneForGood, Own, SyncReject, SyncAccept, SyncRestore,
         SyncFind, SyncSave, SyncMiss
<1>2. ASSUME Own("mon")' = db.mon
      PROVE  /\ Own("mon")' = "gone" => ~listed
             /\ CreatedWithTask'
             /\ Later(db.mon, Own("mon")')
  BY <1>1, <1>2 DEF CreatedWithTask, Later
<1>3. (\A e \in Editors : ~Pending(e)) /\ sync.pc # "restore" =>
        Checked(Own("status"), Own("mon"), Own("task"))
  BY DEF RunInv, TaskRuns
<1>4. CASE SyncReject
  <2>1. sync'.pc = "commit" /\ sync.pc = "locked" /\ txn'.mon = txn.mon
    BY <1>1, <1>4 DEF SyncReject, SyncState, Writes
  <2>2. Own("mon")' = db.mon
    BY <1>1, <2>1 DEF Own
  <2>3. CASE sync.status = "active"
    <3>1. txn'.status = "invalid"
      BY <1>1, <1>4, <2>3 DEF SyncReject, Writes
    <3>2. Own("status")' = "invalid"
      BY <3>1 DEF Own, Kept
    <3> QED BY <1>2, <2>1, <2>2, <3>2 DEF Checked
  <2>4. CASE sync.status # "active"
    <3>1. /\ Own("status")' = Own("status") /\ Own("mon")' = Own("mon")
          /\ Own("task")' = Own("task")
      BY <1>1, <1>4, <2>4 DEF SyncReject, Own
    <3> QED BY <1>2, <1>3, <2>1, <2>2, <3>1
  <2> QED BY <2>3, <2>4
<1>5. CASE SyncAccept
  <2>1. /\ sync.pc = "locked" /\ txn'.mon = txn.mon
        /\ sync'.pc \in {"restore", "inventory", "commit"}
        /\ sync'.pc # "restore" => txn' = txn
    BY <1>1, <1>5 DEF SyncAccept, SyncState, Writes
  <2>2. Own("mon")' = db.mon
    BY <1>1, <2>1 DEF Own
  <2>3. sync'.pc # "restore" =>
          /\ Own("status")' = Own("status") /\ Own("mon")' = Own("mon")
          /\ Own("task")' = Own("task")
    BY <1>1, <2>1 DEF Own
  <2> QED BY <1>2, <1>3, <2>1, <2>2, <2>3
<1>6. CASE SyncRestore
  <2>1. /\ txn'.task = Written("task", Reconciled(sync.mon, Own("task")))
        /\ txn'.mon = txn.mon /\ sync'.pc = "inventory"
    BY <1>1, <1>6 DEF SyncRestore, SyncState, Writes
  <2>2. sync.mon = db.mon
    BY <1>6 DEF RunInv, RestInv, SyncReads, SyncRestore
  <2>3. Reconciled(db.mon, Own("task")) \in Task
    BY <1>1, TaskTypes, OwnTypes
  <2>4. Own("task")' = Reconciled(db.mon, Own("task"))
    BY <1>1, <2>1, <2>2, <2>3, WrittenTask
  <2>5. Own("mon")' = db.mon
    BY <1>1, <2>1 DEF Own
  <2>6. Checked(Own("status")', Own("mon")', Own("task")')
    BY <2>4, <2>5 DEF Checked, Reconciled, AssetTaskFor
  <2> QED BY <1>2, <2>1, <2>5, <2>6
<1>7. CASE SyncFind
  <2>1. /\ txn' = txn /\ sync.pc = "inventory" /\ listed
        /\ sync'.pc = "save" /\ sync'.mon = db.mon
    BY <1>1, <1>7 DEF SyncFind, SyncState
  <2>2. /\ Own("status")' = Own("status") /\ Own("mon")' = Own("mon")
        /\ Own("task")' = Own("task")
    BY <1>1, <2>1 DEF Own
  <2> QED BY <1>1, <1>2, <1>3, <2>1, <2>2
<1>8. CASE SyncSave
  <2> DEFINE t == TaskAfterSave(db.mon, Revived(sync.mon), Own("task"))
  <2>1. /\ txn'.task = Written("task", t) /\ txn'.mon = Revived(sync.mon)
        /\ txn'.status = txn.status /\ sync.pc = "save" /\ sync'.pc = "commit"
    BY <1>1, <1>8 DEF SyncSave, SyncState, Writes
  <2>2. sync.mon = db.mon /\ db.mon # "gone"
    BY <2>1 DEF RunInv, RestInv, SyncReads, GoneForGood
  <2>3. t \in Task
    BY <1>1, <2>2, TaskTypes, OwnTypes
  <2>4. Own("task")' = t
    BY <1>1, <2>1, <2>3, WrittenTask
  <2>5. Own("mon")' = Revived(db.mon) /\ Own("status")' = Own("status")
    BY <1>1, <2>1, <2>2 DEF Own, Revived, Monitoring, Kept
  <2>6. CASE db.mon = "unknown"
    <3>1. Own("mon")' = "active" /\ t = "on" /\ Own("task") = "none"
      BY <1>1, <2>2, <2>5, <2>6 DEF Revived, TaskAfterSave, Sound
    <3>2. txn'.task = "on"
      BY <2>1, <3>1 DEF Written
    <3>3. Later(db.mon, Own("mon")')
      BY <2>6, <3>1 DEF Later
    <3>4. CreatedWithTask'
      BY <1>1, <3>1, <3>2, <3>3 DEF CreatedWithTask
    <3> QED BY <2>1, <2>4, <3>1, <3>3, <3>4 DEF Checked
  <2>7. CASE db.mon # "unknown"
    <3>1. Own("mon")' = db.mon /\ Revived(db.mon) = db.mon
      BY <2>2, <2>5, <2>7 DEF Revived
    <3>2. Own("task")' = Own("task")
      BY <2>2, <2>4, <2>7, <3>1 DEF TaskAfterSave
    <3> QED BY <1>1, <1>2, <1>3, <2>1, <2>5, <3>1, <3>2
  <2> QED BY <2>6, <2>7
<1>9. CASE SyncMiss
  <2>1. /\ txn'.task = txn.task /\ txn'.status = txn.status /\ ~listed
        /\ txn'.mon = IF db.mon = "unknown" THEN Kept ELSE "gone"
        /\ sync.pc = "inventory" /\ sync'.pc = "commit"
    BY <1>1, <1>9 DEF SyncMiss, SyncState, Writes
  <2>2. Own("task")' = Own("task") /\ Own("status")' = Own("status")
    BY <1>1, <2>1 DEF Own
  <2>3. Own("mon")' = IF db.mon = "unknown" THEN db.mon ELSE "gone"
    BY <1>1, <2>1 DEF Own, Kept
  <2>4. Later(db.mon, Own("mon")') /\ CreatedWithTask'
    BY <1>1, <2>3 DEF Later, CreatedWithTask
  <2>5. Own("mon")' # "active"
    BY <2>3
  <2> QED BY <2>1, <2>4, <2>5 DEF Checked
<1> QED BY <1>4, <1>5, <1>6, <1>7, <1>8, <1>9

LEMMA SyncKeepsRun ==
  ASSUME TypeIsScheduled, RunInv, SyncDue \/ Sync \/ SyncFail
  PROVE  (GoneForGood /\ CreatedWithTask /\ FormUpToDate /\ TaskRuns)'
<1>1. IdleSync.pc = "idle" /\ NoWrites.mon = Kept
  BY DEF IdleSync, NoWrites
<1>2. UNCHANGED <<editor, listed, listChanges>>
  BY DEF SyncDue, Sync, SyncFail, SyncLock, SyncReject, SyncAccept,
         SyncRestore, SyncFind, SyncSave, SyncMiss, SyncCommit, requestVars,
         providerVars
<1>3. CASE SyncDue
  BY <1>2, <1>3 DEF SyncDue, RunInv, GoneForGood, CreatedWithTask,
                    FormUpToDate, TaskRuns, Own, Pending
<1>4. CASE SyncFail \/ SyncLock
  <2>1. /\ UNCHANGED db /\ txn' = NoWrites
        /\ sync'.pc \in {"idle", "locked"}
    BY <1>1, <1>4 DEF SyncFail, SyncLock, RunInv, RestInv, LockInv, Locked,
                      IdleSync
  <2>2. /\ Own("mon")' = db.mon /\ Own("task")' = db.task
        /\ Own("status")' = db.status
    BY <2>1 DEF NoWrites, Own
  <2>3. CreatedWithTask' /\ Later(db.mon, db.mon)
    BY <2>1, <2>2 DEF CreatedWithTask, Later
  <2>4. (\A e \in Editors : ~Pending(e)) => Checked(db.status, db.mon, db.task)
    BY DEF RunInv, TaskRuns
  <2>5. db.mon = "gone" => ~listed
    BY DEF RunInv, GoneForGood
  <2> QED BY <1>2, <2>1, <2>2, <2>3, <2>4, <2>5, SyncRun
<1>5. CASE SyncCommit
  <2>1. /\ db'.status = Own("status") /\ db'.mon = Own("mon")
        /\ db'.task = Own("task") /\ sync.pc = "commit"
        /\ txn' = NoWrites /\ sync' = IdleSync
    BY <1>5, Committed DEF SyncCommit, RunInv, RestInv, LockInv
  <2>2. /\ Own("mon")' = Own("mon") /\ Own("task")' = Own("task")
        /\ Own("status")' = Own("status")
    BY <2>1 DEF NoWrites, Own
  <2>3. GoneForGood'
    BY <1>1, <1>2, <2>1, <2>2 DEF RunInv, GoneForGood
  <2>4. CreatedWithTask'
    BY <2>1, <2>2 DEF CreatedWithTask, Later
  <2>5. FormUpToDate'
    BY <1>2, <2>1, <2>2 DEF RunInv, FormUpToDate
  <2>6. TaskRuns'
    BY <1>2, <2>1, <2>2 DEF RunInv, TaskRuns, Pending
  <2> QED BY <2>3, <2>4, <2>5, <2>6
<1>6. CASE SyncReject \/ SyncAccept \/ SyncRestore \/ SyncFind \/ SyncSave
           \/ SyncMiss
  <2>1. UNCHANGED db
    BY <1>6 DEF SyncReject, SyncAccept, SyncRestore, SyncFind, SyncSave,
                SyncMiss
  <2> QED BY <1>2, <1>6, <2>1, SyncTasksRun, SyncRun
<1> QED BY <1>3, <1>4, <1>5, <1>6 DEF Sync

LEMMA EditKeepsRun ==
  ASSUME RunInv, NEW e \in Editors, \A f \in Editors : f = e, Edit(e)
  PROVE  (GoneForGood /\ CreatedWithTask /\ FormUpToDate /\ TaskRuns)'
<1>1. /\ db \in Rows /\ editor \in [Editors -> EditorState]
      /\ UNCHANGED <<sync, txn>> /\ db'.mon = db.mon
      /\ Own("mon")' = Own("mon")
  BY EditFields DEF RunInv, RestInv, LockInv, TypeOK, EditorState, Own
<1>2. UNCHANGED <<listed, listChanges>>
  BY DEF Edit, EditStep, EditSubmit, RepairStart, EditSave, EditCloudTask,
         EditLoad, EditAssets, Others, providerVars
<1>3. GoneForGood'
  BY <1>1, <1>2 DEF RunInv, GoneForGood
<1>4. CreatedWithTask'
  BY <1>1 DEF RunInv, CreatedWithTask
<1>5. CASE EditAssets(e)
  <2> DEFINE t == IF editor[e].target = "active"
                  THEN Reconciled(editor[e].mon, db.task)
                  ELSE IF editor[e].mon = "unknown" THEN db.task ELSE "none"
  <2>1. /\ editor[e].pc = "assets" /\ editor'[e].pc = "idle"
        /\ db'.task = t /\ db'.status = db.status /\ txn.task = Kept
    BY <1>1, <1>5 DEF EditAssets, Free, Rows, IdleEditor
  <2>2. /\ editor[e].target = "paused" <=> db.status = "paused"
        /\ editor[e].target \in {"active", "paused"}
        /\ Later(editor[e].mon, db.mon) /\ Later(editor[e].mon, Own("mon"))
    BY <1>1, <2>1 DEF RunInv, RestInv, FormAgrees, FormUpToDate, EditorState
  <2>3. /\ Own("task")' = t /\ Own("task") = db.task
        /\ Own("status")' = Own("status")
    BY <1>1, <2>1 DEF Own
  <2>4. db.status = "paused" => Own("status") = "paused"
    BY DEF RunInv, RestInv, SyncReads, NoWrites, Own
  <2>5. editor[e].mon = "unknown" => \A f \in Editors : ~Pending(f)
    BY <2>1 DEF Pending
  <2>6. editor[e].mon = "unknown" => t = db.task
    BY DEF Reconciled
  <2>7. editor[e].mon = "active" /\ editor[e].target = "active" => t = "on"
    BY DEF Reconciled, AssetTaskFor
  <2> HIDE DEF t
  <2>8. Checked(db.status, db.mon, t)
    BY <2>2, <2>5, <2>6, <2>7 DEF RunInv, TaskRuns, Checked, Later
  <2>9. sync.pc # "restore" => Checked(Own("status"), Own("mon"), t)
    BY <2>2, <2>3, <2>4, <2>5, <2>6, <2>7 DEF RunInv, TaskRuns, Checked, Later
  <2>10. FormUpToDate'
    BY <1>1, <2>1 DEF FormUpToDate
  <2>11. TaskRuns'
    BY <1>1, <2>1, <2>3, <2>8, <2>9 DEF TaskRuns
  <2> QED BY <1>3, <1>4, <2>10, <2>11
<1>6. CASE EditLoad(e)
  <2>1. /\ editor'[e].pc = "assets" /\ editor'[e].mon = db.mon
        /\ editor[e].pc = "load" /\ db' = db
    BY <1>1, <1>6 DEF EditLoad, EditorState
  <2>2. /\ Own("task")' = Own("task") /\ Own("status")' = Own("status")
    BY <1>1, <2>1 DEF Own
  <2>3. Later(db.mon, Own("mon"))
    BY DEF RunInv, CreatedWithTask
  <2>4. FormUpToDate'
    BY <1>1, <2>1, <2>3 DEF FormUpToDate, Later
  <2>5. Pending(e)' \/ db.mon = "unknown"
    BY <2>1 DEF Pending
  <2>6. db.mon = "unknown" =>
          Checked(Own("status"), Own("mon"), Own("task"))
    BY DEF RunInv, CreatedWithTask, Checked, Own, Kept
  <2>7. TaskRuns'
    BY <1>1, <2>1, <2>2, <2>5, <2>6 DEF TaskRuns, Checked
  <2> QED BY <1>3, <1>4, <2>4, <2>7
<1>7. CASE EditSave(e)
  <2>1. editor'[e].pc = "cloudTask"
    BY <1>1, <1>7 DEF EditSave, EditorState
  <2>2. FormUpToDate'
    BY <1>1, <2>1 DEF FormUpToDate
  <2>3. TaskRuns'
    BY <2>1 DEF TaskRuns, Pending
  <2> QED BY <1>3, <1>4, <2>2, <2>3
<1>8. CASE EditCloudTask(e) \/ RepairStart(e) \/ EditSubmit(e)
  <2>1. db'.status = db.status /\ db'.task = db.task
    BY <1>1, <1>8 DEF EditCloudTask, RepairStart, EditSubmit, Rows
  <2>2. /\ Own("task")' = Own("task") /\ Own("status")' = Own("status")
    BY <1>1, <2>1 DEF Own
  <2>3. /\ editor'[e].pc \in {"load", "cloudTask", "save"}
        /\ editor'[e].pc = "save" => editor[e].pc = "idle"
    <3>1. CASE EditCloudTask(e)
      <4>1. editor' = [editor EXCEPT ![e].pc = "load"]
        BY <3>1 DEF EditCloudTask
      <4> QED BY <1>1, <4>1 DEF EditorState
    <3>2. CASE EditSubmit(e)
      <4>1. PICK target \in {"active", "paused"} :
              editor' = [editor EXCEPT ![e] =
                [IdleEditor EXCEPT !.pc = "save", !.target = target]]
        BY <3>2 DEF EditSubmit
      <4>2. editor'[e].pc = "save"
        BY <1>1, <4>1 DEF IdleEditor
      <4> QED BY <3>2, <4>2 DEF EditSubmit
    <3>3. CASE RepairStart(e)
      <4>1. editor' = [editor EXCEPT ![e] =
              [IdleEditor EXCEPT !.pc = "cloudTask", !.target = "active"]]
        BY <3>3 DEF RepairStart
      <4>2. editor'[e].pc = "cloudTask"
        BY <1>1, <4>1 DEF IdleEditor
      <4> QED BY <4>2
    <3> QED BY <1>8, <3>1, <3>2, <3>3
  <2>4. FormUpToDate'
    BY <1>1, <2>3 DEF FormUpToDate
  <2>5. (\A f \in Editors : ~Pending(f))' => \A f \in Editors : ~Pending(f)
    BY <1>1, <2>3 DEF Pending
  <2>6. TaskRuns'
    BY <1>1, <2>1, <2>2, <2>5 DEF RunInv, TaskRuns
  <2> QED BY <1>3, <1>4, <2>4, <2>6
<1> QED BY <1>5, <1>6, <1>7, <1>8 DEF Edit, EditStep

\* The conditions under which a monitored asset keeps its task.  Without any
\* one of them, the model has a state in which it has lost it.
RunAssumption ==
  /\ TypeIsScheduled
  /\ MaxListChanges <= 1
  /\ Manuals = {} /\ Togglers = {}
  /\ \A e, f \in Editors : e = f

LEMMA NextRun ==
  ASSUME RunAssumption
  PROVE  RunInv /\ [Next]_vars => RunInv'
<1> SUFFICES ASSUME RunInv, [Next]_vars
             PROVE  (GoneForGood /\ CreatedWithTask /\ FormUpToDate /\ TaskRuns)'
  BY NextRest DEF RunInv, RunAssumption
<1>1. ASSUME NEW e \in Editors, Edit(e)
      PROVE  (GoneForGood /\ CreatedWithTask /\ FormUpToDate /\ TaskRuns)'
  BY <1>1, EditKeepsRun DEF RunAssumption
<1>2. ASSUME UNCHANGED <<db, sync, txn, editor>>, GoneForGood'
      PROVE  (GoneForGood /\ CreatedWithTask /\ FormUpToDate /\ TaskRuns)'
  BY <1>2 DEF RunInv, CreatedWithTask, FormUpToDate, TaskRuns, Own, Pending
<1>3. CASE ListChanges
  <2>1. UNCHANGED <<db, sync, txn, editor>>
    BY <1>3, OtherStep
  <2>2. listChanges = 0 /\ listChanges' = 1 /\ listed
    BY <1>3, ScheduleAssumption
    DEF ListChanges, RunAssumption, RunInv, RestInv, LockInv, TypeOK,
        GoneForGood
  <2>3. GoneForGood'
    BY <1>3, <2>1, <2>2 DEF RunInv, GoneForGood, Own, ListChanges
  <2> QED BY <1>2, <2>1, <2>3
<1>4. CASE Webhook \/ TokenChanges \/ UNCHANGED vars
  <2>1. UNCHANGED <<db, sync, txn, editor, listed, listChanges>>
    BY <1>4, OtherStep DEF Webhook, TokenChanges, vars, providerVars
  <2>2. GoneForGood'
    BY <2>1 DEF RunInv, GoneForGood, Own
  <2> QED BY <1>2, <2>1, <2>2
<1> QED BY <1>1, <1>3, <1>4, SyncKeepsRun DEF Next, RunAssumption

-----------------------------------------------------------------------------
(* The theorems *)

\* The variables keep their types, with all kinds of requests.
THEOREM TypeCorrect == Spec => []TypeOK
BY InitType, NextType, PTL DEF Spec

\* Whatever requests, syncs and repairs overlap, a pause is ended by the settings
\* form alone, or by a request of the button that loaded the cloud before it.
THEOREM PausesHold == Spec => PauseHolds
<1>1. LockInv /\ [Next]_vars =>
        [ db.status = "paused" /\ db'.status # "paused"
            => \/ \E e \in Editors :
                    editor[e].pc = "save" /\ editor'[e].pc # "save"
               \/ \E m \in Manuals : /\ manual[m].pc = "store"
                                     /\ manual'[m].pc # "store"
                                     /\ manual[m].status # "paused"
        ]_vars
  BY PauseStep
<1>2. LockInv /\ [Next]_vars => LockInv'
  BY NextLock
<1> QED BY <1>1, <1>2, InitLock, PTL DEF Spec, PauseHolds

\* With one form or command at a time and without the button, a cloud's sync is
\* scheduled exactly while the cloud is not paused.
THEOREM ScheduleFollows ==
  ASSUME Manuals = {}, \A e, f \in Editors : e = f
  PROVE  Spec => []CloudScheduleFollowsStatus
<1>1. FollowInv => CloudScheduleFollowsStatus
  BY DEF FollowInv, Follows, CloudScheduleFollowsStatus, Quiet
<1>2. FollowInv /\ [Next]_vars => FollowInv'
  BY NextFollows
<1> QED BY <1>1, <1>2, InitFollows, PTL DEF Spec

\* With one form or command at a time, without the button and the switch, the
\* asset of a paused cloud and a disabled asset have no task that runs.
THEOREM UnmonitoredRest ==
  ASSUME Manuals = {}, Togglers = {}, \A e, f \in Editors : e = f
  PROVE  Spec => []UnmonitoredAssetsRest
<1>1. RestInv => UnmonitoredAssetsRest
  BY DEF RestInv, TaskRests, Sound, Pending, UnmonitoredAssetsRest, Quiet
<1>2. RestInv /\ [Next]_vars => RestInv'
  BY NextRest
<1> QED BY <1>1, <1>2, InitRest, PTL DEF Spec

\* A resource that does not come back after it has disappeared is checked
\* while it is monitored in an active cloud, if its type has schedules.
THEOREM MonitoredChecked ==
  ASSUME RunAssumption
  PROVE  Spec => []MonitoredAssetsAreChecked
<1>1. RunInv => MonitoredAssetsAreChecked
  BY DEF RunInv, TaskRuns, Checked, Pending, MonitoredAssetsAreChecked, Quiet
<1>2. RunInv /\ [Next]_vars => RunInv'
  BY NextRun
<1> QED BY <1>1, <1>2, InitRun, PTL DEF Spec
=============================================================================
