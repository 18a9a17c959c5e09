---------------------------- MODULE CloudSchedules ----------------------------
(***************************************************************************)
(* The status of one cloud, the monitoring of one of its assets, and their *)
(* two PeriodicTask rows.  The scheduled sync (run_cloud_sync) works in    *)
(* one transaction that locks the cloud row, and so does the webhook's;    *)
(* the console's sync button, the cloud settings form, the command that    *)
(* repairs schedules and the asset's monitoring switch work in autocommit, *)
(* one statement at a time, and overlap it and each other.                 *)
(* Loops over assets do the same for each, so one asset stands for all.    *)
(*                                                                         *)
(* The database is PostgreSQL at READ COMMITTED: a statement reads what is *)
(* committed, and a write waits for a row the open transaction has         *)
(* written.  The provider is external.                                     *)
(***************************************************************************)
EXTENDS Naturals

CONSTANTS
  Manuals,         \* requests of CloudSyncView
  Editors,         \* requests of CloudEditView, runs of the repair command
  Togglers,        \* requests of update_monitoring
  TypeIsScheduled, \* whether UtilAsset.save knows the asset's type
  MaxRequests,     \* bound: console and webhook requests, repairs
  MaxTokenChanges, \* bound: credentials revoked or restored
  MaxListChanges,  \* bound: the resource destroyed or created anew
  MaxFailures      \* bound: syncs that fail on a transient provider error

ASSUME ScheduleAssumption ==
  /\ TypeIsScheduled \in BOOLEAN
  /\ {MaxRequests, MaxTokenChanges, MaxListChanges, MaxFailures} \subseteq Nat

VARIABLES
  db,       \* what is committed
  txn,      \* what the sync's open transaction has written
  sync,     \* the scheduled sync
  due,      \* a sync_cloud_assets message or a webhook request waits
  manual,   \* requests of CloudSyncView
  editor,   \* requests of CloudEditView, runs of the repair command
  toggler,  \* requests of update_monitoring
  valid,    \* whether the provider accepts the cloud's credentials
  listed,   \* whether the provider lists the asset
  requests, tokenChanges, listChanges, failures

vars == <<db, txn, sync, due, manual, editor, toggler, valid, listed,
          requests, tokenChanges, listChanges, failures>>
requestVars == <<manual, editor, toggler, requests>>
providerVars == <<valid, listed, tokenChanges, listChanges>>

-----------------------------------------------------------------------------
Status == {"active", "invalid", "paused"}
Monitoring == {"active", "disabled", "gone", "unknown"} \* unknown: no row yet
Task == {"on", "off", "none"}
Kept == "kept"  \* a row that the transaction has not written

Rows == [status: Status, mon: Monitoring, task: Task, cloudTask: Task]
NoWrites == [status |-> Kept, mon |-> Kept, task |-> Kept, cloudTask |-> Kept]
IdleSync == [pc |-> "idle", status |-> "active", mon |-> "unknown"]
IdleManual == [pc |-> "idle", status |-> "active", mon |-> "unknown",
               changed |-> FALSE]
IdleEditor == [pc |-> "idle", target |-> "active", mon |-> "unknown"]
IdleToggler == [pc |-> "idle", target |-> "active", changed |-> FALSE]

TypeOK ==
  /\ db \in Rows
  /\ txn \in [status: Status \cup {Kept}, mon: Monitoring \cup {Kept},
              task: Task \cup {Kept}, cloudTask: Task \cup {Kept}]
  /\ sync \in [pc: {"idle", "locked", "restore", "inventory", "save", "commit"},
               status: Status, mon: Monitoring]
  /\ due \in BOOLEAN
  /\ manual \in [Manuals -> [pc: {"idle", "inventory", "save", "compare",
                                  "store", "reschedule"},
                             status: Status, mon: Monitoring,
                             changed: BOOLEAN]]
  /\ editor \in [Editors -> [pc: {"idle", "save", "cloudTask", "load", "assets"},
                             target: {"active", "paused"}, mon: Monitoring]]
  /\ toggler \in [Togglers -> [pc: {"idle", "save", "reschedule"},
                               target: {"active", "disabled"},
                               changed: BOOLEAN]]
  /\ valid \in BOOLEAN
  /\ listed \in BOOLEAN
  /\ requests \in 0..MaxRequests
  /\ tokenChanges \in 0..MaxTokenChanges
  /\ listChanges \in 0..MaxListChanges
  /\ failures \in 0..MaxFailures

\* Mutant: the task is enabled with the monitoring value itself.
MonitoringItself(mon) == mon

\* asset_schedule_update, as the state of the upserted task.
AssetTaskFor(mon) == IF mon = "active" THEN "on" ELSE "off"

\* A cloud that was just connected, or one with an asset that its user
\* monitors or has disabled.
Init ==
  /\ \E mon \in {"unknown", "active", "disabled"} :
       db = [status |-> "active", mon |-> mon, cloudTask |-> "on",
             task |-> CASE mon = "unknown" -> "none" [] mon = "active" -> "on"
                        [] mon = "disabled" -> "off"]
  /\ txn = NoWrites
  /\ sync = IdleSync
  /\ due = FALSE
  /\ manual = [m \in Manuals |-> IdleManual]
  /\ editor = [e \in Editors |-> IdleEditor]
  /\ toggler = [t \in Togglers |-> IdleToggler]
  /\ valid = TRUE
  /\ listed = TRUE
  /\ requests = 0
  /\ tokenChanges = 0
  /\ listChanges = 0
  /\ failures = 0

-----------------------------------------------------------------------------
(* Helpers of schedules.py and of the models' save methods *)

\* Mutant: only an active cloud keeps its sync schedule.
EnabledIfActive(status) == IF status = "active" THEN "on" ELSE "off"

\* _cloud_schedule_enabled, as the state of the upserted task.
CloudTaskFor(status) ==
  IF status \in {"active", "invalid"} THEN "on" ELSE "off"

\* One asset of create_all_asset_schedules.
Reconciled(mon, task) ==
  CASE mon = "unknown" -> task
    [] mon = "gone" -> "none"
    [] OTHER -> AssetTaskFor(mon)

\* Mutant: a resource that is listed again stays gone.
NeverRevived(mon) == IF mon = "unknown" THEN "active" ELSE mon

\* The monitoring a listed resource is saved with.
Revived(mon) == IF mon \in {"unknown", "gone"} THEN "active" ELSE mon

\* UtilAsset.save: the task after saving mon, read as `loaded`, over the row's
\* current `original`: created with a new row, refreshed when mon changed.
TaskAfterSave(original, mon, task) ==
  CASE original = "unknown" -> IF TypeIsScheduled THEN "on" ELSE task
    [] original # "unknown" /\ original # mon -> AssetTaskFor(mon)
    [] OTHER -> task

\* What a statement of the sync sees: its own writes over committed rows.
Own(field) == IF txn[field] = Kept THEN db[field] ELSE txn[field]

\* An upsert or update writes, and locks, only what it changes.
Written(field, v) == IF v = Own(field) THEN txn[field] ELSE v

\* The row is not written by the open transaction.
Free(field) == txn[field] = Kept

\* Mutant: the sync reads the cloud row without select_for_update.
LockIgnored == TRUE

\* No sync holds the cloud row's lock.
CloudUnlocked == sync.pc = "idle"

-----------------------------------------------------------------------------
(* sync_cloud_assets and run_cloud_sync *)

\* The cloud's periodic task is due.
SyncDue ==
  /\ db.cloudTask = "on"
  /\ ~due
  /\ due' = TRUE
  /\ UNCHANGED <<db, txn, sync, failures, requestVars, providerVars>>

\* CloudSyncAPIView.post: the webhook syncs the cloud whatever its status and
\* its schedule are.
Webhook ==
  /\ ~due
  /\ requests < MaxRequests
  /\ requests' = requests + 1
  /\ due' = TRUE
  /\ UNCHANGED <<db, txn, sync, failures, manual, editor, toggler, providerVars>>

\* The transaction locks the cloud row, reads it and validates credentials.
SyncLock ==
  /\ due
  /\ sync.pc = "idle"
  /\ sync' = [IdleSync EXCEPT !.pc = "locked", !.status = db.status]
  /\ due' = FALSE
  /\ UNCHANGED <<db, txn, failures, requestVars, providerVars>>

\* Any exception rolls the transaction back; Celery retries the task.
SyncFail ==
  /\ sync.pc # "idle"
  /\ failures < MaxFailures
  /\ failures' = failures + 1
  /\ txn' = NoWrites
  /\ sync' = IdleSync
  /\ due' \in {TRUE, due}
  /\ UNCHANGED <<db, requestVars, providerVars>>

\* Rejected credentials: the assets' schedules go, then the status.
SyncReject ==
  /\ sync.pc = "locked"
  /\ ~valid
  /\ IF sync.status = "active"
     THEN txn' = [txn EXCEPT !.task = Written("task", "none"),
                             !.status = "invalid",
                             !.cloudTask = Written("cloudTask",
                                                   CloudTaskFor("invalid"))]
     ELSE UNCHANGED txn
  /\ sync' = [sync EXCEPT !.pc = "commit"]
  /\ UNCHANGED <<db, due, failures, requestVars, providerVars>>

\* Accepted credentials: an invalid cloud becomes active again and its
\* assets are loaded; an active one goes on to the inventory.
SyncAccept ==
  /\ sync.pc = "locked"
  /\ valid
  /\ \/ /\ sync.status = "invalid"
        /\ txn' = [txn EXCEPT !.status = "active",
                              !.cloudTask = Written("cloudTask",
                                                    CloudTaskFor("active"))]
        /\ sync' = [sync EXCEPT !.pc = "restore", !.status = "active",
                                !.mon = db.mon]
     \/ /\ sync.status # "invalid"
        /\ sync' = [sync EXCEPT !.pc =
             IF sync.status = "active" THEN "inventory" ELSE "commit"]
        /\ UNCHANGED txn
  /\ UNCHANGED <<db, due, failures, requestVars, providerVars>>

\* Mutant: recovery restores the cloud's status but not its schedules.
SyncRestoreNothing ==
  /\ sync.pc = "restore"
  /\ sync' = [sync EXCEPT !.pc = "inventory"]
  /\ UNCHANGED <<db, txn, due, failures, requestVars, providerVars>>

SyncRestore ==
  /\ sync.pc = "restore"
  /\ txn' = [txn EXCEPT !.task =
               Written("task", Reconciled(sync.mon, Own("task")))]
  /\ sync' = [sync EXCEPT !.pc = "inventory"]
  /\ UNCHANGED <<db, due, failures, requestVars, providerVars>>

\* The inventory is complete: a listed resource's row is read ...
SyncFind ==
  /\ sync.pc = "inventory"
  /\ listed
  /\ sync' = [sync EXCEPT !.pc = "save", !.mon = db.mon]
  /\ UNCHANGED <<db, txn, due, failures, requestVars, providerVars>>

\* ... and saved with the monitoring it was read with.
SyncSave ==
  /\ sync.pc = "save"
  /\ txn' = [txn EXCEPT !.mon = Revived(sync.mon),
                        !.task = Written("task", TaskAfterSave(db.mon,
                                           Revived(sync.mon), Own("task")))]
  /\ sync' = [sync EXCEPT !.pc = "commit"]
  /\ UNCHANGED <<db, due, failures, requestVars, providerVars>>

\* A row that is not listed is marked by a bulk update, which runs no save().
SyncMiss ==
  /\ sync.pc = "inventory"
  /\ ~listed
  /\ txn' = [txn EXCEPT !.mon = IF db.mon = "unknown" THEN Kept ELSE "gone"]
  /\ sync' = [sync EXCEPT !.pc = "commit"]
  /\ UNCHANGED <<db, due, failures, requestVars, providerVars>>

SyncCommit ==
  /\ sync.pc = "commit"
  /\ db' = [f \in DOMAIN db |-> Own(f)]
  /\ txn' = NoWrites
  /\ sync' = IdleSync
  /\ UNCHANGED <<due, failures, requestVars, providerVars>>

Sync == SyncLock \/ SyncReject \/ SyncAccept \/ SyncRestore \/ SyncFind
        \/ SyncSave \/ SyncMiss \/ SyncCommit

-----------------------------------------------------------------------------
(* CloudSyncView: the sync button, without the lock and the transaction *)

Others == <<txn, sync, due, failures, providerVars>>

ManualLoad(m) ==
  /\ manual[m].pc = "idle"
  /\ requests < MaxRequests
  /\ requests' = requests + 1
  /\ manual' = [manual EXCEPT ![m] = [IdleManual EXCEPT !.pc = "inventory",
                                                        !.status = db.status]]
  /\ UNCHANGED <<db, editor, toggler, Others>>

ManualFind(m) ==
  /\ manual[m].pc = "inventory"
  /\ listed
  /\ manual' = [manual EXCEPT ![m].pc = "save", ![m].mon = db.mon]
  /\ UNCHANGED <<db, editor, toggler, requests, Others>>

ManualSave(m) ==
  /\ manual[m].pc = "save"
  /\ Free("mon") /\ Free("task")
  /\ LET mon == Revived(manual[m].mon) IN
     db' = [db EXCEPT !.mon = mon,
                      !.task = TaskAfterSave(db.mon, mon, db.task)]
  /\ manual' = [manual EXCEPT ![m].pc = "compare"]
  /\ UNCHANGED <<editor, toggler, requests, Others>>

ManualMiss(m) ==
  /\ manual[m].pc = "inventory"
  /\ ~listed
  /\ Free("mon")
  /\ db' = [db EXCEPT !.mon = IF @ = "unknown" THEN @ ELSE "gone"]
  /\ manual' = [manual EXCEPT ![m].pc = "compare"]
  /\ UNCHANGED <<editor, toggler, requests, Others>>

\* The inventory fails: the view reports an error and stops.
ManualFail(m) ==
  /\ manual[m].pc = "inventory"
  /\ manual' = [manual EXCEPT ![m] = IdleManual]
  /\ UNCHANGED <<db, editor, toggler, requests, Others>>

\* CoreCloud.save: read the row's status, write the whole row as it was
\* loaded, and refresh the sync schedule if the status differs.
ManualCompare(m) ==
  /\ manual[m].pc = "compare"
  /\ manual' = [manual EXCEPT ![m].pc = "store",
                              ![m].changed = db.status # manual[m].status]
  /\ UNCHANGED <<db, editor, toggler, requests, Others>>

ManualStore(m) ==
  /\ manual[m].pc = "store"
  /\ CloudUnlocked
  /\ db' = [db EXCEPT !.status = manual[m].status]
  /\ manual' = [manual EXCEPT ![m] =
       IF manual[m].changed THEN [@ EXCEPT !.pc = "reschedule"] ELSE IdleManual]
  /\ UNCHANGED <<editor, toggler, requests, Others>>

ManualReschedule(m) ==
  /\ manual[m].pc = "reschedule"
  /\ Free("cloudTask")
  /\ db' = [db EXCEPT !.cloudTask = CloudTaskFor(manual[m].status)]
  /\ manual' = [manual EXCEPT ![m] = IdleManual]
  /\ UNCHANGED <<editor, toggler, requests, Others>>

Manual(m) ==
  \/ ManualLoad(m) \/ ManualFind(m) \/ ManualSave(m) \/ ManualMiss(m)
  \/ ManualFail(m) \/ ManualCompare(m) \/ ManualStore(m) \/ ManualReschedule(m)

-----------------------------------------------------------------------------
(* CloudEditView.post, and create_all_cloud_schedules *)

\* The form is submitted; activation needs credentials the provider accepts.
EditSubmit(e) ==
  /\ editor[e].pc = "idle"
  /\ requests < MaxRequests
  /\ requests' = requests + 1
  /\ \E target \in {"active", "paused"} :
       /\ target = "active" => valid
       /\ editor' = [editor EXCEPT ![e] =
                       [IdleEditor EXCEPT !.pc = "save", !.target = target]]
  /\ UNCHANGED <<db, manual, toggler, Others>>

\* The command loads a cloud that is active or recovering, and goes on to its
\* schedule and those of its assets as the form does to activate a cloud: the
\* schedule of a recovering cloud is enabled as that of an active one.
RepairStart(e) ==
  /\ editor[e].pc = "idle"
  /\ requests < MaxRequests
  /\ db.status \in {"active", "invalid"}
  /\ requests' = requests + 1
  /\ editor' = [editor EXCEPT ![e] =
                  [IdleEditor EXCEPT !.pc = "cloudTask", !.target = "active"]]
  /\ UNCHANGED <<db, manual, toggler, Others>>

EditSave(e) ==
  /\ editor[e].pc = "save"
  /\ CloudUnlocked
  /\ db' = [db EXCEPT !.status = editor[e].target]
  /\ editor' = [editor EXCEPT ![e].pc = "cloudTask"]
  /\ UNCHANGED <<manual, toggler, requests, Others>>

EditCloudTask(e) ==
  /\ editor[e].pc = "cloudTask"
  /\ Free("cloudTask")
  /\ db' = [db EXCEPT !.cloudTask = CloudTaskFor(editor[e].target)]
  /\ editor' = [editor EXCEPT ![e].pc = "load"]
  /\ UNCHANGED <<manual, toggler, requests, Others>>

EditLoad(e) ==
  /\ editor[e].pc = "load"
  /\ editor' = [editor EXCEPT ![e].pc = "assets", ![e].mon = db.mon]
  /\ UNCHANGED <<db, manual, toggler, requests, Others>>

\* Mutant: pausing a cloud leaves the schedules of its assets.
EditAssetsWhenActive(e) ==
  /\ editor[e].pc = "assets"
  /\ Free("task")
  /\ db' = [db EXCEPT !.task = IF editor[e].target = "active"
                               THEN Reconciled(editor[e].mon, @) ELSE @]
  /\ editor' = [editor EXCEPT ![e] = IdleEditor]
  /\ UNCHANGED <<manual, toggler, requests, Others>>

EditAssets(e) ==
  /\ editor[e].pc = "assets"
  /\ Free("task")
  /\ db' = [db EXCEPT !.task =
       IF editor[e].target = "active" THEN Reconciled(editor[e].mon, @)
       ELSE IF editor[e].mon = "unknown" THEN @ ELSE "none"]
  /\ editor' = [editor EXCEPT ![e] = IdleEditor]
  /\ UNCHANGED <<manual, toggler, requests, Others>>

EditStep(e) == EditSave(e) \/ EditCloudTask(e) \/ EditLoad(e) \/ EditAssets(e)

Edit(e) == EditSubmit(e) \/ RepairStart(e) \/ EditStep(e)

-----------------------------------------------------------------------------
(* update_monitoring: the switch on the asset's page *)

\* The asset is loaded and its row compared with the new value.
ToggleLoad(t) ==
  /\ toggler[t].pc = "idle"
  /\ requests < MaxRequests
  /\ db.mon # "unknown"
  /\ requests' = requests + 1
  /\ \E target \in {"active", "disabled"} :
       toggler' = [toggler EXCEPT ![t] =
         [pc |-> "save", target |-> target, changed |-> db.mon # target]]
  /\ UNCHANGED <<db, manual, editor, Others>>

ToggleSave(t) ==
  /\ toggler[t].pc = "save"
  /\ Free("mon")
  /\ db' = [db EXCEPT !.mon = toggler[t].target]
  /\ toggler' = [toggler EXCEPT ![t] =
       IF toggler[t].changed THEN [@ EXCEPT !.pc = "reschedule"]
       ELSE IdleToggler]
  /\ UNCHANGED <<manual, editor, requests, Others>>

ToggleReschedule(t) ==
  /\ toggler[t].pc = "reschedule"
  /\ Free("task")
  /\ db' = [db EXCEPT !.task = AssetTaskFor(toggler[t].target)]
  /\ toggler' = [toggler EXCEPT ![t] = IdleToggler]
  /\ UNCHANGED <<manual, editor, requests, Others>>

Toggle(t) == ToggleLoad(t) \/ ToggleSave(t) \/ ToggleReschedule(t)

-----------------------------------------------------------------------------
(* The provider *)

\* The token is revoked or restored.
TokenChanges ==
  /\ tokenChanges < MaxTokenChanges
  /\ tokenChanges' = tokenChanges + 1
  /\ valid' = ~valid
  /\ UNCHANGED <<db, txn, sync, due, failures, requestVars, listed, listChanges>>

\* The resource disappears from the provider's list or is listed again.
ListChanges ==
  /\ listChanges < MaxListChanges
  /\ listChanges' = listChanges + 1
  /\ listed' = ~listed
  /\ UNCHANGED <<db, txn, sync, due, failures, requestVars, valid, tokenChanges>>

Next ==
  \/ SyncDue \/ Webhook \/ Sync \/ SyncFail
  \/ \E m \in Manuals : Manual(m)
  \/ \E e \in Editors : Edit(e)
  \/ \E t \in Togglers : Toggle(t)
  \/ TokenChanges \/ ListChanges

Spec == Init /\ [][Next]_vars

\* The beat sends the task while it is enabled, a worker finishes it, and so
\* does the web server a form that was submitted: a statement that waits for a
\* row's lock is served in turn.
FairSpec ==
  /\ Spec
  /\ WF_vars(SyncDue) /\ WF_vars(Sync)
  /\ \A e \in Editors : SF_vars(EditStep(e))

-----------------------------------------------------------------------------
(* Properties *)

\* No request is under way and the sync is between two runs.
Quiet ==
  /\ sync.pc = "idle"
  /\ \A m \in Manuals : manual[m].pc = "idle"
  /\ \A e \in Editors : editor[e].pc = "idle"
  /\ \A t \in Togglers : toggler[t].pc = "idle"

\* Every asset that the console shows as monitored, in an active cloud, has
\* the periodic task that checks it, once all requests have finished.
MonitoredAssetsAreChecked ==
  Quiet /\ db.status = "active" /\ db.mon = "active" => db.task = "on"

\* An asset that its user disabled, or whose cloud is paused, is not checked.
UnmonitoredAssetsRest ==
  Quiet /\ (db.status = "paused" \/ db.mon = "disabled") => db.task # "on"

\* The sync of a cloud stays scheduled unless the cloud is paused.
CloudScheduleFollowsStatus ==
  Quiet => (db.cloudTask = "on" <=> db.status # "paused")

\* Whatever overlaps, no sync ends a pause: only the settings form does, or a
\* request of the sync button that loaded the cloud before it was paused.
PauseHolds ==
  [][ db.status = "paused" /\ db'.status # "paused"
        => \/ \E e \in Editors : editor[e].pc = "save" /\ editor'[e].pc # "save"
           \/ \E m \in Manuals : /\ manual[m].pc = "store"
                                 /\ manual'[m].pc # "store"
                                 /\ manual[m].status # "paused"
    ]_vars

\* A cloud whose credentials work again, for good, does not stay invalid: its
\* own syncs, which go on meanwhile, find out, whatever the button, the webhook
\* and the switch do.
InvalidCloudsRecover == <>[]valid => <>[](db.status # "invalid")

\* ... and, unless its user pauses it, it becomes active again with its
\* monitored assets checked, although its rejection deleted their tasks and
\* forms, webhooks and failing syncs come in between.
RecoveredCloudsAreChecked ==
  <>[]valid => <>[]( \/ db.status = "paused"
                     \/ /\ db.status = "active"
                        /\ db.mon = "active" => db.task = "on" )

\* Syncs bring the asset in line with the provider: a resource that stays
\* listed ends up imported and alive, one that stays away ends up gone.
InventoryConverges ==
  /\ <>[](valid /\ listed)
       => <>[](db.status = "paused" \/ db.mon \notin {"unknown", "gone"})
  /\ <>[](valid /\ ~listed)
       => <>[](db.status = "paused" \/ db.mon \in {"unknown", "gone"})
=============================================================================
