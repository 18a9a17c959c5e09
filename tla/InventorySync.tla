---------------------------- MODULE InventorySync ----------------------------
(***************************************************************************)
(* The inventory of one resource family of a cloud: the provider's list is *)
(* read page by page while resources come and go, the pages are checked,   *)
(* and the complete collection is reconciled with the asset rows and the   *)
(* asset's periodic tasks.                                                 *)
(*                                                                         *)
(* A reconciliation is one step: the scheduled sync commits it as one      *)
(* transaction, and CloudSchedules has its overlaps with the console.  The *)
(* provider is external.                                                   *)
(***************************************************************************)
EXTENDS InventoryAdapters, Selection, Naturals, Sequences, FiniteSets,
        SequencesExt, Functions

CONSTANTS
  Resources,
  Families,          \* rows of InventoryAdapters
  PageSize,
  ShrinkDuringRead,  \* page styles under which a resource may vanish between pages
  MaxChanges,        \* bound: resources destroyed or created, regions and credentials
  MaxToggles,        \* bound: uses of the monitoring switch
  MaxFailures        \* bound: pages lost to a transient error

ASSUME InventoryAssumption ==
  /\ IsFiniteSet(Resources)
  /\ Families \subseteq Traits
  /\ PageSize \in Nat \ {0}
  /\ {MaxChanges, MaxToggles, MaxFailures} \subseteq Nat

VARIABLES
  family,       \* the row of InventoryAdapters, fixed
  listing,      \* what the provider lists, in its order
  withdrawn,    \* resources whose region or parent is no longer read
  credentials,  \* the optional credentials of the family are there
  mon,          \* monitoring of each asset row, "unknown" when there is no row
  task,         \* the asset's PeriodicTask
  choice,       \* ghost: the monitoring its user wants, the adapter's at first
  reader,       \* the sync
  changes, toggles, failures

provider == <<family, listing, withdrawn, credentials>>
vars == <<provider, mon, task, choice, reader, changes, toggles, failures>>
assetVars == <<mon, task, choice>>

Monitoring == {"active", "disabled", "gone", "unknown"}
Revives == family.revives # "never"

\* partial: a tolerated failure has occurred; skipped: the children it lost.
\* throughout, seen: ghosts, the resources listed ever since the read began, and
\* those listed at any time since.
IdleReader == [pc |-> "idle", page |-> 0, items |-> <<>>, partial |-> FALSE,
               skipped |-> {}, throughout |-> {}, seen |-> {}]

TypeOK ==
  /\ family \in Families
  /\ listing \in Seq(Resources) /\ IsInjective(listing)
  /\ withdrawn \in SUBSET (Resources \ ToSet(listing))
  /\ credentials \in BOOLEAN
  /\ mon \in [Resources -> Monitoring]
  /\ task \in [Resources -> {"on", "off", "none"}]
  /\ choice \in [Resources -> {"active", "disabled"}]
  /\ reader.pc \in {"idle", "reading", "complete"}
  /\ reader.items \in Seq(Resources)
  /\ reader.partial \in BOOLEAN
  /\ reader.skipped \subseteq Resources
  /\ reader.throughout \subseteq ToSet(listing)
  /\ reader.seen \subseteq Resources
  /\ changes \in 0..MaxChanges
  /\ toggles \in 0..MaxToggles
  /\ failures \in 0..MaxFailures

\* A cloud that was just connected.
Init ==
  /\ family \in Families
  /\ listing \in SetToSeqs(Resources)
  /\ withdrawn = {}
  /\ credentials = TRUE
  /\ mon = [r \in Resources |-> "unknown"]
  /\ task = [r \in Resources |-> "none"]
  /\ choice = [r \in Resources |-> family.initial]
  /\ reader = IdleReader
  /\ changes = 0
  /\ toggles = 0
  /\ failures = 0

-----------------------------------------------------------------------------
(* The provider *)

LastPage == IF listing = <<>> THEN 1 ELSE (Len(listing) + PageSize - 1) \div PageSize

Prefix(s, n) == SubSeq(s, 1, IF n < Len(s) THEN n ELSE Len(s))
Unread ==
  Selected(listing, Resources \ (ToSet(reader.items) \cup reader.skipped))

\* The next page: by number, after a cursor, or everything at once.
Response ==
  CASE family.pages = "single" -> listing
    [] family.pages = "first" -> Prefix(listing, PageSize)
    [] family.pages \in {"cursor", "counted"} -> Prefix(Unread, PageSize)
    [] OTHER -> SubSeq(listing, reader.page * PageSize + 1,
                       IF (reader.page + 1) * PageSize < Len(listing)
                       THEN (reader.page + 1) * PageSize ELSE Len(listing))

\* A resource is destroyed; or its region is disabled, or its parent vanishes,
\* and takes it out of what is read.
Destroy(r) ==
  /\ r \in ToSet(listing)
  /\ reader.pc = "reading" => family.pages \in ShrinkDuringRead
  /\ listing' = Selected(listing, Resources \ {r})
  /\ withdrawn' \in {withdrawn, withdrawn \cup {r}}
  /\ reader' = [reader EXCEPT !.throughout = @ \ {r}]
  /\ UNCHANGED credentials

\* A resource is created, or listed again, at either end of the list.
Create(r) ==
  /\ r \notin ToSet(listing)
  /\ listing' \in {Append(listing, r), <<r>> \o listing}
  /\ withdrawn' = withdrawn \ {r}
  /\ reader' = [reader EXCEPT !.seen = IF reader.pc = "idle" THEN @ ELSE @ \cup {r}]
  /\ UNCHANGED credentials

\* The optional credentials are entered in the settings form, or cleared on the
\* administration page: the form ignores a field that is left empty.
EditCredentials ==
  /\ family.gap # "none"
  /\ credentials' = ~credentials
  /\ UNCHANGED <<listing, withdrawn, reader>>

Change ==
  /\ changes < MaxChanges
  /\ changes' = changes + 1
  /\ (\E r \in Resources : Destroy(r) \/ Create(r)) \/ EditCredentials
  /\ UNCHANGED <<family, assetVars, toggles, failures>>

-----------------------------------------------------------------------------
(* Reading the collection *)

Fetched == reader.items \o Response

\* The tests for the last page: no next page in the links or the pagination
\* metadata; a page that is not full; no cursor for more.
NoNextLink == reader.page + 1 >= LastPage
ShortPage == Len(Response) < PageSize
NoNextCursor == Len(Unread) <= PageSize

\* Mutant: a page that is full is the last one as well.
FullPageIsLast == Len(Response) <= PageSize

IsLastPage ==
  CASE family.pages \in {"single", "first"} -> TRUE
    [] family.pages = "short" -> ShortPage
    [] family.pages \in {"cursor", "counted"} -> NoNextCursor
    [] OTHER -> NoNextLink

\* The checks of Hetzner, no identifier twice, at most total_entries so far and
\* exactly as many at the end, and a page that still exists; and of Vultr's
\* platform families, the total at the end.
Inconsistent ==
  \/ /\ family.pages = "totals"
     /\ \/ ~IsInjective(Fetched)
        \/ Len(listing) < Len(Fetched)
        \/ LastPage < reader.page + 1
        \/ IsLastPage /\ Len(listing) > Len(Fetched)
  \/ family.pages = "counted" /\ IsLastPage /\ Len(listing) # Len(Fetched)

Begin ==
  /\ reader.pc = "idle"
  /\ credentials
  /\ reader' = [IdleReader EXCEPT !.pc = "reading",
                                  !.throughout = ToSet(listing),
                                  !.seen = ToSet(listing)]
  /\ UNCHANGED <<provider, assetVars, changes, toggles, failures>>

ReadPage ==
  /\ reader.pc = "reading"
  /\ ~Inconsistent
  /\ reader' = [reader EXCEPT !.page = @ + 1, !.items = Fetched,
                              !.pc = IF IsLastPage THEN "complete" ELSE @]
  /\ UNCHANGED <<provider, assetVars, changes, toggles, failures>>

\* An inconsistent page raises: the sync fails and is retried.
Reject ==
  /\ reader.pc = "reading"
  /\ Inconsistent
  /\ reader' = IdleReader
  /\ UNCHANGED <<provider, assetVars, changes, toggles, failures>>

\* A request fails, or its response is malformed.
RequestFails ==
  /\ reader.pc = "reading"
  /\ failures < MaxFailures
  /\ failures' = failures + 1
  /\ reader' = IdleReader
  /\ UNCHANGED <<provider, assetVars, changes, toggles>>

\* A request for details fails, or the resource has just vanished, and the
\* adapter goes on: the records stay, or what was requested is lost.
FailureTolerated ==
  /\ reader.pc = "reading"
  /\ ~Inconsistent
  /\ family.details # "required"
  /\ failures < MaxFailures
  /\ failures' = failures + 1
  /\ LET lost == family.details \in {"dropped", "skipped"} IN
     reader' = [reader EXCEPT
       !.page = @ + 1,
       !.partial = @ \/ family.details \in {"kept", "dropped"},
       !.items = IF lost THEN @ ELSE Fetched,
       !.skipped = IF lost THEN @ \cup ToSet(Response) ELSE @,
       !.pc = IF IsLastPage THEN "complete" ELSE @]
  /\ UNCHANGED <<provider, assetVars, changes, toggles>>

-----------------------------------------------------------------------------
(* Reconciling the rows *)

\* Mutant: a row that is gone stays gone in every adapter.
NeverRevived(m) == IF m = "unknown" THEN family.initial ELSE m

\* Monitoring of a listed resource.
Listed(m) ==
  CASE m = "unknown" \/ (m = "gone" /\ family.revives = "gone") -> family.initial
    [] family.revives = "always" -> "active"
    [] OTHER -> m

\* Mutant: a partial collection is taken for a complete one.
UnlistedInPartial(r) == IF mon[r] = "unknown" THEN mon[r] ELSE "gone"

\* Rows that a collection leaves alone: of a partial collection, of a window of
\* a history, of a region or parent that was not read, and listed ones whose
\* details are missing.
LeftAlone(r) ==
  \/ reader.partial
  \/ ~family.marks
  \/ r \in withdrawn /\ family.scope # "account"
  \/ r \in reader.skipped

\* Mutant: only monitored rows are marked.
UnlistedIfMonitored(r) ==
  IF mon[r] # "active" \/ LeftAlone(r) THEN mon[r] ELSE "gone"

\* Monitoring of a resource that the collection lacks.
Unlisted(r) == IF mon[r] = "unknown" \/ LeftAlone(r) THEN mon[r] ELSE "gone"

\* Mutant: only new rows get a task.
TaskOfNewRow(old, new, t) ==
  IF old = "unknown" /\ new # "unknown" THEN "on" ELSE t

\* Mutant: the task is enabled with the monitoring value itself.
EnabledWithMonitoring(old, new, t) == new

\* UtilAsset.save: a task for a new active row of a type that has tasks; when
\* monitoring changed, it is refreshed, or deleted for a row that is gone.
SavedTask(old, new, t) ==
  CASE old = new -> t
    [] old = "unknown" /\ new # old ->
         IF new = "active" /\ family.scheduled THEN "on" ELSE "none"
    [] old \notin {new, "unknown"} ->
         [active |-> "on", disabled |-> "off", gone |-> "none"][new]

Reconcile ==
  /\ reader.pc = "complete"
  /\ LET current == ToSet(reader.items) IN
     /\ mon' = [r \in Resources |->
          IF r \in current THEN Listed(mon[r]) ELSE Unlisted(r)]
     /\ task' = [r \in Resources |->
          IF r \in current \/ family.saves
          THEN SavedTask(mon[r], mon'[r], task[r]) ELSE task[r]]
  /\ reader' = IdleReader
  /\ UNCHANGED <<provider, choice, changes, toggles, failures>>

\* A sync without the optional credentials disables the rows it knows.
SyncWithoutCredentials ==
  /\ reader.pc = "idle"
  /\ ~credentials
  /\ mon' = [r \in Resources |->
                IF mon[r] = "active" THEN "disabled" ELSE mon[r]]
  /\ task' = [r \in Resources |->
       IF family.gap = "save" THEN SavedTask(mon[r], mon'[r], task[r])
       ELSE task[r]]
  /\ UNCHANGED <<provider, choice, reader, changes, toggles, failures>>

\* The monitoring switch: update_monitoring.
Toggle ==
  /\ toggles < MaxToggles
  /\ toggles' = toggles + 1
  /\ \E r \in Resources, target \in {"active", "disabled"} :
       /\ mon[r] # "unknown"
       /\ mon' = [mon EXCEPT ![r] = target]
       /\ task' = [task EXCEPT ![r] = SavedTask(mon[r], target, @)]
       /\ choice' = [choice EXCEPT ![r] = target]
  /\ UNCHANGED <<provider, reader, changes, failures>>

Sync == Begin \/ ReadPage \/ Reject \/ Reconcile \/ SyncWithoutCredentials
Next == Sync \/ RequestFails \/ FailureTolerated \/ Change \/ Toggle

Spec == Init /\ [][Next]_vars

\* The sync stays scheduled and a worker carries it through.
FairSpec == Spec /\ WF_vars(Sync)

-----------------------------------------------------------------------------
(* Properties *)

\* A resource that the provider listed during the whole read is never marked
\* as gone by it, whatever was created meanwhile, however pages are cut and
\* whichever part of the collection was lost; unless only the first page is
\* read.
OnlyVanishedAreMarked ==
  [][\A r \in Resources :
       mon[r] \in {"active", "disabled"} /\ mon'[r] = "gone"
         => r \notin reader.throughout \/ family.pages = "first"]_vars

\* ... and it ends up imported, and alive where the adapter revives rows.
ListedAreImported ==
  [][ Reconcile =>
        \A r \in reader.throughout \ reader.skipped :
          family.pages # "first" =>
            /\ mon'[r] # "unknown"
            /\ Revives => mon'[r] # "gone" ]_vars

\* A reconciliation brings no resource to life that the provider never listed
\* during the read, and leaves none alive, unless the collection is partial or
\* a window, or does not speak of the region or parent.
UnlistedAreMarked ==
  [][ Reconcile =>
        \A r \in Resources \ reader.seen :
          /\ mon[r] \in {"gone", "unknown"} => mon'[r] = mon[r]
          /\ \/ mon'[r] \in {"gone", "unknown"}
             \/ reader.partial \/ ~family.marks
             \/ r \in withdrawn /\ family.scope # "account" ]_vars

\* A monitored asset has its task and a disabled one has not, through syncs,
\* marks, revivals, switches and missing credentials; a gone one keeps a task
\* only where the bulk update bypasses save(), and a disabled one where a bulk
\* update disabled it for want of credentials.  An asset whose type gets no
\* task when it is new has none until its monitoring changes.
TasksFollowMonitoring ==
  \A r \in Resources :
    /\ mon[r] = "active" =>
         task[r] \in (IF family.scheduled THEN {"on"} ELSE {"on", "none"})
    /\ mon[r] = "disabled" => task[r] # "on" \/ family.gap = "bulk"
    /\ family.saves /\ mon[r] = "gone" => task[r] = "none"

\* Once the provider's list and the credentials stop changing, the living rows
\* become the listed resources and stay so, if the adapter revives rows; rows
\* of a region or parent that is no longer read may stay as they were, and so
\* may all that a window of a history has left.
RowsAgreeInTheEnd ==
  Revives /\ family.pages # "first" =>
    \A r \in Resources :
      /\ <>[](r \in ToSet(listing) /\ credentials)
           => <>[](mon[r] \notin {"gone", "unknown"})
      /\ <>[](r \notin ToSet(listing) /\ credentials
              /\ (r \in withdrawn => family.scope = "account"))
           => <>[](mon[r] \in {"gone", "unknown"})

\* The adapters that say so.
PreservingFamilies == {DigitalOcean, Hetzner}

\* The claim of DigitalOcean's _sync_collection and Hetzner's _sync_records:
\* an asset that its user has disabled is not monitored until she enables it.
DisabledStaysDisabled ==
  \A r \in Resources : choice[r] = "disabled" => mon[r] # "active"
=============================================================================
