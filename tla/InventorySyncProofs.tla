------------------------- MODULE InventorySyncProofs -------------------------
(***************************************************************************)
(* Proofs about InventorySync, for any set of resources, any page size and *)
(* every combination of traits an adapter may have.  That rows and tasks   *)
(* stay in step uses nothing of what a read returns; that a sync marks and *)
(* imports what it should rests on what the pages read so far contain, as  *)
(* facts about selections (SelectionProofs), and on whether the numbers of *)
(* the pages keep their meaning while resources come and go.               *)
(***************************************************************************)
EXTENDS InventorySync, SelectionProofs, FiniteSetTheorems

-----------------------------------------------------------------------------
(* Rows and tasks *)

TaskState == {"on", "off", "none"}

\* The types of what a reconciliation reads and writes, and whether it can
\* lack credentials at all.
RowInv ==
  /\ family \in Traits
  /\ mon \in [Resources -> Monitoring]
  /\ task \in [Resources -> TaskState]
  /\ family.gap = "none" => credentials
  /\ credentials \in BOOLEAN

IInv == RowInv /\ TasksFollowMonitoring

\* What TasksFollowMonitoring says of one asset.
InStep(m, t) ==
  /\ m = "active" => t \in (IF family.scheduled THEN {"on"} ELSE {"on", "none"})
  /\ m = "disabled" => t # "on" \/ family.gap = "bulk"
  /\ family.saves /\ m = "gone" => t = "none"

LEMMA SavedTaskTypes ==
  ASSUME NEW old \in Monitoring, NEW new \in Monitoring, NEW t \in TaskState,
         new # "unknown" \/ old = "unknown", family \in Traits
  PROVE  SavedTask(old, new, t) \in TaskState
BY DEF SavedTask, Monitoring, TaskState, Traits

\* A row that is saved has its task in step afterwards, if it was before.
LEMMA SaveKeepsStep ==
  ASSUME NEW old \in Monitoring, NEW new \in Monitoring, NEW t \in TaskState,
         new # "unknown" \/ old = "unknown", family \in Traits, InStep(old, t)
  PROVE  InStep(new, SavedTask(old, new, t))
BY DEF SavedTask, Monitoring, TaskState, Traits, InStep

LEMMA ListedTypes ==
  ASSUME NEW m \in Monitoring, family \in Traits
  PROVE  Listed(m) \in Monitoring \ {"unknown"}
BY DEF Listed, Monitoring, Traits

LEMMA UnlistedTypes ==
  ASSUME RowInv, NEW r \in Resources
  PROVE  /\ Unlisted(r) \in {mon[r], "gone"}
         /\ Unlisted(r) \in Monitoring
         /\ mon[r] = "unknown" <=> Unlisted(r) = "unknown"
BY DEF Unlisted, RowInv, Monitoring

LEMMA InitRows == Init => IInv
<1> SUFFICES ASSUME Init PROVE IInv OBVIOUS
<1>1. family \in Traits /\ credentials
  BY InventoryAssumption DEF Init
<1>2. \A r \in Resources : mon[r] = "unknown" /\ task[r] = "none"
  BY DEF Init
<1>3. mon \in [Resources -> Monitoring] /\ task \in [Resources -> TaskState]
  BY DEF Init, Monitoring, TaskState
<1> QED BY <1>1, <1>2, <1>3 DEF IInv, RowInv, TasksFollowMonitoring, Init

\* A step that leaves an asset alone, or saves its row.
LEMMA RowsInStep ==
  ASSUME IInv, family' = family, credentials' = credentials,
         NEW f \in [Resources -> Monitoring], NEW g \in [Resources -> TaskState],
         mon' = f, task' = g,
         \A r \in Resources : InStep(f[r], g[r])
  PROVE  IInv'
BY DEF IInv, RowInv, TasksFollowMonitoring, InStep

LEMMA ReconcileStep ==
  ASSUME IInv, Reconcile
  PROVE  IInv'
<1> DEFINE current == ToSet(reader.items)
           f == [r \in Resources |->
                   IF r \in current THEN Listed(mon[r]) ELSE Unlisted(r)]
           g == [r \in Resources |->
                   IF r \in current \/ family.saves
                   THEN SavedTask(mon[r], f[r], task[r]) ELSE task[r]]
<1>1. mon' = f
  BY DEF Reconcile
<1>2. task' = g
  BY <1>1 DEF Reconcile
<1>3. UNCHANGED <<family, credentials>>
  BY DEF Reconcile, provider
<1>4. ASSUME NEW r \in Resources
      PROVE  /\ f[r] \in Monitoring /\ g[r] \in TaskState
             /\ InStep(f[r], g[r])
  <2>1. /\ family \in Traits /\ mon[r] \in Monitoring /\ task[r] \in TaskState
        /\ InStep(mon[r], task[r])
    BY DEF IInv, RowInv, TasksFollowMonitoring, InStep
  <2>2. f[r] \in Monitoring /\ (f[r] # "unknown" \/ mon[r] = "unknown")
    BY <2>1, ListedTypes, UnlistedTypes DEF IInv
  <2>3. CASE r \in current \/ family.saves
    <3>1. g[r] = SavedTask(mon[r], f[r], task[r])
      BY <2>3
    <3> HIDE DEF f, g
    <3> QED BY <2>1, <2>2, <3>1, SavedTaskTypes, SaveKeepsStep
  <2>4. CASE ~(r \in current \/ family.saves)
    <3>1. g[r] = task[r] /\ f[r] \in {mon[r], "gone"}
      BY <2>4, UnlistedTypes DEF IInv
    <3> HIDE DEF f, g
    <3> QED BY <2>1, <2>2, <2>4, <3>1 DEF InStep
  <2> QED BY <2>3, <2>4
<1>5. f \in [Resources -> Monitoring] /\ g \in [Resources -> TaskState]
  BY <1>4
<1> HIDE DEF f, g
<1> QED BY <1>1, <1>2, <1>3, <1>4, <1>5, RowsInStep

LEMMA GapStep ==
  ASSUME IInv, SyncWithoutCredentials
  PROVE  IInv'
<1> DEFINE f == [r \in Resources |->
                   IF mon[r] = "active" THEN "disabled" ELSE mon[r]]
           g == [r \in Resources |->
                   IF family.gap = "save" THEN SavedTask(mon[r], f[r], task[r])
                   ELSE task[r]]
<1>1. mon' = f
  BY DEF SyncWithoutCredentials
<1>2. task' = g
  BY <1>1 DEF SyncWithoutCredentials
<1>3. UNCHANGED <<family, credentials>>
  BY DEF SyncWithoutCredentials, provider
<1>4. ASSUME NEW r \in Resources
      PROVE  /\ f[r] \in Monitoring /\ g[r] \in TaskState
             /\ InStep(f[r], g[r])
  <2>1. /\ family \in Traits /\ mon[r] \in Monitoring /\ task[r] \in TaskState
        /\ InStep(mon[r], task[r]) /\ family.gap # "none"
    BY DEF IInv, RowInv, TasksFollowMonitoring, InStep, SyncWithoutCredentials
  <2>2. /\ f[r] \in Monitoring /\ (f[r] # "unknown" \/ mon[r] = "unknown")
        /\ f[r] = mon[r] \/ f[r] = "disabled"
    BY <2>1 DEF Monitoring
  <2>3. CASE family.gap = "save"
    <3>1. g[r] = SavedTask(mon[r], f[r], task[r])
      BY <2>3
    <3> HIDE DEF f, g
    <3> QED BY <2>1, <2>2, <3>1, SavedTaskTypes, SaveKeepsStep
  <2>4. CASE family.gap = "bulk"
    <3>1. g[r] = task[r]
      BY <2>4
    <3> HIDE DEF f, g
    <3> QED BY <2>1, <2>2, <2>4, <3>1 DEF InStep
  <2> QED BY <2>1, <2>3, <2>4 DEF Traits
<1>5. f \in [Resources -> Monitoring] /\ g \in [Resources -> TaskState]
  BY <1>4
<1> HIDE DEF f, g
<1> QED BY <1>1, <1>2, <1>3, <1>4, <1>5, RowsInStep

LEMMA ToggleStep ==
  ASSUME IInv, Toggle
  PROVE  IInv'
<1>1. PICK r \in Resources, target \in {"active", "disabled"} :
        /\ mon[r] # "unknown"
        /\ mon' = [mon EXCEPT ![r] = target]
        /\ task' = [task EXCEPT ![r] = SavedTask(mon[r], target, task[r])]
  BY DEF Toggle, IInv, RowInv
<1>2. /\ family \in Traits /\ target \in Monitoring \ {"unknown"}
      /\ \A q \in Resources : /\ mon[q] \in Monitoring /\ task[q] \in TaskState
                              /\ InStep(mon[q], task[q])
  BY DEF IInv, RowInv, TasksFollowMonitoring, InStep, Monitoring
<1> DEFINE t == SavedTask(mon[r], target, task[r])
<1>3. t \in TaskState /\ InStep(target, t)
  BY <1>2, SavedTaskTypes, SaveKeepsStep
<1>4. task' = [task EXCEPT ![r] = t]
  BY <1>1
<1> HIDE DEF t
<1>5. /\ mon' \in [Resources -> Monitoring]
      /\ task' \in [Resources -> TaskState]
  BY <1>1, <1>2, <1>3, <1>4 DEF IInv, RowInv
<1>6. ASSUME NEW q \in Resources PROVE InStep(mon'[q], task'[q])
  <2>1. CASE q = r
    <3>1. mon'[q] = target /\ task'[q] = t
      BY <1>1, <1>4, <2>1 DEF IInv, RowInv
    <3> QED BY <1>3, <3>1
  <2>2. CASE q # r
    <3>1. mon'[q] = mon[q] /\ task'[q] = task[q]
      BY <1>1, <1>4, <2>2 DEF IInv, RowInv
    <3> QED BY <1>2, <3>1
  <2> QED BY <2>1, <2>2
<1>7. UNCHANGED <<family, credentials>>
  BY DEF Toggle, provider
<1> QED BY <1>5, <1>6, <1>7, RowsInStep

LEMMA NextRows == IInv /\ [Next]_vars => IInv'
<1> SUFFICES ASSUME IInv, [Next]_vars PROVE IInv' OBVIOUS
<1>1. CASE UNCHANGED <<family, credentials, mon, task>>
  BY <1>1 DEF IInv, RowInv, TasksFollowMonitoring
<1>2. CASE Change
  <2>1. UNCHANGED <<family, mon, task>>
    BY <1>2 DEF Change, assetVars
  <2>2. CASE UNCHANGED credentials
    BY <2>1, <2>2 DEF IInv, RowInv, TasksFollowMonitoring
  <2>3. CASE EditCredentials
    BY <2>1, <2>3 DEF EditCredentials, IInv, RowInv, TasksFollowMonitoring
  <2> QED BY <1>2, <2>2, <2>3 DEF Change, Destroy, Create
<1>3. Begin \/ ReadPage \/ Reject \/ RequestFails \/ FailureTolerated
      \/ UNCHANGED vars => UNCHANGED <<family, credentials, mon, task>>
  BY DEF Begin, ReadPage, Reject, RequestFails, FailureTolerated, vars,
         provider, assetVars
<1> QED BY <1>1, <1>2, <1>3, ReconcileStep, GapStep, ToggleStep DEF Next, Sync

-----------------------------------------------------------------------------
(* The theorem *)

\* Through syncs, marks, revivals, switches and missing credentials a monitored
\* asset keeps its task and a disabled one has none that is enabled, whatever
\* traits the adapter has.
THEOREM TasksInStep == Spec => []TasksFollowMonitoring
<1>1. IInv => TasksFollowMonitoring
  BY DEF IInv
<1> QED BY <1>1, InitRows, NextRows, PTL DEF Spec

-----------------------------------------------------------------------------
(* What a read has collected *)

\* Pages that are requested by number.
Numbered == {"links", "short", "totals"}

ReaderTypes ==
  /\ listing \in Seq(Resources)
  /\ reader \in [pc: {"idle", "reading", "complete"}, page: Nat,
                 items: Seq(Resources), partial: BOOLEAN,
                 skipped: SUBSET Resources, throughout: SUBSET Resources,
                 seen: SUBSET Resources]
  /\ reader.throughout \subseteq ToSet(listing)

Gathered == ToSet(reader.items) \cup reader.skipped

\* No list that is read by page numbers shrinks during the read.
StableNumbers == ShrinkDuringRead \cap Numbered = {}

\* Whether the read of the family is to miss nothing.
Followed ==
  family.pages # "first" /\ family.pages \notin Numbered \cap ShrinkDuringRead

\* Of the resources that were there all the time, those within the pages read
\* so far have been collected, or lost by a tolerated failure.
PagesGathered ==
  reader.pc = "reading" /\ Followed /\ family.pages \in Numbered =>
    \A i \in 1..Len(listing) :
      i <= reader.page * PageSize /\ listing[i] \in reader.throughout
        => listing[i] \in Gathered

AllGathered ==
  reader.pc = "complete" /\ Followed =>
    reader.throughout \subseteq Gathered

\* Nothing is collected that was not listed.
OnlySeen ==
  reader.pc # "idle" => Gathered \cup ToSet(listing) \subseteq reader.seen

ReadFacts == ReaderTypes /\ PagesGathered /\ AllGathered /\ OnlySeen
ReadInv == RowInv /\ ReadFacts

LEMMA Elements ==
  ASSUME NEW R, NEW s \in Seq(R)
  PROVE  /\ ToSet(s) \subseteq R
         /\ \A i \in 1..Len(s) : s[i] \in ToSet(s)
         /\ \A x \in ToSet(s) : \E i \in 1..Len(s) : x = s[i]
BY LenProperties DEF ToSet

LEMMA ConcatElements ==
  ASSUME NEW R, NEW s \in Seq(R), NEW t \in Seq(R)
  PROVE  s \o t \in Seq(R) /\ ToSet(s \o t) = ToSet(s) \cup ToSet(t)
<1>1. /\ s \o t \in Seq(R) /\ DOMAIN (s \o t) = 1..(Len(s) + Len(t))
      /\ \A i \in 1..(Len(s) + Len(t)) :
           (s \o t)[i] = IF i <= Len(s) THEN s[i] ELSE t[i - Len(s)]
  BY ConcatProperties, LenProperties
<1>2. Len(s) \in Nat /\ Len(t) \in Nat /\ DOMAIN s = 1..Len(s)
      /\ DOMAIN t = 1..Len(t)
  BY LenProperties
<1>3. ASSUME NEW i \in 1..Len(t)
      PROVE  i + Len(s) \in DOMAIN (s \o t) /\ (s \o t)[i + Len(s)] = t[i]
  BY <1>1, <1>2
<1>4. ASSUME NEW i \in 1..Len(s)
      PROVE  i \in DOMAIN (s \o t) /\ (s \o t)[i] = s[i]
  BY <1>1, <1>2
<1>5. ASSUME NEW i \in DOMAIN (s \o t)
      PROVE  (s \o t)[i] \in ToSet(s) \cup ToSet(t)
  <2>1. CASE i <= Len(s)
    <3>1. i \in DOMAIN s /\ (s \o t)[i] = s[i]
      BY <1>1, <1>2, <2>1
    <3> QED BY <3>1 DEF ToSet
  <2>2. CASE i > Len(s)
    <3>1. i - Len(s) \in DOMAIN t /\ (s \o t)[i] = t[i - Len(s)]
      BY <1>1, <1>2, <2>2
    <3> QED BY <3>1 DEF ToSet
  <2> QED BY <1>1, <1>2, <2>1, <2>2
<1>6. ToSet(s) \subseteq ToSet(s \o t) /\ ToSet(t) \subseteq ToSet(s \o t)
  BY <1>2, <1>3, <1>4, Zenon DEF ToSet
<1>7. ToSet(s \o t) \subseteq ToSet(s) \cup ToSet(t)
  BY <1>5 DEF ToSet
<1> QED BY <1>1, <1>6, <1>7

\* What is put in front is the one thing added.
LEMMA PrependElements ==
  ASSUME NEW R, NEW s \in Seq(R), NEW x \in R
  PROVE  ToSet(<<x>> \o s) = {x} \cup ToSet(s)
<1> DEFINE one == <<x>>
<1>1. one \in Seq(R)
  OBVIOUS
<1>2. ToSet(one) = {x}
  BY DEF ToSet
<1> HIDE DEF one
<1>3. ToSet(one \o s) = ToSet(one) \cup ToSet(s)
  BY <1>1, ConcatElements
<1> QED BY <1>2, <1>3 DEF one

LEMMA PrefixElements ==
  ASSUME NEW R, NEW s \in Seq(R), NEW n \in Nat
  PROVE  /\ Prefix(s, n) \in Seq(R)
         /\ Len(s) <= n => Prefix(s, n) = s
<1>1. Len(s) \in Nat
  BY LenProperties
<1>2. \A m \in 0..Len(s) : SubSeq(s, 1, m) \in Seq(R)
  BY <1>1, SubSeqProperties, ElementOfSeq
<1> QED BY <1>1, <1>2, SubSeqFull DEF Prefix

\* A part of a sequence has nothing else.
LEMMA PartElements ==
  ASSUME NEW R, NEW s \in Seq(R), NEW m \in Nat \ {0}, NEW n \in Nat, n <= Len(s)
  PROVE  ToSet(SubSeq(s, m, n)) \subseteq ToSet(s)
<1>1. \A i \in m..n : s[i] \in ToSet(s)
  BY Elements, LenProperties
<1>2. SubSeq(s, m, n) \in Seq(ToSet(s))
  BY <1>1, SubSeqProperties
<1> QED BY <1>2, Elements

\* The pages by number.
NumberedPage ==
  SubSeq(listing, reader.page * PageSize + 1,
         IF (reader.page + 1) * PageSize < Len(listing)
         THEN (reader.page + 1) * PageSize ELSE Len(listing))

LEMMA NextPage ==
  ASSUME NEW p \in Nat
  PROVE  /\ p * PageSize \in Nat
         /\ (p + 1) * PageSize = p * PageSize + PageSize
BY InventoryAssumption

LEMMA NumberedPageElements ==
  ASSUME ReaderTypes
  PROVE  /\ NumberedPage \in Seq(Resources)
         /\ \A i \in 1..Len(listing) :
              reader.page * PageSize < i /\ i <= (reader.page + 1) * PageSize
                => listing[i] \in ToSet(NumberedPage)
         /\ Len(NumberedPage) < PageSize
              => Len(listing) <= (reader.page + 1) * PageSize
<1> DEFINE a == reader.page * PageSize
           b == (reader.page + 1) * PageSize
           last == IF b < Len(listing) THEN b ELSE Len(listing)
<1>1. /\ a \in Nat /\ b = a + PageSize /\ PageSize \in Nat \ {0}
      /\ Len(listing) \in Nat
  BY NextPage, LenProperties, InventoryAssumption DEF ReaderTypes
<1>2. NumberedPage = SubSeq(listing, a + 1, last)
  BY DEF NumberedPage
<1> HIDE DEF a, b
<1>3. /\ last \in Int /\ a + 1 \in Int
      /\ \A i \in (a + 1)..last : i \in 1..Len(listing)
  BY <1>1
<1>4. \A i \in (a + 1)..last : listing[i] \in Resources
  BY <1>3, ElementOfSeq DEF ReaderTypes
<1> HIDE DEF last
<1>5. /\ NumberedPage \in Seq(Resources)
      /\ Len(NumberedPage) = IF a + 1 <= last THEN last - (a + 1) + 1 ELSE 0
      /\ \A i \in 1..(last - (a + 1) + 1) :
           NumberedPage[i] = listing[(a + 1) + i - 1]
  BY <1>2, <1>3, <1>4, SubSeqProperties
<1>6. ASSUME NEW i \in 1..Len(listing), a < i, i <= b
      PROVE  listing[i] \in ToSet(NumberedPage)
  <2>1. i - a \in 1..(last - (a + 1) + 1) /\ i <= last
    BY <1>1, <1>6 DEF last
  <2>2. i - a \in 1..Len(NumberedPage) /\ NumberedPage[i - a] = listing[i]
    BY <1>1, <1>3, <1>5, <2>1
  <2> QED BY <1>5, <2>2, Elements
<1>7. ASSUME Len(NumberedPage) < PageSize PROVE Len(listing) <= b
  BY <1>1, <1>5, <1>7 DEF last
<1> QED BY <1>5, <1>6, <1>7 DEF a, b

\* A quotient that is rounded up reaches the whole.
LEMMA RoundedUp ==
  ASSUME NEW n \in Nat, NEW d \in Nat \ {0}, NEW p \in Nat,
         p >= (n + d - 1) \div d
  PROVE  n <= p * d
<1> DEFINE q == (n + d - 1) \div d
<1>1. q \in Nat /\ n + d - 1 < (q + 1) * d
  OBVIOUS
<1>2. (q + 1) * d = q * d + d /\ q * d \in Nat
  BY <1>1
<1>3. q * d <= p * d
  BY <1>1
<1> HIDE DEF q
<1> QED BY <1>1, <1>2, <1>3

LEMMA UnreadElements ==
  ASSUME ReaderTypes
  PROVE  /\ Unread \in Seq(Resources)
         /\ ToSet(Unread) = ToSet(listing) \ Gathered
<1> DEFINE S == Resources \ (ToSet(reader.items) \cup reader.skipped)
<1>1. listing \in Seq(Resources)
  BY DEF ReaderTypes
<1>2. Unread = Selected(listing, S)
  BY DEF Unread
<1>3. S = Resources \ Gathered
  BY DEF Gathered
<1> HIDE DEF S
<1>4. Unread \in Seq(Resources) /\ ToSet(Unread) = ToSet(listing) \cap S
  BY <1>1, <1>2, SelectedIsSeq, SelectedElements
<1>5. ToSet(listing) \subseteq Resources
  BY <1>1, Elements
<1> QED BY <1>3, <1>4, <1>5

LEMMA ResponseElements ==
  ASSUME RowInv, ReaderTypes
  PROVE  /\ Response \in Seq(Resources)
         /\ family.pages \in Numbered => Response = NumberedPage
<1>1. PageSize \in Nat
  BY InventoryAssumption
<1>2. listing \in Seq(Resources)
  BY DEF ReaderTypes
<1>3. Unread \in Seq(Resources)
  BY UnreadElements
<1>4. /\ Prefix(listing, PageSize) \in Seq(Resources)
      /\ Prefix(Unread, PageSize) \in Seq(Resources)
  BY <1>1, <1>2, <1>3, PrefixElements
<1> QED BY <1>2, <1>4, NumberedPageElements
     DEF Response, NumberedPage, Numbered, RowInv, Traits

\* A response has only what is listed.
LEMMA ResponseListed ==
  ASSUME RowInv, ReaderTypes
  PROVE  ToSet(Response) \subseteq ToSet(listing)
<1>1. /\ PageSize \in Nat \ {0} /\ reader.page \in Nat
      /\ listing \in Seq(Resources) /\ Len(listing) \in Nat
  BY InventoryAssumption, LenProperties DEF ReaderTypes
<1>2. ASSUME NEW q \in Seq(Resources)
      PROVE  ToSet(Prefix(q, PageSize)) \subseteq ToSet(q)
  <2>1. Len(q) \in Nat
    BY LenProperties
  <2>2. \A n \in 0..Len(q) : ToSet(SubSeq(q, 1, n)) \subseteq ToSet(q)
    BY <2>1, PartElements
  <2> QED BY <1>1, <2>1, <2>2 DEF Prefix
<1>3. /\ ToSet(Prefix(listing, PageSize)) \subseteq ToSet(listing)
      /\ ToSet(Prefix(Unread, PageSize)) \subseteq ToSet(listing)
  BY <1>1, <1>2, UnreadElements
<1>4. ToSet(NumberedPage) \subseteq ToSet(listing)
  <2> DEFINE a == reader.page * PageSize
             b == (reader.page + 1) * PageSize
  <2>1. a \in Nat /\ b \in Nat
    BY <1>1, NextPage
  <2>2. NumberedPage =
          SubSeq(listing, a + 1, IF b < Len(listing) THEN b ELSE Len(listing))
    BY DEF NumberedPage
  <2> HIDE DEF a, b
  <2>3. /\ a + 1 \in Nat \ {0}
        /\ \A n \in 0..Len(listing) :
             ToSet(SubSeq(listing, a + 1, n)) \subseteq ToSet(listing)
    BY <1>1, <2>1, PartElements
  <2> QED BY <1>1, <2>1, <2>2, <2>3
<1> QED BY <1>3, <1>4 DEF Response, NumberedPage

\* The last page completes the collection: the tests for it are right.
LEMMA LastPageCompletes ==
  ASSUME RowInv, ReaderTypes, PagesGathered, reader.pc = "reading", IsLastPage,
         Followed
  PROVE  reader.throughout \subseteq Gathered \cup ToSet(Response)
<1> SUFFICES ASSUME NEW r \in reader.throughout, r \notin Gathered
             PROVE  r \in ToSet(Response)
  OBVIOUS
<1>0. /\ listing \in Seq(Resources) /\ r \in ToSet(listing)
      /\ r \in Resources /\ reader.page \in Nat
  BY DEF ReaderTypes
<1>1. /\ listing \in Seq(Resources) /\ r \in ToSet(listing)
      /\ r \in Resources /\ Len(listing) \in Nat
      /\ reader.page \in Nat /\ PageSize \in Nat \ {0}
  BY <1>0, LenProperties, InventoryAssumption
<1>2. CASE family.pages = "single"
  BY <1>1, <1>2 DEF Response
<1>3. CASE family.pages \in {"cursor", "counted"}
  <2>1. Unread \in Seq(Resources) /\ r \in ToSet(Unread)
    BY <1>1, UnreadElements
  <2>2. Len(Unread) <= PageSize
    BY <1>3 DEF IsLastPage, NoNextCursor
  <2>3. Response = Prefix(Unread, PageSize)
    BY <1>3 DEF Response
  <2> QED BY <1>1, <2>1, <2>2, <2>3, PrefixElements
<1>4. CASE family.pages \in Numbered
  <2>1. Response = NumberedPage
    BY <1>4, ResponseElements
  <2>2. Len(listing) <= (reader.page + 1) * PageSize
    <3>1. CASE family.pages = "short"
      BY <2>1, <3>1, NumberedPageElements DEF IsLastPage, ShortPage
    <3>2. CASE family.pages \in {"links", "totals"}
      <4>1. reader.page + 1 >= LastPage
        BY <3>2 DEF IsLastPage, NoNextLink
      <4>2. CASE listing = <<>>
        <5>1. Len(listing) = 0
          BY <4>2
        <5>2. (reader.page + 1) * PageSize \in Nat
          BY <1>1, NextPage
        <5> QED BY <5>1, <5>2
      <4>3. CASE listing # <<>>
        <5>1. reader.page + 1 >= (Len(listing) + PageSize - 1) \div PageSize
          BY <4>1, <4>3 DEF LastPage
        <5>2. reader.page + 1 \in Nat
          BY <1>1
        <5> QED BY <1>1, <5>1, <5>2, RoundedUp
      <4> QED BY <4>2, <4>3
    <3> QED BY <1>4, <3>1, <3>2 DEF Numbered
  <2>3. PICK i \in 1..Len(listing) : r = listing[i]
    BY <1>1, Elements
  <2>4. ~(i <= reader.page * PageSize)
    BY <1>4, <2>3 DEF PagesGathered, Followed
  <2>5. reader.page * PageSize < i /\ i <= (reader.page + 1) * PageSize
    BY <1>1, <2>2, <2>4, NextPage
  <2> QED BY <2>1, <2>3, <2>5, NumberedPageElements
<1> QED BY <1>2, <1>3, <1>4 DEF RowInv, Traits, Numbered, Followed

-----------------------------------------------------------------------------
(* The steps of the read *)

LEMMA InitRead == Init => ReadInv
<1> SUFFICES ASSUME Init PROVE ReadInv OBVIOUS
<1>1. RowInv
  BY InitRows DEF IInv
<1>2. listing \in Seq(Resources)
  <2>1. Cardinality(Resources) \in Nat
    BY InventoryAssumption, FS_CardinalityType
  <2>2. listing \in [1..Cardinality(Resources) -> Resources]
    BY DEF Init, SetToSeqs
  <2> QED BY <2>1, <2>2, SeqDef
<1>3. <<>> \in Seq(Resources)
  BY EmptySeq
<1> QED BY <1>1, <1>2, <1>3
     DEF Init, IdleReader, ReadInv, ReadFacts, ReaderTypes, PagesGathered,
         AllGathered, OnlySeen

\* A reader that begins anew, or gives up.
LEMMA IdleRead ==
  ASSUME ReadInv, UNCHANGED listing, reader' = IdleReader
  PROVE  ReadFacts'
<1>1. <<>> \in Seq(Resources)
  BY EmptySeq
<1> QED BY <1>1 DEF ReadInv, ReadFacts, ReaderTypes, IdleReader, PagesGathered,
                    AllGathered, OnlySeen

LEMMA BeginStep ==
  ASSUME ReadInv, Begin
  PROVE  ReadFacts'
<1>1. <<>> \in Seq(Resources) /\ UNCHANGED listing
      /\ listing \in Seq(Resources)
  BY EmptySeq DEF Begin, provider, ReadInv, ReadFacts, ReaderTypes
<1>2. reader' = [pc |-> "reading", page |-> 0, items |-> <<>>,
                 partial |-> FALSE, skipped |-> {},
                 throughout |-> ToSet(listing), seen |-> ToSet(listing)]
  BY DEF Begin, IdleReader
<1>3. ToSet(listing) \subseteq Resources
  BY <1>1, Elements
<1>4. ReaderTypes'
  BY <1>1, <1>2, <1>3 DEF ReaderTypes
<1>5. 0 * PageSize = 0
  BY InventoryAssumption
<1>6. PagesGathered' /\ AllGathered'
  BY <1>1, <1>2, <1>5 DEF PagesGathered, Followed, AllGathered
<1>7. ToSet(<<>>) = {}
  BY DEF ToSet
<1>8. OnlySeen'
  BY <1>1, <1>2, <1>7 DEF OnlySeen, Gathered
<1> QED BY <1>4, <1>6, <1>8 DEF ReadFacts

\* The next page is read: what it has is collected or lost.
LEMMA PageStep ==
  ASSUME ReadInv, reader.pc = "reading", UNCHANGED <<family, listing>>,
         NEW lost \in BOOLEAN, NEW partial \in BOOLEAN,
         reader' = [reader EXCEPT
           !.page = @ + 1,
           !.partial = partial,
           !.items = IF lost THEN @ ELSE Fetched,
           !.skipped = IF lost THEN @ \cup ToSet(Response) ELSE @,
           !.pc = IF IsLastPage THEN "complete" ELSE @]
  PROVE  ReadFacts'
<1>1. /\ RowInv /\ ReaderTypes /\ PagesGathered /\ OnlySeen
      /\ listing \in Seq(Resources) /\ reader.items \in Seq(Resources)
      /\ Response \in Seq(Resources)
      /\ reader.page \in Nat /\ reader.skipped \subseteq Resources
      /\ PageSize \in Nat \ {0}
  BY ResponseElements, InventoryAssumption DEF ReadInv, ReadFacts, ReaderTypes
<1>2. /\ Fetched \in Seq(Resources)
      /\ ToSet(Fetched) = ToSet(reader.items) \cup ToSet(Response)
      /\ ToSet(Response) \subseteq Resources
  BY <1>1, ConcatElements, Elements DEF Fetched
<1>3. /\ reader'.page = reader.page + 1
      /\ reader'.items = IF lost THEN reader.items ELSE Fetched
      /\ reader'.skipped = IF lost THEN reader.skipped \cup ToSet(Response)
                           ELSE reader.skipped
      /\ reader'.pc = IF IsLastPage THEN "complete" ELSE "reading"
      /\ reader'.throughout = reader.throughout
      /\ reader'.seen = reader.seen
  BY DEF ReadInv, ReadFacts, ReaderTypes
<1>4. Gathered' = Gathered \cup ToSet(Response)
  BY <1>2, <1>3 DEF Gathered
<1>5. ReaderTypes'
  <2> DEFINE items == IF lost THEN reader.items ELSE Fetched
             skipped == IF lost THEN reader.skipped \cup ToSet(Response)
                        ELSE reader.skipped
             pc == IF IsLastPage THEN "complete" ELSE reader.pc
  <2>1. /\ items \in Seq(Resources) /\ skipped \in SUBSET Resources
        /\ pc \in {"complete", "reading"}
    BY <1>1, <1>2
  <2>2. reader' = [reader EXCEPT !.page = reader.page + 1, !.partial = partial,
                                 !.items = items, !.skipped = skipped, !.pc = pc]
    OBVIOUS
  <2> HIDE DEF items, skipped, pc
  <2>3. reader.page + 1 \in Nat
    BY <1>1
  <2>4. reader' \in [pc: {"idle", "reading", "complete"}, page: Nat,
                    items: Seq(Resources), partial: BOOLEAN,
                    skipped: SUBSET Resources, throughout: SUBSET Resources,
                    seen: SUBSET Resources]
    BY <1>1, <2>1, <2>2, <2>3, Zenon DEF ReaderTypes
  <2> QED BY <1>1, <1>3, <2>4 DEF ReaderTypes
<1>6. AllGathered'
  BY <1>1, <1>3, <1>4, LastPageCompletes DEF AllGathered, Followed
<1>7. PagesGathered'
  <2> SUFFICES ASSUME family.pages \in Numbered, NEW i \in 1..Len(listing),
                      Followed, i <= (reader.page + 1) * PageSize,
                      listing[i] \in reader.throughout
               PROVE  listing[i] \in Gathered'
    BY <1>3 DEF PagesGathered, Followed
  <2>1. Len(listing) \in Nat /\ reader.page * PageSize \in Nat
    BY <1>1, LenProperties, NextPage
  <2>2. CASE i <= reader.page * PageSize
    BY <1>1, <1>4, <2>2 DEF PagesGathered, Followed
  <2>3. CASE i > reader.page * PageSize
    BY <1>1, <1>4, <2>3, NumberedPageElements, ResponseElements
  <2> QED BY <2>1, <2>2, <2>3
<1>8. OnlySeen'
  BY <1>1, <1>3, <1>4, ResponseListed DEF OnlySeen
<1> QED BY <1>5, <1>6, <1>7, <1>8 DEF ReadFacts

LEMMA DestroyStep ==
  ASSUME ReadInv, NEW r \in Resources, Destroy(r),
         UNCHANGED family
  PROVE  ReadFacts'
<1> DEFINE S == Resources \ {r}
<1>1. listing \in Seq(Resources) /\ listing' = Selected(listing, S)
  BY DEF ReadInv, ReadFacts, ReaderTypes, Destroy
<1>2. /\ listing' \in Seq(Resources)
      /\ ToSet(listing') = ToSet(listing) \cap S
  BY <1>1, SelectedIsSeq, SelectedElements
<1>3. /\ reader' = [reader EXCEPT !.throughout = @ \ {r}]
      /\ reader.pc = "reading" => family.pages \in ShrinkDuringRead
  BY DEF Destroy
<1>4. ReaderTypes'
  BY <1>1, <1>2, <1>3 DEF ReadInv, ReadFacts, ReaderTypes
<1>5. AllGathered'
  BY <1>3 DEF ReadInv, ReadFacts, ReaderTypes, AllGathered, Gathered, Followed
<1>6. PagesGathered'
  BY <1>3 DEF ReadInv, ReadFacts, ReaderTypes, PagesGathered, Followed
<1>7. OnlySeen'
  BY <1>2, <1>3 DEF ReadInv, ReadFacts, ReaderTypes, OnlySeen, Gathered
<1> QED BY <1>4, <1>5, <1>6, <1>7 DEF ReadFacts

LEMMA CreateStep ==
  ASSUME ReadInv, NEW r \in Resources, Create(r), UNCHANGED family
  PROVE  ReadFacts'
<1>1. /\ listing \in Seq(Resources) /\ Len(listing) \in Nat
      /\ r \notin ToSet(listing) /\ r \notin reader.throughout
      /\ reader.page * PageSize \in Nat
  BY LenProperties, NextPage DEF ReadInv, ReadFacts, ReaderTypes, Create
<1>4. /\ reader' \in [pc: {"idle", "reading", "complete"}, page: Nat,
                      items: Seq(Resources), partial: BOOLEAN,
                      skipped: SUBSET Resources, throughout: SUBSET Resources,
                      seen: SUBSET Resources]
      /\ reader'.pc = reader.pc /\ reader'.page = reader.page
      /\ reader'.items = reader.items /\ reader'.skipped = reader.skipped
      /\ reader'.throughout = reader.throughout
      /\ reader.pc # "idle" => reader'.seen = reader.seen \cup {r}
  <2> DEFINE seen == IF reader.pc = "idle" THEN reader.seen
                     ELSE reader.seen \cup {r}
  <2>1. reader' = [reader EXCEPT !.seen = seen]
    BY DEF Create
  <2>2. seen \in SUBSET Resources
    BY DEF ReadInv, ReadFacts, ReaderTypes
  <2>3. reader.pc # "idle" => seen = reader.seen \cup {r}
    OBVIOUS
  <2> HIDE DEF seen
  <2> QED BY <2>1, <2>2, <2>3 DEF ReadInv, ReadFacts, ReaderTypes
<1>2. CASE listing' = Append(listing, r)
  <2>1. /\ listing' \in Seq(Resources) /\ Len(listing') = Len(listing) + 1
        /\ \A i \in 1..Len(listing) : listing'[i] = listing[i]
        /\ listing'[Len(listing) + 1] = r
    BY <1>1, <1>2, AppendProperties
  <2>2. ToSet(listing) \subseteq ToSet(listing')
    BY <1>1, <2>1, LenProperties DEF ToSet
  <2>3. ReaderTypes' /\ AllGathered'
    BY <1>1, <1>4, <2>1, <2>2
       DEF ReadInv, ReadFacts, ReaderTypes, AllGathered, Gathered, Followed
  <2>4. PagesGathered'
    <3> SUFFICES ASSUME reader.pc = "reading", family.pages \in Numbered,
                        Followed,
                        NEW i \in 1..(Len(listing) + 1),
                        i <= reader.page * PageSize,
                        listing'[i] \in reader.throughout
                 PROVE  listing'[i] \in Gathered
      BY <1>1, <1>4, <2>1 DEF PagesGathered, Followed, Gathered
    <3>1. i \in 1..Len(listing) /\ listing'[i] = listing[i]
      BY <1>1, <2>1
    <3> QED BY <3>1 DEF ReadInv, ReadFacts, PagesGathered
  <2>5. ToSet(listing') \subseteq ToSet(listing) \cup {r}
    BY <1>1, <2>1, LenProperties DEF ToSet
  <2>6. OnlySeen'
    BY <1>4, <2>5 DEF ReadInv, ReadFacts, OnlySeen, Gathered
  <2> QED BY <2>3, <2>4, <2>6 DEF ReadFacts
<1>3. CASE listing' = <<r>> \o listing
  <2>1. <<r>> \in Seq(Resources) /\ Len(<<r>>) = 1 /\ <<r>>[1] = r
    OBVIOUS
  <2>2. /\ listing' \in Seq(Resources) /\ Len(listing') = Len(listing) + 1
        /\ \A i \in 1..(Len(listing) + 1) :
             listing'[i] = IF i <= 1 THEN r ELSE listing[i - 1]
    <3>1. \A i \in 1..(1 + Len(listing)) :
            listing'[i] = IF i <= 1 THEN <<r>>[i] ELSE listing[i - 1]
      BY <1>1, <1>3, <2>1, ConcatProperties
    <3> QED BY <1>1, <1>3, <2>1, <3>1, ConcatProperties
  <2>3. /\ ToSet(listing) \subseteq ToSet(listing')
        /\ ToSet(listing') \subseteq ToSet(listing) \cup {r}
    <3>1. ToSet(<<r>> \o listing) = {r} \cup ToSet(listing)
      BY <1>1, PrependElements
    <3> QED BY <1>3, <3>1
  <2>4. ReaderTypes' /\ AllGathered'
    BY <1>1, <1>4, <2>2, <2>3
       DEF ReadInv, ReadFacts, ReaderTypes, AllGathered, Gathered, Followed
  <2>5. PagesGathered'
    <3> SUFFICES ASSUME reader.pc = "reading", family.pages \in Numbered,
                        Followed,
                        NEW i \in 1..(Len(listing) + 1),
                        i <= reader.page * PageSize,
                        listing'[i] \in reader.throughout
                 PROVE  listing'[i] \in Gathered
      BY <1>1, <1>4, <2>2 DEF PagesGathered, Followed, Gathered
    <3>1. i # 1
      BY <1>1, <2>2
    <3>2. /\ i - 1 \in 1..Len(listing) /\ i - 1 <= reader.page * PageSize
          /\ listing'[i] = listing[i - 1]
      BY <1>1, <2>2, <3>1
    <3> QED BY <3>2 DEF ReadInv, ReadFacts, PagesGathered, Followed
  <2>6. OnlySeen'
    BY <1>4, <2>3 DEF ReadInv, ReadFacts, OnlySeen, Gathered
  <2> QED BY <2>4, <2>5, <2>6 DEF ReadFacts
<1> QED BY <1>2, <1>3 DEF Create

LEMMA NextRead == ReadInv /\ IInv /\ [Next]_vars => ReadInv'
<1> SUFFICES ASSUME ReadInv, IInv, [Next]_vars PROVE ReadInv' OBVIOUS
<1>1. RowInv'
  BY NextRows DEF IInv
<1>2. ReadFacts'
  <2>1. CASE Begin
    BY <2>1, BeginStep
  <2>2. CASE ReadPage
    <3> DEFINE lost == FALSE
               partial == reader.partial
    <3>1. lost \in BOOLEAN /\ partial \in BOOLEAN
      BY DEF ReadInv, ReadFacts, ReaderTypes
    <3>2. /\ reader.pc = "reading" /\ UNCHANGED <<family, listing>>
          /\ reader' = [reader EXCEPT
               !.page = reader.page + 1, !.items = Fetched,
               !.pc = IF IsLastPage THEN "complete" ELSE reader.pc]
      BY <2>2 DEF ReadPage, provider
    <3>3. reader' = [reader EXCEPT
            !.page = reader.page + 1,
            !.partial = partial,
            !.items = IF lost THEN reader.items ELSE Fetched,
            !.skipped = IF lost THEN reader.skipped \cup ToSet(Response)
                        ELSE reader.skipped,
            !.pc = IF IsLastPage THEN "complete" ELSE reader.pc]
      BY <3>2 DEF ReadInv, ReadFacts, ReaderTypes
    <3> HIDE DEF lost, partial
    <3> QED BY <3>1, <3>2, <3>3, PageStep
  <2>3. CASE FailureTolerated
    <3> DEFINE lost == family.details \in {"dropped", "skipped"}
               partial == reader.partial \/ family.details \in {"kept", "dropped"}
    <3>1. lost \in BOOLEAN /\ partial \in BOOLEAN
      OBVIOUS
    <3>2. /\ reader.pc = "reading" /\ UNCHANGED <<family, listing>>
          /\ reader' = [reader EXCEPT
               !.page = reader.page + 1,
               !.partial = partial,
               !.items = IF lost THEN reader.items ELSE Fetched,
               !.skipped = IF lost THEN reader.skipped \cup ToSet(Response)
                           ELSE reader.skipped,
               !.pc = IF IsLastPage THEN "complete" ELSE reader.pc]
      BY <2>3 DEF FailureTolerated, provider
    <3> HIDE DEF lost, partial
    <3> QED BY <3>1, <3>2, PageStep
  <2>4. CASE Reject \/ RequestFails \/ Reconcile
    BY <2>4, IdleRead DEF Reject, RequestFails, Reconcile, provider
  <2>5. CASE UNCHANGED <<family, listing, reader>>
    BY <2>5 DEF ReadInv, ReadFacts, ReaderTypes, PagesGathered, AllGathered,
                OnlySeen, Gathered, Followed
  <2>6. CASE Change
    <3>1. UNCHANGED family
      BY <2>6 DEF Change
    <3>2. CASE EditCredentials
      BY <2>5, <3>1, <3>2 DEF EditCredentials
    <3> QED BY <2>6, <3>1, <3>2, DestroyStep, CreateStep DEF Change
  <2> QED BY <2>1, <2>2, <2>3, <2>4, <2>5, <2>6
       DEF Next, Sync, SyncWithoutCredentials, Toggle, vars, provider
<1> QED BY <1>1, <1>2 DEF ReadInv

-----------------------------------------------------------------------------
(* Types *)

\* What the type invariant says beyond ReadInv.
ListTypes ==
  /\ family \in Families
  /\ IsInjective(listing)
  /\ withdrawn \in SUBSET (Resources \ ToSet(listing))
  /\ choice \in [Resources -> {"active", "disabled"}]
  /\ changes \in 0..MaxChanges
  /\ toggles \in 0..MaxToggles
  /\ failures \in 0..MaxFailures

LEMMA InitTypes == Init => ListTypes
<1> SUFFICES ASSUME Init PROVE ListTypes OBVIOUS
<1>1. IsInjective(listing)
  BY DEF Init, SetToSeqs, IsInjective
<1>2. family.initial \in {"active", "disabled"}
  BY InventoryAssumption DEF Init, Traits
<1> QED BY <1>1, <1>2, InventoryAssumption DEF Init, ListTypes

LEMMA DestroyTypes ==
  ASSUME ReadInv, ListTypes, NEW r \in Resources, Destroy(r)
  PROVE  /\ IsInjective(listing')
         /\ withdrawn' \in SUBSET (Resources \ ToSet(listing'))
<1> DEFINE S == Resources \ {r}
<1>1. /\ listing \in Seq(Resources) /\ listing' = Selected(listing, S)
      /\ withdrawn' \in {withdrawn, withdrawn \cup {r}}
  BY DEF ReadInv, ReadFacts, ReaderTypes, Destroy
<1>2. ToSet(listing') = ToSet(listing) \cap S /\ IsInjective(listing')
  BY <1>1, SelectedElements, SelectedInjective DEF ListTypes
<1> QED BY <1>1, <1>2 DEF ListTypes

LEMMA CreateTypes ==
  ASSUME ReadInv, ListTypes, NEW r \in Resources, Create(r)
  PROVE  /\ IsInjective(listing')
         /\ withdrawn' \in SUBSET (Resources \ ToSet(listing'))
<1>1. /\ listing \in Seq(Resources) /\ Len(listing) \in Nat
      /\ DOMAIN listing = 1..Len(listing)
      /\ r \notin ToSet(listing) /\ withdrawn' = withdrawn \ {r}
      /\ \A i, j \in 1..Len(listing) : listing[i] = listing[j] => i = j
      /\ \A i \in 1..Len(listing) : listing[i] # r
  <2>1. listing \in Seq(Resources) /\ IsInjective(listing)
    BY DEF ReadInv, ReadFacts, ReaderTypes, ListTypes
  <2>2. Len(listing) \in Nat /\ DOMAIN listing = 1..Len(listing)
    BY <2>1, LenProperties
  <2> QED BY <2>1, <2>2 DEF Create, IsInjective, ToSet
<1>2. CASE listing' = Append(listing, r)
  <2>1. /\ DOMAIN listing' = 1..(Len(listing) + 1)
        /\ \A i \in 1..Len(listing) : listing'[i] = listing[i]
        /\ listing'[Len(listing) + 1] = r
    BY <1>1, <1>2, AppendProperties, LenProperties
  <2>2. IsInjective(listing')
    BY <1>1, <2>1 DEF IsInjective
  <2>3. ToSet(listing') \subseteq ToSet(listing) \cup {r}
    BY <1>1, <2>1 DEF ToSet
  <2> QED BY <1>1, <2>2, <2>3 DEF ListTypes
<1>3. CASE listing' = <<r>> \o listing
  <2>1. <<r>> \in Seq(Resources) /\ Len(<<r>>) = 1 /\ <<r>>[1] = r
        /\ ToSet(<<r>>) = {r}
    BY DEF ToSet
  <2>2. /\ DOMAIN listing' = 1..(Len(listing) + 1)
        /\ \A i \in 1..(Len(listing) + 1) :
             listing'[i] = IF i <= 1 THEN r ELSE listing[i - 1]
    <3>1. /\ Len(listing') = 1 + Len(listing) /\ listing' \in Seq(Resources)
          /\ \A i \in 1..(1 + Len(listing)) :
               listing'[i] = IF i <= 1 THEN <<r>>[i] ELSE listing[i - 1]
      BY <1>1, <1>3, <2>1, ConcatProperties
    <3> QED BY <1>1, <2>1, <3>1, LenProperties
  <2>3. ASSUME NEW i \in 1..(Len(listing) + 1), NEW j \in 1..(Len(listing) + 1),
               listing'[i] = listing'[j]
        PROVE  i = j
    BY <1>1, <2>2, <2>3
  <2>4. IsInjective(listing')
    BY <2>2, <2>3 DEF IsInjective
  <2>5. ToSet(listing') = {r} \cup ToSet(listing)
    <3>1. ToSet(<<r>> \o listing) = {r} \cup ToSet(listing)
      BY <1>1, PrependElements
    <3> QED BY <1>3, <3>1
  <2>6. withdrawn' \in SUBSET (Resources \ ToSet(listing'))
    <3>1. withdrawn \subseteq Resources \ ToSet(listing)
      BY DEF ListTypes
    <3> QED BY <1>1, <2>5, <3>1
  <2> QED BY <2>4, <2>6
<1> QED BY <1>2, <1>3 DEF Create

LEMMA NextTypes == ReadInv /\ ListTypes /\ [Next]_vars => ListTypes'
<1> SUFFICES ASSUME ReadInv, ListTypes, [Next]_vars PROVE ListTypes' OBVIOUS
<1>1. CASE Change
  <2>1. /\ changes' \in 0..MaxChanges
        /\ UNCHANGED <<family, choice, toggles, failures>>
    BY <1>1, InventoryAssumption DEF Change, ListTypes, assetVars
  <2>2. /\ IsInjective(listing')
        /\ withdrawn' \in SUBSET (Resources \ ToSet(listing'))
    <3>1. CASE EditCredentials
      BY <3>1 DEF EditCredentials, ListTypes
    <3> QED BY <1>1, <3>1, DestroyTypes, CreateTypes DEF Change
  <2> QED BY <2>1, <2>2 DEF ListTypes
<1>2. CASE Toggle
  <2>1. /\ toggles' \in 0..MaxToggles
        /\ UNCHANGED <<family, listing, withdrawn, changes, failures>>
    BY <1>2, InventoryAssumption DEF Toggle, ListTypes, provider
  <2>2. choice' \in [Resources -> {"active", "disabled"}]
    BY <1>2 DEF Toggle, ListTypes
  <2> QED BY <2>1, <2>2 DEF ListTypes
<1>3. CASE RequestFails \/ FailureTolerated
  <2>1. /\ failures' \in 0..MaxFailures
        /\ UNCHANGED <<family, listing, withdrawn, choice, changes, toggles>>
    BY <1>3, InventoryAssumption
       DEF RequestFails, FailureTolerated, ListTypes, provider, assetVars
  <2> QED BY <2>1, Zenon DEF ListTypes
<1>4. CASE UNCHANGED <<family, listing, withdrawn, choice, changes, toggles,
                       failures>>
  BY <1>4 DEF ListTypes
<1> QED BY <1>1, <1>2, <1>3, <1>4
     DEF Next, Sync, Begin, ReadPage, Reject, Reconcile, SyncWithoutCredentials,
         vars, provider, assetVars

\* The variables keep their types: in particular the provider's list has no
\* resource twice, and a reader only follows resources that are listed.
THEOREM TypeCorrect == Spec => []TypeOK
<1>1. ReadInv /\ ListTypes => TypeOK
  BY DEF ReadInv, ReadFacts, RowInv, ReaderTypes, ListTypes, TypeOK, TaskState
<1> QED BY <1>1, InitRows, NextRows, InitRead, NextRead, InitTypes, NextTypes,
           PTL DEF Spec

-----------------------------------------------------------------------------
(* What a reconciliation does with the collection *)

OnlyVanishedStep ==
  \A r \in Resources :
    mon[r] \in {"active", "disabled"} /\ mon'[r] = "gone"
      => r \notin reader.throughout \/ family.pages = "first"

ImportStep ==
  Reconcile =>
    \A r \in reader.throughout \ reader.skipped :
      family.pages # "first" =>
        /\ mon'[r] # "unknown"
        /\ Revives => mon'[r] # "gone"

LEMMA ReconciledMonitoring ==
  ASSUME ReadInv, Reconcile, NEW r \in Resources
  PROVE  mon'[r] = IF r \in ToSet(reader.items) THEN Listed(mon[r])
                   ELSE Unlisted(r)
BY DEF Reconcile

LEMMA ReconcileImports == StableNumbers /\ ReadInv => ImportStep
<1> USE DEF StableNumbers, Followed
<1> SUFFICES ASSUME StableNumbers, ReadInv, Reconcile, family.pages # "first",
                    NEW r \in reader.throughout \ reader.skipped
             PROVE  mon'[r] # "unknown" /\ (Revives => mon'[r] # "gone")
  BY DEF ImportStep
<1>1. /\ r \in Resources /\ r \in ToSet(reader.items)
      /\ mon[r] \in Monitoring /\ family \in Traits
  BY DEF ReadInv, ReadFacts, RowInv, ReaderTypes, AllGathered, Gathered,
         Followed, Reconcile
<1>2. mon'[r] = Listed(mon[r])
  BY <1>1, ReconciledMonitoring
<1> QED BY <1>1, <1>2 DEF Listed, Revives, Traits, Monitoring

\* What the collection lacks is marked, and what it has was listed.
MarkStep ==
  Reconcile =>
    \A r \in Resources \ reader.seen :
      /\ mon[r] \in {"gone", "unknown"} => mon'[r] = mon[r]
      /\ \/ mon'[r] \in {"gone", "unknown"}
         \/ reader.partial \/ ~family.marks
         \/ r \in withdrawn /\ family.scope # "account"

LEMMA ReconcileMarks == ReadInv => MarkStep
<1> SUFFICES ASSUME ReadInv, Reconcile, NEW r \in Resources \ reader.seen
             PROVE  /\ mon[r] \in {"gone", "unknown"} => mon'[r] = mon[r]
                    /\ \/ mon'[r] \in {"gone", "unknown"}
                       \/ reader.partial \/ ~family.marks
                       \/ r \in withdrawn /\ family.scope # "account"
  BY DEF MarkStep
<1>1. r \notin ToSet(reader.items) /\ r \notin reader.skipped
  BY DEF ReadInv, ReadFacts, OnlySeen, Gathered, Reconcile
<1>2. mon'[r] = Unlisted(r)
  BY <1>1, ReconciledMonitoring
<1> QED BY <1>1, <1>2 DEF Unlisted, LeftAlone

LEMMA StepMarksVanished ==
  StableNumbers /\ ReadInv /\ [Next]_vars => OnlyVanishedStep
<1> USE DEF StableNumbers, Followed
<1> SUFFICES ASSUME StableNumbers, ReadInv, [Next]_vars, NEW r \in Resources,
                    mon[r] \in {"active", "disabled"}, mon'[r] = "gone",
                    r \in reader.throughout, family.pages # "first"
             PROVE  FALSE
  BY DEF OnlyVanishedStep
<1>1. mon \in [Resources -> Monitoring] /\ family \in Traits
  BY DEF ReadInv, ReadFacts, RowInv
<1>2. CASE Reconcile
  <2>1. r \in ToSet(reader.items) \/ r \in reader.skipped
    BY <1>2 DEF ReadInv, ReadFacts, AllGathered, Gathered, Followed, Reconcile
  <2>2. CASE r \in ToSet(reader.items)
    <3>1. mon'[r] = Listed(mon[r])
      BY <1>2, <2>2, ReconciledMonitoring
    <3> QED BY <1>1, <3>1 DEF Listed, Traits
  <2>3. CASE r \notin ToSet(reader.items)
    <3>1. mon'[r] = Unlisted(r)
      BY <1>2, <2>3, ReconciledMonitoring
    <3> QED BY <2>1, <2>3, <3>1 DEF Unlisted, LeftAlone
  <2> QED BY <2>2, <2>3
<1>3. CASE SyncWithoutCredentials
  BY <1>1, <1>3 DEF SyncWithoutCredentials
<1>4. CASE Toggle
  <2>1. PICK q \in Resources, target \in {"active", "disabled"} :
          mon' = [mon EXCEPT ![q] = target]
    BY <1>4 DEF Toggle
  <2> QED BY <1>1, <2>1
<1>5. CASE UNCHANGED mon
  BY <1>5
<1> QED BY <1>2, <1>3, <1>4, <1>5
     DEF Next, Sync, Begin, ReadPage, Reject, RequestFails, FailureTolerated,
         Change, vars, assetVars

\* A sync never marks a resource as gone that the provider listed during the
\* whole read: for every page size, every combination of traits and any changes
\* meanwhile, if no list read by page numbers shrinks during the read.
THEOREM VanishedOnly ==
  ASSUME StableNumbers
  PROVE  Spec => OnlyVanishedAreMarked
<1>1. ReadInv /\ [Next]_vars => [OnlyVanishedStep]_vars
  BY StepMarksVanished
<1> QED BY <1>1, InitRows, NextRows, InitRead, NextRead, PTL
     DEF Spec, OnlyVanishedAreMarked, OnlyVanishedStep

\* ... and imports it, and revives its row where the adapter revives rows.
THEOREM ListedImported ==
  ASSUME StableNumbers
  PROVE  Spec => ListedAreImported
<1>1. ReadInv /\ [Next]_vars => [ImportStep]_vars
  BY ReconcileImports
<1> QED BY <1>1, InitRows, NextRows, InitRead, NextRead, PTL
     DEF Spec, ListedAreImported, ImportStep

\* Under no condition on how lists change: a reconciliation brings nothing to
\* life that was not listed during the read, and marks what was not, if its
\* collection is complete.
THEOREM UnlistedMarked == Spec => UnlistedAreMarked
<1>1. ReadInv /\ [Next]_vars => [MarkStep]_vars
  BY ReconcileMarks
<1> QED BY <1>1, InitRows, NextRows, InitRead, NextRead, PTL
     DEF Spec, UnlistedAreMarked, MarkStep

-----------------------------------------------------------------------------
(* What the user has chosen *)

\* Collectors that never revive a row, or only as disabled, or that mark none.
KeepsChoices ==
  \/ family.revives = "never"
  \/ family.revives = "gone" /\ (family.initial = "disabled" \/ ~family.marks)

\* A row that a sync creates is what the user would have chosen, and only a
\* collector that marks rows has any to revive.
ChoiceInv ==
  /\ choice \in [Resources -> {"active", "disabled"}]
  /\ \A r \in Resources :
       /\ mon[r] = "unknown" => choice[r] = family.initial
       /\ mon[r] = "gone" => family.marks
       /\ KeepsChoices /\ choice[r] = "disabled" => mon[r] # "active"

LEMMA InitChoice == Init => ChoiceInv
<1> SUFFICES ASSUME Init PROVE ChoiceInv OBVIOUS
<1>1. family \in Traits
  BY InventoryAssumption DEF Init
<1> QED BY <1>1 DEF Init, ChoiceInv, Traits

\* What a reconciliation makes of a row that the user wants disabled.
LEMMA RowKeepsChoice ==
  ASSUME IInv, ChoiceInv, Reconcile, NEW r \in Resources
  PROVE  /\ mon'[r] = "unknown" => mon[r] = "unknown"
         /\ mon'[r] = "gone" => family.marks
         /\ KeepsChoices /\ choice[r] = "disabled" => mon'[r] # "active"
<1>1. family \in Traits /\ mon[r] \in Monitoring
  BY DEF IInv, RowInv
<1>2. mon'[r] = Listed(mon[r]) \/ mon'[r] = Unlisted(r)
  BY DEF Reconcile
<1>3. CASE mon'[r] = Listed(mon[r])
  BY <1>1, <1>3 DEF Listed, ChoiceInv, KeepsChoices, Traits, Monitoring
<1>4. CASE mon'[r] = Unlisted(r)
  BY <1>1, <1>4 DEF Unlisted, LeftAlone, ChoiceInv
<1> QED BY <1>2, <1>3, <1>4

LEMMA NextChoice == IInv /\ ChoiceInv /\ [Next]_vars => ChoiceInv'
<1> SUFFICES ASSUME IInv, ChoiceInv, [Next]_vars PROVE ChoiceInv' OBVIOUS
<1>1. CASE UNCHANGED <<family, mon, choice>>
  BY <1>1 DEF ChoiceInv, KeepsChoices
<1>2. CASE Reconcile
  <2>1. UNCHANGED <<family, choice>>
    BY <1>2 DEF Reconcile, provider
  <2> QED BY <1>2, <2>1, RowKeepsChoice DEF ChoiceInv, KeepsChoices
<1>3. CASE SyncWithoutCredentials
  <2>1. UNCHANGED <<family, choice>>
    BY <1>3 DEF SyncWithoutCredentials, provider
  <2>2. \A r \in Resources :
          mon'[r] = IF mon[r] = "active" THEN "disabled" ELSE mon[r]
    BY <1>3 DEF SyncWithoutCredentials
  <2> QED BY <2>1, <2>2 DEF ChoiceInv, KeepsChoices
<1>4. CASE Toggle
  <2>1. PICK r \in Resources, target \in {"active", "disabled"} :
          /\ mon[r] # "unknown"
          /\ mon' = [mon EXCEPT ![r] = target]
          /\ choice' = [choice EXCEPT ![r] = target]
    BY <1>4 DEF Toggle
  <2>2. UNCHANGED family
    BY <1>4 DEF Toggle, provider
  <2>3. mon \in [Resources -> Monitoring]
    BY DEF IInv, RowInv
  <2> QED BY <2>1, <2>2, <2>3 DEF ChoiceInv, KeepsChoices
<1> QED BY <1>1, <1>2, <1>3, <1>4
     DEF Next, Sync, Begin, ReadPage, Reject, RequestFails, FailureTolerated,
         Change, vars, provider, assetVars

\* The promise that disabled assets stay disabled, which inventory_disabled
\* refutes, holds for the collectors that do not turn what they had marked as
\* gone into monitored rows: reviving is its only exception, besides those that
\* set every listed row to active.
THEOREM ChoicesHold == Spec => [](KeepsChoices => DisabledStaysDisabled)
<1>1. ChoiceInv => (KeepsChoices => DisabledStaysDisabled)
  BY DEF ChoiceInv, DisabledStaysDisabled
<1> QED BY <1>1, InitRows, NextRows, InitChoice, NextChoice, PTL DEF Spec
=============================================================================
