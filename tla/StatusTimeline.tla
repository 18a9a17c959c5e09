---------------------------- MODULE StatusTimeline ----------------------------
(***************************************************************************)
(* The status timeline of one asset, rebuilt from its AssetStatusLog rows  *)
(* every time it is shown: newest first, collapsed to status changes, in   *)
(* alert emails (calculate_status_timeline) and on the asset's page, which *)
(* also keeps metadata changes and is read page by page while checks go    *)
(* on adding rows.                                                         *)
(*                                                                         *)
(* Time is a counter, one check per tick, so timestamps are distinct.      *)
(***************************************************************************)
EXTENDS Selection, SequencesExt

CONSTANTS
  Statuses,      \* provider statuses that describe the asset
  Error,         \* a status of NON_ALERTING_STATUSES
  Window,        \* age at which a row leaves the timeline
  PageSize,
  MaxTime        \* bound: checks

ASSUME TimelineAssumption ==
  /\ Error \notin Statuses
  /\ {Window, PageSize, MaxTime} \subseteq Nat \ {0}

VARIABLES
  log,     \* AssetStatusLog rows, oldest first
  failing, \* last_error_status is set: the previous check failed
  history, \* ghost: the asset's status as known after each check
  reader   \* a user going through the pages

vars == <<log, failing, history, reader>>

Now == Len(history)
Row == [at: 1..MaxTime, status: Statuses \cup {Error}, meta: BOOLEAN]

\* due: ghost, the entries of the first page's timeline that are still shown.
NoReader == [page |-> 0, due |-> {}, seen |-> {}, done |-> FALSE]

TypeOK ==
  /\ log \in Seq(Row)
  /\ failing \in BOOLEAN
  /\ history \in Seq(Statuses \cup {Error})
  /\ reader \in [page: 0..(Window + 1), due: SUBSET (1..MaxTime),
                 seen: SUBSET (1..MaxTime), done: BOOLEAN]

Init == log = <<>> /\ failing = FALSE /\ history = <<>> /\ reader = NoReader

-----------------------------------------------------------------------------
\* Mutant: failed checks are part of the timeline.
AnyRecent(row) == row.at + Window >= Now

\* What both queries select.
Recent(row) == row.at + Window >= Now /\ row.status # Error

NewestFirst == Reverse(Selected(log, {row \in ToSet(log) : Recent(row)}))

\* The numbers of a set of positions of a sequence, in order.
InOrder(rows, positions) == Selected([i \in DOMAIN rows |-> i], positions)

\* A row opens an entry if the next newer row has another status or, on the
\* asset's page, if it carries metadata changes.
Opens(rows, i, keepMeta) ==
  \/ i = 1
  \/ rows[i].status # rows[i - 1].status
  \/ keepMeta /\ rows[i].meta

Entries(keepMeta) ==
  LET rows == NewestFirst
      kept == InOrder(rows, {i \in DOMAIN rows : Opens(rows, i, keepMeta)})
  IN [k \in DOMAIN kept |-> rows[kept[k]]]

AlertTimeline == Entries(FALSE)
PageTimeline == Entries(TRUE)

\* Mutant: a duration ends where the entry after the next newer one begins.
UntilNextButOne(entries, k) == IF k <= 2 THEN Now + 1 ELSE entries[k - 2].at

\* The end of the period an entry's duration stands for.
Until(entries, k) == IF k = 1 THEN Now + 1 ELSE entries[k - 1].at

\* Mutant: a full last page is followed by an empty one.
OnePageMore(entries) == Len(entries) \div PageSize + 1

TotalPages(entries) ==
  IF entries = <<>> THEN 1 ELSE (Len(entries) + PageSize - 1) \div PageSize

\* Mutant: pages are counted from zero.
PageFromZero(entries, page) ==
  SubSeq(entries, page * PageSize + 1,
         IF (page + 1) * PageSize < Len(entries) THEN (page + 1) * PageSize
         ELSE Len(entries))

Page(entries, page) ==
  SubSeq(entries, (page - 1) * PageSize + 1,
         IF page * PageSize < Len(entries) THEN page * PageSize
         ELSE Len(entries))

-----------------------------------------------------------------------------
LastStatus == SelectLastInSeq(log, LAMBDA r : r.status # Error)
KnownStatus == IF LastStatus = 0 THEN Error ELSE log[LastStatus].status

\* _record_monitoring_observation: a row for a change of status or metadata.
Observe(s, moved) ==
  /\ Now < MaxTime
  /\ moved => LastStatus # 0
  /\ history' = Append(history, s)
  /\ log' = IF s # KnownStatus \/ moved
            THEN Append(log, [at |-> Now + 1, status |-> s, meta |-> moved])
            ELSE log
  /\ failing' = FALSE
  /\ UNCHANGED reader

\* A failed check, which is logged if the previous check had not failed.
Fail ==
  /\ Now < MaxTime
  /\ history' = Append(history, KnownStatus)
  /\ log' = IF failing THEN log
            ELSE Append(log, [at |-> Now + 1, status |-> Error, meta |-> FALSE])
  /\ failing' = TRUE
  /\ UNCHANGED reader

Times(entries) == {entries[k].at : k \in DOMAIN entries}

\* The reader opens the next page; the timeline is computed anew.
Turn ==
  /\ ~reader.done
  /\ LET entries == PageTimeline
         page == reader.page + 1
     IN reader' =
          [page |-> page,
           due |-> Times(entries) \cap
                   IF reader.page = 0 THEN Times(entries) ELSE reader.due,
           seen |-> reader.seen \cup Times(Page(entries, page)),
           done |-> ~(page < TotalPages(entries))]
  /\ UNCHANGED <<log, failing, history>>

Next ==
  \/ \E s \in Statuses, moved \in BOOLEAN : Observe(s, moved)
  \/ Fail
  \/ Turn

Spec == Init /\ [][Next]_vars

-----------------------------------------------------------------------------
(* Properties *)

\* Statuses of consecutive equal periods, once each.
Periods(statuses) ==
  LET starts == InOrder(statuses, {i \in DOMAIN statuses :
                                     i = 1 \/ statuses[i] # statuses[i - 1]})
  IN [k \in DOMAIN starts |-> statuses[starts[k]]]

StatusesOf(entries) == [k \in DOMAIN entries |-> entries[k].status]

\* Both timelines tell every period the asset went through since the oldest
\* row they use, in order and without inventing any, and each entry is dated
\* inside its period, whatever failed checks and metadata changes lie between.
EveryPeriodIsTold ==
  \A keepMeta \in BOOLEAN :
    LET entries == Entries(keepMeta)
        rows == NewestFirst
    IN entries # <<>> =>
      /\ Periods(Reverse(StatusesOf(entries)))
           = Periods(SubSeq(history, rows[Len(rows)].at, Now))
      /\ \A k \in DOMAIN entries : history[entries[k].at] = entries[k].status

\* A reader who turns every page sees every entry that was there at the start
\* and still is, although rows are added and expire between two pages.
PagesMissNothing == reader.done => reader.due \subseteq reader.seen

\* The claim of calculate_status_timeline: an entry's timestamp is that of the
\* status change and its duration the time the asset stayed in the status.  It
\* needs a status without metadata changes: of a run of equal statuses the
\* newest row is kept, and a later metadata change passes for the status change.
EntriesDateTheChange ==
  LET rows == NewestFirst
      entries == AlertTimeline
  IN (\A i \in DOMAIN rows : ~rows[i].meta) =>
       \A k \in DOMAIN entries :
         \A t \in entries[k].at..(Until(entries, k) - 1) :
           history[t] = entries[k].status
=============================================================================
