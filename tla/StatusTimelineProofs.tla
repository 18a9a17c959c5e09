------------------------- MODULE StatusTimelineProofs -------------------------
(***************************************************************************)
(* Proofs about StatusTimeline, for any statuses, window, page size and    *)
(* number of checks.                                                       *)
(*                                                                         *)
(* A timeline is computed from the log by two selections, one of which is  *)
(* of positions.  The first part of the module replaces that computation   *)
(* by what it amounts to: the rows of a set of numbers of log rows, from   *)
(* the greatest down (Descends).  The rest is about those sets.            *)
(***************************************************************************)
EXTENDS StatusTimeline, SelectionProofs

LogTypes ==
  /\ log \in Seq(Row)
  /\ failing \in BOOLEAN
  /\ history \in Seq(Statuses \cup {Error})
  /\ Now <= MaxTime

-----------------------------------------------------------------------------
(* The rows of the timelines *)

\* The rows that are about the asset, and those of them that are not too old.
Telling == {i \in 1..Len(log) : log[i].status # Error}
Shown == {i \in Telling : log[i].at + Window >= Now}

Newest(i, I) == \A j \in I : j <= i

\* The next newer one of the rows I.
Follows(j, i, I) == j \in I /\ i < j /\ \A k \in I : k <= i \/ j <= k

EntryRows(keepMeta) ==
  {i \in Shown : \/ Newest(i, Shown)
                 \/ \E j \in Shown : /\ Follows(j, i, Shown)
                                     /\ log[i].status # log[j].status
                 \/ keepMeta /\ log[i].meta}

\* The list has the rows of the log whose numbers are in I, from the newest.
Descends(g, list, I) ==
  /\ list \in Seq(Row)
  /\ g \in [1..Len(list) -> I]
  /\ \A k \in 1..Len(list) : list[k] = log[g[k]]
  /\ \A j, k \in 1..Len(list) : j < k => g[k] < g[j]
  /\ \A i \in I : \E k \in 1..Len(list) : g[k] = i

LEMMA LogRows ==
  ASSUME LogTypes
  PROVE  /\ Len(log) \in Nat /\ DOMAIN log = 1..Len(log)
         /\ \A i \in 1..Len(log) : log[i] \in Row
         /\ Len(history) \in Nat /\ Now \in Nat
         /\ DOMAIN history = 1..Now
         /\ Shown \subseteq Telling /\ Telling \subseteq 1..Len(log)
         /\ Shown \subseteq Nat /\ Telling \subseteq Nat
         /\ Window \in Nat \ {0}
<1>1. log \in Seq(Row) /\ history \in Seq(Statuses \cup {Error})
  BY DEF LogTypes
<1>2. Window \in Nat \ {0}
  BY TimelineAssumption
<1>3. Shown \subseteq Telling /\ Telling \subseteq 1..Len(log)
  BY DEF Shown, Telling
<1> QED BY <1>1, <1>2, <1>3, LenProperties DEF Now

LEMMA NewestFirstDescends ==
  ASSUME LogTypes
  PROVE  \E h : Descends(h, NewestFirst, Shown)
<1> DEFINE S == {row \in ToSet(log) : Recent(row)}
           sel == Selected(log, S)
           n == Len(sel)
<1>1. log \in Seq(Row)
  BY DEF LogTypes
<1>2. sel \in Seq(Row) /\ n \in Nat /\ DOMAIN sel = 1..n
  <2>1. sel \in Seq(Row)
    BY <1>1, SelectedIsSeq
  <2> HIDE DEF sel
  <2> QED BY <2>1, LenProperties
<1>3. PICK d : Embeds(d, sel, log, S)
  BY <1>1, SelectionEmbeds
<1>4. \A i \in 1..Len(log) : log[i] \in S <=> i \in Shown
  BY LogRows DEF Shown, Telling, Recent, ToSet
<1>5. NewestFirst = [i \in 1..n |-> sel[(n - i) + 1]]
  BY DEF NewestFirst, Reverse
<1> HIDE DEF S, sel
<1> DEFINE h == [i \in 1..n |-> d[(n - i) + 1]]
<1>6. \A i \in 1..n : (n - i) + 1 \in 1..n
  BY <1>2
<1>7. NewestFirst \in Seq(Row) /\ Len(NewestFirst) = n
  <2>1. \A i \in 1..n : sel[(n - i) + 1] \in Row
    BY <1>2, <1>6, ElementOfSeq
  <2>2. NewestFirst \in [1..n -> Row]
    BY <1>5, <2>1
  <2> QED BY <1>2, <2>2, SeqDef, LenProperties
<1>8. h \in [1..n -> Shown]
  <2>1. \A i \in 1..n : d[i] \in 1..Len(log) /\ log[d[i]] \in S
    BY <1>3 DEF Embeds
  <2>2. \A i \in 1..n : d[i] \in Shown
    BY <1>4, <2>1
  <2> QED BY <1>6, <2>2
<1>9. \A i \in 1..n : NewestFirst[i] = log[h[i]]
  <2>1. \A i \in 1..n : sel[i] = log[d[i]]
    BY <1>3 DEF Embeds
  <2> QED BY <1>5, <1>6, <2>1
<1>10. \A j, k \in 1..n : j < k => h[k] < h[j]
  <2> TAKE j, k \in 1..n
  <2> HAVE j < k
  <2>1. /\ (n - k) + 1 \in 1..n /\ (n - j) + 1 \in 1..n
        /\ (n - k) + 1 < (n - j) + 1
    BY <1>2
  <2>2. d[(n - k) + 1] < d[(n - j) + 1]
    BY <1>3, <2>1 DEF Embeds
  <2> QED BY <2>2
<1>11. \A i \in Shown : \E k \in 1..n : h[k] = i
  <2> TAKE i \in Shown
  <2>1. i \in 1..Len(log) /\ log[i] \in S
    BY <1>4, LogRows
  <2>2. PICK k \in 1..n : d[k] = i
    BY <1>3, <2>1 DEF Embeds
  <2>3. (n - k) + 1 \in 1..n /\ (n - ((n - k) + 1)) + 1 = k
    BY <1>2
  <2> QED BY <2>2, <2>3
<1> HIDE DEF h
<1> QED BY <1>7, <1>8, <1>9, <1>10, <1>11 DEF Descends

\* The rows next to each other in the list.
LEMMA NextInList ==
  ASSUME LogTypes, NEW h, NEW rows, Descends(h, rows, Shown),
         NEW p \in 1..Len(rows)
  PROVE  /\ p = 1 <=> Newest(h[p], Shown)
         /\ p # 1 => /\ p - 1 \in 1..Len(rows)
                     /\ \A j : Follows(j, h[p], Shown) <=> j = h[p - 1]
<1>1. /\ Len(rows) \in Nat
      /\ \A k \in 1..Len(rows) : h[k] \in Shown /\ h[k] \in Nat
      /\ Shown \subseteq Nat
  BY LogRows, LenProperties DEF Descends
<1>2. CASE p = 1
  <2>1. \A k \in 1..Len(rows) : k # 1 => h[k] < h[1]
    BY <1>1, <1>2 DEF Descends
  <2>2. \A i \in Shown : i <= h[1]
    BY <1>1, <1>2, <2>1 DEF Descends
  <2> QED BY <1>2, <2>2 DEF Newest
<1>3. CASE p # 1
  <2>1. p - 1 \in 1..Len(rows) /\ p - 1 < p
    BY <1>1, <1>3
  <2>2. h[p] < h[p - 1] /\ h[p - 1] \in Shown
    BY <1>1, <2>1 DEF Descends
  <2>3. ~Newest(h[p], Shown)
    BY <1>1, <2>1, <2>2 DEF Newest
  <2>4. \A i \in Shown : i <= h[p] \/ h[p - 1] <= i
    <3> TAKE i \in Shown
    <3>1. PICK k \in 1..Len(rows) : h[k] = i
      BY DEF Descends
    <3>2. k <= p - 1 \/ p <= k
      BY <1>1
    <3>3. k <= p - 1 => h[p - 1] <= h[k]
      BY <1>1, <2>1 DEF Descends
    <3>4. p <= k => h[k] <= h[p]
      BY <1>1, <2>1 DEF Descends
    <3> QED BY <3>1, <3>2, <3>3, <3>4
  <2>5. Follows(h[p - 1], h[p], Shown)
    BY <2>2, <2>4 DEF Follows
  <2>6. ASSUME NEW j, Follows(j, h[p], Shown) PROVE j = h[p - 1]
    <3>1. j \in Shown /\ h[p] < j /\ h[p - 1] <= j
      BY <1>1, <2>1, <2>4, <2>6 DEF Follows
    <3>2. h[p - 1] <= h[p] \/ j <= h[p - 1]
      BY <2>2, <2>6 DEF Follows
    <3> QED BY <1>1, <2>1, <2>2, <3>1, <3>2
  <2> QED BY <1>3, <2>1, <2>3, <2>5, <2>6
<1> QED BY <1>2, <1>3

LEMMA OpensEntry ==
  ASSUME LogTypes, NEW h, NEW rows, Descends(h, rows, Shown),
         NEW p \in 1..Len(rows), NEW keepMeta \in BOOLEAN
  PROVE  Opens(rows, p, keepMeta) <=> h[p] \in EntryRows(keepMeta)
<1>1. h[p] \in Shown /\ rows[p] = log[h[p]]
  BY DEF Descends
<1>2. CASE p = 1
  BY <1>1, <1>2, NextInList DEF Opens, EntryRows
<1>3. CASE p # 1
  <2>1. /\ ~Newest(h[p], Shown)
        /\ p - 1 \in 1..Len(rows)
        /\ \A j : Follows(j, h[p], Shown) <=> j = h[p - 1]
    <3>1. /\ p = 1 <=> Newest(h[p], Shown)
          /\ p # 1 => /\ p - 1 \in 1..Len(rows)
                      /\ \A j : Follows(j, h[p], Shown) <=> j = h[p - 1]
      BY NextInList
    <3> QED BY <1>3, <3>1
  <2>2. rows[p - 1] = log[h[p - 1]] /\ h[p - 1] \in Shown
    BY <2>1 DEF Descends
  <2>3. (\E j \in Shown : /\ Follows(j, h[p], Shown)
                          /\ log[h[p]].status # log[j].status)
          <=> log[h[p]].status # log[h[p - 1]].status
    BY <2>1, <2>2
  <2> QED BY <1>1, <1>3, <2>1, <2>2, <2>3 DEF Opens, EntryRows
<1> QED BY <1>2, <1>3

\* The positions of a selection of positions.
LEMMA InOrderEmbeds ==
  ASSUME NEW n \in Nat, NEW rows, DOMAIN rows = 1..n, NEW P \in SUBSET (1..n)
  PROVE  /\ InOrder(rows, P) \in Seq(P)
         /\ \A j, k \in 1..Len(InOrder(rows, P)) :
              j < k => InOrder(rows, P)[j] < InOrder(rows, P)[k]
         /\ \A i \in P : \E k \in 1..Len(InOrder(rows, P)) :
              InOrder(rows, P)[k] = i
<1> DEFINE all == [i \in 1..n |-> i]
           kept == Selected(all, P)
<1>1. all \in Seq(Nat) /\ Len(all) = n
  <2>1. all \in [1..n -> Nat]
    OBVIOUS
  <2> QED BY <2>1, SeqDef, LenProperties
<1>2. InOrder(rows, P) = kept
  BY DEF InOrder
<1>3. \A i \in 1..n : all[i] = i
  OBVIOUS
<1> HIDE DEF all
<1>4. PICK e : Embeds(e, kept, all, P)
  BY <1>1, SelectionEmbeds
<1>5. kept \in Seq(Nat \cap P)
  BY <1>1, SelectedType
<1> HIDE DEF kept
<1>6. kept \in Seq(P)
  BY <1>5, SeqMonotonic
<1>7. \A k \in 1..Len(kept) : e[k] \in 1..n /\ kept[k] = e[k]
  BY <1>1, <1>3, <1>4 DEF Embeds
<1>8. \A j, k \in 1..Len(kept) : j < k => kept[j] < kept[k]
  BY <1>4, <1>7 DEF Embeds
<1>9. \A i \in P : \E k \in 1..Len(kept) : kept[k] = i
  <2> TAKE i \in P
  <2>1. i \in 1..Len(all) /\ all[i] \in P
    BY <1>1, <1>3
  <2>2. PICK k \in 1..Len(kept) : e[k] = i
    BY <1>4, <2>1 DEF Embeds
  <2> QED BY <1>7, <2>2
<1> QED BY <1>2, <1>6, <1>8, <1>9

\* A timeline has the rows that EntryRows names, and in their order.
EntriesAreRows ==
  \A keepMeta \in BOOLEAN :
    \E g : Descends(g, Entries(keepMeta), EntryRows(keepMeta))

LEMMA EntriesDescend == LogTypes => EntriesAreRows
<1> SUFFICES ASSUME LogTypes, NEW keepMeta \in BOOLEAN
             PROVE  \E g : Descends(g, Entries(keepMeta), EntryRows(keepMeta))
  BY DEF EntriesAreRows
<1> DEFINE rows == NewestFirst
           n == Len(rows)
           P == {i \in DOMAIN rows : Opens(rows, i, keepMeta)}
           kept == InOrder(rows, P)
           list == Entries(keepMeta)
<1>1. PICK h : Descends(h, rows, Shown)
  BY NewestFirstDescends
<1>2. list = [k \in DOMAIN kept |-> rows[kept[k]]]
  BY DEF Entries
<1> HIDE DEF list
<1>3. rows \in Seq(Row) /\ n \in Nat /\ DOMAIN rows = 1..n
  <2> HIDE DEF rows
  <2> QED BY <1>1, LenProperties DEF Descends
<1>4. \A p \in 1..n : p \in P <=> h[p] \in EntryRows(keepMeta)
  BY <1>1, <1>3, OpensEntry
<1> HIDE DEF rows
<1>5. P \in SUBSET (1..n)
  BY <1>3
<1> HIDE DEF P
<1>6. /\ kept \in Seq(P)
      /\ \A j, k \in 1..Len(kept) : j < k => kept[j] < kept[k]
      /\ \A i \in P : \E k \in 1..Len(kept) : kept[k] = i
  BY <1>3, <1>5, InOrderEmbeds
<1> HIDE DEF kept
<1>7. /\ Len(kept) \in Nat /\ DOMAIN kept = 1..Len(kept)
      /\ \A k \in 1..Len(kept) : kept[k] \in P /\ kept[k] \in 1..n
  BY <1>5, <1>6, LenProperties, ElementOfSeq
<1>8. list \in Seq(Row) /\ Len(list) = Len(kept)
      /\ \A k \in 1..Len(kept) : list[k] = rows[kept[k]]
  <2>1. \A k \in 1..Len(kept) : rows[kept[k]] \in Row
    BY <1>3, <1>7, ElementOfSeq
  <2>2. list \in [1..Len(kept) -> Row]
    BY <1>2, <1>7, <2>1
  <2> QED BY <1>2, <1>7, <2>2, SeqDef, LenProperties
<1> DEFINE g == [k \in 1..Len(kept) |-> h[kept[k]]]
<1>9. g \in [1..Len(kept) -> EntryRows(keepMeta)]
  BY <1>4, <1>7
<1>10. \A k \in 1..Len(kept) : list[k] = log[g[k]]
  BY <1>1, <1>7, <1>8 DEF Descends
<1>11. \A j, k \in 1..Len(kept) : j < k => g[k] < g[j]
  BY <1>1, <1>6, <1>7 DEF Descends
<1>12. \A i \in EntryRows(keepMeta) : \E k \in 1..Len(kept) : g[k] = i
  <2> TAKE i \in EntryRows(keepMeta)
  <2>1. PICK p \in 1..n : h[p] = i
    BY <1>1 DEF Descends, EntryRows
  <2>2. PICK k \in 1..Len(kept) : kept[k] = p
    BY <1>4, <1>6, <2>1
  <2> QED BY <2>1, <2>2
<1> HIDE DEF g
<1>13. Descends(g, list, EntryRows(keepMeta))
  BY <1>8, <1>9, <1>10, <1>11, <1>12 DEF Descends
<1> QED BY <1>13 DEF list

-----------------------------------------------------------------------------
(* The log and the history *)

\* The rows have been written one per check, oldest first.
Dated ==
  /\ \A i \in 1..Len(log) : log[i].at <= Now
  /\ \A i, j \in 1..Len(log) : i < j => log[i].at < log[j].at

\* i is the last row about the asset that is not newer than t.
LastUpTo(i, t) ==
  /\ i \in Telling /\ log[i].at <= t
  /\ \A j \in Telling : log[j].at <= t => j <= i

\* The status of the asset is that of the last row about it.
Recorded == \A t \in 1..Now, i \in Telling :
              LastUpTo(i, t) => history[t] = log[i].status

\* Only a change is recorded.
Changing ==
  \A i, j \in Telling : Follows(j, i, Telling) =>
    log[i].status # log[j].status \/ log[j].meta

LogInv == LogTypes /\ Dated /\ Recorded /\ Changing

LEMMA LastTelling ==
  ASSUME LogTypes
  PROVE  \/ LastStatus = 0 /\ Telling = {} /\ KnownStatus = Error
         \/ /\ LastStatus \in Telling /\ Newest(LastStatus, Telling)
            /\ KnownStatus = log[LastStatus].status
            /\ KnownStatus \in Statuses
<1>1. Len(log) \in Nat /\ \A i \in 1..Len(log) : log[i] \in Row
  BY LenProperties, ElementOfSeq DEF LogTypes
<1>2. LastStatus = IF Telling # {} THEN Max(Telling) ELSE 0
  BY DEF LastStatus, SelectLastInSeq, Telling
<1>3. Telling \in SUBSET Nat /\ \A i \in Telling : i # 0 /\ i <= Len(log)
  BY <1>1 DEF Telling
<1>4. CASE Telling = {}
  BY <1>2, <1>4 DEF KnownStatus
<1>5. CASE Telling # {}
  <2>1. \E n \in Telling : \A m \in Telling : m <= n
    BY <1>1, <1>3, <1>5, GreatestNumber
  <2>2. LastStatus = CHOOSE x \in Telling : \A y \in Telling : x >= y
    BY <1>2, <1>5 DEF Max
  <2>3. \E n \in Telling : \A m \in Telling : n >= m
    BY <1>3, <2>1
  <2>4. LastStatus \in Telling /\ \A m \in Telling : LastStatus >= m
    BY <2>2, <2>3
  <2>5. KnownStatus = log[LastStatus].status /\ Newest(LastStatus, Telling)
    BY <1>3, <2>4 DEF KnownStatus, Newest
  <2>6. log[LastStatus].status \in Statuses
    BY <1>1, <2>4 DEF Telling, Row
  <2> QED BY <2>4, <2>5, <2>6
<1> QED BY <1>4, <1>5

\* What a check does to the log: it adds a row for s, or none, and the asset's
\* status is known to be s; a row that tells an unchanged status has metadata.
Extends(row) == log' = Append(log, row) /\ row \in Row /\ row.at = Now + 1

Checked(s) ==
  /\ Now < MaxTime
  /\ history' = Append(history, s) /\ s \in Statuses \cup {Error}
  /\ failing' \in BOOLEAN
  /\ \/ log' = log /\ s = KnownStatus
     \/ \E row : /\ Extends(row) /\ row.status = s /\ s # Error
                 /\ s # KnownStatus \/ row.meta
     \/ \E row : Extends(row) /\ row.status = Error /\ s = KnownStatus

LEMMA FailChecked ==
  ASSUME LogTypes, Fail
  PROVE  Checked(KnownStatus)
<1> DEFINE row == [at |-> Now + 1, status |-> Error, meta |-> FALSE]
<1>1. Now \in Nat /\ MaxTime \in Nat \ {0}
  BY TimelineAssumption, LenProperties DEF LogTypes, Now
<1>2. row \in Row \/ ~(Now < MaxTime)
  BY <1>1 DEF Row
<1>3. KnownStatus \in Statuses \cup {Error}
  BY LastTelling
<1>4. log' = log \/ log' = Append(log, row)
  BY DEF Fail
<1>5. row.at = Now + 1 /\ row.status = Error
  OBVIOUS
<1> HIDE DEF row
<1> QED BY <1>2, <1>3, <1>4, <1>5 DEF Fail, Checked, Extends

LEMMA ObserveChecked ==
  ASSUME LogTypes, NEW s \in Statuses, NEW moved \in BOOLEAN, Observe(s, moved)
  PROVE  Checked(s)
<1> DEFINE row == [at |-> Now + 1, status |-> s, meta |-> moved]
<1>1. Now \in Nat /\ MaxTime \in Nat \ {0}
  BY TimelineAssumption, LenProperties DEF LogTypes, Now
<1>2. row \in Row /\ row.at = Now + 1 /\ row.status = s /\ row.meta = moved
  BY <1>1 DEF Row, Observe
<1>3. \/ log' = log /\ s = KnownStatus
      \/ log' = Append(log, row) /\ (s # KnownStatus \/ moved)
  BY DEF Observe
<1>4. s # Error
  BY TimelineAssumption
<1> HIDE DEF row
<1> QED BY <1>2, <1>3, <1>4 DEF Observe, Checked, Extends

LEMMA CheckExtends ==
  ASSUME LogTypes, (\E s \in Statuses, moved \in BOOLEAN : Observe(s, moved)) \/ Fail
  PROVE  \E s : Checked(s)
BY FailChecked, ObserveChecked

\* The log after a check, row by row.
LEMMA Extended ==
  ASSUME LogTypes, NEW s, Checked(s)
  PROVE  /\ LogTypes'
         /\ Now' = Now + 1 /\ Now \in Nat
         /\ \A t \in 1..Now : history'[t] = history[t]
         /\ history'[Now + 1] = s
         /\ Len(log) \in Nat /\ Len(log) <= Len(log')
         /\ \A i \in 1..Len(log) : log'[i] = log[i]
         /\ log' # log =>
              /\ Len(log') = Len(log) + 1
              /\ log'[Len(log) + 1] \in Row
              /\ log'[Len(log) + 1].at = Now + 1
<1>1. /\ log \in Seq(Row) /\ history \in Seq(Statuses \cup {Error})
      /\ Len(log) \in Nat /\ Len(history) \in Nat
      /\ s \in Statuses \cup {Error} /\ history' = Append(history, s)
      /\ MaxTime \in Nat /\ Now < MaxTime /\ failing' \in BOOLEAN
  BY TimelineAssumption, LenProperties DEF LogTypes, Checked
<1>2. /\ history' \in Seq(Statuses \cup {Error})
      /\ Len(history') = Len(history) + 1
      /\ \A t \in 1..Len(history) : history'[t] = history[t]
      /\ history'[Len(history) + 1] = s
  BY <1>1, AppendProperties
<1>3. Now' = Now + 1 /\ Now \in Nat /\ Now' <= MaxTime
  BY <1>1, <1>2 DEF Now
<1>4. CASE log' = log
  BY <1>1, <1>2, <1>3, <1>4 DEF LogTypes, Now
<1>5. CASE log' # log
  <2>1. PICK row : Extends(row)
    BY <1>5 DEF Checked
  <2>2. row \in Row /\ row.at = Now + 1 /\ log' = Append(log, row)
    BY <2>1 DEF Extends
  <2>3. /\ log' \in Seq(Row) /\ Len(log') = Len(log) + 1
        /\ \A i \in 1..Len(log) : log'[i] = log[i]
        /\ log'[Len(log) + 1] = row
    BY <1>1, <2>2, AppendProperties
  <2>4. LogTypes'
    BY <1>1, <1>2, <1>3, <2>3 DEF LogTypes
  <2> QED BY <1>1, <1>2, <1>3, <2>2, <2>3, <2>4 DEF Now
<1> QED BY <1>4, <1>5

LEMMA ExtendedTelling ==
  ASSUME LogTypes, NEW s, Checked(s)
  PROVE  /\ Telling \subseteq Telling'
         /\ \A i \in Telling' :
              \/ i \in Telling
              \/ /\ i = Len(log) + 1 /\ log' # log
                 /\ log'[i].status = s /\ s # Error
                 /\ s # KnownStatus \/ log'[i].meta
         /\ Telling' = Telling => s = KnownStatus
<1>1. /\ Len(log) \in Nat /\ Len(log) <= Len(log')
      /\ \A i \in 1..Len(log) : log'[i] = log[i]
      /\ log' # log => Len(log') = Len(log) + 1
  BY Extended
<1>2. Telling \subseteq Telling'
  BY <1>1 DEF Telling
<1>3. CASE log' = log /\ s = KnownStatus
  BY <1>3 DEF Telling
<1>4. ASSUME NEW row, Extends(row) PROVE log'[Len(log) + 1] = row
  BY <1>4, AppendProperties DEF Extends, LogTypes
<1>5. ASSUME NEW row, Extends(row), row.status = s, s # Error,
             s # KnownStatus \/ row.meta
      PROVE  /\ \A i \in Telling' :
                  \/ i \in Telling
                  \/ /\ i = Len(log) + 1 /\ log' # log
                     /\ log'[i].status = s /\ s # Error
                     /\ s # KnownStatus \/ log'[i].meta
             /\ Telling' # Telling
  <2>1. log'[Len(log) + 1] = row
    BY <1>4, <1>5
  <2>2. Len(log') = Len(log) + 1 /\ log' # log
    BY <1>5, AppendProperties DEF Extends, LogTypes
  <2>3. Len(log) + 1 \in Telling' /\ Len(log) + 1 \notin Telling
    BY <1>1, <1>5, <2>1, <2>2 DEF Telling
  <2>4. ASSUME NEW i \in Telling', i \notin Telling PROVE i = Len(log) + 1
    BY <1>1, <2>2, <2>4 DEF Telling
  <2> QED BY <1>5, <2>1, <2>2, <2>3, <2>4
<1>6. ASSUME NEW row, Extends(row), row.status = Error, s = KnownStatus
      PROVE  Telling' \subseteq Telling
  <2>1. log'[Len(log) + 1] = row
    BY <1>4, <1>6
  <2>2. Len(log') = Len(log) + 1
    BY <1>6, AppendProperties DEF Extends, LogTypes
  <2> QED BY <1>1, <1>6, <2>1, <2>2 DEF Telling
<1> QED BY <1>2, <1>3, <1>5, <1>6 DEF Checked

\* The row that the status is known from.
LastKnown ==
  \/ LastStatus = 0 /\ Telling = {} /\ KnownStatus = Error
  \/ /\ LastStatus \in Telling /\ Newest(LastStatus, Telling)
     /\ KnownStatus = log[LastStatus].status

LEMMA LastIsKnown == LogTypes => LastKnown
BY LastTelling DEF LastKnown

LEMMA KnownAfter ==
  ASSUME LogTypes, NEW s, Checked(s)
  PROVE  KnownStatus' = s
<1>1. LastKnown /\ LastKnown'
  <2>1. (LogTypes => LastKnown)'
    BY LastIsKnown, PTL
  <2> QED BY <2>1, LastIsKnown, Extended
<1>2. /\ Len(log) \in Nat
      /\ \A i \in 1..Len(log) : log'[i] = log[i]
  BY Extended
<1>3. /\ Telling \subseteq Telling' /\ Telling \subseteq 1..Len(log)
      /\ \A i \in Telling' : i \in Telling \/ (i = Len(log) + 1 /\ log'[i].status = s)
      /\ Telling' = Telling => s = KnownStatus
  BY ExtendedTelling, LogRows
<1> DEFINE i == LastStatus
           j == LastStatus'
<1>4. CASE Telling' = Telling
  <2>1. s = KnownStatus
    BY <1>3, <1>4
  <2>2. CASE Telling = {}
    BY <1>1, <1>4, <2>1, <2>2 DEF LastKnown
  <2>3. CASE Telling # {}
    <3>1. /\ i \in Telling /\ Newest(i, Telling) /\ KnownStatus = log[i].status
          /\ j \in Telling /\ Newest(j, Telling) /\ KnownStatus' = log'[j].status
      BY <1>1, <1>4, <2>3 DEF LastKnown, Newest
    <3>2. i <= j /\ j <= i /\ i \in Nat /\ j \in Nat
      BY <1>2, <1>3, <3>1 DEF Newest
    <3>3. i = j /\ log'[i] = log[i]
      BY <1>2, <1>3, <3>1, <3>2
    <3> QED BY <2>1, <3>1, <3>3
  <2> QED BY <2>2, <2>3
<1>5. CASE Telling' # Telling
  <2>1. PICK new \in Telling' : new \notin Telling
    BY <1>3, <1>5
  <2>2. new = Len(log) + 1 /\ log'[new].status = s
    BY <1>3, <2>1
  <2>3. j \in Telling' /\ new <= j /\ KnownStatus' = log'[j].status
    BY <1>1, <2>1 DEF LastKnown, Newest
  <2>4. j \notin Telling
    BY <1>2, <1>3, <2>2, <2>3
  <2>5. j = new
    BY <1>3, <2>2, <2>3, <2>4
  <2> QED BY <2>2, <2>3, <2>5
<1> QED BY <1>4, <1>5

LEMMA CheckKeepsLog ==
  ASSUME LogInv, NEW s, Checked(s)
  PROVE  LogInv'
<1> DEFINE n == Len(log)
<1>1. /\ LogTypes'
      /\ Now' = Now + 1 /\ Now \in Nat
      /\ \A t \in 1..Now : history'[t] = history[t]
      /\ history'[Now + 1] = s
      /\ n \in Nat /\ n <= Len(log')
      /\ \A i \in 1..n : log'[i] = log[i] /\ log[i] \in Row
      /\ log' # log => /\ Len(log') = n + 1
                       /\ log'[n + 1] \in Row
                       /\ log'[n + 1].at = Now + 1
  BY Extended, ElementOfSeq DEF LogInv, LogTypes
<1>0. n \in Nat
  BY <1>1
<1>2. /\ Telling \subseteq Telling'
      /\ \A i \in Telling' :
           \/ i \in Telling
           \/ /\ i = n + 1 /\ log' # log
              /\ log'[i].status = s /\ s # Error
              /\ s # KnownStatus \/ log'[i].meta
      /\ Telling' = Telling => s = KnownStatus
  BY ExtendedTelling DEF LogInv
<1>3. /\ Telling \subseteq 1..n /\ Telling \subseteq Nat
      /\ \A i \in 1..n : log[i].at \in Nat
  BY <1>1 DEF Telling, Row
<1>4. /\ \A i \in 1..n : log[i].at <= Now
      /\ \A i, j \in 1..n : i < j => log[i].at < log[j].at
      /\ Recorded /\ Changing
  BY DEF LogInv, Dated
<1>5. ASSUME NEW i \in Telling, \A j \in Telling : j <= i
      PROVE  i = LastStatus /\ KnownStatus = log[i].status
  <2>1. /\ LastStatus \in Telling /\ Newest(LastStatus, Telling)
        /\ KnownStatus = log[LastStatus].status
    BY <1>5, LastTelling DEF LogInv
  <2>2. LastStatus <= i /\ i <= LastStatus
    BY <1>5, <2>1 DEF Newest
  <2>3. LastStatus \in Nat /\ i \in Nat
    BY <1>3, <2>1
  <2> QED BY <2>1, <2>2, <2>3
<1> HIDE DEF n
<1>6. Dated'
  <2>1. \A i \in (1..Len(log))' : i \in 1..n \/ (i = n + 1 /\ log' # log)
    BY <1>1 DEF n
  <2>2. \A i \in (1..Len(log))' : log'[i].at <= Now'
    BY <1>1, <1>3, <1>4, <2>1
  <2>3. ASSUME NEW i \in (1..Len(log))', NEW j \in (1..Len(log))', i < j
        PROVE  log'[i].at < log'[j].at
    <3>1. CASE j \in 1..n
      BY <1>1, <1>4, <2>1, <2>3, <3>1
    <3>2. CASE j = n + 1
      <4>1. i \in 1..n
        BY <1>1, <2>1, <2>3, <3>2
      <4>2. log'[i].at <= Now /\ log'[j].at = Now + 1 /\ log'[i].at \in Nat
        BY <1>1, <1>3, <1>4, <2>1, <3>2, <4>1
      <4> QED BY <1>1, <4>2
    <3> QED BY <2>1, <3>1, <3>2
  <2> QED BY <2>2, <2>3 DEF Dated
<1>7. Recorded'
  <2> SUFFICES ASSUME NEW t \in (1..Now)', NEW i \in Telling', LastUpTo(i, t)'
               PROVE  history'[t] = log'[i].status
    BY DEF Recorded
  <2>1. /\ log'[i].at <= t
        /\ \A j \in Telling' : log'[j].at <= t => j <= i
    BY DEF LastUpTo
  <2>2. CASE i \in Telling /\ t \in 1..Now
    <3>1. LastUpTo(i, t)
      BY <1>1, <1>2, <1>3, <2>1, <2>2 DEF LastUpTo
    <3> QED BY <1>1, <1>3, <1>4, <2>2, <3>1 DEF Recorded
  <2>3. CASE i \in Telling /\ t = Now + 1
    <3>1. Telling' = Telling
      <4>1. ASSUME NEW k \in Telling', k \notin Telling PROVE FALSE
        <5>1. k = n + 1 /\ log'[k].at <= t
          BY <1>1, <1>2, <2>3, <4>1
        <5> QED BY <1>1, <1>3, <2>1, <2>3, <5>1
      <4> QED BY <1>2, <4>1
    <3>2. \A j \in Telling : j <= i
      BY <1>1, <1>2, <1>3, <1>4, <2>1, <2>3
    <3>3. KnownStatus = log[i].status /\ log'[i] = log[i]
      BY <1>1, <1>3, <1>5, <2>3, <3>2
    <3>4. history'[t] = s /\ s = KnownStatus
      BY <1>1, <1>2, <2>3, <3>1
    <3> QED BY <3>3, <3>4
  <2>4. CASE i \notin Telling
    <3>1. i = n + 1 /\ log' # log /\ log'[i].status = s
      BY <1>2, <2>4
    <3>2. t = Now + 1
      BY <1>1, <2>1, <3>1
    <3> QED BY <1>1, <3>1, <3>2
  <2> QED BY <1>1, <2>2, <2>3, <2>4
<1>8. Changing'
  <2> SUFFICES ASSUME NEW i \in Telling', NEW j \in Telling',
                      Follows(j, i, Telling)'
               PROVE  log'[i].status # log'[j].status \/ log'[j].meta
    BY DEF Changing
  <2>1. i < j /\ \A k \in Telling' : k <= i \/ j <= k
    BY DEF Follows
  <2>2. CASE j \in Telling
    <3>1. i \in Telling
      <4>1. j \in 1..n
        BY <1>3, <2>2
      <4>2. i \in Telling \/ i = n + 1
        BY <1>2
      <4> QED BY <1>0, <2>1, <4>1, <4>2
    <3>2. Follows(j, i, Telling)
      BY <1>2, <2>1, <2>2 DEF Follows
    <3> QED BY <1>1, <1>3, <1>4, <2>2, <3>1, <3>2 DEF Changing
  <2>3. CASE j \notin Telling
    <3>1. /\ j = n + 1 /\ log'[j].status = s
          /\ s # KnownStatus \/ log'[j].meta
      BY <1>2, <2>3
    <3>2. i \in Telling
      <4>1. n \in Nat
        BY <1>1
      <4> QED BY <1>2, <2>1, <3>1, <4>1
    <3>3. \A k \in Telling : k <= i
      BY <1>1, <1>2, <1>3, <2>1, <3>1
    <3>4. KnownStatus = log'[i].status
      BY <1>1, <1>3, <1>5, <3>2, <3>3
    <3> QED BY <3>1, <3>4
  <2> QED BY <2>2, <2>3
<1> QED BY <1>1, <1>6, <1>7, <1>8 DEF LogInv

LEMMA InitLog == Init => LogInv
<1> SUFFICES ASSUME Init PROVE LogInv OBVIOUS
<1>1. Len(log) = 0 /\ Now = 0
  BY EmptySeq DEF Init, Now
<1>2. LogTypes
  <2>1. /\ log = <<>> /\ history = <<>> /\ failing = FALSE
        /\ MaxTime \in Nat
    BY TimelineAssumption DEF Init
  <2>2. log \in Seq(Row) /\ history \in Seq(Statuses \cup {Error})
    BY <2>1, EmptySeq
  <2>3. failing \in BOOLEAN
    BY <2>1
  <2>4. Now <= MaxTime
    BY <1>1, <2>1
  <2> QED BY <2>2, <2>3, <2>4 DEF LogTypes
<1>3. Telling = {}
  BY <1>1 DEF Telling
<1> QED BY <1>1, <1>2, <1>3 DEF LogInv, Dated, Recorded, Changing

LEMMA NextLog == LogInv /\ [Next]_vars => LogInv'
<1> SUFFICES ASSUME LogInv, [Next]_vars PROVE LogInv' OBVIOUS
<1>1. CASE (\E s \in Statuses, moved \in BOOLEAN : Observe(s, moved)) \/ Fail
  BY <1>1, CheckExtends, CheckKeepsLog DEF LogInv
<1>2. CASE Turn \/ UNCHANGED vars
  <2>1. UNCHANGED <<log, failing, history>>
    BY <1>2 DEF Turn, vars
  <2> QED BY <2>1 DEF LogInv, LogTypes, Dated, Recorded, Changing, Telling,
                      LastUpTo, Follows, Now
<1> QED BY <1>1, <1>2 DEF Next

-----------------------------------------------------------------------------
(* The timelines and the history *)

LEMMA NewerShown ==
  ASSUME LogInv, NEW i \in Shown, NEW j \in Telling, i < j
  PROVE  j \in Shown
<1>1. log[i].at < log[j].at /\ log[i].at \in Nat /\ log[j].at \in Nat
  BY LogRows DEF LogInv, Dated, Row
<1>2. log[i].at + Window >= Now
  BY DEF Shown
<1> QED BY <1>1, <1>2, LogRows DEF LogInv, Shown

LEMMA RowLastUpTo ==
  ASSUME LogInv, NEW i \in Telling
  PROVE  LastUpTo(i, log[i].at) /\ log[i].at \in 1..Now
<1>1. \A j \in Telling : j \in 1..Len(log) /\ j \in Nat /\ log[j].at \in Nat \ {0}
  BY LogRows DEF LogInv, Row
<1>2. \A j \in Telling : log[j].at <= log[i].at => j <= i
  BY <1>1 DEF LogInv, Dated
<1> QED BY <1>1, <1>2, LogRows DEF LogInv, Dated, LastUpTo

\* Every entry is dated inside the period that it tells.
LEMMA EntriesInside ==
  ASSUME LogInv, NEW keepMeta \in BOOLEAN, NEW k \in DOMAIN Entries(keepMeta)
  PROVE  /\ Entries(keepMeta)[k].at \in 1..Now
         /\ history[Entries(keepMeta)[k].at] = Entries(keepMeta)[k].status
<1> DEFINE list == Entries(keepMeta)
<1>1. PICK g : Descends(g, list, EntryRows(keepMeta))
  BY EntriesDescend DEF EntriesAreRows, LogInv
<1> HIDE DEF list
<1>2. k \in 1..Len(list)
  BY <1>1, LenProperties DEF Descends, list
<1>3. g[k] \in Telling /\ list[k] = log[g[k]]
  BY <1>1, <1>2 DEF Descends, EntryRows, Shown
<1>4. LastUpTo(g[k], log[g[k]].at) /\ log[g[k]].at \in 1..Now
  BY <1>3, RowLastUpTo
<1>5. history[log[g[k]].at] = log[g[k]].status
  BY <1>3, <1>4 DEF LogInv, Recorded
<1> QED BY <1>3, <1>4, <1>5 DEF list

\* A timeline begins with the known status.
LEMMA HeadIsKnown ==
  ASSUME LogInv, NEW keepMeta \in BOOLEAN, Entries(keepMeta) # <<>>
  PROVE  Head(Entries(keepMeta)).status = KnownStatus /\ KnownStatus \in Statuses
<1> DEFINE E == Entries(keepMeta)
<1>1. PICK g : Descends(g, E, EntryRows(keepMeta))
  BY EntriesDescend DEF EntriesAreRows, LogInv
<1>2. E \in Seq(Row) /\ E # <<>>
  BY <1>1 DEF Descends
<1> HIDE DEF E
<1>3. 1 \in 1..Len(E) /\ Head(E) = E[1] /\ Len(E) \in Nat
  BY <1>2, EmptySeq, LenProperties
<1>4. g[1] \in Shown /\ g[1] \in Telling /\ E[1] = log[g[1]]
  BY <1>1, <1>3 DEF Descends, EntryRows, Shown
<1> DEFINE i == LastStatus
<1>5. i \in Telling /\ Newest(i, Telling) /\ KnownStatus = log[i].status
      /\ KnownStatus \in Statuses
  BY <1>4, LastTelling DEF LogInv
<1> HIDE DEF i
<1>6. i \in Nat /\ g[1] \in Nat /\ g[1] <= i
  BY <1>4, <1>5, LogRows DEF LogInv, Newest
<1>7. i \in Shown /\ Newest(i, Shown)
  <2>1. i \in Shown
    BY <1>4, <1>5, <1>6, NewerShown
  <2> QED BY <1>5, <2>1 DEF Newest, Shown
<1>8. PICK k \in 1..Len(E) : g[k] = i
  BY <1>1, <1>7 DEF Descends, EntryRows
<1>9. 1 < k => g[k] < g[1]
  BY <1>1, <1>3, <1>8 DEF Descends
<1>10. k = 1
  BY <1>3, <1>6, <1>8, <1>9
<1> QED BY <1>3, <1>4, <1>5, <1>8, <1>10 DEF E

LEMMA ShownHasNext ==
  ASSUME LogTypes, NEW i \in Shown, ~Newest(i, Shown)
  PROVE  \E j \in Shown : Follows(j, i, Shown)
<1>1. PICK h : Descends(h, NewestFirst, Shown)
  BY NewestFirstDescends
<1>2. PICK p \in 1..Len(NewestFirst) : h[p] = i
  BY <1>1 DEF Descends
<1>3. p # 1 /\ Follows(h[p - 1], h[p], Shown)
  BY <1>1, <1>2, NextInList
<1> QED BY <1>2, <1>3 DEF Follows

\* Without metadata changes, every row that is shown is an entry, and a period
\* lasts until the next newer entry.
LEMMA DatesOfChanges == LogInv => EntriesDateTheChange
<1> DEFINE rows == NewestFirst
           entries == AlertTimeline
<1> SUFFICES ASSUME LogInv, \A i \in DOMAIN rows : ~rows[i].meta,
                    NEW k \in DOMAIN entries,
                    NEW t \in entries[k].at..(Until(entries, k) - 1)
             PROVE  history[t] = entries[k].status
  BY DEF EntriesDateTheChange
<1>1. PICK h : Descends(h, rows, Shown)
  BY NewestFirstDescends DEF LogInv
<1>2. PICK g : Descends(g, entries, EntryRows(FALSE))
  BY EntriesDescend DEF EntriesAreRows, LogInv, AlertTimeline
<1>a. DOMAIN rows = 1..Len(rows)
  <2> HIDE DEF rows
  <2> QED BY <1>1, LenProperties DEF Descends
<1> HIDE DEF rows, entries
<1>3. /\ k \in 1..Len(entries) /\ DOMAIN entries = 1..Len(entries)
      /\ Len(entries) \in Nat
  BY <1>2, LenProperties DEF Descends
<1>4. \A i \in Shown : ~log[i].meta
  BY <1>1, <1>a DEF Descends
<1>5. \A i \in Shown : i \in EntryRows(FALSE)
  <2> SUFFICES ASSUME NEW i \in Shown, ~Newest(i, Shown)
               PROVE  i \in EntryRows(FALSE)
    BY DEF EntryRows
  <2>1. PICK j \in Shown : Follows(j, i, Shown)
    BY ShownHasNext DEF LogInv
  <2>2. Follows(j, i, Telling)
    <3>1. j \in Telling /\ i < j
      BY <2>1, LogRows DEF Follows, LogInv
    <3>2. ASSUME NEW m \in Telling PROVE m <= i \/ j <= m
      <4>1. m \in Nat /\ i \in Nat
        BY LogRows DEF LogInv
      <4>2. i < m => m \in Shown
        BY NewerShown
      <4> QED BY <2>1, <4>1, <4>2 DEF Follows
    <3> QED BY <3>1, <3>2 DEF Follows
  <2>3. i \in Telling /\ j \in Telling
    BY LogRows DEF LogInv
  <2>4. log[i].status # log[j].status
    BY <1>4, <2>2, <2>3 DEF LogInv, Changing
  <2> QED BY <2>1, <2>4 DEF EntryRows
<1> DEFINE i == g[k]
<1>6. i \in Shown /\ i \in Telling /\ entries[k] = log[i]
  BY <1>2, <1>3 DEF Descends, EntryRows, Shown
<1>7. log[i].at \in 1..Now
  BY <1>6, RowLastUpTo
<1>8. t \in 1..Now
  <2>1. CASE k = 1
    BY <1>6, <1>7, <2>1, LogRows DEF Until, LogInv
  <2>2. CASE k # 1
    <3>1. k - 1 \in 1..Len(entries)
      BY <1>3, <2>2
    <3>2. g[k - 1] \in Telling /\ entries[k - 1] = log[g[k - 1]]
      BY <1>2, <3>1 DEF Descends, EntryRows, Shown
    <3>3. entries[k - 1].at \in 1..Now
      BY <3>2, RowLastUpTo
    <3> QED BY <1>6, <1>7, <2>2, <3>3, LogRows DEF Until, LogInv
  <2> QED BY <2>1, <2>2
<1>9. ASSUME NEW j \in Telling, log[j].at <= t PROVE j <= i
  <2>1. SUFFICES ASSUME i < j PROVE FALSE
    BY <1>6, LogRows DEF LogInv
  <2>2. j \in EntryRows(FALSE)
    BY <1>5, <1>6, <2>1, NewerShown
  <2>3. PICK m \in 1..Len(entries) : g[m] = j
    BY <1>2, <2>2 DEF Descends
  <2>4. m < k
    <3>1. k < m => g[m] < g[k]
      BY <1>2, <1>3 DEF Descends
    <3>2. i \in Nat /\ j \in Nat
      BY <1>6, LogRows DEF LogInv
    <3> QED BY <1>3, <2>1, <2>3, <3>1, <3>2
  <2>5. k # 1 /\ k - 1 \in 1..Len(entries) /\ m <= k - 1
    BY <1>3, <2>4
  <2>6. g[k - 1] \in Telling /\ entries[k - 1] = log[g[k - 1]]
    BY <1>2, <2>5 DEF Descends, EntryRows, Shown
  <2>7. m < k - 1 => g[k - 1] < g[m]
    BY <1>2, <2>5 DEF Descends
  <2>8. log[g[k - 1]].at <= log[j].at
    <3>1. g[k - 1] \in 1..Len(log) /\ j \in 1..Len(log)
          /\ log[j].at \in Nat /\ log[g[k - 1]].at \in Nat
      BY <2>6, LogRows DEF LogInv, Row
    <3>2. g[k - 1] < j => log[g[k - 1]].at < log[j].at
      BY <3>1 DEF LogInv, Dated
    <3> QED BY <1>3, <2>3, <2>5, <2>7, <3>1, <3>2
  <2>9. t < entries[k - 1].at
    <3>1. entries[k - 1].at \in 1..Now
      BY <2>6, RowLastUpTo
    <3> QED BY <1>6, <1>7, <2>5, <3>1, LogRows DEF Until, LogInv
  <2>10. log[j].at \in 1..Now /\ log[g[k - 1]].at \in 1..Now
    BY <2>6, RowLastUpTo
  <2> QED BY <1>8, <1>9, <2>6, <2>8, <2>9, <2>10
<1>10. log[i].at <= t
  BY <1>6
<1>11. LastUpTo(i, t)
  BY <1>6, <1>9, <1>10 DEF LastUpTo
<1> QED BY <1>6, <1>8, <1>11 DEF LogInv, Recorded

-----------------------------------------------------------------------------
(* Periods *)

\* A selection does not depend on what the sequence cannot have.
LEMMA SelectedSame ==
  ASSUME NEW R, NEW S, NEW T, \A x \in R : x \in S <=> x \in T
  PROVE  \A s \in Seq(R) : Selected(s, S) = Selected(s, T)
<1> DEFINE A == {s \in Seq(R) : Selected(s, S) = Selected(s, T)}
<1>1. <<>> \in A
  BY EmptySeq, SelectedEmpty
<1>2. ASSUME NEW s \in Seq(R), NEW x \in R, s \in A
      PROVE  Append(s, x) \in A
  <2>1. Append(s, x) \in Seq(R)
    BY AppendProperties
  <2>2. Selected(Append(s, x), S) =
          IF x \in S THEN Append(Selected(s, S), x) ELSE Selected(s, S)
    BY SelectedAppend
  <2>3. Selected(Append(s, x), T) =
          IF x \in T THEN Append(Selected(s, T), x) ELSE Selected(s, T)
    BY SelectedAppend
  <2>4. Selected(Append(s, x), S) = Selected(Append(s, x), T)
    <3>1. Selected(s, S) = Selected(s, T) /\ (x \in S <=> x \in T)
      BY <1>2
    <3> QED BY <2>2, <2>3, <3>1
  <2> QED BY <2>1, <2>4
<1> HIDE DEF A
<1>3. \A s \in Seq(R) : s \in A
  BY <1>1, <1>2, AllSequences
<1> QED BY <1>3 DEF A

\* Where the periods of a sequence of statuses begin.
Starts(s) == {i \in DOMAIN s : i = 1 \/ s[i] # s[i - 1]}

LEMMA PeriodsAre ==
  ASSUME NEW R, NEW s \in Seq(R)
  PROVE  /\ InOrder(s, Starts(s)) \in Seq(1..Len(s))
         /\ Periods(s) \in Seq(R)
         /\ Len(Periods(s)) = Len(InOrder(s, Starts(s)))
         /\ \A k \in 1..Len(Periods(s)) :
              Periods(s)[k] = s[InOrder(s, Starts(s))[k]]
<1> DEFINE n == Len(s)
           starts == InOrder(s, Starts(s))
<1>1. n \in Nat /\ DOMAIN s = 1..n
  BY LenProperties
<1>2. Starts(s) \in SUBSET (1..n)
  BY <1>1 DEF Starts
<1>3. starts \in Seq(Starts(s))
  BY <1>1, <1>2, InOrderEmbeds
<1>4. Periods(s) = [k \in DOMAIN starts |-> s[starts[k]]]
  BY DEF Periods, Starts
<1> HIDE DEF starts
<1>5. starts \in Seq(1..n)
  BY <1>2, <1>3, SeqMonotonic
<1>6. /\ Len(starts) \in Nat /\ DOMAIN starts = 1..Len(starts)
      /\ \A k \in 1..Len(starts) : starts[k] \in 1..n
  BY <1>5, LenProperties, ElementOfSeq
<1>7. \A k \in 1..Len(starts) : s[starts[k]] \in R
  BY <1>6, ElementOfSeq
<1>8. Periods(s) \in [1..Len(starts) -> R]
  BY <1>4, <1>6, <1>7
<1>9. Periods(s) \in Seq(R) /\ Len(Periods(s)) = Len(starts)
  BY <1>6, <1>8, SeqDef, LenProperties
<1> QED BY <1>4, <1>5, <1>6, <1>9 DEF starts

LEMMA PeriodsAppend ==
  ASSUME NEW R, NEW s \in Seq(R), NEW x \in R
  PROVE  Periods(Append(s, x)) =
           IF Len(s) # 0 /\ s[Len(s)] = x THEN Periods(s)
           ELSE Append(Periods(s), x)
<1> DEFINE n == Len(s)
           q == Append(s, x)
           all == [i \in 1..n |-> i]
           more == [i \in 1..(n + 1) |-> i]
           new == ~(n # 0 /\ s[n] = x)
<1>1. /\ n \in Nat /\ DOMAIN s = 1..n
      /\ q \in Seq(R) /\ Len(q) = n + 1 /\ DOMAIN q = 1..(n + 1)
      /\ \A i \in 1..n : q[i] = s[i]
      /\ q[n + 1] = x
  BY LenProperties, AppendProperties
<1> HIDE DEF q, n
<1>2. all \in Seq(1..n) /\ Len(all) = n
  <2>1. all \in [1..n -> 1..n]
    OBVIOUS
  <2> QED BY <1>1, <2>1, SeqDef, LenProperties
<1>3. more = Append(all, n + 1)
  <2>1. more \in Seq(Nat) /\ Len(more) = n + 1
    <3>1. more \in [1..(n + 1) -> Nat]
      BY <1>1
    <3> QED BY <1>1, <3>1, SeqDef, LenProperties
  <2>2. all \in Seq(Nat)
    BY <1>2, SeqMonotonic
  <2>3. /\ Append(all, n + 1) \in Seq(Nat)
        /\ Len(Append(all, n + 1)) = n + 1
        /\ \A i \in 1..n : Append(all, n + 1)[i] = i
        /\ Append(all, n + 1)[n + 1] = n + 1
    <3>1. \A i \in 1..n : all[i] = i
      OBVIOUS
    <3> HIDE DEF all
    <3> QED BY <1>1, <1>2, <2>2, <3>1, AppendProperties
  <2>4. \A i \in 1..(n + 1) : more[i] = i
    OBVIOUS
  <2> HIDE DEF more, all
  <2>5. \A i \in 1..(n + 1) : more[i] = Append(all, n + 1)[i]
    BY <1>1, <2>3, <2>4
  <2> QED BY <2>1, <2>3, <2>5, SeqEqual
<1>4. \A i \in 1..n : i \in Starts(q) <=> i \in Starts(s)
  <2> TAKE i \in 1..n
  <2>1. i # 1 => i - 1 \in 1..n
    BY <1>1
  <2> QED BY <1>1, <2>1 DEF Starts
<1>5. n + 1 \in Starts(q) <=> new
  <2>1. n # 0 => (n + 1) - 1 = n /\ n \in 1..n
    BY <1>1
  <2> QED BY <1>1, <2>1 DEF Starts
<1> DEFINE old == Selected(all, Starts(s))
           starts == Selected(more, Starts(q))
<1>6. starts = IF new THEN Append(old, n + 1) ELSE old
  <2> HIDE DEF all, more
  <2>1. Selected(all, Starts(q)) = old
    BY <1>2, <1>4, SelectedSame
  <2>2. all \in Seq(Nat) /\ n + 1 \in Nat
    <3>1. 1..n \subseteq Nat
      BY <1>1
    <3> QED BY <1>1, <1>2, <3>1, SeqMonotonic
  <2>3. Selected(Append(all, n + 1), Starts(q)) =
          IF n + 1 \in Starts(q) THEN Append(Selected(all, Starts(q)), n + 1)
          ELSE Selected(all, Starts(q))
    <3> DEFINE m == n + 1
               S == Starts(q)
    <3>1. m \in Nat
      BY <2>2
    <3> HIDE DEF m, S
    <3>2. Selected(Append(all, m), S) =
            IF m \in S THEN Append(Selected(all, S), m) ELSE Selected(all, S)
      BY <2>2, <3>1, SelectedAppend
    <3> QED BY <3>2 DEF m, S
  <2> QED BY <1>3, <1>5, <2>1, <2>3
<1>7. InOrder(s, Starts(s)) = old /\ InOrder(q, Starts(q)) = starts
  BY <1>1 DEF InOrder
<1> HIDE DEF all, more, old, starts
<1>8. /\ old \in Seq(1..n) /\ Periods(s) \in Seq(R)
      /\ Len(Periods(s)) = Len(old)
      /\ \A k \in 1..Len(old) : Periods(s)[k] = s[old[k]]
  BY <1>7, PeriodsAre DEF n
<1>9. /\ Periods(q) \in Seq(R) /\ Len(Periods(q)) = Len(starts)
      /\ \A k \in 1..Len(starts) : Periods(q)[k] = q[starts[k]]
  BY <1>1, <1>7, PeriodsAre
<1>10. Len(old) \in Nat /\ \A k \in 1..Len(old) : old[k] \in 1..n
  BY <1>8, LenProperties, ElementOfSeq
<1>11. CASE ~new
  <2>1. ASSUME NEW k \in 1..Len(old)
        PROVE  Periods(q)[k] = Periods(s)[k]
    <3>1. starts = old /\ old[k] \in 1..n
      BY <1>6, <1>10, <1>11
    <3>2. q[old[k]] = s[old[k]]
      BY <1>1, <3>1
    <3> QED BY <1>8, <1>9, <3>1, <3>2
  <2>2. Periods(q) = Periods(s)
    BY <1>6, <1>8, <1>9, <1>11, <2>1, SeqEqual
  <2> QED BY <1>11, <2>2 DEF q, n
<1>12. CASE new
  <2>1. /\ Len(starts) = Len(old) + 1
        /\ \A k \in 1..Len(old) : starts[k] = old[k]
        /\ starts[Len(old) + 1] = n + 1
    <3>1. old \in Seq(Nat) /\ n + 1 \in Nat
      BY <1>1, <1>8, SeqMonotonic
    <3> QED BY <1>6, <1>12, <3>1, AppendProperties
  <2>2. /\ Append(Periods(s), x) \in Seq(R)
        /\ Len(Append(Periods(s), x)) = Len(old) + 1
        /\ \A k \in 1..Len(old) : Append(Periods(s), x)[k] = Periods(s)[k]
        /\ Append(Periods(s), x)[Len(old) + 1] = x
    BY <1>8, AppendProperties
  <2>3. \A k \in 1..(Len(old) + 1) :
          Periods(q)[k] = Append(Periods(s), x)[k]
    <3> TAKE k \in 1..(Len(old) + 1)
    <3>1. CASE k \in 1..Len(old)
      <4>1. Periods(q)[k] = q[old[k]]
        BY <1>9, <1>10, <2>1, <3>1
      <4>2. q[old[k]] = s[old[k]]
        BY <1>1, <1>10, <3>1
      <4> QED BY <1>8, <2>2, <3>1, <4>1, <4>2
    <3>2. CASE k = Len(old) + 1
      <4>1. k \in 1..Len(starts)
        BY <1>10, <2>1, <3>2
      <4> QED BY <1>1, <1>9, <2>1, <2>2, <3>2, <4>1
    <3>3. Len(old) \in Nat
      BY <1>10
    <3>4. k \in 1..Len(old) \/ k = Len(old) + 1
      BY <3>3
    <3> QED BY <3>1, <3>2, <3>4
  <2>4. Periods(q) = Append(Periods(s), x)
    BY <1>9, <2>1, <2>2, <2>3, SeqEqual
  <2> QED BY <1>12, <2>4 DEF q, n
<1> QED BY <1>11, <1>12

\* t tells what s tells, but every element for as long as f says.
Stretches(f, t, s) ==
  /\ f \in [1..Len(t) -> 1..Len(s)]
  /\ \A k \in 1..Len(t) : t[k] = s[f[k]]
  /\ \A j, k \in 1..Len(t) : j <= k => f[j] <= f[k]
  /\ \A i \in 1..Len(s) : \E k \in 1..Len(t) : f[k] = i

\* The last element is told last.
LEMMA StretchesLast ==
  ASSUME NEW R, NEW t \in Seq(R), NEW s \in Seq(R), NEW f, Stretches(f, t, s),
         Len(t) # 0
  PROVE  /\ Len(t) \in 1..Len(t) /\ Len(s) \in 1..Len(s)
         /\ f[Len(t)] = Len(s) /\ t[Len(t)] = s[Len(s)]
<1>1. /\ Len(t) \in Nat /\ Len(s) \in Nat /\ Len(t) \in 1..Len(t)
  BY LenProperties
<1>2. f[Len(t)] \in 1..Len(s)
  BY <1>1 DEF Stretches
<1>3. Len(s) \in 1..Len(s)
  BY <1>1, <1>2
<1>4. PICK k \in 1..Len(t) : f[k] = Len(s)
  BY <1>3 DEF Stretches
<1>5. k <= Len(t)
  BY <1>1
<1>6. f[k] <= f[Len(t)]
  BY <1>1, <1>5 DEF Stretches
<1>7. f[Len(t)] = Len(s)
  BY <1>1, <1>2, <1>4, <1>6
<1>8. t[Len(t)] = s[f[Len(t)]]
  BY <1>1 DEF Stretches
<1> QED BY <1>1, <1>3, <1>7, <1>8

LEMMA Stretched ==
  ASSUME NEW R
  PROVE  \A t, s \in Seq(R) : \A f : Stretches(f, t, s) => Periods(t) = Periods(s)
<1> DEFINE A == {t \in Seq(R) : \A s \in Seq(R) : \A f :
                   Stretches(f, t, s) => Periods(t) = Periods(s)}
<1>1. <<>> \in A
  <2> SUFFICES ASSUME NEW s \in Seq(R), NEW f, Stretches(f, <<>>, s)
               PROVE  Periods(<<>>) = Periods(s)
    BY EmptySeq
  <2>1. Len(s) \in Nat /\ Len(<<>>) = 0
    BY LenProperties, EmptySeq
  <2>2. ASSUME Len(s) # 0 PROVE FALSE
    <3>1. 1 \in 1..Len(s)
      BY <2>1, <2>2
    <3>2. \E k \in 1..Len(<<>>) : f[k] = 1
      BY <3>1 DEF Stretches
    <3> QED BY <2>1, <3>2
  <2>3. s = <<>>
    BY <2>2, EmptySeq
  <2> QED BY <2>3
<1>2. ASSUME NEW t \in Seq(R), NEW x \in R, t \in A
      PROVE  Append(t, x) \in A
  <2> DEFINE q == Append(t, x)
             n == Len(t)
  <2>1. /\ q \in Seq(R) /\ Len(q) = n + 1 /\ n \in Nat
        /\ \A i \in 1..n : q[i] = t[i]
        /\ q[n + 1] = x
    BY AppendProperties, LenProperties
  <2>2. Periods(q) = IF n # 0 /\ t[n] = x THEN Periods(t)
                     ELSE Append(Periods(t), x)
    BY PeriodsAppend
  <2> HIDE DEF q
  <2> SUFFICES ASSUME NEW s \in Seq(R), NEW f, Stretches(f, q, s)
               PROVE  Periods(q) = Periods(s)
    BY <2>1 DEF q
  <2> DEFINE m == Len(s)
             e == [k \in 1..n |-> f[k]]
  <2>3. m \in Nat /\ m \in 1..m /\ f[n + 1] = m /\ s[m] = x
    <3>1. Len(q) # 0
      BY <2>1
    <3>2. f[Len(q)] = m /\ q[Len(q)] = s[m] /\ m \in 1..m
      BY <2>1, <3>1, StretchesLast
    <3> QED BY <2>1, <3>2, LenProperties
  <2>4. /\ \A k \in 1..n : k \in 1..(n + 1) /\ f[k] \in 1..m /\ t[k] = s[f[k]]
        /\ \A j, k \in 1..n : j <= k => f[j] <= f[k]
        /\ \A i \in 1..m : \E k \in 1..(n + 1) : f[k] = i
    <3>1. \A k \in 1..n : k \in 1..(n + 1)
      BY <2>1
    <3> QED BY <2>1, <3>1 DEF Stretches
  <2>5. CASE \E k \in 1..n : f[k] = m
    <3>1. e \in [1..n -> 1..m]
      BY <2>4
    <3>2. \A i \in 1..m : \E k \in 1..n : f[k] = i
      <4> TAKE i \in 1..m
      <4>1. PICK k \in 1..(n + 1) : f[k] = i
        BY <2>4
      <4>2. k \in 1..n \/ k = n + 1
        BY <2>1
      <4> QED BY <2>3, <2>5, <4>1, <4>2
    <3>3. Stretches(e, t, s)
      BY <2>4, <3>1, <3>2 DEF Stretches
    <3> HIDE DEF e
    <3>4. Periods(t) = Periods(s)
      BY <1>2, <3>3
    <3>5. n # 0
      BY <2>1, <2>5
    <3>6. t[n] = x
      BY <2>3, <3>3, <3>5, StretchesLast
    <3> QED BY <2>2, <3>4, <3>5, <3>6
  <2>6. CASE ~\E k \in 1..n : f[k] = m
    <3>1. s # <<>>
      BY <2>3, EmptySeq
    <3>2. PICK front \in Seq(R), y \in R : s = Append(front, y)
      BY <3>1, SequenceEmptyOrAppend
    <3>3. /\ Len(front) \in Nat /\ m = Len(front) + 1 /\ s[m] = y
          /\ \A i \in 1..Len(front) : s[i] = front[i]
      BY <3>2, AppendProperties, LenProperties
    <3> DEFINE l == Len(front)
    <3>4. Periods(s) = IF l # 0 /\ front[l] = x THEN Periods(front)
                       ELSE Append(Periods(front), x)
      BY <2>3, <3>2, <3>3, PeriodsAppend
    <3> HIDE DEF m, n
    <3>5. \A k \in 1..n : f[k] \in 1..l
      <4> TAKE k \in 1..n
      <4>1. f[k] \in 1..m /\ f[k] # m
        BY <2>4, <2>6
      <4> QED BY <3>3, <4>1
    <3>6. \A k \in 1..n : t[k] = front[f[k]]
      BY <2>4, <3>3, <3>5
    <3>7. \A i \in 1..l : \E k \in 1..n : f[k] = i
      <4> TAKE i \in 1..l
      <4>1. i \in 1..m /\ i # m
        BY <3>3
      <4>2. PICK k \in 1..(n + 1) : f[k] = i
        BY <2>4, <4>1
      <4>3. k \in 1..n \/ k = n + 1
        BY <2>1
      <4> QED BY <2>3, <4>1, <4>2, <4>3
    <3>8. Stretches(e, t, front)
      BY <2>4, <3>5, <3>6, <3>7 DEF Stretches, n
    <3> HIDE DEF e
    <3>9. Periods(t) = Periods(front)
      BY <1>2, <3>8
    <3>10. n # 0 => l # 0 /\ t[n] = front[l]
      <4>1. n # 0 => l \in 1..l /\ t[n] = front[l]
        BY <3>8, StretchesLast DEF n
      <4> QED BY <3>3, <4>1
    <3>11. l # 0 => n # 0
      <4> HAVE l # 0
      <4>1. l \in 1..l
        BY <3>3
      <4>2. \E k \in 1..n : TRUE
        BY <3>7, <4>1
      <4> QED BY <2>1, <4>2
    <3> QED BY <2>2, <3>4, <3>9, <3>10, <3>11
  <2> QED BY <2>5, <2>6
<1> HIDE DEF A
<1>3. \A t \in Seq(R) : t \in A
  BY <1>1, <1>2, AllSequences
<1> QED BY <1>3 DEF A

\* Entry k is about time t: of the entries that are not older than the row of
\* that time, it is the oldest.
Tells(g, n, k, t) ==
  /\ k \in 1..n
  /\ \E r \in Shown : /\ LastUpTo(r, t) /\ r <= g[k]
                      /\ \A j \in 1..n : r <= g[j] => j <= k

LEMMA Numbers ==
  ASSUME LogInv, NEW g, NEW list, NEW keepMeta \in BOOLEAN,
         Descends(g, list, EntryRows(keepMeta))
  PROVE  /\ Len(list) \in Nat
         /\ \A k \in 1..Len(list) : /\ g[k] \in EntryRows(keepMeta)
                                    /\ g[k] \in Shown /\ g[k] \in Telling
                                    /\ g[k] \in Nat /\ list[k] = log[g[k]]
         /\ \A i \in Telling : /\ i \in 1..Len(log) /\ i \in Nat
                               /\ log[i].at \in 1..Now /\ log[i].at \in Nat
         /\ Shown \subseteq Telling
         /\ \A j, k \in 1..Len(list) : g[j] <= g[k] <=> k <= j
<1>1. Len(list) \in Nat
  BY LenProperties DEF Descends
<1>2. Shown \subseteq Telling /\ Telling \subseteq Nat /\ EntryRows(keepMeta) \subseteq Shown
  BY LogRows DEF LogInv, EntryRows
<1>3. \A k \in 1..Len(list) : /\ g[k] \in EntryRows(keepMeta)
                              /\ g[k] \in Shown /\ g[k] \in Telling
                              /\ g[k] \in Nat /\ list[k] = log[g[k]]
  BY <1>2 DEF Descends
<1>4. \A i \in Telling : /\ i \in 1..Len(log) /\ i \in Nat
                         /\ log[i].at \in 1..Now /\ log[i].at \in Nat
  BY RowLastUpTo, LogRows DEF LogInv
<1>5. ASSUME NEW j \in 1..Len(list), NEW k \in 1..Len(list)
      PROVE  g[j] <= g[k] <=> k <= j
  <2>1. j < k => g[k] < g[j]
    BY DEF Descends
  <2>2. k < j => g[j] < g[k]
    BY DEF Descends
  <2> QED BY <1>1, <1>3, <2>1, <2>2
<1> QED BY <1>1, <1>2, <1>3, <1>4, <1>5

LEMMA OneRowPerTime ==
  ASSUME LogInv, NEW t \in Nat, NEW u \in Nat, t <= u,
         NEW i, LastUpTo(i, t), NEW j, LastUpTo(j, u)
  PROVE  i <= j
<1>1. i \in Telling /\ log[i].at <= t /\ log[i].at \in Nat
  BY RowLastUpTo, LogRows DEF LastUpTo, LogInv
<1>2. log[i].at <= u
  BY <1>1
<1> QED BY <1>1, <1>2 DEF LastUpTo

\* Some entry is about every time since the oldest row.
LEMMA SomeEntryTells ==
  ASSUME LogInv, NEW g, NEW list, NEW keepMeta \in BOOLEAN,
         Descends(g, list, EntryRows(keepMeta)),
         NEW o \in Shown, \A i \in Shown : o <= i,
         NEW t \in log[o].at..Now
  PROVE  \E k \in 1..Len(list) : Tells(g, Len(list), k, t)
<1> DEFINE n == Len(list)
           T == {i \in Telling : log[i].at <= t}
<1>1. /\ n \in Nat
      /\ \A k \in 1..n : g[k] \in Shown /\ g[k] \in Nat
      /\ \A i \in Telling : i \in Nat /\ i \in 1..Len(log) /\ log[i].at \in Nat
      /\ Shown \subseteq Telling
      /\ \A j, k \in 1..n : g[j] <= g[k] <=> k <= j
  BY Numbers
<1>2. Len(log) \in Nat /\ Now \in Nat /\ Shown \subseteq Nat
  BY LogRows DEF LogInv
<1>3. t \in Nat /\ o \in T
  BY <1>1, <1>2
<1>4. PICK r \in T : \A i \in T : i <= r
  <2>1. T \in SUBSET Nat /\ T # {}
    BY <1>1, <1>3
  <2>2. Len(log) \in Nat /\ \A i \in T : i <= Len(log)
    BY <1>1, <1>2
  <2> HIDE DEF T
  <2> QED BY <2>1, <2>2, GreatestNumber
<1>5. LastUpTo(r, t)
  BY <1>4 DEF LastUpTo
<1>6. r \in Shown
  <2>1. o <= r /\ r \in Telling
    BY <1>3, <1>4
  <2>2. o < r \/ o = r
    BY <1>1, <1>3, <2>1
  <2> QED BY <2>1, <2>2, NewerShown
<1> HIDE DEF T, n
<1>7. PICK m \in Shown : \A i \in Shown : i <= m
  <2>1. Shown \in SUBSET Nat /\ Shown # {}
    BY <1>2, <1>6
  <2>2. \A i \in Shown : i <= Len(log)
    BY <1>1, <1>2
  <2> QED BY <1>2, <2>1, <2>2, GreatestNumber
<1>8. m \in EntryRows(keepMeta)
  BY <1>7 DEF EntryRows, Newest
<1>9. PICK l \in 1..n : g[l] = m
  BY <1>8 DEF Descends, n
<1> DEFINE K == {k \in 1..n : r <= g[k]}
<1>10. K \in SUBSET Nat /\ l \in K /\ \A k \in K : k <= n
  BY <1>1, <1>6, <1>7, <1>9
<1>11. PICK k \in K : \A j \in K : j <= k
  <2> HIDE DEF K
  <2> QED BY <1>1, <1>10, GreatestNumber
<1>12. Tells(g, n, k, t)
  BY <1>5, <1>6, <1>11 DEF Tells
<1> QED BY <1>11, <1>12 DEF n

\* ... and its status is that of the asset at that time.
LEMMA TellsStatus ==
  ASSUME LogInv, NEW g, NEW list, NEW keepMeta \in BOOLEAN,
         Descends(g, list, EntryRows(keepMeta)),
         NEW t \in 1..Now, NEW e, Tells(g, Len(list), e, t)
  PROVE  history[t] = list[e].status
<1> DEFINE n == Len(list)
           v == g[e]
<1>1. /\ n \in Nat
      /\ \A k \in 1..n : g[k] \in Shown /\ g[k] \in Nat /\ list[k] = log[g[k]]
      /\ \A i \in Telling : i \in Nat /\ i \in 1..Len(log)
      /\ Shown \subseteq Telling
      /\ \A j, k \in 1..n : g[j] <= g[k] <=> k <= j
  BY Numbers
<1>2. PICK r \in Shown : /\ LastUpTo(r, t) /\ r <= v
                         /\ \A j \in 1..n : r <= g[j] => j <= e
  BY DEF Tells
<1>3. e \in 1..n /\ v \in Shown /\ v \in Nat /\ list[e] = log[v]
  BY <1>1 DEF Tells
<1> HIDE DEF n, v
<1>4. history[t] = log[r].status
  BY <1>1, <1>2 DEF LogInv, Recorded
<1>5. log[r].status = log[v].status
  <2> DEFINE C == {i \in Shown : /\ r <= i /\ i <= v
                                 /\ log[i].status # log[v].status}
  <2> SUFFICES ASSUME log[r].status # log[v].status PROVE FALSE
    OBVIOUS
  <2>1. r \in C
    BY <1>1, <1>2
  <2>2. C \in SUBSET Nat /\ \A i \in C : i <= v
    BY <1>1
  <2>3. PICK i \in C : \A j \in C : j <= i
    <3> HIDE DEF C
    <3> QED BY <1>3, <2>1, <2>2, GreatestNumber
  <2>4. i \in Nat /\ i < v
    BY <1>1, <1>3, <2>3
  <2>5. ~Newest(i, Shown)
    BY <1>3, <2>4 DEF Newest
  <2>6. PICK j \in Shown : Follows(j, i, Shown)
    BY <2>3, <2>5, ShownHasNext DEF LogInv
  <2>7. j \in Nat /\ i < j /\ j <= v /\ r <= j
    BY <1>1, <1>2, <1>3, <2>3, <2>4, <2>6 DEF Follows
  <2>8. j \notin C
    BY <2>3, <2>4, <2>7
  <2>9. log[i].status # log[j].status
    BY <2>3, <2>7, <2>8
  <2>10. i \in EntryRows(keepMeta)
    BY <2>3, <2>6, <2>9 DEF EntryRows
  <2>11. PICK k \in 1..n : g[k] = i
    BY <2>10 DEF Descends, n
  <2>12. k <= e
    BY <1>2, <2>3, <2>11
  <2>13. g[e] <= g[k]
    BY <1>1, <1>3, <2>11, <2>12
  <2> QED BY <1>1, <1>3, <2>4, <2>11, <2>13 DEF v
<1> QED BY <1>3, <1>4, <1>5

LEMMA TellsInOrder ==
  ASSUME LogInv, NEW g, NEW n, NEW t \in Nat, NEW u \in Nat, t <= u,
         NEW k, Tells(g, n, k, t), NEW j, Tells(g, n, j, u),
         \A i \in 1..n : g[i] \in Nat
  PROVE  j <= k
<1>1. PICK r \in Shown : /\ LastUpTo(r, t)
                         /\ \A i \in 1..n : r <= g[i] => i <= k
  BY DEF Tells
<1>2. PICK q \in Shown : LastUpTo(q, u) /\ q <= g[j]
  BY DEF Tells
<1>3. r <= q
  BY <1>1, <1>2, OneRowPerTime
<1>4. r \in Nat /\ q \in Nat /\ j \in 1..n /\ g[j] \in Nat
  BY LogRows DEF LogInv, Tells
<1> QED BY <1>1, <1>2, <1>3, <1>4

LEMMA TellsItself ==
  ASSUME LogInv, NEW g, NEW list, NEW keepMeta \in BOOLEAN,
         Descends(g, list, EntryRows(keepMeta)), NEW k \in 1..Len(list)
  PROVE  Tells(g, Len(list), k, log[g[k]].at)
<1>1. /\ g[k] \in Shown /\ g[k] \in Telling /\ g[k] \in Nat
      /\ \A j \in 1..Len(list) : g[k] <= g[j] <=> j <= k
  BY Numbers
<1>2. LastUpTo(g[k], log[g[k]].at)
  BY <1>1, RowLastUpTo
<1> QED BY <1>1, <1>2 DEF Tells

LEMMA PeriodsAreTold == LogInv => EveryPeriodIsTold
<1> DEFINE list(keepMeta) == Entries(keepMeta)
           rows == NewestFirst
<1> SUFFICES ASSUME LogInv, NEW keepMeta \in BOOLEAN, list(keepMeta) # <<>>
             PROVE  /\ Periods(Reverse(StatusesOf(list(keepMeta))))
                         = Periods(SubSeq(history, rows[Len(rows)].at, Now))
                    /\ \A k \in DOMAIN list(keepMeta) :
                         history[list(keepMeta)[k].at] = list(keepMeta)[k].status
  BY DEF EveryPeriodIsTold
<1> DEFINE E == list(keepMeta)
           n == Len(E)
<1>1. \A k \in DOMAIN E : history[E[k].at] = E[k].status
  BY EntriesInside
<1>2. PICK g : Descends(g, E, EntryRows(keepMeta))
  BY EntriesDescend DEF EntriesAreRows, LogInv
<1>3. PICK h : Descends(h, rows, Shown)
  BY NewestFirstDescends DEF LogInv
<1> HIDE DEF list, rows
<1>4. /\ n \in Nat
      /\ \A k \in 1..n : /\ g[k] \in Shown /\ g[k] \in Telling /\ g[k] \in Nat
                         /\ E[k] = log[g[k]]
      /\ \A i \in Telling : /\ i \in 1..Len(log) /\ i \in Nat
                            /\ log[i].at \in 1..Now /\ log[i].at \in Nat
      /\ Shown \subseteq Telling
  BY <1>2, Numbers
<1>5. E \in Seq(Row) /\ DOMAIN E = 1..n /\ n # 0
  <2>1. E \in Seq(Row)
    BY <1>2 DEF Descends
  <2> QED BY <2>1, LenProperties, EmptySeq
<1> HIDE DEF E
<1>6. Now \in Nat /\ DOMAIN history = 1..Now
      /\ history \in Seq(Statuses \cup {Error})
  BY LogRows DEF LogInv, LogTypes
<1> DEFINE o == h[Len(rows)]
           a == rows[Len(rows)].at
<1>7. /\ o \in Shown /\ a = log[o].at
      /\ \A i \in Shown : o <= i
  <2>1. rows \in Seq(Row) /\ Len(rows) \in Nat
    BY <1>3, LenProperties DEF Descends
  <2>2. 1 \in 1..n
    BY <1>4, <1>5
  <2>3. \E k \in 1..Len(rows) : h[k] = g[1]
    BY <1>3, <1>4, <2>2 DEF Descends
  <2>4. Len(rows) \in 1..Len(rows)
    BY <2>1, <2>3
  <2>5. o \in Shown /\ a = log[o].at
    BY <1>3, <2>4 DEF Descends
  <2>6. ASSUME NEW i \in Shown PROVE o <= i
    <3>1. PICK k \in 1..Len(rows) : h[k] = i
      BY <1>3 DEF Descends
    <3>2. k < Len(rows) => o < i
      BY <1>3, <2>4, <3>1 DEF Descends
    <3>3. o \in Nat /\ i \in Nat
      BY <1>4, <2>5
    <3> QED BY <2>1, <3>1, <3>2, <3>3
  <2> QED BY <2>5, <2>6
<1> HIDE DEF o, a
<1>8. a \in 1..Now
  BY <1>4, <1>7
<1> DEFINE R == Statuses \cup {Error}
           l == (Now - a) + 1
           told == Reverse(StatusesOf(E))
           went == SubSeq(history, a, Now)
<1>9. /\ told \in Seq(R) /\ Len(told) = n
      /\ \A k \in 1..n : told[k] = E[(n - k) + 1].status
  <2> DEFINE statuses == StatusesOf(E)
  <2>1. statuses = [k \in 1..n |-> E[k].status]
    BY <1>5 DEF StatusesOf
  <2>2. \A k \in 1..n : E[k].status \in R
    <3>1. \A k \in 1..n : E[k] \in Row
      BY <1>5, ElementOfSeq
    <3> QED BY <3>1 DEF Row
  <2>3. statuses \in Seq(R) /\ Len(statuses) = n
    <3>1. statuses \in [1..n -> R]
      BY <2>1, <2>2
    <3> HIDE DEF statuses, R
    <3> QED BY <1>4, <3>1, SeqDef, LenProperties
  <2>4. \A k \in 1..n : statuses[k] = E[k].status
    BY <2>1
  <2> HIDE DEF statuses
  <2>5. told = [k \in 1..n |-> statuses[(n - k) + 1]]
    BY <2>3 DEF Reverse, statuses
  <2>6. \A k \in 1..n : (n - k) + 1 \in 1..n
    BY <1>4
  <2>7. told \in [1..n -> R]
    BY <2>2, <2>4, <2>5, <2>6
  <2> HIDE DEF R, told
  <2>8. told \in Seq(R) /\ Len(told) = n
    BY <1>4, <2>7, SeqDef, LenProperties
  <2> QED BY <2>4, <2>5, <2>6, <2>8
<1>10. /\ went \in Seq(R) /\ Len(went) = l /\ l \in Nat \ {0}
       /\ \A x \in 1..l : went[x] = history[(a + x) - 1]
  <2>1. a \in 1..(Len(history) + 1) /\ Now \in 0..Len(history) /\ a <= Now
    BY <1>6, <1>8 DEF Now
  <2>2. /\ SubSeq(history, a, Now) \in Seq(R)
        /\ Len(SubSeq(history, a, Now)) = IF a <= Now THEN Now - a + 1 ELSE 0
        /\ \A i \in 1..(Now - a + 1) : SubSeq(history, a, Now)[i] = history[a + i - 1]
    BY <1>6, <2>1, SubSeqProperties
  <2> QED BY <1>6, <1>8, <2>1, <2>2
<1> HIDE DEF told, went, R
<1>11. \A t \in a..Now : t \in 1..Now /\ t \in Nat
  BY <1>6, <1>8
<1>12. \A x \in 1..l : (a + x) - 1 \in a..Now
  BY <1>6, <1>8
<1>13. \A t \in a..Now : \E k \in 1..n : Tells(g, n, k, t)
  BY <1>2, <1>7, SomeEntryTells
<1>14. ASSUME NEW t \in a..Now, NEW k \in 1..n, Tells(g, n, k, t)
       PROVE  history[t] = E[k].status
  BY <1>2, <1>11, <1>14, TellsStatus
<1>15. ASSUME NEW t \in a..Now, NEW u \in a..Now, t <= u,
              NEW k \in 1..n, Tells(g, n, k, t),
              NEW j \in 1..n, Tells(g, n, j, u)
       PROVE  j <= k
  BY <1>4, <1>11, <1>15, TellsInOrder
<1>16. ASSUME NEW k \in 1..n
       PROVE  log[g[k]].at \in a..Now /\ Tells(g, n, k, log[g[k]].at)
  <2>1. Tells(g, n, k, log[g[k]].at)
    BY <1>2, TellsItself
  <2>2. o <= g[k] /\ o \in 1..Len(log) /\ g[k] \in 1..Len(log)
        /\ o \in Nat /\ g[k] \in Nat
    BY <1>4, <1>7
  <2>3. o < g[k] => log[o].at < log[g[k]].at
    BY <2>2 DEF LogInv, Dated
  <2>4. log[g[k]].at \in 1..Now /\ log[o].at \in 1..Now
    BY <1>4, <1>7
  <2> QED BY <1>6, <1>7, <1>8, <2>1, <2>2, <2>3, <2>4
<1> DEFINE teller == [t \in a..Now |-> CHOOSE k \in 1..n : Tells(g, n, k, t)]
           f == [x \in 1..l |-> (n - teller[(a + x) - 1]) + 1]
<1>17. \A t \in a..Now : teller[t] \in 1..n /\ Tells(g, n, teller[t], t)
  BY <1>13
<1> HIDE DEF teller, n, l
<1>18. \A x \in 1..l : /\ teller[(a + x) - 1] \in 1..n
                       /\ f[x] = (n - teller[(a + x) - 1]) + 1
                       /\ f[x] \in 1..n
                       /\ (n - f[x]) + 1 = teller[(a + x) - 1]
  <2> TAKE x \in 1..l
  <2>1. teller[(a + x) - 1] \in 1..n
    BY <1>12, <1>17
  <2> QED BY <1>4, <2>1
<1>19. \A x \in 1..l : went[x] = told[f[x]]
  <2> TAKE x \in 1..l
  <2>1. went[x] = E[teller[(a + x) - 1]].status
    BY <1>10, <1>12, <1>14, <1>17
  <2> QED BY <1>9, <1>18, <2>1
<1>20. ASSUME NEW x \in 1..l, NEW y \in 1..l, x <= y PROVE f[x] <= f[y]
  <2>1. (a + x) - 1 <= (a + y) - 1
    BY <1>8, <1>10, <1>20
  <2>2. teller[(a + y) - 1] <= teller[(a + x) - 1]
    BY <1>12, <1>15, <1>17, <2>1
  <2>3. teller[(a + y) - 1] \in 1..n /\ teller[(a + x) - 1] \in 1..n
    BY <1>18
  <2> QED BY <1>4, <1>18, <2>2, <2>3
<1>21. ASSUME NEW i \in 1..n PROVE \E x \in 1..l : f[x] = i
  <2> DEFINE k == (n - i) + 1
             t == log[g[k]].at
             x == (t - a) + 1
  <2>1. k \in 1..n /\ (n - k) + 1 = i
    BY <1>4
  <2> HIDE DEF k
  <2>2. t \in a..Now /\ Tells(g, n, k, t)
    BY <1>16, <2>1
  <2> HIDE DEF t
  <2>3. x \in 1..l /\ (a + x) - 1 = t
    BY <1>6, <1>8, <2>2 DEF l
  <2>4. teller[t] \in 1..n /\ Tells(g, n, teller[t], t)
    BY <1>17, <2>2
  <2>5. t <= t
    BY <1>11, <2>2
  <2>6. teller[t] <= k /\ k <= teller[t]
    BY <1>15, <2>1, <2>2, <2>4, <2>5
  <2>7. teller[t] = k
    BY <1>4, <2>1, <2>4, <2>6
  <2> QED BY <1>18, <2>1, <2>3, <2>7
<1> HIDE DEF f
<1>22. f \in [1..l -> 1..n]
  BY <1>18 DEF f
<1>23. Stretches(f, went, told)
  BY <1>9, <1>10, <1>19, <1>20, <1>21, <1>22 DEF Stretches, n
<1>24. Periods(went) = Periods(told)
  BY <1>9, <1>10, <1>23, Stretched
<1> QED BY <1>1, <1>24 DEF told, went, E, a

-----------------------------------------------------------------------------
(* The reader *)

LEMMA PositionsGrow ==
  ASSUME NEW n \in Nat, NEW p \in [1..n -> Nat \ {0}],
         \A j, k \in 1..n : j < k => p[j] < p[k]
  PROVE  \A k \in 1..n : k <= p[k]
<1> DEFINE D == {k \in 1..n : ~(k <= p[k])}
<1> SUFFICES ASSUME D # {} PROVE FALSE
  OBVIOUS
<1>1. PICK k \in D : \A j \in D : k <= j
  <2>1. D \in SUBSET Nat
    OBVIOUS
  <2> HIDE DEF D
  <2> QED BY <2>1, LeastNumber
<1>2. k \in 1..n /\ p[k] \in Nat \ {0} /\ p[k] < k
  BY <1>1
<1>3. k - 1 \in 1..n /\ k - 1 < k
  BY <1>2
<1>4. k - 1 <= p[k - 1]
  BY <1>1, <1>3
<1>5. p[k - 1] < p[k] /\ p[k - 1] \in Nat
  BY <1>2, <1>3
<1> QED BY <1>2, <1>3, <1>4, <1>5

\* A timeline has at most one row for each check that is not too old.
LEMMA EntriesBounded ==
  ASSUME LogInv, NEW keepMeta \in BOOLEAN
  PROVE  Len(Entries(keepMeta)) \in Nat /\ Len(Entries(keepMeta)) <= Window + 1
<1> DEFINE E == Entries(keepMeta)
           n == Len(E)
<1>1. PICK g : Descends(g, E, EntryRows(keepMeta))
  BY EntriesDescend DEF EntriesAreRows, LogInv
<1> HIDE DEF E
<1>2. /\ n \in Nat
      /\ \A k \in 1..n : g[k] \in Shown /\ g[k] \in Telling /\ g[k] \in Nat
      /\ \A i \in Telling : i \in 1..Len(log) /\ log[i].at \in 1..Now
  BY <1>1, Numbers
<1>3. Now \in Nat /\ Window \in Nat
  BY LogRows DEF LogInv
<1> DEFINE p == [k \in 1..n |-> (Now + 1) - log[g[k]].at]
<1>4. \A k \in 1..n : /\ log[g[k]].at \in 1..Now
                      /\ log[g[k]].at + Window >= Now
                      /\ g[k] \in 1..Len(log)
  BY <1>2 DEF Shown
<1> HIDE DEF n
<1>5. \A k \in 1..n : p[k] \in Nat \ {0} /\ p[k] <= Window + 1
  BY <1>3, <1>4
<1>6. \A j, k \in 1..n : j < k => p[j] < p[k]
  <2> TAKE j, k \in 1..n
  <2> HAVE j < k
  <2>1. g[k] < g[j]
    BY <1>1 DEF Descends, n
  <2>2. log[g[k]].at < log[g[j]].at
    BY <1>4, <2>1 DEF LogInv, Dated
  <2> QED BY <1>3, <1>4, <2>2
<1>7. p \in [1..n -> Nat \ {0}]
  BY <1>5
<1> HIDE DEF p
<1>8. \A k \in 1..n : k <= p[k]
  BY <1>2, <1>6, <1>7, PositionsGrow
<1>9. n = 0 \/ n \in 1..n
  BY <1>2
<1>10. n <= Window + 1
  BY <1>2, <1>3, <1>5, <1>8, <1>9
<1> QED BY <1>2, <1>10 DEF n, E

LEMMA Division ==
  ASSUME NEW a \in Nat, NEW d \in Nat \ {0}
  PROVE  /\ a \div d \in Nat
         /\ (a \div d) * d <= a
         /\ a < ((a \div d) + 1) * d
BY SMTT(30)

LEMMA Products ==
  ASSUME NEW a \in Nat, NEW b \in Nat, NEW d \in Nat \ {0}, a <= b
  PROVE  a * d <= b * d /\ a * d \in Nat /\ b * d \in Nat /\ a <= a * d
         /\ (a + 1) * d = a * d + d
BY SMTT(30)

\* The last page is the one that ends the list.
LEMMA PagesEnd ==
  ASSUME NEW R, NEW list \in Seq(R), NEW page \in Nat
  PROVE  /\ TotalPages(list) \in Nat \ {0}
         /\ TotalPages(list) <= Len(list) \/ TotalPages(list) = 1
         /\ TotalPages(list) <= page => Len(list) <= page * PageSize
<1> DEFINE n == Len(list)
           a == n + PageSize - 1
           q == a \div PageSize
<1>1. PageSize \in Nat \ {0} /\ n \in Nat
  BY TimelineAssumption, LenProperties
<1>2. CASE list = <<>>
  <2>1. page * PageSize \in Nat
    BY <1>1, Products
  <2> QED BY <1>1, <1>2, <2>1, EmptySeq DEF TotalPages
<1>3. CASE list # <<>>
  <2>1. n \in Nat \ {0} /\ a \in Nat /\ PageSize <= a
    BY <1>1, <1>3, EmptySeq
  <2>2. TotalPages(list) = q
    BY <1>3, Zenon DEF TotalPages
  <2> HIDE DEF n
  <2>3. q \in Nat /\ q * PageSize <= a /\ a < (q + 1) * PageSize
    <3> HIDE DEF a
    <3> QED BY <1>1, <2>1, Division
  <2> HIDE DEF q
  <2>4. (q + 1) * PageSize = q * PageSize + PageSize /\ q * PageSize \in Nat
    BY <1>1, <2>3, Products
  <2>5. n <= q * PageSize
    BY <1>1, <2>1, <2>3, <2>4
  <2>6. q # 0
    <3>1. 0 * PageSize = 0
      BY <1>1
    <3>2. q = 0 => n <= 0
      BY <2>5, <3>1
    <3> QED BY <2>1, <3>2
  <2>7. q <= n
    <3>1. SUFFICES ASSUME n + 1 <= q PROVE FALSE
      BY <2>1, <2>3
    <3>2. (n + 1) * PageSize <= q * PageSize
      BY <1>1, <2>1, <2>3, <3>1, Products
    <3>3. (n + 1) * PageSize = n * PageSize + PageSize /\ n <= n * PageSize
          /\ n * PageSize \in Nat
      BY <1>1, <2>1, Products
    <3> QED BY <1>1, <2>1, <2>3, <2>4, <3>2, <3>3
  <2>8. q <= page => q * PageSize <= page * PageSize /\ page * PageSize \in Nat
    BY <1>1, <2>3, Products
  <2> QED BY <1>1, <2>1, <2>2, <2>3, <2>4, <2>5, <2>6, <2>7, <2>8 DEF n
<1> QED BY <1>2, <1>3

\* A page has the entries of its positions.
LEMMA PageHas ==
  ASSUME NEW R, NEW list \in Seq(R), NEW page \in Nat
  PROVE  /\ Times(Page(list, page + 1)) \subseteq Times(list)
         /\ \A k \in 1..Len(list) :
              page * PageSize < k /\ k <= (page + 1) * PageSize
                => list[k].at \in Times(Page(list, page + 1))
<1> DEFINE n == Len(list)
           m == page * PageSize
           l == (page + 1) * PageSize
           end == IF l < n THEN l ELSE n
           shown == SubSeq(list, m + 1, end)
<1>1. /\ PageSize \in Nat \ {0} /\ n \in Nat /\ DOMAIN list = 1..n
      /\ (page + 1) - 1 = page /\ page + 1 \in Nat
  BY TimelineAssumption, LenProperties
<1>2. m \in Nat /\ l \in Nat /\ m <= l
  BY <1>1, Products
<1>3. Page(list, page + 1) = shown
  BY <1>1 DEF Page
<1> HIDE DEF m, l, n
<1>4. end \in Nat /\ end <= n /\ \A i \in (m + 1)..end : i \in 1..n
  BY <1>1, <1>2
<1>5. \A i \in (m + 1)..end : list[i] \in R
  BY <1>4, ElementOfSeq DEF n
<1>6. /\ shown \in Seq(R)
      /\ Len(shown) = IF m + 1 <= end THEN (end - (m + 1)) + 1 ELSE 0
      /\ \A i \in 1..((end - (m + 1)) + 1) : shown[i] = list[((m + 1) + i) - 1]
  <2> DEFINE b == m + 1
  <2>1. b \in Int /\ end \in Int
    BY <1>2, <1>4
  <2>2. \A i \in b..end : list[i] \in R
    BY <1>5
  <2> HIDE DEF b, end
  <2>3. /\ SubSeq(list, b, end) \in Seq(R)
        /\ Len(SubSeq(list, b, end)) = IF b <= end THEN end - b + 1 ELSE 0
        /\ \A i \in 1..(end - b + 1) : SubSeq(list, b, end)[i] = list[b + i - 1]
    BY <2>1, <2>2, SubSeqProperties
  <2> QED BY <2>3 DEF b
<1>7. DOMAIN shown = 1..Len(shown)
  <2> HIDE DEF shown
  <2> QED BY <1>6, LenProperties
<1> HIDE DEF shown
<1>8. ASSUME NEW i \in DOMAIN shown
      PROVE  \E k \in DOMAIN list : shown[i].at = list[k].at
  <2>0. i \in 1..(IF m + 1 <= end THEN (end - (m + 1)) + 1 ELSE 0)
    BY <1>6, <1>7
  <2>1. i \in 1..((end - (m + 1)) + 1) /\ m + i \in (m + 1)..end
        /\ ((m + 1) + i) - 1 = m + i
    <3> HIDE DEF end
    <3> QED BY <1>2, <1>4, <2>0
  <2> QED BY <1>1, <1>4, <1>6, <2>1
<1>9. ASSUME NEW k \in 1..n, m < k, k <= l
      PROVE  list[k].at \in Times(shown)
  <2>1. /\ k - m \in 1..((end - (m + 1)) + 1) /\ m + 1 <= end
        /\ ((m + 1) + (k - m)) - 1 = k
    BY <1>1, <1>2, <1>9
  <2>2. k - m \in DOMAIN shown /\ shown[k - m] = list[k]
    BY <1>6, <1>7, <2>1
  <2> QED BY <2>2 DEF Times
<1>10. Times(shown) \subseteq Times(list)
  BY <1>8 DEF Times
<1> QED BY <1>3, <1>9, <1>10 DEF m, l, n

\* A check puts at most one entry before those that were there, and none of
\* these comes nearer to the first page.
LEMMA EntriesShift ==
  ASSUME LogInv, NEW s, Checked(s), NEW k \in 1..Len(Entries(TRUE)')
  PROVE  \/ Entries(TRUE)'[k].at = Now'
         \/ \E j \in 1..Len(Entries(TRUE)) :
              j <= k /\ Entries(TRUE)'[k].at = Entries(TRUE)[j].at
<1> DEFINE E == Entries(TRUE)
           I == EntryRows(TRUE)
<1>0. PICK new \in Nat : new = Len(log) + 1
  BY LogRows DEF LogInv
<1>1. PICK g : Descends(g, E, I)
  BY EntriesDescend DEF EntriesAreRows, LogInv
<1>2. LogInv'
  BY CheckKeepsLog
<1>3. PICK h : Descends(h, E, I)'
  <2>1. (LogTypes => EntriesAreRows)'
    BY EntriesDescend, PTL
  <2>2. EntriesAreRows'
    BY <1>2, <2>1 DEF LogInv
  <2> QED BY <2>2 DEF EntriesAreRows
<1>4. /\ Len(E) \in Nat
      /\ \A i \in 1..Len(E) : g[i] \in I /\ g[i] \in Nat /\ E[i] = log[g[i]]
      /\ \A i, j \in 1..Len(E) : g[i] <= g[j] <=> j <= i
      /\ \A i \in I : \E j \in 1..Len(E) : g[j] = i
  BY <1>1, Numbers DEF Descends
<1>5. /\ Len(E') \in Nat
      /\ \A i \in 1..Len(E') : h[i] \in I' /\ E'[i] = log'[h[i]]
      /\ \A i, j \in 1..Len(E') : i < j => h[j] < h[i]
      /\ \A i \in I' : \E j \in 1..Len(E') : h[j] = i
  <2>1. E' \in Seq(Row)
    BY <1>3 DEF Descends
  <2> QED BY <1>3, <2>1, LenProperties DEF Descends
<1>6. /\ Len(log) \in Nat /\ Now' = Now + 1 /\ Now \in Nat
      /\ Window \in Nat
      /\ \A i \in 1..Len(log) : log'[i] = log[i] /\ log[i].at \in Nat
      /\ log' # log => log'[new].at = Now + 1
  BY <1>0, Extended, LogRows DEF LogInv, Row
<1>7. /\ Telling \subseteq Telling'
      /\ \A i \in Telling' : i \in Telling \/ (i = new /\ log' # log)
      /\ Telling \subseteq 1..Len(log)
  BY <1>0, ExtendedTelling, LogRows DEF LogInv
<1>b. k \in 1..Len(E')
  OBVIOUS
<1> HIDE DEF E
<1>8. \A i \in Telling : i \in Nat /\ i < new /\ i \in 1..Len(log)
  BY <1>0, <1>6, <1>7
\* The rows that stay shown.
<1>9. ASSUME NEW i \in Shown', i # new PROVE i \in Shown
  <2>1. i \in Telling
    BY <1>7, <1>9 DEF Shown
  <2>2. log[i].at + Window >= Now + 1
    BY <1>6, <1>8, <2>1 DEF Shown
  <2> QED BY <1>6, <1>8, <2>1, <2>2 DEF Shown
<1>10. ASSUME NEW i \in Shown', i # new, NEW j \in Shown, i <= j
       PROVE  j \in Shown'
  <2>1. i \in Telling /\ j \in Telling
    BY <1>9, <1>10 DEF Shown
  <2>2. log[i].at + Window >= Now + 1
    BY <1>6, <1>8, <2>1 DEF Shown
  <2>3. log[i].at <= log[j].at
    <3>1. i < j => log[i].at < log[j].at
      BY <1>8, <2>1 DEF LogInv, Dated
    <3> QED BY <1>6, <1>8, <1>10, <2>1, <3>1
  <2>4. log'[j].at + Window >= Now'
    BY <1>6, <1>8, <2>1, <2>2, <2>3
  <2> QED BY <1>7, <2>1, <2>4 DEF Shown
<1>11. CASE h[k] = new
  <2>1. new \in Telling'
    BY <1>5, <1>b, <1>11 DEF EntryRows, Shown
  <2>2. log' # log
    BY <1>7, <1>8, <2>1
  <2> QED BY <1>5, <1>6, <1>b, <1>11, <2>2 DEF E
<1>12. CASE h[k] # new
  <2> DEFINE i == h[k]
  <2>1. i \in I' /\ i \in Shown' /\ i \in Shown /\ i \in Telling
    <3>1. i \in I'
      BY <1>5, <1>b
    <3>2. i \in Shown'
      BY <3>1 DEF EntryRows
    <3>3. i \in Shown
      BY <1>9, <1>12, <3>2
    <3> QED BY <3>1, <3>2, <3>3 DEF Shown
  <2> HIDE DEF i
  \* It was an entry before.
  <2>2. i \in I
    <3> SUFFICES ASSUME ~Newest(i, Shown), ~log[i].meta PROVE i \in I
      BY <2>1 DEF EntryRows
    <3>1. log'[i] = log[i]
      BY <1>6, <1>8, <2>1
    <3>2. PICK m \in Shown : i < m
      BY <1>8, <2>1 DEF Newest, Shown
    <3>3. m \in Shown'
      BY <1>8, <1>10, <2>1, <3>2 DEF Shown
    <3>4. ~Newest(i, Shown)'
      BY <1>8, <2>1, <3>2, <3>3 DEF Newest, Shown
    <3>5. PICK j \in Shown' : Follows(j, i, Shown)' /\ log'[i].status # log'[j].status
      BY <2>1, <3>1, <3>4 DEF EntryRows
    <3>6. j # new
      <4>1. m \in Telling /\ m \in Nat /\ m < new /\ m \in Shown'
        BY <1>8, <3>2, <3>3 DEF Shown
      <4>2. m <= i \/ j <= m
        BY <3>5, <4>1 DEF Follows
      <4> QED BY <1>8, <2>1, <3>2, <4>1, <4>2
    <3>7. j \in Shown /\ j \in Telling
      BY <1>9, <3>6 DEF Shown
    <3>8. ASSUME NEW l \in Shown PROVE l <= i \/ j <= l
      <4>1. l \in Nat /\ i \in Nat
        BY <1>8, <2>1 DEF Shown
      <4>2. i <= l => l \in Shown'
        BY <1>10, <2>1, <1>12 DEF i
      <4> QED BY <3>5, <4>1, <4>2 DEF Follows
    <3>9. Follows(j, i, Shown)
      BY <3>5, <3>7, <3>8 DEF Follows
    <3>10. log'[j] = log[j]
      BY <1>6, <1>8, <3>7
    <3> QED BY <2>1, <3>1, <3>5, <3>7, <3>9, <3>10 DEF EntryRows
  <2>3. PICK j \in 1..Len(E) : g[j] = i
    BY <1>4, <2>2
  \* Newer entries are still entries, or give way to the new one.
  <2>4. ASSUME NEW m \in I, i <= m, m \notin I'
        PROVE  new \in I' /\ Newest(m, Shown)
    <3>1. m \in Shown /\ m \in Telling /\ m \in Shown'
      BY <1>10, <1>12, <2>1, <2>4 DEF EntryRows, Shown, i
    <3>2. log'[m] = log[m]
      BY <1>6, <1>8, <3>1
    <3>3. ~log[m].meta
      BY <2>4, <3>1, <3>2 DEF EntryRows
    <3>4. ASSUME NEW j1 \in Shown, Follows(j1, m, Shown),
                 log[m].status # log[j1].status
          PROVE  FALSE
      <4>1. j1 \in Telling /\ m < j1 /\ j1 < new
        BY <1>8, <3>4 DEF Follows, Shown
      <4>2. j1 \in Shown'
        BY <1>8, <1>10, <1>12, <2>1, <2>4, <3>1, <4>1 DEF i
      <4>3. ASSUME NEW l \in Shown' PROVE l <= m \/ j1 <= l
        <5>1. l = new \/ l \in Shown
          BY <1>9
        <5> QED BY <1>6, <1>8, <3>4, <4>1, <5>1 DEF Follows
      <4>4. Follows(j1, m, Shown)'
        BY <4>1, <4>2, <4>3 DEF Follows
      <4>5. log'[j1] = log[j1]
        BY <1>6, <1>8, <4>1
      <4>6. m \in I'
        BY <3>1, <3>2, <3>4, <4>2, <4>4, <4>5 DEF EntryRows
      <4> QED BY <2>4, <4>6
    <3>5. Newest(m, Shown)
      BY <2>4, <3>3, <3>4 DEF EntryRows
    <3>6. ~Newest(m, Shown)'
      BY <2>4, <3>1 DEF EntryRows
    <3>7. PICK l \in Shown' : ~(l <= m)
      BY <3>6 DEF Newest
    <3>8. l = new
      BY <1>9, <3>5, <3>7 DEF Newest
    <3>9. Newest(new, Shown)'
      <4>1. ASSUME NEW l1 \in Shown' PROVE l1 <= new
        <5>1. l1 \in Telling \/ l1 = new
          BY <1>7 DEF Shown
        <5> QED BY <1>8, <5>1
      <4> QED BY <4>1 DEF Newest
    <3>10. new \in I'
      <4>1. new \in Shown' /\ Newest(new, Shown')
        BY <3>8, <3>9 DEF Newest
      <4> QED BY <4>1 DEF EntryRows
    <3> QED BY <3>5, <3>10
  \* Where each of the first j entries is, or what is there instead of it.
  <2> DEFINE place == [l \in 1..j |->
               CHOOSE x \in 1..Len(E') : h[x] = IF g[l] \in I' THEN g[l] ELSE new]
  <2>5. \A l \in 1..j : l \in 1..Len(E) /\ g[l] \in I /\ i <= g[l] /\ g[l] \in Nat
    <3> TAKE l \in 1..j
    <3>1. l \in 1..Len(E) /\ l <= j
      BY <1>4, <2>3
    <3> QED BY <1>4, <2>3, <3>1
  <2>6. \A l \in 1..j : /\ place[l] \in 1..Len(E')
                        /\ h[place[l]] = IF g[l] \in I' THEN g[l] ELSE new
    <3> TAKE l \in 1..j
    <3>1. g[l] \in I' \/ new \in I'
      BY <2>4, <2>5
    <3>2. \E x \in 1..Len(E') : h[x] = IF g[l] \in I' THEN g[l] ELSE new
      BY <1>5, <3>1
    <3> QED BY <3>2
  <2> HIDE DEF place
  <2>7. ASSUME NEW l \in 1..j, NEW q \in 1..j, l < q
        PROVE  place[l] < place[q]
    <3>0. /\ l \in 1..Len(E) /\ q \in 1..Len(E)
          /\ g[l] \in I /\ g[q] \in I /\ i <= g[q]
          /\ g[l] \in Nat /\ g[q] \in Nat
      BY <2>5
    <3>1. g[q] < g[l] /\ g[l] \in Telling /\ g[l] \in Shown
      <4>1. ~(g[l] <= g[q])
        BY <1>4, <2>7, <3>0
      <4> QED BY <3>0, <4>1 DEF EntryRows, Shown
    <3>2. g[q] \in I'
      <4>1. ~Newest(g[q], Shown)
        BY <3>0, <3>1 DEF Newest
      <4> QED BY <2>4, <3>0, <4>1
    <3>3. h[place[q]] = g[q] /\ h[place[q]] < h[place[l]]
      <4>1. h[place[q]] = g[q]
        BY <2>6, <3>2
      <4>2. h[place[l]] = g[l] \/ h[place[l]] = new
        BY <2>6
      <4>3. g[q] < new
        BY <1>8, <3>0, <3>1
      <4> QED BY <3>1, <4>1, <4>2, <4>3
    <3>4. place[l] \in 1..Len(E') /\ place[q] \in 1..Len(E')
      BY <2>6
    <3>5. ~(place[l] = place[q]) /\ ~(place[q] < place[l])
      <4>1. h[place[q]] \in Nat /\ h[place[l]] \in Nat
        BY <2>5, <2>6
      <4>2. place[q] < place[l] => h[place[l]] < h[place[q]]
        BY <1>5, <3>4
      <4> QED BY <3>3, <4>1, <4>2
    <3> QED BY <1>5, <3>4, <3>5
  <2>8. j \in 1..j /\ j \in Nat
    BY <1>4
  <2>9. j <= place[j]
    <3>1. place \in [1..j -> Nat \ {0}]
      <4>1. \A l \in 1..j : place[l] \in Nat \ {0}
        <5> TAKE l \in 1..j
        <5>1. place[l] \in 1..Len(E')
          BY <2>6
        <5> QED BY <1>5, <5>1
      <4> QED BY <4>1 DEF place
    <3> QED BY <2>7, <2>8, <3>1, PositionsGrow
  <2>10. place[j] = k
    <3>1. h[place[j]] = h[k] /\ place[j] \in 1..Len(E')
      BY <2>1, <2>3, <2>6, <2>8 DEF i
    <3>2. h[k] \in Nat
      BY <1>8, <2>1 DEF i
    <3>3. ~(place[j] < k) /\ ~(k < place[j])
      BY <1>5, <1>b, <3>1, <3>2
    <3> QED BY <1>5, <1>b, <3>1, <3>3
  <2>11. E'[k] = E[j]
    <3>1. E'[k] = log'[i] /\ E[j] = log[i]
      BY <1>4, <1>5, <1>b, <2>3 DEF i
    <3>2. log'[i] = log[i]
      BY <1>6, <1>8, <2>1
    <3> QED BY <3>1, <3>2
  <2> QED BY <2>9, <2>10, <2>11 DEF E
<1> QED BY <1>11, <1>12

\* The entries of the pages that the reader has turned have been seen, unless
\* they were not there at the start.
Passed ==
  \A k \in 1..Len(PageTimeline) :
    k <= reader.page * PageSize /\ PageTimeline[k].at \in reader.due
      => PageTimeline[k].at \in reader.seen

ReaderInv ==
  /\ reader \in [page: 0..(Window + 1), due: SUBSET (1..MaxTime),
                 seen: SUBSET (1..MaxTime), done: BOOLEAN]
  /\ reader.due \subseteq 1..Now
  /\ ~reader.done => reader.page <= Window /\ Passed
  /\ PagesMissNothing

TimelineInv == LogInv /\ ReaderInv

LEMMA InitReader == Init => ReaderInv
<1> SUFFICES ASSUME Init PROVE ReaderInv OBVIOUS
<1>1. /\ Window \in Nat /\ MaxTime \in Nat /\ PageSize \in Nat
  BY TimelineAssumption
<1>2. reader = [page |-> 0, due |-> {}, seen |-> {}, done |-> FALSE]
  BY DEF Init, NoReader
<1>3. /\ reader.page = 0 /\ reader.due = {} /\ reader.seen = {}
      /\ reader.done = FALSE
  BY <1>2
<1>4. reader \in [page: 0..(Window + 1), due: SUBSET (1..MaxTime),
                  seen: SUBSET (1..MaxTime), done: BOOLEAN]
  BY <1>1, <1>2
<1> QED BY <1>1, <1>3, <1>4 DEF ReaderInv, Passed, PagesMissNothing

LEMMA CheckKeepsReader ==
  ASSUME TimelineInv, NEW s, Checked(s), reader' = reader
  PROVE  ReaderInv'
<1>1. Now' = Now + 1 /\ Now \in Nat
  BY Extended DEF TimelineInv, LogInv
<1>2. reader.due \subseteq 1..Now
  BY DEF TimelineInv, ReaderInv
<1>3. reader'.due \subseteq 1..Now'
  BY <1>1, <1>2
<1>4. ASSUME Passed PROVE Passed'
  <2> SUFFICES ASSUME NEW k \in 1..Len(PageTimeline'),
                      k <= reader.page * PageSize,
                      PageTimeline'[k].at \in reader.due
               PROVE  PageTimeline'[k].at \in reader.seen
    BY DEF Passed
  <2>1. k \in 1..Len(Entries(TRUE)') /\ PageTimeline' = Entries(TRUE)'
        /\ PageTimeline = Entries(TRUE)
    BY DEF PageTimeline
  <2>2. Entries(TRUE)'[k].at # Now'
    <3>1. PageTimeline'[k].at \in 1..Now
      BY <1>2
    <3>2. \A t \in 1..Now : t # Now'
      BY <1>1
    <3> QED BY <2>1, <3>1, <3>2
  <2>3. PICK j \in 1..Len(Entries(TRUE)) :
          j <= k /\ Entries(TRUE)'[k].at = Entries(TRUE)[j].at
    BY <2>1, <2>2, EntriesShift DEF TimelineInv
  <2>4. j <= reader.page * PageSize
    <3>1. reader.page \in Nat /\ PageSize \in Nat \ {0}
      BY TimelineAssumption DEF TimelineInv, ReaderInv
    <3>2. reader.page * PageSize \in Nat
      BY <3>1, Products
    <3> QED BY <2>3, <3>2
  <2> QED BY <1>4, <2>1, <2>3, <2>4 DEF Passed
<1>5. ReaderInv
  BY DEF TimelineInv
<1> QED BY <1>3, <1>4, <1>5 DEF ReaderInv, PagesMissNothing

LEMMA TurnKeepsReader ==
  ASSUME TimelineInv, Turn
  PROVE  ReaderInv'
<1> DEFINE E == PageTimeline
           n == Len(E)
           page == reader.page + 1
           due == Times(E) \cap
                  IF reader.page = 0 THEN Times(E) ELSE reader.due
           seen == reader.seen \cup Times(Page(E, page))
           done == ~(page < TotalPages(E))
<1>1. ~reader.done /\ UNCHANGED <<log, failing, history>>
      /\ reader' = [page |-> page, due |-> due, seen |-> seen, done |-> done]
  BY DEF Turn
<1>2. /\ reader.page \in Nat /\ reader.page <= Window
      /\ reader.seen \subseteq 1..MaxTime
      /\ Passed
  BY <1>1 DEF TimelineInv, ReaderInv
<1>3. Window \in Nat /\ PageSize \in Nat \ {0} /\ Now \in Nat
      /\ MaxTime \in Nat /\ Now <= MaxTime
  BY TimelineAssumption, LogRows DEF TimelineInv, LogInv, LogTypes
<1>4. E \in Seq(Row) /\ n \in Nat /\ n <= Window + 1 /\ DOMAIN E = 1..n
  <2>1. \E g : Descends(g, Entries(TRUE), EntryRows(TRUE))
    BY EntriesDescend DEF EntriesAreRows, TimelineInv, LogInv
  <2>2. E \in Seq(Row)
    BY <2>1 DEF Descends, PageTimeline
  <2> QED BY <2>2, LenProperties, EntriesBounded DEF TimelineInv, PageTimeline
<1>5. PageTimeline' = E
  BY <1>1 DEF PageTimeline, Entries, NewestFirst, Recent, Now
<1>6. Times(E) \subseteq 1..Now
  <2>1. \A k \in DOMAIN E : E[k].at \in 1..Now
    BY EntriesInside DEF PageTimeline, TimelineInv
  <2> QED BY <2>1 DEF Times
<1> HIDE DEF E
<1>7. /\ Times(Page(E, page)) \subseteq Times(E)
      /\ \A k \in 1..n : reader.page * PageSize < k /\ k <= page * PageSize
                           => E[k].at \in Times(Page(E, page))
  BY <1>2, <1>4, PageHas
<1>8. due \subseteq 1..Now /\ due \subseteq 1..MaxTime /\ seen \subseteq 1..MaxTime
  BY <1>2, <1>3, <1>6, <1>7
<1>9. /\ TotalPages(E) \in Nat \ {0}
      /\ TotalPages(E) <= n \/ TotalPages(E) = 1
      /\ TotalPages(E) <= page => n <= page * PageSize
  <2>1. page \in Nat
    BY <1>2
  <2> HIDE DEF page
  <2> QED BY <1>4, <2>1, PagesEnd
<1>10. reader.page * PageSize \in Nat /\ page * PageSize \in Nat
  BY <1>2, <1>3, Products
\* What is due of the pages up to this one has been seen.
<1>11. ASSUME NEW k \in 1..n, k <= page * PageSize, E[k].at \in due
       PROVE  E[k].at \in seen
  <2>1. CASE reader.page * PageSize < k
    BY <1>7, <1>11, <2>1
  <2>2. CASE k <= reader.page * PageSize
    <3>1. reader.page # 0
      <4>1. 0 * PageSize = 0
        BY <1>3
      <4> QED BY <2>2, <4>1
    <3>2. E[k].at \in reader.due
      BY <1>11, <3>1
    <3> QED BY <1>2, <2>2, <3>2 DEF Passed, E
  <2> QED BY <1>4, <1>10, <2>1, <2>2
<1>12. done => due \subseteq seen
  <2> SUFFICES ASSUME done, NEW t \in due PROVE t \in seen
    OBVIOUS
  <2>1. TotalPages(E) <= page
    BY <1>2, <1>9
  <2>2. n <= page * PageSize
    BY <1>9, <2>1
  <2>3. PICK k \in 1..n : E[k].at = t
    BY <1>4 DEF Times
  <2>4. k <= page * PageSize
    BY <1>4, <1>10, <2>2
  <2> QED BY <1>11, <2>3, <2>4
<1>13. page \in 0..(Window + 1) /\ (~done => page <= Window)
  BY <1>2, <1>3, <1>4, <1>9
<1> HIDE DEF n, page, due, seen, done
<1>14. /\ reader'.page = page /\ reader'.due = due
       /\ reader'.seen = seen /\ reader'.done = done
  BY <1>1
<1>15. Passed'
  BY <1>5, <1>11, <1>14 DEF Passed, n
<1>16. PagesMissNothing'
  BY <1>12, <1>14 DEF PagesMissNothing
<1>17. reader' \in [page: 0..(Window + 1), due: SUBSET (1..MaxTime),
                    seen: SUBSET (1..MaxTime), done: BOOLEAN]
  <2>1. done \in BOOLEAN
    BY DEF done
  <2> QED BY <1>1, <1>8, <1>13, <2>1
<1>18. reader'.due \subseteq 1..Now'
  BY <1>1, <1>8, <1>14 DEF Now
<1> QED BY <1>13, <1>14, <1>15, <1>16, <1>17, <1>18 DEF ReaderInv

LEMMA NextTimeline == TimelineInv /\ [Next]_vars => TimelineInv'
<1> SUFFICES ASSUME TimelineInv, [Next]_vars PROVE TimelineInv' OBVIOUS
<1>1. LogInv'
  BY NextLog DEF TimelineInv
<1>2. CASE (\E s \in Statuses, moved \in BOOLEAN : Observe(s, moved)) \/ Fail
  <2>1. reader' = reader
    BY <1>2 DEF Observe, Fail
  <2>2. \E s : Checked(s)
    BY <1>2, CheckExtends DEF TimelineInv, LogInv
  <2> QED BY <1>1, <2>1, <2>2, CheckKeepsReader DEF TimelineInv
<1>3. CASE Turn
  BY <1>1, <1>3, TurnKeepsReader DEF TimelineInv
<1>4. CASE UNCHANGED vars
  <2>0. reader' = reader /\ Now' = Now /\ PageTimeline' = PageTimeline
    BY <1>4 DEF PageTimeline, Entries, NewestFirst, Recent, Now, vars
  <2>1. ReaderInv'
    BY <2>0 DEF TimelineInv, ReaderInv, PagesMissNothing, Passed
  <2> QED BY <1>1, <2>1 DEF TimelineInv
<1> QED BY <1>2, <1>3, <1>4 DEF Next

-----------------------------------------------------------------------------
(* The theorems *)

\* Whatever checks, failures, metadata changes and turned pages do, the log,
\* the history and the reader keep their types; in particular no reader turns
\* more than Window + 1 pages.
THEOREM TypeCorrect == Spec => []TypeOK
<1>1. Init => TimelineInv
  BY InitLog, InitReader DEF TimelineInv
<1>2. TimelineInv => TypeOK
  BY DEF TimelineInv, LogInv, LogTypes, ReaderInv, TypeOK
<1> QED BY <1>1, <1>2, NextTimeline, PTL DEF Spec

\* However long an asset has been watched, the timelines in its alert emails
\* (calculate_status_timeline) and on its page tell every period it went
\* through since the oldest row they use, once and in order, and date each
\* entry inside its period.
THEOREM PeriodsTold == Spec => []EveryPeriodIsTold
<1> QED BY InitLog, NextLog, PeriodsAreTold, PTL DEF Spec

\* As long as no metadata change was recorded, each entry's timestamp is that
\* of the status change and its duration the time the asset kept the status,
\* as calculate_status_timeline says.
THEOREM ChangesDated == Spec => []EntriesDateTheChange
<1> QED BY InitLog, NextLog, DatesOfChanges, PTL DEF Spec

\* A reader who turns all the pages of an asset's timeline misses no entry that
\* was there at the start and still is, for every page size and however many
\* rows are added and expire in between: the entries only move towards the last
\* page, and he turns pages until there is none.
THEOREM NothingMissed == Spec => []PagesMissNothing
<1>1. Init => TimelineInv
  BY InitLog, InitReader DEF TimelineInv
<1>2. TimelineInv => PagesMissNothing
  BY DEF TimelineInv, ReaderInv
<1> QED BY <1>1, <1>2, NextTimeline, PTL DEF Spec
=============================================================================
