------------------------------- MODULE Paging -------------------------------
(***************************************************************************)
(* The long lists of the API, page by page: the activities and missions of *)
(* a user (data_access/user.py, models/user.py), the missions and work days *)
(* of a company (data_access/company.py, models/queries.py).  A client asks *)
(* for pages of a given size, each after the cursor of the one before,      *)
(* while activities are logged and cancelled.                               *)
(*                                                                         *)
(* A row is one activity; a day lasts DayTime units.                        *)
(***************************************************************************)
EXTENDS Integers, FiniteSets, FiniteSetsExt

CONSTANTS
  RowFacts(_),   \* of a row: [mission, user, firm, from, to]
  ActivityRows,  \* the rows there may be, numbers
  Reader,        \* the user whose lists are read
  ReadFirm,      \* the company whose lists are read, and whose administrator
                 \* reads the missions of Reader in "managed"
  DayTime,
  PageSizes,     \* the sizes a client asks for
  RowFloor,      \* 200 in query_work_day_stats
  MaxRowChanges  \* bound: rows logged or cancelled while the client reads

VARIABLES
  rowState,   \* of each row: "absent", "live" or "dismissed"
  touched,    \* the rows logged or cancelled since the first page
  reading,    \* the list read, the size of its pages, the cursor, the last page
  listed      \* how often each item was listed

pagingVars == <<rowState, touched, reading, listed>>

ListNames == {"activities", "own", "withDeleted", "managed", "company", "stats"}

\* No cursor: the first page, or a page without items.
NoCursor == <<>>

Of(r) == RowFacts(r)

\* An activity has a duration, and a mission is of one company.
ASSUME PagingAssumption ==
  /\ ActivityRows \subseteq Nat /\ IsFiniteSet(ActivityRows)
  /\ PageSizes \subseteq Nat /\ RowFloor \in Nat /\ DayTime \in Nat \ {0}
  /\ \A r \in ActivityRows :
       /\ {Of(r).mission, Of(r).user, Of(r).from, Of(r).to} \subseteq Nat
       /\ Of(r).from < Of(r).to
  /\ \A r, q \in ActivityRows : Of(r).mission = Of(q).mission => Of(r).firm = Of(q).firm

\* Lists run from the newest item to the oldest.
Newer(x, y) ==
  \E i \in DOMAIN x : x[i] > y[i] /\ \A j \in 1..(i - 1) : x[j] = y[j]

\* ORDER BY ... DESC LIMIT n
FirstOf(S, n) == {x \in S : Cardinality({y \in S : Newer(y, x)}) < n}

LastOf(S) == CHOOSE x \in S : \A y \in S \ {x} : Newer(y, x)

IsAfter(cursor, key) == cursor = NoCursor \/ Newer(cursor, key)

Live == {r \in ActivityRows : rowState[r] = "live"}

UserRows(user, deleted) ==
  {r \in ActivityRows : Of(r).user = user
                     /\ rowState[r] \in {"live"} \cup IF deleted THEN {"dismissed"} ELSE {}}

Page(items, more, cursor) ==
  [items |-> items, more |-> more, cursor |-> cursor, partial |-> {}]

\* to_connection
Cut(keys, size, more) ==
  LET page == FirstOf(keys, size)
  IN  [keys |-> page, more |-> more \/ Cardinality(keys) > size,
       cursor |-> IF page = {} THEN NoCursor ELSE LastOf(page)]

-----------------------------------------------------------------------------
(* The lists.  An item of a list of missions is <<mission, 0>>, of          *)
(* activities <<row, 0>>, of work days <<day, user>>.                       *)

\* resolve_activities and paginate_query: keyset paging in the database, of
\* the activities a user reads of himself.
ActivitiesPage(size, cursor) ==
  LET keys == {<<Of(r).from, r>> : r \in UserRows(Reader, FALSE)}
      cut == Cut({k \in keys : IsAfter(cursor, k)}, size, FALSE)
  IN  Page({<<k[2], 0>> : k \in cut.keys}, cut.more, cut.cursor)

MissionsOfRows(rows) == {Of(r).mission : r \in rows}

\* Seeded fault: the cursor is the start of the mission's latest activity.
LatestStart(user, m, deleted) ==
  Max({Of(r).from : r \in {q \in UserRows(user, deleted) : Of(q).mission = m}})

\* The start of the first of the mission's activities for this user.
CursorStart(user, m, deleted) ==
  Min({Of(r).from : r \in {q \in UserRows(user, deleted) : Of(q).mission = m}})

\* resolve_missions and query_missions_with_limit: five rows are read for
\* each mission asked for; missions come in the order of their first row
\* read, and those of other companies are left out afterwards.
UserMissionsPage(size, cursor, deleted, firms) ==
  LET keys == {<<Of(r).from, Of(r).mission, r>> : r \in UserRows(Reader, deleted)}
      fetched == FirstOf({k \in keys : IsAfter(cursor, <<k[1], k[2]>>)}, 5 * size + 1)
      more == Cardinality(fetched) = 5 * size + 1
      used == FirstOf(fetched, 5 * size)
      latest == {k \in used : /\ Of(k[3]).firm \in firms
                              /\ ~\E l \in used : l[2] = k[2] /\ Newer(l, k)}
      cut == Cut(latest, size, more)
  IN  Page({<<k[2], 0>> : k \in cut.keys}, cut.more,
           IF cut.cursor = NoCursor THEN NoCursor
           ELSE <<CursorStart(Reader, cut.cursor[2], deleted), cut.cursor[2]>>)

\* query_company_missions: the missions in the order of their first activity,
\* among those that begin no later than the cursor.
CompanyMissionsPage(size, cursor) ==
  LET rows == {r \in Live : Of(r).firm = ReadFirm /\ (cursor # NoCursor => Of(r).from <= cursor[1])}
      keys == {<<Min({Of(r).from : r \in {q \in rows : Of(q).mission = m}}), m>> :
               m \in MissionsOfRows(rows)}
      cut == Cut({k \in keys : IsAfter(cursor, k)}, size, FALSE)
  IN  Page({<<k[2], 0>> : k \in cut.keys}, cut.more, cut.cursor)

\* generate_series: a row that ends at midnight has a part in the next day.
DaysOf(r) == (Of(r).from \div DayTime)..(Of(r).to \div DayTime)

\* Whether the rows of a user leave him service time on a day.
HasService(rows, day) ==
  LET upTo(r) == Min({(day + 1) * DayTime, Of(r).to})
      since(r) == Max({day * DayTime, Of(r).from})
  IN  \E r, q \in rows : upTo(r) > since(q)

\* The last work day may be incomplete when rows were left unread.
WithoutLast(keys, more) == IF more /\ keys # {} THEN keys \ {LastOf(keys)} ELSE keys

\* query_work_day_stats and resolve_work_days: rows are read from the end of
\* the cursor's day, the days before the cursor are kept, and the days without
\* service time left out last.
WorkDaysPage(size, cursor) ==
  LET rows == {r \in Live : /\ Of(r).firm = ReadFirm
                            /\ cursor # NoCursor => Of(r).from < (cursor[1] + 1) * DayTime}
      parts == UNION {{<<day, Of(r).user, r>> : day \in DaysOf(r)} : r \in rows}
      limit == Max({5 * size, RowFloor})
      more == Cardinality(parts) > limit
      read == FirstOf(parts, limit + 1)
      keys == {k \in {<<p[1], p[2]>> : p \in read} : IsAfter(cursor, k)}
      cut == Cut(WithoutLast(keys, more), size, more)
      shown == {k \in cut.keys :
                  HasService({p[3] : p \in {q \in read : q[1] = k[1] /\ q[2] = k[2]}}, k[1])}
  IN  [Page(shown, cut.more, IF shown = {} THEN NoCursor ELSE LastOf(shown))
         EXCEPT !.partial = {k \in shown : \E p \in parts \ read : p[1] = k[1] /\ p[2] = k[2]}]

PageOf(list, size, cursor) ==
  CASE list = "activities"  -> ActivitiesPage(size, cursor)
    [] list = "own"         -> UserMissionsPage(size, cursor, FALSE, {Of(r).firm : r \in ActivityRows})
    [] list = "withDeleted" -> UserMissionsPage(size, cursor, TRUE, {Of(r).firm : r \in ActivityRows})
    [] list = "managed"     -> UserMissionsPage(size, cursor, FALSE, {ReadFirm})
    [] list = "company"     -> CompanyMissionsPage(size, cursor)
    [] list = "stats"       -> WorkDaysPage(size, cursor)

Missions == {<<Of(r).mission, 0>> : r \in ActivityRows}

ItemsOf(list) ==
  CASE list = "activities" -> {<<r, 0>> : r \in ActivityRows}
    [] list = "stats"      -> UNION {{<<day, Of(r).user>> : day \in DaysOf(r)} : r \in ActivityRows}
    [] OTHER               -> Missions

-----------------------------------------------------------------------------
(* The activities of a user do not overlap, and his missions neither.       *)
Consistent(rows) ==
  \A r, q \in rows : Of(r).user = Of(q).user =>
    /\ r = q \/ Of(r).to <= Of(q).from \/ Of(q).to <= Of(r).from
    /\ \A p \in rows :
         (Of(p).user = Of(r).user /\ Of(p).mission = Of(r).mission /\ Of(q).mission # Of(r).mission)
           => ~(Of(r).from < Of(q).from /\ Of(q).from < Of(p).from)

\* What the lists are read from: rows in the states the program leaves them.
PagingInit ==
  /\ rowState \in [ActivityRows -> {"absent", "live"}]
  /\ Consistent(Live)
  /\ touched = {}
  /\ reading \in [list : ListNames, size : PageSizes, cursor : {NoCursor}, page : {{}},
                  partial : {{}}, asked : {FALSE}, more : {TRUE}]
  /\ listed = [i \in ItemsOf(reading.list) |-> 0]

\* The client asks for the next page, from the cursor of the last one.
AskPage ==
  /\ reading.more
  /\ reading.asked => reading.cursor # NoCursor
  /\ LET page == PageOf(reading.list, reading.size, reading.cursor)
     IN  /\ reading' = [reading EXCEPT !.asked = TRUE, !.more = page.more,
                                       !.cursor = page.cursor, !.page = page.items,
                                       !.partial = page.partial]
         /\ listed' = [i \in DOMAIN listed |-> listed[i] + IF i \in page.items THEN 1 ELSE 0]
  /\ UNCHANGED <<rowState, touched>>

MayTouch(r) == reading.asked /\ reading.more /\ Cardinality(touched \cup {r}) <= MaxRowChanges

\* An activity is logged meanwhile.
LogRow(r) ==
  /\ MayTouch(r)
  /\ rowState[r] = "absent"
  /\ Consistent(Live \cup {r})
  /\ rowState' = [rowState EXCEPT ![r] = "live"]
  /\ touched' = touched \cup {r}
  /\ UNCHANGED <<reading, listed>>

\* An activity is cancelled meanwhile.
DismissRow(r) ==
  /\ MayTouch(r)
  /\ rowState[r] = "live"
  /\ rowState' = [rowState EXCEPT ![r] = "dismissed"]
  /\ touched' = touched \cup {r}
  /\ UNCHANGED <<reading, listed>>

PagingNext == AskPage \/ \E r \in ActivityRows : LogRow(r) \/ DismissRow(r)

PagingSpec == PagingInit /\ [][PagingNext]_pagingVars

-----------------------------------------------------------------------------
\* Every variable has its type, and a page is no larger than asked.
PagingTypeOK ==
  /\ rowState \in [ActivityRows -> {"absent", "live", "dismissed"}]
  /\ touched \subseteq ActivityRows
  /\ reading.list \in ListNames
  /\ reading.page \subseteq DOMAIN listed
  /\ Cardinality(reading.page) <= reading.size

\* What a list should hold, read at once.
ShouldHold(list) ==
  CASE list = "activities" -> {<<r, 0>> : r \in UserRows(Reader, FALSE)}
    [] list = "own" -> {<<m, 0>> : m \in MissionsOfRows(UserRows(Reader, FALSE))}
    [] list = "managed" ->
         {<<m, 0>> : m \in MissionsOfRows({r \in UserRows(Reader, FALSE) : Of(r).firm = ReadFirm})}
    [] list = "company" -> {<<m, 0>> : m \in MissionsOfRows({r \in Live : Of(r).firm = ReadFirm})}
    [] list = "stats" ->
         UNION {{<<d, Of(r).user>> : d \in {e \in DaysOf(r) : HasService({r}, e)}} :
                r \in {q \in Live : Of(q).firm = ReadFirm}}
    [] OTHER -> {}

\* The items none of whose rows changed while the client reads.
Untouched(list) ==
  CASE list = "activities" -> {<<r, 0>> : r \in ActivityRows \ touched}
    [] list = "stats" -> DOMAIN listed \ UNION {{<<d, Of(r).user>> : d \in DaysOf(r)} : r \in touched}
    [] OTHER -> DOMAIN listed \ {<<Of(r).mission, 0>> : r \in touched}

\* A client who reads a list to its end is given every item nobody changed
\* meanwhile, and none of these twice, whatever else is logged or cancelled
\* between two pages.
UntouchedIsListedOnce ==
  LET list == reading.list
  IN  /\ \A i \in Untouched(list) : listed[i] <= 1
      /\ (list # "withDeleted" /\ ~reading.more)
           => \A i \in ShouldHold(list) \cap Untouched(list) : listed[i] = 1

\* A work day listed is computed from all the rows it has, although rows are
\* read up to a limit that falls anywhere in a day.
WorkDaysAreWhole == reading.partial = {}

\* Read page by page, a list gives each item once and each day whole, though
\* rows change between two pages.
ListsAreWhole == PagingTypeOK /\ UntouchedIsListedOnce /\ WorkDaysAreWhole
=============================================================================
