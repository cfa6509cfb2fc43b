------------------------------ MODULE Listings ------------------------------
(***************************************************************************)
(* The lists of the API, handed out page by page, newest rows first.  The  *)
(* cursor of a page is the creation time of its last row, and the next     *)
(* page holds rows older than it.  A client walks a list from page to      *)
(* page; the table may be a different one at every page, since rows are    *)
(* written, deleted, archived and fall under or out of the filters of the  *)
(* list meanwhile.  A table is the set of the rows that match.             *)
(***************************************************************************)
EXTENDS Integers, FiniteSets, Sequences

CONSTANTS
  ListRows,     \* rows: what identifies one, and when it was created
  DefaultLimit, \* rows of a page when the client does not say
  MaxLimit,     \* the most that it may ask for
  MaxPages      \* bound: pages of a walk

ASSUME ListingsAssumption ==
  /\ IsFiniteSet(ListRows) /\ \A x \in ListRows : x.at \in Nat
  /\ DefaultLimit \in Nat \ {0} /\ MaxLimit \in Nat \ {0} /\ MaxPages \in Nat

Lists == {"watchpoints", "auditLogs", "users", "apiKeys", "orgHistory", "watchPointHistory"}
Histories == {"orgHistory", "watchPointHistory"}

NoCursor == -1

-----------------------------------------------------------------------------
(* What the statements and the functions that read them have in common.    *)

\* Mutant: rows as old as the cursor are read once more.
NotNewer(cursor, table) == IF cursor = NoCursor THEN table ELSE {x \in table : x.at <= cursor}

Older(cursor, table) == IF cursor = NoCursor THEN table ELSE {x \in table : x.at < cursor}

\* ORDER BY created_at DESC LIMIT n: nothing decides between rows of one time.
Newest(n, rows) ==
  {first \in SUBSET rows :
     /\ Cardinality(first) = IF n < Cardinality(rows) THEN n ELSE Cardinality(rows)
     /\ \A x \in first, y \in rows \ first : x.at >= y.at}

Oldest(rows) == CHOOSE t \in {x.at : x \in rows} : \A x \in rows : t <= x.at

\* One row more than the page holds tells whether there are any.
Fetched(limit, table, cursor) == Newest(limit + 1, Older(cursor, table))

\* The page that is made of what was fetched; "cut" is what a client is not shown
\* although it comes before the cursor.
Trimmed(fetched, limit) ==
  IF Cardinality(fetched) > limit
  THEN {[items |-> first, more |-> TRUE, next |-> Oldest(first), cut |-> {}] :
          first \in Newest(limit, fetched)}
  ELSE {[items |-> fetched, more |-> FALSE, next |-> NoCursor, cut |-> {}]}

Pages(limit, table, cursor) ==
  UNION {Trimmed(fetched, limit) : fetched \in Fetched(limit, table, cursor)}

-----------------------------------------------------------------------------
(* The repositories.                                                        *)

\* WatchPoints: no handler calls it, GET /v1/watchpoints answers with an empty page.
WatchPointsList(limit, table, cursor) ==
  Pages(IF limit > MaxLimit THEN MaxLimit ELSE limit, table, cursor)

AuditList(limit, table, cursor) == Pages(limit, table, cursor)

\* Users and API keys: the row in excess is left to the handler.
ListByOrg(limit, table, cursor)  == Fetched(limit, table, cursor)
APIKeysList(limit, table, cursor) == Fetched(limit, table, cursor)

\* Notifications: the filter has no field for the limit of the client.  The rows of
\* the deliveries are joined to those of the page, and do not count.
HistoryLimit == DefaultLimit
NotificationsList(table, cursor) == Pages(HistoryLimit, table, cursor)

-----------------------------------------------------------------------------
(* The handlers.                                                            *)

\* Any other limit is refused.
Limits == 1..MaxLimit

ListUsers(limit, table, cursor) ==
  UNION {Trimmed(users, limit) : users \in ListByOrg(limit, table, cursor)}

ListAPIKeys(limit, table, cursor) ==
  UNION {Trimmed(keys, limit) : keys \in APIKeysList(limit, table, cursor)}

ListAuditLogs(limit, table, cursor) == AuditList(limit, table, cursor)

\* The page of the repository is cut to what the client asked for; its cursor is
\* kept, and so is its lack of one.
Cut(page, limit) ==
  {[page EXCEPT !.items = first, !.cut = page.items \ first,
                !.more = page.more \/ Cardinality(page.items) > limit] :
     first \in Newest(limit, page.items)}

OrgHistory(limit, table, cursor) ==
  UNION {Cut(page, limit) : page \in NotificationsList(table, cursor)}

WatchPointHistory(limit, table, cursor) ==
  UNION {Cut(page, limit) : page \in NotificationsList(table, cursor)}

PagesOf(list, limit, table, cursor) ==
  CASE list = "watchpoints"       -> WatchPointsList(limit, table, cursor)
    [] list = "auditLogs"         -> ListAuditLogs(limit, table, cursor)
    [] list = "users"             -> ListUsers(limit, table, cursor)
    [] list = "apiKeys"           -> ListAPIKeys(limit, table, cursor)
    [] list = "orgHistory"        -> OrgHistory(limit, table, cursor)
    [] list = "watchPointHistory" -> WatchPointHistory(limit, table, cursor)

-----------------------------------------------------------------------------
(* A client walks a list.                                                   *)

GoesOn(walk) == walk = <<>> \/ walk[Len(walk)].next # NoCursor
Cursor(walk) == IF walk = <<>> THEN NoCursor ELSE walk[Len(walk)].next

\* Walks with one page more, read from this table, if they go on.
Longer(list, limit, table, walks) ==
  UNION {IF GoesOn(walk)
         THEN {Append(walk, page) : page \in PagesOf(list, limit, table, Cursor(walk))}
         ELSE {walk} : walk \in walks}

\* The walks that read their pages from these tables, one after the other.
Walks(list, limit, tables) ==
  LET walks[n \in 0..Len(tables)] ==
        IF n = 0 THEN {<<>>} ELSE Longer(list, limit, tables[n], walks[n - 1])
  IN  walks[Len(tables)]

\* No page repeats a row of another one or goes back in time, whatever is written
\* between them.
NoRowTwice(walk) ==
  \A i, j \in DOMAIN walk : i < j =>
    \A x \in walk[i].items, y \in walk[j].items : x.at > y.at

\* A walk that came to its end has shown every row that was there all along, but
\* for those created at the very time of the last row of a page, and those that
\* the handler cut off.
NothingMissed(walk, tables) ==
  ~GoesOn(walk) =>
    \A x \in ListRows :
      \/ \E i \in DOMAIN walk : x \notin tables[i] \/ x \in walk[i].items \/ x \in walk[i].cut
      \/ \E i \in DOMAIN walk : x.at = walk[i].next

\* Whoever is told that there is more can go on, and nothing is cut off, except
\* in a history of which less is asked for than the repository reads.
MoreIsReachable(list, limit, walk) ==
  list \notin Histories \/ limit >= DefaultLimit =>
    \A i \in DOMAIN walk : (walk[i].more <=> walk[i].next # NoCursor) /\ walk[i].cut = {}

\* For all of the lists, limits and sequences of tables of this length.
WalksAreWhole(length) ==
  \A list \in Lists, limit \in Limits, tables \in [1..length -> SUBSET ListRows] :
    \A walk \in Walks(list, limit, tables) :
      NoRowTwice(walk) /\ NothingMissed(walk, tables) /\ MoreIsReachable(list, limit, walk)
=============================================================================
