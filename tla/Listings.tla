------------------------------ MODULE Listings ------------------------------
(***************************************************************************)
(* The paged listings of the administration: users, audit events, jobs,    *)
(* administrator's tasks, command runs and PMP's rooms, and the export of  *)
(* the audit trail.  A client walks a listing page by page while rows are  *)
(* written under it.  Each SQL statement is one step; the listings differ  *)
(* in which statements they run, in which order, and how they sort.        *)
(*                                                                         *)
(* A table maps the ids of its rows to them; ids grow with created_at.  A  *)
(* row's tag is the value the filters look at (a name, an action, a        *)
(* status, a scope, a state); done is 0 until it gets its finished_at.     *)
(***************************************************************************)
EXTENDS Naturals, FiniteSets

CONSTANTS
    PAGE_NUM,       \* pageNum: users/routes.rs:74, audit/routes.rs:69
    EXPORT_MAX,     \* the 10 000 rows of an export: audit/routes.rs:147
    MaxRows,        \* bound: rows ever written
    MaxPage         \* bound: pages of one walk

ASSUME ListingsAssumption ==
    PAGE_NUM \in Nat \ {0} /\ EXPORT_MAX \in Nat \ {0} /\ MaxRows \in Nat \ {0} /\ MaxPage \in Nat

VARIABLES
    kind,           \* which listing this behaviour is about
    table,          \* the rows of its table (for "rooms", PMP's rooms)
    made, ended,    \* how many rows were written, and finished
    walk            \* the client walking it

listVars == <<kind, table, made, ended, walk>>

AnyTag == "any"
Tag == {"old", "new"}
Kind == {"users", "audit", "export", "export_csv", "jobs", "tasks", "commands", "rooms"}
Exports == {"export", "export_csv"}

NoWalk == [pc |-> "idle", filter |-> AnyTag, page |-> 1, items |-> {}, total |-> 0,
           seen |-> {}, owed |-> {}, steady |-> TRUE]

ListInit ==
    /\ kind \in Kind
    /\ made \in 0..(MaxRows - 1)
    /\ table = [i \in 1..made |-> [tag |-> "old", done |-> 0]]
    /\ ended = 0 /\ walk = NoWalk

-----------------------------------------------------------------------------
(* Which rows a query selects, by which key it sorts them, highest first,  *)
(* and the pages it may answer with: rows of the same key come in any      *)
(* order.                                                                  *)

Matching(f) == {i \in DOMAIN table : f = AnyTag \/ table[i].tag = f}
(* ORDER BY created_at DESC *)
Newest == [i \in DOMAIN table |-> i]
(* ORDER BY finished_at DESC NULLS LAST: rows that have not ended tie      *)
LatestEnded == [i \in DOMAIN table |-> table[i].done]
AnyOrder == [i \in DOMAIN table |-> 0]

(* Skip the rows of the pages before, then take n. *)
Page(rows, key, n) ==
    {items \in SUBSET rows : \E skipped \in SUBSET (rows \ items) :
        LET rest == rows \ (skipped \cup items)
            from == (walk.page - 1) * n IN
        /\ \A i \in skipped, j \in items \cup rest : key[i] >= key[j]
        /\ \A i \in items, j \in rest : key[i] >= key[j]
        /\ Cardinality(skipped) <= from /\ (Cardinality(skipped) < from => skipped = rows)
        /\ Cardinality(items) <= n /\ (Cardinality(items) < n => rest = {})}

Got(items, next) == walk' = [walk EXCEPT !.items = items, !.pc = next]
Counted(n, next) == walk' = [walk EXCEPT !.total = n, !.pc = next]
Asks(k, pc) == kind = k /\ walk.pc = pc /\ UNCHANGED <<kind, table, made, ended>>

-----------------------------------------------------------------------------
(* The listings.  The permission is checked before the first step of each, *)
(* except by the export.                                                   *)

(* Rows, then a count that knows no filter. *)
UsersRows ==
    Asks("users", "rows") /\ \E items \in Page(Matching(walk.filter), Newest, PAGE_NUM) : Got(items, "count")
(* Mutant: the users are counted for the first page only. *)
UsersCountOnce ==
    /\ Asks("users", "count")
    /\ Counted(IF walk.page = 1 THEN Cardinality(DOMAIN table) ELSE walk.total, "turn")
UsersCount == Asks("users", "count") /\ Counted(Cardinality(DOMAIN table), "turn")

(* Mutant: the audit trail sorted from the oldest event. *)
list_filteredOldest(limit, next) ==
    \E items \in Page(Matching(walk.filter), [i \in DOMAIN table |-> MaxRows - i], limit) :
        walk' = [walk EXCEPT !.items = items, !.total = Cardinality(items), !.pc = next]
(* The total of an audit page is the length of the page. *)
list_filtered(limit, next) ==
    \E items \in Page(Matching(walk.filter), Newest, limit) :
        walk' = [walk EXCEPT !.items = items, !.total = Cardinality(items), !.pc = next]
AuditList == Asks("audit", "rows") /\ list_filtered(PAGE_NUM, "turn")
(* The export reads first and asks for audit:view or audit:export after;   *)
(* export.csv has asked when it reads.                                     *)
Export == Asks("export", "rows") /\ list_filtered(EXPORT_MAX, "answer")
ExportCsv == Asks("export_csv", "rows") /\ list_filtered(EXPORT_MAX, "answer")
Answered(ok) ==
    /\ walk.pc = "answer"
    /\ walk' = [walk EXCEPT !.pc = "end", !.seen = IF ok THEN walk.items ELSE {},
                            !.steady = ok /\ walk.steady /\ Cardinality(walk.items) < EXPORT_MAX]
    /\ UNCHANGED <<kind, table, made, ended>>
(* The caller of the export holds the permission, or gets nothing. *)
require(ok) == kind = "export" /\ Answered(ok)
csv_response == kind = "export_csv" /\ Answered(TRUE)

JobsCount == Asks("jobs", "count") /\ Counted(Cardinality(DOMAIN table), "rows")
JobsRows == Asks("jobs", "rows") /\ \E items \in Page(DOMAIN table, Newest, PAGE_NUM) : Got(items, "turn")

TasksCount == Asks("tasks", "count") /\ Counted(Cardinality(Matching(walk.filter)), "rows")
TasksRows ==
    Asks("tasks", "rows") /\ \E items \in Page(Matching(walk.filter), Newest, PAGE_NUM) : Got(items, "turn")

RecentCount == Asks("commands", "count") /\ Counted(Cardinality(Matching(walk.filter)), "rows")
RecentRows ==
    Asks("commands", "rows") /\ \E items \in Page(Matching(walk.filter), LatestEnded, PAGE_NUM) : Got(items, "turn")
list_commands == RecentCount \/ RecentRows

(* One answer of PMP, in PMP's order, filtered, counted and sliced. *)
filter_room_items == Matching(walk.filter)
paginate_room_items(rooms) == Page(rooms, AnyOrder, PAGE_NUM)
ListRooms ==
    /\ Asks("rooms", "rows")
    /\ \E items \in paginate_room_items(filter_room_items) :
          walk' = [walk EXCEPT !.items = items, !.total = Cardinality(filter_room_items), !.pc = "turn"]

First == IF kind \in {"jobs", "tasks", "commands"} THEN "count" ELSE "rows"

(* The client asks for the first page ... *)
WalkBegin(f) ==
    /\ walk.pc = "idle" /\ (kind = "jobs" => f = AnyTag)
    /\ walk' = [NoWalk EXCEPT !.pc = First, !.filter = f,
                  !.owed = {i \in Matching(f) : kind = "commands" => table[i].done > 0}]
    /\ UNCHANGED <<kind, table, made, ended>>
(* ... and for the next one until a page is not full.                      *)
TurnPage ==
    LET full == Cardinality(walk.items) = PAGE_NUM IN
    /\ walk.pc = "turn" /\ walk.page <= MaxPage
    /\ walk' = [walk EXCEPT !.seen = walk.seen \cup walk.items,
                  !.pc = IF full THEN First ELSE "end",
                  !.page = IF full THEN walk.page + 1 ELSE walk.page,
                  !.steady = walk.steady /\ (kind = "rooms" => ~full)]
    /\ UNCHANGED <<kind, table, made, ended>>

-----------------------------------------------------------------------------
(* What is written meanwhile.  A row that leaves the walk's filter moves   *)
(* the later ones up: such a walk is not steady.                           *)

Write(k, tags) ==
    /\ kind \in k /\ made < MaxRows
    /\ made' = made + 1
    /\ \E t \in tags : table' = [i \in DOMAIN table \cup {made + 1} |->
                                    IF i = made + 1 THEN [tag |-> t, done |-> 0] ELSE table[i]]
    /\ UNCHANGED <<kind, ended, walk>>
Retag(i, t) == t # table[i].tag /\ table' = [table EXCEPT ![i] = [tag |-> t, done |-> table[i].done]]
Leaves(i) == walk.filter = table[i].tag
Unsettles(i) == walk' = [walk EXCEPT !.steady = walk.steady /\ ~Leaves(i)]

upsert_by_phira_id ==
    \/ Write({"users"}, Tag)
    \/ /\ kind = "users"
       /\ \E i \in DOMAIN table, t \in Tag : Retag(i, t) /\ Unsettles(i)
       /\ UNCHANGED <<kind, made, ended>>
record(tags) == Write({"audit"} \cup Exports, tags)
record_principal == record(Tag)
record_completed_command == record(Tag)
(* The daily purge deletes the oldest events: they are owed no more.       *)
purge_older_than ==
    /\ kind \in {"audit"} \cup Exports
    /\ \E i \in 1..made :
         /\ \E j \in DOMAIN table : j <= i
         /\ table' = [j \in {q \in DOMAIN table : q > i} |-> table[j]]
         /\ walk' = [walk EXCEPT !.owed = {j \in walk.owed : j > i}]
    /\ UNCHANGED <<kind, made, ended>>
JobCreated == Write({"jobs"}, {"old"})
TaskCreated == Write({"tasks"}, {"old"})
(* "old" is pending, "new" is completed. *)
complete_task ==
    /\ kind = "tasks"
    /\ \E i \in DOMAIN table : Retag(i, "new") /\ Unsettles(i)
    /\ UNCHANGED <<kind, made, ended>>
insert_queued == Write({"commands"}, Tag)
(* A run ends once, and comes first then. *)
mark_finished ==
    /\ kind = "commands" /\ ended < MaxRows
    /\ ended' = ended + 1
    /\ \E i \in DOMAIN table :
         /\ table[i].done = 0
         /\ table' = [table EXCEPT ![i] = [tag |-> table[i].tag, done |-> ended + 1]]
    /\ UNCHANGED <<kind, made, walk>>
(* PMP's rooms come, change and go. *)
RoomsChange ==
    \/ Write({"rooms"}, Tag)
    \/ /\ kind = "rooms"
       /\ \E i \in DOMAIN table :
            \/ table' = [j \in DOMAIN table \ {i} |-> table[j]]
            \/ \E t \in Tag : Retag(i, t)
       /\ walk' = [walk EXCEPT !.steady = FALSE]
       /\ UNCHANGED <<kind, made, ended>>

ListNext ==
    \/ UsersRows \/ UsersCount \/ AuditList \/ Export \/ ExportCsv \/ JobsCount \/ JobsRows
    \/ TasksCount \/ TasksRows \/ list_commands \/ ListRooms \/ TurnPage
    \/ \E f \in Tag \cup {AnyTag} : WalkBegin(f)
    \/ csv_response \/ \E ok \in BOOLEAN : require(ok)
    \/ upsert_by_phira_id \/ record_principal \/ record_completed_command
    \/ purge_older_than \/ JobCreated \/ TaskCreated
    \/ complete_task \/ insert_queued \/ mark_finished \/ RoomsChange

ListSpec == ListInit /\ [][ListNext]_listVars

-----------------------------------------------------------------------------
Row == [tag : Tag, done : 0..MaxRows]
Walk == [pc : {"idle", "rows", "count", "answer", "turn", "end"}, filter : Tag \cup {AnyTag},
         page : 1..(MaxPage + 1), items : SUBSET (1..MaxRows), total : 0..MaxRows,
         seen : SUBSET (1..MaxRows), owed : SUBSET (1..MaxRows), steady : BOOLEAN]

ListTypeOK ==
    /\ kind \in Kind /\ made \in 0..MaxRows /\ ended \in 0..MaxRows
    /\ DOMAIN table \subseteq 1..made /\ table \in [DOMAIN table -> Row]
    /\ walk \in Walk

(* A client who turns the pages of a listing until one is not full has     *)
(* seen every row that was there from the beginning, however many rows are *)
(* written or purged meanwhile: new rows come before the ones still to be  *)
(* shown, and a purge takes rows from the far end.  Not claimed where a    *)
(* row left the filter during the walk (a task completed, a user renamed), *)
(* for runs that had not ended, and for the second page of PMP's rooms.    *)
(* users/routes.rs:81-113, audit/repo.rs:90, commands/repo.rs:130.         *)
WalkIsComplete ==
    /\ ListTypeOK
    /\ walk.pc = "end" /\ walk.steady => walk.owed \subseteq walk.seen

(* A page of users or rooms never shows a row beyond the total given with  *)
(* it: users are counted after they are read and are never deleted, rooms  *)
(* come from one answer.  users/routes.rs:118, rooms/routes.rs:67-72.      *)
TotalCoversPage ==
    (kind \in {"users", "rooms"} /\ walk.pc = "turn" /\ walk.items # {}) =>
        (walk.page - 1) * PAGE_NUM + Cardinality(walk.items) <= walk.total

(* What a client of a listing can rely on: turning its pages shows every   *)
(* row that stayed in it, and no page goes beyond its total.               *)
ListingsAreWhole == WalkIsComplete /\ TotalCoversPage
=============================================================================
