------------------------------ MODULE Listings ------------------------------
(***************************************************************************)
(* The lists of the API.  Each is asked for with skip and take and answers *)
(* a page and a total, read by two statements (Promise.all of findMany and *)
(* count) of one condition: the caller's filters, the search text and what *)
(* the caller's scope lets him see.  A caller who wants all of it asks for *)
(* page after page until skip + take reaches the total.                    *)
(*                                                                         *)
(* What the lists differ in, to such a caller, is the order: whether two   *)
(* rows can tie, then PostgreSQL may arrange them anew for every page, and *)
(* whether an edit of a row can change its place.                          *)
(***************************************************************************)
EXTENDS Integers, FiniteSets, Functions

CONSTANTS
  Lines,                 \* rows of the table that is listed
  Asked,                 \* values of take that are asked for; Unasked is none of them
  Unasked,
  DefaultTake, LargestTake, \* 25 and 100
  Ranks                  \* places in the order, a range of numbers from 1

ASSUME ListingsAssumption ==
  /\ DefaultTake \in Nat \ {0} /\ LargestTake \in Nat \ {0} /\ Asked \subseteq Nat \ {0}
  /\ Ranks \subseteq Nat /\ Unasked \notin Asked
  /\ IsFiniteSet(Lines)  \* a table has so many rows and no more

VARIABLES
  kind,    \* of the order: [ties, fixed]
  rank,    \* per row: its place in the order
  listed,  \* the rows that fulfil the condition
  caller,  \* the pass through the list
  drifted  \* history: rows whose place in the list was changed by a write
           \* during the pass, or was shared with another

listingVars == <<kind, rank, listed, caller, drifted>>

(* The lists and what they are ordered by.                                 *)
listCustomers       == <<"status", "name">>
listFacilities      == <<"status", "name">>
listContracts       == <<"status", "startDate">>
listRequests        == <<"priority", "createdAt">>
listWorkOrders      == <<"scheduledStartAt", "createdAt">>
listShifts          == <<"startAt">>
listAttendance      == <<"date">>
listLeaveRequests   == <<"status", "startDate">>
listInvoices        == <<"issueDate">>
listPayments        == <<"createdAt">>
listConversations   == <<"updatedAt">>
listMessages        == <<"createdAt">>
listNotifications   == <<"createdAt">>
listAttachments     == <<"createdAt">>
listComments        == <<"createdAt">>
listComplaints      == <<"createdAt">>
listIncidents       == <<"createdAt">>
listTemplates       == <<"isActive", "name unique">>
listInspections     == <<"createdAt">>
listCategories      == <<"sortOrder", "name unique">>
listServices        == <<"isActive", "name">>
listAreas           == <<"isActive", "name">>
listDepartments     == <<"isActive", "name unique">>
listEmployees       == <<"status", "lastName", "firstName">>
listUsers           == <<"createdAt">>
auditLogs           == <<"createdAt">>
systemSettings      == <<"category", "key unique">>
backgroundJobs      == <<"status", "runAt">>
reportRequests      == <<"createdAt">>
reportWorkOrders    == <<"createdAt">>
reportInvoices      == <<"issueDate">>
listResource        == <<"id unique">>  \* where the caller names no other

Lists ==
  {listCustomers, listFacilities, listContracts, listRequests, listWorkOrders,
   listShifts, listAttendance, listLeaveRequests, listInvoices, listPayments,
   listConversations, listMessages, listNotifications, listAttachments,
   listComments, listComplaints, listIncidents, listTemplates, listInspections,
   listCategories, listServices, listAreas, listDepartments, listEmployees,
   listUsers, auditLogs, systemSettings, backgroundJobs, reportRequests,
   reportWorkOrders, reportInvoices, listResource}

Unique  == {"name unique", "key unique", "id unique"}
Written == {"createdAt", "id unique"}  \* once, with the row

KindOf(list) == [ties  |-> {list[i] : i \in DOMAIN list} \cap Unique = {},
                 fixed |-> {list[i] : i \in DOMAIN list} \subseteq Written]

-----------------------------------------------------------------------------
Idle == [stage |-> "idle", skip |-> 0, take |-> 0, total |-> 0,
         seen |-> [x \in Lines |-> 0]]

ListingTypeOK ==
  /\ kind \in [ties : BOOLEAN, fixed : BOOLEAN]
  /\ rank \in [Lines -> Ranks] /\ listed \subseteq Lines /\ drifted \subseteq Lines
  /\ caller.stage \in {"idle", "asked", "page", "count", "answered", "done"}
  /\ caller.skip \in Nat /\ caller.take \in 0..LargestTake
  /\ caller.total \in 0..Cardinality(Lines) /\ caller.seen \in [Lines -> Nat]
  /\ ~kind.ties => \A x, y \in Lines : rank[x] = rank[y] => x = y

ListingInit ==
  /\ kind \in {KindOf(list) : list \in Lists}
  /\ rank \in [Lines -> Ranks] /\ listed \in SUBSET Lines
  /\ ~kind.ties => \A x, y \in Lines : rank[x] = rank[y] => x = y
  /\ caller = Idle /\ drifted = {}

Place(x) == Cardinality({y \in listed : rank[y] < rank[x]})
Tied(x)  == \E y \in listed \ {x} : rank[y] = rank[x]

-----------------------------------------------------------------------------
\* Mutant of getPagination: take is not limited.
Unlimited(asked) == IF asked = Unasked THEN DefaultTake ELSE asked

getPagination(asked) ==
  LET take == IF asked = Unasked THEN DefaultTake ELSE asked IN
  IF take < LargestTake THEN take ELSE LargestTake

ask(asked) ==
  /\ caller.stage \in {"idle", "done"}
  /\ caller' = [Idle EXCEPT !.stage = "asked", !.take = getPagination(asked)]
  /\ drifted' = {x \in Lines : Tied(x)}
  /\ UNCHANGED <<kind, rank, listed>>

(* findMany: the rows in order, without the first skip of them, take at    *)
(* most.                                                                   *)
\* Mutant of Arranged: no orderBy, the rows come as the planner likes.
AnyOrder == Injection(1..Cardinality(listed), listed)

Arranged == {s \in AnyOrder : \A i, j \in DOMAIN s : i < j => rank[s[i]] <= rank[s[j]]}

findMany ==
  /\ caller.stage \in {"asked", "count"}
  /\ \E s \in Arranged :
       LET page == {s[i] : i \in {i \in DOMAIN s : /\ caller.skip < i
                                                  /\ i <= caller.skip + caller.take}} IN
       caller' = [caller EXCEPT
         !.stage = IF @ = "asked" THEN "page" ELSE "answered",
         !.seen = [x \in Lines |-> IF x \in page THEN @[x] + 1 ELSE @[x]]]
  /\ UNCHANGED <<kind, rank, listed, drifted>>

(* The other statement; the two may run in either order.                   *)
count ==
  /\ caller.stage \in {"asked", "page"}
  /\ caller' = [caller EXCEPT !.stage = IF @ = "asked" THEN "count" ELSE "answered",
                              !.total = Cardinality(listed)]
  /\ UNCHANGED <<kind, rank, listed, drifted>>

(* The caller asks for the next page, or has come to the end.              *)
turn ==
  /\ caller.stage = "answered"
  /\ caller' = IF caller.skip + caller.take < caller.total
               THEN [caller EXCEPT !.stage = "asked", !.skip = @ + caller.take]
               ELSE [caller EXCEPT !.stage = "done"]
  /\ UNCHANGED <<kind, rank, listed, drifted>>

(* Any other request: a row is created, edited, archived, or comes into or *)
(* leaves what the filters and the scope select.                           *)
write(x, r, among) ==
  /\ <<r, among>> # <<rank[x], x \in listed>>
  /\ kind.fixed => r = rank[x]
  /\ ~kind.ties => \A y \in Lines \ {x} : rank[y] # r
  /\ rank' = [rank EXCEPT ![x] = r]
  /\ listed' = IF among THEN listed \cup {x} ELSE listed \ {x}
  /\ drifted' = IF caller = Idle THEN {}
                ELSE drifted \cup {x} \cup {y \in Lines : Place(y)' # Place(y) \/ Tied(y)'}
  /\ UNCHANGED <<kind, caller>>

ListingNext ==
  \/ \E asked \in Asked \cup {Unasked} : ask(asked)
  \/ findMany \/ count \/ turn
  \/ \E x \in Lines, r \in Ranks, among \in BOOLEAN : write(x, r, among)

ListingSpec == ListingInit /\ [][ListingNext]_listingVars

-----------------------------------------------------------------------------
(* Whoever pages through a list to its end has got every row of it once,   *)
(* but for rows whose place was changed or shared meanwhile: a write of    *)
(* another row before them is enough, and in an order that can tie no      *)
(* write at all is needed.                                                 *)
ListedUnlessMoved ==
  caller.stage = "done" =>
    \A x \in Lines \ drifted :
      caller.seen[x] = IF x \in listed THEN 1 ELSE 0
=============================================================================
