----------------------------- MODULE Directory -----------------------------
(***************************************************************************)
(* The rows of which one in a group is marked: the primary contact of a    *)
(* customer, the primary contact of a facility (customers.service.ts), the *)
(* default price of a service (services.service.ts).  Invitations and      *)
(* public bookings (public-bookings.service.ts) add contacts of customers, *)
(* bookings add customers.                                                 *)
(*                                                                         *)
(* A member of Tellers is a request under way.  PostgreSQL's read          *)
(* committed is modelled as far as the marks need it: a statement sees the *)
(* rows committed when it starts, and waits for a row that an open         *)
(* transaction has written.                                                *)
(***************************************************************************)
EXTENDS Integers, FiniteSets

CONSTANTS
  Rows,    \* identities of contacts and prices
  Groups,  \* customers, facilities and services: whose contact or price a row is
  Tellers,
  Nil      \* null

ASSUME DirectoryAssumption == Nil \notin Rows \cup Groups

VARIABLES
  row,      \* the contacts and prices
  standing, \* per customer: "none", "live" or "archived" (deletedAt is set)
  teller,   \* the requests under way
  unseen    \* history: pairs of marked rows, one not there when the other's
            \* request looked, or marked without a look

directoryVars == <<row, standing, teller, unseen>>

Tables == {"contact", "site", "price"}
NoRow == [table |-> "none", group |-> Nil, marked |-> FALSE, link |-> Nil]
Ready == [op |-> "idle", row |-> Nil, new |-> NoRow, mark |-> "keep",
          knew |-> {}, clears |-> {}, missed |-> FALSE]
Marks == {"yes", "no", "keep"}

There(x) == row[x].table # "none"
Members(table, g) == {x \in Rows : row[x].table = table /\ row[x].group = g}

DirectoryTypeOK ==
  /\ row \in [Rows -> [table : Tables \cup {"none"}, group : Groups \cup {Nil},
                       marked : BOOLEAN, link : Rows \cup {Nil}]]
  /\ standing \in [Groups -> {"none", "live", "archived"}]
  /\ \A t \in Tellers :
       /\ teller[t].op \in {"idle", "clear", "write", "invite", "link", "book", "numbered"}
       /\ teller[t].mark \in Marks /\ teller[t].knew \cup teller[t].clears \subseteq Rows
  /\ \A pair \in unseen : pair \subseteq Rows /\ Cardinality(pair) = 2
  \* foreign keys: a contact has a customer, a link leads to a contact
  /\ \A x \in Rows :
       /\ row[x].table = "contact" => standing[row[x].group] # "none"
       /\ row[x].link # Nil => row[x].table = "site" /\ row[row[x].link].table = "contact"

DirectoryInit ==
  /\ row = [x \in Rows |-> NoRow]
  /\ standing \in [Groups -> {"none", "live"}]
  /\ teller = [t \in Tellers |-> Ready]
  /\ unseen = {}

-----------------------------------------------------------------------------
Accept(t, call) == teller[t] = Ready /\ teller' = [teller EXCEPT ![t] = call]
Reply(t) == teller' = [teller EXCEPT ![t] = Ready]
Fail(t)  == Reply(t) /\ UNCHANGED <<row, standing, unseen>>

(* Rows that the open transaction of another teller has written.           *)
Held(t) == UNION {teller[u].clears : u \in {u \in Tellers \ {t} : teller[u].op = "write"}}

(* Row x is written, the rows of cleared lose their mark; what the request *)
(* did not know to be there when it marked x, it left unseen.              *)
Write(x, rec, cleared, strangers) ==
  /\ row' = [y \in Rows |->
       IF y = x THEN rec
       ELSE IF y \in cleared THEN [row[y] EXCEPT !.marked = FALSE] ELSE row[y]]
  /\ unseen' = {pair \in unseen \cup {{x, y} : y \in strangers \ {x}} :
                  \A y \in pair : row'[y].marked}

(* createCustomerContact, createFacilityContact, createPrice and their     *)
(* updates.  A contact is created for a live customer; one of a facility   *)
(* may name a contact.  Clearing writes every row of the group that the    *)
(* statement sees, marked or not ...                                       *)
\* Mutant of Clearable: only the rows that are marked are written.
ClearableMarked(table, g) == {x \in Members(table, g) : row[x].marked}

Clearable(table, g) == Members(table, g)

Demand(t, call, table, g) ==
  /\ Accept(t, IF call.mark = "yes"
               THEN [call EXCEPT !.op = "clear", !.knew = Members(table, g),
                                 !.clears = Clearable(table, g)]
               ELSE [call EXCEPT !.op = "write"])
  /\ UNCHANGED <<row, standing, unseen>>

createRow(t, table, g, mark, link) ==
  /\ mark # "keep" /\ (table = "contact" => standing[g] = "live")
  /\ link # Nil => table = "site" /\ row[link].table = "contact"
  /\ Demand(t, [Ready EXCEPT !.mark = mark,
                  !.new = [NoRow EXCEPT !.table = table, !.group = g, !.link = link]], table, g)

updateRow(t, x, mark, link) ==
  /\ There(x)
  /\ link # Nil => row[x].table = "site" /\ row[link].table = "contact"
  /\ Demand(t, [Ready EXCEPT !.mark = mark, !.row = x, !.new.link = link],
            row[x].table, row[x].group)

(* ... it waits for rows that others have written, then holds them ...     *)
clearMarks(t) ==
  /\ teller[t].op = "clear" /\ teller[t].clears \cap Held(t) = {}
  /\ teller' = [teller EXCEPT ![t].op = "write"]
  /\ UNCHANGED <<row, standing, unseen>>

(* ... and the row is written last.  It fails with everything before if    *)
(* the row, or the contact it is to name, has been deleted.                *)
commitUpdate(t) ==
  LET x == teller[t].row
      Given(new, old) == IF new = Nil THEN old ELSE new IN
  /\ teller[t].op = "write" /\ x # Nil /\ x \notin Held(t)
  /\ IF ~teller[t].missed
     THEN /\ Write(x, [row[x] EXCEPT !.link = Given(teller[t].new.link, @),
                        !.marked = IF teller[t].mark = "keep" THEN @ ELSE teller[t].mark = "yes"],
                   teller[t].clears,
                   IF teller[t].mark = "yes" THEN Rows \ teller[t].knew ELSE {})
          /\ Reply(t) /\ UNCHANGED standing
     ELSE Fail(t)

commitCreate(t, x) ==
  LET new == teller[t].new IN
  /\ teller[t].op = "write" /\ teller[t].row = Nil /\ ~There(x)
  /\ IF ~teller[t].missed
     THEN /\ Write(x, [new EXCEPT !.marked = teller[t].mark = "yes"], teller[t].clears,
                   Rows \ teller[t].knew)
          /\ Reply(t) /\ UNCHANGED standing
     ELSE Fail(t)

(* A price is deactivated and loses its mark; contacts are deleted, and    *)
(* with them the links to them.                                            *)
deactivatePrice(x) ==
  /\ row[x].table = "price" /\ x \notin Held(Nil)
  /\ Write(x, [row[x] EXCEPT !.marked = FALSE], {}, {})
  /\ UNCHANGED <<standing, teller>>

deleteContact(x) ==
  /\ row[x].table \in {"contact", "site"} /\ x \notin Held(Nil)
  /\ row' = [y \in Rows |-> IF y = x THEN NoRow
                           ELSE IF row[y].link = x THEN [row[y] EXCEPT !.link = Nil] ELSE row[y]]
  /\ unseen' = {pair \in unseen : x \notin pair}
  /\ teller' = [t \in Tellers |->
       [teller[t] EXCEPT !.clears = @ \ {x}, !.knew = @ \ {x},
                         !.missed = @ \/ x \in {teller[t].row, teller[t].new.link}]]
  /\ UNCHANGED standing

-----------------------------------------------------------------------------
(* inviteFacilityContact: a facility's contact that names none gets one of *)
(* the facility's customer, primary if it is itself, and no mark is        *)
(* cleared.  Each write is a transaction of its own.                       *)
inviteFacilityContact(t, x, g) ==
  /\ row[x].table = "site" /\ row[x].link = Nil /\ standing[g] # "none"
  /\ Accept(t, [Ready EXCEPT !.op = "invite", !.row = x,
                  !.new = [NoRow EXCEPT !.table = "contact", !.group = g, !.marked = row[x].marked]])
  /\ UNCHANGED <<row, standing, unseen>>

createInvited(t, y) ==
  /\ teller[t].op = "invite" /\ ~There(y)
  /\ Write(y, teller[t].new, {}, Rows)
  /\ teller' = [teller EXCEPT ![t].op = "link", ![t].new = [NoRow EXCEPT !.link = y]]
  /\ UNCHANGED standing

linkInvited(t) ==
  LET x == teller[t].row
      y == teller[t].new.link IN
  /\ teller[t].op = "link" /\ x \notin Held(t)
  /\ IF ~teller[t].missed
     THEN row' = [row EXCEPT ![x].link = y] /\ Reply(t) /\ UNCHANGED <<standing, unseen>>
     ELSE Fail(t)

(* A public booking, one transaction: the customer and the contact that    *)
(* have the visitor's address or telephone, or new ones (g, x = Nil) ...   *)
findOrCreate(t, g, x) ==
  /\ g # Nil => standing[g] = "live"
  /\ x # Nil => g # Nil /\ x \in Members("contact", g)
  /\ Accept(t, [Ready EXCEPT !.op = "book", !.row = x, !.new = [NoRow EXCEPT !.group = g]])
  /\ UNCHANGED <<row, standing, unseen>>

(* ... the order number after the count, which is free now ...             *)
numberBooking(t) ==
  /\ teller[t].op = "book"
  /\ teller' = [teller EXCEPT ![t].op = "numbered"]
  /\ UNCHANGED <<row, standing, unseen>>

(* ... and is not if another booking is committed first: all is undone.    *)
(* The contact is marked, the others' marks are left.                      *)
commitBooking(t, g, x) ==
  /\ teller[t].op = "numbered" /\ x \notin Held(t)
  /\ IF teller[t].new.group = Nil THEN standing[g] = "none" ELSE g = teller[t].new.group
  /\ teller[t].missed \/ IF teller[t].row = Nil THEN ~There(x) ELSE x = teller[t].row
  /\ IF teller[t].missed THEN Fail(t)
     ELSE /\ Write(x, [NoRow EXCEPT !.table = "contact", !.group = g, !.marked = TRUE], {}, Rows)
          /\ standing' = [standing EXCEPT ![g] = IF @ = "none" THEN "live" ELSE @]
          /\ teller' = [u \in Tellers |->
               IF u = t THEN Ready
               ELSE IF teller[u].op = "numbered" THEN [teller[u] EXCEPT !.missed = TRUE]
               ELSE teller[u]]

createCustomer(g) ==
  /\ standing[g] = "none" /\ standing' = [standing EXCEPT ![g] = "live"]
  /\ UNCHANGED <<row, teller, unseen>>

archiveCustomer(g) ==
  /\ standing[g] # "none" /\ standing' = [standing EXCEPT ![g] = "archived"]
  /\ UNCHANGED <<row, teller, unseen>>

DirectoryNext ==
  \/ \E t \in Tellers :
       \/ \E table \in Tables, g \in Groups, mark \in Marks, link \in Rows \cup {Nil} :
            createRow(t, table, g, mark, link)
       \/ \E x \in Rows, mark \in Marks, link \in Rows \cup {Nil} : updateRow(t, x, mark, link)
       \/ \E x \in Rows : commitCreate(t, x) \/ createInvited(t, x)
       \/ \E x \in Rows, g \in Groups : inviteFacilityContact(t, x, g) \/ commitBooking(t, g, x)
       \/ \E g \in Groups \cup {Nil}, x \in Rows \cup {Nil} : findOrCreate(t, g, x)
       \/ clearMarks(t) \/ commitUpdate(t) \/ linkInvited(t) \/ numberBooking(t)
  \/ \E x \in Rows : deactivatePrice(x) \/ deleteContact(x)
  \/ \E g \in Groups : createCustomer(g) \/ archiveCustomer(g)

DirectorySpec == DirectoryInit /\ [][DirectoryNext]_directoryVars

-----------------------------------------------------------------------------
(* Two rows of a group are marked only if one was added after the request  *)
(* that marked the other had begun to clear, or was marked by one that     *)
(* clears nothing (an invitation, a booking).  Two updates at once do not  *)
(* do it: both write every row of the group, so the second waits.          *)
TwoMarkedOnlyUnseen ==
  \A x, y \in Rows :
    /\ x # y /\ row[x].marked /\ row[y].marked
    /\ row[x].table = row[y].table /\ row[x].group = row[y].group
    => {x, y} \in unseen
=============================================================================
