------------------------------ MODULE Bookings ------------------------------
(***************************************************************************)
(* Bookings from the public site (public-bookings.service.ts).  A booking  *)
(* has no account: it looks for the customer and the contact by e-mail or  *)
(* telephone, overwrites what it finds, and its maker asks for it later    *)
(* with the order number, last name and e-mail or telephone, which are     *)
(* compared with the contact as it is by then.  The office edits the same  *)
(* rows meanwhile.  A booking is one transaction: what it wrote is seen at *)
(* its commit, and the rows it wrote wait for it.                          *)
(***************************************************************************)
EXTENDS Integers, FiniteSets

CONSTANTS
  Details,    \* what visitors give: records [email, phone, last]
  Digits(_),  \* of a telephone number: None, or what remains of it
  Customers, Contacts, Visitors,
  MaxOrder,   \* bound on the order numbers of a month
  None

ASSUME BookingsAssumption ==
  /\ MaxOrder \in Nat \ {0} /\ None \notin Details \cup Customers \cup Contacts

VARIABLES
  customer, \* [is, has]: live, archived or not there, and its details
  contact,  \* [of, has]: whose it is, and its details
  order,    \* [contact, made]: requestedByContactId, and what it was made with
  visitor,  \* the calls of create under way
  rewritten \* history: orders whose contact was written since, or is another

bookingVars == <<customer, contact, order, visitor, rewritten>>

Orders     == 1..MaxOrder
NoCustomer == [is |-> "none", has |-> None]
NoContact  == [of |-> None, has |-> None]
NoOrder    == [contact |-> None, made |-> None]
Away       == [stage |-> "away", gave |-> None, customer |-> None, contact |-> None,
               number |-> 0, lost |-> FALSE]

Taken == {o \in Orders : order[o].made # None}
Of(x) == {o \in Taken : order[o].contact = x}

BookingTypeOK ==
  /\ customer \in [Customers -> {NoCustomer} \cup [is : {"live", "archived"}, has : Details]]
  /\ contact \in [Contacts -> {NoContact} \cup [of : Customers, has : Details]]
  /\ order \in [Orders -> [contact : Contacts \cup {None}, made : Details \cup {None}]]
  /\ visitor \in [Visitors -> [stage : {"away", "customer", "contact", "numbered"},
                    gave : Details \cup {None}, customer : Customers \cup {None},
                    contact : Contacts \cup {None}, number : 0..MaxOrder, lost : BOOLEAN]]
  /\ rewritten \subseteq Taken
  /\ \A x \in Contacts : contact[x] # NoContact => customer[contact[x].of] # NoCustomer
  /\ \A o \in Orders : order[o].contact # None => contact[order[o].contact] # NoContact

BookingInit ==
  /\ customer = [g \in Customers |-> NoCustomer] /\ contact = [x \in Contacts |-> NoContact]
  /\ order = [o \in Orders |-> NoOrder] /\ rewritten = {}
  /\ visitor = [v \in Visitors |-> Away]

-----------------------------------------------------------------------------
Matches(have, d) == have.email = d.email \/ have.phone = d.phone

(* Customers and contacts written by bookings not yet committed.           *)
HeldCustomers == {visitor[v].customer : v \in {v \in Visitors : visitor[v].stage \in {"contact", "numbered"}}}
HeldContacts  == {visitor[v].contact : v \in {v \in Visitors : visitor[v].stage = "numbered"}}

(* The customer last updated of those who match; any of them here.         *)
findOrCreateCustomer(v, d, g) ==
  LET found == {h \in Customers : customer[h].is = "live" /\ Matches(customer[h].has, d)} IN
  /\ visitor[v] = Away
  /\ IF found = {} THEN g = None ELSE g \in found
  /\ visitor' = [visitor EXCEPT ![v] = [Away EXCEPT !.stage = "customer", !.gave = d, !.customer = g]]
  /\ UNCHANGED <<customer, contact, order, rewritten>>

(* The customer found is overwritten, so other bookings of it wait.        *)
findOrCreateContact(v, x) ==
  LET g     == visitor[v].customer
      found == {y \in Contacts : /\ contact[y] # NoContact /\ contact[y].of = g
                                 /\ Matches(contact[y].has, visitor[v].gave)} IN
  /\ visitor[v].stage = "customer" /\ (g = None \/ g \notin HeldCustomers)
  /\ IF found = {} THEN x = None ELSE x \in found
  /\ visitor' = [visitor EXCEPT ![v].stage = "contact", ![v].contact = x]
  /\ UNCHANGED <<customer, contact, order, rewritten>>

(* The number after those that are taken.  The contact found is            *)
(* overwritten by now, if it was not deleted first.                        *)
generateOrderNumber(v) ==
  /\ visitor[v].stage = "contact" /\ ~visitor[v].lost /\ Cardinality(Taken) < MaxOrder
  /\ visitor' = [visitor EXCEPT ![v].stage = "numbered", ![v].number = Cardinality(Taken) + 1]
  /\ UNCHANGED <<customer, contact, order, rewritten>>

\* Mutant of Overwritten: a contact that is there is left as it is.
Kept(x, g, d) == IF contact[x] = NoContact THEN [of |-> g, has |-> d] ELSE contact[x]

Overwritten(x, g, d) == [of |-> g, has |-> d]

create(v, g, x) ==
  LET d == visitor[v].gave
      o == visitor[v].number IN
  /\ visitor[v].stage = "numbered" /\ o \notin Taken
  /\ IF visitor[v].customer = None THEN customer[g] = NoCustomer ELSE g = visitor[v].customer
  /\ IF visitor[v].contact = None THEN contact[x] = NoContact ELSE x = visitor[v].contact
  /\ customer' = [customer EXCEPT ![g] = [is |-> IF @.is = "none" THEN "live" ELSE @.is, has |-> d]]
  /\ contact' = [contact EXCEPT ![x] = Overwritten(x, g, d)]
  /\ order' = [order EXCEPT ![o] = [contact |-> x, made |-> d]]
  /\ rewritten' = rewritten \cup Of(x)
  /\ visitor' = [visitor EXCEPT ![v] = Away]

(* All of it is undone: another booking has got the number, the contact is *)
(* deleted, the database gives up.                                         *)
createFails(v) ==
  /\ visitor[v] # Away
  /\ visitor' = [visitor EXCEPT ![v] = Away]
  /\ UNCHANGED <<customer, contact, order, rewritten>>

-----------------------------------------------------------------------------
(* The office.                                                             *)
officeCreates(g, d) ==
  /\ customer[g] = NoCustomer
  /\ customer' = [customer EXCEPT ![g] = [is |-> "live", has |-> d]]
  /\ UNCHANGED <<contact, order, visitor, rewritten>>

officeUpdates(g, d) ==
  /\ customer[g] # NoCustomer /\ g \notin HeldCustomers
  /\ customer' = [customer EXCEPT ![g].has = d]
  /\ UNCHANGED <<contact, order, visitor, rewritten>>

officeArchives(g) ==
  /\ customer[g] # NoCustomer /\ g \notin HeldCustomers
  /\ customer' = [customer EXCEPT ![g].is = "archived"]
  /\ UNCHANGED <<contact, order, visitor, rewritten>>

createCustomerContact(g, x, d) ==
  /\ customer[g].is = "live" /\ contact[x] = NoContact
  /\ contact' = [contact EXCEPT ![x] = [of |-> g, has |-> d]]
  /\ UNCHANGED <<customer, order, visitor, rewritten>>

updateCustomerContact(x, d) ==
  /\ contact[x] # NoContact /\ x \notin HeldContacts
  /\ contact' = [contact EXCEPT ![x].has = d]
  /\ rewritten' = rewritten \cup Of(x)
  /\ UNCHANGED <<customer, order, visitor>>

deleteCustomerContact(x) ==
  /\ contact[x] # NoContact /\ x \notin HeldContacts
  /\ contact' = [contact EXCEPT ![x] = NoContact]
  /\ order' = [o \in Orders |-> IF o \in Of(x) THEN [order[o] EXCEPT !.contact = None] ELSE order[o]]
  /\ visitor' = [v \in Visitors |->
       IF visitor[v].contact = x THEN [visitor[v] EXCEPT !.contact = None, !.lost = TRUE]
       ELSE visitor[v]]
  /\ rewritten' = rewritten \cup Of(x)
  /\ UNCHANGED customer

updateRequest(o, x) ==
  /\ o \in Taken /\ contact[x] # NoContact
  /\ order' = [order EXCEPT ![o].contact = x]
  /\ rewritten' = rewritten \cup {o}
  /\ UNCHANGED <<customer, contact, visitor>>

BookingNext ==
  \/ \E v \in Visitors :
       \/ \E d \in Details, g \in Customers \cup {None} : findOrCreateCustomer(v, d, g)
       \/ \E x \in Contacts \cup {None} : findOrCreateContact(v, x)
       \/ generateOrderNumber(v) \/ createFails(v)
       \/ \E g \in Customers, x \in Contacts : create(v, g, x)
  \/ \E g \in Customers, d \in Details :
       \/ officeCreates(g, d) \/ officeUpdates(g, d)
       \/ \E x \in Contacts : createCustomerContact(g, x, d)
  \/ \E g \in Customers : officeArchives(g)
  \/ \E x \in Contacts, d \in Details : updateCustomerContact(x, d)
  \/ \E x \in Contacts : deleteCustomerContact(x) \/ \E o \in Orders : updateRequest(o, x)

BookingSpec == BookingInit /\ [][BookingNext]_bookingVars

-----------------------------------------------------------------------------
(* The public status: the contact's last name must be the one given, and   *)
(* its e-mail or the digits of its telephone, if it has any.               *)
lookup(o, last, email, digits) ==
  /\ order[o].contact # None
  /\ LET have == contact[order[o].contact].has IN
     /\ have.last = last
     /\ have.email = email \/ (Digits(have.phone) # None /\ Digits(have.phone) = digits)

(* Whoever booked finds the booking with the details he gave, whatever     *)
(* other bookings were made at the same time, until another booking or the *)
(* office writes its contact, deletes it or puts another one in its place. *)
(* A telephone number without digits finds nothing.                        *)
LookupFailsOnlyAfterRewrite ==
  \A o \in Taken \ rewritten :
    LET d == order[o].made IN
    /\ lookup(o, d.last, d.email, None)
    /\ Digits(d.phone) # None => lookup(o, d.last, None, Digits(d.phone))
=============================================================================
