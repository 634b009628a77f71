----------------------------- MODULE MCRecords -----------------------------
(* Directory, Bookings, Listings, Conversations and Casework in one run:   *)
(* they share no variable, so a behaviour is one of one of them.           *)
EXTENDS Directory, Bookings, Listings, Conversations, Casework, TLC

CONSTANTS ann, bob, home, spoken

VARIABLE part

vars == <<part, directoryVars, bookingVars, listingVars, conversationVars, caseVars>>

(* Two people with one telephone; one of them also books with a number     *)
(* that has no digits.                                                     *)
AnnSpoken == [email |-> ann, phone |-> spoken, last |-> ann]
MCDetails == {[email |-> ann, phone |-> home, last |-> ann], AnnSpoken,
              [email |-> bob, phone |-> home, last |-> bob]}
MCDigits(phone) == IF phone = spoken THEN Nil ELSE phone

Init ==
  /\ part \in {"directory", "bookings", "listings", "conversations", "casework"}
  /\ DirectoryInit /\ BookingInit /\ ListingInit /\ ConversationInit /\ CaseInit
  /\ part # "directory" => standing = [g \in Groups |-> "none"]
  /\ part # "listings" =>
       /\ kind = [ties |-> TRUE, fixed |-> TRUE] /\ listed = {}
       /\ \A x \in Lines, r \in Ranks : rank[x] <= r
  /\ part # "casework" => \A i \in Cases : sort[i] = "task"

(* An edit sets the mark or the link of a row; prices do not meet          *)
(* contacts; of the calls that are about to write one has no marks to      *)
(* clear.                                                                  *)
FewMarks ==
  LET InUse == UNION {{row'[x].table : x \in Rows}, {teller'[t].new.table : t \in Tellers},
                      {"contact" : t \in {u \in Tellers : teller'[u].op = "book"}}} IN
  /\ \A t \in Tellers :
       /\ teller'[t].op \in {"clear", "write"} /\ teller'[t].row # Nil
       /\ teller'[t].new.link # Nil
       => teller'[t].mark = "keep"
  /\ "price" \in InUse => InUse \subseteq {"none", "price"}
  /\ Cardinality({t \in Tellers : teller'[t].op = "write" /\ teller'[t].mark # "yes"}) < 2

(* The office writes one set of details, customers and new contacts before *)
(* the first order, and nothing beside a second customer; Ann's spoken     *)
(* number is booked with while there is one customer; two contacts.        *)
FewBookings ==
  LET customers == {g \in Customers : customer'[g] # NoCustomer}
      contacts  == {x \in Contacts : contact'[x] # NoContact} IN
  /\ visitor' = visitor =>
       /\ Cardinality(customers) < 2
       /\ \A g \in Customers : \/ customer'[g].has = customer[g].has
                                \/ (customer'[g].has = AnnSpoken /\ Taken = {})
       /\ \A x \in contacts : \/ contact'[x] = contact[x]
                               \/ (contact'[x].has = AnnSpoken /\ (Taken = {} \/ contact[x] # NoContact))
  /\ Cardinality(customers) = 2 => \A v \in Visitors : visitor'[v].gave # AnnSpoken
  /\ Cardinality(contacts) <= 2

Next ==
  \/ /\ part = "directory" /\ DirectoryNext /\ FewMarks
     /\ UNCHANGED <<part, bookingVars, listingVars, conversationVars, caseVars>>
  \/ /\ part = "bookings" /\ BookingNext /\ FewBookings
     /\ UNCHANGED <<part, directoryVars, listingVars, conversationVars, caseVars>>
  \/ /\ part = "listings" /\ ListingNext
     /\ UNCHANGED <<part, directoryVars, bookingVars, conversationVars, caseVars>>
  \/ /\ part = "conversations" /\ ConversationNext
     /\ UNCHANGED <<part, directoryVars, bookingVars, listingVars, caseVars>>
  \/ /\ part = "casework" /\ CaseNext
     /\ UNCHANGED <<part, directoryVars, bookingVars, listingVars, conversationVars>>

Spec == Init /\ [][Next]_vars

TypeOK == /\ DirectoryTypeOK /\ BookingTypeOK /\ ListingTypeOK
          /\ ConversationTypeOK /\ CaseTypeOK

(* Contacts, Lines and Results have the elements of Rows, Visitors, Posts  *)
(* and Hands those of Tellers.                                             *)
Symmetry == Permutations(Rows) \cup Permutations(Tellers)
=============================================================================
