------------------------------ MODULE MCBilling ------------------------------
(***************************************************************************)
(* A small instance of Billing for TLC.                                    *)
(***************************************************************************)
EXTENDS Billing, TLC

(* Items are on the only invoice there is and only that one is sent;       *)
(* payments move between two.                                              *)
ItemsOnOneInvoice ==
  \/ \E i \in Invoices : \A j \in Invoices \ {i} : invoice'[j] = NoInvoice
  \/ /\ \A c \in Calls : call'[c] = Idle \/ (Changing(c)' /\ call'[c].row \notin Items)
     /\ \A x \in Items : row'[x] = Absent /\ exact'[x]

(* To the totals a payment that is pending or refunded is what a cancelled *)
(* one is.                                                                 *)
SucceededOrCancelled ==
  \A c \in Calls : call'[c].new.status \notin {"PENDING", "REFUNDED"}

(* An edit would change the row it has read.                               *)
NoEmptyEdits ==
  \A c \in Calls :
    call[c] = Idle /\ call'[c].stage = "read"
      => Edited(row[call'[c].row], call'[c].new) # row[call'[c].row]

MCSpec ==
  Init /\ [][Next /\ ItemsOnOneInvoice /\ SucceededOrCancelled /\ NoEmptyEdits]_vars

(* Invoices, items, payments and requests are interchangeable.             *)
Symmetry ==
  Permutations(Invoices) \cup Permutations(Items)
    \cup Permutations(Payments) \cup Permutations(Calls)
=============================================================================
