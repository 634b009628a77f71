------------------------------- MODULE Billing -------------------------------
(***************************************************************************)
(* Invoices, their items and the payments on them: billing.service.ts.     *)
(*                                                                         *)
(* A member of Calls is one request in flight.  A request reads the row it *)
(* changes, then opens a transaction at PostgreSQL's default isolation,    *)
(* READ COMMITTED: it writes the row and holds its lock, reads the items   *)
(* and the payments of every invoice it recalculates, one query at a time, *)
(* each seeing what is committed by then and its own write, and stores the *)
(* totals.  Storing them is the transaction's last statement, so it is one *)
(* step with the commit.                                                   *)
(*                                                                         *)
(* Prices and payments are in cents, quantities in hundredths; a sum that  *)
(* carries tax is in hundredths of a cent until toFixed(2) rounds it.  The *)
(* code adds binary fractions of a dollar: what it adds may miss the exact *)
(* sum by far less than that unit, which tells only where two sums that    *)
(* are equal are compared (Due).                                           *)
(*                                                                         *)
(* One record holds the columns of items and of payments; each kind leaves *)
(* the other's at None or 0.                                               *)
(***************************************************************************)
EXTENDS Integers, FiniteSets, Functions

CONSTANTS
  Invoices, Items, Payments,  \* rows that may be created
  Calls,                      \* requests that may be in flight together
  Quantities, Prices, Rates,  \* of an item; Rates in percent
  Amounts,                    \* of a payment
  StatusInputs,               \* invoice statuses a clerk may write
  None                        \* null, or a column that an edit leaves alone

InvoiceStatus == {"DRAFT", "SENT", "PARTIALLY_PAID", "PAID", "OVERDUE", "VOID",
                  "CANCELLED"}
PaymentStatus == {"PENDING", "SUCCEEDED", "FAILED", "REFUNDED", "CANCELLED"}

ASSUME BillingAssumption ==
  /\ IsFiniteSet(Items) /\ IsFiniteSet(Payments)
  /\ Items \cap Payments = {} /\ Items \cap Invoices = {}
  /\ Quantities \cup Prices \cup Rates \cup Amounts \subseteq Nat
  /\ StatusInputs \subseteq InvoiceStatus
  /\ None \notin Invoices \cup Nat /\ None \notin PaymentStatus

VARIABLES
  row,      \* InvoiceItem and Payment rows; Absent while there is none
  invoice,  \* Invoice rows; NoInvoice while there is none
  call,     \* per request: what it has read and written so far
  exact     \* history: last computed by a request no other overlapped

vars == <<row, invoice, call, exact>>

Rows == Items \cup Payments

InvoiceRow ==  \* "by": who wrote the status last (history)
  [status : InvoiceStatus \cup {"ABSENT"}, total : Nat, amountPaid : Nat,
   balanceDue : Nat, by : {"request", "recalculation"}]
NoInvoice ==
  [status |-> "ABSENT", total |-> 0, amountPaid |-> 0, balanceDue |-> 0,
   by |-> "request"]
ItemRow ==
  [there : {TRUE}, invoice : Invoices, quantity : Quantities, unitPrice : Prices,
   taxRate : Rates, lineTotal : Nat, status : {None}, amount : {0}]
PaymentRow ==
  [there : {TRUE}, invoice : Invoices \cup {None}, quantity : {0}, unitPrice : {0},
   taxRate : {0}, lineTotal : {0}, status : PaymentStatus, amount : Amounts]
Absent ==
  [there |-> FALSE, invoice |-> None, quantity |-> 0, unitPrice |-> 0, taxRate |-> 0,
   lineTotal |-> 0, status |-> None, amount |-> 0]

\* What a request sets of a row; "there" is FALSE if it deletes the row.
Edit ==
  [there : BOOLEAN, invoice : Invoices \cup {None}, quantity : Nat \cup {None},
   unitPrice : Nat \cup {None}, taxRate : Nat \cup {None}, lineTotal : Nat \cup {None},
   status : PaymentStatus \cup {None}, amount : Nat \cup {None}]
Blank ==
  [there |-> TRUE, invoice |-> None, quantity |-> None, unitPrice |-> None,
   taxRate |-> None, lineTotal |-> None, status |-> None, amount |-> None]

Figures == Invoices \X {"items", "payments"}
Idle ==
  [stage |-> "idle", row |-> None, new |-> Absent, invoices |-> {}, todo |-> {},
   figures |-> [q \in Figures |-> 0], alone |-> FALSE, sends |-> None, seen |-> "ABSENT"]

Exists(i) == invoice[i].status # "ABSENT"

\* toFixed(2) of an amount in hundredths of a cent.
Round(x) == (x + 50) \div 100

Init ==
  /\ row     = [x \in Rows |-> Absent]
  /\ invoice = [i \in Invoices |-> NoInvoice]
  /\ call    = [c \in Calls |-> Idle]
  /\ exact   = [x \in Invoices \cup Items |-> TRUE]

-----------------------------------------------------------------------------
\* Invoices.
CreateInvoice(i) ==
  /\ ~Exists(i)
  /\ \E s \in StatusInputs :
       invoice' = [invoice EXCEPT ![i] =
         [NoInvoice EXCEPT !.status = s]]
  /\ UNCHANGED <<row, call, exact>>

SetStatus(i, s) ==
  invoice' = [invoice EXCEPT ![i].status = s, ![i].by = "request"]

UpdateInvoice(i) ==
  /\ Exists(i)
  /\ \E s \in StatusInputs : SetStatus(i, s)
  /\ UNCHANGED <<row, call, exact>>

CancelInvoice(i) ==
  /\ Exists(i)
  /\ SetStatus(i, "CANCELLED")
  /\ UNCHANGED <<row, call, exact>>

\* sendInvoice reads the status and, in a later transaction, writes it back.
ReadToSend(c, i) ==
  /\ call[c] = Idle /\ Exists(i)
  /\ call' = [call EXCEPT ![c] =
       [Idle EXCEPT !.stage = "sending", !.sends = i, !.seen = invoice[i].status]]
  /\ UNCHANGED <<row, invoice, exact>>

SendInvoice(c) ==
  /\ call[c].stage = "sending"
  /\ SetStatus(call[c].sends,
               IF call[c].seen = "DRAFT" THEN "SENT" ELSE call[c].seen)
  /\ call' = [call EXCEPT ![c] = Idle]
  /\ UNCHANGED <<row, exact>>

-----------------------------------------------------------------------------
\* Items and payments.
Changing(c) == call[c].stage \in {"read", "totalling"}
InUse(x)    == \E c \in Calls : Changing(c) /\ call[c].row = x
Locked(x)   == \E c \in Calls : call[c].stage = "totalling" /\ call[c].row = x

\* The other requests that change row x or recalculate one of these invoices.
Overlapping(c, x, invoices) ==
  {d \in Calls \ {c} :
     Changing(d) /\ (call[d].row = x \/ call[d].invoices \cap invoices # {})}

\* A request begins: those it overlaps with are no longer alone.  "invoices"
\* are the ones it will recalculate.
Begin(c, begun) ==
  LET others == Overlapping(c, begun.row, begun.invoices)
  IN  call' = [d \in Calls |->
                 IF d = c THEN [begun EXCEPT !.alone = others = {}]
                 ELSE IF d \in others THEN [call[d] EXCEPT !.alone = FALSE]
                 ELSE call[d]]

\* One item query and one payment query per invoice to recalculate.
Queries(invoices) == invoices \X {"items", "payments"}

\* A new row, under an identifier no other request can know yet; the insert is
\* the first statement that matters.
Insert(c, x, new) ==
  /\ call[c] = Idle
  /\ row[x] = Absent /\ ~InUse(x)
  /\ LET invoices == {new.invoice} \ {None}
     IN  Begin(c, [Idle EXCEPT !.stage = "totalling", !.row = x, !.new = new,
                               !.invoices = invoices, !.todo = Queries(invoices)])
  /\ UNCHANGED <<row, invoice, exact>>

calculateLineTotal(quantity, unitPrice) == Round(quantity * unitPrice)

AddInvoiceItem(c, x) ==
  \E i \in Invoices, q \in Quantities, p \in Prices, r \in Rates :
    /\ Exists(i)
    /\ Insert(c, x, [Absent EXCEPT !.there = TRUE, !.invoice = i, !.quantity = q,
                       !.unitPrice = p, !.taxRate = r,
                       !.lineTotal = calculateLineTotal(q, p)])

CreatePayment(c, y) ==
  \E i \in Invoices \cup {None}, s \in {"PENDING", "SUCCEEDED"}, a \in Amounts :
    /\ i # None => Exists(i)
    /\ Insert(c, y, [Absent EXCEPT !.there = TRUE, !.invoice = i, !.status = s,
                                   !.amount = a])

\* The row once the edit is written to it.
Given(new, old) == IF new = None THEN old ELSE new
Edited(old, edit) ==
  IF edit.there
  THEN [there |-> TRUE, invoice |-> Given(edit.invoice, old.invoice),
        quantity |-> Given(edit.quantity, old.quantity),
        unitPrice |-> Given(edit.unitPrice, old.unitPrice),
        taxRate |-> Given(edit.taxRate, old.taxRate),
        lineTotal |-> Given(edit.lineTotal, old.lineTotal),
        status |-> Given(edit.status, old.status),
        amount |-> Given(edit.amount, old.amount)]
  ELSE Absent

\* A change to an existing row begins by reading it, outside the transaction.
Read(c, x, edit, invoices) ==
  /\ call[c] = Idle
  /\ row[x].there
  /\ Begin(c, [Idle EXCEPT !.stage = "read", !.row = x, !.new = edit,
                           !.invoices = invoices \ {None}])
  /\ UNCHANGED <<row, invoice, exact>>

\* Mutant of PricedEdit: the line total of an edited quantity is forgotten.
PricedEditForgetful(current, edit) ==
  IF edit.unitPrice = None THEN edit
  ELSE [edit EXCEPT !.lineTotal = calculateLineTotal(current.quantity, edit.unitPrice)]

\* updateInvoiceItem prices the line from the edit and the row as first read.
PricedEdit(current, edit) ==
  [edit EXCEPT !.lineTotal =
     calculateLineTotal(Given(edit.quantity, current.quantity),
                        Given(edit.unitPrice, current.unitPrice))]

ItemEdits ==
  {[Blank EXCEPT !.quantity = q] : q \in Quantities}
    \cup {[Blank EXCEPT !.unitPrice = p] : p \in Prices}
    \cup {[Blank EXCEPT !.taxRate = r] : r \in Rates}

UpdateInvoiceItem(c, x) ==
  \E edit \in ItemEdits :
    Read(c, x, PricedEdit(row[x], edit), {row[x].invoice})

DeleteInvoiceItem(c, x) ==
  Read(c, x, [Blank EXCEPT !.there = FALSE], {row[x].invoice})

\* Mutant of InvoicesOfPayment: only the invoice named in the request.
InvoicesOfPaymentNew(current, edit) == {Given(edit.invoice, current.invoice)}

\* A moved payment recalculates the invoice it left and the one it joined.
InvoicesOfPayment(current, edit) == {current.invoice, edit.invoice}

PaymentEdits ==
  {[Blank EXCEPT !.invoice = i] : i \in {i \in Invoices : Exists(i)}}
    \cup {[Blank EXCEPT !.amount = a] : a \in Amounts}
    \cup {[Blank EXCEPT !.status = s] : s \in {"SUCCEEDED", "REFUNDED"}}

UpdatePayment(c, y) ==
  \E edit \in PaymentEdits :
    Read(c, y, edit, InvoicesOfPayment(row[y], edit))

CancelPayment(c, y) ==
  Read(c, y, [Blank EXCEPT !.status = "CANCELLED"], {row[y].invoice})

\* The transaction's first statement: it waits for the row's lock.
WriteRow(c) ==
  LET x == call[c].row IN
  /\ call[c].stage = "read"
  /\ ~Locked(x)
  /\ row[x].there   \* deleted meanwhile: see Fail
  /\ call' = [call EXCEPT ![c].stage = "totalling",
                          ![c].new = Edited(row[x], call[c].new),
                          ![c].todo = Queries(call[c].invoices)]
  /\ UNCHANGED <<row, invoice, exact>>

-----------------------------------------------------------------------------
\* recalculateInvoiceTotals.
ItemsOf(rows, i)    == {x \in Items : rows[x].there /\ rows[x].invoice = i}
PaymentsOf(rows, i) == {y \in Payments : rows[y].there /\ rows[y].invoice = i}

\* Subtotal and tax, in hundredths of a cent.
Charged(rows, i) ==
  SumFunction([x \in ItemsOf(rows, i) |->
                 rows[x].lineTotal * (100 + rows[x].taxRate)])

Paid(rows, i) ==
  LET succeeded == {y \in PaymentsOf(rows, i) : rows[y].status = "SUCCEEDED"}
  IN  SumFunction([y \in succeeded |-> rows[y].amount])

\* The rows as c's transaction sees them.
View(c) == [row EXCEPT ![call[c].row] = call[c].new]

\* What a query answers.
Figure(rows, query) ==
  IF query[2] = "items" THEN Charged(rows, query[1]) ELSE Paid(rows, query[1])

ReadFigure(c) ==
  /\ call[c].stage = "totalling"
  /\ \E query \in call[c].todo :
       call' = [call EXCEPT ![c].todo = @ \ {query},
                            ![c].figures[query] = Figure(View(c), query)]
  /\ UNCHANGED <<row, invoice, exact>>

\* Mutant of Due: an overpayment makes it negative.
DueSigned(charged, paid, residue) == charged - 100 * paid

\* What is left to pay, in hundredths of a cent.  Of an invoice paid to the cent
\* it need not be zero: 0.1 + 0.2 - 0.3 leaves a residue, which counts as 1 here
\* and is less.  Whether it does depends on the figures and the order the rows
\* are added in.
Due(charged, paid, residue) ==
  IF charged > 100 * paid THEN charged - 100 * paid
  ELSE IF charged = 100 * paid THEN residue
  ELSE 0

\* Mutants of resolveInvoiceStatus: any payment settles a charged invoice; and
\* a balance of zero does not settle it.
resolveInvoiceStatusEager(total, amountPaid, balanceDue) ==
  IF total > 0 /\ amountPaid > 0 THEN "PAID" ELSE "undefined"
resolveInvoiceStatusStrict(total, amountPaid, balanceDue) ==
  IF amountPaid > 0 THEN "PARTIALLY_PAID" ELSE "undefined"

\* From the figures before rounding; "undefined" leaves the column alone.
resolveInvoiceStatus(total, amountPaid, balanceDue) ==
  IF total > 0 /\ balanceDue <= 0 THEN "PAID"
  ELSE IF amountPaid > 0 THEN "PARTIALLY_PAID"
  ELSE "undefined"

\* The invoice row once charged and paid are stored in it.
Recalculated(current, charged, paid, residue) ==
  LET due    == Due(charged, paid, residue)
      status == resolveInvoiceStatus(charged, paid, due)
  IN  [status |-> IF status = "undefined" THEN current.status ELSE status,
       total |-> Round(charged), amountPaid |-> paid, balanceDue |-> Round(due),
       by |-> IF status = "undefined" THEN current.by ELSE "recalculation"]

\* The totals are stored and the transaction commits.  A payment moved since it
\* was first read may touch an invoice the request does not recalculate.
Commit(c) ==
  LET x       == call[c].row
      figures == call[c].figures
      moved   == {row[x].invoice, call[c].new.invoice} \ {None}
      judged  == call[c].invoices \cup moved \cup ({x} \cap Items)
  IN
  /\ call[c].stage = "totalling" /\ call[c].todo = {}
  /\ row'     = View(c)
  /\ \E residue \in [call[c].invoices -> 0..1] :
       invoice' = [i \in Invoices |->
         IF i \in call[c].invoices
         THEN Recalculated(invoice[i], figures[<<i, "items">>],
                           figures[<<i, "payments">>], residue[i])
         ELSE invoice[i]]
  /\ exact' = [z \in DOMAIN exact |->
       IF z \in judged THEN call[c].alone ELSE exact[z]]
  /\ call' = [d \in Calls |->
       IF d = c THEN Idle
       ELSE IF d \in Overlapping(c, x, moved) THEN [call[d] EXCEPT !.alone = FALSE]
       ELSE call[d]]

\* The row is gone, a deadlock, a lost connection, a crash: all is rolled back.
Fail(c) ==
  /\ call[c] # Idle
  /\ call' = [call EXCEPT ![c] = Idle]
  /\ UNCHANGED <<row, invoice, exact>>

Next ==
  \/ \E i \in Invoices : CreateInvoice(i) \/ UpdateInvoice(i) \/ CancelInvoice(i)
  \/ \E c \in Calls, i \in Invoices : ReadToSend(c, i)
  \/ \E c \in Calls, x \in Items :
       AddInvoiceItem(c, x) \/ UpdateInvoiceItem(c, x) \/ DeleteInvoiceItem(c, x)
  \/ \E c \in Calls, y \in Payments :
       CreatePayment(c, y) \/ UpdatePayment(c, y) \/ CancelPayment(c, y)
  \/ \E c \in Calls :
       SendInvoice(c) \/ WriteRow(c) \/ ReadFigure(c) \/ Commit(c) \/ Fail(c)

Spec == Init /\ [][Next]_vars

-----------------------------------------------------------------------------
Call ==
  [stage : {"idle", "sending", "read", "totalling"}, row : Rows \cup {None}, new : Edit,
   invoices : SUBSET Invoices, todo : SUBSET Figures, figures : [Figures -> Nat],
   alone : BOOLEAN, sends : Invoices \cup {None}, seen : InvoiceStatus \cup {"ABSENT"}]

TypeOK ==
  /\ row \in [Rows -> ItemRow \cup PaymentRow \cup {Absent}]
  /\ \A x \in Items : row[x] \in ItemRow \cup {Absent}
  /\ \A y \in Payments : row[y] \in PaymentRow \cup {Absent}
  /\ invoice \in [Invoices -> InvoiceRow]
  /\ call \in [Calls -> Call]
  /\ exact \in [Invoices \cup Items -> BOOLEAN]

\* Whatever overlapped before, once a request that had an invoice to itself has
\* recalculated it, the stored totals are those of its items and payments;
\* only overlapping requests can make them drift.
TotalsExact ==
  \A i \in Invoices : Exists(i) /\ exact[i] =>
    /\ invoice[i].total = Round(Charged(row, i))
    /\ invoice[i].amountPaid = Paid(row, i)
    /\ invoice[i].balanceDue = Round(Due(Charged(row, i), Paid(row, i), 0))

\* A line shows quantity times unit price, unless two edits of it overlapped.
LinesPriced ==
  \A x \in Items : row[x].there /\ exact[x] =>
    row[x].lineTotal = calculateLineTotal(row[x].quantity, row[x].unitPrice)

\* When the totals are not the product of an overlap, an invoice the
\* recalculation marked PAID shows no balance, or every payment on it has been
\* taken back since: recalculating never withdraws PAID from an unpaid invoice.
PaidIsSettledOrTakenBack ==
  \A i \in Invoices :
    Exists(i) /\ exact[i] /\ invoice[i].status = "PAID"
      /\ invoice[i].by = "recalculation"
    => invoice[i].balanceDue = 0 \/ invoice[i].amountPaid = 0

\* The last recalculation's status tells how the payments compare with the
\* charges by now, overlapping requests apart: an invoice paid for more than was
\* charged is PAID, one paid for less, were it by a fraction of a cent that the
\* stored balance does not show, is PARTIALLY_PAID.  Of one paid to the cent
\* nothing can be said: the residue of binary sums leaves it either way.
StatusFollowsMoney ==
  \A i \in Invoices :
    LET charged == Charged(row, i)
        paid    == 100 * Paid(row, i)
    IN
    /\ Exists(i) /\ exact[i] /\ invoice[i].by = "recalculation"
    /\ charged > 0 /\ paid > 0
    => /\ charged < paid => invoice[i].status = "PAID"
       /\ charged > paid => invoice[i].status = "PARTIALLY_PAID"
=============================================================================
