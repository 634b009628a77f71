----------------------------- MODULE Numbering -----------------------------
(***************************************************************************)
(* The numbers of service requests, work orders, contracts, invoices and   *)
(* payments, and the slugs of workspaces.  A create counts the rows of the *)
(* month, probes from there to a number that is free, and inserts under a  *)
(* unique index: three queries, and whoever inserts first between them     *)
(* takes the number.  A slug is probed from the bare name upward.          *)
(*                                                                         *)
(* Requests, work orders and payments do so inside a transaction, and ask  *)
(* for the number over the service's own client, not the transaction's:    *)
(* such a create holds one connection of the pool while it waits for       *)
(* another.  Only a public booking asks over its transaction.  Prisma's    *)
(* time limits, and its pool, are external.                                *)
(***************************************************************************)
EXTENDS Integers, FiniteSets

CONSTANTS
  Calls,   \* creates under way
  Pool,    \* connections of the process
  Typed,   \* numbers a caller may name; 0 is the empty text
  MaxRows  \* bound on the rows of a table

ASSUME NumberingAssumption ==
  /\ IsFiniteSet(Calls) /\ Pool \in Nat \ {0} /\ Typed \subseteq Nat /\ MaxRows \in Nat

VARIABLES
  numbers, \* per table: the numbers in use
  call     \* the calls under way

numberVars == <<numbers, call>>

Tables   == {"request", "order", "contract", "invoice", "payment", "workspace"}
Generate == -1
(* tx: inserts inside a transaction; own: asks for the number over it.     *)
(* raced: since the probe another call stored the number this one will.    *)
Ended == [op |-> "idle", table |-> "request", number |-> Generate, tx |-> FALSE,
          own |-> FALSE, typed |-> FALSE, raced |-> FALSE]

NumberingTypeOK ==
  /\ numbers \in [Tables -> SUBSET Nat]
  /\ call \in [Calls -> [op : {"idle", "refused", "begin", "count", "probe", "insert"},
                         table : Tables, number : Nat \cup {Generate}, tx : BOOLEAN,
                         own : BOOLEAN, typed : BOOLEAN, raced : BOOLEAN]]
  /\ \A c \in Calls : call[c].op \in {"probe", "insert"} => call[c].number \in Nat

NumberingInit ==
  /\ numbers = [t \in Tables |-> {}]
  /\ call = [c \in Calls |-> Ended]

-----------------------------------------------------------------------------
UnderWay(c) == call[c].op \notin {"idle", "refused"}
Holders == {c \in Calls : call[c].tx /\ call[c].op \in {"count", "probe", "insert"}}
Free    == Cardinality(Holders) < Pool
(* Who cannot take the next step without a connection of the pool.         *)
Asks(c) == \/ call[c].op = "begin"
           \/ call[c].op \in {"count", "probe"} /\ ~call[c].own
           \/ call[c].op = "insert" /\ ~call[c].tx
Connected(c) == Asks(c) => Free

Numbered(rec) == IF rec.number = Generate THEN "count" ELSE "insert"

Admit(c, rec) ==
  /\ ~UnderWay(c)
  /\ Cardinality(numbers[rec.table]) + Cardinality({d \in Calls : UnderWay(d)}) < MaxRows
  /\ call' = [call EXCEPT ![c] = rec]
  /\ UNCHANGED numbers

Start(c, table, number, tx) ==
  LET rec == [Ended EXCEPT !.table = table, !.number = number, !.tx = tx,
                           !.typed = number # Generate] IN
  Admit(c, [rec EXCEPT !.op = IF tx THEN "begin" ELSE Numbered(rec)])

createRequest(c)      == Start(c, "request", Generate, TRUE)
convertToWorkOrder(c) == Start(c, "order", Generate, TRUE)
createWorkOrder(c)    == Start(c, "order", Generate, TRUE)
(* The empty text is no contract number, but it is one of an invoice or a  *)
(* payment: "||" there, "??" here.                                         *)
createContract(c, number) ==
  Start(c, "contract", IF number = 0 THEN Generate ELSE number, FALSE)
createInvoice(c, number) == Start(c, "invoice", number, FALSE)
createPayment(c, number) == Start(c, "payment", number, TRUE)

createBooking(c) ==
  Admit(c, [Ended EXCEPT !.op = "begin", !.table = "request", !.tx = TRUE, !.own = TRUE])

(* All workspaces of one name: the bare slug is number 1, the next has 2   *)
(* for a suffix.  It is probed before the transaction.                     *)
createWorkspace(c) ==
  Admit(c, [Ended EXCEPT !.op = "probe", !.table = "workspace", !.number = 1])
signUp(c) == createWorkspace(c)

begin(c) ==
  /\ call[c].op = "begin" /\ Connected(c)
  /\ call' = [call EXCEPT ![c].op = Numbered(call[c])]
  /\ UNCHANGED numbers

-----------------------------------------------------------------------------
(* One query each.  Numbers are those of the month, in its form, and the   *)
(* empty text, which is not counted.                                       *)
Count(c) ==
  /\ call[c].op = "count" /\ Connected(c)
  /\ call' = [call EXCEPT ![c].op = "probe",
                          ![c].number = Cardinality(numbers[call[c].table] \ {0}) + 1]

\* Mutant of Probe: the number after the count is taken as it is.
ProbeNothing(c) ==
  /\ call[c].op = "probe" /\ Connected(c)
  /\ call' = [call EXCEPT ![c].op = "insert"]

\* Mutant of Probe: the sequence is not counted up.
ProbeAgain(c) ==
  /\ call[c].op = "probe" /\ Connected(c) /\ call[c].number \notin numbers[call[c].table]
  /\ call' = [call EXCEPT ![c].op = "insert"]

Probe(c) ==
  /\ call[c].op = "probe" /\ Connected(c)
  /\ call' = IF call[c].number \in numbers[call[c].table]
             THEN [call EXCEPT ![c].number = @ + 1]
             ELSE [call EXCEPT ![c].op = "insert"]

Generates(c, table) ==
  call[c].table = table /\ (Count(c) \/ Probe(c)) /\ UNCHANGED numbers

generateRequestNumber(c)   == Generates(c, "request")
generateWorkOrderNumber(c) == Generates(c, "order")
generateContractNumber(c)  == Generates(c, "contract")
generateInvoiceNumber(c)   == Generates(c, "invoice")
generatePaymentNumber(c)   == Generates(c, "payment")
createUniqueWorkspaceSlug(c) == Generates(c, "workspace")

(* A call that found number n of table t free is too late.                 *)
Raced(d, t, n) ==
  IF call[d].op = "insert" /\ call[d].table = t /\ call[d].number = n
  THEN [call[d] EXCEPT !.raced = TRUE] ELSE call[d]

(* The insert, and with it the commit: until then the row is nobody's, and *)
(* who meets its number in the index waits for the commit.                 *)
insert(c) ==
  LET t == call[c].table
      n == call[c].number IN
  /\ call[c].op = "insert" /\ Connected(c)
  /\ numbers' = [numbers EXCEPT ![t] = @ \cup {n}]
  /\ call' = [d \in Calls |->
       IF d # c THEN Raced(d, t, n)
       ELSE IF n \in numbers[t]
       THEN [Ended EXCEPT !.op = "refused", !.typed = call[c].typed, !.raced = call[c].raced]
       ELSE Ended]

(* updateContract, updateInvoice and updatePayment may name a new number;  *)
(* the old one is free again.                                              *)
renumber(t, old, new) ==
  /\ t \in {"contract", "invoice", "payment"} /\ Free
  /\ old \in numbers[t] /\ new \notin numbers[t]
  /\ numbers' = [numbers EXCEPT ![t] = (@ \ {old}) \cup {new}]
  /\ call' = [d \in Calls |-> Raced(d, t, new)]

(* Prisma's limits on waiting for a connection and on a transaction.       *)
giveUp(c) ==
  /\ Asks(c) /\ ~Free
  /\ call' = [call EXCEPT ![c] = Ended]
  /\ UNCHANGED numbers

Proceed(c) ==
  \/ begin(c) \/ insert(c) \/ giveUp(c)
  \/ generateRequestNumber(c) \/ generateWorkOrderNumber(c) \/ generateContractNumber(c)
  \/ generateInvoiceNumber(c) \/ generatePaymentNumber(c) \/ createUniqueWorkspaceSlug(c)

NumberingNext ==
  \/ \E c \in Calls :
       \/ createRequest(c) \/ convertToWorkOrder(c) \/ createWorkOrder(c)
       \/ createBooking(c) \/ createWorkspace(c) \/ signUp(c)
       \/ \E n \in Typed \cup {Generate} :
            createContract(c, n) \/ createInvoice(c, n) \/ createPayment(c, n)
       \/ Proceed(c)
  \/ \E t \in Tables, old \in UNION {numbers[u] : u \in Tables}, new \in Typed :
       renumber(t, old, new)

(* A query is answered, or Prisma's limit strikes: no call waits for ever. *)
NumberingFairness == \A c \in Calls : WF_numberVars(Proceed(c))

NumberingSpec == NumberingInit /\ [][NumberingNext]_numberVars /\ NumberingFairness

-----------------------------------------------------------------------------
(* Counting and probing find a number that was free: a create that did not *)
(* name its number is refused only if another stored it after the probe.   *)
NumberRefusedOnlyByOverlap ==
  \A c \in Calls : call[c].op = "refused" /\ ~call[c].typed => call[c].raced

(* Every create is answered, also when all connections are held by creates *)
(* that wait for one more: then Prisma's limits break the circle.          *)
CreateEnds == \A c \in Calls : UnderWay(c) ~> ~UnderWay(c)
=============================================================================
