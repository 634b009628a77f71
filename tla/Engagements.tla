---------------------------- MODULE Engagements ----------------------------
(***************************************************************************)
(* Contracts and service requests as sheets of priced lines for facilities *)
(* of a customer: contracts.service.ts, the request, its items and its     *)
(* estimate in service-requests.service.ts, and the facilities a customer  *)
(* owns (customers.service.ts).                                            *)
(*                                                                         *)
(* A contract covers any number of facilities and its lines are contract   *)
(* services; a service request is for at most one and its lines are items. *)
(* A member of Desks is a call that has read and not yet written.          *)
(***************************************************************************)
EXTENDS Integers, FiniteSets, Functions

CONSTANTS
  Customers, Facilities, Sheets, Lines, Desks,
  Amounts,      \* price times quantity of a line
  StatusInputs, \* bound: the contract statuses callers write
  None          \* null, or: not given

ContractStatus == {"DRAFT", "ACTIVE", "PAUSED", "EXPIRED", "TERMINATED", "RENEWAL_PENDING"}

ASSUME EngagementsAssumption ==
  /\ Amounts \subseteq Nat /\ StatusInputs \subseteq ContractStatus
  /\ None \notin Amounts \cup Customers \cup Facilities \cup Sheets \cup Lines

VARIABLES
  owner,   \* per facility: its customer, None while there is no row
  sheet,   \* per contract or request: its row
  covers,  \* <<sheet, facility>>: contract facilities, a request's facility
  line,    \* per line: its row
  desk,    \* the calls under way
  moved,   \* history: facilities and sheets given another customer
  basis,   \* history, per sheet: where the total comes from
  checked  \* history: contracts activated by updateStatus, nothing removed since

engagementVars == <<owner, sheet, covers, line, desk, moved, basis, checked>>

NoSheet == [kind |-> "none", status |-> "NONE", customer |-> None, ended |-> FALSE, total |-> None]
NoLine  == [sheet |-> None, amount |-> None, active |-> FALSE]
Free    == [op |-> "idle", sheet |-> None, line |-> None, facility |-> None,
            customer |-> None, total |-> None, row |-> NoLine, missed |-> FALSE]

Contract(k) == sheet[k].kind = "contract"
Request(k)  == sheet[k].kind = "request"

(* The amounts of the active priced lines of sheet k, and their sum: null  *)
(* when there is none.                                                     *)
Prices(k, rows) ==
  [y \in {y \in Lines : rows[y].sheet = k /\ rows[y].active /\ rows[y].amount # None}
     |-> rows[y].amount]
TotalOf(prices) == IF DOMAIN prices = {} THEN None ELSE SumFunction(prices)

(* A total is null, typed by a caller, or the sum of some lines.           *)
Total == {None} \cup Amounts
           \cup {TotalOf(prices) : prices \in UNION {[some -> Amounts] : some \in SUBSET Lines}}
Sheet == [kind : {"none", "contract", "request"}, status : ContractStatus \cup {"NONE"},
          customer : Customers \cup {None}, ended : BOOLEAN, total : Total]
Line  == [sheet : Sheets \cup {None}, amount : Amounts \cup {None}, active : BOOLEAN]
Call  == [op : {"idle", "create", "update", "cover", "activate", "recalculate"},
          sheet : Sheets \cup {None}, line : Lines \cup {None},
          facility : Facilities \cup {None}, customer : Customers \cup {None},
          total : Total, row : Line, missed : BOOLEAN]

EngagementTypeOK ==
  /\ owner \in [Facilities -> Customers \cup {None}]
  /\ sheet \in [Sheets -> Sheet]
  /\ covers \subseteq Sheets \X Facilities
  /\ line \in [Lines -> Line]
  /\ desk \in [Desks -> Call]
  /\ moved \subseteq Facilities \cup Sheets
  /\ basis \in [Sheets -> {"typed", "summed", "stale"}]
  /\ checked \subseteq Sheets
  \* a request is for one facility, and only a contract has a status here
  /\ \A k \in Sheets : /\ Contract(k) <=> sheet[k].status # "NONE"
                       /\ Request(k) => Cardinality({f \in Facilities : <<k, f>> \in covers}) <= 1

EngagementInit ==
  /\ owner = [f \in Facilities |-> None]
  /\ sheet = [k \in Sheets |-> NoSheet]
  /\ covers = {} /\ moved = {} /\ checked = {}
  /\ line = [x \in Lines |-> NoLine]
  /\ desk = [d \in Desks |-> Free]
  /\ basis = [k \in Sheets |-> "typed"]

-----------------------------------------------------------------------------
Begin(d, call) == desk[d] = Free /\ desk' = [desk EXCEPT ![d] = call]
(* A field that is not given is left alone.                                *)
\* Mutant of Given: it is written all the same.
GivenOrNull(new, old) == new

Given(new, old) == IF new = None THEN old ELSE new

(* Who is at work on sheet k with operation op has missed a change of it.  *)
End(d, k, op) ==
  desk' = [e \in Desks |->
    IF e = d THEN Free
    ELSE IF desk[e].op = op /\ desk[e].sheet = k THEN [desk[e] EXCEPT !.missed = TRUE] ELSE desk[e]]

(* Facilities: created for a customer, given to another unasked.           *)
createFacility(f, c) ==
  /\ owner[f] = None /\ owner' = [owner EXCEPT ![f] = c]
  /\ UNCHANGED <<sheet, covers, line, desk, moved, basis, checked>>

updateFacility(f, c) ==
  /\ owner[f] \notin {None, c} /\ owner' = [owner EXCEPT ![f] = c]
  /\ moved' = moved \cup {f}
  /\ UNCHANGED <<sheet, covers, line, desk, basis, checked>>

-----------------------------------------------------------------------------
(* Contracts.  create and update write any status and any total.           *)
createContract(k, c, status, ended, total) ==
  /\ sheet[k] = NoSheet
  /\ sheet' = [sheet EXCEPT ![k] = [kind |-> "contract", status |-> status, customer |-> c,
                                    ended |-> ended, total |-> total]]
  /\ UNCHANGED <<owner, covers, line, desk, moved, basis, checked>>

updateContract(k, c, status, ended, total) ==
  /\ Contract(k)
  /\ sheet' = [sheet EXCEPT ![k].customer = Given(c, @), ![k].status = Given(status, @),
                            ![k].ended = ended, ![k].total = Given(total, @)]
  /\ moved' = IF c \in {None, sheet[k].customer} THEN moved ELSE moved \cup {k}
  /\ basis' = IF total = None THEN basis ELSE [basis EXCEPT ![k] = "typed"]
  /\ checked' = IF status = None THEN checked ELSE checked \ {k}
  /\ UNCHANGED <<owner, covers, line, desk>>

(* The end date passes; nothing in the code looks at a running contract.   *)
Elapse(k) ==
  /\ Contract(k) /\ sheet' = [sheet EXCEPT ![k].ended = TRUE]
  /\ UNCHANGED <<owner, covers, line, desk, moved, basis, checked>>

LinesOf(k)    == {x \in Lines : line[x].sheet = k}
ActiveLines(k) == {x \in LinesOf(k) : line[x].active}

(* Activation is checked against the rows of the moment ...                *)
\* Mutant of countForActivation: services no longer active are counted too.
countAllForActivation(d, k) ==
  /\ Contract(k) /\ ~sheet[k].ended
  /\ \E f \in Facilities : <<k, f>> \in covers
  /\ LinesOf(k) # {}
  /\ Begin(d, [Free EXCEPT !.op = "activate", !.sheet = k])
  /\ UNCHANGED <<owner, sheet, covers, line, moved, basis, checked>>

countForActivation(d, k) ==
  /\ Contract(k) /\ ~sheet[k].ended
  /\ \E f \in Facilities : <<k, f>> \in covers
  /\ ActiveLines(k) # {}
  /\ Begin(d, [Free EXCEPT !.op = "activate", !.sheet = k])
  /\ UNCHANGED <<owner, sheet, covers, line, moved, basis, checked>>

(* ... and written later.  Any other status is written unchecked.          *)
activate(d) ==
  LET k == desk[d].sheet IN
  /\ desk[d].op = "activate" /\ desk' = [desk EXCEPT ![d] = Free]
  /\ sheet' = [sheet EXCEPT ![k].status = "ACTIVE"]
  /\ checked' = IF desk[d].missed THEN checked ELSE checked \cup {k}
  /\ UNCHANGED <<owner, covers, line, moved, basis>>

updateStatus(k, status) ==
  /\ Contract(k) /\ status # "ACTIVE"
  /\ sheet' = [sheet EXCEPT ![k].status = status]
  /\ checked' = checked \ {k}
  /\ UNCHANGED <<owner, covers, line, desk, moved, basis>>

(* The facility must be the customer's when both are read.                 *)
\* Mutant of addFacility: the owner of the facility is not compared.
addAnyFacility(d, k, f) ==
  /\ Contract(k) /\ owner[f] # None
  /\ Begin(d, [Free EXCEPT !.op = "cover", !.sheet = k, !.facility = f])
  /\ UNCHANGED <<owner, sheet, covers, line, moved, basis, checked>>

addFacility(d, k, f) ==
  /\ Contract(k) /\ owner[f] # None /\ owner[f] = sheet[k].customer
  /\ Begin(d, [Free EXCEPT !.op = "cover", !.sheet = k, !.facility = f])
  /\ UNCHANGED <<owner, sheet, covers, line, moved, basis, checked>>

storeFacility(d) ==
  /\ desk[d].op = "cover" /\ desk' = [desk EXCEPT ![d] = Free]
  /\ covers' = covers \cup {<<desk[d].sheet, desk[d].facility>>}
  /\ UNCHANGED <<owner, sheet, line, moved, basis, checked>>

removeFacility(k, f) ==
  /\ Contract(k) /\ <<k, f>> \in covers
  /\ covers' = covers \ {<<k, f>>} /\ checked' = checked \ {k}
  /\ End(None, k, "activate")
  /\ UNCHANGED <<owner, sheet, line, moved, basis>>

-----------------------------------------------------------------------------
(* Service requests: the facility given must belong to the customer given, *)
(* or else to the customer the request had when it was read.               *)
assertFacility(f, c) == f # None => owner[f] # None /\ owner[f] = c

createRequest(d, k, c, f, total) ==
  /\ sheet[k] = NoSheet /\ assertFacility(f, c)
  /\ Begin(d, [Free EXCEPT !.op = "create", !.sheet = k, !.customer = c, !.facility = f,
                           !.total = total])
  /\ UNCHANGED <<owner, sheet, covers, line, moved, basis, checked>>

updateRequest(d, k, c, f, total) ==
  /\ Request(k) /\ assertFacility(f, Given(c, sheet[k].customer))
  /\ Begin(d, [Free EXCEPT !.op = "update", !.sheet = k, !.customer = c, !.facility = f,
                           !.total = total])
  /\ UNCHANGED <<owner, sheet, covers, line, moved, basis, checked>>

storeRequest(d) ==
  LET k == desk[d].sheet
      f == desk[d].facility IN
  /\ desk[d].op = "create" /\ sheet[k] = NoSheet
  /\ sheet' = [sheet EXCEPT ![k] = [NoSheet EXCEPT !.kind = "request", !.total = desk[d].total,
                                                   !.customer = desk[d].customer]]
  /\ covers' = covers \cup ({k} \X ({f} \ {None}))
  /\ desk' = [desk EXCEPT ![d] = Free]
  /\ UNCHANGED <<owner, line, moved, basis, checked>>

(* A public booking that finds its facility by name, or names none, is a   *)
(* createRequest; else it creates the facility and the request together.   *)
(* The item it adds has no price.                                          *)
bookWithFacility(k, c, f) ==
  /\ sheet[k] = NoSheet /\ owner[f] = None
  /\ owner' = [owner EXCEPT ![f] = c]
  /\ sheet' = [sheet EXCEPT ![k] = [NoSheet EXCEPT !.kind = "request", !.customer = c]]
  /\ covers' = covers \cup {<<k, f>>}
  /\ UNCHANGED <<line, desk, moved, basis, checked>>

(* The facility stays when only the customer is changed.                   *)
storeUpdate(d) ==
  LET k == desk[d].sheet
      f == desk[d].facility
      c == Given(desk[d].customer, sheet[k].customer) IN
  /\ desk[d].op = "update"
  /\ sheet' = [sheet EXCEPT ![k].customer = c, ![k].total = Given(desk[d].total, @)]
  /\ covers' = IF f = None THEN covers ELSE {p \in covers : p[1] # k} \cup {<<k, f>>}
  /\ moved' = IF c # sheet[k].customer THEN moved \cup {k} ELSE moved
  /\ basis' = IF desk[d].total = None THEN basis ELSE [basis EXCEPT ![k] = "typed"]
  /\ desk' = [desk EXCEPT ![d] = Free]
  /\ UNCHANGED <<owner, line, checked>>

-----------------------------------------------------------------------------
(* Lines: createService, updateContractService, deactivateContractService, *)
(* addItem.  In one transaction the line is written and the total of its   *)
(* sheet set to the sum of the active priced lines the transaction sees:   *)
(* the committed ones and its own.                                         *)
\* Mutant of SumSeen: lines that are no longer active are summed too.
SumWritten(k, x, row) ==
  TotalOf(Prices(k, [y \in Lines |-> [(IF y = x THEN row ELSE line[y]) EXCEPT !.active = TRUE]]))

SumSeen(k, x, row) == TotalOf(Prices(k, [line EXCEPT ![x] = row]))

(* A line another transaction has written is waited for.                   *)
writeLine(d, x, row) ==
  /\ ~ \E e \in Desks : desk[e].op = "recalculate" /\ desk[e].line = x
  /\ Begin(d, [Free EXCEPT !.op = "recalculate", !.sheet = row.sheet, !.line = x,
                           !.row = row, !.total = SumSeen(row.sheet, x, row)])
  /\ UNCHANGED <<owner, sheet, covers, line, moved, basis, checked>>

createService(d, k, x, amount, active) ==
  /\ Contract(k) /\ line[x] = NoLine
  /\ writeLine(d, x, [sheet |-> k, amount |-> amount, active |-> active])

updateContractService(d, x, amount, active) ==
  /\ line[x] # NoLine /\ Contract(line[x].sheet)
  /\ writeLine(d, x, [line[x] EXCEPT !.amount = Given(amount, @), !.active = active])

addItem(d, k, x, amount) ==
  /\ Request(k) /\ line[x] = NoLine
  /\ writeLine(d, x, [sheet |-> k, amount |-> amount, active |-> TRUE])

recalculateTotal(d) ==
  LET k == desk[d].sheet
      x == desk[d].line
      dropped == line[x].active /\ ~desk[d].row.active IN
  /\ desk[d].op = "recalculate"
  /\ line' = [line EXCEPT ![x] = desk[d].row]
  /\ sheet' = [sheet EXCEPT ![k].total = desk[d].total]
  /\ basis' = [basis EXCEPT ![k] = IF desk[d].missed THEN "stale" ELSE "summed"]
  /\ checked' = IF dropped THEN checked \ {k} ELSE checked
  /\ desk' = [e \in Desks |->
       IF e = d THEN Free
       ELSE IF /\ desk[e].sheet = k
               /\ desk[e].op = "recalculate" \/ (desk[e].op = "activate" /\ dropped)
       THEN [desk[e] EXCEPT !.missed = TRUE] ELSE desk[e]]
  /\ UNCHANGED <<owner, covers, moved>>

-----------------------------------------------------------------------------
SheetSteps(k) ==
  \/ \E c \in Customers, status \in StatusInputs, ended \in BOOLEAN,
        total \in Amounts \cup {None} : createContract(k, c, status, ended, total)
  \/ \E c \in Customers \cup {None}, status \in StatusInputs \cup {None}, ended \in BOOLEAN,
        total \in Amounts \cup {None} : updateContract(k, c, status, ended, total)
  \/ Elapse(k)
  \/ \E status \in StatusInputs : updateStatus(k, status)
  \/ \E f \in Facilities : removeFacility(k, f)
  \/ \E c \in Customers, f \in Facilities : bookWithFacility(k, c, f)

DeskSteps(d) ==
  \/ \E k \in Sheets :
       \/ countForActivation(d, k)
       \/ \E f \in Facilities : addFacility(d, k, f)
       \/ \E f \in Facilities \cup {None}, total \in Amounts \cup {None} :
            \/ \E c \in Customers : createRequest(d, k, c, f, total)
            \/ \E c \in Customers \cup {None} : updateRequest(d, k, c, f, total)
       \/ \E x \in Lines, amount \in Amounts \cup {None} :
            \/ addItem(d, k, x, amount)
            \/ \E active \in BOOLEAN : createService(d, k, x, amount, active)
  \/ \E x \in Lines, amount \in Amounts \cup {None}, active \in BOOLEAN :
       updateContractService(d, x, amount, active)
  \/ activate(d) \/ storeFacility(d) \/ storeRequest(d) \/ storeUpdate(d) \/ recalculateTotal(d)

EngagementNext ==
  \/ \E f \in Facilities, c \in Customers : createFacility(f, c) \/ updateFacility(f, c)
  \/ \E k \in Sheets : SheetSteps(k)
  \/ \E d \in Desks : DeskSteps(d)

EngagementSpec == EngagementInit /\ [][EngagementNext]_engagementVars

-----------------------------------------------------------------------------
(* The total is the sum of the active priced lines, unless a caller typed  *)
(* it or the last transaction that summed had not seen another's line:     *)
(* under read committed two of them at once leave one line out.            *)
TotalExactUnlessOverlap ==
  \A k \in Sheets : basis[k] = "summed" => sheet[k].total = TotalOf(Prices(k, line))

(* A contract made ACTIVE by updateStatus has a facility and an active     *)
(* service until one is removed, which may come between the count and the  *)
(* status; create and update make it ACTIVE without either.                *)
ActiveUntilRemoval ==
  \A k \in checked : /\ sheet[k].status = "ACTIVE" /\ ActiveLines(k) # {}
                     /\ \E f \in Facilities : <<k, f>> \in covers

(* A contract or a request is for a facility of another customer only if   *)
(* the one or the other has been given to another customer: nobody looks   *)
(* at the facilities then.                                                 *)
ForeignFacilityOnlyByMove ==
  \A k \in Sheets, f \in Facilities :
    <<k, f>> \in covers /\ owner[f] # sheet[k].customer => {k, f} \cap moved # {}
=============================================================================
