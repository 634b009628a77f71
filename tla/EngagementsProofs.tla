-------------------------- MODULE EngagementsProofs --------------------------
(***************************************************************************)
(* Theorems about Engagements for every number of customers, facilities,   *)
(* sheets, lines and calls under way, checked by TLAPS.                    *)
(***************************************************************************)
EXTENDS Engagements, FiniteSetTheorems, TLAPS

\* The facility belongs to the customer, or it or the sheet has been moved.
Placed(k, f, c) == owner[f] = c \/ {k, f} \cap moved # {}

\* A total is the sum of the lines of k that the transaction on line x sees.
Sums(total, k, x, row) == total = SumSeen(k, x, row)

\* What a call under way has read still holds, unless it has missed a change.
CallSound(c) ==
  /\ c.op # "idle" => c.sheet \in Sheets
  /\ c.op = "create" => c.customer \in Customers
  /\ c.op = "update" => Request(c.sheet)
  /\ c.op \in {"cover", "activate"} => Contract(c.sheet)
  /\ c.op = "cover" => c.facility \in Facilities
  /\ c.op \in {"create", "update", "cover"} /\ c.facility # None => owner[c.facility] # None
  /\ c.op = "create" /\ c.facility # None => Placed(c.sheet, c.facility, c.customer)
  /\ c.op = "update" /\ c.facility # None =>
       Placed(c.sheet, c.facility, Given(c.customer, sheet[c.sheet].customer))
  /\ c.op = "cover" => Placed(c.sheet, c.facility, sheet[c.sheet].customer)
  /\ c.op = "activate" /\ ~c.missed =>
       ActiveLines(c.sheet) # {} /\ \E f \in Facilities : <<c.sheet, f>> \in covers
  /\ c.op = "recalculate" =>
       /\ c.line \in Lines /\ c.row.sheet = c.sheet /\ sheet[c.sheet].kind # "none"
       /\ line[c.line].sheet \in {c.sheet, None}
       /\ c.missed \/ Sums(c.total, c.sheet, c.line, c.row)

\* One transaction at a time writes a line.
LinesExclusive ==
  \A d, e \in Desks :
    desk[d].op = "recalculate" /\ desk[e].op = "recalculate" /\ desk[d].line = desk[e].line
      => d = e

\* Only what exists covers, and what exists only.
CoverSound ==
  \A k \in Sheets, f \in Facilities :
    <<k, f>> \in covers => sheet[k].kind # "none" /\ owner[f] # None

\* Nothing is summed of a sheet that is not there.
NothingSummed == \A k \in Sheets : sheet[k].kind = "none" => basis[k] = "typed"

\* A line that is there belongs to a sheet.
LinesOwned == \A x \in Lines : line[x] # NoLine => line[x].sheet \in Sheets

EngagementsInv ==
  /\ EngagementTypeOK
  /\ LinesOwned
  /\ \A d \in Desks : CallSound(desk[d])
  /\ LinesExclusive
  /\ CoverSound
  /\ NothingSummed
  /\ TotalExactUnlessOverlap
  /\ ActiveUntilRemoval
  /\ ForeignFacilityOnlyByMove

-----------------------------------------------------------------------------
\* What a call has read still holds after a step that keeps the kinds of what
\* there is, marks who and what is given another customer, and leaves it its
\* lines and, if it is to activate, something to activate.
LEMMA CallKept ==
  ASSUME NEW c \in Call, CallSound(c),
         \A k \in Sheets : sheet[k].kind # "none" => sheet'[k].kind = sheet[k].kind,
         \A k \in Sheets : sheet[k].kind # "none" =>
           sheet'[k].customer = sheet[k].customer \/ k \in moved',
         \A f \in Facilities : owner[f] # None =>
           owner'[f] # None /\ (owner'[f] = owner[f] \/ f \in moved'),
         moved \subseteq moved',
         c.op = "activate" /\ ~c.missed =>
           \/ ActiveLines(c.sheet)' # {} /\ \E f \in Facilities : <<c.sheet, f>> \in covers'
           \/ UNCHANGED <<line, covers>>,
         c.op = "recalculate" =>
           \/ UNCHANGED line
           \/ /\ line'[c.line].sheet \in {c.sheet, None}
              /\ c.missed \/ Sums(c.total, c.sheet, c.line, c.row)'
  PROVE  CallSound(c)'
  <1>1. /\ c.sheet \in Sheets \cup {None} /\ c.facility \in Facilities \cup {None}
        /\ c.missed \in BOOLEAN
    BY DEF Call
  <1>2. c.op # "idle" => c.sheet \in Sheets
    BY DEF CallSound
  <1>3. c.op \in {"update", "cover", "activate", "recalculate"} =>
          sheet'[c.sheet].kind = sheet[c.sheet].kind /\ sheet[c.sheet].kind # "none"
    BY <1>2 DEF CallSound, Request, Contract
  <1>4. c.op \in {"create", "update", "cover"} /\ c.facility # None =>
          /\ owner'[c.facility] # None
          /\ owner'[c.facility] = owner[c.facility] \/ c.facility \in moved'
    BY <1>1 DEF CallSound
  <1>5. c.op = "create" /\ c.facility # None =>
          Placed(c.sheet, c.facility, c.customer)'
    BY <1>4 DEF CallSound, Placed
  <1>6. c.op \in {"update", "cover"} =>
          sheet'[c.sheet].customer = sheet[c.sheet].customer \/ c.sheet \in moved'
    BY <1>2, <1>3
  <1>7. c.op = "update" /\ c.facility # None =>
          Placed(c.sheet, c.facility, Given(c.customer, sheet[c.sheet].customer))'
    BY <1>4, <1>6 DEF CallSound, Placed, Given
  <1>8. c.op = "cover" => c.facility # None /\ Placed(c.sheet, c.facility, sheet[c.sheet].customer)'
    BY <1>4, <1>6, EngagementsAssumption DEF CallSound, Placed
  <1>9. c.op = "activate" /\ ~c.missed =>
          ActiveLines(c.sheet)' # {} /\ \E f \in Facilities : <<c.sheet, f>> \in covers'
    BY DEF CallSound, ActiveLines, LinesOf
  <1>10. c.op = "recalculate" =>
           /\ line'[c.line].sheet \in {c.sheet, None}
           /\ c.missed \/ Sums(c.total, c.sheet, c.line, c.row)'
    <2>1. CASE UNCHANGED line
      BY <2>1 DEF CallSound, Sums, SumSeen
    <2>2. QED
      BY <2>1
  <1>11. QED
    BY <1>2, <1>3, <1>4, <1>5, <1>7, <1>8, <1>9, <1>10 DEF CallSound, Request, Contract

\* A call begins or ends, and no row is written.
LEMMA OneCall ==
  ASSUME EngagementsInv, NEW d \in Desks, NEW c \in Call, CallSound(c),
         desk' = [desk EXCEPT ![d] = c],
         c.op = "recalculate" => \A e \in Desks \ {d} :
           ~(desk[e].op = "recalculate" /\ desk[e].line = c.line),
         UNCHANGED <<owner, sheet, covers, line, moved, basis, checked>>
  PROVE  EngagementsInv'
  <1>1. /\ EngagementTypeOK
        /\ desk'[d] = c /\ \A e \in Desks : e # d => desk'[e] = desk[e]
        /\ \A e \in Desks : CallSound(desk[e]) /\ desk[e] \in Call
    BY DEF EngagementsInv, EngagementTypeOK
  <1>2. EngagementTypeOK'
    BY <1>1 DEF EngagementTypeOK, Contract, Request
  <1>3. ASSUME NEW e \in Desks PROVE CallSound(desk[e])'
    <2>1. PICK b \in Call : b = desk'[e] /\ CallSound(b)
      BY <1>1
    <2>2. CallSound(b)'
      BY <2>1, CallKept
    <2>3. QED
      BY <2>1, <2>2 DEF CallSound
  <1>4. LinesExclusive'
    BY <1>1 DEF EngagementsInv, LinesExclusive
  <1>5. QED
    BY <1>2, <1>3, <1>4 DEF EngagementsInv, LinesOwned, CoverSound, NothingSummed,
                            TotalExactUnlessOverlap, ActiveUntilRemoval, ForeignFacilityOnlyByMove, ActiveLines, LinesOf

-----------------------------------------------------------------------------
\* Rows of facilities and sheets are written, lines and calls are not.
LEMMA RowsWritten ==
  ASSUME EngagementsInv, EngagementTypeOK',
         \A k \in Sheets : sheet[k].kind # "none" => sheet'[k].kind = sheet[k].kind,
         \A k \in Sheets : sheet[k].kind # "none" =>
           sheet'[k].customer = sheet[k].customer \/ k \in moved',
         \A f \in Facilities : owner[f] # None =>
           owner'[f] # None /\ (owner'[f] = owner[f] \/ f \in moved'),
         moved \subseteq moved',
         \A k \in Sheets : sheet'[k].kind = "none" => sheet[k].kind = "none",
         \A k \in Sheets : basis'[k] # "typed" =>
           basis'[k] = basis[k] /\ sheet'[k].total = sheet[k].total,
         \A k \in checked' : k \in checked /\ sheet'[k].status = sheet[k].status,
         UNCHANGED <<covers, line, desk>>
  PROVE  EngagementsInv'
  <1>1. ASSUME NEW e \in Desks PROVE CallSound(desk[e])'
    <2>1. PICK b \in Call : b = desk[e] /\ CallSound(b)
      BY DEF EngagementsInv, EngagementTypeOK
    <2>2. CallSound(b)'
      BY <2>1, CallKept
    <2>3. QED
      BY <2>1, <2>2 DEF CallSound
  <1>2. LinesExclusive' /\ LinesOwned'
    BY DEF EngagementsInv, LinesExclusive, LinesOwned
  <1>3. CoverSound'
    BY DEF EngagementsInv, CoverSound
  <1>4. NothingSummed'
    BY DEF EngagementsInv, NothingSummed
  <1>5. TotalExactUnlessOverlap'
    BY DEF EngagementsInv, TotalExactUnlessOverlap
  <1>6. ActiveUntilRemoval'
    BY DEF EngagementsInv, ActiveUntilRemoval, ActiveLines, LinesOf
  <1>7. ForeignFacilityOnlyByMove'
    <2> SUFFICES ASSUME NEW k \in Sheets, NEW f \in Facilities,
                        <<k, f>> \in covers, owner'[f] # sheet'[k].customer
                 PROVE  {k, f} \cap moved' # {}
      BY DEF ForeignFacilityOnlyByMove
    <2>1. sheet[k].kind # "none" /\ owner[f] # None
      BY DEF EngagementsInv, CoverSound
    <2>2. owner[f] = sheet[k].customer \/ {k, f} \cap moved # {}
      BY DEF EngagementsInv, ForeignFacilityOnlyByMove
    <2>3. QED
      BY <2>1, <2>2
  <1>8. QED
    BY <1>1, <1>2, <1>3, <1>4, <1>5, <1>6, <1>7 DEF EngagementsInv

\* Facilities are created, or given to another customer, and marked.
LEMMA FacilityStep ==
  ASSUME EngagementsInv, NEW f \in Facilities, NEW c \in Customers,
         createFacility(f, c) \/ updateFacility(f, c)
  PROVE  EngagementsInv'
  <1>1. EngagementTypeOK /\ c # None
    BY EngagementsAssumption DEF EngagementsInv
  <1>2. /\ owner' = [owner EXCEPT ![f] = c]
        /\ moved' = moved \/ moved' = moved \cup {f}
        /\ owner[f] = None \/ f \in moved'
        /\ UNCHANGED <<sheet, covers, line, desk, basis, checked>>
    BY DEF createFacility, updateFacility
  <1>3. EngagementTypeOK'
    BY <1>1, <1>2 DEF EngagementTypeOK, Contract, Request
  <1>4. /\ \A o \in Facilities : o # f => owner'[o] = owner[o]
        /\ owner'[f] = c
    BY <1>1, <1>2 DEF EngagementTypeOK
  <1>5. QED
    BY <1>1, <1>2, <1>3, <1>4, RowsWritten

\* The row of a contract is created or edited: who gives it another customer
\* marks it, who types its total or its status clears what was known of them.
LEMMA ContractWritten ==
  ASSUME EngagementsInv, NEW k \in Sheets, NEW row \in Sheet,
         sheet' = [sheet EXCEPT ![k] = row],
         row.kind = "contract", row.status # "NONE", sheet[k].kind \in {"none", "contract"},
         sheet[k].kind = "none" \/ row.customer = sheet[k].customer \/ k \in moved',
         moved' = moved \/ moved' = moved \cup {k},
         basis' = basis \/ basis' = [basis EXCEPT ![k] = "typed"],
         row.total = sheet[k].total \/ basis'[k] = "typed",
         checked' = checked \/ checked' = checked \ {k},
         row.status = sheet[k].status \/ k \notin checked',
         UNCHANGED <<owner, covers, line, desk>>
  PROVE  EngagementsInv'
  <1>1. /\ EngagementTypeOK /\ sheet'[k] = row
        /\ \A o \in Sheets : o # k => sheet'[o] = sheet[o] /\ basis'[o] = basis[o]
    BY DEF EngagementsInv, EngagementTypeOK
  <1>2. EngagementTypeOK'
    <2>1. ASSUME NEW o \in Sheets
          PROVE  /\ (Contract(o) <=> sheet[o].status # "NONE")'
                 /\ (Request(o) => Cardinality({f \in Facilities : <<o, f>> \in covers}) <= 1)'
      <3>1. CASE o = k
        BY <1>1, <3>1 DEF Contract, Request
      <3>2. CASE o # k
        BY <1>1, <3>2 DEF EngagementTypeOK, Contract, Request
      <3>3. QED
        BY <3>1, <3>2
    <2>2. /\ sheet' \in [Sheets -> Sheet] /\ moved' \subseteq Facilities \cup Sheets
          /\ basis' \in [Sheets -> {"typed", "summed", "stale"}] /\ checked' \subseteq Sheets
      BY <1>1 DEF EngagementTypeOK
    <2>3. QED
      BY <1>1, <2>1, <2>2 DEF EngagementTypeOK
  <1>3. basis'[k] = "typed" \/ (basis'[k] = basis[k] /\ row.total = sheet[k].total)
    BY <1>1 DEF EngagementTypeOK
  <1>4. \A o \in checked' : o \in checked /\ sheet'[o].status = sheet[o].status
    BY <1>1 DEF EngagementTypeOK
  <1>5. QED
    BY <1>1, <1>2, <1>3, <1>4, RowsWritten

\* What happens to contracts but for their facilities.
LEMMA ContractStep ==
  ASSUME EngagementsInv, NEW k \in Sheets,
         \/ \E c \in Customers, status \in StatusInputs, ended \in BOOLEAN,
              total \in Amounts \cup {None} : createContract(k, c, status, ended, total)
         \/ \E c \in Customers \cup {None}, status \in StatusInputs \cup {None}, ended \in BOOLEAN,
              total \in Amounts \cup {None} : updateContract(k, c, status, ended, total)
         \/ Elapse(k)
         \/ \E status \in StatusInputs : updateStatus(k, status)
  PROVE  EngagementsInv'
  <1>1. EngagementTypeOK /\ NothingSummed /\ ActiveUntilRemoval
    BY DEF EngagementsInv
  <1>2. PICK s \in Sheet : s = sheet[k]
    BY <1>1 DEF EngagementTypeOK
  <1>3. \A v \in StatusInputs : v \in ContractStatus /\ v # "NONE"
    BY EngagementsAssumption DEF ContractStatus
  <1>4. \A v \in Amounts \cup {None} : v \in Total
    BY DEF Total
  <1>5. s.kind = "contract" => s.status # "NONE"
    BY <1>1, <1>2 DEF EngagementTypeOK, Contract
  <1>6. ASSUME NEW c \in Customers, NEW status \in StatusInputs, NEW ended \in BOOLEAN,
               NEW total \in Amounts \cup {None}, createContract(k, c, status, ended, total)
        PROVE  EngagementsInv'
    <2>1. PICK row : row = [kind |-> "contract", status |-> status, customer |-> c,
                            ended |-> ended, total |-> total]
      OBVIOUS
    <2>2. row \in Sheet /\ row.kind = "contract" /\ row.status = status
      BY <1>3, <1>4, <2>1 DEF Sheet
    <2>3. /\ sheet' = [sheet EXCEPT ![k] = row] /\ sheet[k] = NoSheet
          /\ UNCHANGED <<owner, covers, line, desk, moved, basis, checked>>
      BY <1>6, <2>1 DEF createContract
    <2>4. sheet[k].kind = "none" /\ sheet[k].status = "NONE"
      BY <2>3 DEF NoSheet
    <2>5. basis[k] = "typed" /\ k \notin checked
      BY <1>1, <2>4 DEF NothingSummed, ActiveUntilRemoval
    <2>6. QED
      BY <1>3, <2>2, <2>3, <2>4, <2>5, ContractWritten
  <1>7. ASSUME NEW c \in Customers \cup {None}, NEW status \in StatusInputs \cup {None},
               NEW ended \in BOOLEAN, NEW total \in Amounts \cup {None},
               updateContract(k, c, status, ended, total)
        PROVE  EngagementsInv'
    <2>1. s.kind = "contract" /\ s.status # "NONE"
      BY <1>2, <1>5, <1>7 DEF updateContract, Contract
    <2>2. PICK row : row = [s EXCEPT !.customer = Given(c, s.customer),
                                     !.status = Given(status, s.status),
                                     !.ended = ended, !.total = Given(total, s.total)]
      OBVIOUS
    <2>3. /\ Given(c, s.customer) \in Customers \cup {None}
          /\ Given(status, s.status) \in ContractStatus \cup {"NONE"}
          /\ Given(status, s.status) # "NONE" /\ Given(total, s.total) \in Total
      BY <1>3, <1>4, <2>1 DEF Given, Sheet
    <2>4. /\ row \in Sheet /\ row.kind = s.kind /\ row.customer = Given(c, s.customer)
          /\ row.status = Given(status, s.status) /\ row.total = Given(total, s.total)
      BY <2>2, <2>3 DEF Sheet
    <2>5. sheet' = [sheet EXCEPT ![k] = row]
      BY <1>1, <1>2, <1>7, <2>2 DEF updateContract, EngagementTypeOK
    <2>6. /\ moved' = IF c \in {None, s.customer} THEN moved ELSE moved \cup {k}
          /\ basis' = IF total = None THEN basis ELSE [basis EXCEPT ![k] = "typed"]
          /\ checked' = IF status = None THEN checked ELSE checked \ {k}
          /\ UNCHANGED <<owner, covers, line, desk>>
      BY <1>2, <1>7 DEF updateContract
    <2>7. /\ row.customer = s.customer \/ k \in moved'
          /\ moved' = moved \/ moved' = moved \cup {k}
      BY <2>4, <2>6 DEF Given
    <2>8. /\ row.total = s.total \/ basis'[k] = "typed"
          /\ basis' = basis \/ basis' = [basis EXCEPT ![k] = "typed"]
      BY <1>1, <2>4, <2>6 DEF Given, EngagementTypeOK
    <2>9. /\ row.status = s.status \/ k \notin checked'
          /\ checked' = checked \/ checked' = checked \ {k}
      BY <2>4, <2>6 DEF Given
    <2>10. QED
      BY <1>2, <2>1, <2>3, <2>4, <2>5, <2>6, <2>7, <2>8, <2>9, ContractWritten
  <1>8. CASE Elapse(k)
    <2>1. s.kind = "contract" /\ s.status # "NONE"
      BY <1>2, <1>5, <1>8 DEF Elapse, Contract
    <2>2. PICK row : row = [s EXCEPT !.ended = TRUE]
      OBVIOUS
    <2>3. /\ row \in Sheet /\ row.kind = s.kind /\ row.customer = s.customer
          /\ row.status = s.status /\ row.total = s.total
      BY <2>2 DEF Sheet
    <2>4. /\ sheet' = [sheet EXCEPT ![k] = row]
          /\ UNCHANGED <<owner, covers, line, desk, moved, basis, checked>>
      BY <1>1, <1>2, <1>8, <2>2 DEF Elapse, EngagementTypeOK
    <2>5. QED
      BY <1>2, <2>1, <2>3, <2>4, ContractWritten
  <1>9. ASSUME NEW status \in StatusInputs, updateStatus(k, status)
        PROVE  EngagementsInv'
    <2>1. s.kind = "contract"
      BY <1>2, <1>9 DEF updateStatus, Contract
    <2>2. PICK row : row = [s EXCEPT !.status = status]
      OBVIOUS
    <2>3. /\ row \in Sheet /\ row.kind = s.kind /\ row.customer = s.customer
          /\ row.status = status /\ row.total = s.total
      BY <1>3, <2>2 DEF Sheet
    <2>4. /\ sheet' = [sheet EXCEPT ![k] = row] /\ checked' = checked \ {k}
          /\ UNCHANGED <<owner, covers, line, desk, moved, basis>>
      BY <1>1, <1>2, <1>9, <2>2 DEF updateStatus, EngagementTypeOK
    <2>5. QED
      BY <1>2, <1>3, <2>1, <2>3, <2>4, ContractWritten
  <1>10. QED
    BY <1>6, <1>7, <1>8, <1>9

-----------------------------------------------------------------------------
\* A sum of lines is a total.
LEMMA TotalType ==
  ASSUME NEW k, NEW rows \in [Lines -> Line]
  PROVE  TotalOf(Prices(k, rows)) \in Total
  <1> DEFINE some == {y \in Lines : rows[y].sheet = k /\ rows[y].active /\ rows[y].amount # None}
  <1>1. Prices(k, rows) \in [some -> Amounts] /\ some \in SUBSET Lines
    BY DEF Prices, Line
  <1>2. QED
    BY <1>1 DEF Total

\* A call that does nothing is sound.
LEMMA FreeSound == Free \in Call /\ CallSound(Free)
  <1>1. NoLine \in Line /\ None \in Total
    BY DEF NoLine, Line, Total
  <1>2. QED
    BY <1>1 DEF Free, Call, CallSound

\* A call that begins for sheet k: to cover, activate, create or update it.
LEMMA BeginStep ==
  ASSUME EngagementsInv, NEW d \in Desks, NEW k \in Sheets,
         \/ countForActivation(d, k)
         \/ \E f \in Facilities : addFacility(d, k, f)
         \/ \E f \in Facilities \cup {None}, total \in Amounts \cup {None} :
              \/ \E c \in Customers : createRequest(d, k, c, f, total)
              \/ \E c \in Customers \cup {None} : updateRequest(d, k, c, f, total)
  PROVE  EngagementsInv'
  <1>1. UNCHANGED <<owner, sheet, covers, line, moved, basis, checked>>
    BY DEF countForActivation, addFacility, createRequest, updateRequest
  <1>2. ASSUME NEW c \in Call, CallSound(c), c.op # "recalculate", Begin(d, c)
        PROVE  EngagementsInv'
    BY <1>1, <1>2, OneCall DEF Begin
  <1>3. PICK z \in Call :
          /\ z = Free /\ z.op = "idle" /\ z.sheet = None /\ z.line = None
          /\ z.facility = None /\ z.customer = None /\ ~z.missed
    BY FreeSound DEF Free
  <1>4. CASE countForActivation(d, k)
    <2>1. PICK c : c = [z EXCEPT !.op = "activate", !.sheet = k]
      OBVIOUS
    <2>2. c \in Call /\ c.op = "activate" /\ c.sheet = k /\ Begin(d, c)
      BY <1>3, <1>4, <2>1 DEF countForActivation, Call
    <2>3. CallSound(c)
      BY <1>4, <2>2 DEF countForActivation, CallSound
    <2>4. QED
      BY <1>2, <2>2, <2>3
  <1>5. ASSUME NEW f \in Facilities, addFacility(d, k, f) PROVE EngagementsInv'
    <2>1. PICK c : c = [z EXCEPT !.op = "cover", !.sheet = k, !.facility = f]
      OBVIOUS
    <2>2. c \in Call /\ c.op = "cover" /\ c.sheet = k /\ c.facility = f /\ Begin(d, c)
      BY <1>3, <1>5, <2>1 DEF addFacility, Call
    <2>3. CallSound(c)
      BY <1>5, <2>2 DEF addFacility, CallSound, Placed
    <2>4. QED
      BY <1>2, <2>2, <2>3
  <1>6. ASSUME NEW f \in Facilities \cup {None}, NEW total \in Amounts \cup {None},
               NEW c \in Customers, createRequest(d, k, c, f, total)
        PROVE EngagementsInv'
    <2>1. PICK b : b = [z EXCEPT !.op = "create", !.sheet = k, !.customer = c,
                                 !.facility = f, !.total = total]
      OBVIOUS
    <2>2. total \in Total
      BY DEF Total
    <2>3. /\ b \in Call /\ b.op = "create" /\ b.sheet = k /\ b.facility = f /\ b.customer = c
          /\ Begin(d, b)
      BY <1>3, <1>6, <2>1, <2>2 DEF createRequest, Call
    <2>4. CallSound(b)
      BY <1>6, <2>3 DEF createRequest, assertFacility, CallSound, Placed
    <2>5. QED
      BY <1>2, <2>3, <2>4
  <1>7. ASSUME NEW f \in Facilities \cup {None}, NEW total \in Amounts \cup {None},
               NEW c \in Customers \cup {None}, updateRequest(d, k, c, f, total)
        PROVE EngagementsInv'
    <2>1. PICK b : b = [z EXCEPT !.op = "update", !.sheet = k, !.customer = c,
                                 !.facility = f, !.total = total]
      OBVIOUS
    <2>2. total \in Total
      BY DEF Total
    <2>3. /\ b \in Call /\ b.op = "update" /\ b.sheet = k /\ b.facility = f /\ b.customer = c
          /\ Begin(d, b)
      BY <1>3, <1>7, <2>1, <2>2 DEF updateRequest, Call
    <2>4. CallSound(b)
      BY <1>7, <2>3 DEF updateRequest, assertFacility, CallSound, Placed
    <2>5. QED
      BY <1>2, <2>3, <2>4
  <1>8. QED
    BY <1>4, <1>5, <1>6, <1>7

\* A transaction writes a line and sums the lines it sees.
LEMMA WriteLineStep ==
  ASSUME EngagementsInv, NEW d \in Desks, NEW x \in Lines, NEW row \in Line,
         writeLine(d, x, row), row.sheet \in Sheets, sheet[row.sheet].kind # "none",
         line[x].sheet \in {row.sheet, None}
  PROVE  EngagementsInv'
  <1>1. UNCHANGED <<owner, sheet, covers, line, moved, basis, checked>>
    BY DEF writeLine
  <1>2. PICK z \in Call :
          /\ z = Free /\ z.op = "idle" /\ z.sheet = None /\ z.line = None
          /\ z.facility = None /\ z.customer = None /\ ~z.missed
    BY FreeSound DEF Free
  <1>3. PICK k \in Sheets : k = row.sheet
    OBVIOUS
  <1>4. PICK total \in Total : total = SumSeen(k, x, row)
    <2>1. [line EXCEPT ![x] = row] \in [Lines -> Line]
      BY DEF EngagementsInv, EngagementTypeOK
    <2>2. QED
      BY <2>1, TotalType DEF SumSeen
  <1>5. PICK c : c = [z EXCEPT !.op = "recalculate", !.sheet = k, !.line = x,
                               !.row = row, !.total = total]
    OBVIOUS
  <1>6. /\ c \in Call /\ c.op = "recalculate" /\ c.sheet = k /\ c.line = x
        /\ c.row = row /\ c.total = total
    BY <1>5 DEF Call
  <1>7. Begin(d, c)
    BY <1>2, <1>3, <1>4, <1>5 DEF writeLine
  <1>8. CallSound(c)
    BY <1>3, <1>4, <1>6 DEF CallSound, Sums
  <1>9. QED
    BY <1>1, <1>6, <1>7, <1>8, OneCall DEF Begin, writeLine

\* Services of contracts and items of requests.
LEMMA LineStep ==
  ASSUME EngagementsInv, NEW d \in Desks, NEW x \in Lines, NEW amount \in Amounts \cup {None},
         NEW active \in BOOLEAN,
         \/ \E k \in Sheets : addItem(d, k, x, amount) \/ createService(d, k, x, amount, active)
         \/ updateContractService(d, x, amount, active)
  PROVE  EngagementsInv'
  <1>1. PICK j \in Line : j = line[x]
    BY DEF EngagementsInv, EngagementTypeOK
  <1>2. ASSUME NEW k \in Sheets, NEW on \in BOOLEAN, line[x] = NoLine, sheet[k].kind # "none",
               writeLine(d, x, [sheet |-> k, amount |-> amount, active |-> on])
        PROVE  EngagementsInv'
    <2>1. PICK row : row = [sheet |-> k, amount |-> amount, active |-> on]
      OBVIOUS
    <2>2. row \in Line /\ row.sheet = k /\ line[x].sheet = None
      BY <1>2, <2>1 DEF Line, NoLine
    <2>3. QED
      BY <1>2, <2>1, <2>2, WriteLineStep
  <1>3. ASSUME updateContractService(d, x, amount, active) PROVE EngagementsInv'
    <2>1. PICK row : row = [j EXCEPT !.amount = Given(amount, j.amount), !.active = active]
      OBVIOUS
    <2>2. row \in Line /\ row.sheet = j.sheet
      BY <2>1 DEF Line, Given
    <2>3. /\ writeLine(d, x, row) /\ sheet[j.sheet].kind # "none"
      BY <1>1, <1>3, <2>1 DEF updateContractService, Contract
    <2>4. j.sheet \in Sheets
      BY <1>1, <1>3 DEF updateContractService, EngagementsInv, LinesOwned
    <2>5. QED
      BY <1>1, <2>2, <2>3, <2>4, WriteLineStep
  <1>4. QED
    BY <1>2, <1>3 DEF addItem, createService, Contract, Request

-----------------------------------------------------------------------------
\* Call b is over, or what call c was, but may have missed a change.
Marked(c, b) ==
  \/ b.op = "idle"
  \/ /\ b.op = c.op /\ b.sheet = c.sheet /\ b.line = c.line /\ b.facility = c.facility
     /\ b.customer = c.customer /\ b.total = c.total /\ b.row = c.row
     /\ c.missed => b.missed

\* A step in which calls end or miss a change, under the conditions of CallKept.
LEMMA CallsKept ==
  ASSUME EngagementsInv, desk' \in [Desks -> Call],
         \A e \in Desks : Marked(desk[e], desk'[e]),
         \A k \in Sheets : sheet[k].kind # "none" => sheet'[k].kind = sheet[k].kind,
         \A k \in Sheets : sheet[k].kind # "none" =>
           sheet'[k].customer = sheet[k].customer \/ k \in moved',
         \A f \in Facilities : owner[f] # None =>
           owner'[f] # None /\ (owner'[f] = owner[f] \/ f \in moved'),
         moved \subseteq moved',
         \A e \in Desks, b \in Call : b = desk'[e] /\ b.op = "activate" /\ ~b.missed =>
           \/ ActiveLines(b.sheet)' # {} /\ \E f \in Facilities : <<b.sheet, f>> \in covers'
           \/ UNCHANGED <<line, covers>>,
         \A e \in Desks, b \in Call : b = desk'[e] /\ b.op = "recalculate" =>
           \/ UNCHANGED line
           \/ /\ line'[b.line].sheet \in {b.sheet, None}
              /\ b.missed \/ Sums(b.total, b.sheet, b.line, b.row)'
  PROVE  (\A e \in Desks : CallSound(desk[e])') /\ LinesExclusive'
  <1>1. ASSUME NEW e \in Desks PROVE CallSound(desk[e])'
    <2>1. PICK c \in Call : c = desk[e] /\ CallSound(c)
      BY DEF EngagementsInv, EngagementTypeOK
    <2>2. PICK b \in Call : b = desk'[e] /\ Marked(c, b)
      BY <2>1
    <2>3. CallSound(b)
      BY <2>1, <2>2 DEF CallSound, Marked
    <2>4. b.op = "activate" /\ ~b.missed =>
             \/ ActiveLines(b.sheet)' # {} /\ \E f \in Facilities : <<b.sheet, f>> \in covers'
             \/ UNCHANGED <<line, covers>>
      BY <2>2
    <2>5. b.op = "recalculate" =>
             \/ UNCHANGED line
             \/ /\ line'[b.line].sheet \in {b.sheet, None}
                /\ b.missed \/ Sums(b.total, b.sheet, b.line, b.row)'
      BY <2>2
    <2>6. CallSound(b)'
      BY <2>3, <2>4, <2>5, CallKept
    <2>7. QED
      BY <2>2, <2>6 DEF CallSound
  <1>2. LinesExclusive'
    BY DEF EngagementsInv, LinesExclusive, Marked
  <1>3. QED
    BY <1>1, <1>2

\* A call that ends alone marks nobody.
LEMMA EndsAlone ==
  ASSUME EngagementTypeOK, NEW d \in Desks, desk' = [desk EXCEPT ![d] = Free]
  PROVE  desk' \in [Desks -> Call] /\ \A e \in Desks : Marked(desk[e], desk'[e])
  <1>1. Free \in Call /\ Free.op = "idle"
    BY FreeSound DEF Free
  <1>2. QED
    BY <1>1 DEF EngagementTypeOK, Marked

\* The contract is made ACTIVE: what was counted is still so, unless missed.
LEMMA ActivateStep ==
  ASSUME EngagementsInv, NEW d \in Desks, activate(d)
  PROVE  EngagementsInv'
  <1>1. EngagementTypeOK /\ CallSound(desk[d]) /\ desk[d].op = "activate"
    BY DEF EngagementsInv, activate
  <1>2. PICK k \in Sheets : k = desk[d].sheet /\ Contract(k)
    BY <1>1 DEF CallSound
  <1>3. PICK s \in Sheet : s = sheet[k]
    BY <1>1 DEF EngagementTypeOK
  <1>4. PICK row : row = [s EXCEPT !.status = "ACTIVE"]
    OBVIOUS
  <1>5. /\ row \in Sheet /\ row.kind = s.kind /\ row.status = "ACTIVE"
        /\ row.customer = s.customer /\ row.total = s.total
    BY <1>4 DEF Sheet, ContractStatus
  <1>6. /\ sheet' = [sheet EXCEPT ![k] = row] /\ desk' = [desk EXCEPT ![d] = Free]
        /\ checked' = IF desk[d].missed THEN checked ELSE checked \cup {k}
        /\ UNCHANGED <<owner, covers, line, moved, basis>>
    BY <1>1, <1>2, <1>3, <1>4 DEF activate, EngagementTypeOK
  <1>7. sheet'[k] = row /\ \A o \in Sheets : o # k => sheet'[o] = sheet[o]
    BY <1>1, <1>6 DEF EngagementTypeOK
  <1>8. desk' \in [Desks -> Call] /\ \A e \in Desks : Marked(desk[e], desk'[e])
    BY <1>1, <1>6, EndsAlone
  <1>9. (\A e \in Desks : CallSound(desk[e])') /\ LinesExclusive'
    BY <1>3, <1>5, <1>6, <1>7, <1>8, CallsKept
  <1>10. EngagementTypeOK'
    <2>1. ASSUME NEW o \in Sheets
          PROVE  /\ (Contract(o) <=> sheet[o].status # "NONE")'
                 /\ (Request(o) => Cardinality({f \in Facilities : <<o, f>> \in covers}) <= 1)'
      <3>1. CASE o = k
        BY <1>2, <1>3, <1>5, <1>7, <3>1 DEF Contract, Request
      <3>2. CASE o # k
        BY <1>1, <1>6, <1>7, <3>2 DEF EngagementTypeOK, Contract, Request
      <3>3. QED
        BY <3>1, <3>2
    <2>2. sheet' \in [Sheets -> Sheet] /\ checked' \subseteq Sheets
      BY <1>1, <1>5, <1>6 DEF EngagementTypeOK
    <2>3. QED
      BY <1>1, <1>6, <1>8, <2>1, <2>2 DEF EngagementTypeOK
  <1>11. ActiveUntilRemoval'
    <2> SUFFICES ASSUME NEW o \in checked'
                 PROVE  /\ sheet'[o].status = "ACTIVE" /\ ActiveLines(o)' # {}
                        /\ \E f \in Facilities : <<o, f>> \in covers'
      BY DEF ActiveUntilRemoval
    <2>1. ActiveLines(o)' = ActiveLines(o) /\ covers' = covers
      BY <1>6 DEF ActiveLines, LinesOf
    <2>2. CASE o \in checked
      BY <1>1, <1>5, <1>7, <2>1, <2>2 DEF EngagementsInv, ActiveUntilRemoval, EngagementTypeOK
    <2>3. CASE o \notin checked
      <3>1. o = k /\ ~desk[d].missed
        BY <1>6, <2>3
      <3>2. QED
        BY <1>1, <1>2, <1>5, <1>7, <2>1, <3>1 DEF CallSound
    <2>4. QED
      BY <2>2, <2>3
  <1>12. /\ LinesOwned' /\ CoverSound' /\ NothingSummed'
         /\ TotalExactUnlessOverlap' /\ ForeignFacilityOnlyByMove'
    BY <1>3, <1>5, <1>6, <1>7 DEF EngagementsInv, LinesOwned, CoverSound, NothingSummed,
                          TotalExactUnlessOverlap, ForeignFacilityOnlyByMove
  <1>13. QED
    BY <1>9, <1>10, <1>11, <1>12 DEF EngagementsInv

\* A facility is added: it was the customer's, or it or the contract has moved.
LEMMA StoreFacilityStep ==
  ASSUME EngagementsInv, NEW d \in Desks, storeFacility(d)
  PROVE  EngagementsInv'
  <1>1. EngagementTypeOK /\ CallSound(desk[d]) /\ desk[d].op = "cover"
    BY DEF EngagementsInv, storeFacility
  <1>2. PICK k \in Sheets, f \in Facilities :
          /\ k = desk[d].sheet /\ f = desk[d].facility /\ Contract(k)
          /\ owner[f] # None /\ Placed(k, f, sheet[k].customer)
    BY <1>1, EngagementsAssumption DEF CallSound
  <1>3. /\ covers' = covers \cup {<<k, f>>} /\ desk' = [desk EXCEPT ![d] = Free]
        /\ UNCHANGED <<owner, sheet, line, moved, basis, checked>>
    BY <1>2 DEF storeFacility
  <1>4. desk' \in [Desks -> Call] /\ \A e \in Desks : Marked(desk[e], desk'[e])
    BY <1>1, <1>3, EndsAlone
  <1>5. ASSUME NEW e \in Desks, NEW b \in Call, b = desk'[e], b.op = "activate" /\ ~b.missed
        PROVE  ActiveLines(b.sheet)' # {} /\ \E o \in Facilities : <<b.sheet, o>> \in covers'
    <2>1. PICK c \in Call : c = desk[e] /\ CallSound(c)
      BY <1>1 DEF EngagementsInv, EngagementTypeOK
    <2>2. CallSound(b)
      BY <1>4, <1>5, <2>1 DEF Marked, CallSound
    <2>3. ActiveLines(b.sheet)' = ActiveLines(b.sheet)
      BY <1>3 DEF ActiveLines, LinesOf
    <2>4. QED
      BY <1>3, <1>5, <2>2, <2>3 DEF CallSound
  <1>6. (\A e \in Desks : CallSound(desk[e])') /\ LinesExclusive'
    BY <1>3, <1>4, <1>5, CallsKept
  <1>7. EngagementTypeOK'
    <2>1. ASSUME NEW o \in Sheets, Request(o)'
          PROVE  Cardinality({g \in Facilities : <<o, g>> \in covers'}) <= 1
      <3>1. Request(o) /\ o # k
        BY <1>2, <1>3, <2>1 DEF Request, Contract
      <3>2. {g \in Facilities : <<o, g>> \in covers'} = {g \in Facilities : <<o, g>> \in covers}
        BY <1>3, <3>1
      <3>3. QED
        BY <1>1, <3>1, <3>2 DEF EngagementTypeOK
    <2>2. \A o \in Sheets : (Contract(o) <=> sheet[o].status # "NONE")'
      BY <1>1, <1>3 DEF EngagementTypeOK, Contract
    <2>3. covers' \subseteq Sheets \X Facilities
      BY <1>1, <1>3 DEF EngagementTypeOK
    <2>4. QED
      BY <1>1, <1>3, <1>4, <2>1, <2>2, <2>3 DEF EngagementTypeOK
  <1>8. CoverSound' /\ ForeignFacilityOnlyByMove'
    BY <1>2, <1>3 DEF EngagementsInv, CoverSound, ForeignFacilityOnlyByMove, Placed, Contract
  <1>9. LinesOwned' /\ NothingSummed' /\ TotalExactUnlessOverlap' /\ ActiveUntilRemoval'
    BY <1>3 DEF EngagementsInv, LinesOwned, NothingSummed, TotalExactUnlessOverlap,
                ActiveUntilRemoval, ActiveLines, LinesOf
  <1>10. QED
    BY <1>6, <1>7, <1>8, <1>9 DEF EngagementsInv

-----------------------------------------------------------------------------
\* The row of a request is written, and the facility it is for: none, the one
\* it was for, or one that is the customer's or marked as moved.
LEMMA RequestWritten ==
  ASSUME EngagementsInv, NEW k \in Sheets, NEW row \in Sheet,
         sheet' = [sheet EXCEPT ![k] = row], row.kind = "request", row.status = "NONE",
         sheet[k].kind \in {"none", "request"},
         sheet[k].kind = "none" \/ row.customer = sheet[k].customer \/ k \in moved',
         desk' \in [Desks -> Call], \A e \in Desks : Marked(desk[e], desk'[e]),
         owner' \in [Facilities -> Customers \cup {None}],
         \A f \in Facilities : owner[f] # None => owner'[f] = owner[f],
         moved \subseteq moved', moved' \subseteq Facilities \cup Sheets,
         basis' = basis \/ basis' = [basis EXCEPT ![k] = "typed"],
         sheet[k].kind = "none" \/ row.total = sheet[k].total \/ basis'[k] = "typed",
         covers' \subseteq Sheets \X Facilities,
         \A o \in Sheets, g \in Facilities : o # k => (<<o, g>> \in covers' <=> <<o, g>> \in covers),
         \/ sheet[k].kind = "request" /\ covers' = covers
         \/ \A g \in Facilities : <<k, g>> \notin covers'
         \/ \E f \in Facilities :
              /\ \A g \in Facilities : <<k, g>> \in covers' => g = f
              /\ owner'[f] # None /\ Placed(k, f, row.customer)',
         UNCHANGED <<line, checked>>
  PROVE  EngagementsInv'
  <1>1. /\ EngagementTypeOK /\ CoverSound /\ ActiveUntilRemoval /\ ForeignFacilityOnlyByMove
        /\ sheet'[k] = row /\ \A o \in Sheets : o # k => sheet'[o] = sheet[o] /\ basis'[o] = basis[o]
    BY DEF EngagementsInv, EngagementTypeOK
  <1>2. ASSUME NEW e \in Desks, NEW b \in Call, b = desk'[e], b.op = "activate" /\ ~b.missed
        PROVE  ActiveLines(b.sheet)' # {} /\ \E o \in Facilities : <<b.sheet, o>> \in covers'
    <2>1. PICK c \in Call : c = desk[e] /\ CallSound(c)
      BY <1>1 DEF EngagementsInv, EngagementTypeOK
    <2>2. CallSound(b)
      BY <1>2, <2>1 DEF Marked, CallSound
    <2>3. ActiveLines(b.sheet)' = ActiveLines(b.sheet)
      BY DEF ActiveLines, LinesOf
    <2>4. b.sheet \in Sheets /\ b.sheet # k
      BY <1>2, <2>2 DEF CallSound, Contract
    <2>5. QED
      BY <1>2, <2>2, <2>3, <2>4 DEF CallSound
  <1>3. (\A e \in Desks : CallSound(desk[e])') /\ LinesExclusive'
    BY <1>1, <1>2, CallsKept
  <1>4. Cardinality({g \in Facilities : <<k, g>> \in covers'}) <= 1
    <2> DEFINE new == {g \in Facilities : <<k, g>> \in covers'}
    <2>1. CASE sheet[k].kind = "request" /\ covers' = covers
      BY <1>1, <2>1 DEF EngagementTypeOK, Request
    <2>2. CASE \A g \in Facilities : <<k, g>> \notin covers'
      <3>1. new = {}
        BY <2>2
      <3> HIDE DEF new
      <3>2. Cardinality(new) = 0
        BY <3>1, FS_EmptySet
      <3>3. QED
        BY <3>2 DEF new
    <2>3. ASSUME NEW f, \A g \in Facilities : <<k, g>> \in covers' => g = f
          PROVE  Cardinality({g \in Facilities : <<k, g>> \in covers'}) <= 1
      <3>1. new \subseteq {f}
        BY <2>3
      <3> HIDE DEF new
      <3>2. IsFiniteSet({f}) /\ Cardinality({f}) = 1
        BY FS_Singleton
      <3>3. Cardinality(new) <= 1
        BY <3>1, <3>2, FS_Subset
      <3>4. QED
        BY <3>3 DEF new
    <2>4. QED
      BY <2>1, <2>2, <2>3
  <1>5. EngagementTypeOK'
    <2>1. ASSUME NEW o \in Sheets
          PROVE  /\ (Contract(o) <=> sheet[o].status # "NONE")'
                 /\ (Request(o) => Cardinality({f \in Facilities : <<o, f>> \in covers}) <= 1)'
      <3>1. CASE o = k
        BY <1>1, <1>4, <3>1 DEF Contract, Request
      <3>2. CASE o # k
        <4>1. {f \in Facilities : <<o, f>> \in covers'} = {f \in Facilities : <<o, f>> \in covers}
          BY <3>2
        <4>2. QED
          BY <1>1, <3>2, <4>1 DEF EngagementTypeOK, Contract, Request
      <3>3. QED
        BY <3>1, <3>2
    <2>2. sheet' \in [Sheets -> Sheet] /\ basis' \in [Sheets -> {"typed", "summed", "stale"}]
      BY <1>1 DEF EngagementTypeOK
    <2>3. QED
      BY <1>1, <2>1, <2>2 DEF EngagementTypeOK
  <1>6. CoverSound'
    <2> SUFFICES ASSUME NEW o \in Sheets, NEW g \in Facilities, <<o, g>> \in covers'
                 PROVE  sheet'[o].kind # "none" /\ owner'[g] # None
      BY DEF CoverSound
    <2>1. CASE <<o, g>> \in covers
      BY <1>1, <2>1 DEF CoverSound
    <2>2. CASE <<o, g>> \notin covers
      BY <1>1, <2>2
    <2>3. QED
      BY <2>1, <2>2
  <1>7. ForeignFacilityOnlyByMove'
    <2> SUFFICES ASSUME NEW o \in Sheets, NEW g \in Facilities, <<o, g>> \in covers',
                        owner'[g] # sheet'[o].customer
                 PROVE  {o, g} \cap moved' # {}
      BY DEF ForeignFacilityOnlyByMove
    <2>1. CASE <<o, g>> \in covers
      <3>1. owner'[g] = owner[g] /\ sheet[o].kind # "none"
        BY <1>1, <2>1 DEF CoverSound
      <3>2. sheet'[o].customer = sheet[o].customer \/ o \in moved'
        BY <1>1, <3>1
      <3>3. owner[g] = sheet[o].customer \/ {o, g} \cap moved # {}
        BY <1>1, <2>1 DEF ForeignFacilityOnlyByMove
      <3>4. QED
        BY <3>1, <3>2, <3>3
    <2>2. CASE <<o, g>> \notin covers
      <3>1. o = k /\ Placed(k, g, row.customer)'
        BY <2>2
      <3>2. QED
        BY <1>1, <3>1 DEF Placed
    <2>3. QED
      BY <2>1, <2>2
  <1>8. NothingSummed'
    BY <1>1 DEF EngagementsInv, NothingSummed
  <1>9. TotalExactUnlessOverlap'
    <2>1. basis'[k] = "summed" => basis[k] = "summed" /\ row.total = sheet[k].total
      BY <1>1 DEF EngagementsInv, NothingSummed, EngagementTypeOK
    <2>2. QED
      BY <1>1, <2>1 DEF EngagementsInv, TotalExactUnlessOverlap
  <1>10. ActiveUntilRemoval'
    <2>1. \A o \in checked : o # k
      BY <1>1 DEF ActiveUntilRemoval, EngagementTypeOK, Contract
    <2>2. QED
      BY <1>1, <2>1 DEF ActiveUntilRemoval, EngagementTypeOK, ActiveLines, LinesOf
  <1>11. LinesOwned'
    BY DEF EngagementsInv, LinesOwned
  <1>12. QED
    BY <1>3, <1>5, <1>6, <1>7, <1>8, <1>9, <1>10, <1>11 DEF EngagementsInv

\* A request is created, from its form or from a public booking.
LEMMA CreateRequestStep ==
  ASSUME EngagementsInv,
         \/ \E d \in Desks : storeRequest(d)
         \/ \E k \in Sheets, c \in Customers, f \in Facilities : bookWithFacility(k, c, f)
  PROVE  EngagementsInv'
  <1>1. EngagementTypeOK /\ CoverSound
    BY DEF EngagementsInv
  <1>2. NoSheet \in Sheet /\ NoSheet.kind = "none" /\ NoSheet.status = "NONE" /\ None \in Total
    BY DEF NoSheet, Sheet, Total
  <1>3. PICK z \in Sheet : z = NoSheet
    BY <1>2
  <1>4. ASSUME NEW d \in Desks, storeRequest(d)
        PROVE  EngagementsInv'
    <2>1. PICK b \in Call : b = desk[d] /\ CallSound(b) /\ b.op = "create"
      BY <1>1, <1>4 DEF EngagementsInv, EngagementTypeOK, storeRequest
    <2>2. PICK k \in Sheets : k = b.sheet /\ sheet[k] = NoSheet
      BY <1>4, <2>1 DEF CallSound, storeRequest
    <2>3. PICK row : row = [z EXCEPT !.kind = "request", !.total = b.total, !.customer = b.customer]
      OBVIOUS
    <2>4. b.total \in Total /\ b.customer \in Customers \cup {None} /\ b.facility \in Facilities \cup {None}
      BY <2>1 DEF Call
    <2>5. row \in Sheet /\ row.kind = "request" /\ row.status = "NONE" /\ row.customer = b.customer
      BY <1>2, <1>3, <2>3, <2>4 DEF Sheet
    <2>6. /\ sheet' = [sheet EXCEPT ![k] = row]
          /\ covers' = covers \cup ({k} \X ({b.facility} \ {None}))
          /\ desk' = [desk EXCEPT ![d] = Free]
          /\ UNCHANGED <<owner, line, moved, basis, checked>>
      BY <1>3, <1>4, <2>1, <2>2, <2>3 DEF storeRequest
    <2>7. desk' \in [Desks -> Call] /\ \A e \in Desks : Marked(desk[e], desk'[e])
      BY <1>1, <2>6, EndsAlone
    <2>8. \A g \in Facilities : <<k, g>> \notin covers
      BY <1>1, <1>2, <2>2 DEF CoverSound
    <2>9. /\ covers' \subseteq Sheets \X Facilities
          /\ \A o \in Sheets, g \in Facilities : o # k => (<<o, g>> \in covers' <=> <<o, g>> \in covers)
          /\ \A g \in Facilities : <<k, g>> \in covers' => g = b.facility /\ b.facility # None
      BY <1>1, <2>4, <2>6, <2>8 DEF EngagementTypeOK
    <2>10. b.facility # None =>
             /\ b.facility \in Facilities /\ owner'[b.facility] # None
             /\ Placed(k, b.facility, row.customer)'
      BY <2>1, <2>2, <2>4, <2>5, <2>6 DEF CallSound, Placed
    <2>11. owner' \in [Facilities -> Customers \cup {None}] /\ moved' \subseteq Facilities \cup Sheets
      BY <1>1, <2>6 DEF EngagementTypeOK
    <2>12. QED
      BY <1>2, <2>2, <2>5, <2>6, <2>7, <2>9, <2>10, <2>11, RequestWritten
  <1>5. ASSUME NEW k \in Sheets, NEW c \in Customers, NEW f \in Facilities, bookWithFacility(k, c, f)
        PROVE  EngagementsInv'
    <2>1. PICK row : row = [z EXCEPT !.kind = "request", !.customer = c]
      OBVIOUS
    <2>2. row \in Sheet /\ row.kind = "request" /\ row.status = "NONE" /\ row.customer = c
      BY <1>2, <1>3, <2>1 DEF Sheet
    <2>3. /\ sheet[k] = NoSheet /\ owner[f] = None
          /\ sheet' = [sheet EXCEPT ![k] = row] /\ owner' = [owner EXCEPT ![f] = c]
          /\ covers' = covers \cup {<<k, f>>}
          /\ UNCHANGED <<line, desk, moved, basis, checked>>
      BY <1>3, <1>5, <2>1 DEF bookWithFacility
    <2>4. desk' \in [Desks -> Call] /\ \A e \in Desks : Marked(desk[e], desk'[e])
      BY <1>1, <2>3 DEF EngagementTypeOK, Marked
    <2>5. /\ owner'[f] = c /\ \A g \in Facilities : g # f => owner'[g] = owner[g]
          /\ owner' \in [Facilities -> Customers \cup {None}]
      BY <1>1, <2>3 DEF EngagementTypeOK
    <2>6. \A g \in Facilities : <<k, g>> \notin covers
      BY <1>1, <1>2, <2>3 DEF CoverSound
    <2>7. /\ covers' \subseteq Sheets \X Facilities
          /\ \A o \in Sheets, g \in Facilities : o # k => (<<o, g>> \in covers' <=> <<o, g>> \in covers)
          /\ \A g \in Facilities : <<k, g>> \in covers' => g = f
      BY <1>1, <2>3, <2>6 DEF EngagementTypeOK
    <2>8. c # None /\ owner'[f] # None /\ Placed(k, f, row.customer)'
      BY <2>2, <2>5, EngagementsAssumption DEF Placed
    <2>9. moved' \subseteq Facilities \cup Sheets
      BY <1>1, <2>3 DEF EngagementTypeOK
    <2>10. QED
      BY <1>2, <2>2, <2>3, <2>4, <2>5, <2>7, <2>8, <2>9, RequestWritten
  <1>6. QED
    BY <1>4, <1>5

\* A request is edited.
LEMMA StoreUpdateStep ==
  ASSUME EngagementsInv, NEW d \in Desks, storeUpdate(d)
  PROVE  EngagementsInv'
  <1>1. EngagementTypeOK
    BY DEF EngagementsInv
  <1>2. PICK b \in Call : b = desk[d] /\ CallSound(b) /\ b.op = "update"
    BY <1>1 DEF EngagementsInv, EngagementTypeOK, storeUpdate
  <1>3. PICK k \in Sheets : k = b.sheet /\ Request(k)
    BY <1>2 DEF CallSound
  <1>4. PICK s \in Sheet : s = sheet[k] /\ s.kind = "request" /\ s.status = "NONE"
    BY <1>1, <1>3 DEF EngagementTypeOK, Request, Contract
  <1>5. PICK row : row = [s EXCEPT !.customer = Given(b.customer, s.customer),
                                   !.total = Given(b.total, s.total)]
    OBVIOUS
  <1>6. /\ Given(b.customer, s.customer) \in Customers \cup {None} /\ Given(b.total, s.total) \in Total
        /\ b.facility \in Facilities \cup {None}
    BY <1>2 DEF Call, Given, Sheet
  <1>7. /\ row \in Sheet /\ row.kind = "request" /\ row.status = "NONE"
        /\ row.customer = Given(b.customer, s.customer) /\ row.total = Given(b.total, s.total)
    BY <1>4, <1>5, <1>6 DEF Sheet
  <1>8. /\ sheet' = [sheet EXCEPT ![k] = row]
        /\ covers' = IF b.facility = None THEN covers
                     ELSE {p \in covers : p[1] # k} \cup {<<k, b.facility>>}
        /\ moved' = IF row.customer # s.customer THEN moved \cup {k} ELSE moved
        /\ basis' = IF b.total = None THEN basis ELSE [basis EXCEPT ![k] = "typed"]
        /\ desk' = [desk EXCEPT ![d] = Free]
        /\ UNCHANGED <<owner, line, checked>>
    BY <1>1, <1>2, <1>3, <1>4, <1>5, <1>7 DEF storeUpdate, EngagementTypeOK
  <1>9. desk' \in [Desks -> Call] /\ \A e \in Desks : Marked(desk[e], desk'[e])
    BY <1>1, <1>8, EndsAlone
  <1>10. /\ covers' \subseteq Sheets \X Facilities
         /\ \A o \in Sheets, g \in Facilities : o # k => (<<o, g>> \in covers' <=> <<o, g>> \in covers)
         /\ covers' = covers \/ \A g \in Facilities : <<k, g>> \in covers' => g = b.facility
         /\ b.facility = None => covers' = covers
    BY <1>1, <1>6, <1>8 DEF EngagementTypeOK
  <1>11. b.facility # None =>
           /\ b.facility \in Facilities /\ owner'[b.facility] # None
           /\ Placed(k, b.facility, row.customer)'
    <2> HAVE b.facility # None
    <2>1. owner[b.facility] # None /\ Placed(k, b.facility, row.customer)
      BY <1>2, <1>3, <1>4, <1>7 DEF CallSound
    <2>2. QED
      BY <1>6, <1>8, <2>1 DEF Placed
  <1>12. row.total = s.total \/ basis'[k] = "typed"
    BY <1>1, <1>7, <1>8 DEF Given, EngagementTypeOK
  <1>13. /\ row.customer = s.customer \/ k \in moved'
         /\ moved \subseteq moved' /\ moved' \subseteq Facilities \cup Sheets
         /\ owner' \in [Facilities -> Customers \cup {None}]
         /\ basis' = basis \/ basis' = [basis EXCEPT ![k] = "typed"]
    BY <1>1, <1>8 DEF EngagementTypeOK
  <1>14. QED
    BY <1>4, <1>7, <1>8, <1>9, <1>10, <1>11, <1>12, <1>13, RequestWritten

-----------------------------------------------------------------------------
\* A facility is taken from a contract: who is to activate it has missed that.
LEMMA RemoveFacilityStep ==
  ASSUME EngagementsInv, NEW k \in Sheets, NEW f \in Facilities, removeFacility(k, f)
  PROVE  EngagementsInv'
  <1>1. /\ EngagementTypeOK /\ Contract(k)
        /\ covers' = covers \ {<<k, f>>} /\ checked' = checked \ {k}
        /\ UNCHANGED <<owner, sheet, line, moved, basis>>
    BY DEF EngagementsInv, removeFacility
  <1>2. ASSUME NEW e \in Desks
        PROVE  /\ desk'[e] \in Call /\ Marked(desk[e], desk'[e])
               /\ desk'[e].op = "activate" /\ desk'[e].sheet = k => desk'[e].missed
    <2>1. PICK c \in Call : c = desk[e]
      BY <1>1 DEF EngagementTypeOK
    <2>2. /\ desk' \in [Desks -> {desk'[o] : o \in Desks}]
          /\ desk'[e] = IF e = None THEN Free
                        ELSE IF c.op = "activate" /\ c.sheet = k
                        THEN [c EXCEPT !.missed = TRUE] ELSE c
      BY <2>1 DEF removeFacility, End
    <2>3. PICK b : b = [c EXCEPT !.missed = TRUE]
      OBVIOUS
    <2>4. /\ b \in Call /\ b.missed /\ b.op = c.op /\ b.sheet = c.sheet /\ b.line = c.line
          /\ b.facility = c.facility /\ b.customer = c.customer /\ b.total = c.total /\ b.row = c.row
      BY <2>3 DEF Call
    <2>5. Free \in Call /\ Free.op = "idle"
      BY FreeSound DEF Free
    <2>6. QED
      BY <2>1, <2>2, <2>3, <2>4, <2>5 DEF Marked
  <1>3. desk' \in [Desks -> Call] /\ \A e \in Desks : Marked(desk[e], desk'[e])
    BY <1>2 DEF removeFacility, End
  <1>4. ASSUME NEW e \in Desks, NEW b \in Call, b = desk'[e], b.op = "activate" /\ ~b.missed
        PROVE  ActiveLines(b.sheet)' # {} /\ \E o \in Facilities : <<b.sheet, o>> \in covers'
    <2>1. PICK c \in Call : c = desk[e] /\ CallSound(c)
      BY <1>1 DEF EngagementsInv, EngagementTypeOK
    <2>2. CallSound(b) /\ b.sheet # k
      BY <1>2, <1>3, <1>4, <2>1 DEF Marked, CallSound
    <2>3. ActiveLines(b.sheet)' = ActiveLines(b.sheet)
      BY <1>1 DEF ActiveLines, LinesOf
    <2>4. QED
      BY <1>1, <1>4, <2>2, <2>3 DEF CallSound
  <1>5. (\A e \in Desks : CallSound(desk[e])') /\ LinesExclusive'
    BY <1>1, <1>3, <1>4, CallsKept
  <1>6. EngagementTypeOK'
    <2>1. ASSUME NEW o \in Sheets, Request(o)'
          PROVE  Cardinality({g \in Facilities : <<o, g>> \in covers'}) <= 1
      <3>1. Request(o) /\ o # k
        BY <1>1, <2>1 DEF Request, Contract
      <3>2. {g \in Facilities : <<o, g>> \in covers'} = {g \in Facilities : <<o, g>> \in covers}
        BY <1>1, <3>1
      <3>3. QED
        BY <1>1, <3>1, <3>2 DEF EngagementTypeOK
    <2>2. \A o \in Sheets : (Contract(o) <=> sheet[o].status # "NONE")'
      BY <1>1 DEF EngagementTypeOK, Contract
    <2>3. covers' \subseteq Sheets \X Facilities /\ checked' \subseteq Sheets
      BY <1>1 DEF EngagementTypeOK
    <2>4. QED
      BY <1>1, <1>3, <2>1, <2>2, <2>3 DEF EngagementTypeOK
  <1>7. ActiveUntilRemoval'
    BY <1>1 DEF EngagementsInv, ActiveUntilRemoval, ActiveLines, LinesOf
  <1>8. CoverSound' /\ ForeignFacilityOnlyByMove'
    BY <1>1 DEF EngagementsInv, CoverSound, ForeignFacilityOnlyByMove
  <1>9. LinesOwned' /\ NothingSummed' /\ TotalExactUnlessOverlap'
    BY <1>1 DEF EngagementsInv, LinesOwned, NothingSummed, TotalExactUnlessOverlap
  <1>10. QED
    BY <1>5, <1>6, <1>7, <1>8, <1>9 DEF EngagementsInv

-----------------------------------------------------------------------------
\* The prices of a sheet do not depend on another sheet's line.
LEMMA PricesOther ==
  ASSUME NEW rows \in [Lines -> Line], NEW x \in Lines, NEW row \in Line, NEW k,
         rows[x].sheet # k, row.sheet # k
  PROVE  Prices(k, [rows EXCEPT ![x] = row]) = Prices(k, rows)
  <1> DEFINE after == [rows EXCEPT ![x] = row]
             some(r) == {y \in Lines : r[y].sheet = k /\ r[y].active /\ r[y].amount # None}
  <1>1. \A y \in Lines : y # x => after[y] = rows[y]
    OBVIOUS
  <1>2. after[x] = row
    OBVIOUS
  <1> HIDE DEF after
  <1>3. some(after) = some(rows)
    BY <1>1, <1>2
  <1>4. \A y \in some(rows) : after[y] = rows[y]
    BY <1>1
  <1>5. Prices(k, after) = Prices(k, rows)
    BY <1>3, <1>4 DEF Prices
  <1>6. QED
    BY <1>5 DEF after

\* A transaction that summed the lines of a sheet commits: the total is that of
\* the lines there are now, unless another has committed in between.
LEMMA RecalculateStep ==
  ASSUME EngagementsInv, NEW d \in Desks, recalculateTotal(d)
  PROVE  EngagementsInv'
  <1>1. EngagementTypeOK
    BY DEF EngagementsInv
  <1>2. PICK b \in Call : b = desk[d] /\ CallSound(b) /\ b.op = "recalculate"
    BY <1>1 DEF EngagementsInv, EngagementTypeOK, recalculateTotal
  <1>3. PICK k \in Sheets, x \in Lines, row \in Line :
          /\ k = b.sheet /\ x = b.line /\ row = b.row /\ row.sheet = k
          /\ sheet[k].kind # "none" /\ line[x].sheet \in {k, None}
    BY <1>2 DEF CallSound, Call
  <1>4. b.missed \/ b.total = SumSeen(k, x, row)
    BY <1>2, <1>3 DEF CallSound, Sums
  <1>5. PICK dropped \in BOOLEAN : dropped = (line[x].active /\ ~row.active)
    OBVIOUS
  <1>6. PICK s \in Sheet : s = sheet[k]
    BY <1>1 DEF EngagementTypeOK
  <1>7. PICK v : v = [s EXCEPT !.total = b.total]
    OBVIOUS
  <1>8. /\ v \in Sheet /\ v.kind = s.kind /\ v.status = s.status /\ v.customer = s.customer
        /\ v.total = b.total
    BY <1>2, <1>7 DEF Sheet, Call
  <1>9. /\ line' = [line EXCEPT ![x] = row]
        /\ sheet' = [sheet EXCEPT ![k] = v]
        /\ basis' = [basis EXCEPT ![k] = IF b.missed THEN "stale" ELSE "summed"]
        /\ checked' = IF dropped THEN checked \ {k} ELSE checked
        /\ UNCHANGED <<owner, covers, moved>>
    BY <1>1, <1>2, <1>3, <1>5, <1>6, <1>7 DEF recalculateTotal, EngagementTypeOK
  <1>10. /\ line' \in [Lines -> Line] /\ line'[x] = row
         /\ \A y \in Lines : y # x => line'[y] = line[y]
         /\ sheet'[k] = v /\ sheet' \in [Sheets -> Sheet]
         /\ \A o \in Sheets : o # k => sheet'[o] = sheet[o] /\ basis'[o] = basis[o]
    BY <1>1, <1>8, <1>9 DEF EngagementTypeOK
  <1>11. ASSUME NEW e \in Desks
         PROVE  /\ desk'[e] \in Call /\ Marked(desk[e], desk'[e])
                /\ e = d => desk'[e].op = "idle"
                /\ desk'[e].sheet = k /\ desk'[e].op = "recalculate" => desk'[e].missed
                /\ desk'[e].sheet = k /\ desk'[e].op = "activate" /\ dropped => desk'[e].missed
    <2>1. PICK c \in Call : c = desk[e]
      BY <1>1 DEF EngagementTypeOK
    <2>2. desk'[e] = IF e = d THEN Free
                     ELSE IF c.sheet = k /\ (c.op = "recalculate" \/ (c.op = "activate" /\ dropped))
                     THEN [c EXCEPT !.missed = TRUE] ELSE c
      BY <1>2, <1>3, <1>5, <2>1 DEF recalculateTotal
    <2>3. PICK z : z = [c EXCEPT !.missed = TRUE]
      OBVIOUS
    <2>4. /\ z \in Call /\ z.missed /\ z.op = c.op /\ z.sheet = c.sheet /\ z.line = c.line
          /\ z.facility = c.facility /\ z.customer = c.customer /\ z.total = c.total /\ z.row = c.row
      BY <2>3 DEF Call
    <2>5. Free \in Call /\ Free.op = "idle"
      BY FreeSound DEF Free
    <2>6. QED
      BY <2>1, <2>2, <2>3, <2>4, <2>5 DEF Marked
  <1>12. desk' \in [Desks -> Call] /\ \A e \in Desks : Marked(desk[e], desk'[e])
    BY <1>11 DEF recalculateTotal
  <1>13. ASSUME NEW o \in Sheets, o # k \/ ~dropped, ActiveLines(o) # {}
         PROVE  ActiveLines(o)' # {}
    <2>1. PICK y \in Lines : line[y].sheet = o /\ line[y].active
      BY <1>13 DEF ActiveLines, LinesOf
    <2>2. line'[y].sheet = o /\ line'[y].active
      BY <1>3, <1>5, <1>10, <1>13, <2>1, EngagementsAssumption
    <2>3. QED
      BY <2>2 DEF ActiveLines, LinesOf
  <1>14. ASSUME NEW e \in Desks, NEW c \in Call, c = desk'[e], c.op = "activate" /\ ~c.missed
         PROVE  ActiveLines(c.sheet)' # {} /\ \E o \in Facilities : <<c.sheet, o>> \in covers'
    <2>1. CallSound(desk[e])
      BY DEF EngagementsInv
    <2>2. CallSound(c)
      BY <1>12, <1>14, <2>1 DEF Marked, CallSound
    <2>3. c.sheet # k \/ ~dropped
      BY <1>11, <1>14
    <2>4. /\ c.sheet \in Sheets /\ ActiveLines(c.sheet) # {}
          /\ \E o \in Facilities : <<c.sheet, o>> \in covers
      BY <1>14, <2>2 DEF CallSound
    <2>5. QED
      BY <1>9, <1>13, <2>3, <2>4
  <1>15. ASSUME NEW o \in Sheets, o # k
         PROVE  Prices(o, line') = Prices(o, line)
    <2>1. line[x].sheet # o /\ row.sheet # o
      BY <1>3, <1>15, EngagementsAssumption
    <2>2. line \in [Lines -> Line]
      BY <1>1 DEF EngagementTypeOK
    <2>3. Prices(o, [line EXCEPT ![x] = row]) = Prices(o, line)
      BY <2>1, <2>2, PricesOther
    <2>4. QED
      BY <1>9, <2>3
  <1>16. ASSUME NEW e \in Desks, NEW c \in Call, c = desk'[e], c.op = "recalculate"
         PROVE  /\ line'[c.line].sheet \in {c.sheet, None}
                /\ c.missed \/ Sums(c.total, c.sheet, c.line, c.row)'
    <2>1. CallSound(desk[e])
      BY DEF EngagementsInv
    <2>2. CallSound(c) /\ e # d
      BY <1>11, <1>12, <1>16, <2>1 DEF Marked, CallSound
    <2>3. desk[e].op = "recalculate" /\ desk[e].line = c.line
      BY <1>12, <1>16 DEF Marked
    <2>4. PICK y \in Lines, w \in Line : y = c.line /\ y # x /\ w = c.row
      BY <1>2, <1>3, <1>16, <2>2, <2>3 DEF EngagementsInv, LinesExclusive, CallSound, Call
    <2>5. line'[y] = line[y] /\ line[y].sheet \in {c.sheet, None}
      BY <1>10, <1>16, <2>2, <2>4 DEF CallSound
    <2>6. CASE c.sheet = k
      BY <1>11, <1>16, <2>4, <2>5, <2>6
    <2>7. CASE c.sheet # k
      <3>1. PICK o \in Sheets : o = c.sheet
        BY <1>16, <2>2 DEF CallSound
      <3>2. c.missed \/ c.total = TotalOf(Prices(o, [line EXCEPT ![y] = w]))
        BY <1>16, <2>2, <2>4, <3>1 DEF CallSound, Sums, SumSeen
      <3>3. PICK seen \in [Lines -> Line] : seen = [line EXCEPT ![y] = w]
        BY <1>1 DEF EngagementTypeOK
      <3>4. seen[x] = line[x]
        BY <1>1, <2>4, <3>3 DEF EngagementTypeOK
      <3>5. [line' EXCEPT ![y] = w] = [seen EXCEPT ![x] = row]
        BY <1>1, <1>9, <2>4, <3>3 DEF EngagementTypeOK
      <3>6. Prices(o, [seen EXCEPT ![x] = row]) = Prices(o, seen)
        <4>1. seen[x].sheet # o /\ row.sheet # o
          BY <1>3, <2>7, <3>1, <3>4, EngagementsAssumption
        <4>2. QED
          BY <4>1, PricesOther
      <3>7. c.missed \/ c.total = TotalOf(Prices(o, [line' EXCEPT ![y] = w]))
        BY <3>2, <3>3, <3>5, <3>6
      <3>8. QED
        BY <2>4, <2>5, <3>1, <3>7 DEF Sums, SumSeen
    <2>8. QED
      BY <2>6, <2>7
  <1>17. (\A e \in Desks : CallSound(desk[e])') /\ LinesExclusive'
    BY <1>3, <1>6, <1>8, <1>9, <1>10, <1>12, <1>14, <1>16, CallsKept
  <1>18. EngagementTypeOK'
    <2>1. ASSUME NEW o \in Sheets
          PROVE  /\ (Contract(o) <=> sheet[o].status # "NONE")'
                 /\ (Request(o) => Cardinality({f \in Facilities : <<o, f>> \in covers}) <= 1)'
      <3>1. sheet'[o].kind = sheet[o].kind /\ sheet'[o].status = sheet[o].status
        BY <1>6, <1>8, <1>10
      <3>2. QED
        BY <1>1, <1>9, <3>1 DEF EngagementTypeOK, Contract, Request
    <2>2. /\ basis' \in [Sheets -> {"typed", "summed", "stale"}] /\ checked' \subseteq Sheets
      BY <1>1, <1>9 DEF EngagementTypeOK
    <2>3. QED
      BY <1>1, <1>9, <1>10, <1>12, <2>1, <2>2 DEF EngagementTypeOK
  <1>19. TotalExactUnlessOverlap'
    <2> SUFFICES ASSUME NEW o \in Sheets, basis'[o] = "summed"
                 PROVE  sheet'[o].total = TotalOf(Prices(o, line'))
      BY DEF TotalExactUnlessOverlap, Prices, TotalOf
    <2>1. CASE o = k
      <3>1. ~b.missed
        BY <1>1, <1>9, <2>1 DEF EngagementTypeOK
      <3>2. QED
        BY <1>4, <1>8, <1>9, <1>10, <2>1, <3>1 DEF SumSeen
    <2>2. CASE o # k
      BY <1>10, <1>15, <2>2 DEF EngagementsInv, TotalExactUnlessOverlap
    <2>3. QED
      BY <2>1, <2>2
  <1>20. ActiveUntilRemoval'
    <2> SUFFICES ASSUME NEW o \in checked'
                 PROVE  /\ sheet'[o].status = "ACTIVE" /\ ActiveLines(o)' # {}
                        /\ \E f \in Facilities : <<o, f>> \in covers'
      BY DEF ActiveUntilRemoval
    <2>1. o \in Sheets /\ o \in checked /\ (o # k \/ ~dropped)
      BY <1>1, <1>9 DEF EngagementTypeOK
    <2>2. /\ sheet[o].status = "ACTIVE" /\ ActiveLines(o) # {}
          /\ \E f \in Facilities : <<o, f>> \in covers
      BY <2>1 DEF EngagementsInv, ActiveUntilRemoval
    <2>3. QED
      BY <1>6, <1>8, <1>9, <1>10, <1>13, <2>1, <2>2
  <1>21. LinesOwned' /\ NothingSummed'
    BY <1>3, <1>6, <1>8, <1>10 DEF EngagementsInv, LinesOwned, NothingSummed
  <1>22. CoverSound' /\ ForeignFacilityOnlyByMove'
    BY <1>6, <1>8, <1>9, <1>10 DEF EngagementsInv, CoverSound, ForeignFacilityOnlyByMove
  <1>23. QED
    BY <1>17, <1>18, <1>19, <1>20, <1>21, <1>22 DEF EngagementsInv

-----------------------------------------------------------------------------
\* Every step keeps the state of sheets, facilities and calls.
LEMMA EngagementsInductive ==
  EngagementsInv /\ [EngagementNext]_engagementVars => EngagementsInv'
  <1> SUFFICES ASSUME EngagementsInv, [EngagementNext]_engagementVars PROVE EngagementsInv'
    OBVIOUS
  <1>1. CASE \E f \in Facilities, c \in Customers : createFacility(f, c) \/ updateFacility(f, c)
    BY <1>1, FacilityStep
  <1>2. ASSUME NEW k \in Sheets, SheetSteps(k) PROVE EngagementsInv'
    <2>1. CASE \E f \in Facilities : removeFacility(k, f)
      BY <2>1, RemoveFacilityStep
    <2>2. CASE \E c \in Customers, f \in Facilities : bookWithFacility(k, c, f)
      BY <2>2, CreateRequestStep
    <2>3. QED
      BY <1>2, <2>1, <2>2, ContractStep DEF SheetSteps
  <1>3. ASSUME NEW d \in Desks, DeskSteps(d) PROVE EngagementsInv'
    <2>1. ASSUME NEW k \in Sheets, NEW x \in Lines, NEW amount \in Amounts \cup {None},
                 \/ addItem(d, k, x, amount)
                 \/ \E active \in BOOLEAN : createService(d, k, x, amount, active)
          PROVE  EngagementsInv'
      BY <2>1, LineStep
    <2>2. ASSUME NEW x \in Lines, NEW amount \in Amounts \cup {None}, NEW active \in BOOLEAN,
                 updateContractService(d, x, amount, active)
          PROVE  EngagementsInv'
      BY <2>2, LineStep
    <2>3. CASE activate(d) \/ storeFacility(d)
      BY <2>3, ActivateStep, StoreFacilityStep
    <2>4. CASE storeRequest(d) \/ storeUpdate(d)
      BY <2>4, CreateRequestStep, StoreUpdateStep
    <2>5. CASE recalculateTotal(d)
      BY <2>5, RecalculateStep
    <2>6. ASSUME NEW k \in Sheets,
                 \/ countForActivation(d, k)
                 \/ \E f \in Facilities : addFacility(d, k, f)
                 \/ \E f \in Facilities \cup {None}, total \in Amounts \cup {None} :
                      \/ \E c \in Customers : createRequest(d, k, c, f, total)
                      \/ \E c \in Customers \cup {None} : updateRequest(d, k, c, f, total)
          PROVE  EngagementsInv'
      BY <2>6, BeginStep
    <2>7. QED
      BY <1>3, <2>1, <2>2, <2>3, <2>4, <2>5, <2>6 DEF DeskSteps
  <1>4. CASE UNCHANGED engagementVars
    <2>1. UNCHANGED <<owner, sheet, covers, line, desk, moved, basis, checked>>
      BY <1>4 DEF engagementVars
    <2>2. EngagementTypeOK'
      BY <2>1 DEF EngagementsInv, EngagementTypeOK, Contract, Request
    <2>3. QED
      BY <2>1, <2>2, RowsWritten DEF EngagementsInv, NothingSummed, EngagementTypeOK
  <1>5. QED
    BY <1>1, <1>2, <1>3, <1>4 DEF EngagementNext

\* There is nothing at first.
LEMMA EngagementsInitially == EngagementInit => EngagementsInv
  <1> SUFFICES ASSUME EngagementInit PROVE EngagementsInv
    OBVIOUS
  <1>1. None \in Total /\ NoLine \in Line
    BY DEF Total, NoLine, Line
  <1>2. NoSheet \in Sheet
    BY <1>1 DEF NoSheet, Sheet
  <1>3. Free \in Call /\ CallSound(Free)
    BY FreeSound
  <1>4. \A k \in Sheets : {f \in Facilities : <<k, f>> \in covers} = {}
    BY DEF EngagementInit
  <1>5. \A k \in Sheets : sheet[k].kind = "none" /\ sheet[k].status = "NONE"
    BY DEF EngagementInit, NoSheet
  <1>6. EngagementTypeOK
    BY <1>1, <1>2, <1>3, <1>4, <1>5 DEF EngagementInit, EngagementTypeOK, Contract, Request
  <1>7. /\ LinesExclusive /\ LinesOwned /\ CoverSound /\ NothingSummed
        /\ TotalExactUnlessOverlap /\ ActiveUntilRemoval /\ ForeignFacilityOnlyByMove
    BY <1>3 DEF EngagementInit, LinesExclusive, LinesOwned, CoverSound, NothingSummed,
          TotalExactUnlessOverlap, ActiveUntilRemoval, ForeignFacilityOnlyByMove, Free
  <1>8. QED
    BY <1>3, <1>6, <1>7 DEF EngagementInit, EngagementsInv

\* The state of sheets, facilities and calls, at every moment.
LEMMA EngagementsAlways == EngagementSpec => []EngagementsInv
  <1>1. QED
    BY EngagementsInitially, EngagementsInductive, PTL DEF EngagementSpec

\* Every row and every call keeps its type; a request is for one facility at
\* most, and only a contract has a status (the tables of the schema).
THEOREM EngagementsTypeCorrect == EngagementSpec => []EngagementTypeOK
  <1>1. EngagementsInv => EngagementTypeOK
    BY DEF EngagementsInv
  <1>2. QED
    BY <1>1, EngagementsAlways, PTL

\* A total that was summed is the sum of the active priced lines, unless two
\* sums overlapped (recalculateContractTotal, recalculateEstimatedAmount).
THEOREM TotalsExact == EngagementSpec => []TotalExactUnlessOverlap
  <1>1. EngagementsInv => TotalExactUnlessOverlap
    BY DEF EngagementsInv
  <1>2. QED
    BY <1>1, EngagementsAlways, PTL

\* A contract that was activated with nothing removed in between has a facility
\* and an active service until one is removed (updateStatus).
THEOREM ActivatedIsBacked == EngagementSpec => []ActiveUntilRemoval
  <1>1. EngagementsInv => ActiveUntilRemoval
    BY DEF EngagementsInv
  <1>2. QED
    BY <1>1, EngagementsAlways, PTL

\* A contract or request is for its customer's facilities, unless it or the
\* facility was given to another (addFacility, assertFacility).
THEOREM FacilitiesAreTheCustomers == EngagementSpec => []ForeignFacilityOnlyByMove
  <1>1. EngagementsInv => ForeignFacilityOnlyByMove
    BY DEF EngagementsInv
  <1>2. QED
    BY <1>1, EngagementsAlways, PTL
=============================================================================
