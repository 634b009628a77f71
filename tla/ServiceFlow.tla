----------------------------- MODULE ServiceFlow -----------------------------
(***************************************************************************)
(* From a service request to field work and back: the status life cycles   *)
(* of service requests, work orders and shifts, conversion, and the staff  *)
(* portal's clock-in and clock-out, which drive all three                  *)
(* (service-requests, work-orders, scheduling, staff-portal services).     *)
(*                                                                         *)
(* A member of Calls is a conversion, clock-in or clock-out in flight.  At *)
(* READ COMMITTED each of its queries sees what is committed by then; rows *)
(* it writes are locked until it commits.  The other handlers write one    *)
(* row, without using what they read, and are one step.                    *)
(***************************************************************************)
EXTENDS Integers, FiniteSets

CONSTANTS
  Requests, WorkOrders, Shifts, Staff,
  Records,        \* attendance rows that may be created
  Calls,
  RequestInputs,  \* statuses the desk may give a request,
  WorkInputs,     \* a work order
  ShiftInputs,    \* and a shift
  MaxManual,      \* bound: attendance rows that managers touch
  None            \* null

VARIABLES
  request,     \* ServiceRequest.status; "ABSENT" before the row exists
  work,        \* WorkOrder.status and .serviceRequestId
  shift,       \* Shift.status
  assigned,    \* WorkOrderAssignment rows, as pairs <<work order, employee>>
  attendance,  \* Attendance rows: whose, and whether clockOutAt is set
  log,         \* toStatus of a request's or work order's last history row
  call,        \* per request in flight: what it has read so far
  silent,      \* history: rows whose last status write left no history row
  manual,      \* history: attendance rows a manager created or edited
  closeouts,   \* history: how many clock-outs were stored in an attendance
  settledBy    \* history: "closeout" if a clock-out decided the request;
               \* "relinked" once a work order was moved to it or from it

rows    == <<request, work, shift, assigned, attendance, log>>
history == <<silent, manual, closeouts, settledBy>>
vars    == <<rows, call, history>>

RequestStatus ==
  {"DRAFT", "SUBMITTED", "UNDER_REVIEW", "APPROVED", "REJECTED", "SCHEDULED",
   "ASSIGNED", "IN_PROGRESS", "ON_HOLD", "QA_REVIEW", "CUSTOMER_REVIEW",
   "COMPLETED", "CANCELLED", "INVOICED"}
WorkStatus ==
  {"CREATED", "SCHEDULED", "ASSIGNED", "DISPATCHED", "IN_PROGRESS", "PAUSED",
   "COMPLETED", "QA_FAILED", "QA_PASSED", "CUSTOMER_APPROVED", "CANCELLED"}
ShiftStatus ==
  {"DRAFT", "SCHEDULED", "CONFIRMED", "IN_PROGRESS", "COMPLETED", "MISSED",
   "CANCELLED"}

ASSUME ServiceFlowAssumption ==
  /\ IsFiniteSet(Records) /\ IsFiniteSet(Calls)
  /\ RequestInputs \subseteq RequestStatus /\ WorkInputs \subseteq WorkStatus
  /\ ShiftInputs \subseteq ShiftStatus
  /\ MaxManual \in Nat
  /\ Requests \cap WorkOrders = {}
  /\ None \notin Staff \cup Records \cup Requests \cup WorkOrders \cup Shifts

NoWork   == [status |-> "ABSENT", request |-> None]
NoRecord == [staff |-> None, open |-> FALSE]
Idle     ==  \* what a request in flight has read and is going to write
  [stage |-> "idle", staff |-> None, record |-> None, shift |-> None,
   work |-> None, request |-> None, ends |-> FALSE, completes |-> FALSE,
   startsShift |-> FALSE, newWork |-> "unchanged", newRequest |-> "unchanged"]

Stage   == {"idle", "converting", "begun", "read", "locked"}
CallRow ==
  [stage : Stage, staff : Staff \cup {None}, record : Records \cup {None},
   shift : Shifts \cup {None}, work : WorkOrders \cup {None},
   request : Requests \cup {None}, ends : BOOLEAN, completes : BOOLEAN,
   startsShift : BOOLEAN, newWork : WorkStatus \cup {"unchanged"},
   newRequest : RequestStatus \cup {"unchanged"}]

IsRequest(r) == request[r] # "ABSENT"
IsWork(w)    == work[w] # NoWork
IsRecord(a)  == attendance[a] # NoRecord
IsFresh(a)   == ~IsRecord(a) /\ \A c \in Calls : call[c].record # a

Init ==
  /\ request    = [r \in Requests |-> "ABSENT"]
  /\ work       = [w \in WorkOrders |-> NoWork]
  /\ shift      \in [Shifts -> {"DRAFT", "SCHEDULED", "CONFIRMED"}]
  /\ assigned   = {}
  /\ attendance = [a \in Records |-> NoRecord]
  /\ log        = [x \in Requests \cup WorkOrders |-> "ABSENT"]
  /\ call       = [c \in Calls |-> Idle]
  /\ silent     = {}
  /\ manual     = {}
  /\ closeouts  = [a \in Records |-> 0]
  /\ settledBy  = [r \in Requests |-> "desk"]

-----------------------------------------------------------------------------
\* Rows a transaction in flight has written and not committed: writers wait.
Locking(c)    == call[c].stage = "locked"
WritesWork(c) == call[c].newWork # "unchanged"

WorkLocked(w) ==
  \E c \in Calls : Locking(c) /\ call[c].work = w /\ WritesWork(c)
RecordLocked(a) ==
  \E c \in Calls : Locking(c) /\ call[c].record = a
ShiftLocked(s) ==
  \E c \in Calls : Locking(c) /\ call[c].shift = s /\ call[c].startsShift

\* Who decided these requests last.
Settle(affected, who) ==
  settledBy' = [r \in Requests |->
    IF r \in affected /\ settledBy[r] # "relinked" THEN who ELSE settledBy[r]]

\* Service requests.
WriteRequest(r, s) ==
  /\ request' = [request EXCEPT ![r] = s]
  /\ Settle({r}, "desk")
  /\ UNCHANGED <<work, shift, assigned, attendance, call, manual, closeouts>>

\* Mutant of Logged: the history row is forgotten.
LoggedNowhere(x, s) == UNCHANGED log /\ silent' = silent \ {x}

Logged(x, s) == log' = [log EXCEPT ![x] = s] /\ silent' = silent \ {x}
Unlogged(x)  == UNCHANGED log /\ silent' = silent \cup {x}

CreateRequest(r) ==
  /\ ~IsRequest(r)
  /\ \E s \in RequestInputs \cup {"SUBMITTED"} : WriteRequest(r, s) /\ Logged(r, s)

\* Approving, rejecting and cancelling are instances.
UpdateRequestStatus(r) ==
  /\ IsRequest(r)
  /\ \E s \in RequestInputs : WriteRequest(r, s) /\ Logged(r, s)

\* PATCH of the request: a status in it is stored without a history row.
UpdateRequest(r) ==
  /\ IsRequest(r)
  /\ \E s \in RequestInputs : WriteRequest(r, s) /\ Unlogged(r)

\* Work orders.
WriteWork(w, s, r) ==
  /\ work' = [work EXCEPT ![w] = [status |-> s, request |-> r]]
  /\ Settle({work[w].request, r},
            IF IsWork(w) /\ r # work[w].request THEN "relinked" ELSE "desk")
  /\ UNCHANGED <<request, shift, assigned, attendance, call, manual, closeouts>>

ExistingRequests == {r \in Requests : IsRequest(r)}

CreateWork(w) ==
  /\ ~IsWork(w)
  /\ \E s \in WorkInputs \cup {"CREATED"}, r \in ExistingRequests \cup {None} :
       WriteWork(w, s, r) /\ Logged(w, s)

UpdateWorkStatus(w) ==
  /\ IsWork(w) /\ ~WorkLocked(w)
  /\ \E s \in WorkInputs : WriteWork(w, s, work[w].request) /\ Logged(w, s)

UpdateWork(w) ==
  /\ IsWork(w) /\ ~WorkLocked(w)
  /\ \/ \E s \in WorkInputs : WriteWork(w, s, work[w].request) /\ Unlogged(w)
     \/ \E r \in ExistingRequests :
          WriteWork(w, work[w].status, r) /\ UNCHANGED <<log, silent>>

Signoff(w) ==
  /\ IsWork(w) /\ ~WorkLocked(w)
  /\ WriteWork(w, "CUSTOMER_APPROVED", work[w].request)
  /\ Unlogged(w)

AddAssignment(w, e) ==
  /\ IsWork(w) /\ <<w, e>> \notin assigned
  /\ assigned' = assigned \cup {<<w, e>>}
  /\ UNCHANGED <<request, work, shift, attendance, log, call, history>>

UpdateShiftStatus(s) ==
  /\ ~ShiftLocked(s)
  /\ \E status \in ShiftInputs : shift' = [shift EXCEPT ![s] = status]
  /\ UNCHANGED <<request, work, assigned, attendance, log, call, history>>

-----------------------------------------------------------------------------
\* Conversion: the guard reads the request outside the transaction.
ReadToConvert(c, r) ==
  /\ call[c] = Idle
  /\ IsRequest(r) /\ request[r] \notin {"REJECTED", "CANCELLED"}
  /\ call' = [call EXCEPT ![c].stage = "converting", ![c].request = r]
  /\ UNCHANGED <<rows, history>>

\* The transaction writes the request whatever it has become.
ConvertToWorkOrder(c, w) ==
  LET r == call[c].request IN
  /\ call[c].stage = "converting"
  /\ ~IsWork(w)
  /\ work'    = [work EXCEPT ![w] = [status |-> "CREATED", request |-> r]]
  /\ request' = [request EXCEPT ![r] = "SCHEDULED"]
  /\ log'     = [log EXCEPT ![w] = "CREATED", ![r] = "SCHEDULED"]
  /\ silent'  = silent \ {w, r}
  /\ Settle({r}, "desk")
  /\ call'    = [call EXCEPT ![c] = Idle]
  /\ UNCHANGED <<shift, assigned, attendance, manual, closeouts>>

-----------------------------------------------------------------------------
\* Attendance a manager keeps by hand.
ByManager(a) == manual' = manual \cup {a} /\ Cardinality(manual') <= MaxManual

CreateAttendance(a, e) ==
  /\ IsFresh(a)
  /\ ByManager(a)
  /\ \E open \in BOOLEAN :
       attendance' = [attendance EXCEPT ![a] = [staff |-> e, open |-> open]]
  /\ UNCHANGED <<request, work, shift, assigned, log, call, silent, closeouts, settledBy>>

\* A clockOutAt can be set but not cleared; the employee may change.
UpdateAttendance(a) ==
  /\ IsRecord(a) /\ ~RecordLocked(a)
  /\ ByManager(a)
  /\ \E e \in Staff, open \in {FALSE, attendance[a].open} :
       attendance' = [attendance EXCEPT ![a] = [staff |-> e, open |-> open]]
  /\ UNCHANGED <<request, work, shift, assigned, log, call, silent, closeouts, settledBy>>

-----------------------------------------------------------------------------
\* Clock-in and clock-out.
\* Mutant of OpenRecords: the test for a missing clockOutAt is dropped.
OpenRecordsAny(e) == {a \in Records : attendance[a].staff = e}

OpenRecords(e) ==
  {a \in Records : attendance[a].staff = e /\ attendance[a].open}

\* Mutant of MayClockIn: the check for an open record is dropped.
MayClockInAnyway(e) == e \in Staff

MayClockIn(e) == OpenRecords(e) = {}

\* "You are already clocked in", unless no open record is found.
BeginClockIn(c, e) ==
  /\ call[c] = Idle
  /\ MayClockIn(e)
  /\ \E s \in Shifts \cup {None}, w \in WorkOrders \cup {None} :
       call' = [call EXCEPT ![c] =
         [Idle EXCEPT !.stage = "begun", !.staff = e, !.shift = s, !.work = w]]
  /\ UNCHANGED <<rows, history>>

\* The record named in the request, or the employee's latest open one; the
\* work order named in the request, or the record's.
BeginClockOut(c, e) ==
  /\ call[c] = Idle
  /\ \E a \in OpenRecords(e), w \in WorkOrders \cup {None}, completes \in BOOLEAN :
       call' = [call EXCEPT ![c] =
         [Idle EXCEPT !.stage = "begun", !.staff = e, !.record = a, !.work = w,
                      !.ends = TRUE, !.completes = completes]]
  /\ UNCHANGED <<rows, history>>

Startable == {"CREATED", "SCHEDULED", "ASSIGNED", "DISPATCHED", "PAUSED"}

\* What the call will write to a work order it finds in this status.
NewWorkStatus(c, status) ==
  CASE ~call[c].ends /\ status \in Startable -> "IN_PROGRESS"
    [] call[c].ends /\ call[c].completes /\ status # "COMPLETED" -> "COMPLETED"
    [] OTHER -> "unchanged"

\* assertAssignedShift and assertAssignedWorkOrder, which also read the rows.
ReadAssignment(c) ==
  LET w == call[c].work
      s == call[c].shift
  IN
  /\ call[c].stage = "begun"
  /\ w # None => <<w, call[c].staff>> \in assigned
  /\ call' = [call EXCEPT ![c] =
       [@ EXCEPT !.stage = "read",
          !.startsShift = s # None /\ shift[s] \in {"SCHEDULED", "CONFIRMED"},
          !.request     = IF w = None THEN None ELSE work[w].request,
          !.newWork     = IF w = None THEN "unchanged"
                                      ELSE NewWorkStatus(c, work[w].status)]]
  /\ UNCHANGED <<rows, history>>

\* Mutant of Blocked: nothing is locked, as without a transaction.
BlockedNever(c) == call[c].stage # "read"

\* Another transaction in flight has written a row this one is to write.
Blocked(c) ==
  \/ call[c].ends /\ RecordLocked(call[c].record)
  \/ WritesWork(c) /\ WorkLocked(call[c].work)
  \/ call[c].startsShift /\ ShiftLocked(call[c].shift)
  \/ \E d \in Calls : /\ Locking(d) /\ call[c].work # None
                      /\ call[d].work = call[c].work
                      /\ call[d].staff = call[c].staff

\* updateServiceRequestFromWorkOrder: a clock-in on any work order restarts the
\* request, a clock-out only when it completes the work order.
NewRequestStatus(c) ==
  LET target == IF call[c].ends THEN "COMPLETED" ELSE "IN_PROGRESS" IN
  IF \/ call[c].request = None
     \/ call[c].ends /\ ~WritesWork(c)
  THEN "unchanged"
  ELSE IF request[call[c].request] = target THEN "unchanged" ELSE target

\* The attendance, shift, assignment and work order are written, uncommitted,
\* and only then the request is read.
WriteField(c) ==
  /\ call[c].stage = "read"
  /\ ~Blocked(c)
  /\ \E a \in IF call[c].ends THEN {call[c].record} ELSE {b \in Records : IsFresh(b)} :
       call' = [call EXCEPT ![c] =
         [@ EXCEPT !.stage = "locked", !.record = a,
                   !.newRequest = NewRequestStatus(c)]]
  /\ UNCHANGED <<rows, history>>

\* f with key's value replaced, when there is a key and something to write.
Put(f, key, value) ==
  IF value = "unchanged" THEN f ELSE [f EXCEPT ![key] = value]

\* The request is written and the transaction commits.
CommitField(c) ==
  LET w == call[c].work
      r == call[c].request
      a == call[c].record
  IN
  /\ call[c].stage = "locked"
  /\ attendance' = [attendance EXCEPT ![a] =
       IF call[c].ends THEN [@ EXCEPT !.open = FALSE]
                       ELSE [staff |-> call[c].staff, open |-> TRUE]]
  /\ closeouts' = [closeouts EXCEPT ![a] = @ + IF call[c].ends THEN 1 ELSE 0]
  /\ shift' = IF call[c].startsShift
               THEN [shift EXCEPT ![call[c].shift] = "IN_PROGRESS"] ELSE shift
  /\ work' = IF WritesWork(c)
              THEN [work EXCEPT ![w].status = call[c].newWork] ELSE work
  /\ request'   = Put(request, r, call[c].newRequest)
  /\ log'       = Put(Put(log, w, call[c].newWork), r, call[c].newRequest)
  /\ silent'    = silent \ ((IF WritesWork(c) THEN {w} ELSE {})
                       \cup (IF call[c].newRequest # "unchanged" THEN {r} ELSE {}))
  /\ Settle(IF call[c].newRequest = "unchanged" THEN {} ELSE {r},
            IF call[c].ends THEN "closeout" ELSE "desk")
  /\ call' = [call EXCEPT ![c] = Idle]
  /\ UNCHANGED <<assigned, manual>>

\* An assertion throws, a connection is lost, the process dies: rolled back.
Fail(c) ==
  /\ call[c] # Idle
  /\ call' = [call EXCEPT ![c] = Idle]
  /\ UNCHANGED <<rows, history>>

Next ==
  \/ \E r \in Requests :
       CreateRequest(r) \/ UpdateRequestStatus(r) \/ UpdateRequest(r)
  \/ \E w \in WorkOrders :
       CreateWork(w) \/ UpdateWorkStatus(w) \/ UpdateWork(w) \/ Signoff(w)
  \/ \E w \in WorkOrders, e \in Staff : AddAssignment(w, e)
  \/ \E s \in Shifts : UpdateShiftStatus(s)
  \/ \E a \in Records : UpdateAttendance(a) \/ \E e \in Staff : CreateAttendance(a, e)
  \/ \E c \in Calls, r \in Requests : ReadToConvert(c, r)
  \/ \E c \in Calls, w \in WorkOrders : ConvertToWorkOrder(c, w)
  \/ \E c \in Calls, e \in Staff : BeginClockIn(c, e) \/ BeginClockOut(c, e)
  \/ \E c \in Calls :
       ReadAssignment(c) \/ WriteField(c) \/ CommitField(c) \/ Fail(c)

Spec == Init /\ [][Next]_vars

-----------------------------------------------------------------------------
TypeOK ==
  /\ request \in [Requests -> RequestStatus \cup {"ABSENT"}]
  /\ work \in [WorkOrders -> [status : WorkStatus \cup {"ABSENT"},
                             request : Requests \cup {None}]]
  /\ shift \in [Shifts -> ShiftStatus]
  /\ assigned \subseteq WorkOrders \X Staff
  /\ attendance \in [Records -> [staff : Staff \cup {None}, open : BOOLEAN]]
  /\ log \in [Requests \cup WorkOrders -> RequestStatus \cup WorkStatus \cup {"ABSENT"}]
  /\ call \in [Calls -> CallRow]
  /\ silent \subseteq Requests \cup WorkOrders
  /\ manual \subseteq Records
  /\ closeouts \in [Records -> Nat]
  /\ settledBy \in [Requests -> {"desk", "closeout", "relinked"}]

\* Every status a request or work order shows is the one its newest history row
\* names, except after a PATCH or a sign-off, the writes that leave no row:
\* however clock-ins, clock-outs, conversions and the desk interleave.
HistoryExplainsStatus ==
  /\ \A r \in Requests \ silent : request[r] = log[r]
  /\ \A w \in WorkOrders \ silent : work[w].status = log[w]

\* A request that a clock-out completed, that the desk has not touched since
\* and whose work orders always were its own, has a completed work order: no
\* clock-in that read the work order earlier leaves the request completed over
\* work it has reopened.  It is the work order's lock, held while the request
\* is read, that achieves this.
CompletedRequestHasCompletedWork ==
  \A r \in Requests : settledBy[r] = "closeout" =>
    \E w \in WorkOrders : work[w].request = r /\ work[w].status = "COMPLETED"

\* The clock-ins of an employee that found no open record and may still commit.
Opening(e) ==
  {c \in Calls : call[c].staff = e /\ ~call[c].ends /\ call[c].stage # "idle"}

\* "Already clocked in" bounds the open records the portal itself created by
\* the number of overlapping requests, whatever was closed in between.
OpenBoundedByOverlap ==
  \A e \in Staff :
    Cardinality(OpenRecords(e) \ manual) + Cardinality(Opening(e))
      <= Cardinality(Calls)

\* A closed record is closed again only by clock-outs that read it open before:
\* never more of them than requests overlap.
ClosedOncePerOverlap ==
  \A a \in Records : closeouts[a] <= Cardinality(Calls)

\* The portal's "You are already clocked in": an employee has at most one open
\* record from the portal.
AlreadyClockedIn == \A e \in Staff : Cardinality(OpenRecords(e) \ manual) <= 1

\* "Rejected or cancelled requests cannot become work orders": a conversion
\* never takes a request out of either status.
RejectedNeverConverted ==
  [][\A r \in Requests, w \in WorkOrders :
       /\ ~IsWork(w) /\ work'[w].request = r
       /\ request'[r] # request[r]
       => request[r] \notin {"REJECTED", "CANCELLED"}]_vars
=============================================================================
