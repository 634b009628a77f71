------------------------------- MODULE Roster -------------------------------
(***************************************************************************)
(* Who works when: shifts, schedules of work orders, the assignments to    *)
(* both, leave requests and corrected attendance records                   *)
(* (scheduling.service.ts; addAssignment and update of work-orders).       *)
(*                                                                         *)
(* The four kinds of row have two dates each and differ in how an edit of  *)
(* them is checked; a behaviour fixes the kind of each member of Rows at   *)
(* its start.  A member of Planners is an edit or an assignment in flight: *)
(* it reads its row, checks, and writes, and anything may happen between.  *)
(***************************************************************************)
EXTENDS Integers, FiniteSets

CONSTANTS
  Rows, Employees, Planners,
  Times,  \* dates, in order
  None    \* null: a date not given

ASSUME RosterAssumption == Times \subseteq Int /\ None \notin Times

VARIABLES
  kind,      \* per row: which table it is in
  span,      \* per row: its dates; Absent while there is none
  rowStatus, \* per row: work order "OPEN" or "CLOSED" (completed, cancelled);
             \* the status of a leave request
  booked,    \* <<row, employee>>: assignments that are not cancelled
  planner,
  excused,   \* history: <<employee, {row, row}>> whose clash no check could see
  loose      \* history: rows whose inverted dates no check could see

rosterVars == <<kind, span, rowStatus, booked, planner, excused, loose>>

Kinds == {"shift", "workOrder", "leave", "attendance"}
LeaveStatus == {"REQUESTED", "APPROVED", "REJECTED", "CANCELLED"}
Date == Times \cup {None}
Absent == [from |-> None, to |-> None, absent |-> TRUE]
Span(from, to) == [from |-> from, to |-> to, absent |-> FALSE]
Resting == [op |-> "idle", row |-> None, who |-> None, from |-> None, to |-> None,
            missed |-> {}]

RosterTypeOK ==
  /\ kind \in [Rows -> Kinds]
  /\ span \in [Rows -> [from : Date, to : Date, absent : BOOLEAN]]
  /\ rowStatus \in [Rows -> {"OPEN", "CLOSED"} \cup LeaveStatus]
  /\ booked \subseteq {x \in Rows : kind[x] \in {"shift", "workOrder"}} \X Employees
  /\ planner \in [Planners ->
       [op : {"idle", "edit", "check", "book"}, row : Rows \cup {None},
        who : Employees \cup {None}, from : Date, to : Date, missed : SUBSET Rows]]
  /\ excused \subseteq Employees \X SUBSET Rows
  /\ loose \subseteq Rows
  /\ \A x \in Rows : \* columns that are not nullable
       kind[x] \in {"shift", "leave"} /\ ~span[x].absent => None \notin {span[x].from, span[x].to}

RosterInit ==
  /\ kind \in [Rows -> Kinds]
  /\ span = [x \in Rows |-> Absent]
  /\ rowStatus = [x \in Rows |-> "OPEN"]
  /\ booked = {}
  /\ planner = [p \in Planners |-> Resting]
  /\ excused = {} /\ loose = {}

-----------------------------------------------------------------------------
Given(x) == ~span[x].absent
InOrder(from, to) == (from # None /\ to # None) => from <= to
\* Mutant of Else: a date that is not given is cleared.
Cleared(new, old) == new

Else(new, old) == IF new = None THEN old ELSE new

Plan(p, rec) == planner[p] = Resting /\ planner' = [planner EXCEPT ![p] = rec]

(* Row x has changed: an edit of one of its dates or an assignment to it   *)
(* that has read it, or an assignment that has looked for clashes, missed  *)
(* that.                                                                   *)
Missing(call, x) ==
  IF \/ call.op = "book"
     \/ call.row = x /\ call.op = "check"
     \/ call.row = x /\ call.op = "edit" /\ None \in {call.from, call.to}
  THEN [call EXCEPT !.missed = @ \cup {x}] ELSE call
MissedBy(p, x) ==
  [q \in Planners |-> IF q = p THEN Resting ELSE Missing(planner[q], x)]

Engaged(x, e) == <<x, e>> \in booked /\ rowStatus[x] # "CLOSED"

Overlap(a, b) ==
  /\ None \notin {a.from, a.to, b.from, b.to}
  /\ a.from < b.to /\ a.to > b.from

(* An employee engaged in two rows of one table at one time.               *)
Clash(e, x, y) ==
  /\ x # y /\ kind[x] = kind[y] /\ Overlap(span[x], span[y])
  /\ Engaged(x, e) /\ Engaged(y, e)

Booked(x) == {e \in Employees : <<x, e>> \in booked}
Excuse(pairs) ==
  excused' = {c \in excused \cup pairs : (\A x, y \in c[2] : x # y => Clash(c[1], x, y))'}
MovedClashes(x) == {<<e, {x, y}>> : e \in Booked(x), y \in Rows \ {x}}

-----------------------------------------------------------------------------
(* A shift has both dates, an attendance record and a work order may lack  *)
(* them.  A leave request of an employee's own starts as REQUESTED, a      *)
(* manager gives it any status.                                            *)
CreateRow(x, from, to, status) ==
  /\ ~Given(x) /\ InOrder(from, to)
  /\ span' = [span EXCEPT ![x] = Span(from, to)]
  /\ rowStatus' = [rowStatus EXCEPT ![x] = status]
  /\ UNCHANGED <<kind, booked, planner, excused, loose>>

CreateShift(x) ==
  \E from, to \in Times : kind[x] = "shift" /\ CreateRow(x, from, to, "OPEN")

CreateWorkOrder(x) ==
  \E from, to \in Date : kind[x] = "workOrder" /\ CreateRow(x, from, to, "OPEN")

CreateAttendance(x) ==
  \E from, to \in Date : kind[x] = "attendance" /\ CreateRow(x, from, to, "OPEN")

CreateLeaveRequest(x) ==
  /\ kind[x] = "leave"
  /\ \E from, to \in Times, unrestricted \in BOOLEAN, status \in LeaveStatus :
       CreateRow(x, from, to, IF unrestricted THEN status ELSE "REQUESTED")

(* A shift's and a work order's edit is checked against the dates the row  *)
(* had when it was read, the others' only in themselves.                   *)
\* Mutant of EditInOrder: a shift's edit, too, is checked only in itself.
EditInOrderAlone(x, from, to) == InOrder(from, to)

EditInOrder(x, from, to) ==
  IF kind[x] \in {"shift", "workOrder"}
  THEN InOrder(Else(from, span[x].from), Else(to, span[x].to))
  ELSE InOrder(from, to)

EditBegin(p, x, from, to) ==
  /\ Given(x) /\ {from, to} # {None} /\ EditInOrder(x, from, to)
  /\ Plan(p, [Resting EXCEPT !.op = "edit", !.row = x, !.from = from, !.to = to])
  /\ UNCHANGED <<kind, span, rowStatus, booked, excused, loose>>

UpdateShift(p, x) == kind[x] = "shift" /\ \E from, to \in Date : EditBegin(p, x, from, to)

UpdateWorkOrder(p, x) ==
  kind[x] = "workOrder" /\ \E from, to \in Date : EditBegin(p, x, from, to)

UpdateAttendance(p, x) ==
  kind[x] = "attendance" /\ \E from, to \in Date : EditBegin(p, x, from, to)

UpdateLeaveRequest(p, x) ==
  /\ kind[x] = "leave"
  /\ \E from, to \in Date : EditBegin(p, x, from, to)

(* What the write could not know: the other end of a leave or an           *)
(* attendance, or of a shift edited since it was read.                     *)
Unchecked(p) ==
  LET x == planner[p].row IN
  /\ None \in {planner[p].from, planner[p].to}
  /\ kind[x] \in {"shift", "workOrder"} => x \in planner[p].missed

(* Assignments made for the old dates stay.                                *)
EditStore(p) ==
  LET x == planner[p].row IN
  /\ planner[p].op = "edit"
  /\ span' = [span EXCEPT ![x] =
       Span(Else(planner[p].from, @.from), Else(planner[p].to, @.to))]
  /\ loose' = IF Unchecked(p) /\ ~InOrder(span'[x].from, span'[x].to)
              THEN loose \cup {x} ELSE loose \ {x}
  /\ planner' = MissedBy(p, x)
  /\ UNCHANGED <<kind, rowStatus, booked>>
  /\ Excuse(MovedClashes(x))

-----------------------------------------------------------------------------
(* addShiftAssignment, addAssignment: the row is read; without both dates  *)
(* there is nothing to compare ...                                         *)
AssignBegin(p, x, e) ==
  /\ kind[x] \in {"shift", "workOrder"} /\ Given(x)
  /\ Plan(p, IF None \in {span[x].from, span[x].to}
             THEN [Resting EXCEPT !.op = "book", !.row = x, !.who = e]
             ELSE [Resting EXCEPT !.op = "check", !.row = x, !.who = e,
                                  !.from = span[x].from, !.to = span[x].to])
  /\ UNCHANGED <<kind, span, rowStatus, booked, excused, loose>>

(* ... then the employee's other assignments: a shift's while it is not    *)
(* cancelled, a work order's while the work order is open.  What changed   *)
(* in other rows before this read is seen ...                              *)
\* Mutant of Busy: only what starts after this one is a clash.
BusyLater(p) ==
  \E y \in Rows \ {planner[p].row} :
    /\ kind[y] = kind[planner[p].row] /\ Engaged(y, planner[p].who)
    /\ Overlap(planner[p], span[y]) /\ span[y].from > planner[p].from

Busy(p) ==
  \E y \in Rows \ {planner[p].row} :
    /\ kind[y] = kind[planner[p].row]
    /\ Engaged(y, planner[p].who)
    /\ Overlap(planner[p], span[y])

assertAvailability(p) ==
  /\ planner[p].op = "check"
  /\ planner' = [planner EXCEPT ![p] =
       IF Busy(p) THEN Resting
       ELSE [@ EXCEPT !.op = "book", !.from = None, !.to = None]]
  /\ UNCHANGED <<kind, span, rowStatus, booked, excused, loose>>

(* ... then the assignment is stored, for a shift with any status.         *)
AssignStore(p, live) ==
  LET x == planner[p].row
      e == planner[p].who
      missed == planner[p].missed IN
  /\ planner[p].op = "book" /\ (kind[x] = "workOrder" => live)
  /\ booked' = IF live THEN booked \cup {<<x, e>>} ELSE booked \ {<<x, e>>}
  /\ planner' = MissedBy(p, x)
  /\ UNCHANGED <<kind, span, rowStatus, loose>>
  /\ Excuse({<<e, {x, y}>> : y \in {y \in Rows : {x, y} \cap missed # {}}})

-----------------------------------------------------------------------------
(* Work orders are closed and opened again elsewhere, their assignments    *)
(* stay; a leave request is reviewed, or its status written by a manager.  *)
SetWorkStatus(x) ==
  LET status == IF rowStatus[x] = "OPEN" THEN "CLOSED" ELSE "OPEN" IN
  /\ kind[x] = "workOrder" /\ Given(x)
  /\ rowStatus' = [rowStatus EXCEPT ![x] = status]
  /\ planner' = [q \in Planners |-> Missing(planner[q], x)]
  /\ UNCHANGED <<kind, span, booked, loose>>
  /\ Excuse(MovedClashes(x))

ReviewLeaveRequest(x, status) ==
  /\ kind[x] = "leave" /\ Given(x)
  /\ rowStatus' = [rowStatus EXCEPT ![x] = status]
  /\ UNCHANGED <<kind, span, booked, planner, excused, loose>>

RosterNext ==
  \/ \E x \in Rows :
       \/ CreateShift(x) \/ CreateWorkOrder(x) \/ CreateAttendance(x)
       \/ CreateLeaveRequest(x) \/ SetWorkStatus(x)
       \/ \E status \in LeaveStatus : ReviewLeaveRequest(x, status)
  \/ \E p \in Planners :
       \/ \E x \in Rows : \/ UpdateShift(p, x) \/ UpdateWorkOrder(p, x)
                          \/ UpdateAttendance(p, x) \/ UpdateLeaveRequest(p, x)
                          \/ \E e \in Employees : AssignBegin(p, x, e)
       \/ EditStore(p) \/ assertAvailability(p)
       \/ \E live \in BOOLEAN : AssignStore(p, live)

RosterSpec == RosterInit /\ [][RosterNext]_rosterVars

-----------------------------------------------------------------------------
(* An employee is engaged in two shifts, or two open work orders, at one   *)
(* time only if the assignments were checked while the other was being     *)
(* made, or one was moved or opened again after it was assigned: moving    *)
(* rechecks nothing.                                                       *)
DoubleBookedOnlyByOverlapOrMove ==
  \A e \in Employees : \A x, y \in Rows : Clash(e, x, y) => <<e, {x, y}>> \in excused

(* The end of a row lies before its start only if its last edit gave one   *)
(* date and could not see the other: on leave and attendance always, on a  *)
(* shift or work order when another edit was stored after the row was read.*)
InvertedOnlyByPartialEdit ==
  \A x \in Rows : Given(x) /\ x \notin loose => InOrder(span[x].from, span[x].to)
=============================================================================
