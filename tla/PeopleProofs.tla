---------------------------- MODULE PeopleProofs ----------------------------
(***************************************************************************)
(* What holds of Roster and of Personnel for every number of rows,         *)
(* employees, dates, accounts and calls under way.  The two share no       *)
(* variable; each has an inductive invariant of its own, RosterInv and     *)
(* PersonnelInv.  In both the state a call has read is tied to the state   *)
(* it will write to: what it read still holds unless the call is marked    *)
(* (missed, late) as having been overtaken.                                *)
(***************************************************************************)
EXTENDS MCPeople, FiniteSetTheorems, TLAPS

Assignable == {"shift", "workOrder"}

(* Employee e, engaged in row x, would be at one place at a time: nothing  *)
(* clashes but what a call that missed these rows could not see.           *)
FreeFor(x, e, missed) ==
  \A y \in Rows \ {x} :
    /\ {x, y} \cap missed = {}
    /\ kind[y] = kind[x]
    /\ Engaged(y, e)
    => ~Overlap(span[x], span[y])

(* What a planner's edit or assignment has read and may still rely on.     *)
RowKnown(k) == k.op # "idle" => k.row \in Rows /\ Given(k.row)

AssignmentSound(k) ==
  k.op \in {"check", "book"} => k.who \in Employees /\ kind[k.row] \in Assignable

CheckSound(k) ==
  k.op = "check" =>
    /\ None \notin {k.from, k.to}
    /\ k.row \notin k.missed => span[k.row].from = k.from /\ span[k.row].to = k.to

BookSound(k) == k.op = "book" => FreeFor(k.row, k.who, k.missed)

EditSound(k) ==
  k.op = "edit" =>
    IF None \in {k.from, k.to}
    THEN kind[k.row] \in Assignable /\ k.row \notin k.missed
         => InOrder(Else(k.from, span[k.row].from), Else(k.to, span[k.row].to))
    ELSE InOrder(k.from, k.to)

PlannerSound(k) ==
  RowKnown(k) /\ AssignmentSound(k) /\ CheckSound(k) /\ BookSound(k) /\ EditSound(k)

(* Nobody is assigned to a row that does not exist.                        *)
BookedExist == \A x \in Rows, e \in Employees : <<x, e>> \in booked => Given(x)

RosterInv ==
  /\ RosterTypeOK
  /\ \A p \in Planners : PlannerSound(planner[p])
  /\ BookedExist
  /\ DoubleBookedOnlyByOverlapOrMove
  /\ InvertedOnlyByPartialEdit

-----------------------------------------------------------------------------
(* A new profile's number is positive and, as long as none was typed, at   *)
(* most the one after the count; an update or a link is of a profile that  *)
(* exists.                                                                 *)
NumberSound(k) ==
  k.op \in {"probe", "insert"} =>
    k.number # 0 /\ (~byHand /\ ~k.typed => k.number <= Cardinality(Staff) + 1)

TargetKnown(k) ==
  /\ k.op \in {"update", "link"} => k.row \in Profiles /\ Exists(k.row)
  /\ k.op = "link" => k.user # Nobody

(* A call that found its account by address, unasked, and is not late      *)
(* writes it to a profile that is free and has, or is given, that address; *)
(* one that was asked writes the account named, or that of the address it  *)
(* also writes.                                                            *)
LinkSound(k) ==
  /\ k.op \in {"update", "link"} /\ k.user # Nobody /\ k.asked = Nobody /\ ~k.late =>
       /\ profile[k.row].user = Nobody
       /\ IF k.op = "link" THEN profile[k.row].email = k.user ELSE k.email = k.user
  /\ k.op \in {"update", "link"} /\ k.user # Nobody /\ k.asked # Nobody =>
       \/ k.asked = k.user
       \/ k.asked = Blank /\ k.op = "update" /\ k.email = k.user

ClerkSound(k) == NumberSound(k) /\ TargetKnown(k) /\ LinkSound(k)

NumbersDistinct == \A x, y \in Staff : profile[x].number = profile[y].number => x = y

PersonnelInv ==
  /\ PersonnelTypeOK
  /\ IsFiniteSet(Staff)
  /\ \A c \in Clerks : ClerkSound(clerk[c])
  /\ NumbersDistinct
  /\ PortalNumberFree

-----------------------------------------------------------------------------
(***************************************************************************)
(* Roster.                                                                 *)
(***************************************************************************)
SpanRec == [from : Date, to : Date, absent : BOOLEAN]

PlannerRec ==
  [op : {"idle", "edit", "check", "book"}, row : Rows \cup {None},
   who : Employees \cup {None}, from : Date, to : Date, missed : SUBSET Rows]

(* What is said of row x, that a call may rely on, is as before.           *)
Untouched(x) ==
  span'[x] = span[x] /\ \A e \in Employees : Engaged(x, e)' <=> Engaged(x, e)

(* A call at rest relies on nothing.                                       *)
LEMMA RestingSound == Resting \in PlannerRec /\ PlannerSound(Resting)
  <1>1. Resting \in PlannerRec
    BY DEF Resting, PlannerRec, Date
  <1>2. Resting.op = "idle"
    BY DEF Resting
  <1>3. QED
    BY <1>1, <1>2 DEF PlannerSound, RowKnown, AssignmentSound, CheckSound, BookSound, EditSound

(* The same after a step: it relies on nothing then.                       *)
LEMMA RestingStaysSound == PlannerSound(Resting)'
  <1>1. Resting.op = "idle"
    BY DEF Resting
  <1>2. QED
    BY <1>1 DEF PlannerSound, RowKnown, AssignmentSound, CheckSound, BookSound, EditSound

(* A step that changes row x alone, and marks the calls that have read it, *)
(* leaves every call with what it may rely on.                             *)
LEMMA OvertakenSound ==
  ASSUME kind' = kind, NEW x \in Rows,
         \A y \in Rows : Given(y) => Given(y)',
         \A y \in Rows \ {x} : Untouched(y),
         NEW k \in PlannerRec, PlannerSound(k), NEW b, b = Missing(k, x)
  PROVE  b \in PlannerRec /\ PlannerSound(b)'
  <1>1. /\ b \in PlannerRec
        /\ b.op = k.op /\ b.row = k.row /\ b.who = k.who /\ b.from = k.from /\ b.to = k.to
        /\ k.missed \subseteq b.missed
        /\ \/ k.op = "book"
           \/ k.row = x /\ k.op = "check"
           \/ k.row = x /\ k.op = "edit" /\ None \in {k.from, k.to}
           => x \in b.missed
    BY DEF Missing, PlannerRec
  <1>2. RowKnown(b)'
    BY <1>1 DEF PlannerSound, RowKnown
  <1>3. AssignmentSound(b)'
    BY <1>1 DEF PlannerSound, AssignmentSound
  <1>4. CheckSound(b)'
    BY <1>1 DEF PlannerSound, RowKnown, CheckSound, Untouched
  <1>5. BookSound(b)'
    <2> SUFFICES ASSUME b.op = "book", NEW y \in Rows, y # b.row,
                        {b.row, y} \cap b.missed = {}, kind'[y] = kind'[b.row],
                        Engaged(y, b.who)'
                 PROVE  ~Overlap(span'[b.row], span'[y])
      BY DEF BookSound, FreeFor
    <2>1. b.row \in Rows /\ b.who \in Employees /\ FreeFor(b.row, b.who, k.missed)
      BY <1>1 DEF PlannerSound, RowKnown, AssignmentSound, BookSound
    <2>2. b.row # x /\ y # x
      BY <1>1
    <2>3. span'[b.row] = span[b.row] /\ span'[y] = span[y] /\ Engaged(y, b.who)
      BY <2>1, <2>2 DEF Untouched
    <2>4. {b.row, y} \cap k.missed = {}
      BY <1>1
    <2>5. QED
      BY <2>1, <2>3, <2>4 DEF FreeFor
  <1>6. EditSound(b)'
    <2>1. CASE b.row = x /\ None \in {b.from, b.to}
      BY <1>1, <2>1 DEF EditSound
    <2>2. CASE None \notin {b.from, b.to}
      BY <1>1, <2>2 DEF PlannerSound, EditSound
    <2>3. CASE b.op = "edit" /\ b.row # x
      <3>1. span'[b.row] = span[b.row]
        BY <1>1, <2>3 DEF PlannerSound, RowKnown, Untouched
      <3>2. QED
        BY <1>1, <2>3, <3>1 DEF PlannerSound, EditSound, Else
    <2>4. QED
      BY <2>1, <2>2, <2>3 DEF EditSound
  <1>7. QED
    BY <1>1, <1>2, <1>3, <1>4, <1>5, <1>6 DEF PlannerSound

(* A step that changes no row anybody is engaged in or has read leaves     *)
(* every call with what it may rely on, marked or not.                     *)
LEMMA UntouchedSound ==
  ASSUME kind' = kind,
         \A y \in Rows : Given(y) => Given(y)' /\ span'[y] = span[y],
         \A y \in Rows, e \in Employees :
           kind[y] \in Assignable /\ Engaged(y, e)' => Given(y) /\ Engaged(y, e),
         NEW k, PlannerSound(k)
  PROVE  PlannerSound(k)'
  <1>1. RowKnown(k)' /\ AssignmentSound(k)' /\ CheckSound(k)'
    BY DEF PlannerSound, RowKnown, AssignmentSound, CheckSound
  <1>2. BookSound(k)'
    BY DEF PlannerSound, RowKnown, AssignmentSound, BookSound, FreeFor
  <1>3. EditSound(k)'
    BY DEF PlannerSound, RowKnown, EditSound, Else
  <1>4. QED
    BY <1>1, <1>2, <1>3 DEF PlannerSound

(* Overlapping is mutual.                                                  *)
LEMMA OverlapSymmetric ==
  ASSUME NEW a \in SpanRec, NEW b \in SpanRec, Overlap(a, b)
  PROVE  Overlap(b, a)
  BY RosterAssumption DEF Overlap, SpanRec, Date

(* So is a clash.                                                          *)
LEMMA ClashSymmetric ==
  ASSUME RosterTypeOK, NEW e, NEW x \in Rows, NEW y \in Rows, Clash(e, x, y)
  PROVE  Clash(e, y, x)
  <1>1. span[x] \in SpanRec /\ span[y] \in SpanRec
    BY DEF RosterTypeOK, SpanRec
  <1>2. Overlap(span[y], span[x])
    BY <1>1, OverlapSymmetric DEF Clash
  <1>3. QED
    BY <1>2 DEF Clash

(* A step that brings about clashes, but only those it excuses.            *)
LEMMA ClashesExcused ==
  ASSUME RosterTypeOK, RosterTypeOK', DoubleBookedOnlyByOverlapOrMove,
         NEW pairs, Excuse(pairs),
         \A e \in Employees : \A x, y \in Rows :
           Clash(e, x, y)' => Clash(e, x, y) \/ <<e, {x, y}>> \in pairs
  PROVE  DoubleBookedOnlyByOverlapOrMove'
  <1> SUFFICES ASSUME NEW e \in Employees, NEW x \in Rows, NEW y \in Rows, Clash(e, x, y)'
               PROVE  <<e, {x, y}>> \in excused'
    BY DEF DoubleBookedOnlyByOverlapOrMove
  <1>1. Clash(e, y, x)'
    <2>1. span'[x] \in SpanRec /\ span'[y] \in SpanRec
      BY DEF RosterTypeOK, SpanRec
    <2>2. Overlap(span'[y], span'[x])
      BY <2>1, OverlapSymmetric DEF Clash
    <2>3. QED
      BY <2>2 DEF Clash
  <1>2. PICK c : c = <<e, {x, y}>>
    OBVIOUS
  <1>3. c[1] = e /\ c[2] = {x, y}
    BY <1>2
  <1>4. \A a, d \in c[2] : a # d => Clash(c[1], a, d)'
    BY <1>1, <1>3
  <1>5. c \in excused \cup pairs
    BY <1>2 DEF DoubleBookedOnlyByOverlapOrMove
  <1>6. c \in excused'
    BY <1>4, <1>5 DEF Excuse
  <1>7. QED
    BY <1>2, <1>6

(* A step that brings about no clash and excuses none.                     *)
LEMMA NoNewClash ==
  ASSUME DoubleBookedOnlyByOverlapOrMove, excused' = excused,
         \A e \in Employees : \A x, y \in Rows : Clash(e, x, y)' => Clash(e, x, y)
  PROVE  DoubleBookedOnlyByOverlapOrMove'
  BY DEF DoubleBookedOnlyByOverlapOrMove

(* What a step excuses is an employee and a set of rows.                   *)
LEMMA ExcusedType ==
  ASSUME RosterTypeOK, NEW pairs \in SUBSET (Employees \X SUBSET Rows), Excuse(pairs)
  PROVE  excused' \subseteq Employees \X SUBSET Rows
  BY DEF Excuse, RosterTypeOK

-----------------------------------------------------------------------------
(* A row is created: nobody has read it or is assigned to it.              *)
LEMMA CreateKeeps ==
  ASSUME RosterInv, NEW x \in Rows, NEW from \in Date, NEW to \in Date,
         NEW status \in {"OPEN", "CLOSED"} \cup LeaveStatus,
         kind[x] \in {"shift", "leave"} => None \notin {from, to},
         CreateRow(x, from, to, status)
  PROVE  RosterInv'
  <1> USE DEF RosterInv
  <1>1. PICK s : s = Span(from, to)
    OBVIOUS
  <1>2. s \in SpanRec /\ s.from = from /\ s.to = to /\ s.absent = FALSE
    BY <1>1 DEF Span, SpanRec
  <1>3. /\ span' = [span EXCEPT ![x] = s] /\ ~Given(x) /\ InOrder(from, to)
        /\ UNCHANGED <<kind, booked, planner, excused, loose>>
        /\ rowStatus' = [rowStatus EXCEPT ![x] = status]
    BY <1>1 DEF CreateRow
  <1>4. /\ span \in [Rows -> SpanRec] /\ span'[x] = s
        /\ \A y \in Rows : y # x => span'[y] = span[y]
        /\ \A y \in Rows : y # x => rowStatus'[y] = rowStatus[y]
    BY <1>3 DEF RosterTypeOK, SpanRec
  <1>5. RosterTypeOK'
    <2>1. span' \in [Rows -> SpanRec]
      BY <1>2, <1>3, <1>4
    <2>2. \A y \in Rows : kind'[y] \in {"shift", "leave"} /\ ~span'[y].absent
                          => None \notin {span'[y].from, span'[y].to}
      BY <1>2, <1>3, <1>4 DEF RosterTypeOK
    <2>3. rowStatus' \in [Rows -> {"OPEN", "CLOSED"} \cup LeaveStatus]
      BY <1>3 DEF RosterTypeOK
    <2>4. QED
      BY <2>1, <2>2, <2>3, <1>3 DEF RosterTypeOK, SpanRec
  <1>6. \A y \in Rows : Given(y) => Given(y)' /\ span'[y] = span[y]
    BY <1>3, <1>4 DEF Given
  <1>7. \A y \in Rows, e \in Employees : Engaged(y, e)' => Given(y) /\ Engaged(y, e)
    BY <1>3, <1>4 DEF Engaged, BookedExist
  <1>8. \A p \in Planners : PlannerSound(planner[p])'
    <2> TAKE p \in Planners
    <2>1. PICK k : k = planner[p]
      OBVIOUS
    <2>2. PlannerSound(k)'
      BY <1>3, <1>6, <1>7, <2>1, UntouchedSound
    <2>3. QED
      BY <1>3, <2>1, <2>2
  <1>9. BookedExist'
    BY <1>3, <1>6 DEF BookedExist
  <1>10. DoubleBookedOnlyByOverlapOrMove'
    <2>1. \A e \in Employees : \A y, z \in Rows : Clash(e, y, z)' => Clash(e, y, z)
      BY <1>3, <1>6, <1>7 DEF Clash
    <2>2. QED
      BY <1>3, <2>1, NoNewClash
  <1>11. InvertedOnlyByPartialEdit'
    <2>1. \A y \in Rows : y # x /\ Given(y)' => Given(y)
      BY <1>4 DEF Given
    <2>2. InOrder(span'[x].from, span'[x].to)
      BY <1>2, <1>3, <1>4
    <2>3. QED
      BY <1>3, <1>4, <2>1, <2>2 DEF InvertedOnlyByPartialEdit
  <1>12. QED
    BY <1>5, <1>8, <1>9, <1>10, <1>11

(* createShift, createWorkOrder, createAttendanceRecord and                *)
(* createLeaveRequest.                                                     *)
LEMMA CreatesKeep ==
  ASSUME RosterInv, NEW x \in Rows,
         CreateShift(x) \/ CreateWorkOrder(x) \/ CreateAttendance(x) \/ CreateLeaveRequest(x)
  PROVE  RosterInv'
  <1>1. Times \subseteq Date /\ None \notin Times
    BY RosterAssumption DEF Date
  <1>2. "REQUESTED" \in LeaveStatus
    BY DEF LeaveStatus
  <1>3. CASE CreateShift(x)
    <2>1. PICK from \in Times, to \in Times : CreateRow(x, from, to, "OPEN")
      BY <1>3 DEF CreateShift
    <2>2. QED
      BY <1>1, <2>1, CreateKeeps
  <1>4. CASE CreateWorkOrder(x)
    <2>1. PICK from \in Date, to \in Date : CreateRow(x, from, to, "OPEN")
      BY <1>4 DEF CreateWorkOrder
    <2>2. kind[x] \notin {"shift", "leave"}
      BY <1>4 DEF CreateWorkOrder
    <2>3. QED
      BY <2>1, <2>2, CreateKeeps
  <1>5. CASE CreateAttendance(x)
    <2>1. PICK from \in Date, to \in Date : CreateRow(x, from, to, "OPEN")
      BY <1>5 DEF CreateAttendance
    <2>2. kind[x] \notin {"shift", "leave"}
      BY <1>5 DEF CreateAttendance
    <2>3. QED
      BY <2>1, <2>2, CreateKeeps
  <1>6. CASE CreateLeaveRequest(x)
    <2>1. PICK from \in Times, to \in Times, s \in LeaveStatus : CreateRow(x, from, to, s)
      BY <1>2, <1>6 DEF CreateLeaveRequest
    <2>2. QED
      BY <1>1, <2>1, CreateKeeps
  <1>7. QED
    BY <1>3, <1>4, <1>5, <1>6

(* A planner alone moves on: no row, no assignment changes.                *)
LEMMA PlannerMoves ==
  ASSUME RosterInv, NEW p \in Planners, NEW k \in PlannerRec, PlannerSound(k),
         planner' = [planner EXCEPT ![p] = k],
         UNCHANGED <<kind, span, rowStatus, booked, excused, loose>>
  PROVE  RosterInv'
  <1> USE DEF RosterInv
  <1>1. RosterTypeOK'
    BY DEF RosterTypeOK, PlannerRec
  <1>2. planner \in [Planners -> PlannerRec]
    BY DEF RosterTypeOK, PlannerRec
  <1>3. \A y \in Rows : Given(y)' <=> Given(y)
    BY DEF Given
  <1>4. \A y \in Rows, e \in Employees : Engaged(y, e)' <=> Engaged(y, e)
    BY DEF Engaged
  <1>5. \A q \in Planners : PlannerSound(planner[q])'
    <2> TAKE q \in Planners
    <2>1. PICK j : j = planner'[q]
      OBVIOUS
    <2>2. PlannerSound(j)
      BY <1>2, <2>1
    <2>3. PlannerSound(j)'
      <3>1. RowKnown(j)' /\ AssignmentSound(j)' /\ CheckSound(j)'
        BY <1>3, <2>2 DEF PlannerSound, RowKnown, AssignmentSound, CheckSound
      <3>2. BookSound(j)'
        BY <1>4, <2>2 DEF PlannerSound, RowKnown, AssignmentSound, BookSound, FreeFor
      <3>3. EditSound(j)'
        BY <2>2 DEF PlannerSound, EditSound, Else
      <3>4. QED
        BY <3>1, <3>2, <3>3 DEF PlannerSound
    <2>4. QED
      BY <2>1, <2>3
  <1>6. BookedExist'
    BY <1>3 DEF BookedExist
  <1>7. DoubleBookedOnlyByOverlapOrMove'
    <2>1. \A e \in Employees : \A y, z \in Rows : Clash(e, y, z)' => Clash(e, y, z)
      BY <1>4 DEF Clash
    <2>2. QED
      BY <2>1, NoNewClash
  <1>8. InvertedOnlyByPartialEdit'
    BY <1>3 DEF InvertedOnlyByPartialEdit
  <1>9. QED
    BY <1>1, <1>5, <1>6, <1>7, <1>8

(* An edit begins: what it would write is in order by what it read.        *)
LEMMA EditBeginKeeps ==
  ASSUME RosterInv, NEW p \in Planners, NEW x \in Rows, NEW from \in Date, NEW to \in Date,
         EditBegin(p, x, from, to)
  PROVE  RosterInv'
  <1>1. PICK k : k = [Resting EXCEPT !.op = "edit", !.row = x, !.from = from, !.to = to]
    OBVIOUS
  <1>2. /\ k \in PlannerRec
        /\ k.op = "edit" /\ k.row = x /\ k.from = from /\ k.to = to
    BY <1>1 DEF Resting, PlannerRec
  <1>3. EditSound(k)
    <2>1. EditInOrder(x, from, to) /\ kind[x] \in Kinds
      BY DEF EditBegin, RosterInv, RosterTypeOK
    <2>2. QED
      BY <1>2, <2>1 DEF EditSound, EditInOrder, Assignable, Kinds, Else, InOrder
  <1>4. PlannerSound(k)
    BY <1>2, <1>3
       DEF PlannerSound, RowKnown, AssignmentSound, CheckSound, BookSound, EditBegin
  <1>5. /\ planner' = [planner EXCEPT ![p] = k]
        /\ UNCHANGED <<kind, span, rowStatus, booked, excused, loose>>
    BY <1>1 DEF EditBegin, Plan
  <1>6. QED
    BY <1>2, <1>4, <1>5, PlannerMoves

(* updateShift, updateWorkOrder, updateAttendanceRecord and                *)
(* updateLeaveRequest.                                                     *)
LEMMA EditsKeep ==
  ASSUME RosterInv, NEW p \in Planners, NEW x \in Rows,
         \/ UpdateShift(p, x) \/ UpdateWorkOrder(p, x)
         \/ UpdateAttendance(p, x) \/ UpdateLeaveRequest(p, x)
  PROVE  RosterInv'
  <1>1. PICK from \in Date, to \in Date : EditBegin(p, x, from, to)
    BY DEF UpdateShift, UpdateWorkOrder, UpdateAttendance, UpdateLeaveRequest
  <1>2. QED
    BY <1>1, EditBeginKeeps

(* An assignment begins: without both dates nothing can overlap.           *)
LEMMA AssignBeginKeeps ==
  ASSUME RosterInv, NEW p \in Planners, NEW x \in Rows, NEW e \in Employees,
         AssignBegin(p, x, e)
  PROVE  RosterInv'
  <1>1. span[x] \in SpanRec
    BY DEF RosterInv, RosterTypeOK, SpanRec
  <1>2. UNCHANGED <<kind, span, rowStatus, booked, excused, loose>>
    BY DEF AssignBegin
  <1>3. CASE None \in {span[x].from, span[x].to}
    <2>1. PICK k : k = [Resting EXCEPT !.op = "book", !.row = x, !.who = e]
      OBVIOUS
    <2>2. k \in PlannerRec /\ k.op = "book" /\ k.row = x /\ k.who = e
      BY <2>1 DEF Resting, PlannerRec, Date
    <2>3. BookSound(k)
      BY <1>3, <2>2 DEF BookSound, FreeFor, Overlap
    <2>4. PlannerSound(k)
      BY <2>2, <2>3
         DEF PlannerSound, RowKnown, AssignmentSound, CheckSound, EditSound, AssignBegin, Assignable
    <2>5. planner' = [planner EXCEPT ![p] = k]
      BY <1>3, <2>1 DEF AssignBegin, Plan
    <2>6. QED
      BY <1>2, <2>2, <2>4, <2>5, PlannerMoves
  <1>4. CASE None \notin {span[x].from, span[x].to}
    <2>1. PICK k : k = [Resting EXCEPT !.op = "check", !.row = x, !.who = e,
                                       !.from = span[x].from, !.to = span[x].to]
      OBVIOUS
    <2>2. /\ k \in PlannerRec /\ k.op = "check" /\ k.row = x /\ k.who = e
          /\ k.from = span[x].from /\ k.to = span[x].to
      BY <1>1, <2>1 DEF Resting, PlannerRec, SpanRec
    <2>3. PlannerSound(k)
      BY <1>4, <2>2
         DEF PlannerSound, RowKnown, AssignmentSound, CheckSound, BookSound, EditSound,
             AssignBegin, Assignable
    <2>4. planner' = [planner EXCEPT ![p] = k]
      BY <1>4, <2>1 DEF AssignBegin, Plan
    <2>5. QED
      BY <1>2, <2>2, <2>3, <2>4, PlannerMoves
  <1>5. QED
    BY <1>3, <1>4

(* assertAvailability: no clash is seen, so the employee is free for the   *)
(* row, but for what the read of the row itself has missed.                *)
LEMMA AvailabilityKeeps ==
  ASSUME RosterInv, NEW p \in Planners, assertAvailability(p)
  PROVE  RosterInv'
  <1>1. PICK k \in PlannerRec : k = planner[p]
    BY DEF RosterInv, RosterTypeOK, PlannerRec
  <1>2. k.op = "check" /\ PlannerSound(k)
    BY <1>1 DEF assertAvailability, RosterInv
  <1>3. UNCHANGED <<kind, span, rowStatus, booked, excused, loose>>
    BY DEF assertAvailability
  <1>4. CASE Busy(p)
    <2>1. planner' = [planner EXCEPT ![p] = Resting]
      BY <1>4 DEF assertAvailability
    <2>2. QED
      BY <1>3, <2>1, RestingSound, PlannerMoves
  <1>5. CASE ~Busy(p)
    <2>1. PICK j : j = [k EXCEPT !.op = "book", !.from = None, !.to = None]
      OBVIOUS
    <2>2. /\ j \in PlannerRec /\ j.op = "book" /\ j.row = k.row /\ j.who = k.who
          /\ j.missed = k.missed
      BY <2>1 DEF PlannerRec, Date
    <2>3. BookSound(j)
      <3> SUFFICES ASSUME NEW y \in Rows \ {j.row}, {j.row, y} \cap j.missed = {},
                          kind[y] = kind[j.row], Engaged(y, j.who)
                   PROVE  ~Overlap(span[j.row], span[y])
        BY DEF BookSound, FreeFor
      <3>1. ~Overlap(k, span[y])
        BY <1>1, <1>5, <2>2 DEF Busy
      <3>2. span[k.row].from = k.from /\ span[k.row].to = k.to
        BY <1>2, <2>2 DEF PlannerSound, CheckSound
      <3>3. QED
        BY <2>2, <3>1, <3>2 DEF Overlap
    <2>4. PlannerSound(j)
      BY <1>2, <2>2, <2>3 DEF PlannerSound, RowKnown, AssignmentSound, CheckSound, EditSound
    <2>5. planner' = [planner EXCEPT ![p] = j]
      BY <1>1, <1>5, <2>1 DEF assertAvailability
    <2>6. QED
      BY <1>3, <2>2, <2>4, <2>5, PlannerMoves
  <1>6. QED
    BY <1>4, <1>5

-----------------------------------------------------------------------------
(* Row x is written; the calls that have read it are marked, those that    *)
(* are done come to rest.                                                  *)
LEMMA PlannersOvertaken ==
  ASSUME RosterInv, kind' = kind, NEW x \in Rows, NEW done \in SUBSET Planners,
         \A y \in Rows : Given(y) => Given(y)',
         \A y \in Rows \ {x} : Untouched(y),
         planner' = [q \in Planners |-> IF q \in done THEN Resting ELSE Missing(planner[q], x)]
  PROVE  planner' \in [Planners -> PlannerRec] /\ \A q \in Planners : PlannerSound(planner[q])'
  <1>1. \A q \in Planners : planner'[q] \in PlannerRec /\ PlannerSound(planner[q])'
    <2> TAKE q \in Planners
    <2>1. PICK k \in PlannerRec : k = planner[q]
      BY DEF RosterInv, RosterTypeOK, PlannerRec
    <2>2. PICK b : b = planner'[q]
      OBVIOUS
    <2>3. CASE q \in done
      <3>1. planner'[q] = Resting
        BY <2>3
      <3>2. QED
        BY <3>1, RestingSound, RestingStaysSound
    <2>4. CASE q \notin done
      <3>1. b = Missing(k, x)
        BY <2>1, <2>2, <2>4
      <3>2. PlannerSound(k)
        BY <2>1 DEF RosterInv
      <3>3. b \in PlannerRec /\ PlannerSound(b)'
        BY <3>1, <3>2, OvertakenSound
      <3>4. QED
        BY <2>2, <3>3
    <2>5. QED
      BY <2>3, <2>4
  <1>2. QED
    BY <1>1

(* What moving or reopening x excuses has the type of excused.             *)
LEMMA MovedType ==
  ASSUME NEW x \in Rows
  PROVE  MovedClashes(x) \in SUBSET (Employees \X SUBSET Rows)
  <1>1. \A e \in Booked(x), y \in Rows \ {x} : e \in Employees /\ {x, y} \in SUBSET Rows
    BY DEF Booked
  <1>2. QED
    BY <1>1 DEF MovedClashes

(* Moving or reopening x excuses every clash that it brings about.         *)
LEMMA MovedExcused ==
  ASSUME RosterInv, RosterTypeOK', kind' = kind, booked' = booked, NEW x \in Rows,
         \A y \in Rows \ {x} : Untouched(y), Excuse(MovedClashes(x))
  PROVE  DoubleBookedOnlyByOverlapOrMove'
  <1>1. \A e \in Employees : \A y, z \in Rows :
          Clash(e, y, z)' => Clash(e, y, z) \/ <<e, {y, z}>> \in MovedClashes(x)
    <2> SUFFICES ASSUME NEW e \in Employees, NEW y \in Rows, NEW z \in Rows, Clash(e, y, z)'
                 PROVE  Clash(e, y, z) \/ <<e, {y, z}>> \in MovedClashes(x)
      OBVIOUS
    <2>1. y # z /\ <<y, e>> \in booked /\ <<z, e>> \in booked
      BY DEF Clash, Engaged
    <2>2. CASE y # x /\ z # x
      BY <2>2 DEF Clash, Untouched
    <2>3. CASE y = x
      BY <2>1, <2>3 DEF MovedClashes, Booked
    <2>4. CASE z = x
      <3>1. {y, z} = {z, y}
        OBVIOUS
      <3>2. <<e, {z, y}>> \in MovedClashes(x)
        BY <2>1, <2>4 DEF MovedClashes, Booked
      <3>3. QED
        BY <3>1, <3>2
    <2>5. QED
      BY <2>2, <2>3, <2>4
  <1>2. PICK pairs : pairs = MovedClashes(x)
    OBVIOUS
  <1>3. Excuse(pairs)
    BY <1>2 DEF Excuse
  <1>4. QED
    BY <1>1, <1>2, <1>3, ClashesExcused DEF RosterInv

(* What is excused keeps its type.                                         *)
LEMMA MovedExcusedType ==
  ASSUME RosterTypeOK, NEW x \in Rows, Excuse(MovedClashes(x))
  PROVE  excused' \subseteq Employees \X SUBSET Rows
  <1>1. PICK pairs : pairs = MovedClashes(x)
    OBVIOUS
  <1>2. Excuse(pairs) /\ pairs \in SUBSET (Employees \X SUBSET Rows)
    BY <1>1, MovedType DEF Excuse
  <1>3. QED
    BY <1>2, ExcusedType

(* SetWorkStatus: a work order is closed, or opened again.                 *)
LEMMA SetWorkStatusKeeps ==
  ASSUME RosterInv, NEW x \in Rows, SetWorkStatus(x)
  PROVE  RosterInv'
  <1>1. PICK status \in {"OPEN", "CLOSED"} : rowStatus' = [rowStatus EXCEPT ![x] = status]
    BY DEF SetWorkStatus
  <1>2. /\ UNCHANGED <<kind, span, booked, loose>>
        /\ planner' = [q \in Planners |-> Missing(planner[q], x)]
        /\ Excuse(MovedClashes(x))
    BY DEF SetWorkStatus
  <1>3. \A y \in Rows : Given(y)' <=> Given(y)
    BY <1>2 DEF Given
  <1>4. \A y \in Rows \ {x} : Untouched(y)
    BY <1>1, <1>2 DEF Untouched, Engaged, RosterInv, RosterTypeOK
  <1>5. planner' = [q \in Planners |-> IF q \in {} THEN Resting ELSE Missing(planner[q], x)]
    BY <1>2
  <1>6. planner' \in [Planners -> PlannerRec] /\ \A q \in Planners : PlannerSound(planner[q])'
    <2>1. {} \in SUBSET Planners
      OBVIOUS
    <2>2. QED
      BY <1>2, <1>3, <1>4, <1>5, <2>1, PlannersOvertaken
  <1>7. RosterTypeOK'
    <2>1. excused' \subseteq Employees \X SUBSET Rows
      BY <1>2, MovedExcusedType DEF RosterInv
    <2>2. rowStatus' \in [Rows -> {"OPEN", "CLOSED"} \cup LeaveStatus]
      BY <1>1 DEF RosterInv, RosterTypeOK
    <2>3. QED
      BY <1>2, <1>6, <2>1, <2>2 DEF RosterInv, RosterTypeOK, PlannerRec
  <1>8. DoubleBookedOnlyByOverlapOrMove'
    BY <1>2, <1>4, <1>7, MovedExcused
  <1>9. BookedExist' /\ InvertedOnlyByPartialEdit'
    BY <1>2, <1>3 DEF RosterInv, BookedExist, InvertedOnlyByPartialEdit
  <1>10. QED
    BY <1>6, <1>7, <1>8, <1>9 DEF RosterInv

(* reviewLeaveRequest: nobody is assigned to a leave.                      *)
LEMMA ReviewKeeps ==
  ASSUME RosterInv, NEW x \in Rows, NEW status \in LeaveStatus, ReviewLeaveRequest(x, status)
  PROVE  RosterInv'
  <1> USE DEF RosterInv
  <1>1. /\ kind[x] = "leave" /\ rowStatus' = [rowStatus EXCEPT ![x] = status]
        /\ UNCHANGED <<kind, span, booked, planner, excused, loose>>
    BY DEF ReviewLeaveRequest
  <1>2. RosterTypeOK'
    <2>1. rowStatus' \in [Rows -> {"OPEN", "CLOSED"} \cup LeaveStatus]
      BY <1>1 DEF RosterTypeOK
    <2>2. QED
      BY <1>1, <2>1 DEF RosterTypeOK
  <1>3. \A y \in Rows : Given(y)' <=> Given(y)
    BY <1>1 DEF Given
  <1>4. \A y \in Rows, e \in Employees : Engaged(y, e)' => Given(y) /\ Engaged(y, e)
    BY <1>1 DEF Engaged, BookedExist, RosterTypeOK
  <1>5. \A p \in Planners : PlannerSound(planner[p])'
    <2> TAKE p \in Planners
    <2>1. PICK k : k = planner[p]
      OBVIOUS
    <2>2. PlannerSound(k)'
      BY <1>1, <1>3, <1>4, <2>1, UntouchedSound
    <2>3. QED
      BY <1>1, <2>1, <2>2
  <1>6. DoubleBookedOnlyByOverlapOrMove'
    <2>1. \A e \in Employees : \A y, z \in Rows : Clash(e, y, z)' => Clash(e, y, z)
      BY <1>1, <1>4 DEF Clash
    <2>2. QED
      BY <1>1, <2>1, NoNewClash
  <1>7. BookedExist' /\ InvertedOnlyByPartialEdit'
    BY <1>1, <1>3 DEF BookedExist, InvertedOnlyByPartialEdit
  <1>8. QED
    BY <1>2, <1>5, <1>6, <1>7

(* The new dates are written over what the row holds by now.               *)
LEMMA EditStoreKeeps ==
  ASSUME RosterInv, NEW p \in Planners, EditStore(p)
  PROVE  RosterInv'
  <1>1. PICK k \in PlannerRec : k = planner[p]
    BY DEF RosterInv, RosterTypeOK, PlannerRec
  <1>2. k.op = "edit" /\ PlannerSound(k) /\ k.row \in Rows /\ Given(k.row)
    BY <1>1 DEF EditStore, RosterInv, PlannerSound, RowKnown
  <1>3. PICK x \in Rows : x = k.row
    BY <1>2
  <1>4. span \in [Rows -> SpanRec]
    BY DEF RosterInv, RosterTypeOK, SpanRec
  <1>5. PICK s : s = Span(Else(k.from, span[x].from), Else(k.to, span[x].to))
    OBVIOUS
  <1>6. /\ s \in SpanRec /\ s.absent = FALSE
        /\ s.from = Else(k.from, span[x].from) /\ s.to = Else(k.to, span[x].to)
    <2>1. span[x] \in SpanRec
      BY <1>4
    <2>2. Else(k.from, span[x].from) \in Date /\ Else(k.to, span[x].to) \in Date
      BY <2>1 DEF Else, SpanRec, PlannerRec
    <2>3. QED
      BY <1>5, <2>2 DEF Span, SpanRec
  <1>7. /\ span' = [span EXCEPT ![x] = s]
        /\ UNCHANGED <<kind, rowStatus, booked>>
        /\ Excuse(MovedClashes(x))
        /\ planner' = [q \in Planners |-> IF q \in {p} THEN Resting ELSE Missing(planner[q], x)]
    <2>1. span' = [span EXCEPT ![x] = s]
      BY <1>1, <1>3, <1>4, <1>5 DEF EditStore
    <2>2. UNCHANGED <<kind, rowStatus, booked>> /\ Excuse(MovedClashes(x))
      <3>1. planner[p].row = x
        BY <1>1, <1>3
      <3>2. QED
        BY <3>1 DEF EditStore, Excuse, MovedClashes, Booked
    <2>3. planner' = MissedBy(p, x)
      BY <1>1, <1>3 DEF EditStore
    <2>4. QED
      BY <2>1, <2>2, <2>3 DEF MissedBy
  <1>8. span'[x] = s /\ \A y \in Rows : y # x => span'[y] = span[y]
    BY <1>4, <1>7
  <1>9. loose' = IF Unchecked(p) /\ ~InOrder(s.from, s.to) THEN loose \cup {x} ELSE loose \ {x}
    BY <1>1, <1>3, <1>8 DEF EditStore
  <1>10. \A y \in Rows : Given(y)' <=> Given(y)
    BY <1>2, <1>3, <1>6, <1>8 DEF Given
  <1>11. \A y \in Rows \ {x} : Untouched(y)
    BY <1>7, <1>8 DEF Untouched, Engaged
  <1>12. planner' \in [Planners -> PlannerRec] /\ \A q \in Planners : PlannerSound(planner[q])'
    <2>1. {p} \in SUBSET Planners
      OBVIOUS
    <2>2. QED
      BY <1>7, <1>10, <1>11, <2>1, PlannersOvertaken
  <1>13. RosterTypeOK'
    <2>1. excused' \subseteq Employees \X SUBSET Rows
      BY <1>7, MovedExcusedType DEF RosterInv
    <2>2. span' \in [Rows -> SpanRec]
      BY <1>4, <1>6, <1>7
    <2>3. \A y \in Rows : kind'[y] \in {"shift", "leave"} /\ ~span'[y].absent
                          => None \notin {span'[y].from, span'[y].to}
      <3>1. kind[x] \in {"shift", "leave"} => None \notin {span[x].from, span[x].to}
        BY <1>2, <1>3 DEF RosterInv, RosterTypeOK, Given
      <3>2. kind[x] \in {"shift", "leave"} => None \notin {s.from, s.to}
        BY <1>6, <3>1 DEF Else
      <3>3. QED
        BY <1>7, <1>8, <3>2 DEF RosterInv, RosterTypeOK
    <2>4. loose' \subseteq Rows
      BY <1>9 DEF RosterInv, RosterTypeOK
    <2>5. QED
      BY <1>7, <1>12, <2>1, <2>2, <2>3, <2>4 DEF RosterInv, RosterTypeOK, PlannerRec, SpanRec
  <1>14. DoubleBookedOnlyByOverlapOrMove'
    BY <1>7, <1>11, <1>13, MovedExcused
  <1>15. BookedExist'
    BY <1>7, <1>10 DEF RosterInv, BookedExist
  <1>16. InvertedOnlyByPartialEdit'
    <2>1. x \notin loose' => InOrder(s.from, s.to)
      <3>1. CASE Unchecked(p)
        BY <1>9, <3>1
      <3>2. CASE ~Unchecked(p) /\ None \notin {k.from, k.to}
        BY <1>2, <1>6, <3>2 DEF PlannerSound, EditSound, Else
      <3>3. CASE ~Unchecked(p) /\ None \in {k.from, k.to}
        <4>1. kind[x] \in {"shift", "workOrder"} /\ x \notin k.missed
          BY <1>1, <1>3, <3>3 DEF Unchecked
        <4>2. QED
          BY <1>2, <1>3, <1>6, <3>3, <4>1 DEF PlannerSound, EditSound, Assignable
      <3>4. QED
        BY <3>1, <3>2, <3>3
    <2>2. \A y \in Rows : y # x /\ y \notin loose' => y \notin loose
      BY <1>9
    <2>3. QED
      BY <1>8, <1>10, <2>1, <2>2 DEF RosterInv, InvertedOnlyByPartialEdit
  <1>17. QED
    BY <1>12, <1>13, <1>14, <1>15, <1>16 DEF RosterInv

(* An assignment is stored: it clashes with nothing but what it missed.    *)
LEMMA AssignStoreKeeps ==
  ASSUME RosterInv, NEW p \in Planners, NEW live \in BOOLEAN, AssignStore(p, live)
  PROVE  RosterInv'
  <1>1. PICK k \in PlannerRec : k = planner[p]
    BY DEF RosterInv, RosterTypeOK, PlannerRec
  <1>2. k.op = "book" /\ PlannerSound(k)
    BY <1>1 DEF AssignStore, RosterInv
  <1>3. /\ k.row \in Rows /\ Given(k.row) /\ k.who \in Employees /\ kind[k.row] \in Assignable
        /\ FreeFor(k.row, k.who, k.missed)
    BY <1>2 DEF PlannerSound, RowKnown, AssignmentSound, BookSound
  <1>4. PICK x \in Rows, e \in Employees : x = k.row /\ e = k.who
    BY <1>3
  <1>5. PICK pairs : pairs = {<<e, {x, y}>> : y \in {y \in Rows : {x, y} \cap k.missed # {}}}
    OBVIOUS
  <1>6. /\ booked' = IF live THEN booked \cup {<<x, e>>} ELSE booked \ {<<x, e>>}
        /\ UNCHANGED <<kind, span, rowStatus, loose>>
        /\ Excuse(pairs)
        /\ planner' = [q \in Planners |-> IF q \in {p} THEN Resting ELSE Missing(planner[q], x)]
    <2>1. booked' = IF live THEN booked \cup {<<x, e>>} ELSE booked \ {<<x, e>>}
      BY <1>1, <1>4 DEF AssignStore
    <2>2. Excuse(pairs)
      <3>1. planner[p].row = x /\ planner[p].who = e /\ planner[p].missed = k.missed
        BY <1>1, <1>4
      <3>2. QED
        BY <1>5, <3>1 DEF AssignStore, Excuse
    <2>3. planner' = MissedBy(p, x)
      BY <1>1, <1>4 DEF AssignStore
    <2>4. UNCHANGED <<kind, span, rowStatus, loose>>
      BY DEF AssignStore
    <2>5. QED
      BY <2>1, <2>2, <2>3, <2>4 DEF MissedBy
  <1>7. \A y \in Rows : Given(y)' <=> Given(y)
    BY <1>6 DEF Given
  <1>8. \A y \in Rows \ {x} : Untouched(y)
    BY <1>6 DEF Untouched, Engaged
  <1>9. planner' \in [Planners -> PlannerRec] /\ \A q \in Planners : PlannerSound(planner[q])'
    <2>1. {p} \in SUBSET Planners
      OBVIOUS
    <2>2. QED
      BY <1>6, <1>7, <1>8, <2>1, PlannersOvertaken
  <1>10. RosterTypeOK'
    <2>1. pairs \in SUBSET (Employees \X SUBSET Rows)
      BY <1>5
    <2>2. excused' \subseteq Employees \X SUBSET Rows
      BY <1>6, <2>1, ExcusedType DEF RosterInv
    <2>3. booked' \subseteq {y \in Rows : kind'[y] \in {"shift", "workOrder"}} \X Employees
      BY <1>3, <1>4, <1>6 DEF RosterInv, RosterTypeOK, Assignable
    <2>4. QED
      BY <1>6, <1>9, <2>2, <2>3 DEF RosterInv, RosterTypeOK, PlannerRec
  <1>11. BookedExist'
    BY <1>3, <1>4, <1>6, <1>7 DEF RosterInv, BookedExist
  <1>12. DoubleBookedOnlyByOverlapOrMove'
    <2>1. \A d \in Employees, y \in Rows :
            Engaged(y, d)' => Engaged(y, d) \/ (y = x /\ d = e)
      BY <1>6 DEF Engaged
    <2>2. \A y \in Rows \ {x} :
            Engaged(y, e) /\ kind[y] = kind[x] /\ {x, y} \cap k.missed = {}
            => ~Overlap(span[x], span[y])
      BY <1>3, <1>4 DEF FreeFor
    <2>3. span \in [Rows -> SpanRec]
      BY DEF RosterInv, RosterTypeOK, SpanRec
    <2>4. ASSUME NEW y \in Rows \ {x}, Clash(e, x, y)' \/ Clash(e, y, x)'
          PROVE  <<e, {x, y}>> \in pairs
      <3>1. Engaged(y, e) /\ kind[y] = kind[x]
        BY <1>6, <2>1, <2>4 DEF Clash
      <3>2. Overlap(span[x], span[y])
        <4>1. Overlap(span[x], span[y]) \/ Overlap(span[y], span[x])
          BY <1>6, <2>4 DEF Clash
        <4>2. QED
          BY <2>3, <4>1, OverlapSymmetric
      <3>3. {x, y} \cap k.missed # {}
        BY <2>2, <3>1, <3>2
      <3>4. QED
        BY <1>5, <3>3
    <2>5. ASSUME NEW d \in Employees, NEW y \in Rows, NEW z \in Rows, Clash(d, y, z)'
          PROVE  Clash(d, y, z) \/ <<d, {y, z}>> \in pairs
      <3>1. y # z
        BY <2>5 DEF Clash
      <3>2. CASE d = e /\ y = x
        BY <2>4, <2>5, <3>1, <3>2
      <3>3. CASE d = e /\ z = x
        <4>1. <<e, {x, y}>> \in pairs
          BY <2>4, <2>5, <3>1, <3>3
        <4>2. {x, y} = {y, z}
          BY <3>3
        <4>3. QED
          BY <3>3, <4>1, <4>2
      <3>4. CASE ~(d = e /\ y = x) /\ ~(d = e /\ z = x)
        BY <1>6, <2>1, <2>5, <3>4 DEF Clash
      <3>5. QED
        BY <3>2, <3>3, <3>4
    <2>6. QED
      BY <1>6, <1>10, <2>5, ClashesExcused DEF RosterInv
  <1>13. InvertedOnlyByPartialEdit'
    BY <1>6, <1>7 DEF RosterInv, InvertedOnlyByPartialEdit
  <1>14. QED
    BY <1>9, <1>10, <1>11, <1>12, <1>13 DEF RosterInv

-----------------------------------------------------------------------------
(* At the start there is no row, no assignment and no call.                *)
LEMMA RosterInitially == RosterInit => RosterInv
  <1> SUFFICES ASSUME RosterInit
               PROVE  RosterInv
    OBVIOUS
  <1> USE DEF RosterInit
  <1>1. \A x \in Rows : span[x] = Absent /\ ~Given(x)
    BY DEF Given, Absent
  <1>2. \A p \in Planners : planner[p] \in PlannerRec /\ PlannerSound(planner[p])
    <2> TAKE p \in Planners
    <2>1. planner[p] = Resting
      OBVIOUS
    <2>2. QED
      BY <2>1, RestingSound
  <1>3. RosterTypeOK
    <2>1. Absent \in SpanRec /\ Absent.absent
      BY DEF Absent, SpanRec, Date
    <2>2. span \in [Rows -> SpanRec] /\ \A x \in Rows : span[x].absent
      BY <2>1
    <2>3. planner \in [Planners -> PlannerRec]
      BY <1>2
    <2>4. QED
      BY <2>2, <2>3 DEF RosterTypeOK, SpanRec, PlannerRec
  <1>4. BookedExist /\ DoubleBookedOnlyByOverlapOrMove /\ InvertedOnlyByPartialEdit
    BY <1>1 DEF BookedExist, DoubleBookedOnlyByOverlapOrMove, InvertedOnlyByPartialEdit, Clash,
                Engaged
  <1>5. QED
    BY <1>2, <1>3, <1>4 DEF RosterInv

(* Every step keeps the invariant.                                         *)
LEMMA RosterInductive == RosterInv /\ [RosterNext]_rosterVars => RosterInv'
  <1> SUFFICES ASSUME RosterInv, [RosterNext]_rosterVars
               PROVE  RosterInv'
    OBVIOUS
  <1>1. ASSUME NEW x \in Rows,
               CreateShift(x) \/ CreateWorkOrder(x) \/ CreateAttendance(x) \/ CreateLeaveRequest(x)
        PROVE  RosterInv'
    BY <1>1, CreatesKeep
  <1>2. ASSUME NEW x \in Rows, SetWorkStatus(x)
        PROVE  RosterInv'
    BY <1>2, SetWorkStatusKeeps
  <1>3. ASSUME NEW x \in Rows, NEW status \in LeaveStatus, ReviewLeaveRequest(x, status)
        PROVE  RosterInv'
    BY <1>3, ReviewKeeps
  <1>4. ASSUME NEW p \in Planners, NEW x \in Rows,
               \/ UpdateShift(p, x) \/ UpdateWorkOrder(p, x)
               \/ UpdateAttendance(p, x) \/ UpdateLeaveRequest(p, x)
        PROVE  RosterInv'
    BY <1>4, EditsKeep
  <1>5. ASSUME NEW p \in Planners, NEW x \in Rows, NEW e \in Employees, AssignBegin(p, x, e)
        PROVE  RosterInv'
    BY <1>5, AssignBeginKeeps
  <1>6. ASSUME NEW p \in Planners, EditStore(p)
        PROVE  RosterInv'
    BY <1>6, EditStoreKeeps
  <1>7. ASSUME NEW p \in Planners, assertAvailability(p)
        PROVE  RosterInv'
    BY <1>7, AvailabilityKeeps
  <1>8. ASSUME NEW p \in Planners, NEW live \in BOOLEAN, AssignStore(p, live)
        PROVE  RosterInv'
    BY <1>8, AssignStoreKeeps
  <1>9. ASSUME UNCHANGED rosterVars
        PROVE  RosterInv'
    BY <1>9 DEF rosterVars, RosterInv, RosterTypeOK, PlannerSound, RowKnown, AssignmentSound,
                CheckSound, BookSound, FreeFor, EditSound, Else, Given, Engaged, BookedExist,
                DoubleBookedOnlyByOverlapOrMove, Clash, InvertedOnlyByPartialEdit
  <1>10. QED
    BY <1>1, <1>2, <1>3, <1>4, <1>5, <1>6, <1>7, <1>8, <1>9 DEF RosterNext

(* The rows, the assignments and the calls under way have their types:     *)
(* shifts and leaves keep both dates, assignments are to shifts and work   *)
(* orders alone.                                                           *)
THEOREM RosterTypeCorrect == RosterSpec => []RosterTypeOK
  <1>1. RosterInv => RosterTypeOK
    BY DEF RosterInv
  <1>2. QED
    BY <1>1, RosterInitially, RosterInductive, PTL DEF RosterSpec

(* Nobody is engaged in two shifts, or two open work orders, at one time   *)
(* but by an assignment checked while the other row was changing, or by a  *)
(* row moved or reopened after its assignment: whatever the number of      *)
(* rows, employees, dates and calls.                                       *)
THEOREM ClashesAreExplained == RosterSpec => []DoubleBookedOnlyByOverlapOrMove
  <1>1. RosterInv => DoubleBookedOnlyByOverlapOrMove
    BY DEF RosterInv
  <1>2. QED
    BY <1>1, RosterInitially, RosterInductive, PTL DEF RosterSpec

(* A row ends before it starts only by an edit of one date that could not  *)
(* see the other.                                                          *)
THEOREM InversionsAreExplained == RosterSpec => []InvertedOnlyByPartialEdit
  <1>1. RosterInv => InvertedOnlyByPartialEdit
    BY DEF RosterInv
  <1>2. QED
    BY <1>1, RosterInitially, RosterInductive, PTL DEF RosterSpec

-----------------------------------------------------------------------------
(***************************************************************************)
(* Personnel.                                                              *)
(***************************************************************************)
Account == Users \cup {Nobody}

ProfileRec == [number : Nat, email : Account, user : Account, terminated : BOOLEAN]

ClerkRec ==
  [op : {"idle", "count", "probe", "insert", "update", "link"},
   row : Profiles \cup {Nobody}, email : Account, user : Account, number : Nat,
   probes : BOOLEAN, typed : BOOLEAN, asked : Account \cup {Blank}, late : BOOLEAN]

(* A call at the desk again relies on nothing.                             *)
LEMMA AtDeskSound == AtDesk \in ClerkRec /\ ClerkSound(AtDesk)
  <1>1. AtDesk \in ClerkRec
    BY DEF AtDesk, ClerkRec, Account
  <1>2. AtDesk.op = "idle"
    BY DEF AtDesk
  <1>3. QED
    BY <1>1, <1>2 DEF ClerkSound, NumberSound, TargetKnown, LinkSound

(* The same after a step.                                                  *)
LEMMA AtDeskStaysSound == ClerkSound(AtDesk)'
  <1>1. AtDesk.op = "idle"
    BY DEF AtDesk
  <1>2. QED
    BY <1>1 DEF ClerkSound, NumberSound, TargetKnown, LinkSound

(* A clerk alone moves on: no profile changes.                             *)
LEMMA ClerkMoves ==
  ASSUME PersonnelInv, NEW c \in Clerks, NEW k \in ClerkRec, ClerkSound(k),
         clerk' = [clerk EXCEPT ![c] = k], UNCHANGED <<profile, byHand>>
  PROVE  PersonnelInv'
  <1>1. clerk \in [Clerks -> ClerkRec]
    BY DEF PersonnelInv, PersonnelTypeOK, ClerkRec, Account
  <1>2. PersonnelTypeOK'
    BY <1>1 DEF PersonnelInv, PersonnelTypeOK, ClerkRec, Account
  <1>3. Staff' = Staff /\ \A x \in Profiles : Exists(x)' <=> Exists(x)
    BY DEF Staff, Exists
  <1>4. \A d \in Clerks : ClerkSound(clerk[d])'
    <2> TAKE d \in Clerks
    <2>1. PICK j : j = clerk'[d]
      OBVIOUS
    <2>2. ClerkSound(j)
      BY <1>1, <2>1 DEF PersonnelInv
    <2>3. ClerkSound(j)'
      BY <1>3, <2>2 DEF ClerkSound, NumberSound, TargetKnown, LinkSound
    <2>4. QED
      BY <2>1, <2>3
  <1>5. NumbersDistinct'
    BY <1>3 DEF PersonnelInv, NumbersDistinct
  <1>6. PortalNumberFree'
    <2>1. Numbers' = Numbers
      BY <1>3 DEF Numbers
    <2>2. QED
      BY <1>3, <2>1 DEF PersonnelInv, PortalNumberFree
  <1>7. QED
    BY <1>2, <1>3, <1>4, <1>5, <1>6 DEF PersonnelInv

(* createEmployee: a typed number is not 0, and nothing is bounded yet.    *)
LEMMA CreateEmployeeKeeps ==
  ASSUME PersonnelInv, NEW c \in Clerks, NEW u \in Account, NEW e \in Account,
         NEW n \in HandNumbers \cup {0}, createEmployee(c, u, e, n)
  PROVE  PersonnelInv'
  <1>1. PICK v \in resolveEmployeeUserId(u, e, Nobody) :
          Start(c, [AtDesk EXCEPT !.op = IF n = 0 THEN "count" ELSE "insert",
                      !.user = v, !.email = e, !.number = n, !.probes = TRUE, !.typed = n # 0])
    BY DEF createEmployee
  <1>2. v \in Account
    BY <1>1 DEF resolveEmployeeUserId
  <1>3. PICK k : k = [AtDesk EXCEPT !.op = IF n = 0 THEN "count" ELSE "insert",
                        !.user = v, !.email = e, !.number = n, !.probes = TRUE, !.typed = n # 0]
    OBVIOUS
  <1>4. n \in Nat
    BY PersonnelAssumption
  <1>5. /\ k \in ClerkRec /\ k.number = n /\ k.typed = (n # 0)
        /\ k.op = IF n = 0 THEN "count" ELSE "insert"
    BY <1>2, <1>3, <1>4 DEF AtDesk, ClerkRec, Account
  <1>6. ClerkSound(k)
    BY <1>5 DEF ClerkSound, NumberSound, TargetKnown, LinkSound
  <1>7. clerk' = [clerk EXCEPT ![c] = k] /\ UNCHANGED <<profile, byHand>>
    BY <1>1, <1>3 DEF Start, createEmployee
  <1>8. QED
    BY <1>5, <1>6, <1>7, ClerkMoves

(* createOwnerEmployee: the number is still to be counted.                 *)
LEMMA CreateOwnerKeeps ==
  ASSUME PersonnelInv, NEW c \in Clerks, createOwnerEmployee(c)
  PROVE  PersonnelInv'
  <1>1. PICK k : k = [AtDesk EXCEPT !.op = "count", !.user = Owner, !.email = Owner]
    OBVIOUS
  <1>2. k \in ClerkRec /\ k.op = "count"
    BY <1>1, PersonnelAssumption DEF AtDesk, ClerkRec, Account
  <1>3. ClerkSound(k)
    BY <1>2 DEF ClerkSound, NumberSound, TargetKnown, LinkSound
  <1>4. clerk' = [clerk EXCEPT ![c] = k] /\ UNCHANGED <<profile, byHand>>
    BY <1>1 DEF Start, createOwnerEmployee
  <1>5. QED
    BY <1>2, <1>3, <1>4, ClerkMoves

(* generateEmployeeNumber: the number after the count.                     *)
LEMMA GenerateKeeps ==
  ASSUME PersonnelInv, NEW c \in Clerks, generateEmployeeNumber(c)
  PROVE  PersonnelInv'
  <1>1. PICK j \in ClerkRec : j = clerk[c]
    BY DEF PersonnelInv, PersonnelTypeOK, ClerkRec, Account
  <1>2. NextNumber \in Nat /\ NextNumber = Cardinality(Staff) + 1 /\ NextNumber # 0
    BY FS_CardinalityType DEF NextNumber, PersonnelInv
  <1>3. PICK k : k = [j EXCEPT !.number = NextNumber, !.op = IF j.probes THEN "probe" ELSE "insert"]
    OBVIOUS
  <1>4. k \in ClerkRec /\ k.number = NextNumber /\ k.op \in {"probe", "insert"}
    BY <1>1, <1>2, <1>3 DEF ClerkRec
  <1>5. NumberSound(k)
    BY <1>2, <1>4 DEF NumberSound
  <1>6. ClerkSound(k)
    BY <1>4, <1>5 DEF ClerkSound, TargetKnown, LinkSound
  <1>7. clerk' = [clerk EXCEPT ![c] = k]
    <2>1. clerk \in [Clerks -> ClerkRec]
      BY DEF PersonnelInv, PersonnelTypeOK, ClerkRec, Account
    <2>2. QED
      BY <1>1, <1>3, <2>1 DEF generateEmployeeNumber, ClerkRec
  <1>8. UNCHANGED <<profile, byHand>>
    BY DEF generateEmployeeNumber
  <1>9. QED
    BY <1>4, <1>6, <1>7, <1>8, ClerkMoves

(* probeNumber: a number that is taken is at most the count.               *)
LEMMA ProbeKeeps ==
  ASSUME PersonnelInv, NEW c \in Clerks, probeNumber(c)
  PROVE  PersonnelInv'
  <1>1. PICK j \in ClerkRec : j = clerk[c]
    BY DEF PersonnelInv, PersonnelTypeOK, ClerkRec, Account
  <1>2. j.op = "probe" /\ NumberSound(j) /\ UNCHANGED <<profile, byHand>>
    BY <1>1 DEF PersonnelInv, ClerkSound, probeNumber
  <1>3. PICK n \in Nat : n = Cardinality(Staff)
    BY FS_CardinalityType DEF PersonnelInv
  <1>4. ~byHand => Numbers = 1 .. n
    BY <1>3 DEF PersonnelInv, PortalNumberFree
  <1>5. CASE j.number \in Numbers
    <2>1. PICK k : k = [j EXCEPT !.number = @ + 1]
      OBVIOUS
    <2>2. k \in ClerkRec /\ k.number = j.number + 1 /\ k.op = j.op /\ k.typed = j.typed
          /\ j.number \in Nat
      BY <2>1 DEF ClerkRec
    <2>3. NumberSound(k)
      <3>1. ~byHand => k.number <= n + 1
        BY <1>3, <1>4, <1>5, <2>2
      <3>2. k.number # 0
        BY <2>2
      <3>3. QED
        BY <1>3, <3>1, <3>2 DEF NumberSound
    <2>4. ClerkSound(k)
      BY <1>2, <2>2, <2>3 DEF ClerkSound, TargetKnown, LinkSound
    <2>5. clerk' = [clerk EXCEPT ![c] = k]
      <3>1. clerk' = [clerk EXCEPT ![c].number = @ + 1]
        BY <1>1, <1>5 DEF probeNumber
      <3>2. QED
        BY <1>1, <2>1, <3>1
    <2>6. QED
      BY <1>2, <2>2, <2>4, <2>5, ClerkMoves
  <1>6. CASE j.number \notin Numbers
    <2>1. PICK k : k = [j EXCEPT !.op = "insert"]
      OBVIOUS
    <2>2. k \in ClerkRec /\ k.number = j.number /\ k.op = "insert" /\ k.typed = j.typed
      BY <2>1 DEF ClerkRec
    <2>3. ClerkSound(k)
      BY <1>2, <2>2 DEF ClerkSound, NumberSound, TargetKnown, LinkSound
    <2>4. clerk' = [clerk EXCEPT ![c] = k]
      BY <1>1, <1>6, <2>1 DEF probeNumber
    <2>5. QED
      BY <1>2, <2>2, <2>3, <2>4, ClerkMoves
  <1>7. QED
    BY <1>5, <1>6

(* updateEmployee: an account found by the address given goes to a profile *)
(* that was free, or the request had a blank userId.                       *)
LEMMA UpdateKeeps ==
  ASSUME PersonnelInv, NEW c \in Clerks, NEW x \in Profiles, NEW a \in Account \cup {Blank},
         NEW e \in Account, NEW n \in HandNumbers \cup {0, EmptyNumber},
         updateEmployee(c, x, a, e, n)
  PROVE  PersonnelInv'
  <1>1. PICK u \in Account : u = IF a = Blank THEN Nobody ELSE a
    BY DEF Account
  <1>2. PICK v \in IF a = Nobody /\ profile[x].user # Nobody THEN {Nobody}
                   ELSE resolveEmployeeUserId(u, e, x) :
          Start(c, [AtDesk EXCEPT !.op = "update", !.row = x, !.email = e, !.user = v,
                      !.number = n, !.typed = n # 0, !.asked = a])
    BY <1>1 DEF updateEmployee
  <1>3. /\ v \in Account
        /\ u # Nobody /\ v # Nobody => v = u
        /\ u = Nobody /\ v # Nobody => v = e
        /\ a = Nobody /\ v # Nobody => profile[x].user = Nobody
    BY <1>2 DEF resolveEmployeeUserId, Account
  <1>4. a \notin {Nobody, Blank} => a = u
    BY <1>1
  <1>5. PICK k : k = [AtDesk EXCEPT !.op = "update", !.row = x, !.email = e, !.user = v,
                        !.number = n, !.typed = n # 0, !.asked = a]
    OBVIOUS
  <1>6. n \in Nat
    BY PersonnelAssumption
  <1>7. /\ k \in ClerkRec /\ k.op = "update" /\ k.row = x /\ k.user = v /\ k.email = e
        /\ k.asked = a
    BY <1>3, <1>5, <1>6 DEF AtDesk, ClerkRec
  <1>8. Exists(x)
    BY DEF updateEmployee
  <1>9. LinkSound(k)
    <2>1. CASE a = Nobody
      <3>1. u = Nobody
        BY <1>1, <2>1, PersonnelAssumption
      <3>2. QED
        BY <1>3, <1>7, <2>1, <3>1 DEF LinkSound
    <2>2. CASE a = Blank
      <3>1. u = Nobody
        BY <1>1, <2>2
      <3>2. QED
        BY <1>3, <1>7, <2>2, <3>1, PersonnelAssumption DEF LinkSound
    <2>3. CASE a \notin {Nobody, Blank}
      BY <1>3, <1>4, <1>7, <2>3 DEF LinkSound
    <2>4. QED
      BY <2>1, <2>2, <2>3
  <1>10. ClerkSound(k)
    BY <1>7, <1>8, <1>9 DEF ClerkSound, NumberSound, TargetKnown
  <1>11. clerk' = [clerk EXCEPT ![c] = k] /\ UNCHANGED <<profile, byHand>>
    BY <1>2, <1>5 DEF Start, updateEmployee
  <1>12. QED
    BY <1>7, <1>10, <1>11, ClerkMoves

(* The link of an account to a profile begins: the profile is free and has *)
(* the account's address, unless the account was named.                    *)
LEMMA LinkBegins ==
  ASSUME PersonnelInv, NEW c \in Clerks, NEW x \in Profiles, NEW u \in Users, Exists(x),
         NEW k \in ClerkRec, k.op = "link", k.row = x, k.user = u,
         k.asked = u \/ (k.asked = Nobody /\ profile[x].user = Nobody /\ profile[x].email = u),
         clerk' = [clerk EXCEPT ![c] = k], UNCHANGED <<profile, byHand>>
  PROVE  PersonnelInv'
  <1>1. u # Nobody
    BY PersonnelAssumption
  <1>2. ClerkSound(k)
    BY <1>1 DEF ClerkSound, NumberSound, TargetKnown, LinkSound
  <1>3. QED
    BY <1>2, ClerkMoves

(* inviteEmployee: the account is named.                                   *)
LEMMA InviteEmployeeKeeps ==
  ASSUME PersonnelInv, NEW c \in Clerks, NEW x \in Profiles, inviteEmployee(c, x)
  PROVE  PersonnelInv'
  <1>1. PICK u \in Users : u = profile[x].email
    BY DEF inviteEmployee, PersonnelInv, PersonnelTypeOK
  <1>2. PICK k : k = [AtDesk EXCEPT !.op = "link", !.row = x, !.user = profile[x].email,
                                    !.asked = profile[x].email]
    OBVIOUS
  <1>3. k \in ClerkRec /\ k.op = "link" /\ k.row = x /\ k.user = u /\ k.asked = u
    BY <1>1, <1>2 DEF AtDesk, ClerkRec, Account
  <1>4. clerk' = [clerk EXCEPT ![c] = k] /\ UNCHANGED <<profile, byHand>> /\ Exists(x)
    BY <1>2 DEF inviteEmployee, Start
  <1>5. QED
    BY <1>3, <1>4, LinkBegins

(* resolveEmployee: a sign-in at the portal.                               *)
LEMMA ResolveKeeps ==
  ASSUME PersonnelInv, NEW c \in Clerks, NEW x \in Profiles, NEW u \in Users,
         resolveEmployee(c, u, x)
  PROVE  PersonnelInv'
  <1>1. PICK k : k = [AtDesk EXCEPT !.op = "link", !.row = x, !.user = u]
    OBVIOUS
  <1>2. k \in ClerkRec /\ k.op = "link" /\ k.row = x /\ k.user = u /\ k.asked = Nobody
    BY <1>1 DEF AtDesk, ClerkRec, Account
  <1>3. clerk' = [clerk EXCEPT ![c] = k] /\ UNCHANGED <<profile, byHand>> /\ Exists(x)
    BY <1>1 DEF resolveEmployee, Start
  <1>4. profile[x].user = Nobody /\ profile[x].email = u
    BY DEF resolveEmployee
  <1>5. QED
    BY <1>2, <1>3, <1>4, LinkBegins

-----------------------------------------------------------------------------
(* A step that removes no profile, and marks as late whoever has read an   *)
(* account or an address that it changes, leaves a call with what it may   *)
(* rely on.                                                                *)
LEMMA ClerkStaysSound ==
  ASSUME NEW k \in ClerkRec, ClerkSound(k), NEW b,
         b = k \/ b = [k EXCEPT !.late = TRUE],
         b = k /\ k.op \in {"update", "link"} /\ k.user # Nobody /\ k.asked = Nobody /\ ~k.late
           => /\ profile'[k.row].user = profile[k.row].user
              /\ profile'[k.row].email = profile[k.row].email,
         \A y \in Profiles : Exists(y) => Exists(y)',
         byHand => byHand',
         Cardinality(Staff) \in Nat, Cardinality(Staff)' \in Nat,
         Cardinality(Staff) <= Cardinality(Staff)'
  PROVE  b \in ClerkRec /\ ClerkSound(b)'
  <1>1. /\ b \in ClerkRec
        /\ b.op = k.op /\ b.row = k.row /\ b.user = k.user /\ b.email = k.email
        /\ b.number = k.number /\ b.typed = k.typed /\ b.asked = k.asked
        /\ b = k \/ b.late
    BY DEF ClerkRec
  <1>2. NumberSound(b)'
    <2> DEFINE m == Cardinality(Staff)
    <2> DEFINE n == Cardinality(Staff)'
    <2>1. /\ b.op \in {"probe", "insert"} => b.number # 0 /\ (~byHand /\ ~b.typed => b.number <= m + 1)
          /\ m \in Nat /\ n \in Nat /\ m <= n /\ b.number \in Nat
      BY <1>1 DEF ClerkSound, NumberSound, ClerkRec
    <2> HIDE DEF m, n
    <2>2. b.op \in {"probe", "insert"} => b.number # 0 /\ (~byHand' /\ ~b.typed => b.number <= n + 1)
      BY <2>1
    <2>3. QED
      BY <2>2 DEF n, NumberSound
  <1>3. TargetKnown(b)'
    BY <1>1 DEF ClerkSound, TargetKnown
  <1>4. LinkSound(b)'
    BY <1>1 DEF ClerkSound, LinkSound
  <1>5. QED
    BY <1>1, <1>2, <1>3, <1>4 DEF ClerkSound

(* A step that changes no number.                                          *)
LEMMA NumbersKept ==
  ASSUME PersonnelInv, \A y \in Profiles : profile'[y].number = profile[y].number
  PROVE  /\ Staff' = Staff /\ Numbers' = Numbers /\ NumbersDistinct'
         /\ \A y \in Profiles : Exists(y)' <=> Exists(y)
  <1>1. \A y \in Profiles : Exists(y)' <=> Exists(y)
    BY DEF Exists
  <1>2. Staff' = Staff
    BY <1>1 DEF Staff
  <1>3. \A y \in Staff : y \in Profiles
    BY DEF Staff
  <1>4. Numbers' = Numbers /\ NumbersDistinct'
    BY <1>2, <1>3 DEF Numbers, NumbersDistinct, PersonnelInv
  <1>5. QED
    BY <1>1, <1>2, <1>4

(* terminateEmployee: neither numbers nor links change.                    *)
LEMMA TerminateKeeps ==
  ASSUME PersonnelInv, NEW x \in Profiles, terminateEmployee(x)
  PROVE  PersonnelInv'
  <1>1. PICK r \in ProfileRec : r = profile[x]
    BY DEF PersonnelInv, PersonnelTypeOK, ProfileRec, Account
  <1>2. PICK s : s = [r EXCEPT !.terminated = TRUE]
    OBVIOUS
  <1>3. s \in ProfileRec /\ s.number = r.number /\ s.user = r.user /\ s.email = r.email
    BY <1>2 DEF ProfileRec
  <1>4. profile \in [Profiles -> ProfileRec]
    BY DEF PersonnelInv, PersonnelTypeOK, ProfileRec, Account
  <1>5. profile' = [profile EXCEPT ![x] = s] /\ UNCHANGED <<clerk, byHand>>
    BY <1>1, <1>2, <1>4 DEF terminateEmployee
  <1>6. profile' \in [Profiles -> ProfileRec]
    BY <1>3, <1>4, <1>5
  <1>7. \A y \in Profiles : /\ profile'[y].number = profile[y].number
                            /\ profile'[y].user = profile[y].user
                            /\ profile'[y].email = profile[y].email
    BY <1>1, <1>3, <1>4, <1>5
  <1>8. /\ Staff' = Staff /\ Numbers' = Numbers /\ NumbersDistinct'
        /\ \A y \in Profiles : Exists(y)' <=> Exists(y)
    BY <1>7, NumbersKept
  <1>9. PersonnelTypeOK'
    BY <1>5, <1>6 DEF PersonnelInv, PersonnelTypeOK, ProfileRec, Account
  <1>10. \A d \in Clerks : ClerkSound(clerk[d])'
    <2> TAKE d \in Clerks
    <2>1. PICK k : k = clerk[d]
      OBVIOUS
    <2>2. ClerkSound(k)
      BY <2>1 DEF PersonnelInv
    <2>3. ClerkSound(k)'
      BY <1>5, <1>7, <1>8, <2>2 DEF ClerkSound, NumberSound, TargetKnown, LinkSound
    <2>4. QED
      BY <1>5, <2>1, <2>3
  <1>11. PortalNumberFree'
    BY <1>5, <1>8 DEF PersonnelInv, PortalNumberFree
  <1>12. QED
    BY <1>8, <1>9, <1>10, <1>11 DEF PersonnelInv

(* What a write to row x leaves in the hands of the other calls: the same, *)
(* or marked late if it changes a link or an address that they have read.  *)
LEMMA OthersOvertaken ==
  ASSUME PersonnelInv, NEW c \in Clerks, NEW x, DoneWith(c, x),
         \A y \in Profiles : y # x => profile'[y] = profile[y],
         \A y \in Profiles : Exists(y) => Exists(y)',
         byHand => byHand', Staff' = Staff
  PROVE  clerk' \in [Clerks -> ClerkRec] /\ \A d \in Clerks : ClerkSound(clerk[d])'
  <1>1. \A d \in Clerks : clerk'[d] \in ClerkRec /\ ClerkSound(clerk[d])'
    <2> TAKE d \in Clerks
    <2>1. PICK k \in ClerkRec : k = clerk[d]
      BY DEF PersonnelInv, PersonnelTypeOK, ClerkRec, Account
    <2>2. PICK b : b = clerk'[d]
      OBVIOUS
    <2>3. CASE d = c
      <3>1. clerk'[d] = AtDesk
        BY <2>3 DEF DoneWith
      <3>2. QED
        BY <3>1, AtDeskSound, AtDeskStaysSound
    <2>4. CASE d # c
      <3>1. ClerkSound(k)
        BY <2>1 DEF PersonnelInv
      <3>2. b = IF /\ k.row = x /\ k.user # Nobody /\ k.asked = Nobody
                   /\ <<profile[x].user, profile[x].email>> # <<profile'[x].user, profile'[x].email>>
                THEN [k EXCEPT !.late = TRUE] ELSE k
        BY <2>1, <2>2, <2>4 DEF DoneWith
      <3>3. b = k \/ b = [k EXCEPT !.late = TRUE]
        BY <3>2
      <3>4. ASSUME b = k, k.op \in {"update", "link"}, k.user # Nobody, k.asked = Nobody, ~k.late
            PROVE  /\ profile'[k.row].user = profile[k.row].user
                   /\ profile'[k.row].email = profile[k.row].email
        <4>1. CASE k.row # x
          BY <3>1, <3>4, <4>1 DEF ClerkSound, TargetKnown
        <4>2. CASE k.row = x
          <5>1. <<profile[x].user, profile[x].email>> = <<profile'[x].user, profile'[x].email>>
            BY <3>2, <3>4, <4>2 DEF ClerkRec
          <5>2. QED
            BY <4>2, <5>1
        <4>3. QED
          BY <4>1, <4>2
      <3>5. Cardinality(Staff) \in Nat
        BY FS_CardinalityType DEF PersonnelInv
      <3>6. b \in ClerkRec /\ ClerkSound(b)'
        BY <3>1, <3>3, <3>4, <3>5, ClerkStaysSound
      <3>7. QED
        BY <2>2, <3>6
    <2>5. QED
      BY <2>3, <2>4
  <1>2. QED
    BY <1>1 DEF DoneWith

-----------------------------------------------------------------------------
(* What a step may do to the links of the profiles.                        *)
LinksExplained ==
  \A x \in Profiles :
    /\ Exists(x) /\ profile'[x].user # profile[x].user
    => \/ profile[x].user = Nobody /\ profile'[x].email = profile'[x].user
       \/ \E c \in Clerks :
            /\ clerk[c].row = x /\ clerk'[c] = AtDesk
            /\ \/ clerk[c].asked = profile'[x].user
               \/ clerk[c].asked = Blank /\ profile'[x].email = profile'[x].user
               \/ clerk[c].late

(* One profile is written by the call that was for it: everything but the  *)
(* numbers, which the caller looks after.                                  *)
LEMMA ProfileWritten ==
  ASSUME PersonnelInv, NEW c \in Clerks, NEW k \in ClerkRec, k = clerk[c],
         k.op \in {"update", "link"}, NEW x \in Profiles, x = k.row,
         NEW s \in ProfileRec, s.number # 0,
         s.user \in {profile[x].user, k.user},
         k.op = "link" => s.email = profile[x].email,
         k.op = "update" => s.email = IF k.email = Nobody THEN profile[x].email ELSE k.email,
         s.user # profile[x].user => k.user # Nobody,
         profile' = [profile EXCEPT ![x] = s], DoneWith(c, x), byHand' \in BOOLEAN,
         byHand => byHand'
  PROVE  /\ PersonnelTypeOK' /\ Staff' = Staff
         /\ \A d \in Clerks : ClerkSound(clerk[d])'
         /\ LinksExplained
  <1>1. profile \in [Profiles -> ProfileRec]
    BY DEF PersonnelInv, PersonnelTypeOK, ProfileRec, Account
  <1>2. profile'[x] = s /\ \A y \in Profiles : y # x => profile'[y] = profile[y]
    BY <1>1
  <1>3. ClerkSound(k) /\ Exists(x)
    BY DEF PersonnelInv, ClerkSound, TargetKnown
  <1>4. \A y \in Profiles : Exists(y)' <=> Exists(y)
    BY <1>2, <1>3 DEF Exists
  <1>5. Staff' = Staff
    BY <1>4 DEF Staff
  <1>6. clerk' \in [Clerks -> ClerkRec] /\ \A d \in Clerks : ClerkSound(clerk[d])'
    BY <1>2, <1>4, <1>5, OthersOvertaken
  <1>7. PersonnelTypeOK'
    <2>1. profile' \in [Profiles -> ProfileRec]
      BY <1>1
    <2>2. QED
      BY <1>6, <2>1 DEF PersonnelTypeOK, ProfileRec, ClerkRec, Account
  <1>8. LinksExplained
    <2> SUFFICES ASSUME NEW y \in Profiles, profile'[y].user # profile[y].user
                 PROVE  \/ profile[y].user = Nobody /\ profile'[y].email = profile'[y].user
                        \/ \E d \in Clerks :
                             /\ clerk[d].row = y /\ clerk'[d] = AtDesk
                             /\ \/ clerk[d].asked = profile'[y].user
                                \/ clerk[d].asked = Blank /\ profile'[y].email = profile'[y].user
                                \/ clerk[d].late
      BY DEF LinksExplained
    <2>1. y = x /\ s.user = k.user /\ k.user # Nobody
      BY <1>2
    <2>2. clerk'[c] = AtDesk
      BY DEF DoneWith
    <2>3. profile'[y].user = k.user /\ profile'[y].email = s.email
      BY <1>2, <2>1
    <2>4. CASE k.late
      BY <2>1, <2>2, <2>4
    <2>5. CASE k.asked # Nobody /\ ~k.late
      <3>1. \/ k.asked = k.user
            \/ k.asked = Blank /\ k.op = "update" /\ k.email = k.user
        BY <1>3, <2>1, <2>5 DEF ClerkSound, LinkSound
      <3>2. CASE k.asked = k.user
        BY <2>1, <2>2, <2>3, <3>2
      <3>3. CASE k.asked = Blank /\ k.op = "update" /\ k.email = k.user
        <4>1. s.email = k.user
          BY <2>1, <3>3
        <4>2. QED
          BY <2>1, <2>2, <2>3, <3>3, <4>1
      <3>4. QED
        BY <3>1, <3>2, <3>3
    <2>6. CASE k.asked = Nobody /\ ~k.late
      <3>1. profile[x].user = Nobody
            /\ IF k.op = "link" THEN profile[x].email = k.user ELSE k.email = k.user
        BY <1>3, <2>1, <2>6 DEF ClerkSound, LinkSound
      <3>2. s.email = s.user
        BY <2>1, <3>1
      <3>3. QED
        BY <1>2, <2>1, <3>1, <3>2
    <2>7. QED
      BY <2>4, <2>5, <2>6
  <1>9. QED
    BY <1>5, <1>6, <1>7, <1>8

(* A call that ends without a write.                                       *)
LEMMA NothingWritten ==
  ASSUME PersonnelInv, NEW c \in Clerks, NEW x, DoneWith(c, x),
         UNCHANGED <<profile, byHand>>
  PROVE  PersonnelInv' /\ LinksExplained
  <1>1. \A y \in Profiles : profile'[y].number = profile[y].number
    OBVIOUS
  <1>2. /\ Staff' = Staff /\ Numbers' = Numbers /\ NumbersDistinct'
        /\ \A y \in Profiles : Exists(y)' <=> Exists(y)
    BY <1>1, NumbersKept
  <1>3. clerk' \in [Clerks -> ClerkRec] /\ \A d \in Clerks : ClerkSound(clerk[d])'
    BY <1>2, OthersOvertaken
  <1>4. PersonnelTypeOK'
    BY <1>3 DEF PersonnelInv, PersonnelTypeOK, ClerkRec, Account
  <1>5. IsFiniteSet(Staff)' /\ PortalNumberFree' /\ LinksExplained
    BY <1>2 DEF PersonnelInv, PortalNumberFree, LinksExplained
  <1>6. QED
    BY <1>2, <1>3, <1>4, <1>5 DEF PersonnelInv

(* storeUpdate: a typed number is free, and from then on anything may be.  *)
LEMMA StoreUpdateKeeps ==
  ASSUME PersonnelInv, NEW c \in Clerks, NEW terminated \in BOOLEAN, storeUpdate(c, terminated)
  PROVE  PersonnelInv' /\ LinksExplained
  <1>1. PICK k \in ClerkRec : k = clerk[c]
    BY DEF PersonnelInv, PersonnelTypeOK, ClerkRec, Account
  <1>2. k.op = "update" /\ ClerkSound(k)
    BY <1>1 DEF storeUpdate, PersonnelInv
  <1>3. PICK x \in Profiles : x = k.row /\ Exists(x)
    BY <1>2 DEF ClerkSound, TargetKnown
  <1>4. DoneWith(c, x)
    <2>1. clerk[c].row = x
      BY <1>1, <1>3
    <2>2. QED
      BY <2>1 DEF storeUpdate, DoneWith
  <1>5. CASE UNCHANGED <<profile, byHand>>
    BY <1>4, <1>5, NothingWritten
  <1>6. CASE ~UNCHANGED <<profile, byHand>>
    <2>1. PICK r \in ProfileRec : r = profile[x]
      BY DEF PersonnelInv, PersonnelTypeOK, ProfileRec, Account
    <2>2. PICK s : s = [r EXCEPT !.email = IF k.email = Nobody THEN @ ELSE k.email,
                                 !.user = IF k.user = Nobody THEN @ ELSE k.user,
                                 !.number = IF k.number = 0 THEN @ ELSE k.number,
                                 !.terminated = terminated]
      OBVIOUS
    <2>3. /\ s \in ProfileRec
          /\ s.number = IF k.number = 0 THEN r.number ELSE k.number
          /\ s.user = IF k.user = Nobody THEN r.user ELSE k.user
          /\ s.email = IF k.email = Nobody THEN r.email ELSE k.email
      BY <2>2 DEF ProfileRec, ClerkRec
    <2>4. r.number # 0
      BY <1>3, <2>1 DEF Exists
    <2>5. profile \in [Profiles -> ProfileRec]
      BY DEF PersonnelInv, PersonnelTypeOK, ProfileRec, Account
    <2>6. profile' = [profile EXCEPT ![x] = s]
      <3>1. profile' = [profile EXCEPT
              ![x].email = IF k.email = Nobody THEN @ ELSE k.email,
              ![x].user = IF k.user = Nobody THEN @ ELSE k.user,
              ![x].number = IF k.number = 0 THEN @ ELSE k.number,
              ![x].terminated = terminated]
        BY <1>1, <1>3, <1>6 DEF storeUpdate
      <3>2. QED
        BY <2>1, <2>2, <2>5, <3>1 DEF ProfileRec
    <2>7. /\ byHand' = (byHand \/ k.number # 0)
          /\ \A y \in Staff \ {x} : profile[y].number # k.number
      BY <1>1, <1>3, <1>6 DEF storeUpdate
    <2>8. /\ PersonnelTypeOK' /\ Staff' = Staff
          /\ \A d \in Clerks : ClerkSound(clerk[d])'
          /\ LinksExplained
      <3>1. byHand' \in BOOLEAN /\ (byHand => byHand')
        BY <2>7 DEF PersonnelInv, PersonnelTypeOK
      <3>2. k.op \in {"update", "link"} /\ s.number # 0 /\ s.user \in {profile[x].user, k.user}
            /\ (s.user # profile[x].user => k.user # Nobody)
        BY <1>2, <2>1, <2>3, <2>4
      <3>3. s.email = IF k.email = Nobody THEN profile[x].email ELSE k.email
        BY <2>1, <2>3
      <3>4. k.op # "link"
        BY <1>2
      <3>5. QED
        BY <1>1, <1>3, <1>4, <2>3, <2>6, <3>1, <3>2, <3>3, <3>4, ProfileWritten
    <2>9. profile'[x] = s /\ \A y \in Profiles : y # x => profile'[y] = profile[y]
      BY <2>5, <2>6
    <2>10. NumbersDistinct' /\ PortalNumberFree'
      <3>1. CASE k.number = 0
        <4>1. \A y \in Profiles : profile'[y].number = profile[y].number
          BY <2>1, <2>3, <2>9, <3>1
        <4>2. Staff' = Staff /\ Numbers' = Numbers /\ NumbersDistinct'
          BY <4>1, NumbersKept
        <4>3. QED
          BY <2>7, <3>1, <4>2 DEF PersonnelInv, PortalNumberFree
      <3>2. CASE k.number # 0
        <4>1. byHand'
          BY <2>7, <3>2
        <4>2. \A y \in Staff : y \in Profiles
          BY DEF Staff
        <4>3. NumbersDistinct'
          BY <2>3, <2>7, <2>8, <2>9, <3>2, <4>2 DEF PersonnelInv, NumbersDistinct
        <4>4. QED
          BY <4>1, <4>3 DEF PortalNumberFree
      <3>3. QED
        BY <3>1, <3>2
    <2>11. QED
      BY <2>8, <2>10 DEF PersonnelInv
  <1>7. QED
    BY <1>5, <1>6

(* linkProfile: no number changes.                                         *)
LEMMA LinkProfileKeeps ==
  ASSUME PersonnelInv, NEW c \in Clerks, linkProfile(c)
  PROVE  PersonnelInv' /\ LinksExplained
  <1>1. PICK k \in ClerkRec : k = clerk[c]
    BY DEF PersonnelInv, PersonnelTypeOK, ClerkRec, Account
  <1>2. k.op = "link" /\ ClerkSound(k) /\ k.user # Nobody
    BY <1>1 DEF linkProfile, PersonnelInv, ClerkSound, TargetKnown
  <1>3. PICK x \in Profiles : x = k.row /\ Exists(x)
    BY <1>2 DEF ClerkSound, TargetKnown
  <1>4. DoneWith(c, x) /\ byHand' = byHand
    <2>1. clerk[c].row = x
      BY <1>1, <1>3
    <2>2. QED
      BY <2>1 DEF linkProfile, DoneWith
  <1>5. CASE profile' = profile
    BY <1>4, <1>5, NothingWritten
  <1>6. CASE profile' # profile
    <2>1. PICK r \in ProfileRec : r = profile[x]
      BY DEF PersonnelInv, PersonnelTypeOK, ProfileRec, Account
    <2>2. PICK s : s = [r EXCEPT !.user = k.user]
      OBVIOUS
    <2>3. s \in ProfileRec /\ s.number = r.number /\ s.user = k.user /\ s.email = r.email
      BY <2>2 DEF ProfileRec, ClerkRec
    <2>4. r.number # 0
      BY <1>3, <2>1 DEF Exists
    <2>5. profile \in [Profiles -> ProfileRec]
      BY DEF PersonnelInv, PersonnelTypeOK, ProfileRec, Account
    <2>6. profile' = [profile EXCEPT ![x] = s]
      <3>1. profile' = [profile EXCEPT ![x].user = k.user]
        BY <1>1, <1>3, <1>6 DEF linkProfile
      <3>2. QED
        BY <2>1, <2>2, <2>5, <3>1
    <2>7. /\ PersonnelTypeOK' /\ Staff' = Staff
          /\ \A d \in Clerks : ClerkSound(clerk[d])'
          /\ LinksExplained
      <3>1. byHand' \in BOOLEAN /\ (byHand => byHand')
        BY <1>4 DEF PersonnelInv, PersonnelTypeOK
      <3>2. k.op \in {"update", "link"} /\ k.op # "update" /\ s.number # 0
            /\ s.user \in {profile[x].user, k.user} /\ s.email = profile[x].email
        BY <1>2, <2>1, <2>3, <2>4
      <3>3. QED
        BY <1>1, <1>2, <1>3, <1>4, <2>3, <2>6, <3>1, <3>2, ProfileWritten
    <2>8. \A y \in Profiles : profile'[y].number = profile[y].number
      BY <2>1, <2>3, <2>5, <2>6
    <2>9. Staff' = Staff /\ Numbers' = Numbers /\ NumbersDistinct'
      BY <2>8, NumbersKept
    <2>10. PortalNumberFree'
      BY <1>4, <2>9 DEF PersonnelInv, PortalNumberFree
    <2>11. QED
      BY <2>7, <2>9, <2>10 DEF PersonnelInv
  <1>7. QED
    BY <1>5, <1>6

-----------------------------------------------------------------------------
(* insertProfile: while no number is typed, the one that is not taken and  *)
(* at most one past the count is the one after the count.                  *)
LEMMA InsertKeeps ==
  ASSUME PersonnelInv, NEW c \in Clerks, NEW x \in Profiles, NEW terminated \in BOOLEAN,
         insertProfile(c, x, terminated)
  PROVE  PersonnelInv'
  <1>1. PICK k \in ClerkRec : k = clerk[c]
    BY DEF PersonnelInv, PersonnelTypeOK, ClerkRec, Account
  <1>2. k.op = "insert" /\ ~Exists(x) /\ clerk' = [clerk EXCEPT ![c] = AtDesk] /\ NumberSound(k)
    BY <1>1 DEF insertProfile, Done, PersonnelInv, ClerkSound
  <1>3. CASE UNCHANGED <<profile, byHand>>
    BY <1>2, <1>3, AtDeskSound, ClerkMoves
  <1>4. CASE ~UNCHANGED <<profile, byHand>>
    <2>1. PICK s : s = [NoProfile EXCEPT !.number = k.number, !.email = k.email,
                                         !.user = k.user, !.terminated = terminated]
      OBVIOUS
    <2>2. s \in ProfileRec /\ s.number = k.number
      BY <2>1 DEF NoProfile, ProfileRec, ClerkRec
    <2>3. /\ k.number \notin Numbers /\ profile' = [profile EXCEPT ![x] = s]
          /\ byHand' = (byHand \/ k.typed)
      BY <1>1, <1>4, <2>1 DEF insertProfile
    <2>4. profile \in [Profiles -> ProfileRec] /\ clerk \in [Clerks -> ClerkRec]
          /\ byHand \in BOOLEAN
      BY DEF PersonnelInv, PersonnelTypeOK, ProfileRec, ClerkRec, Account
    <2>5. profile'[x] = s /\ \A y \in Profiles : y # x => profile'[y] = profile[y]
      BY <2>3, <2>4
    <2>6. k.number \in Nat \ {0}
      BY <1>2 DEF ClerkRec, NumberSound
    <2>7. \A y \in Profiles : Exists(y)' <=> Exists(y) \/ y = x
      BY <2>2, <2>5, <2>6 DEF Exists
    <2>8. Staff' = Staff \cup {x} /\ x \notin Staff /\ Staff \subseteq Profiles
      BY <1>2, <2>7 DEF Staff
    <2>9. Numbers' = Numbers \cup {k.number}
      <3>1. \A y \in Staff : profile'[y].number = profile[y].number
        BY <2>5, <2>8
      <3>2. profile'[x].number = k.number
        BY <2>2, <2>5
      <3>3. QED
        BY <2>8, <3>1, <3>2 DEF Numbers
    <2>10. PICK n \in Nat : n = Cardinality(Staff)
      BY FS_CardinalityType DEF PersonnelInv
    <2>11. IsFiniteSet(Staff) /\ IsFiniteSet(Staff \cup {x}) /\ Cardinality(Staff \cup {x}) = n + 1
      BY <2>8, <2>10, FS_AddElement DEF PersonnelInv
    <2>12. Cardinality(Staff)' = n + 1 /\ IsFiniteSet(Staff)'
      BY <2>8, <2>11
    <2>13. PersonnelTypeOK'
      <3>1. profile' \in [Profiles -> ProfileRec]
        BY <2>2, <2>3, <2>4
      <3>2. clerk' \in [Clerks -> ClerkRec]
        BY <1>2, <2>4, AtDeskSound
      <3>3. byHand' \in BOOLEAN
        BY <2>3, <2>4 DEF ClerkRec
      <3>4. QED
        BY <3>1, <3>2, <3>3 DEF PersonnelTypeOK, ProfileRec, ClerkRec, Account
    <2>14. \A d \in Clerks : ClerkSound(clerk[d])'
      <3> TAKE d \in Clerks
      <3>1. CASE d = c
        <4>1. clerk'[d] = AtDesk
          BY <1>2, <2>4, <3>1
        <4>2. QED
          BY <4>1, AtDeskStaysSound
      <3>2. CASE d # c
        <4>1. PICK j \in ClerkRec : j = clerk[d]
          BY <2>4
        <4>2. ClerkSound(j) /\ clerk'[d] = j
          BY <1>2, <2>4, <3>2, <4>1 DEF PersonnelInv
        <4>3. j.op \in {"update", "link"}
              => /\ profile'[j.row].user = profile[j.row].user
                 /\ profile'[j.row].email = profile[j.row].email
          BY <1>2, <2>5, <4>2 DEF ClerkSound, TargetKnown
        <4>4. /\ Cardinality(Staff) \in Nat /\ Cardinality(Staff)' \in Nat
              /\ Cardinality(Staff) <= Cardinality(Staff)'
          BY <2>10, <2>12
        <4>5. \A y \in Profiles : Exists(y) => Exists(y)'
          BY <2>7
        <4>6. byHand => byHand'
          BY <2>3
        <4>7. ClerkSound(j)'
          BY <4>2, <4>3, <4>4, <4>5, <4>6, ClerkStaysSound
        <4>8. QED
          BY <4>2, <4>7
      <3>3. QED
        BY <3>1, <3>2
    <2>15. NumbersDistinct'
      <3>1. \A y \in Staff : profile[y].number # k.number
        BY <2>3 DEF Numbers
      <3>2. \A y \in Staff : profile'[y].number = profile[y].number
        BY <2>5, <2>8
      <3>3. profile'[x].number = k.number
        BY <2>2, <2>5
      <3>4. QED
        BY <2>8, <3>1, <3>2, <3>3 DEF PersonnelInv, NumbersDistinct
    <2>16. PortalNumberFree'
      <3> SUFFICES ASSUME ~byHand'
                   PROVE  Numbers' = 1 .. Cardinality(Staff)'
        BY DEF PortalNumberFree
      <3>1. ~byHand /\ ~k.typed
        BY <2>3
      <3>2. Numbers = 1 .. n
        BY <2>10, <3>1 DEF PersonnelInv, PortalNumberFree
      <3>3. k.number <= n + 1
        BY <1>2, <2>10, <3>1 DEF NumberSound
      <3>4. k.number = n + 1
        BY <2>3, <2>6, <3>2, <3>3
      <3>5. Numbers' = 1 .. (n + 1)
        BY <2>9, <3>2, <3>4
      <3>6. QED
        BY <2>12, <3>5
    <2>17. QED
      BY <2>12, <2>13, <2>14, <2>15, <2>16 DEF PersonnelInv
  <1>5. QED
    BY <1>3, <1>4

-----------------------------------------------------------------------------
(* At the start there is at most the owner's profile, number 1.            *)
LEMMA PersonnelInitially == PersonnelInit => PersonnelInv
  <1> SUFFICES ASSUME PersonnelInit
               PROVE  PersonnelInv
    OBVIOUS
  <1>1. \A c \in Clerks : clerk[c] \in ClerkRec /\ ClerkSound(clerk[c])
    <2> TAKE c \in Clerks
    <2>1. clerk[c] = AtDesk
      BY DEF PersonnelInit
    <2>2. QED
      BY <2>1, AtDeskSound
  <1>2. clerk \in [Clerks -> ClerkRec] /\ byHand = FALSE
    BY <1>1 DEF PersonnelInit
  <1>3. NoProfile \in ProfileRec /\ NoProfile.number = 0
    BY DEF NoProfile, ProfileRec, Account
  <1>4. OwnerProfile \in ProfileRec /\ OwnerProfile.number = 1
    BY PersonnelAssumption DEF OwnerProfile, NoProfile, ProfileRec, Account
  <1>5. CASE profile = [x \in Profiles |-> NoProfile]
    <2>1. profile \in [Profiles -> ProfileRec]
      BY <1>3, <1>5
    <2>2. Staff = {}
      BY <1>3, <1>5 DEF Staff, Exists
    <2>3. Numbers = {} /\ Cardinality(Staff) = 0 /\ IsFiniteSet(Staff)
      BY <2>2, FS_EmptySet DEF Numbers
    <2>4. NumbersDistinct /\ PortalNumberFree
      BY <2>2, <2>3 DEF NumbersDistinct, PortalNumberFree
    <2>5. QED
      BY <1>1, <1>2, <2>1, <2>3, <2>4 DEF PersonnelInv, PersonnelTypeOK, ProfileRec, ClerkRec, Account
  <1>6. ASSUME NEW x \in Profiles,
               profile = [y \in Profiles |-> IF y = x THEN OwnerProfile ELSE NoProfile]
        PROVE  PersonnelInv
    <2>1. profile \in [Profiles -> ProfileRec]
      BY <1>3, <1>4, <1>6
    <2>2. Staff = {x}
      BY <1>3, <1>4, <1>6 DEF Staff, Exists
    <2>3. Numbers = {1}
      BY <1>4, <1>6, <2>2 DEF Numbers
    <2>4. Cardinality(Staff) = 1 /\ IsFiniteSet(Staff)
      BY <2>2, FS_Singleton
    <2>5. NumbersDistinct /\ PortalNumberFree
      BY <2>2, <2>3, <2>4 DEF NumbersDistinct, PortalNumberFree
    <2>6. QED
      BY <1>1, <1>2, <2>1, <2>4, <2>5 DEF PersonnelInv, PersonnelTypeOK, ProfileRec, ClerkRec, Account
  <1>7. QED
    BY <1>5, <1>6 DEF PersonnelInit

(* A call that begins, counts or probes changes no profile, and a link     *)
(* that is not changed needs no explanation.                               *)
LEMMA NoLinkChanged ==
  ASSUME \A x \in Profiles : Exists(x) => profile'[x].user = profile[x].user
  PROVE  LinksExplained
  BY DEF LinksExplained

(* Every step keeps the invariant, and every link it changes is explained. *)
LEMMA PersonnelInductive ==
  PersonnelInv /\ [PersonnelNext]_personnelVars => PersonnelInv' /\ LinksExplained
  <1> SUFFICES ASSUME PersonnelInv, [PersonnelNext]_personnelVars
               PROVE  PersonnelInv' /\ LinksExplained
    OBVIOUS
  <1>1. ASSUME NEW c \in Clerks, NEW u \in Account, NEW e \in Account,
               NEW n \in HandNumbers \cup {0}, createEmployee(c, u, e, n)
        PROVE  PersonnelInv' /\ LinksExplained
    <2>1. profile' = profile
      BY <1>1 DEF createEmployee
    <2>2. QED
      BY <1>1, <2>1, CreateEmployeeKeeps, NoLinkChanged
  <1>2. ASSUME NEW c \in Clerks, NEW x \in Profiles, NEW a \in Account \cup {Blank},
               NEW e \in Account, NEW n \in HandNumbers \cup {0, EmptyNumber},
               updateEmployee(c, x, a, e, n)
        PROVE  PersonnelInv' /\ LinksExplained
    <2>1. profile' = profile
      BY <1>2 DEF updateEmployee
    <2>2. QED
      BY <1>2, <2>1, UpdateKeeps, NoLinkChanged
  <1>3. ASSUME NEW c \in Clerks,
               createOwnerEmployee(c) \/ generateEmployeeNumber(c) \/ probeNumber(c)
        PROVE  PersonnelInv' /\ LinksExplained
    <2>1. profile' = profile
      BY <1>3 DEF createOwnerEmployee, generateEmployeeNumber, probeNumber
    <2>2. QED
      BY <1>3, <2>1, CreateOwnerKeeps, GenerateKeeps, ProbeKeeps, NoLinkChanged
  <1>4. ASSUME NEW c \in Clerks, NEW x \in Profiles, inviteEmployee(c, x)
        PROVE  PersonnelInv' /\ LinksExplained
    <2>1. profile' = profile
      BY <1>4 DEF inviteEmployee
    <2>2. QED
      BY <1>4, <2>1, InviteEmployeeKeeps, NoLinkChanged
  <1>5. ASSUME NEW c \in Clerks, NEW x \in Profiles, NEW terminated \in BOOLEAN,
               insertProfile(c, x, terminated)
        PROVE  PersonnelInv' /\ LinksExplained
    <2>1. \A y \in Profiles : Exists(y) => profile'[y] = profile[y]
      BY <1>5 DEF insertProfile, PersonnelInv, PersonnelTypeOK
    <2>2. QED
      BY <1>5, <2>1, InsertKeeps, NoLinkChanged
  <1>6. ASSUME NEW c \in Clerks, NEW x \in Profiles, NEW u \in Users, resolveEmployee(c, u, x)
        PROVE  PersonnelInv' /\ LinksExplained
    <2>1. profile' = profile
      BY <1>6 DEF resolveEmployee
    <2>2. QED
      BY <1>6, <2>1, ResolveKeeps, NoLinkChanged
  <1>7. ASSUME NEW c \in Clerks, NEW terminated \in BOOLEAN, storeUpdate(c, terminated)
        PROVE  PersonnelInv' /\ LinksExplained
    BY <1>7, StoreUpdateKeeps
  <1>8. ASSUME NEW c \in Clerks, linkProfile(c)
        PROVE  PersonnelInv' /\ LinksExplained
    BY <1>8, LinkProfileKeeps
  <1>9. ASSUME NEW x \in Profiles, terminateEmployee(x)
        PROVE  PersonnelInv' /\ LinksExplained
    <2>1. \A y \in Profiles : profile'[y].user = profile[y].user
      BY <1>9 DEF terminateEmployee, PersonnelInv, PersonnelTypeOK
    <2>2. QED
      BY <1>9, <2>1, TerminateKeeps, NoLinkChanged
  <1>10. ASSUME UNCHANGED personnelVars
         PROVE  PersonnelInv' /\ LinksExplained
    <2>1. PersonnelInv'
      <3>1. UNCHANGED <<profile, clerk, byHand>>
        BY <1>10 DEF personnelVars
      <3>2. /\ Staff' = Staff /\ Numbers' = Numbers /\ NumbersDistinct'
            /\ \A y \in Profiles : Exists(y)' <=> Exists(y)
        BY <3>1, NumbersKept
      <3>3. \A d \in Clerks : ClerkSound(clerk[d])'
        <4> TAKE d \in Clerks
        <4>1. PICK k : k = clerk[d]
          OBVIOUS
        <4>2. ClerkSound(k)
          BY <4>1 DEF PersonnelInv
        <4>3. ClerkSound(k)'
          BY <3>1, <3>2, <4>2 DEF ClerkSound, NumberSound, TargetKnown, LinkSound
        <4>4. QED
          BY <3>1, <4>1, <4>3
      <3>4. QED
        BY <3>1, <3>2, <3>3 DEF PersonnelInv, PersonnelTypeOK, PortalNumberFree
    <2>2. QED
      BY <1>10, <2>1, NoLinkChanged DEF personnelVars
  <1>11. QED
    BY <1>1, <1>2, <1>3, <1>4, <1>5, <1>6, <1>7, <1>8, <1>9, <1>10 DEF PersonnelNext, Account

(* The profiles and the calls under way have their types.                  *)
THEOREM PersonnelTypeCorrect == PersonnelSpec => []PersonnelTypeOK
  <1>1. PersonnelInv => PersonnelTypeOK
    BY DEF PersonnelInv
  <1>2. QED
    BY <1>1, PersonnelInitially, PersonnelInductive, PTL DEF PersonnelSpec

(* As long as nobody typed a number the numbers of a workspace are those   *)
(* from 1 to the count, however many calls count and probe at a time: the  *)
(* one the staff portal takes is free.                                     *)
THEOREM CountedNumbersAreFree == PersonnelSpec => []PortalNumberFree
  <1>1. PersonnelInv => PortalNumberFree
    BY DEF PersonnelInv
  <1>2. QED
    BY <1>1, PersonnelInitially, PersonnelInductive, PTL DEF PersonnelSpec

(* No step takes a profile from one account to another but that of a call  *)
(* which was asked to, by account or by a blank userId with the account's  *)
(* address, or was overtaken by an edit after it read the profile.         *)
THEOREM LinksAreTakenAskedOrStale == PersonnelSpec => LinkTakenOnlyAskedOrStale
  <1>1. PersonnelInv /\ [PersonnelNext]_personnelVars
        => [\A x \in Profiles :
              /\ Exists(x) /\ profile'[x].user # profile[x].user
              => \/ profile[x].user = Nobody /\ profile'[x].email = profile'[x].user
                 \/ \E c \in Clerks :
                      /\ clerk[c].row = x /\ clerk'[c] = AtDesk
                      /\ \/ clerk[c].asked = profile'[x].user
                         \/ clerk[c].asked = Blank /\ profile'[x].email = profile'[x].user
                         \/ clerk[c].late]_personnelVars
    BY PersonnelInductive DEF LinksExplained
  <1>2. QED
    BY <1>1, PersonnelInitially, PersonnelInductive, PTL DEF PersonnelSpec,
         LinkTakenOnlyAskedOrStale

-----------------------------------------------------------------------------
(* Both parts, side by side as the run takes them, have their types.       *)
THEOREM PeopleTypeCorrect == Spec => []TypeOK
  <1>1. Init => RosterInv /\ PersonnelInv
    BY RosterInitially, PersonnelInitially DEF Init
  <1>2. RosterInv /\ PersonnelInv /\ [Next]_vars => RosterInv' /\ PersonnelInv'
    <2>1. [Next]_vars => [RosterNext]_rosterVars /\ [PersonnelNext]_personnelVars
      BY DEF Next, vars
    <2>2. QED
      BY <2>1, RosterInductive, PersonnelInductive
  <1>3. RosterInv /\ PersonnelInv => TypeOK
    BY DEF RosterInv, PersonnelInv, TypeOK
  <1>4. QED
    BY <1>1, <1>2, <1>3, PTL DEF Spec
=============================================================================
