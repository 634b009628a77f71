-------------------------- MODULE ServiceFlowProofs --------------------------
(***************************************************************************)
(* Theorems about ServiceFlow for every number of rows, employees and      *)
(* requests in flight, checked by TLAPS.                                   *)
(***************************************************************************)
EXTENDS ServiceFlow, FiniteSetTheorems, TLAPS

\* What a request in flight may rely on: each row it is going to write has been
\* named, a clock-out its record from the start and a clock-in when it writes.
WellFormed(k) ==
  /\ k \in CallRow
  /\ k.stage \in {"begun", "read", "locked"} => k.staff \in Staff
  /\ k.stage = "converting" => k.request \in Requests
  /\ k.newWork # "unchanged" => k.work \in WorkOrders
  /\ k.newRequest # "unchanged" => k.stage = "locked" /\ k.request \in Requests
  /\ k.startsShift => k.shift \in Shifts
  /\ k.ends => k.stage \in {"begun", "read", "locked"} /\ k.record \in Records
  /\ ~k.ends => (k.stage = "locked" <=> k.record \in Records)

Typed == TypeOK /\ \A c \in Calls : WellFormed(call[c])

LEMMA IdleWellFormed == WellFormed(Idle)
  BY ServiceFlowAssumption DEF Idle, WellFormed, CallRow, Stage

\* One request in flight moves on to a well-formed row.
LEMMA CallMoves ==
  ASSUME Typed, NEW c \in Calls, NEW k, WellFormed(k),
         call' = [call EXCEPT ![c] = k]
  PROVE  call' \in [Calls -> CallRow] /\ \A d \in Calls : WellFormed(call'[d])
  BY DEF Typed, TypeOK, WellFormed

\* The initial states are typed.
LEMMA InitTyped == Init => Typed
<1>1. Init => TypeOK
  BY IdleWellFormed DEF Init, TypeOK, WellFormed, NoWork, NoRecord, ShiftStatus
<1>2. Init => \A c \in Calls : call[c] = Idle
  BY DEF Init
<1>3. QED
  BY <1>1, <1>2, IdleWellFormed DEF Typed

\* Deciding a request keeps the record of who decided it typed.
LEMMA SettleTyped ==
  ASSUME TypeOK, NEW R, NEW who \in {"desk", "closeout", "relinked"}, Settle(R, who)
  PROVE  settledBy' \in [Requests -> {"desk", "closeout", "relinked"}]
  BY DEF TypeOK, Settle

\* The desk's steps on requests, work orders, assignments and shifts.
LEMMA DeskTyped ==
  ASSUME Typed,
         \/ \E r \in Requests :
              CreateRequest(r) \/ UpdateRequestStatus(r) \/ UpdateRequest(r)
         \/ \E w \in WorkOrders :
              CreateWork(w) \/ UpdateWorkStatus(w) \/ UpdateWork(w) \/ Signoff(w)
         \/ \E w \in WorkOrders, e \in Staff : AddAssignment(w, e)
         \/ \E s \in Shifts : UpdateShiftStatus(s)
  PROVE  Typed' /\ call' = call
<1>1. ASSUME NEW r \in Requests, NEW s \in RequestStatus,
             WriteRequest(r, s), Logged(r, s) \/ Unlogged(r)
      PROVE  TypeOK' /\ call' = call
  <2>1. settledBy' \in [Requests -> {"desk", "closeout", "relinked"}]
    BY <1>1, SettleTyped DEF WriteRequest, Typed
  <2>2. QED
    BY <1>1, <2>1 DEF WriteRequest, Logged, Unlogged, Typed, TypeOK
<1>2. ASSUME NEW w \in WorkOrders, NEW s \in WorkStatus \cup {"ABSENT"},
             NEW r \in Requests \cup {None}, WriteWork(w, s, r),
             \/ s \in WorkStatus /\ Logged(w, s)
             \/ Unlogged(w)
             \/ UNCHANGED <<log, silent>>
      PROVE  TypeOK' /\ call' = call
  <2>1. settledBy' \in [Requests -> {"desk", "closeout", "relinked"}]
    BY <1>2, SettleTyped DEF WriteWork, Typed
  <2>2. QED
    BY <1>2, <2>1 DEF WriteWork, Logged, Unlogged, Typed, TypeOK
<1>3. TypeOK
  BY DEF Typed
<1>4. RequestInputs \subseteq RequestStatus /\ "SUBMITTED" \in RequestStatus
  BY ServiceFlowAssumption DEF RequestStatus
<1>5. /\ WorkInputs \subseteq WorkStatus
      /\ "CREATED" \in WorkStatus /\ "CUSTOMER_APPROVED" \in WorkStatus
  BY ServiceFlowAssumption DEF WorkStatus
<1>6. \A w \in WorkOrders : /\ work[w].status \in WorkStatus \cup {"ABSENT"}
                            /\ work[w].request \in Requests \cup {None}
  BY <1>3 DEF TypeOK
<1>7. TypeOK' /\ call' = call
  <2>1. ASSUME NEW r \in Requests,
               CreateRequest(r) \/ UpdateRequestStatus(r) \/ UpdateRequest(r)
        PROVE  TypeOK' /\ call' = call
    BY <1>1, <1>4, <2>1 DEF CreateRequest, UpdateRequestStatus, UpdateRequest
  <2>2. ASSUME NEW w \in WorkOrders,
               CreateWork(w) \/ UpdateWorkStatus(w) \/ UpdateWork(w) \/ Signoff(w)
        PROVE  TypeOK' /\ call' = call
    <3>1. CASE CreateWork(w)
      BY <1>2, <1>5, <3>1 DEF CreateWork, ExistingRequests
    <3>2. CASE UpdateWorkStatus(w)
      BY <1>2, <1>5, <1>6, <3>2 DEF UpdateWorkStatus
    <3>3. CASE UpdateWork(w)
      BY <1>2, <1>5, <1>6, <3>3 DEF UpdateWork, ExistingRequests
    <3>4. CASE Signoff(w)
      BY <1>2, <1>5, <1>6, <3>4 DEF Signoff
    <3>5. QED
      BY <2>2, <3>1, <3>2, <3>3, <3>4
  <2>3. ASSUME NEW w \in WorkOrders, NEW e \in Staff, AddAssignment(w, e)
        PROVE  TypeOK' /\ call' = call
    BY <1>3, <2>3 DEF AddAssignment, TypeOK, history
  <2>4. ASSUME NEW s \in Shifts, UpdateShiftStatus(s)
        PROVE  TypeOK' /\ call' = call
    BY <1>3, <2>4, ServiceFlowAssumption DEF UpdateShiftStatus, TypeOK, history
  <2>5. QED
    BY <2>1, <2>2, <2>3, <2>4
<1>8. QED
  BY <1>7 DEF Typed, WellFormed

\* A conversion, clock-in or clock-out that begins or goes on has well-formed
\* reads, and what it writes is typed.
LEMMA CallTyped ==
  ASSUME Typed, NEW c \in Calls,
         \/ \E r \in Requests : ReadToConvert(c, r)
         \/ \E e \in Staff : BeginClockIn(c, e) \/ BeginClockOut(c, e)
         \/ ReadAssignment(c) \/ WriteField(c) \/ Fail(c)
  PROVE  Typed'
<1>1. WellFormed(call[c]) /\ TypeOK
  BY DEF Typed
<1>2. ASSUME NEW k, WellFormed(k), call' = [call EXCEPT ![c] = k],
             UNCHANGED <<rows, history>>
      PROVE  Typed'
  <2>1. call' \in [Calls -> CallRow] /\ \A d \in Calls : WellFormed(call'[d])
    BY <1>2, CallMoves
  <2>2. TypeOK'
    BY <1>1, <1>2, <2>1 DEF TypeOK, rows, history
  <2>3. QED
    BY <2>1, <2>2 DEF Typed, WellFormed
<1>3. CASE \E r \in Requests : ReadToConvert(c, r)
  <2>1. PICK r \in Requests : ReadToConvert(c, r)
    BY <1>3
  <2> DEFINE k == [Idle EXCEPT !.stage = "converting", !.request = r]
  <2>2. WellFormed(k)
    BY ServiceFlowAssumption DEF Idle, WellFormed, CallRow, Stage
  <2>3. call' = [call EXCEPT ![c] = k] /\ UNCHANGED <<rows, history>>
    BY <1>1, <2>1 DEF ReadToConvert, TypeOK, Idle, CallRow
  <2>4. QED
    BY <1>2, <2>2, <2>3
<1>4. CASE \E e \in Staff : BeginClockIn(c, e)
  <2>1. PICK e \in Staff, s \in Shifts \cup {None}, w \in WorkOrders \cup {None} :
          /\ call' = [call EXCEPT ![c] =
               [Idle EXCEPT !.stage = "begun", !.staff = e, !.shift = s, !.work = w]]
          /\ UNCHANGED <<rows, history>>
    BY <1>4 DEF BeginClockIn
  <2>2. WellFormed([Idle EXCEPT !.stage = "begun", !.staff = e, !.shift = s, !.work = w])
    BY ServiceFlowAssumption DEF Idle, WellFormed, CallRow, Stage
  <2>3. QED
    BY <1>2, <2>1, <2>2
<1>5. CASE \E e \in Staff : BeginClockOut(c, e)
  <2>1. PICK e \in Staff : BeginClockOut(c, e)
    BY <1>5
  <2>2. PICK a \in OpenRecords(e), w \in WorkOrders \cup {None}, ends \in BOOLEAN :
          /\ call' = [call EXCEPT ![c] =
               [Idle EXCEPT !.stage = "begun", !.staff = e, !.record = a, !.work = w,
                            !.ends = TRUE, !.completes = ends]]
          /\ UNCHANGED <<rows, history>>
    BY <2>1 DEF BeginClockOut
  <2>3. a \in Records
    BY DEF OpenRecords
  <2>4. WellFormed([Idle EXCEPT !.stage = "begun", !.staff = e, !.record = a,
                                !.work = w, !.ends = TRUE, !.completes = ends])
    BY <2>3, ServiceFlowAssumption DEF Idle, WellFormed, CallRow, Stage
  <2>5. QED
    BY <1>2, <2>2, <2>4
<1>6. CASE ReadAssignment(c)
  <2> DEFINE w == call[c].work
             s == call[c].shift
             starts == s # None /\ shift[s] \in {"SCHEDULED", "CONFIRMED"}
             r == IF w = None THEN None ELSE work[w].request
             n == IF w = None THEN "unchanged" ELSE NewWorkStatus(c, work[w].status)
             k == [call[c] EXCEPT !.stage = "read", !.startsShift = starts,
                                  !.request = r, !.newWork = n]
  <2>1. /\ call' = [call EXCEPT ![c] = k] /\ UNCHANGED <<rows, history>>
        /\ call[c].stage = "begun"
    BY <1>1, <1>6 DEF ReadAssignment, TypeOK
  <2>2. starts \in BOOLEAN /\ (starts => s \in Shifts)
    BY <1>1 DEF WellFormed, CallRow
  <2>3. r \in Requests \cup {None}
    BY <1>1 DEF WellFormed, CallRow, TypeOK
  <2>4. n \in WorkStatus \cup {"unchanged"} /\ (n # "unchanged" => w \in WorkOrders)
    BY <1>1 DEF WellFormed, CallRow, NewWorkStatus, WorkStatus
  <2>5. /\ call[c].newRequest = "unchanged" /\ call[c].staff \in Staff
        /\ call[c].ends => call[c].record \in Records
        /\ ~call[c].ends => call[c].record \notin Records
    BY <1>1, <2>1 DEF WellFormed
  <2>6. WellFormed(k)
    <3> HIDE DEF starts, r, n
    <3>1. /\ k.stage = "read" /\ k.startsShift = starts /\ k.request = r /\ k.newWork = n
          /\ k.staff = call[c].staff /\ k.record = call[c].record /\ k.shift = s
          /\ k.work = w /\ k.ends = call[c].ends /\ k.newRequest = "unchanged"
      BY <1>1, <2>5 DEF WellFormed, CallRow
    <3>2. k \in CallRow
      BY <1>1, <2>2, <2>3, <2>4 DEF WellFormed, CallRow, Stage
    <3> HIDE DEF k
    <3>3. QED
      BY <2>2, <2>3, <2>4, <2>5, <3>1, <3>2 DEF WellFormed
  <2>7. QED
    BY <1>2, <2>1, <2>6
<1>7. CASE WriteField(c)
  <2> DEFINE n == NewRequestStatus(c)
             r == call[c].request
  <2>1. PICK a \in IF call[c].ends THEN {call[c].record}
                                   ELSE {b \in Records : IsFresh(b)} :
          /\ call' = [call EXCEPT ![c] =
               [call[c] EXCEPT !.stage = "locked", !.record = a, !.newRequest = n]]
          /\ UNCHANGED <<rows, history>> /\ call[c].stage = "read"
    BY <1>1, <1>7 DEF WriteField, TypeOK
  <2>2. a \in Records
    BY <1>1, <2>1 DEF WellFormed
  <2>3. n \in RequestStatus \cup {"unchanged"} /\ (n # "unchanged" => r \in Requests)
    BY <1>1 DEF WellFormed, CallRow, NewRequestStatus, RequestStatus
  <2> DEFINE k == [call[c] EXCEPT !.stage = "locked", !.record = a, !.newRequest = n]
  <2>4. WellFormed(k)
    <3> HIDE DEF n
    <3>1. /\ k.stage = "locked" /\ k.record = a /\ k.newRequest = n /\ k.request = r
          /\ k.staff = call[c].staff /\ k.shift = call[c].shift /\ k.work = call[c].work
          /\ k.ends = call[c].ends /\ k.newWork = call[c].newWork
          /\ k.startsShift = call[c].startsShift
      BY <1>1 DEF WellFormed, CallRow
    <3>2. k \in CallRow
      BY <1>1, <2>2, <2>3 DEF WellFormed, CallRow, Stage
    <3> HIDE DEF k
    <3>3. QED
      BY <1>1, <2>1, <2>2, <2>3, <3>1, <3>2 DEF WellFormed
  <2>5. QED
    BY <1>2, <2>1, <2>4
<1>8. CASE Fail(c)
  BY <1>2, <1>8, IdleWellFormed DEF Fail
<1>9. QED
  BY <1>3, <1>4, <1>5, <1>6, <1>7, <1>8

\* A conversion stores a work order of the request it has read.
LEMMA ConvertTyped ==
  ASSUME Typed, NEW c \in Calls, NEW w \in WorkOrders, ConvertToWorkOrder(c, w)
  PROVE  Typed'
<1>1. WellFormed(call[c]) /\ TypeOK /\ call[c].stage = "converting"
  BY DEF Typed, ConvertToWorkOrder
<1>2. PICK r \in Requests : r = call[c].request
  BY <1>1 DEF WellFormed
<1>3. call' \in [Calls -> CallRow] /\ \A d \in Calls : WellFormed(call'[d])
  BY IdleWellFormed, CallMoves DEF ConvertToWorkOrder
<1>4. settledBy' \in [Requests -> {"desk", "closeout", "relinked"}]
  BY <1>1, SettleTyped DEF ConvertToWorkOrder
<1>5. work' \in [WorkOrders -> [status : WorkStatus \cup {"ABSENT"},
                               request : Requests \cup {None}]]
  BY <1>1, <1>2 DEF ConvertToWorkOrder, TypeOK, WorkStatus
<1>6. /\ request' \in [Requests -> RequestStatus \cup {"ABSENT"}]
      /\ log' \in [Requests \cup WorkOrders -> RequestStatus \cup WorkStatus \cup {"ABSENT"}]
      /\ silent' \subseteq Requests \cup WorkOrders
  BY <1>1, <1>2 DEF ConvertToWorkOrder, TypeOK, WorkStatus, RequestStatus
<1>7. TypeOK'
  BY <1>1, <1>3, <1>4, <1>5, <1>6 DEF ConvertToWorkOrder, TypeOK
<1>8. QED
  BY <1>3, <1>7 DEF Typed, WellFormed

\* A manager's changes keep attendance rows typed.
LEMMA ManagerTyped ==
  ASSUME Typed, NEW a \in Records,
         UpdateAttendance(a) \/ \E e \in Staff : CreateAttendance(a, e)
  PROVE  Typed' /\ call' = call
<1>1. PICK k \in [staff : Staff \cup {None}, open : BOOLEAN] :
        /\ attendance' = [attendance EXCEPT ![a] = k]
        /\ manual' = manual \cup {a}
        /\ UNCHANGED <<request, work, shift, assigned, log, call, silent,
                      closeouts, settledBy>>
  BY DEF Typed, TypeOK, UpdateAttendance, CreateAttendance, ByManager
<1>2. TypeOK' /\ call' = call
  BY <1>1 DEF Typed, TypeOK
<1>3. QED
  BY <1>2 DEF Typed, WellFormed

\* What a clock-in or clock-out commits is typed.
LEMMA CommitTyped ==
  ASSUME Typed, NEW c \in Calls, CommitField(c)
  PROVE  Typed'
<1> DEFINE w == call[c].work
           r == call[c].request
           a == call[c].record
<1>1. WellFormed(call[c]) /\ TypeOK /\ call[c].stage = "locked"
  BY DEF Typed, CommitField
<1>2. call' \in [Calls -> CallRow] /\ \A d \in Calls : WellFormed(call'[d])
  BY IdleWellFormed, CallMoves DEF CommitField
<1>3. settledBy' \in [Requests -> {"desk", "closeout", "relinked"}]
  <2> DEFINE R   == IF call[c].newRequest = "unchanged" THEN {} ELSE {r}
             who == IF call[c].ends THEN "closeout" ELSE "desk"
  <2>1. Settle(R, who)
    BY DEF CommitField
  <2>2. who \in {"desk", "closeout", "relinked"}
    OBVIOUS
  <2> HIDE DEF R, who
  <2>3. QED
    BY <1>1, <2>1, <2>2, SettleTyped
<1>4. /\ a \in Records /\ call[c].staff \in Staff /\ call[c].ends \in BOOLEAN
      /\ WritesWork(c) => w \in WorkOrders /\ call[c].newWork \in WorkStatus
      /\ call[c].newRequest # "unchanged"
           => r \in Requests /\ call[c].newRequest \in RequestStatus
      /\ call[c].startsShift => call[c].shift \in Shifts
  BY <1>1 DEF WellFormed, CallRow, WritesWork
<1>5. attendance' \in [Records -> [staff : Staff \cup {None}, open : BOOLEAN]]
  BY <1>1, <1>4 DEF CommitField, TypeOK
<1>6. closeouts' \in [Records -> Nat]
  BY <1>1, <1>4 DEF CommitField, TypeOK
<1>7. shift' \in [Shifts -> ShiftStatus]
  BY <1>1, <1>4 DEF CommitField, TypeOK, ShiftStatus
<1>8. work' \in [WorkOrders -> [status : WorkStatus \cup {"ABSENT"},
                               request : Requests \cup {None}]]
  BY <1>1, <1>4 DEF CommitField, TypeOK
<1>9. request' \in [Requests -> RequestStatus \cup {"ABSENT"}]
  BY <1>1, <1>4 DEF CommitField, TypeOK, Put
<1>10. log' \in [Requests \cup WorkOrders -> RequestStatus \cup WorkStatus \cup {"ABSENT"}]
  <2>1. Put(log, w, call[c].newWork)
          \in [Requests \cup WorkOrders -> RequestStatus \cup WorkStatus \cup {"ABSENT"}]
    BY <1>1, <1>4 DEF TypeOK, Put, WritesWork
  <2>2. log' = Put(Put(log, w, call[c].newWork), r, call[c].newRequest)
    BY DEF CommitField
  <2>3. QED
    BY <1>4, <2>1, <2>2 DEF Put
<1>11. TypeOK'
  BY <1>1, <1>2, <1>3, <1>5, <1>6, <1>7, <1>8, <1>9, <1>10 DEF CommitField, TypeOK
<1>12. QED
  BY <1>2, <1>11 DEF Typed, WellFormed

\* Every step keeps the types.
LEMMA NextTyped == Typed /\ [Next]_vars => Typed'
<1> SUFFICES ASSUME Typed, [Next]_vars PROVE Typed'
  OBVIOUS
<1>1. CASE UNCHANGED vars
  BY <1>1 DEF vars, rows, history, Typed, TypeOK, WellFormed
<1>2. CASE Next
  BY <1>2, DeskTyped, CallTyped, ConvertTyped, ManagerTyped, CommitTyped DEF Next
<1>3. QED
  BY <1>1, <1>2

\* Rows, requests in flight and histories are always of their types.
THEOREM TypeCorrect == Spec => []TypeOK
<1>1. Typed => TypeOK
  BY DEF Typed
<1>2. QED
  BY <1>1, InitTyped, NextTyped, PTL DEF Spec

-----------------------------------------------------------------------------
\* A status write that logs what it writes, or admits that it does not, keeps
\* the history honest; so does one that writes neither.
LEMMA DeskExplained ==
  ASSUME Typed, HistoryExplainsStatus,
         \/ \E r \in Requests :
              CreateRequest(r) \/ UpdateRequestStatus(r) \/ UpdateRequest(r)
         \/ \E w \in WorkOrders :
              CreateWork(w) \/ UpdateWorkStatus(w) \/ UpdateWork(w) \/ Signoff(w)
  PROVE  HistoryExplainsStatus'
<1>1. ASSUME NEW r \in Requests, NEW s, WriteRequest(r, s), Logged(r, s) \/ Unlogged(r)
      PROVE  HistoryExplainsStatus'
  <2>1. /\ r \notin silent' => log'[r] = s
        /\ \A x \in (Requests \cup WorkOrders) \ {r} :
             log'[x] = log[x] /\ (x \in silent' <=> x \in silent)
    BY <1>1 DEF Logged, Unlogged, Typed, TypeOK
  <2>2. /\ request'[r] = s /\ work' = work
        /\ \A q \in Requests \ {r} : request'[q] = request[q]
    BY <1>1 DEF WriteRequest, Typed, TypeOK
  <2>3. r \notin WorkOrders
    BY ServiceFlowAssumption
  <2>4. QED
    BY <2>1, <2>2, <2>3 DEF HistoryExplainsStatus
<1>2. ASSUME NEW w \in WorkOrders, NEW s, NEW r, WriteWork(w, s, r),
             \/ Logged(w, s) \/ Unlogged(w)
             \/ s = work[w].status /\ UNCHANGED <<log, silent>>
      PROVE  HistoryExplainsStatus'
  <2>1. /\ w \notin silent' => log'[w] = s
        /\ \A x \in (Requests \cup WorkOrders) \ {w} :
             log'[x] = log[x] /\ (x \in silent' <=> x \in silent)
    BY <1>2 DEF Logged, Unlogged, Typed, TypeOK, HistoryExplainsStatus
  <2>2. /\ work'[w].status = s /\ request' = request
        /\ \A v \in WorkOrders \ {w} : work'[v] = work[v]
    BY <1>2 DEF WriteWork, Typed, TypeOK
  <2>3. w \notin Requests
    BY ServiceFlowAssumption
  <2>4. QED
    BY <2>1, <2>2, <2>3 DEF HistoryExplainsStatus
<1>3. ASSUME NEW r \in Requests,
             CreateRequest(r) \/ UpdateRequestStatus(r) \/ UpdateRequest(r)
      PROVE  HistoryExplainsStatus'
  BY <1>1, <1>3 DEF CreateRequest, UpdateRequestStatus, UpdateRequest
<1>4. ASSUME NEW w \in WorkOrders,
             CreateWork(w) \/ UpdateWorkStatus(w) \/ UpdateWork(w) \/ Signoff(w)
      PROVE  HistoryExplainsStatus'
  BY <1>2, <1>4 DEF CreateWork, UpdateWorkStatus, UpdateWork, Signoff
<1>5. QED
  BY <1>3, <1>4

\* A conversion logs both statuses it writes.
LEMMA ConvertExplained ==
  ASSUME Typed, HistoryExplainsStatus, NEW c \in Calls, NEW w \in WorkOrders,
         ConvertToWorkOrder(c, w)
  PROVE  HistoryExplainsStatus'
<1> DEFINE r == call[c].request
<1>1. r \in Requests /\ r # w /\ r \notin WorkOrders /\ w \notin Requests
  BY ServiceFlowAssumption DEF Typed, WellFormed, ConvertToWorkOrder
<1>2. /\ request'[r] = "SCHEDULED" /\ log'[r] = "SCHEDULED"
      /\ work'[w].status = "CREATED" /\ log'[w] = "CREATED"
  BY <1>1 DEF ConvertToWorkOrder, Typed, TypeOK
<1>3. /\ \A x \in (Requests \cup WorkOrders) \ {r, w} :
           log'[x] = log[x] /\ (x \in silent' <=> x \in silent)
      /\ \A q \in Requests \ {r} : request'[q] = request[q]
      /\ \A v \in WorkOrders \ {w} : work'[v] = work[v]
  BY <1>1 DEF ConvertToWorkOrder, Typed, TypeOK
<1>4. QED
  BY <1>1, <1>2, <1>3 DEF HistoryExplainsStatus

\* A clock-in or clock-out logs the statuses it writes and no others.
LEMMA CommitExplained ==
  ASSUME Typed, HistoryExplainsStatus, NEW c \in Calls, CommitField(c)
  PROVE  HistoryExplainsStatus'
<1> DEFINE r   == call[c].request
           w   == call[c].work
           mid == Put(log, w, call[c].newWork)
<1>1. /\ call[c].newRequest # "unchanged" => r \in Requests
      /\ call[c].newWork # "unchanged" => w \in WorkOrders
      /\ Requests \cap WorkOrders = {}
  BY ServiceFlowAssumption DEF Typed, WellFormed
<1>2. /\ DOMAIN mid = Requests \cup WorkOrders
      /\ call[c].newWork # "unchanged" => mid[w] = call[c].newWork
      /\ \A x \in Requests \cup WorkOrders :
           x # w \/ call[c].newWork = "unchanged" => mid[x] = log[x]
  BY <1>1 DEF Put, Typed, TypeOK
<1>3. log' = Put(mid, r, call[c].newRequest)
  BY DEF CommitField
<1> HIDE DEF mid
<1>4. /\ call[c].newRequest # "unchanged" => log'[r] = call[c].newRequest
      /\ \A x \in Requests \cup WorkOrders :
           x # r \/ call[c].newRequest = "unchanged" => log'[x] = mid[x]
  BY <1>1, <1>2, <1>3 DEF Put
<1>5. /\ call[c].newRequest # "unchanged" => request'[r] = call[c].newRequest
      /\ \A q \in Requests :
           q # r \/ call[c].newRequest = "unchanged" => request'[q] = request[q]
  BY <1>1 DEF CommitField, Put, Typed, TypeOK
<1>6. /\ call[c].newWork # "unchanged" => work'[w].status = call[c].newWork
      /\ \A v \in WorkOrders :
           v # w \/ call[c].newWork = "unchanged" => work'[v] = work[v]
  BY <1>1 DEF CommitField, WritesWork, Typed, TypeOK
<1>7. \A x \in Requests \cup WorkOrders :
        /\ x \in silent' => x \in silent
        /\ x \in silent /\ x \notin silent'
             => \/ x = w /\ call[c].newWork # "unchanged"
                \/ x = r /\ call[c].newRequest # "unchanged"
  BY DEF CommitField, WritesWork
<1>8. ASSUME NEW q \in Requests \ silent'
      PROVE  request'[q] = log'[q]
  <2>1. q # w \/ call[c].newWork = "unchanged"
    BY <1>1
  <2>2. QED
    BY <1>2, <1>4, <1>5, <1>7, <2>1 DEF HistoryExplainsStatus
<1>9. ASSUME NEW v \in WorkOrders \ silent'
      PROVE  work'[v].status = log'[v]
  <2>1. v # r \/ call[c].newRequest = "unchanged"
    BY <1>1
  <2>2. QED
    BY <1>2, <1>4, <1>6, <1>7, <2>1 DEF HistoryExplainsStatus
<1>10. QED
  BY <1>8, <1>9 DEF HistoryExplainsStatus

\* However clock-ins, clock-outs, conversions and the desk interleave, a row's
\* newest history row names its status unless a PATCH or sign-off wrote it.
THEOREM HistoryIsHonest == Spec => []HistoryExplainsStatus
<1>1. Init => HistoryExplainsStatus
  BY DEF Init, HistoryExplainsStatus, NoWork
<1>2. ASSUME Typed, HistoryExplainsStatus, [Next]_vars
      PROVE  HistoryExplainsStatus'
  <2>1. CASE UNCHANGED <<request, work, log, silent>>
    BY <1>2, <2>1 DEF HistoryExplainsStatus
  <2>2. CASE \/ \E w \in WorkOrders, e \in Staff : AddAssignment(w, e)
             \/ \E s \in Shifts : UpdateShiftStatus(s)
             \/ \E a \in Records :
                  UpdateAttendance(a) \/ \E e \in Staff : CreateAttendance(a, e)
             \/ \E c \in Calls, q \in Requests : ReadToConvert(c, q)
             \/ \E c \in Calls, e \in Staff : BeginClockIn(c, e) \/ BeginClockOut(c, e)
             \/ \E c \in Calls : ReadAssignment(c) \/ WriteField(c) \/ Fail(c)
    BY <2>1, <2>2 DEF AddAssignment, UpdateShiftStatus, UpdateAttendance,
         CreateAttendance, ReadToConvert, BeginClockIn, BeginClockOut,
         ReadAssignment, WriteField, Fail, rows, history
  <2>3. CASE UNCHANGED vars
    BY <2>1, <2>3 DEF vars, rows, history
  <2>4. QED
    BY <1>2, <2>2, <2>3, DeskExplained, ConvertExplained, CommitExplained DEF Next
<1>3. QED
  BY <1>1, <1>2, InitTyped, NextTyped, PTL DEF Spec

-----------------------------------------------------------------------------
\* Counting: subsets are no larger, and what moves from B to A changes no sum.
LEMMA Shrunk ==
  ASSUME NEW A, NEW B, IsFiniteSet(A), IsFiniteSet(B),
         NEW A1 \in SUBSET A, NEW B1 \in SUBSET B
  PROVE  Cardinality(A1) + Cardinality(B1) <= Cardinality(A) + Cardinality(B)
<1>1. /\ IsFiniteSet(A1) /\ Cardinality(A1) <= Cardinality(A)
      /\ IsFiniteSet(B1) /\ Cardinality(B1) <= Cardinality(B)
  BY FS_Subset
<1>2. /\ Cardinality(A) \in Nat /\ Cardinality(B) \in Nat
      /\ Cardinality(A1) \in Nat /\ Cardinality(B1) \in Nat
  BY <1>1, FS_CardinalityType
<1>3. QED
  BY <1>1, <1>2

LEMMA Moved ==
  ASSUME NEW A, NEW B, IsFiniteSet(A), IsFiniteSet(B), NEW a, NEW b \in B,
         NEW A1 \in SUBSET (A \cup {a}), NEW B1 \in SUBSET (B \ {b})
  PROVE  Cardinality(A1) + Cardinality(B1) <= Cardinality(A) + Cardinality(B)
<1>1. /\ IsFiniteSet(A \cup {a})
      /\ Cardinality(A \cup {a}) \in {Cardinality(A), Cardinality(A) + 1}
  BY FS_AddElement
<1>2. IsFiniteSet(B \ {b}) /\ Cardinality(B \ {b}) = Cardinality(B) - 1
  BY FS_RemoveElement
<1>3. Cardinality(A1) + Cardinality(B1)
        <= Cardinality(A \cup {a}) + Cardinality(B \ {b})
  BY <1>1, <1>2, Shrunk
<1>4. /\ Cardinality(A) \in Nat /\ Cardinality(B) \in Nat
      /\ Cardinality(A1) \in Nat /\ Cardinality(B1) \in Nat
  BY <1>1, <1>2, FS_CardinalityType, FS_Subset
<1>5. QED
  BY <1>1, <1>2, <1>3, <1>4

\* The rows of an employee's open records and the calls that may add to them.
Portal(e) == OpenRecords(e) \ manual

LEMMA OverlapFinite ==
  \A e : /\ IsFiniteSet(Portal(e)) /\ IsFiniteSet(Opening(e))
         /\ IsFiniteSet(Calls) /\ Cardinality(Calls) \in Nat
         /\ Cardinality(Portal(e)) \in Nat /\ Cardinality(Opening(e)) \in Nat
<1>1. \A e : Portal(e) \subseteq Records /\ Opening(e) \subseteq Calls
  BY DEF Portal, OpenRecords, Opening
<1>2. QED
  BY <1>1, ServiceFlowAssumption, FS_Subset, FS_CardinalityType

Bounded(e) == Cardinality(Portal(e)) + Cardinality(Opening(e)) <= Cardinality(Calls)

\* A step that opens no record of an employee and begins no clock-in.
LEMMA BoundShrinks ==
  ASSUME NEW e, Bounded(e), Portal(e)' \subseteq Portal(e),
         Opening(e)' \subseteq Opening(e)
  PROVE  Bounded(e)'
<1>1. Cardinality(Portal(e)') + Cardinality(Opening(e)')
        <= Cardinality(Portal(e)) + Cardinality(Opening(e))
  BY OverlapFinite, Shrunk
<1>2. /\ IsFiniteSet(Portal(e)') /\ IsFiniteSet(Opening(e)')
      /\ Cardinality(Portal(e)') \in Nat /\ Cardinality(Opening(e)') \in Nat
  BY OverlapFinite, FS_Subset, FS_CardinalityType
<1>3. QED
  BY <1>1, <1>2, OverlapFinite DEF Bounded

\* Where the open-record check is made, the employee has no open record.
LEMMA BeginBounded ==
  ASSUME Typed, NEW e \in Staff, Bounded(e), NEW c \in Calls, NEW f \in Staff,
         BeginClockIn(c, f)
  PROVE  Bounded(e)'
<1>1. call[c] = Idle /\ Portal(e)' = Portal(e)
  BY DEF BeginClockIn, rows, history, Portal, OpenRecords
<1>2. CASE f = e
  <2>1. Portal(e)' = {}
    BY <1>1, <1>2 DEF BeginClockIn, MayClockIn, Portal
  <2>2. Opening(e)' \subseteq Calls
    BY DEF Opening
  <2>3. Cardinality(Portal(e)') = 0 /\ Cardinality(Opening(e)') <= Cardinality(Calls)
    BY <2>1, <2>2, OverlapFinite, FS_Subset, FS_EmptySet
  <2>4. Cardinality(Opening(e)') \in Nat
    BY <2>2, OverlapFinite, FS_Subset, FS_CardinalityType
  <2>5. QED
    BY <2>3, <2>4, OverlapFinite DEF Bounded
<1>3. CASE f # e
  <2>1. call'[c].staff = f /\ \A d \in Calls \ {c} : call'[d] = call[d]
    BY DEF BeginClockIn, Typed, TypeOK, Idle
  <2>2. Opening(e)' \subseteq Opening(e)
    BY <1>3, <2>1 DEF Opening
  <2>3. QED
    BY <1>1, <2>2, BoundShrinks
<1>4. QED
  BY <1>2, <1>3

\* A clock-in that commits trades its place among the calls for a record.
LEMMA CommitBounded ==
  ASSUME Typed, NEW e \in Staff, Bounded(e), NEW c \in Calls, CommitField(c)
  PROVE  Bounded(e)'
<1> DEFINE a == call[c].record
<1>1. WellFormed(call[c]) /\ call[c].stage = "locked"
  BY DEF Typed, CommitField
<1>2. a \in Records /\ call[c].ends \in BOOLEAN
  BY <1>1 DEF WellFormed, CallRow
<1>3. /\ \A b \in Records \ {a} : attendance'[b] = attendance[b]
      /\ manual' = manual
      /\ call'[c].stage = "idle" /\ \A d \in Calls \ {c} : call'[d] = call[d]
  BY DEF CommitField, Typed, TypeOK, Idle
<1>4. Opening(e)' \subseteq Opening(e) \ {c}
  BY <1>3 DEF Opening
<1>5. CASE ~call[c].ends /\ call[c].staff = e
  <2>1. c \in Opening(e)
    BY <1>1, <1>5 DEF Opening
  <2>2. Portal(e)' \subseteq Portal(e) \cup {a}
    BY <1>3 DEF Portal, OpenRecords
  <2>3. Cardinality(Portal(e)') + Cardinality(Opening(e)')
          <= Cardinality(Portal(e)) + Cardinality(Opening(e))
    BY <1>4, <2>1, <2>2, OverlapFinite, Moved
  <2>4. /\ Cardinality(Portal(e)') \in Nat /\ Cardinality(Opening(e)') \in Nat
    BY <1>4, <2>2, OverlapFinite, FS_Subset, FS_AddElement, FS_CardinalityType
  <2>5. QED
    BY <2>3, <2>4, OverlapFinite DEF Bounded
<1>6. CASE call[c].ends \/ call[c].staff # e
  <2>1. ~(attendance'[a].staff = e /\ attendance'[a].open)
    BY <1>2, <1>6 DEF CommitField, Typed, TypeOK
  <2>2. Portal(e)' \subseteq Portal(e)
    BY <1>3, <2>1 DEF Portal, OpenRecords
  <2>3. QED
    BY <1>4, <2>2, BoundShrinks
<1>7. QED
  BY <1>2, <1>5, <1>6

\* Every other step opens no portal record and begins no clock-in.
LEMMA OthersBounded ==
  ASSUME Typed, NEW e \in Staff, Bounded(e),
         \/ UNCHANGED <<attendance, manual, call>>
         \/ \E a \in Records :
              UpdateAttendance(a) \/ \E f \in Staff : CreateAttendance(a, f)
         \/ \E c \in Calls, r \in Requests : ReadToConvert(c, r)
         \/ \E c \in Calls, w \in WorkOrders : ConvertToWorkOrder(c, w)
         \/ \E c \in Calls, f \in Staff : BeginClockOut(c, f)
         \/ \E c \in Calls : ReadAssignment(c) \/ WriteField(c) \/ Fail(c)
  PROVE  Bounded(e)'
<1>1. CASE UNCHANGED <<attendance, manual, call>>
  BY <1>1, BoundShrinks DEF Portal, OpenRecords, Opening
<1>2. CASE \E a \in Records :
             UpdateAttendance(a) \/ \E f \in Staff : CreateAttendance(a, f)
  <2>1. PICK a \in Records :
          /\ call' = call /\ manual' = manual \cup {a}
          /\ \A b \in Records \ {a} : attendance'[b] = attendance[b]
    BY <1>2 DEF UpdateAttendance, CreateAttendance, ByManager, Typed, TypeOK
  <2>2. Portal(e)' \subseteq Portal(e) /\ Opening(e)' \subseteq Opening(e)
    BY <2>1 DEF Portal, OpenRecords, Opening
  <2>3. QED
    BY <2>2, BoundShrinks
<1>4. CASE \/ \E c \in Calls, r \in Requests : ReadToConvert(c, r)
           \/ \E c \in Calls, w \in WorkOrders : ConvertToWorkOrder(c, w)
           \/ \E c \in Calls, f \in Staff : BeginClockOut(c, f)
           \/ \E c \in Calls : ReadAssignment(c) \/ WriteField(c) \/ Fail(c)
  <2>1. PICK c \in Calls :
          \/ \E r \in Requests : ReadToConvert(c, r)
          \/ \E w \in WorkOrders : ConvertToWorkOrder(c, w)
          \/ \E f \in Staff : BeginClockOut(c, f)
          \/ ReadAssignment(c) \/ WriteField(c) \/ Fail(c)
    BY <1>4
  <2>2. UNCHANGED <<attendance, manual>> /\ \A d \in Calls \ {c} : call'[d] = call[d]
    BY <2>1 DEF ReadToConvert, ConvertToWorkOrder, BeginClockOut, ReadAssignment,
         WriteField, Fail, rows, history, Typed, TypeOK
  <2>3. c \in Opening(e)' => c \in Opening(e)
    <3>1. WellFormed(call[c]) /\ call \in [Calls -> CallRow] /\ e # None
      BY ServiceFlowAssumption DEF Typed, TypeOK
    <3>2. CASE \E r \in Requests : ReadToConvert(c, r)
      <4>1. call'[c].staff = None
        BY <3>1, <3>2 DEF ReadToConvert, Idle
      <4>2. QED
        BY <3>1, <4>1 DEF Opening
    <3>3. CASE (\E w \in WorkOrders : ConvertToWorkOrder(c, w)) \/ Fail(c)
      <4>1. call'[c].stage = "idle"
        BY <3>1, <3>3 DEF ConvertToWorkOrder, Fail, Idle
      <4>2. QED
        BY <4>1 DEF Opening
    <3>4. CASE \E f \in Staff : BeginClockOut(c, f)
      <4>1. call'[c].ends
        BY <3>1, <3>4 DEF BeginClockOut, Idle
      <4>2. QED
        BY <4>1 DEF Opening
    <3>5. CASE ReadAssignment(c) \/ WriteField(c)
      <4>1. /\ call[c].stage # "idle"
            /\ call'[c].staff = call[c].staff /\ call'[c].ends = call[c].ends
        <5>1. CASE ReadAssignment(c)
          BY <3>1, <5>1 DEF ReadAssignment, CallRow
        <5>2. CASE WriteField(c)
          <6>1. PICK a : call' = [call EXCEPT ![c] =
                  [@ EXCEPT !.stage = "locked", !.record = a,
                            !.newRequest = NewRequestStatus(c)]]
            BY <5>2 DEF WriteField
          <6>2. call[c].stage = "read"
            BY <5>2 DEF WriteField
          <6>3. QED
            BY <3>1, <6>1, <6>2 DEF CallRow
        <5>3. QED
          BY <3>5, <5>1, <5>2
      <4>2. QED
        BY <4>1 DEF Opening
    <3>6. QED
      BY <2>1, <3>2, <3>3, <3>4, <3>5
  <2>4. Portal(e)' \subseteq Portal(e) /\ Opening(e)' \subseteq Opening(e)
    BY <2>2, <2>3 DEF Portal, OpenRecords, Opening
  <2>5. QED
    BY <2>4, BoundShrinks
<1>5. QED
  BY <1>1, <1>2, <1>4

\* The one-open-record rule bends by no more than the calls that overlap: the
\* records the portal left open and the clock-ins still to come never outnumber
\* the requests in flight together.
THEOREM OverlapBoundsOpenRecords == Spec => []OpenBoundedByOverlap
<1>1. OpenBoundedByOverlap <=> \A e \in Staff : Bounded(e)
  BY DEF OpenBoundedByOverlap, Bounded, Portal
<1>2. Init => OpenBoundedByOverlap
  <2>1. ASSUME Init, NEW e \in Staff
        PROVE  Portal(e) = {} /\ Opening(e) = {}
    BY <2>1, ServiceFlowAssumption DEF Init, Portal, OpenRecords, NoRecord, Opening, Idle
  <2>2. QED
    BY <1>1, <2>1, OverlapFinite, FS_EmptySet DEF Bounded
<1>3. ASSUME Typed, OpenBoundedByOverlap, [Next]_vars
      PROVE  OpenBoundedByOverlap'
  <2>1. SUFFICES ASSUME NEW e \in Staff PROVE Bounded(e)'
    BY DEF OpenBoundedByOverlap, Bounded, Portal
  <2>2. Bounded(e)
    BY <1>1, <1>3
  <2>3. CASE UNCHANGED vars
    BY <1>3, <2>2, <2>3, OthersBounded DEF vars, rows, history
  <2>4. CASE \/ \E r \in Requests :
                  CreateRequest(r) \/ UpdateRequestStatus(r) \/ UpdateRequest(r)
             \/ \E w \in WorkOrders :
                  CreateWork(w) \/ UpdateWorkStatus(w) \/ UpdateWork(w) \/ Signoff(w)
             \/ \E w \in WorkOrders, f \in Staff : AddAssignment(w, f)
             \/ \E s \in Shifts : UpdateShiftStatus(s)
    <3>1. UNCHANGED <<attendance, manual, call>>
      BY <2>4 DEF CreateRequest, UpdateRequestStatus, UpdateRequest, WriteRequest,
           CreateWork, UpdateWorkStatus, UpdateWork, Signoff, WriteWork,
           AddAssignment, UpdateShiftStatus, history
    <3>2. QED
      BY <1>3, <2>2, <3>1, OthersBounded
  <2>5. QED
    BY <1>3, <2>2, <2>3, <2>4, BeginBounded, CommitBounded, OthersBounded DEF Next
<1>4. QED
  BY <1>2, <1>3, InitTyped, NextTyped, PTL DEF Spec

-----------------------------------------------------------------------------
\* Why an attendance is closed so few times.  The clock-outs that hold it, and
\* the clock-ins about to insert a row:
Closing(a) == {c \in Calls : call[c].ends /\ call[c].record = a}
Starting   == {c \in Calls : ~call[c].ends /\ call[c].stage = "locked"}

\* A row belongs to someone, so closing it does not make it vanish; no
\* clock-out has reached an open row or one that does not exist.
RowsSound ==
  \A a \in Records :
    /\ IsRecord(a) => attendance[a].staff # None
    /\ attendance[a].open \/ ~IsRecord(a) => closeouts[a] = 0

\* Clock-outs hold existing rows; clock-ins rows of their own, not yet inserted.
RecordsHeld ==
  /\ \A c \in Calls : call[c].ends => IsRecord(call[c].record)
  /\ \A c \in Starting :
       /\ ~IsRecord(call[c].record)
       /\ \A d \in Starting \ {c} : call[d].record # call[c].record

CloseBounded(a) == closeouts[a] + Cardinality(Closing(a)) <= Cardinality(Calls)

ClosingInv == RowsSound /\ RecordsHeld /\ \A a \in Records : CloseBounded(a)

LEMMA ClosingFinite ==
  \A a : /\ IsFiniteSet(Closing(a)) /\ Cardinality(Closing(a)) \in Nat
         /\ Cardinality(Closing(a)) <= Cardinality(Calls)
         /\ Cardinality(Calls) \in Nat
<1>1. \A a : Closing(a) \subseteq Calls
  BY DEF Closing
<1>2. QED
  BY <1>1, ServiceFlowAssumption, FS_Subset, FS_CardinalityType

\* No clock-out of a begins and none commits.
LEMMA CloseShrinks ==
  ASSUME Typed, NEW a \in Records, CloseBounded(a),
         closeouts'[a] = closeouts[a], Closing(a)' \subseteq Closing(a)
  PROVE  CloseBounded(a)'
<1>1. /\ Cardinality(Closing(a)') <= Cardinality(Closing(a))
      /\ Cardinality(Closing(a)') \in Nat
  BY ClosingFinite, FS_Subset, FS_CardinalityType
<1>2. closeouts[a] \in Nat
  BY DEF Typed, TypeOK
<1>3. QED
  BY <1>1, <1>2, ClosingFinite DEF CloseBounded

\* A manager inserts a row nobody holds or edits one without reopening it.
LEMMA ManagerClosing ==
  ASSUME Typed, ClosingInv, NEW a \in Records,
         UpdateAttendance(a) \/ \E e \in Staff : CreateAttendance(a, e)
  PROVE  ClosingInv'
<1>1. PICK e \in Staff, open \in BOOLEAN :
        /\ attendance' = [attendance EXCEPT ![a] = [staff |-> e, open |-> open]]
        /\ \/ IsRecord(a) /\ (open => attendance[a].open)
           \/ IsFresh(a)
  BY DEF Typed, TypeOK, UpdateAttendance, CreateAttendance
<1>2. UNCHANGED <<call, closeouts>>
  BY DEF UpdateAttendance, CreateAttendance
<1>3. /\ attendance'[a].staff = e /\ attendance'[a].open = open /\ e # None
      /\ \A b \in Records \ {a} : attendance'[b] = attendance[b]
  BY <1>1, ServiceFlowAssumption DEF Typed, TypeOK
<1>4. IsRecord(a)' /\ \A b \in Records \ {a} : IsRecord(b)' <=> IsRecord(b)
  BY <1>3 DEF IsRecord, NoRecord
<1>5. open => closeouts[a] = 0
  BY <1>1 DEF ClosingInv, RowsSound, IsFresh
<1>6. RowsSound'
  BY <1>2, <1>3, <1>4, <1>5 DEF ClosingInv, RowsSound
<1>7. RecordsHeld'
  <2>1. \A c \in Calls : call[c].ends => call[c].record \in Records
    BY DEF Typed, WellFormed
  <2>2. \A c \in Starting : call[c].record \in Records /\ call[c].record # a
    BY <1>1 DEF Typed, WellFormed, ClosingInv, RecordsHeld, IsFresh, Starting
  <2>3. QED
    BY <1>2, <1>4, <2>1, <2>2 DEF ClosingInv, RecordsHeld, Starting
<1>8. \A b \in Records : CloseBounded(b)'
  BY <1>2, CloseShrinks DEF ClosingInv, Closing
<1>9. QED
  BY <1>6, <1>7, <1>8 DEF ClosingInv

\* A request in flight that stores nothing: it lets go of its record, keeps the
\* one it held, reserves a fresh row, or takes an open record.
LEMMA MoveClosing ==
  ASSUME Typed, ClosingInv, NEW c \in Calls, NEW k \in CallRow,
         call' = [call EXCEPT ![c] = k], UNCHANGED <<attendance, closeouts>>,
         \/ ~k.ends /\ k.stage # "locked"
         \/ k.ends /\ call[c].ends /\ k.record = call[c].record
         \/ ~k.ends /\ IsFresh(k.record) /\ k.record \in Records
         \/ k.ends /\ k.record \in Records /\ attendance[k.record].open
  PROVE  ClosingInv'
<1>1. /\ call'[c] = k /\ \A d \in Calls \ {c} : call'[d] = call[d]
      /\ \A a : IsRecord(a)' <=> IsRecord(a)
      /\ attendance' = attendance /\ closeouts' = closeouts
  BY DEF Typed, TypeOK, IsRecord
<1>2. RowsSound'
  BY <1>1 DEF ClosingInv, RowsSound
<1>3. \A a \in Records : attendance[a].open => IsRecord(a)
  BY DEF IsRecord, NoRecord
<1>4. RecordsHeld'
  <2>1. ASSUME NEW d \in Calls, call'[d].ends
        PROVE  IsRecord(call[d].record)'
    <3>1. IsRecord(call'[d].record)
      BY <1>1, <1>3, <2>1 DEF ClosingInv, RecordsHeld
    <3>2. QED
      BY <1>1, <3>1 DEF IsRecord
  <2>2. c \in Starting' => IsFresh(k.record)
    BY <1>1 DEF Starting
  <2>3. Starting' \subseteq Starting \cup {c} /\ Starting \subseteq Calls
    BY <1>1 DEF Starting
  <2>4. ASSUME NEW d \in Starting'
        PROVE  /\ ~IsRecord(call'[d].record)
               /\ \A f \in Starting' \ {d} : call'[f].record # call'[d].record
    <3>1. CASE d = c
      BY <1>1, <2>2, <2>3, <2>4, <3>1 DEF IsFresh
    <3>2. CASE d # c
      <4>1. d \in Starting /\ call'[d] = call[d]
        BY <1>1, <2>3, <2>4, <3>2
      <4>2. ASSUME NEW f \in Starting' \ {d}
            PROVE  call'[f].record # call[d].record
        <5>1. CASE f = c
          BY <1>1, <2>2, <2>3, <4>1, <4>2, <5>1 DEF IsFresh
        <5>2. CASE f # c
          BY <1>1, <2>3, <4>1, <4>2, <5>2 DEF ClosingInv, RecordsHeld
        <5>3. QED
          BY <5>1, <5>2
      <4>3. QED
        BY <4>1, <4>2 DEF ClosingInv, RecordsHeld
    <3>3. QED
      BY <3>1, <3>2
  <2>5. \A d \in Starting' : ~IsRecord(call[d].record)'
    BY <1>1, <2>4 DEF IsRecord
  <2>6. QED
    BY <2>1, <2>4, <2>5 DEF RecordsHeld
<1>5. ASSUME NEW a \in Records
      PROVE  CloseBounded(a)'
  <2>1. CASE Closing(a)' \subseteq Closing(a)
    BY <1>1, <2>1, CloseShrinks DEF ClosingInv
  <2>2. CASE ~(Closing(a)' \subseteq Closing(a))
    <3>1. k.ends /\ k.record = a /\ attendance[a].open
      BY <1>1, <2>2 DEF Closing
    <3>2. closeouts'[a] = 0
      BY <1>1, <3>1 DEF ClosingInv, RowsSound
    <3>3. Closing(a)' \subseteq Calls
      BY DEF Closing
    <3>4. Cardinality(Closing(a)') <= Cardinality(Calls) /\ Cardinality(Closing(a)') \in Nat
      BY <3>3, ServiceFlowAssumption, FS_Subset, FS_CardinalityType
    <3>5. QED
      BY <3>2, <3>4, ClosingFinite DEF CloseBounded
  <2>3. QED
    BY <2>1, <2>2
<1>6. QED
  BY <1>2, <1>4, <1>5 DEF ClosingInv

\* A clock-in inserts the row it reserved; a clock-out that closes a record is
\* one of the clock-outs that held it.
LEMMA CommitClosing ==
  ASSUME Typed, ClosingInv, NEW c \in Calls, CommitField(c)
  PROVE  ClosingInv'
<1>1. PICK a \in Records :
        /\ a = call[c].record /\ call[c].ends \in BOOLEAN
        /\ call[c].stage = "locked" /\ call[c].staff \in Staff
        /\ None \notin Staff
  BY ServiceFlowAssumption DEF Typed, WellFormed, CallRow, CommitField
<1>2. /\ call'[c] = Idle /\ \A d \in Calls \ {c} : call'[d] = call[d]
      /\ \A b \in Records \ {a} : /\ attendance'[b] = attendance[b]
                                  /\ closeouts'[b] = closeouts[b]
  BY <1>1 DEF CommitField, Typed, TypeOK
<1>3. \A b \in Records \ {a} : IsRecord(b)' <=> IsRecord(b)
  BY <1>2 DEF IsRecord
<1>4. \A d \in Calls : call[d].ends \/ d \in Starting => call[d].record \in Records
  BY DEF Typed, WellFormed, Starting
<1>5. /\ Starting' \subseteq Starting \ {c}
      /\ \A d \in Calls : call'[d].ends => d # c
  BY <1>2 DEF Starting, Idle
<1>6. CASE call[c].ends
  <2>1. IsRecord(a) /\ attendance[a].staff # None
    BY <1>1, <1>6 DEF ClosingInv, RowsSound, RecordsHeld
  <2>2. /\ attendance'[a].staff # None /\ ~attendance'[a].open
        /\ closeouts'[a] = closeouts[a] + 1
    BY <1>1, <1>6, <2>1 DEF CommitField, Typed, TypeOK
  <2>3. IsRecord(a)'
    BY <2>2 DEF IsRecord, NoRecord
  <2>4. RowsSound'
    BY <1>2, <1>3, <2>2, <2>3 DEF ClosingInv, RowsSound
  <2>5. RecordsHeld'
    <3>1. \A b \in Records : IsRecord(b)' <=> IsRecord(b)
      BY <1>3, <2>1, <2>3
    <3>2. \A d \in Calls : call'[d].ends => IsRecord(call[d].record)' /\ call'[d] = call[d]
      BY <1>2, <1>4, <1>5, <3>1 DEF ClosingInv, RecordsHeld
    <3>3. \A d \in Starting' : ~IsRecord(call[d].record)' /\ call'[d] = call[d]
      BY <1>2, <1>4, <1>5, <3>1 DEF ClosingInv, RecordsHeld, Starting
    <3>4. QED
      BY <1>5, <3>2, <3>3 DEF ClosingInv, RecordsHeld, IsRecord
  <2>6. ASSUME NEW b \in Records
        PROVE  CloseBounded(b)'
    <3>1. Closing(b)' \subseteq Closing(b) \ {c}
      BY <1>2 DEF Closing, Idle
    <3>2. CASE b # a
      BY <1>1, <1>2, <3>1, <3>2, CloseShrinks DEF ClosingInv
    <3>3. CASE b = a
      <4>1. c \in Closing(a)
        BY <1>1, <1>6 DEF Closing
      <4>2. /\ IsFiniteSet(Closing(a) \ {c})
            /\ Cardinality(Closing(a) \ {c}) = Cardinality(Closing(a)) - 1
        BY <4>1, ClosingFinite, FS_RemoveElement
      <4>3. /\ Cardinality(Closing(b)') <= Cardinality(Closing(a)) - 1
            /\ Cardinality(Closing(b)') \in Nat
        BY <3>1, <3>3, <4>2, FS_Subset, FS_CardinalityType
      <4>4. closeouts[a] \in Nat /\ closeouts[a] + Cardinality(Closing(a)) <= Cardinality(Calls)
        BY <1>1 DEF Typed, TypeOK, ClosingInv, CloseBounded
      <4>5. closeouts'[b] + Cardinality(Closing(b)') <= Cardinality(Calls)
        BY <2>2, <3>3, <4>3, <4>4, ClosingFinite
      <4>6. QED
        BY <4>5 DEF CloseBounded
    <3>4. QED
      BY <3>2, <3>3
  <2>7. QED
    BY <2>4, <2>5, <2>6 DEF ClosingInv
<1>7. CASE ~call[c].ends
  <2>1. c \in Starting /\ ~IsRecord(a) /\ closeouts[a] = 0
    BY <1>1, <1>7 DEF ClosingInv, RowsSound, RecordsHeld, Starting
  <2>2. attendance'[a] = [staff |-> call[c].staff, open |-> TRUE] /\ closeouts'[a] = 0
    BY <1>1, <1>7, <2>1 DEF CommitField, Typed, TypeOK
  <2>3. RowsSound'
    BY <1>1, <1>2, <1>3, <2>2 DEF ClosingInv, RowsSound
  <2>4. RecordsHeld'
    <3>1. IsRecord(a)'
      BY <2>2 DEF IsRecord, NoRecord
    <3>2. \A d \in Calls : call'[d].ends => IsRecord(call[d].record)' /\ call'[d] = call[d]
      BY <1>2, <1>3, <1>4, <1>5, <3>1 DEF ClosingInv, RecordsHeld
    <3>3. \A d \in Starting \ {c} : call[d].record # a
      BY <1>1, <2>1 DEF ClosingInv, RecordsHeld
    <3>4. \A d \in Starting' : ~IsRecord(call[d].record)' /\ call'[d] = call[d]
      BY <1>2, <1>3, <1>4, <1>5, <3>3 DEF ClosingInv, RecordsHeld, Starting
    <3>5. QED
      BY <1>5, <3>2, <3>4 DEF ClosingInv, RecordsHeld, IsRecord
  <2>5. ASSUME NEW b \in Records
        PROVE  CloseBounded(b)'
    <3>1. Closing(b)' \subseteq Closing(b)
      BY <1>2 DEF Closing, Idle
    <3>2. closeouts'[b] = closeouts[b]
      BY <1>2, <2>1, <2>2
    <3>3. QED
      BY <3>1, <3>2, CloseShrinks DEF ClosingInv
  <2>6. QED
    BY <2>3, <2>4, <2>5 DEF ClosingInv
<1>8. QED
  BY <1>1, <1>6, <1>7

\* The steps of a request in flight before it commits.
LEMMA CallClosing ==
  ASSUME Typed, ClosingInv, NEW c \in Calls,
         \/ \E r \in Requests : ReadToConvert(c, r)
         \/ \E w \in WorkOrders : ConvertToWorkOrder(c, w)
         \/ \E e \in Staff : BeginClockIn(c, e) \/ BeginClockOut(c, e)
         \/ ReadAssignment(c) \/ WriteField(c) \/ Fail(c)
  PROVE  ClosingInv'
<1>1. WellFormed(call[c]) /\ Typed' /\ UNCHANGED <<attendance, closeouts>>
  <2>1. Typed'
    BY CallTyped, ConvertTyped
  <2>2. UNCHANGED <<attendance, closeouts>>
    BY DEF ReadToConvert, ConvertToWorkOrder, BeginClockIn, BeginClockOut,
         ReadAssignment, WriteField, Fail, rows, history
  <2>3. QED
    BY <2>1, <2>2 DEF Typed
<1>2. PICK k : call' = [call EXCEPT ![c] = k]
  BY DEF ReadToConvert, ConvertToWorkOrder, BeginClockIn, BeginClockOut,
       ReadAssignment, WriteField, Fail
<1>3. k = call'[c] /\ k \in CallRow
  BY <1>1, <1>2 DEF Typed, TypeOK
<1>4. CASE \/ \E r \in Requests : ReadToConvert(c, r)
           \/ \E w \in WorkOrders : ConvertToWorkOrder(c, w)
           \/ \E e \in Staff : BeginClockIn(c, e)
           \/ Fail(c)
  <2>1. call \in [Calls -> CallRow]
    BY DEF Typed, TypeOK
  <2>2. ~k.ends /\ k.stage # "locked"
    <3>1. CASE \E r \in Requests : ReadToConvert(c, r)
      <4>1. PICK r \in Requests : ReadToConvert(c, r)
        BY <3>1
      <4>2. k = [Idle EXCEPT !.stage = "converting", !.request = r]
        BY <1>3, <2>1, <4>1 DEF ReadToConvert, CallRow
      <4>3. QED
        BY <4>2 DEF Idle
    <3>2. CASE (\E w \in WorkOrders : ConvertToWorkOrder(c, w)) \/ Fail(c)
      BY <1>3, <2>1, <3>2 DEF ConvertToWorkOrder, Fail, Idle
    <3>3. CASE \E e \in Staff : BeginClockIn(c, e)
      BY <1>3, <2>1, <3>3 DEF BeginClockIn, Idle
    <3>4. QED
      BY <1>4, <3>1, <3>2, <3>3
  <2>3. QED
    BY <1>1, <1>2, <1>3, <2>2, MoveClosing
<1>5. CASE \E e \in Staff : BeginClockOut(c, e)
  <2>1. PICK e \in Staff : BeginClockOut(c, e)
    BY <1>5
  <2>2. PICK a \in OpenRecords(e), w \in WorkOrders \cup {None}, ends \in BOOLEAN :
          call' = [call EXCEPT ![c] =
            [Idle EXCEPT !.stage = "begun", !.staff = e, !.record = a, !.work = w,
                         !.ends = TRUE, !.completes = ends]]
    BY <2>1 DEF BeginClockOut
  <2>3. k.ends /\ k.record = a
    BY <1>3, <2>2 DEF Idle, Typed, TypeOK
  <2>4. a \in Records /\ attendance[a].open
    BY DEF OpenRecords
  <2>5. QED
    BY <1>1, <1>2, <1>3, <2>3, <2>4, MoveClosing
<1>6. CASE ReadAssignment(c)
  <2>1. k.stage = "read" /\ k.ends = call[c].ends /\ k.record = call[c].record
    BY <1>3, <1>6 DEF ReadAssignment, Typed, TypeOK, CallRow
  <2>2. QED
    BY <1>1, <1>2, <1>3, <2>1, MoveClosing
<1>7. CASE WriteField(c)
  <2>1. PICK a \in IF call[c].ends THEN {call[c].record}
                                   ELSE {b \in Records : IsFresh(b)} :
          call' = [call EXCEPT ![c] =
            [@ EXCEPT !.stage = "locked", !.record = a,
                      !.newRequest = NewRequestStatus(c)]]
    BY <1>7 DEF WriteField
  <2>2. k.ends = call[c].ends /\ k.record = a
    BY <1>3, <2>1 DEF Typed, TypeOK, CallRow
  <2>3. QED
    BY <1>1, <1>2, <1>3, <2>1, <2>2, MoveClosing
<1>8. QED
  BY <1>4, <1>5, <1>6, <1>7

\* An attendance is closed once per overlapping clock-out at most: they all read
\* it open, no row is reopened, and no clock-in reuses a row.
THEOREM ClosedAtMostPerOverlap == Spec => []ClosedOncePerOverlap
<1>1. Typed /\ ClosingInv => ClosedOncePerOverlap
  <2>1. ASSUME Typed, ClosingInv, NEW a \in Records
        PROVE  closeouts[a] <= Cardinality(Calls)
    BY <2>1, ClosingFinite DEF ClosingInv, CloseBounded, Typed, TypeOK
  <2>2. QED
    BY <2>1 DEF ClosedOncePerOverlap
<1>2. Init => ClosingInv
  <2>1. ASSUME Init, NEW a \in Records
        PROVE  ~IsRecord(a) /\ closeouts[a] = 0 /\ Closing(a) = {} /\ Starting = {}
    BY <2>1 DEF Init, IsRecord, Closing, Starting, Idle
  <2>2. Init => \A c \in Calls : ~call[c].ends /\ c \notin Starting
    BY DEF Init, Starting, Idle
  <2>3. ASSUME Init, NEW a \in Records
        PROVE  CloseBounded(a)
    BY <2>1, <2>3, ClosingFinite, FS_EmptySet DEF CloseBounded
  <2>4. Init => RowsSound
    BY <2>1 DEF Init, RowsSound, NoRecord
  <2>5. Init => RecordsHeld
    BY <2>2 DEF RecordsHeld, Starting
  <2>6. QED
    BY <2>3, <2>4, <2>5 DEF ClosingInv
<1>3. ASSUME Typed, ClosingInv, [Next]_vars
      PROVE  ClosingInv'
  <2>1. CASE UNCHANGED <<attendance, closeouts, call>>
    BY <1>3, <2>1 DEF ClosingInv, RowsSound, RecordsHeld, CloseBounded, Closing,
         Starting, IsRecord
  <2>2. CASE \/ \E r \in Requests :
                  CreateRequest(r) \/ UpdateRequestStatus(r) \/ UpdateRequest(r)
             \/ \E w \in WorkOrders :
                  CreateWork(w) \/ UpdateWorkStatus(w) \/ UpdateWork(w) \/ Signoff(w)
             \/ \E w \in WorkOrders, f \in Staff : AddAssignment(w, f)
             \/ \E s \in Shifts : UpdateShiftStatus(s)
    BY <2>1, <2>2 DEF CreateRequest, UpdateRequestStatus, UpdateRequest,
         WriteRequest, CreateWork, UpdateWorkStatus, UpdateWork, Signoff, WriteWork,
         AddAssignment, UpdateShiftStatus, history
  <2>3. CASE UNCHANGED vars
    BY <2>1, <2>3 DEF vars, rows, history
  <2>4. QED
    BY <1>3, <2>2, <2>3, ManagerClosing, CallClosing, CommitClosing DEF Next
<1>4. QED
  BY <1>1, <1>2, <1>3, InitTyped, NextTyped, PTL DEF Spec


-----------------------------------------------------------------------------
\* A request that is none, or whose work orders were not always its own.
Unbound(r) == r = None \/ settledBy[r] = "relinked"

\* The status a clock-out, or a clock-in, has in mind.
Target(k) == IF k.ends THEN "COMPLETED" ELSE "IN_PROGRESS"

\* What a clock-in or clock-out has read of the work order still holds, unless
\* the work order was moved meanwhile.
FieldSound(k) ==
  k.stage \in {"read", "locked"} =>
    /\ k.work = None => k.request = None /\ k.newWork = "unchanged"
    /\ k.work # None =>
         /\ IsWork(k.work)
         /\ \/ k.request = work[k.work].request
            \/ Unbound(k.request) /\ Unbound(work[k.work].request)
    /\ k.newWork \in {"unchanged", Target(k)}
    /\ k.newRequest \in {"unchanged", Target(k)}
    /\ k.ends /\ k.newRequest # "unchanged" => k.newWork # "unchanged"

\* A clock-in about to reopen work order w that found its request in progress.
Reopens(k, w) ==
  /\ k.stage = "locked" /\ ~k.ends /\ k.work = w
  /\ k.newWork # "unchanged" /\ k.newRequest = "unchanged"

\* A completed work order of r that no clock-in is about to reopen in silence.
Firm(w, r) ==
  /\ work[w].request = r /\ work[w].status = "COMPLETED"
  /\ \A c \in Calls : ~Reopens(call[c], w)

\* What makes CompletedRequestHasCompletedWork inductive.
Closed(r) == settledBy[r] = "closeout" =>
  request[r] = "COMPLETED" /\ \E w \in WorkOrders : Firm(w, r)

WorkLocksExclusive ==
  \A c, d \in Calls :
    Locking(c) /\ Locking(d) /\ WritesWork(c) /\ WritesWork(d)
      /\ call[c].work = call[d].work => c = d

CloseoutInv ==
  /\ \A r \in Requests : Closed(r)
  /\ \A w \in WorkOrders, e \in Staff : <<w, e>> \in assigned => IsWork(w)
  /\ \A c \in Calls : FieldSound(call[c])
  /\ WorkLocksExclusive

\* A decision about some requests binds no request that was unbound, and closes
\* only those it is about, by a clock-out.
LEMMA SettleBinds ==
  ASSUME Typed, NEW R, NEW who \in {"desk", "closeout", "relinked"}, Settle(R, who)
  PROVE  /\ \A r \in Requests \cup {None} : Unbound(r) => Unbound(r)'
         /\ \A r \in Requests : r \in R =>
              settledBy'[r] = "relinked" \/ settledBy'[r] = who
         /\ \A r \in Requests : r \notin R => settledBy'[r] = settledBy[r]
  BY DEF Settle, Unbound, Typed, TypeOK

\* What a call has read, as far as the invariant needs its type.
LEMMA FieldTyped ==
  ASSUME Typed, NEW c \in Calls
  PROVE  LET k == call[c] IN
         /\ k.work \in WorkOrders \cup {None} /\ k.request \in Requests \cup {None}
         /\ k.newWork # "unchanged" => k.work \in WorkOrders
         /\ k.newRequest # "unchanged" => k.request \in Requests
         /\ \A w \in WorkOrders : work[w].request \in Requests \cup {None}
         /\ None \notin Requests /\ None \notin WorkOrders
  BY ServiceFlowAssumption DEF Typed, WellFormed, CallRow, TypeOK

\* Steps that leave the rows the invariant is about alone.
LEMMA RowsKept ==
  ASSUME CloseoutInv, UNCHANGED <<work, request, settledBy, assigned, call>>
  PROVE  CloseoutInv'
  BY DEF CloseoutInv, Closed, Firm, FieldSound, Unbound, IsWork, Reopens,
         WorkLocksExclusive, Locking, WritesWork

\* A call that moves on and holds no lock thereafter.
LEMMA CallFrees ==
  ASSUME Typed, CloseoutInv, NEW c \in Calls, NEW k, k.stage # "locked", FieldSound(k),
         call' = [call EXCEPT ![c] = k],
         UNCHANGED <<work, request, settledBy, assigned>>
  PROVE  CloseoutInv'
<1>1. call'[c] = k /\ \A d \in Calls : d # c => call'[d] = call[d]
  BY DEF Typed, TypeOK
<1>2. \A d \in Calls, w \in WorkOrders : Reopens(call'[d], w) => Reopens(call[d], w)
  BY <1>1 DEF Reopens
<1>3. \A r \in Requests, w \in WorkOrders : Firm(w, r) => Firm(w, r)'
  BY <1>2 DEF Firm, Reopens
<1>4. \A r \in Requests : Closed(r)'
  BY <1>3 DEF CloseoutInv, Closed
<1>5. \A d \in Calls : FieldSound(call[d])'
  BY <1>1 DEF CloseoutInv, FieldSound, Unbound, IsWork
<1>6. WorkLocksExclusive'
  BY <1>1 DEF CloseoutInv, WorkLocksExclusive, Locking, WritesWork
<1>7. QED
  BY <1>4, <1>5, <1>6 DEF CloseoutInv, IsWork

\* The desk writes a request, and decides it.
LEMMA RequestCloseout ==
  ASSUME Typed, CloseoutInv, NEW q \in Requests, NEW s, WriteRequest(q, s)
  PROVE  CloseoutInv'
<1>1. /\ \A r \in Requests \cup {None} : Unbound(r) => Unbound(r)'
      /\ settledBy'[q] # "closeout"
      /\ \A r \in Requests : r # q => settledBy'[r] = settledBy[r]
  BY SettleBinds DEF WriteRequest
<1>2. UNCHANGED <<work, assigned, call>> /\ \A r \in Requests : r # q => request'[r] = request[r]
  BY DEF WriteRequest, Typed, TypeOK
<1>3. \A r \in Requests : Closed(r)'
  BY <1>1, <1>2 DEF CloseoutInv, Closed, Firm, Reopens
<1>4. \A c \in Calls : FieldSound(call[c])'
  <2> TAKE c \in Calls
  <2>1. FieldSound(call[c])
    BY DEF CloseoutInv
  <2>2. QED
    BY <1>1, <1>2, <2>1, FieldTyped DEF FieldSound, IsWork
<1>5. QED
  BY <1>2, <1>3, <1>4 DEF CloseoutInv, WorkLocksExclusive, Locking, WritesWork, IsWork

\* The desk writes a work order, and decides its requests or unbinds them.
LEMMA WorkCloseout ==
  ASSUME Typed, CloseoutInv, NEW w \in WorkOrders, NEW s, NEW q \in Requests \cup {None},
         WriteWork(w, s, q), s \in WorkStatus \/ q # None
  PROVE  CloseoutInv'
<1> PICK old \in Requests \cup {None} : old = work[w].request
  BY DEF Typed, TypeOK
<1> DEFINE who == IF IsWork(w) /\ q # old THEN "relinked" ELSE "desk"
<1>1. /\ \A r \in Requests \cup {None} : Unbound(r) => Unbound(r)'
      /\ \A r \in Requests : r \in {old, q} => settledBy'[r] = "relinked" \/ settledBy'[r] = who
      /\ \A r \in Requests : r \notin {old, q} => settledBy'[r] = settledBy[r]
  BY SettleBinds DEF WriteWork
<1>2. /\ work'[w] = [status |-> s, request |-> q]
      /\ \A v \in WorkOrders : v # w => work'[v] = work[v]
      /\ UNCHANGED <<request, assigned, call>>
  BY DEF WriteWork, Typed, TypeOK
<1>3. old \in Requests \cup {None} /\ old = work[w].request
  OBVIOUS
<1>4. IsWork(w)'
  BY <1>2 DEF IsWork, NoWork, WorkStatus
<1>5. \A r \in Requests : Closed(r)'
  <2> SUFFICES ASSUME NEW r \in Requests, settledBy'[r] = "closeout"
               PROVE  request'[r] = "COMPLETED" /\ \E v \in WorkOrders : Firm(v, r)'
    BY DEF Closed
  <2>1. r # old /\ settledBy[r] = "closeout"
    BY <1>1
  <2>2. PICK v \in WorkOrders : Firm(v, r)
    BY <2>1 DEF CloseoutInv, Closed
  <2>3. v # w
    BY <2>1, <2>2 DEF Firm
  <2>4. Firm(v, r)'
    BY <1>2, <2>2, <2>3 DEF Firm, Reopens
  <2>5. QED
    BY <1>2, <2>1, <2>4 DEF CloseoutInv, Closed
<1>6. \A c \in Calls : FieldSound(call[c])'
  <2> SUFFICES ASSUME NEW c \in Calls PROVE FieldSound(call[c])'
    OBVIOUS
  <2>1. FieldSound(call[c]) /\ call'[c] = call[c]
    BY <1>2 DEF CloseoutInv
  <2>2. /\ call[c].work \in WorkOrders \cup {None} /\ call[c].request \in Requests \cup {None}
        /\ \A v \in WorkOrders : work[v].request \in Requests \cup {None}
        /\ None \notin WorkOrders
    BY FieldTyped
  <2>3. CASE call[c].work # w
    BY <1>1, <1>2, <2>1, <2>2, <2>3 DEF FieldSound, IsWork
  <2>4. CASE call[c].work = w /\ call[c].stage \in {"read", "locked"}
    <3>1. IsWork(w)
      BY <2>1, <2>2, <2>4 DEF FieldSound
    <3>2. q # old => Unbound(old)' /\ Unbound(q)'
      BY <1>1, <1>3, <3>1 DEF Unbound
    <3>3. \/ call[c].request = q
          \/ Unbound(call[c].request)' /\ Unbound(q)'
      BY <1>1, <1>3, <2>1, <2>2, <2>4, <3>2 DEF FieldSound
    <3>4. QED
      BY <1>2, <1>4, <2>1, <2>2, <2>4, <3>3 DEF FieldSound
  <2>5. QED
    BY <2>1, <2>3, <2>4 DEF FieldSound
<1>7. \A v \in WorkOrders : IsWork(v) => IsWork(v)'
  BY <1>2, <1>4 DEF IsWork
<1>8. QED
  BY <1>2, <1>5, <1>6, <1>7 DEF CloseoutInv, WorkLocksExclusive, Locking, WritesWork

\* A conversion makes a work order nobody knows yet, and decides its request.
LEMMA ConvertCloseout ==
  ASSUME Typed, CloseoutInv, NEW c \in Calls, NEW w \in WorkOrders, ConvertToWorkOrder(c, w)
  PROVE  CloseoutInv'
<1> DEFINE q == call[c].request
<1>1. q \in Requests /\ ~IsWork(w) /\ work[w].request = None /\ None \notin Requests \cup WorkOrders
  BY ServiceFlowAssumption DEF Typed, WellFormed, ConvertToWorkOrder, IsWork, NoWork
<1>2. /\ work'[w] = [status |-> "CREATED", request |-> q]
      /\ \A v \in WorkOrders : v # w => work'[v] = work[v]
      /\ \A r \in Requests : r # q => request'[r] = request[r]
      /\ call'[c] = Idle /\ \A d \in Calls : d # c => call'[d] = call[d]
      /\ UNCHANGED assigned
  BY DEF ConvertToWorkOrder, Typed, TypeOK
<1>3. /\ \A r \in Requests \cup {None} : Unbound(r) => Unbound(r)'
      /\ settledBy'[q] # "closeout"
      /\ \A r \in Requests : r # q => settledBy'[r] = settledBy[r]
  BY <1>1, SettleBinds DEF ConvertToWorkOrder
<1> HIDE DEF q
<1>4. \A v \in WorkOrders : IsWork(v) => IsWork(v)' /\ v # w
  BY <1>1, <1>2 DEF IsWork, NoWork
<1>5. \A d \in Calls, v \in WorkOrders : Reopens(call'[d], v) => Reopens(call[d], v)
  BY <1>2 DEF Reopens, Idle
<1>6. \A r \in Requests : Closed(r)'
  <2> SUFFICES ASSUME NEW r \in Requests, settledBy'[r] = "closeout"
               PROVE  request'[r] = "COMPLETED" /\ \E v \in WorkOrders : Firm(v, r)'
    BY DEF Closed
  <2>1. r # q /\ settledBy[r] = "closeout"
    BY <1>3
  <2>2. PICK v \in WorkOrders : Firm(v, r)
    BY <2>1 DEF CloseoutInv, Closed
  <2>3. v # w
    BY <1>1, <2>2 DEF Firm
  <2>4. Firm(v, r)'
    BY <1>2, <1>5, <2>2, <2>3 DEF Firm, Reopens
  <2>5. QED
    BY <1>2, <2>1, <2>4 DEF CloseoutInv, Closed
<1>7. \A d \in Calls : FieldSound(call[d])'
  <2> SUFFICES ASSUME NEW d \in Calls PROVE FieldSound(call[d])'
    OBVIOUS
  <2>1. CASE d = c
    BY <1>2, <2>1 DEF FieldSound, Idle
  <2>2. CASE d # c
    <3>1. FieldSound(call[d]) /\ call'[d] = call[d]
      BY <1>2, <2>2 DEF CloseoutInv
    <3>2. /\ call[d].work \in WorkOrders \cup {None} /\ call[d].request \in Requests \cup {None}
          /\ \A v \in WorkOrders : work[v].request \in Requests \cup {None}
      BY FieldTyped
    <3>3. QED
      BY <1>1, <1>2, <1>3, <1>4, <3>1, <3>2 DEF FieldSound
  <2>3. QED
    BY <2>1, <2>2
<1>8. WorkLocksExclusive'
  BY <1>2 DEF CloseoutInv, WorkLocksExclusive, Locking, WritesWork, Idle
<1>9. QED
  BY <1>2, <1>4, <1>6, <1>7, <1>8 DEF CloseoutInv

\* A clock-in or clock-out reads its work order.
LEMMA ReadCloseout ==
  ASSUME Typed, CloseoutInv, NEW c \in Calls, ReadAssignment(c)
  PROVE  CloseoutInv'
<1> DEFINE w == call[c].work
           s == call[c].shift
           k == [call[c] EXCEPT !.stage = "read",
                   !.startsShift = s # None /\ shift[s] \in {"SCHEDULED", "CONFIRMED"},
                   !.request     = IF w = None THEN None ELSE work[w].request,
                   !.newWork     = IF w = None THEN "unchanged"
                                               ELSE NewWorkStatus(c, work[w].status)]
<1>1. /\ call' = [call EXCEPT ![c] = k]
      /\ w # None => <<w, call[c].staff>> \in assigned
      /\ UNCHANGED <<work, request, settledBy, assigned>>
      /\ call[c].stage = "begun"
  BY DEF ReadAssignment, rows, history
<1>2. WellFormed(call[c]) /\ call[c] \in CallRow /\ assigned \subseteq WorkOrders \X Staff
  BY DEF Typed, WellFormed, TypeOK
<1>3. /\ k.stage = "read" /\ k.work = w /\ k.ends = call[c].ends
      /\ k.request = IF w = None THEN None ELSE work[w].request
      /\ k.newWork = IF w = None THEN "unchanged" ELSE NewWorkStatus(c, work[w].status)
      /\ k.newRequest = "unchanged"
  BY <1>1, <1>2 DEF WellFormed, CallRow
<1>4. w # None => IsWork(w)
  BY <1>1, <1>2, FieldTyped DEF CloseoutInv
<1>5. NewWorkStatus(c, work[w].status) \in {"unchanged", Target(call[c])}
  BY <1>2 DEF NewWorkStatus, CallRow, Target
<1> HIDE DEF k, w
<1>6. FieldSound(k)
  BY <1>3, <1>4, <1>5 DEF FieldSound, Target
<1>7. QED
  BY <1>1, <1>3, <1>6, CallFrees

\* It locks what it is going to write, and only then reads the request.
LEMMA LockCloseout ==
  ASSUME Typed, CloseoutInv, NEW c \in Calls, WriteField(c)
  PROVE  CloseoutInv'
<1>1. PICK a \in Records :
        /\ call' = [call EXCEPT ![c] =
             [@ EXCEPT !.stage = "locked", !.record = a, !.newRequest = NewRequestStatus(c)]]
        /\ call[c].stage = "read" /\ ~Blocked(c)
        /\ UNCHANGED <<work, request, settledBy, assigned>>
  BY DEF WriteField, rows, history, Typed, WellFormed
<1> DEFINE k == [call[c] EXCEPT !.stage = "locked", !.record = a,
                                !.newRequest = NewRequestStatus(c)]
<1>2. call[c] \in CallRow /\ WellFormed(call[c]) /\ FieldSound(call[c])
  BY DEF Typed, WellFormed, CloseoutInv
<1>3. /\ k.stage = "locked" /\ k.work = call[c].work /\ k.request = call[c].request
      /\ k.ends = call[c].ends /\ k.newWork = call[c].newWork
      /\ k.newRequest = NewRequestStatus(c) /\ k.ends \in BOOLEAN
  BY <1>2 DEF CallRow
<1>4. call'[c] = k /\ \A d \in Calls : d # c => call'[d] = call[d]
  BY <1>1 DEF Typed, TypeOK
<1> HIDE DEF k
<1>5. /\ call[c].work \in WorkOrders \cup {None} /\ call[c].request \in Requests \cup {None}
      /\ \A v \in WorkOrders : work[v].request \in Requests \cup {None}
      /\ None \notin WorkOrders /\ None \notin Requests
      /\ call[c].newWork # "unchanged" => call[c].work \in WorkOrders
  BY FieldTyped
<1>6. /\ NewRequestStatus(c) \in {"unchanged", Target(call[c])} /\ Target(k) = Target(call[c])
      /\ call[c].ends /\ NewRequestStatus(c) # "unchanged" => call[c].newWork # "unchanged"
      /\ ~call[c].ends /\ NewRequestStatus(c) = "unchanged" /\ call[c].request # None
           => request[call[c].request] = "IN_PROGRESS"
  BY <1>3 DEF NewRequestStatus, WritesWork, Target
<1>7. FieldSound(k)
  BY <1>1, <1>2, <1>3, <1>6 DEF FieldSound
<1>8. \A d \in Calls : FieldSound(call[d])'
  <2> SUFFICES ASSUME NEW d \in Calls PROVE FieldSound(call[d])'
    OBVIOUS
  <2>1. FieldSound(call'[d])
    BY <1>4, <1>7 DEF CloseoutInv
  <2>2. QED
    BY <1>1, <2>1 DEF FieldSound, Unbound, IsWork, Target
<1>9. WorkLocksExclusive'
  <2>1. call[c].newWork # "unchanged" =>
          \A d \in Calls : ~(Locking(d) /\ call[d].work = call[c].work /\ WritesWork(d))
    BY <1>1 DEF Blocked, WorkLocked, WritesWork
  <2>2. QED
    BY <1>3, <1>4, <2>1 DEF CloseoutInv, WorkLocksExclusive, Locking, WritesWork
<1>10. ASSUME NEW r \in Requests, settledBy[r] = "closeout", NEW v \in WorkOrders, Firm(v, r)
       PROVE  Firm(v, r)'
  <2>1. request[r] = "COMPLETED" /\ work[v].request = r /\ ~Unbound(r)
    BY <1>10, <1>5 DEF CloseoutInv, Closed, Firm, Unbound
  <2>2. ~Reopens(k, v)
    <3> SUFFICES ASSUME Reopens(k, v) PROVE FALSE
      OBVIOUS
    <3>1. /\ ~call[c].ends /\ call[c].work = v /\ NewRequestStatus(c) = "unchanged"
      BY <1>3 DEF Reopens
    <3>2. call[c].request = r
      BY <1>1, <1>2, <1>5, <2>1, <3>1 DEF FieldSound
    <3>3. QED
      BY <1>5, <1>6, <2>1, <3>1, <3>2
  <2>3. \A d \in Calls : ~Reopens(call'[d], v)
    BY <1>4, <1>10, <2>2 DEF Firm
  <2>4. QED
    BY <1>1, <1>10, <2>3 DEF Firm, Reopens
<1>11. \A r \in Requests : Closed(r)'
  BY <1>1, <1>10 DEF CloseoutInv, Closed
<1>12. QED
  BY <1>1, <1>8, <1>9, <1>11 DEF CloseoutInv, IsWork

\* It commits: a clock-out leaves its work order completed behind a completed
\* request, a clock-in that reopens one decides its request or was not its own.
LEMMA CommitCloseout ==
  ASSUME Typed, CloseoutInv, NEW c \in Calls, CommitField(c)
  PROVE  CloseoutInv'
<1>0. PICK k : k = call[c]
  OBVIOUS
<1> DEFINE w == k.work
           q == k.request
           R == IF k.newRequest = "unchanged" THEN {} ELSE {q}
           who == IF k.ends THEN "closeout" ELSE "desk"
<1>1. /\ k.stage = "locked" /\ FieldSound(k) /\ k.ends \in BOOLEAN
      /\ w \in WorkOrders \cup {None} /\ q \in Requests \cup {None}
      /\ k.newWork # "unchanged" => w \in WorkOrders
      /\ k.newRequest # "unchanged" => q \in Requests
      /\ \A v \in WorkOrders : work[v].request \in Requests \cup {None}
      /\ None \notin WorkOrders /\ None \notin Requests
  BY <1>0, FieldTyped DEF CommitField, CloseoutInv, Typed, WellFormed, CallRow
<1>2. /\ \A r \in Requests \cup {None} : Unbound(r) => Unbound(r)'
      /\ \A r \in Requests : r \in R => settledBy'[r] = "relinked" \/ settledBy'[r] = who
      /\ \A r \in Requests : r \notin R => settledBy'[r] = settledBy[r]
  <2>1. Settle(R, who) /\ who \in {"desk", "closeout", "relinked"}
    BY <1>0 DEF CommitField
  <2> HIDE DEF R, who
  <2>2. QED
    BY <2>1, SettleBinds
<1>3. /\ call'[c] = Idle /\ \A d \in Calls : d # c => call'[d] = call[d]
      /\ UNCHANGED assigned
      /\ \A v \in WorkOrders : work'[v].request = work[v].request
      /\ \A v \in WorkOrders : v # w \/ k.newWork = "unchanged" => work'[v] = work[v]
      /\ k.newWork # "unchanged" => work'[w].status = k.newWork
      /\ \A r \in Requests : r # q \/ k.newRequest = "unchanged" => request'[r] = request[r]
      /\ k.newRequest # "unchanged" => request'[q] = k.newRequest
  BY <1>0, <1>1 DEF CommitField, WritesWork, Put, Typed, TypeOK
<1>4. /\ k.newWork \in {"unchanged", Target(k)}
      /\ k.newRequest \in {"unchanged", Target(k)}
      /\ k.ends /\ k.newRequest # "unchanged" => k.newWork # "unchanged"
      /\ w # None => IsWork(w) /\ (q = work[w].request \/ (Unbound(q) /\ Unbound(work[w].request)))
  BY <1>1 DEF FieldSound
<1>5. \A d \in Calls, v \in WorkOrders : Reopens(call'[d], v) => Reopens(call[d], v) /\ d # c
  BY <1>3 DEF Reopens, Idle
<1>6. \A v \in WorkOrders : IsWork(v) => IsWork(v)'
  BY <1>1, <1>3, <1>4 DEF IsWork, NoWork, Target
<1>7. ASSUME NEW r \in Requests, settledBy'[r] = "closeout"
      PROVE  request'[r] = "COMPLETED" /\ \E v \in WorkOrders : Firm(v, r)'
  <2>1. ~Unbound(r)
    BY <1>1, <1>2, <1>7 DEF Unbound
  <2>2. CASE r \in R
    <3>1. k.ends /\ k.newRequest = "COMPLETED" /\ k.newWork = "COMPLETED" /\ r = q
      BY <1>1, <1>2, <1>4, <1>7, <2>2 DEF Target
    <3>2. w \in WorkOrders /\ work[w].request = r
      BY <1>1, <1>4, <2>1, <3>1
    <3>3. ASSUME NEW d \in Calls, Reopens(call'[d], w) PROVE FALSE
      <4>1. Reopens(call[d], w) /\ d # c
        BY <1>5, <3>2, <3>3
      <4>2. QED
        BY <1>0, <1>1, <3>1, <4>1 DEF CloseoutInv, WorkLocksExclusive, Locking, WritesWork, Reopens
    <3>4. Firm(w, r)'
      BY <1>3, <3>1, <3>2, <3>3 DEF Firm, Reopens
    <3>5. QED
      BY <1>3, <3>1, <3>2, <3>4
  <2>3. CASE r \notin R
    <3>1. settledBy[r] = "closeout" /\ request[r] = "COMPLETED"
      BY <1>2, <1>7, <2>3 DEF CloseoutInv, Closed
    <3>2. PICK v \in WorkOrders : Firm(v, r)
      BY <3>1 DEF CloseoutInv, Closed
    <3>3. request'[r] = "COMPLETED"
      BY <1>3, <2>3, <3>1
    <3>4. work'[v].status = "COMPLETED"
      <4>1. CASE v # w \/ k.newWork = "unchanged"
        BY <1>3, <3>2, <4>1 DEF Firm
      <4>2. CASE v = w /\ k.newWork # "unchanged" /\ k.ends
        BY <1>3, <1>4, <4>2 DEF Target
      <4>3. CASE v = w /\ k.newWork # "unchanged" /\ ~k.ends
        <5>1. k.newRequest # "unchanged"
          BY <1>0, <1>1, <3>2, <4>3 DEF Firm, Reopens
        <5>2. q = r
          BY <1>1, <1>4, <2>1, <3>2, <4>3 DEF Firm
        <5>3. QED
          BY <2>3, <5>1, <5>2
      <4>4. QED
        BY <1>1, <4>1, <4>2, <4>3
    <3>5. Firm(v, r)'
      BY <1>3, <1>5, <3>2, <3>4 DEF Firm, Reopens
    <3>6. QED
      BY <3>3, <3>5
  <2>4. QED
    BY <2>2, <2>3
<1>8. \A d \in Calls : FieldSound(call[d])'
  <2> SUFFICES ASSUME NEW d \in Calls PROVE FieldSound(call[d])'
    OBVIOUS
  <2>1. CASE d = c
    BY <1>3, <2>1 DEF FieldSound, Idle
  <2>2. CASE d # c
    <3>1. FieldSound(call[d]) /\ call'[d] = call[d]
      BY <1>3, <2>2 DEF CloseoutInv
    <3>2. /\ call[d].work \in WorkOrders \cup {None} /\ call[d].request \in Requests \cup {None}
          /\ \A v \in WorkOrders : work[v].request \in Requests \cup {None}
      BY FieldTyped
    <3>3. QED
      BY <1>2, <1>3, <1>6, <3>1, <3>2 DEF FieldSound
  <2>3. QED
    BY <2>1, <2>2
<1>9. WorkLocksExclusive'
  BY <1>3 DEF CloseoutInv, WorkLocksExclusive, Locking, WritesWork, Idle
<1>10. QED
  BY <1>3, <1>6, <1>7, <1>8, <1>9 DEF CloseoutInv, Closed

\* Every step keeps the invariant.
LEMMA CloseoutStep ==
  ASSUME Typed, CloseoutInv, [Next]_vars
  PROVE  CloseoutInv'
<1>1. CASE UNCHANGED <<work, request, settledBy, assigned, call>>
  BY <1>1, RowsKept
<1>2. ASSUME NEW r \in Requests, CreateRequest(r) \/ UpdateRequestStatus(r) \/ UpdateRequest(r)
      PROVE  CloseoutInv'
  BY <1>2, RequestCloseout DEF CreateRequest, UpdateRequestStatus, UpdateRequest
<1>3. ASSUME NEW w \in WorkOrders,
             CreateWork(w) \/ UpdateWorkStatus(w) \/ UpdateWork(w) \/ Signoff(w)
      PROVE  CloseoutInv'
  <2>1. work[w].request \in Requests \cup {None} /\ ExistingRequests \subseteq Requests
        /\ None \notin Requests
    BY ServiceFlowAssumption DEF Typed, TypeOK, ExistingRequests
  <2>2. WorkInputs \cup {"CREATED", "CUSTOMER_APPROVED"} \subseteq WorkStatus
    BY ServiceFlowAssumption DEF WorkStatus
  <2>3. QED
    BY <1>3, <2>1, <2>2, WorkCloseout DEF CreateWork, UpdateWorkStatus, UpdateWork, Signoff
<1>4. ASSUME NEW w \in WorkOrders, NEW e \in Staff, AddAssignment(w, e)
      PROVE  CloseoutInv'
  <2>1. IsWork(w) /\ assigned' = assigned \cup {<<w, e>>} /\ UNCHANGED <<work, request, settledBy, call>>
    BY <1>4 DEF AddAssignment, history
  <2>2. QED
    BY <2>1 DEF CloseoutInv, Closed, Firm, FieldSound, Unbound, IsWork, Reopens,
                WorkLocksExclusive, Locking, WritesWork
<1>5. ASSUME NEW c \in Calls,
             \/ \E r \in Requests : ReadToConvert(c, r)
             \/ \E e \in Staff : BeginClockIn(c, e) \/ BeginClockOut(c, e)
             \/ Fail(c)
      PROVE  CloseoutInv'
  <2>1. PICK k : /\ call' = [call EXCEPT ![c] = k]
                 /\ k.stage \in {"idle", "converting", "begun"}
                 /\ UNCHANGED <<work, request, settledBy, assigned>>
    BY <1>5 DEF ReadToConvert, BeginClockIn, BeginClockOut, Fail, rows, history, Idle, Typed, TypeOK
  <2>2. FieldSound(k)
    BY <2>1 DEF FieldSound
  <2>3. QED
    BY <2>1, <2>2, CallFrees
<1>6. ASSUME NEW c \in Calls, NEW w \in WorkOrders, ConvertToWorkOrder(c, w)
      PROVE  CloseoutInv'
  BY <1>6, ConvertCloseout
<1>7. ASSUME NEW c \in Calls, ReadAssignment(c) \/ WriteField(c) \/ CommitField(c)
      PROVE  CloseoutInv'
  BY <1>7, ReadCloseout, LockCloseout, CommitCloseout
<1>8. CASE \/ \E s \in Shifts : UpdateShiftStatus(s)
           \/ \E a \in Records : UpdateAttendance(a) \/ \E e \in Staff : CreateAttendance(a, e)
           \/ UNCHANGED vars
  BY <1>1, <1>8 DEF UpdateShiftStatus, UpdateAttendance, CreateAttendance, vars, rows, history
<1>9. QED
  BY <1>2, <1>3, <1>4, <1>5, <1>6, <1>7, <1>8 DEF Next

\* The work order's lock, held while the request is read, keeps a request that a
\* clock-out completed from standing over work that a clock-in reopened, for
\* every number of work orders and of clock-ins and clock-outs at once.
THEOREM CloseoutIsCompleted == Spec => []CompletedRequestHasCompletedWork
<1>1. Init => CloseoutInv
  BY DEF Init, CloseoutInv, Closed, FieldSound, Idle, WorkLocksExclusive, Locking
<1>2. Typed /\ CloseoutInv /\ [Next]_vars => CloseoutInv'
  BY CloseoutStep
<1>3. CloseoutInv => CompletedRequestHasCompletedWork
  BY DEF CloseoutInv, Closed, Firm, CompletedRequestHasCompletedWork
<1>4. QED
  BY <1>1, <1>2, <1>3, InitTyped, NextTyped, PTL DEF Spec
=============================================================================
