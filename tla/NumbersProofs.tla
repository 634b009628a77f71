---------------------------- MODULE NumbersProofs ----------------------------
(***************************************************************************)
(* What of generated numbers and of the pay sheet holds for any number of  *)
(* calls, connections, typed numbers and records, and any clock times and  *)
(* wages: a generated number is refused only when another call stored it   *)
(* after the probe; the two-day pay periods cover every day once; the pay  *)
(* sheet stays within its roundings.                                       *)
(***************************************************************************)
EXTENDS Numbering, Payroll, FiniteSetTheorems, TLAPS

CallType ==
  [op : {"idle", "refused", "begin", "count", "probe", "insert"}, table : Tables,
   number : Nat \cup {Generate}, tx : BOOLEAN, own : BOOLEAN, typed : BOOLEAN,
   raced : BOOLEAN]

(* A number that was generated is free until it is inserted, or the call   *)
(* has been raced; only calls that named a number skip the generation.     *)
Sound(rec, stored) ==
  /\ rec \in CallType
  /\ rec.op \in {"probe", "insert"} => rec.number \in Nat
  /\ rec.op = "begin" => (rec.typed <=> rec.number # Generate)
  /\ rec.op = "insert" /\ ~rec.typed /\ ~rec.raced => rec.number \notin stored[rec.table]
  /\ rec.op = "refused" /\ ~rec.typed => rec.raced

RowsFinite == numbers \in [Tables -> SUBSET Nat] /\ \A t \in Tables : IsFiniteSet(numbers[t])

NumberingInv ==
  /\ RowsFinite
  /\ call \in [Calls -> CallType]
  /\ \A c \in Calls : Sound(call[c], numbers)

LEMMA EndedSound ==
  ASSUME NEW stored PROVE Sound(Ended, stored)
  BY DEF Sound, CallType, Ended, Tables, Generate

LEMMA NumberingInvInit == NumberingInit => NumberingInv
  <1> SUFFICES ASSUME NumberingInit PROVE NumberingInv
    OBVIOUS
  <1>1. RowsFinite
    BY FS_EmptySet DEF NumberingInit, RowsFinite
  <1>2. Sound(Ended, numbers) /\ Ended \in CallType
    BY EndedSound DEF Sound
  <1> QED
    BY <1>1, <1>2 DEF NumberingInit, NumberingInv

-----------------------------------------------------------------------------
(* Steps that store nothing change one call, to a sound one.               *)
LEMMA OneCall ==
  ASSUME NumberingInv, UNCHANGED numbers, NEW c \in Calls, NEW rec,
         call' = [call EXCEPT ![c] = rec], Sound(rec, numbers)
  PROVE  NumberingInv'
  <1>1. RowsFinite'
    BY DEF NumberingInv, RowsFinite
  <1>2. rec \in CallType
    BY DEF Sound
  <1>3. call' \in [Calls -> CallType]
    BY <1>2 DEF NumberingInv
  <1>4. \A d \in Calls : call'[d] = IF d = c THEN rec ELSE call[d]
    BY DEF NumberingInv
  <1>5. \A d \in Calls : Sound(call'[d], numbers)
    BY <1>4 DEF NumberingInv
  <1>6. \A d \in Calls : Sound(call'[d], numbers')
    BY <1>5
  <1> QED
    BY <1>1, <1>3, <1>6 DEF NumberingInv

(* Storing number n of table t, old numbers aside, races the calls that    *)
(* are about to store it.                                                  *)
LEMMA StoreRaces ==
  ASSUME NumberingInv, NEW t \in Tables, NEW n \in Nat, NEW d \in Calls,
         NEW stored \in [Tables -> SUBSET Nat],
         \A u \in Tables : stored[u] \subseteq numbers[u] \cup (IF u = t THEN {n} ELSE {})
  PROVE  Sound(Raced(d, t, n), stored)
  <1>1. Sound(call[d], numbers)
    BY DEF NumberingInv
  <1>2. CASE call[d].op = "insert" /\ call[d].table = t /\ call[d].number = n
    BY <1>1, <1>2 DEF Raced, Sound, CallType
  <1>3. CASE ~(call[d].op = "insert" /\ call[d].table = t /\ call[d].number = n)
    <2>1. Raced(d, t, n) = call[d] /\ call[d].table \in Tables
      BY <1>1, <1>3 DEF Raced, Sound, CallType
    <2>2. call[d].op = "insert" /\ call[d].number \notin numbers[call[d].table]
          => call[d].number \notin stored[call[d].table]
      BY <1>3, <2>1
    <2> QED
      BY <1>1, <2>1, <2>2 DEF Sound
  <1> QED
    BY <1>2, <1>3

LEMMA StartSound ==
  ASSUME NumberingInv, NEW c \in Calls, NEW t \in Tables,
         NEW n \in Nat \cup {Generate}, NEW tx \in BOOLEAN, Start(c, t, n, tx)
  PROVE  NumberingInv'
  <1> DEFINE rec == [[Ended EXCEPT !.table = t, !.number = n, !.tx = tx, !.typed = n # Generate]
                      EXCEPT !.op = IF tx THEN "begin" ELSE IF n = Generate THEN "count" ELSE "insert"]
  <1>1. Sound(rec, numbers)
    BY DEF Sound, CallType, Ended, Tables, Generate
  <1>2. call' = [call EXCEPT ![c] = rec] /\ UNCHANGED numbers
    BY DEF Start, Admit, Numbered, Ended
  <1> HIDE DEF rec
  <1> QED
    BY <1>1, <1>2, OneCall

LEMMA AdmitSound ==
  ASSUME NumberingInv, NEW c \in Calls, createBooking(c) \/ createWorkspace(c) \/ signUp(c)
  PROVE  NumberingInv'
  <1> DEFINE booking == [Ended EXCEPT !.op = "begin", !.table = "request", !.tx = TRUE, !.own = TRUE]
             slug == [Ended EXCEPT !.op = "probe", !.table = "workspace", !.number = 1]
  <1>1. Sound(booking, numbers) /\ Sound(slug, numbers)
    BY DEF Sound, CallType, Ended, Tables, Generate
  <1>2. UNCHANGED numbers /\ (\/ call' = [call EXCEPT ![c] = booking]
                             \/ call' = [call EXCEPT ![c] = slug])
    BY DEF createBooking, createWorkspace, signUp, Admit
  <1> HIDE DEF booking, slug
  <1> QED
    BY <1>1, <1>2, OneCall

LEMMA GeneratesSound ==
  ASSUME NumberingInv, NEW c \in Calls, NEW t \in Tables, Generates(c, t)
  PROVE  NumberingInv'
  <1>1. Sound(call[c], numbers) /\ UNCHANGED numbers /\ call[c].table = t
        /\ call \in [Calls -> CallType]
    BY DEF NumberingInv, Generates
  <1>2. CASE Count(c)
    <2> DEFINE n == Cardinality(numbers[t] \ {0}) + 1
               rec == [call[c] EXCEPT !.op = "probe", !.number = n]
    <2>1. IsFiniteSet(numbers[t] \ {0})
      BY FS_Subset DEF NumberingInv, RowsFinite
    <2>2. n \in Nat
      BY <2>1, FS_CardinalityType
    <2> HIDE DEF n
    <2>3. Sound(rec, numbers)
      BY <1>1, <2>2 DEF Sound, CallType
    <2>4. call' = [call EXCEPT ![c] = rec]
      BY <1>1, <1>2 DEF Count, n
    <2> HIDE DEF rec
    <2> QED
      BY <1>1, <2>3, <2>4, OneCall
  <1>3. CASE Probe(c) /\ call[c].number \in numbers[t]
    <2> DEFINE rec == [call[c] EXCEPT !.number = @ + 1]
    <2>1. Sound(rec, numbers)
      BY <1>1, <1>3 DEF Sound, CallType, Probe
    <2>2. call' = [call EXCEPT ![c] = rec]
      BY <1>1, <1>3 DEF Probe
    <2> HIDE DEF rec
    <2> QED
      BY <1>1, <2>1, <2>2, OneCall
  <1>4. CASE Probe(c) /\ call[c].number \notin numbers[t]
    <2> DEFINE rec == [call[c] EXCEPT !.op = "insert"]
    <2>1. Sound(rec, numbers)
      BY <1>1, <1>4 DEF Sound, CallType, Probe
    <2>2. call' = [call EXCEPT ![c] = rec]
      BY <1>1, <1>4 DEF Probe
    <2> HIDE DEF rec
    <2> QED
      BY <1>1, <2>1, <2>2, OneCall
  <1> QED
    BY <1>2, <1>3, <1>4 DEF Generates

LEMMA BeginSound ==
  ASSUME NumberingInv, NEW c \in Calls, begin(c)
  PROVE  NumberingInv'
  <1> DEFINE rec == [call[c] EXCEPT !.op = Numbered(call[c])]
  <1>1. Sound(call[c], numbers)
    BY DEF NumberingInv
  <1>2. Sound(rec, numbers)
    BY <1>1 DEF begin, Sound, CallType, Numbered, Generate
  <1>3. call' = [call EXCEPT ![c] = rec] /\ UNCHANGED numbers
    BY DEF begin, NumberingInv
  <1> HIDE DEF rec
  <1> QED
    BY <1>2, <1>3, OneCall

LEMMA InsertSound ==
  ASSUME NumberingInv, NEW c \in Calls, insert(c)
  PROVE  NumberingInv'
  <1> DEFINE t == call[c].table
             n == call[c].number
             rec == IF n \in numbers[t]
                    THEN [Ended EXCEPT !.op = "refused", !.typed = call[c].typed,
                                       !.raced = call[c].raced]
                    ELSE Ended
  <1>1. Sound(call[c], numbers) /\ call[c].op = "insert"
    BY DEF NumberingInv, insert
  <1>2. t \in Tables /\ n \in Nat
    BY <1>1 DEF Sound, CallType
  <1>3. numbers' \in [Tables -> SUBSET Nat]
        /\ \A u \in Tables : numbers'[u] = numbers[u] \cup (IF u = t THEN {n} ELSE {})
    BY <1>2 DEF insert, NumberingInv, RowsFinite
  <1>4. RowsFinite'
    <2> SUFFICES ASSUME NEW u \in Tables PROVE IsFiniteSet(numbers'[u])
      BY <1>3 DEF RowsFinite
    <2>1. IsFiniteSet(numbers[u] \cup {n}) /\ IsFiniteSet(numbers[u])
      BY FS_AddElement DEF NumberingInv, RowsFinite
    <2> HIDE DEF t, n
    <2>2. numbers'[u] = numbers[u] \cup {n} \/ numbers'[u] = numbers[u] \cup {}
      BY <1>3
    <2> QED
      BY <2>1, <2>2
  <1>5. Sound(rec, numbers')
    BY <1>1, <1>2 DEF Sound, CallType, Ended, Tables, Generate
  <1>6. \A d \in Calls : Sound(Raced(d, t, n), numbers')
    BY <1>2, <1>3, StoreRaces
  <1>7. call' = [d \in Calls |-> IF d # c THEN Raced(d, t, n) ELSE rec]
    BY DEF insert
  <1> HIDE DEF rec, t, n
  <1>8. \A d \in Calls : Sound(call'[d], numbers')
    BY <1>5, <1>6, <1>7
  <1>9. call' \in [Calls -> CallType]
    BY <1>5, <1>6, <1>7 DEF Sound
  <1> QED
    BY <1>4, <1>8, <1>9 DEF NumberingInv

LEMMA RenumberSound ==
  ASSUME NumberingInv, NumberingAssumption, NEW t \in Tables, NEW old, NEW n \in Typed,
         renumber(t, old, n)
  PROVE  NumberingInv'
  <1>1. n \in Nat
    BY DEF NumberingAssumption
  <1>2. numbers' \in [Tables -> SUBSET Nat]
        /\ \A u \in Tables : numbers'[u] \subseteq numbers[u] \cup (IF u = t THEN {n} ELSE {})
    BY <1>1 DEF renumber, NumberingInv, RowsFinite
  <1>3. RowsFinite'
    <2> SUFFICES ASSUME NEW u \in Tables PROVE IsFiniteSet(numbers'[u])
      BY <1>2 DEF RowsFinite
    <2>1. IsFiniteSet(numbers[u] \cup {n}) /\ IsFiniteSet(numbers[u])
      BY FS_AddElement DEF NumberingInv, RowsFinite
    <2>2. numbers'[u] \subseteq numbers[u] \cup {n}
      BY <1>2
    <2> QED
      BY <2>1, <2>2, FS_Subset
  <1>4. \A d \in Calls : Sound(Raced(d, t, n), numbers')
    BY <1>1, <1>2, StoreRaces
  <1>5. call' = [d \in Calls |-> Raced(d, t, n)]
    BY DEF renumber
  <1>6. \A d \in Calls : Sound(call'[d], numbers')
    BY <1>4, <1>5
  <1>7. call' \in [Calls -> CallType]
    BY <1>4, <1>5 DEF Sound
  <1> QED
    BY <1>3, <1>6, <1>7 DEF NumberingInv

LEMMA CreateSound ==
  ASSUME NumberingInv, NumberingAssumption, NEW c \in Calls, NEW n \in Typed \cup {Generate},
         \/ createRequest(c) \/ convertToWorkOrder(c) \/ createWorkOrder(c)
         \/ createContract(c, n) \/ createInvoice(c, n) \/ createPayment(c, n)
  PROVE  NumberingInv'
  <1>1. n \in Nat \cup {Generate}
    BY DEF NumberingAssumption
  <1>2. "request" \in Tables /\ "order" \in Tables /\ "contract" \in Tables
        /\ "invoice" \in Tables /\ "payment" \in Tables
    BY DEF Tables
  <1>3. CASE createRequest(c)
    BY <1>2, <1>3, StartSound DEF createRequest
  <1>4. CASE convertToWorkOrder(c) \/ createWorkOrder(c)
    BY <1>2, <1>4, StartSound DEF convertToWorkOrder, createWorkOrder
  <1>5. CASE createContract(c, n)
    <2>1. (IF n = 0 THEN Generate ELSE n) \in Nat \cup {Generate}
      BY <1>1
    <2> QED
      BY <1>2, <1>5, <2>1, StartSound DEF createContract
  <1>6. CASE createInvoice(c, n)
    BY <1>1, <1>2, <1>6, StartSound DEF createInvoice
  <1>7. CASE createPayment(c, n)
    BY <1>1, <1>2, <1>7, StartSound DEF createPayment
  <1> QED
    BY <1>3, <1>4, <1>5, <1>6, <1>7

LEMMA ProceedSound ==
  ASSUME NumberingInv, NEW c \in Calls, Proceed(c)
  PROVE  NumberingInv'
  <1>1. CASE begin(c)
    BY <1>1, BeginSound
  <1>2. CASE insert(c)
    BY <1>2, InsertSound
  <1>3. CASE giveUp(c)
    BY <1>3, EndedSound, OneCall DEF giveUp
  <1>4. CASE \E t \in Tables : Generates(c, t)
    BY <1>4, GeneratesSound
  <1>5. generateRequestNumber(c) \/ generateWorkOrderNumber(c) \/ generateContractNumber(c)
        \/ generateInvoiceNumber(c) \/ generatePaymentNumber(c) \/ createUniqueWorkspaceSlug(c)
        => \E t \in Tables : Generates(c, t)
    BY DEF generateRequestNumber, generateWorkOrderNumber, generateContractNumber,
           generateInvoiceNumber, generatePaymentNumber, createUniqueWorkspaceSlug, Tables
  <1> QED
    BY <1>1, <1>2, <1>3, <1>4, <1>5 DEF Proceed

LEMMA NumberingInvHolds == NumberingSpec => []NumberingInv
  <1>1. NumberingInit => NumberingInv
    BY NumberingInvInit
  <1>2. NumberingInv /\ [NumberingNext]_numberVars => NumberingInv'
    <2> SUFFICES ASSUME NumberingInv, [NumberingNext]_numberVars PROVE NumberingInv'
      OBVIOUS
    <2>1. CASE \E c \in Calls : createRequest(c) \/ convertToWorkOrder(c) \/ createWorkOrder(c)
      <3>1. Generate \in Typed \cup {Generate}
        OBVIOUS
      <3> QED
        BY <2>1, <3>1, NumberingAssumption, CreateSound
    <2>2. CASE \E c \in Calls, n \in Typed \cup {Generate} :
                 createContract(c, n) \/ createInvoice(c, n) \/ createPayment(c, n)
      BY <2>2, NumberingAssumption, CreateSound
    <2>3. CASE \E c \in Calls : Proceed(c)
      BY <2>3, ProceedSound
    <2>4. CASE \E t \in Tables, old \in UNION {numbers[u] : u \in Tables}, new \in Typed :
                 renumber(t, old, new)
      BY <2>4, NumberingAssumption, RenumberSound
    <2>5. CASE \E c \in Calls : createBooking(c) \/ createWorkspace(c) \/ signUp(c)
      BY <2>5, AdmitSound
    <2>6. CASE UNCHANGED numberVars
      BY <2>6 DEF numberVars, NumberingInv, RowsFinite
    <2> QED
      BY <2>1, <2>2, <2>3, <2>4, <2>5, <2>6 DEF NumberingNext
  <1> QED
    BY <1>1, <1>2, PTL DEF NumberingSpec

(* Calls and numbers are well typed.                                       *)
THEOREM NumberingTypesHold == NumberingSpec => []NumberingTypeOK
  <1>1. NumberingInv => NumberingTypeOK
    BY DEF NumberingInv, RowsFinite, Sound, CallType, NumberingTypeOK
  <1> QED
    BY <1>1, NumberingInvHolds, PTL

(* Counting and probing (generateRequestNumber and its four copies) find a *)
(* free number whatever is typed, renamed or stored beside them: only who  *)
(* is overtaken between the probe and the insert is refused.               *)
THEOREM RefusedOnlyWhenRaced == NumberingSpec => []NumberRefusedOnlyByOverlap
  <1>1. NumberingInv => NumberRefusedOnlyByOverlap
    BY DEF NumberingInv, Sound, NumberRefusedOnlyByOverlap
  <1> QED
    BY <1>1, NumberingInvHolds, PTL

-----------------------------------------------------------------------------
(* Today lies in the current period, and two current periods that share a  *)
(* day are the same: whoever draws up a sheet every two days meets every   *)
(* record once (currentTwoDayPeriod).                                      *)
THEOREM PeriodsTile ==
  ASSUME NEW today \in Int, NEW other \in Int, NEW day \in Int
  PROVE  /\ Covers(currentTwoDayPeriod(today), today)
         /\ Covers(currentTwoDayPeriod(today), day) /\ Covers(currentTwoDayPeriod(other), day)
            => currentTwoDayPeriod(today) = currentTwoDayPeriod(other)
  <1> DEFINE p(t) == (t \div 2) * 2
  <1>1. \A t \in Int : t \div 2 \in Int /\ p(t) <= t /\ t < p(t) + 2
    OBVIOUS
  <1>2. p(today) <= day /\ day < p(today) + 2 /\ p(other) <= day /\ day < p(other) + 2
        => p(today) = p(other)
    BY <1>1
  <1> QED
    BY <1>1, <1>2 DEF Covers, currentTwoDayPeriod

-----------------------------------------------------------------------------
LEMMA PayrollTypeInit == PayrollAssumption /\ PayrollInit => PayrollTypeOK
  <1> SUFFICES ASSUME PayrollAssumption, PayrollInit PROVE PayrollTypeOK
    OBVIOUS
  <1>1. period \in [from : Int, to : Int]
    <2> PICK today \in Days, from \in Days \cup {Unset}, to \in Days \cup {Unset} :
          period = resolvePayrollPeriod(today, from, to)
      BY DEF PayrollInit
    <2>1. today \in Int /\ (from # Unset => from \in Int) /\ (to # Unset => to \in Int)
      BY DEF PayrollAssumption
    <2>2. (today \div 2) * 2 \in Int
      BY <2>1
    <2> QED
      BY <2>1, <2>2 DEF resolvePayrollPeriod, currentTwoDayPeriod
  <1> QED
    BY <1>1 DEF PayrollInit, PayrollTypeOK, Row

(* What one record adds: minutes and cents are whole and not negative, and *)
(* each rounding is off by at most one half.                               *)
LEMMA Rounded ==
  ASSUME PayrollAssumption, NEW in \in Times \cup {Unset}, NEW out \in Times \cup {Unset}
  PROVE  /\ Seconds(in, out) \in Nat /\ minutesBetween(in, out) \in Nat
         /\ 60 * minutesBetween(in, out) - Seconds(in, out) <= 30
         /\ Seconds(in, out) - 60 * minutesBetween(in, out) <= 30
  <1>1. CASE Complete(in, out)
    <2>1. in \in Nat /\ out \in Nat /\ in < out
      BY <1>1 DEF Complete, PayrollAssumption
    <2> QED
      BY <1>1, <2>1 DEF Seconds, minutesBetween
  <1>2. CASE ~Complete(in, out)
    BY <1>2 DEF Seconds, minutesBetween
  <1> QED
    BY <1>1, <1>2

LEMMA HoursRounded ==
  ASSUME NEW minutes \in Nat
  PROVE  /\ hoursOf(minutes) \in Nat
         /\ 6 * hoursOf(minutes) - 10 * minutes <= 3
         /\ 10 * minutes - 6 * hoursOf(minutes) <= 3
  BY DEF hoursOf

LEMMA PayRounded ==
  ASSUME NEW hours \in Nat, NEW rate \in Nat
  PROVE  /\ payOf(hours, rate) \in Nat
         /\ 100 * payOf(hours, rate) - hours * rate <= 50
         /\ hours * rate - 100 * payOf(hours, rate) <= 50
  <1>1. hours * rate \in Nat
    OBVIOUS
  <1>2. \A x \in Nat : /\ (x + 50) \div 100 \in Nat
                       /\ 100 * ((x + 50) \div 100) - x <= 50
                       /\ x - 100 * ((x + 50) \div 100) <= 50
    OBVIOUS
  <1> QED
    BY <1>1, <1>2 DEF payOf

LEMMA TimesMonotone ==
  ASSUME NEW a \in Int, NEW b \in Int, NEW rate \in Nat, a <= b
  PROVE  a * rate <= b * rate
  OBVIOUS

(* The pay of one record against its seconds, in 3600ths of a cent.        *)
LEMMA RecordRounded ==
  ASSUME PayrollAssumption, NEW rate \in Nat,
         NEW in \in Times \cup {Unset}, NEW out \in Times \cup {Unset}
  PROVE  /\ payOf(hoursOf(minutesBetween(in, out)), rate) \in Nat
         /\ 3600 * payOf(hoursOf(minutesBetween(in, out)), rate) - Seconds(in, out) * rate
              <= 1800 + 48 * rate
         /\ Seconds(in, out) * rate - 3600 * payOf(hoursOf(minutesBetween(in, out)), rate)
              <= 1800 + 48 * rate
  <1> DEFINE s == Seconds(in, out)
             m == minutesBetween(in, out)
             h == hoursOf(m)
             p == payOf(h, rate)
  <1>1. /\ s \in Nat /\ m \in Nat /\ 60 * m - s <= 30 /\ s - 60 * m <= 30
    BY Rounded
  <1>2. /\ h \in Nat /\ 6 * h - 10 * m <= 3 /\ 10 * m - 6 * h <= 3
    BY <1>1, HoursRounded
  <1>3. /\ p \in Nat /\ 100 * p - h * rate <= 50 /\ h * rate - 100 * p <= 50
    BY <1>2, PayRounded
  <1> HIDE DEF s, m, h, p
  <1>4. 36 * h <= s + 48 /\ s <= 36 * h + 48
    BY <1>1, <1>2
  <1>5. (36 * h) * rate <= (s + 48) * rate /\ s * rate <= (36 * h + 48) * rate
    <2>1. 36 * h \in Int /\ s + 48 \in Int /\ s \in Int /\ 36 * h + 48 \in Int
      BY <1>1, <1>2
    <2> QED
      BY <1>4, <2>1, TimesMonotone
  <1>6. /\ (36 * h) * rate = 36 * (h * rate) /\ (s + 48) * rate = s * rate + 48 * rate
        /\ (36 * h + 48) * rate = 36 * (h * rate) + 48 * rate
        /\ h * rate \in Int /\ s * rate \in Int /\ 48 * rate \in Int
    BY <1>1, <1>2
  <1>7. 3600 * p - s * rate <= 1800 + 48 * rate /\ s * rate - 3600 * p <= 1800 + 48 * rate
    <2> DEFINE x == h * rate
               y == s * rate
               z == 48 * rate
    <2>1. x \in Int /\ y \in Int /\ z \in Int /\ 36 * x <= y + z /\ y <= 36 * x + z
      BY <1>5, <1>6
    <2>2. 100 * p - x <= 50 /\ x - 100 * p <= 50
      BY <1>3
    <2> HIDE DEF x, y, z
    <2>3. 3600 * p - y <= 1800 + z /\ y - 3600 * p <= 1800 + z
      BY <1>3, <2>1, <2>2
    <2> QED
      BY <2>3 DEF x, y, z
  <1> QED
    BY <1>1, <1>3, <1>7 DEF s, m, h, p

-----------------------------------------------------------------------------
(* The minutes of a row against the seconds behind it; its hours are those *)
(* of its minutes.                                                         *)
MinutesInv ==
  \A e \in Employees :
    /\ 60 * sheet[e].minutes - worked[e] <= 30 * sheet[e].records
    /\ worked[e] - 60 * sheet[e].minutes <= 30 * sheet[e].records
    /\ sheet[e].hours = hoursOf(sheet[e].minutes)

PayrollInv == PayrollTypeOK /\ PayWithinRounding /\ MinutesInv

LEMMA PayrollInvInit == PayrollAssumption /\ PayrollInit => PayrollInv
  <1> SUFFICES ASSUME PayrollAssumption, PayrollInit PROVE PayrollInv
    OBVIOUS
  <1>1. PayrollTypeOK
    BY PayrollTypeInit
  <1>2. \A e \in Employees :
          sheet[e].minutes = 0 /\ sheet[e].hours = 0 /\ sheet[e].grossPay = 0
          /\ sheet[e].records = 0 /\ worked[e] = 0 /\ wage[e] \in Nat
    BY <1>1 DEF PayrollInit, Row, PayrollTypeOK, PayrollAssumption
  <1>3. PayWithinRounding
    <2> SUFFICES ASSUME NEW e \in Employees
                 PROVE  /\ 3600 * 0 - 0 * wage[e] <= 0 * (1800 + 48 * wage[e])
                        /\ 0 * wage[e] - 3600 * 0 <= 0 * (1800 + 48 * wage[e])
      BY <1>2 DEF PayWithinRounding
    <2> QED
      BY <1>2
  <1>4. MinutesInv
    BY <1>2 DEF MinutesInv, hoursOf
  <1> QED
    BY <1>1, <1>3, <1>4 DEF PayrollInv

(* What one turn of the loop adds to the row of employee e.                *)
Added(e, s, m, p, open) ==
  /\ e \in Employees
  /\ 60 * m - s <= 30 /\ s - 60 * m <= 30
  /\ 3600 * p - s * wage[e] <= 1800 + 48 * wage[e]
  /\ s * wage[e] - 3600 * p <= 1800 + 48 * wage[e]
  /\ worked' = [worked EXCEPT ![e] = @ + s]
  /\ sheet' = [sheet EXCEPT ![e] =
       [minutes |-> sheet[e].minutes + m, hours |-> hoursOf(sheet[e].minutes + m),
        grossPay |-> @.grossPay + p, openRecords |-> @.openRecords + open,
        records |-> @.records + 1]]

(* One turn of the loop changes one row; what it adds is rounded once more.*)
LEMMA RowAdded ==
  ASSUME PayrollAssumption, PayrollInv, NEW r \in Records, addRecord(r)
  PROVE  \E s \in Nat, m \in Nat, p \in Nat, open \in {0, 1} :
           Added(record[r].employee, s, m, p, open)
  <1> DEFINE in  == record[r].clockInAt
             out == record[r].clockOutAt
             e   == record[r].employee
             s   == Seconds(in, out)
             m   == minutesBetween(in, out)
             p   == payOf(hoursOf(m), wage[e])
             open == IF in # Unset /\ out = Unset THEN 1 ELSE 0
  <1>1. /\ e \in Employees /\ wage[e] \in Nat
        /\ in \in Times \cup {Unset} /\ out \in Times \cup {Unset}
    BY DEF PayrollInv, PayrollTypeOK, PayrollAssumption
  <1>2. s \in Nat /\ m \in Nat /\ 60 * m - s <= 30 /\ s - 60 * m <= 30
    BY <1>1, Rounded
  <1>3. /\ p \in Nat
        /\ 3600 * p - s * wage[e] <= 1800 + 48 * wage[e]
        /\ s * wage[e] - 3600 * p <= 1800 + 48 * wage[e]
    <2> HIDE DEF in, out, e
    <2> QED
      BY <1>1, RecordRounded
  <1>4. /\ worked' = [worked EXCEPT ![e] = @ + s]
        /\ sheet' = [sheet EXCEPT ![e] =
                [minutes |-> sheet[e].minutes + m, hours |-> hoursOf(sheet[e].minutes + m),
                 grossPay |-> @.grossPay + p, openRecords |-> @.openRecords + open,
                 records |-> @.records + 1]]
    BY DEF addRecord
  <1>5. open \in {0, 1}
    OBVIOUS
  <1> HIDE DEF s, m, p, open
  <1>6. Added(e, s, m, p, open)
    BY <1>1, <1>2, <1>3, <1>4 DEF Added
  <1> QED
    BY <1>2, <1>3, <1>5, <1>6

LEMMA PayrollInvStep ==
  ASSUME PayrollAssumption, PayrollInv, NEW r \in Records, addRecord(r)
  PROVE  PayrollInv'
  <1> DEFINE e == record[r].employee
  <1>1. PICK s \in Nat, m \in Nat, p \in Nat, open \in {0, 1} :
           Added(e, s, m, p, open)
    BY RowAdded
  <1>2. UNCHANGED <<record, wage, period>> /\ todo' \subseteq todo
    BY DEF addRecord
  <1>3. /\ wage[e] \in Nat /\ worked[e] \in Nat /\ sheet[e].minutes \in Nat
        /\ sheet[e].grossPay \in Nat /\ sheet[e].records \in Nat
        /\ sheet[e].openRecords \in Nat
    <2>1. e \in Employees
      BY <1>1 DEF Added
    <2> HIDE DEF e
    <2> QED
      BY <2>1 DEF PayrollInv, PayrollTypeOK, PayrollAssumption
  <1>4. /\ worked'[e] = worked[e] + s /\ sheet'[e].minutes = sheet[e].minutes + m
        /\ sheet'[e].hours = hoursOf(sheet[e].minutes + m)
        /\ sheet'[e].grossPay = sheet[e].grossPay + p
        /\ sheet'[e].records = sheet[e].records + 1
        /\ \A x \in Employees : x # e => sheet'[x] = sheet[x] /\ worked'[x] = worked[x]
    BY <1>1 DEF Added, PayrollInv, PayrollTypeOK
  <1>5. PayrollTypeOK'
    <2>1. hoursOf(sheet[e].minutes + m) \in Nat
      BY <1>3, HoursRounded
    <2>2. /\ sheet[e].minutes + m \in Nat /\ sheet[e].grossPay + p \in Nat
          /\ sheet[e].openRecords + open \in Nat /\ sheet[e].records + 1 \in Nat
          /\ worked[e] + s \in Nat
      BY <1>3
    <2> QED
      BY <1>1, <1>2, <2>1, <2>2 DEF Added, PayrollInv, PayrollTypeOK
  <1>6. PayWithinRounding'
    <2> SUFFICES ASSUME NEW x \in Employees
                 PROVE  /\ 3600 * sheet'[x].grossPay - worked'[x] * wage[x]
                             <= sheet'[x].records * (1800 + 48 * wage[x])
                        /\ worked'[x] * wage[x] - 3600 * sheet'[x].grossPay
                             <= sheet'[x].records * (1800 + 48 * wage[x])
      BY <1>2 DEF PayWithinRounding
    <2>1. CASE x # e
      BY <1>4, <2>1 DEF PayrollInv, PayWithinRounding
    <2>2. CASE x = e
      <3> DEFINE rate == wage[e]
                 g == sheet[e].grossPay
                 w == worked[e]
                 n == sheet[e].records
                 d == 1800 + 48 * rate
      <3>1. rate \in Nat /\ g \in Nat /\ w \in Nat /\ n \in Nat /\ d \in Nat
        BY <1>3
      <3>2. 3600 * g - w * rate <= n * d /\ w * rate - 3600 * g <= n * d
        BY <1>1 DEF Added, PayrollInv, PayWithinRounding
      <3>3. 3600 * p - s * rate <= d /\ s * rate - 3600 * p <= d
        BY <1>1 DEF Added
      <3>4. /\ (w + s) * rate = w * rate + s * rate /\ (n + 1) * d = n * d + d
            /\ w * rate \in Int /\ s * rate \in Int /\ n * d \in Int
        <4> HIDE DEF rate, w, n, d
        <4> QED
          BY <3>1
      <3>5. 3600 * (g + p) - (w + s) * rate <= (n + 1) * d
            /\ (w + s) * rate - 3600 * (g + p) <= (n + 1) * d
        <4> DEFINE a == w * rate
                   b == s * rate
                   c == n * d
        <4>1. /\ a \in Int /\ b \in Int /\ c \in Int /\ 3600 * g - a <= c /\ a - 3600 * g <= c
              /\ 3600 * p - b <= d /\ b - 3600 * p <= d
          BY <3>2, <3>3, <3>4
        <4> HIDE DEF a, b, c, d, g
        <4>2. 3600 * (g + p) - (a + b) <= c + d /\ (a + b) - 3600 * (g + p) <= c + d
          BY <3>1, <4>1
        <4> QED
          BY <3>4, <4>2 DEF a, b, c
      <3> QED
        BY <1>4, <2>2, <3>5
    <2> QED
      BY <2>1, <2>2
  <1>7. MinutesInv'
    <2> SUFFICES ASSUME NEW x \in Employees
                 PROVE  /\ 60 * sheet'[x].minutes - worked'[x] <= 30 * sheet'[x].records
                        /\ worked'[x] - 60 * sheet'[x].minutes <= 30 * sheet'[x].records
                        /\ sheet'[x].hours = hoursOf(sheet'[x].minutes)
      BY DEF MinutesInv
    <2>1. CASE x # e
      BY <1>4, <2>1 DEF PayrollInv, MinutesInv
    <2>2. CASE x = e
      BY <1>1, <1>3, <1>4, <2>2 DEF Added, PayrollInv, MinutesInv
    <2> QED
      BY <2>1, <2>2
  <1> QED
    BY <1>5, <1>6, <1>7 DEF PayrollInv

LEMMA PayrollInvHolds == PayrollSpec => []PayrollInv
  <1>1. PayrollInit => PayrollInv
    BY PayrollAssumption, PayrollInvInit
  <1>2. PayrollInv /\ [PayrollNext]_payrollVars => PayrollInv'
    <2> SUFFICES ASSUME PayrollInv, [PayrollNext]_payrollVars PROVE PayrollInv'
      OBVIOUS
    <2>1. CASE PayrollNext
      BY <2>1, PayrollAssumption, PayrollInvStep DEF PayrollNext
    <2>2. CASE UNCHANGED payrollVars
      BY <2>2 DEF payrollVars, PayrollInv, PayrollTypeOK, PayWithinRounding, MinutesInv
    <2> QED
      BY <2>1, <2>2
  <1> QED
    BY <1>1, <1>2, PTL DEF PayrollSpec

(* Every figure of the sheet is a whole number and none is negative,       *)
(* whatever rows a manager left: clock-outs before clock-ins count for     *)
(* nothing (minutesBetween).                                               *)
THEOREM PayrollTypesHold == PayrollSpec => []PayrollTypeOK
  <1>1. PayrollInv => PayrollTypeOK
    BY DEF PayrollInv
  <1> QED
    BY <1>1, PayrollInvHolds, PTL

(* The gross pay of payrollSummary differs from the wage of the seconds    *)
(* worked by no more than its three roundings per record.                  *)
THEOREM PayIsWithinRounding == PayrollSpec => []PayWithinRounding
  <1>1. PayrollInv => PayWithinRounding
    BY DEF PayrollInv
  <1> QED
    BY <1>1, PayrollInvHolds, PTL

(* The hours of payrollSummary are rounded once per row, and the minutes   *)
(* once per record.                                                        *)
THEOREM HoursAreWithinRounding == PayrollSpec => []HoursWithinRounding
  <1>1. PayrollInv => HoursWithinRounding
    <2> SUFFICES ASSUME PayrollInv, NEW e \in Employees
                 PROVE  /\ 36 * sheet[e].hours - worked[e] <= 30 * sheet[e].records + 18
                        /\ worked[e] - 36 * sheet[e].hours <= 30 * sheet[e].records + 18
      BY DEF HoursWithinRounding
    <2>1. sheet[e].minutes \in Nat /\ worked[e] \in Nat /\ sheet[e].records \in Nat
      BY DEF PayrollInv, PayrollTypeOK
    <2>2. /\ sheet[e].hours = hoursOf(sheet[e].minutes)
          /\ 60 * sheet[e].minutes - worked[e] <= 30 * sheet[e].records
          /\ worked[e] - 60 * sheet[e].minutes <= 30 * sheet[e].records
      BY DEF PayrollInv, MinutesInv
    <2>3. /\ sheet[e].hours \in Nat
          /\ 6 * sheet[e].hours - 10 * sheet[e].minutes <= 3
          /\ 10 * sheet[e].minutes - 6 * sheet[e].hours <= 3
      BY <2>1, <2>2, HoursRounded
    <2> QED
      BY <2>1, <2>2, <2>3
  <1> QED
    BY <1>1, PayrollInvHolds, PTL
=============================================================================
