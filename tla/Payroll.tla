------------------------------ MODULE Payroll ------------------------------
(***************************************************************************)
(* The pay sheet of the staff portal (payrollSummary): the attendance rows *)
(* of a period, added up per employee.  Every record is rounded to         *)
(* minutes, its minutes to hundredths of an hour and its pay to cents, and *)
(* what is added up is what was rounded.                                   *)
(*                                                                         *)
(* Days are counted from 2026-01-01, clock times are in seconds, hours in  *)
(* hundredths and money in cents.                                          *)
(***************************************************************************)
EXTENDS Integers

CONSTANTS
  Records, Employees,
  Days, Times, Wages, \* days, clock times, and hourly rates that occur
  Unset               \* null: not clocked in or out, no end of the period given

ASSUME PayrollAssumption ==
  Days \subseteq Int /\ Times \subseteq Nat /\ Wages \subseteq Nat /\ Unset \notin Int

VARIABLES
  record, \* the attendance rows
  wage,   \* hourlyRate of the employees
  period, \* the days from "from" to the one before "to"
  todo,   \* records of the period that are still to be added
  sheet,  \* the sheet, a row per employee
  worked  \* history: the seconds behind a row of the sheet

payrollVars == <<record, wage, period, todo, sheet, worked>>

Row == [minutes |-> 0, hours |-> 0, grossPay |-> 0, openRecords |-> 0, records |-> 0]

PayrollTypeOK ==
  /\ record \in [Records -> [employee : Employees, date : Days,
                             clockInAt : Times \cup {Unset}, clockOutAt : Times \cup {Unset}]]
  /\ wage \in [Employees -> Wages] /\ period \in [from : Int, to : Int]
  /\ todo \subseteq Records /\ worked \in [Employees -> Nat]
  /\ sheet \in [Employees -> [minutes : Nat, hours : Nat, grossPay : Nat,
                              openRecords : Nat, records : Nat]]

-----------------------------------------------------------------------------
currentTwoDayPeriod(today) ==
  LET periodStart == (today \div 2) * 2 IN [from |-> periodStart, to |-> periodStart + 2]

(* A period with one end given may be empty: the other is the current one's. *)
resolvePayrollPeriod(today, from, to) ==
  [from |-> IF from # Unset THEN from ELSE currentTwoDayPeriod(today).from,
   to   |-> IF to # Unset THEN to + 1 ELSE currentTwoDayPeriod(today).to]

Covers(p, day) == p.from <= day /\ day < p.to

Complete(in, out) == in # Unset /\ out # Unset /\ in < out
Seconds(in, out)  == IF Complete(in, out) THEN out - in ELSE 0

(* Math.round: halves go up.                                               *)
\* Mutant of minutesBetween: a clock-out before the clock-in is not caught.
minutesUnchecked(in, out) ==
  IF in # Unset /\ out # Unset THEN (out - in + 30) \div 60 ELSE 0

minutesBetween(in, out) == IF Complete(in, out) THEN (out - in + 30) \div 60 ELSE 0
hoursOf(minutes)        == (10 * minutes + 3) \div 6
payOf(hours, rate)      == (hours * rate + 50) \div 100

PayrollInit ==
  /\ record \in [Records -> [employee : Employees, date : Days,
                             clockInAt : Times \cup {Unset}, clockOutAt : Times \cup {Unset}]]
  /\ wage \in [Employees -> Wages]
  /\ \E today \in Days, from, to \in Days \cup {Unset} :
       period = resolvePayrollPeriod(today, from, to)
  /\ todo = {r \in Records : Covers(period, record[r].date)}
  /\ sheet = [e \in Employees |-> Row]
  /\ worked = [e \in Employees |-> 0]

(* One turn of the loop over the records.                                  *)
addRecord(r) ==
  LET e       == record[r].employee
      in      == record[r].clockInAt
      out     == record[r].clockOutAt
      minutes == minutesBetween(in, out)
      total   == sheet[e].minutes + minutes IN
  /\ r \in todo /\ todo' = todo \ {r}
  /\ sheet' = [sheet EXCEPT ![e] =
       [minutes |-> total, hours |-> hoursOf(total),
        grossPay |-> @.grossPay + payOf(hoursOf(minutes), wage[e]),
        openRecords |-> @.openRecords + (IF in # Unset /\ out = Unset THEN 1 ELSE 0),
        records |-> @.records + 1]]
  /\ worked' = [worked EXCEPT ![e] = @ + Seconds(in, out)]
  /\ UNCHANGED <<record, wage, period>>

PayrollNext == \E r \in Records : addRecord(r)

PayrollSpec == PayrollInit /\ [][PayrollNext]_payrollVars

-----------------------------------------------------------------------------
(* Rounding three times per record, the sheet pays each employee for the   *)
(* seconds worked but for half a cent, half a minute's wage and half a     *)
(* hundredth of an hour's wage per record (in 3600ths of a cent).          *)
PayWithinRounding ==
  \A e \in Employees :
    LET slack == sheet[e].records * (1800 + 48 * wage[e]) IN
    /\ 3600 * sheet[e].grossPay - worked[e] * wage[e] <= slack
    /\ worked[e] * wage[e] - 3600 * sheet[e].grossPay <= slack

(* The hours of a row are those of the seconds worked but for half a       *)
(* minute per record and half a hundredth of an hour (in 36ths of a        *)
(* second).                                                                *)
HoursWithinRounding ==
  \A e \in Employees :
    LET slack == 30 * sheet[e].records + 18 IN
    /\ 36 * sheet[e].hours - worked[e] <= slack
    /\ worked[e] - 36 * sheet[e].hours <= slack
=============================================================================
