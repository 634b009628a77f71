----------------------------- MODULE MCNumbers -----------------------------
(* Numbering and Payroll in one run: they share no variable.               *)
EXTENDS Numbering, Payroll

VARIABLES
  part, \* the module that runs
  focus \* numbers are given in one table at a time

vars == <<part, focus, numberVars, payrollVars>>

Init ==
  /\ part \in {"numbering", "payroll"} /\ focus \in Tables
  /\ NumberingInit /\ PayrollInit
  /\ part = "numbering" =>
       /\ todo = {} /\ period = [from |-> 0, to |-> 2]
       /\ \A r, s \in Records : record[r] = record[s]
       /\ \A r \in Records : record[r].clockInAt = Unset /\ record[r].clockOutAt = Unset
  /\ part = "payroll" => focus = "request"

OneTable == \A c \in Calls : UnderWay(c)' => call'[c].table = focus

Next ==
  \/ /\ part = "numbering" /\ NumberingNext /\ OneTable
     /\ UNCHANGED <<part, focus, payrollVars>>
  \/ /\ part = "payroll" /\ PayrollNext
     /\ UNCHANGED <<part, focus, numberVars>>

Proceeds(c) == part = "numbering" /\ Proceed(c) /\ UNCHANGED <<part, focus, payrollVars>>

Spec == Init /\ [][Next]_vars /\ \A c \in Calls : WF_vars(Proceeds(c))
=============================================================================
