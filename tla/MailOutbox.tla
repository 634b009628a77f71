----------------------------- MODULE MailOutbox -----------------------------
(***************************************************************************)
(* What the e-mail queue promises its producers, whatever the workers do:  *)
(* a submitted mail is open until it is delivered or given up; copies      *)
(* leave only while it is open; delivery is reported only of a mail that   *)
(* left; and a verdict is final unless an operator has reopened the mail.  *)
(* EmailJobs implements this specification.                                *)
(***************************************************************************)
EXTENDS Integers

CONSTANT Jobs

VARIABLES
  outcome,   \* "absent", "pending", "delivered" or "failed"
  copies,    \* how many copies have left
  reopened   \* the mails an operator has ever reopened

vars == <<outcome, copies, reopened>>

Open(j) == outcome[j] = "pending" \/ (j \in reopened /\ outcome[j] # "absent")

Init ==
  /\ outcome  = [j \in Jobs |-> "absent"]
  /\ copies   = [j \in Jobs |-> 0]
  /\ reopened = {}

Decide(j, verdict) ==
  /\ outcome' = [outcome EXCEPT ![j] = verdict]
  /\ UNCHANGED <<copies, reopened>>

Submit(j) == outcome[j] = "absent" /\ Decide(j, "pending")

Emit(j) ==
  /\ Open(j)
  /\ copies' = [copies EXCEPT ![j] = @ + 1]
  /\ UNCHANGED <<outcome, reopened>>

Confirm(j) == Open(j) /\ copies[j] > 0 /\ Decide(j, "delivered")

GiveUp(j) == Open(j) /\ Decide(j, "failed")

\* A sender the reopening overtook may put the mail back.
PutBack(j) == j \in reopened /\ Open(j) /\ Decide(j, "pending")

Reopen(j) ==
  /\ outcome[j] # "absent"
  /\ outcome'  = [outcome EXCEPT ![j] = "pending"]
  /\ reopened' = reopened \cup {j}
  /\ UNCHANGED copies

Next ==
  \E j \in Jobs :
    Submit(j) \/ Emit(j) \/ Confirm(j) \/ GiveUp(j) \/ PutBack(j) \/ Reopen(j)

Spec == Init /\ [][Next]_vars
=============================================================================
