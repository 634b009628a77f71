----------------------------- MODULE MCPeople -----------------------------
(* Roster and Personnel in one run: they share no variable, so a behaviour *)
(* is one of the one or of the other.                                      *)
EXTENDS Roster, Personnel, TLC

VARIABLE part

vars == <<part, rosterVars, personnelVars>>

(* Rows of different tables do not affect each other: all are of one.      *)
Init ==
  /\ part \in {"roster", "personnel"}
  /\ RosterInit /\ \A x, y \in Rows : kind[x] = kind[y]
  /\ PersonnelInit
  /\ part = "roster" => \A x \in Profiles : ~Exists(x)
  /\ part = "personnel" => \A x \in Rows : kind[x] = "shift"

(* An edit types a number, names an account or gives an address, not two   *)
(* of them that have nothing to do with each other.                        *)
OneThing(call) ==
  /\ call.typed => call.user = Nobody /\ call.email = Nobody
  /\ call.user # Nobody => call.email \in {Nobody, call.user}

Next ==
  \/ part = "roster" /\ RosterNext /\ UNCHANGED <<part, personnelVars>>
  \/ /\ part = "personnel" /\ PersonnelNext /\ UNCHANGED <<part, rosterVars>>
     /\ \A c \in Clerks : OneThing(clerk'[c])

Spec == Init /\ [][Next]_vars

TypeOK == RosterTypeOK /\ PersonnelTypeOK

(* Profiles and Clerks have the elements of Rows and Planners here.        *)
Symmetry == Permutations(Planners) \cup Permutations(Rows)
=============================================================================
