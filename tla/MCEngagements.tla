--------------------------- MODULE MCEngagements ---------------------------
EXTENDS Engagements, TLC

(* A call changes one thing where it might change several that do not      *)
(* affect each other: one field of a contract, the facility or the         *)
(* estimate of a request.                                                  *)
OneField(k) ==
  Contract(k) => \E field \in DOMAIN sheet[k] :
                   sheet'[k] = [sheet[k] EXCEPT ![field] = sheet'[k][field]]
OneOfPlace(call) == call.op \in {"create", "update"} /\ call.total # None => call.facility = None

Next ==
  /\ EngagementNext
  /\ \A k \in Sheets : OneField(k)
  /\ \A d \in Desks : OneOfPlace(desk'[d])

Spec == EngagementInit /\ [][Next]_engagementVars

Symmetry == Permutations(Customers) \cup Permutations(Lines) \cup Permutations(Desks)
=============================================================================
