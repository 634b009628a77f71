------------------------------ MODULE Casework ------------------------------
(***************************************************************************)
(* Inspections with their scored results (qa.service.ts), complaints,      *)
(* incidents and corrective actions (issues.service.ts), and the tasks of  *)
(* work orders: rows that are opened, edited and closed, most of them with *)
(* the time of closing.  The score of an inspection is an average; here it *)
(* is the set of results it was taken over.                                *)
(***************************************************************************)
EXTENDS Integers

CONSTANTS
  Cases,    \* rows of the five tables
  Results,  \* scored results of inspections
  Hands,    \* calls of addResult and completeInspection
  Unscored  \* a result without score, and no case

ASSUME CaseworkAssumption == Unscored \notin Results \cup Cases

VARIABLES
  sort,     \* per case: its table
  state,    \* "none", "open", or "closed": RESOLVED, CLOSED, DONE, COMPLETED, FAILED
  stamped,  \* cases with resolvedAt or completedAt
  found,    \* per result: the inspection it belongs to, Unscored if it is not there
  score,    \* per inspection: the results its score was taken over, {} for null
  verdict,  \* per inspection: [by, on], who said passed or not, over which results
  hand,     \* the calls under way
  unsealed, \* history: cases whose state was last set by a call that stamps nothing
  exact,    \* history: inspections whose score was last written beside no other call
  late      \* history: inspections with a result added after, or a call beside, the verdict

files == <<sort, state, stamped, unsealed>>
marks == <<found, score, verdict, hand, exact, late>>
caseVars == <<files, marks>>

Sorts == {"inspection", "complaint", "incident", "action", "task"}
Empty == [op |-> "idle", of |-> Unscored, row |-> Unscored, sum |-> {}, given |-> FALSE,
          alone |-> TRUE]

CaseTypeOK ==
  /\ sort \in [Cases -> Sorts] /\ state \in [Cases -> {"none", "open", "closed"}]
  /\ stamped \subseteq Cases /\ unsealed \subseteq Cases
  /\ exact \subseteq Cases /\ late \subseteq Cases
  /\ found \in [Results -> Cases \cup {Unscored}]
  /\ score \in [Cases -> SUBSET Results]
  /\ verdict \in [Cases -> [by : {"none", "score", "given"}, on : SUBSET Results]]
  /\ hand \in [Hands -> [op : {"idle", "insert", "add", "complete"}, of : Cases \cup {Unscored},
                         row : Results \cup {Unscored}, sum : SUBSET Results,
                         given : BOOLEAN, alone : BOOLEAN]]

CaseInit ==
  /\ sort \in [Cases -> Sorts] /\ state = [i \in Cases |-> "none"]
  /\ stamped = {} /\ unsealed = {} /\ exact = Cases /\ late = {}
  /\ found = [r \in Results |-> Unscored] /\ score = [i \in Cases |-> {}]
  /\ verdict = [i \in Cases |-> [by |-> "none", on |-> {}]]
  /\ hand = [h \in Hands |-> Empty]

-----------------------------------------------------------------------------
(* A call gives a state or leaves it; one that stamps does so whenever it  *)
(* is given a closed one.  No call takes a stamp away.                     *)
Set(i, given, stamps) ==
  /\ state' = [state EXCEPT ![i] = given]
  /\ stamped' = IF stamps /\ given = "closed" THEN stamped \cup {i} ELSE stamped
  /\ unsealed' = IF stamps THEN unsealed \ {i} ELSE unsealed \cup {i}
  /\ UNCHANGED sort

Create(i, given) == state[i] = "none" /\ Set(i, given, FALSE) /\ UNCHANGED marks
Edit(i, given, stamps) == state[i] # "none" /\ Set(i, given, stamps) /\ UNCHANGED marks

createInspection(i, given)       == sort[i] = "inspection" /\ Create(i, given)
updateInspection(i, given)       == sort[i] = "inspection" /\ Edit(i, given, FALSE)
createComplaint(i, given)        == sort[i] = "complaint" /\ Create(i, given)
updateComplaint(i, given)        == sort[i] = "complaint" /\ Edit(i, given, FALSE)
updateComplaintStatus(i, given)  == sort[i] = "complaint" /\ Edit(i, given, TRUE)
createIncident(i, given)         == sort[i] = "incident" /\ Create(i, given)
updateIncident(i, given)         == sort[i] = "incident" /\ Edit(i, given, TRUE)
createCorrectiveAction(i, given) == sort[i] = "action" /\ Create(i, given)
updateCorrectiveAction(i, given) == sort[i] = "action" /\ Edit(i, given, TRUE)
addTask(i, given)                == sort[i] = "task" /\ Create(i, given)
updateTask(i, given)             == sort[i] = "task" /\ Edit(i, given, TRUE)

-----------------------------------------------------------------------------
ResultsOf(i) == {r \in Results : found[r] = i}

(* A call on inspection i comes in, or goes; calls beside it are not alone.*)
Enter(h, i, call) ==
  /\ hand[h] = Empty /\ sort[i] = "inspection" /\ state[i] # "none"
  /\ hand' = [u \in Hands |->
       IF u = h THEN [call EXCEPT !.of = i, !.alone = \A v \in Hands \ {h} : hand[v].of # i]
       ELSE IF hand[u].of = i THEN [hand[u] EXCEPT !.alone = FALSE] ELSE hand[u]]
  /\ UNCHANGED <<files, found, score, verdict, exact, late>>

addResult(h, i, row) ==
  /\ row # Unscored => found[row] = Unscored /\ \A u \in Hands : hand[u].row # row
  /\ Enter(h, i, [Empty EXCEPT !.op = "insert", !.row = row])

(* The row is seen by others when the transaction commits; the scores read *)
(* are those of the committed rows and the transaction's own.              *)
insertResult(h) ==
  /\ hand[h].op = "insert"
  /\ hand' = [hand EXCEPT ![h].op = "add",
                          ![h].sum = ResultsOf(hand[h].of) \cup ({hand[h].row} \cap Results)]
  /\ UNCHANGED <<files, found, score, verdict, exact, late>>

recalculateInspectionScore(h) ==
  LET i == hand[h].of IN
  /\ hand[h].op = "add"
  /\ found' = [r \in Results |-> IF r = hand[h].row THEN i ELSE found[r]]
  /\ score' = IF hand[h].sum = {} THEN score ELSE [score EXCEPT ![i] = hand[h].sum]
  /\ exact' = IF hand[h].alone THEN exact \cup {i} ELSE exact \ {i}
  /\ late' = late \cup {i}
  /\ hand' = [hand EXCEPT ![h] = Empty]
  /\ UNCHANGED <<files, verdict>>

completeInspection(h, i, given) ==
  Enter(h, i, [Empty EXCEPT !.op = "complete", !.sum = ResultsOf(i), !.given = given])

(* Without results and without a verdict given passed is left as it was.   *)
storeCompletion(h) ==
  LET i == hand[h].of
      call == hand[h] IN
  /\ call.op = "complete"
  /\ Set(i, "closed", TRUE)
  /\ score' = [score EXCEPT ![i] = call.sum]
  /\ verdict' = IF call.given THEN [verdict EXCEPT ![i] = [by |-> "given", on |-> call.sum]]
                ELSE IF call.sum # {} THEN [verdict EXCEPT ![i] = [by |-> "score", on |-> call.sum]]
                ELSE verdict
  /\ exact' = IF call.alone THEN exact \cup {i} ELSE exact \ {i}
  /\ late' = IF call.alone THEN late \ {i} ELSE late \cup {i}
  /\ hand' = [hand EXCEPT ![h] = Empty]
  /\ UNCHANGED found

callFails(h) ==
  /\ hand[h] # Empty /\ hand' = [hand EXCEPT ![h] = Empty]
  /\ UNCHANGED <<files, found, score, verdict, exact, late>>

FileStep(i, given) ==
  \/ createInspection(i, given) \/ updateInspection(i, given)
  \/ createComplaint(i, given) \/ updateComplaint(i, given) \/ updateComplaintStatus(i, given)
  \/ createIncident(i, given) \/ updateIncident(i, given)
  \/ createCorrectiveAction(i, given) \/ updateCorrectiveAction(i, given)
  \/ addTask(i, given) \/ updateTask(i, given)

CaseNext ==
  \/ \E i \in Cases, given \in {"open", "closed"} : FileStep(i, given)
  \/ \E h \in Hands, i \in Cases, row \in Results \cup {Unscored} : addResult(h, i, row)
  \/ \E h \in Hands, i \in Cases, given \in BOOLEAN : completeInspection(h, i, given)
  \/ \E h \in Hands :
       insertResult(h) \/ recalculateInspectionScore(h) \/ storeCompletion(h) \/ callFails(h)

CaseSpec == CaseInit /\ [][CaseNext]_caseVars

-----------------------------------------------------------------------------
(* The score is over all results there are, unless the call that wrote it  *)
(* last ran beside another; the next call that runs alone repairs it.      *)
ScoreExactUnlessOverlap ==
  \A i \in exact : score[i] = ResultsOf(i)

(* A verdict drawn from the score is about all results there are, unless a *)
(* result came after it or the call ran beside another: a result added to  *)
(* a completed inspection changes the score and leaves the verdict.        *)
VerdictOnScore ==
  \A i \in Cases \ late : verdict[i].by = "score" => verdict[i].on = ResultsOf(i)

(* A closed case has no time of closing only if it was closed when created *)
(* or by an edit that does not stamp.                                      *)
ClosedUnstampedOnlyByEdit ==
  \A i \in Cases : state[i] = "closed" /\ i \notin stamped => i \in unsealed
=============================================================================
