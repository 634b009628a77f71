--------------------------- MODULE RecordsProofs ---------------------------
(***************************************************************************)
(* What of the marks, the public bookings, the lists, the conversations,   *)
(* the scores and the cases holds for any number of rows and calls.        *)
(***************************************************************************)
EXTENDS MCRecords, FiniteSetTheorems, TLAPS

Own(h) == {hand[h].row} \cap Results

(* A call that is alone on its inspection has read all there is, and no    *)
(* call has read what is not there or adds what is.                        *)
CallInv(h) ==
  /\ hand[h].op = "idle" => hand[h] = Empty
  /\ hand[h].op # "idle" => hand[h].of \in Cases
  /\ hand[h].alone => \A u \in Hands \ {h} : hand[u].op # "idle" => hand[u].of # hand[h].of
  /\ hand[h].row # Unscored => found[hand[h].row] = Unscored
  /\ hand[h].row # Unscored => \A u \in Hands \ {h} : hand[u].row # hand[h].row
  /\ hand[h].op = "add" =>
       /\ hand[h].sum \subseteq ResultsOf(hand[h].of) \cup Own(h)
       /\ hand[h].alone => hand[h].sum = ResultsOf(hand[h].of) \cup Own(h)
  /\ hand[h].op = "complete" =>
       /\ hand[h].row = Unscored
       /\ hand[h].sum \subseteq ResultsOf(hand[h].of)
       /\ hand[h].alone => hand[h].sum = ResultsOf(hand[h].of)

ScoreInv ==
  \A i \in Cases :
    /\ score[i] \subseteq ResultsOf(i) /\ verdict[i].on \subseteq ResultsOf(i)
    /\ i \in exact => score[i] = ResultsOf(i)
    /\ i \notin late /\ verdict[i].by = "score" => verdict[i].on = ResultsOf(i)

CaseInv ==
  /\ CaseTypeOK
  /\ \A h \in Hands : CallInv(h)
  /\ ScoreInv
  /\ ClosedUnstampedOnlyByEdit

-----------------------------------------------------------------------------
LEMMA EmptyFields ==
  /\ Empty.op = "idle" /\ Empty.of = Unscored /\ Empty.row = Unscored
  /\ Empty.sum = {} /\ Empty.given = FALSE /\ Empty.alone = TRUE
  BY DEF Empty

LEMMA EmptyType ==
  Empty \in [op : {"idle", "insert", "add", "complete"}, of : Cases \cup {Unscored},
             row : Results \cup {Unscored}, sum : SUBSET Results, given : BOOLEAN, alone : BOOLEAN]
  BY DEF Empty

(* The initial states.                                                     *)
LEMMA InitInv == CaseInit => CaseInv
  <1> SUFFICES ASSUME CaseInit PROVE CaseInv
    OBVIOUS
  <1>1. CaseTypeOK
    BY EmptyType DEF CaseInit, CaseTypeOK
  <1>2. \A h \in Hands : CallInv(h)
    BY EmptyFields DEF CaseInit, CallInv
  <1>3. \A i \in Cases : ResultsOf(i) = {}
    BY CaseworkAssumption DEF CaseInit, ResultsOf
  <1>4. ScoreInv
    BY <1>3 DEF CaseInit, ScoreInv
  <1>5. ClosedUnstampedOnlyByEdit
    BY DEF CaseInit, ClosedUnstampedOnlyByEdit
  <1> QED
    BY <1>1, <1>2, <1>4, <1>5 DEF CaseInv

-----------------------------------------------------------------------------
(* Steps that touch files only.                                            *)
LEMMA SetInv ==
  ASSUME CaseInv, NEW i \in Cases, NEW given \in {"open", "closed"}, NEW stamps \in BOOLEAN,
         Set(i, given, stamps)
  PROVE  /\ sort' \in [Cases -> Sorts] /\ state' \in [Cases -> {"none", "open", "closed"}]
         /\ stamped' \subseteq Cases /\ unsealed' \subseteq Cases
         /\ ClosedUnstampedOnlyByEdit'
  <1> USE DEF CaseInv, CaseTypeOK
  <1>1. /\ sort' \in [Cases -> Sorts] /\ state' \in [Cases -> {"none", "open", "closed"}]
        /\ stamped' \subseteq Cases /\ unsealed' \subseteq Cases
    BY DEF Set
  <1>2. ASSUME NEW j \in Cases, state'[j] = "closed", j \notin stamped', j \notin unsealed'
        PROVE  FALSE
    <2>1. CASE j = i
      BY <1>2, <2>1 DEF Set
    <2>2. CASE j # i
      BY <1>2, <2>2 DEF Set, ClosedUnstampedOnlyByEdit
    <2> QED
      BY <2>1, <2>2
  <1> QED
    BY <1>1, <1>2 DEF ClosedUnstampedOnlyByEdit

LEMMA MarksKept ==
  ASSUME CaseInv, UNCHANGED marks
  PROVE  (\A h \in Hands : CallInv(h)') /\ ScoreInv'
  BY DEF CaseInv, marks, CallInv, ScoreInv, ResultsOf, Own

LEMMA FileInv ==
  ASSUME CaseInv, NEW i \in Cases, NEW given \in {"open", "closed"}, FileStep(i, given)
  PROVE  CaseInv'
  <1>1. PICK stamps \in BOOLEAN : Set(i, given, stamps) /\ UNCHANGED marks
    BY DEF FileStep, Create, Edit, createInspection, updateInspection, createComplaint,
           updateComplaint, updateComplaintStatus, createIncident, updateIncident,
           createCorrectiveAction, updateCorrectiveAction, addTask, updateTask
  <1>2. CaseTypeOK'
    BY <1>1, SetInv DEF CaseInv, CaseTypeOK, marks
  <1> QED
    BY <1>1, <1>2, SetInv, MarksKept DEF CaseInv

LEMMA FilesKept ==
  ASSUME CaseInv, UNCHANGED files
  PROVE  /\ sort' \in [Cases -> Sorts] /\ state' \in [Cases -> {"none", "open", "closed"}]
         /\ stamped' \subseteq Cases /\ unsealed' \subseteq Cases
         /\ ClosedUnstampedOnlyByEdit'
  BY DEF CaseInv, CaseTypeOK, files, ClosedUnstampedOnlyByEdit

-----------------------------------------------------------------------------
(* Steps of the calls.                                                     *)
Calls == [op : {"idle", "insert", "add", "complete"}, of : Cases \cup {Unscored},
          row : Results \cup {Unscored}, sum : SUBSET Results, given : BOOLEAN, alone : BOOLEAN]

(* A call comes in, with what it has read.                                 *)
LEMMA EnterInv ==
  ASSUME CaseInv, NEW h \in Hands, NEW i \in Cases, NEW call \in Calls,
         call.op \in {"insert", "complete"},
         call.row # Unscored => found[call.row] = Unscored /\ \A u \in Hands : hand[u].row # call.row,
         call.op = "complete" => call.row = Unscored /\ call.sum = ResultsOf(i),
         Enter(h, i, call)
  PROVE  CaseInv'
  <1> DEFINE new == [call EXCEPT !.of = i, !.alone = \A v \in Hands \ {h} : hand[v].of # i]
             other(u) == IF hand[u].of = i THEN [hand[u] EXCEPT !.alone = FALSE] ELSE hand[u]
  <1>1. /\ hand \in [Hands -> Calls] /\ i # Unscored
        /\ \A u \in Hands : CallInv(u)
    BY CaseworkAssumption DEF CaseInv, CaseTypeOK, Calls
  <1>2. new \in Calls
    BY DEF Calls
  <1>3. /\ new.op = call.op /\ new.row = call.row /\ new.sum = call.sum /\ new.of = i
        /\ new.alone = (\A v \in Hands \ {h} : hand[v].of # i)
    BY DEF Calls
  <1>4. ASSUME NEW u \in Hands
        PROVE  /\ other(u) \in Calls /\ other(u).op = hand[u].op /\ other(u).row = hand[u].row
               /\ other(u).of = hand[u].of /\ other(u).sum = hand[u].sum
               /\ other(u).alone => hand[u].alone /\ hand[u].of # i
               /\ hand[u].of # i => other(u) = hand[u]
    BY <1>1 DEF Calls
  <1>5. hand' = [u \in Hands |-> IF u = h THEN new ELSE other(u)]
    BY DEF Enter
  <1>6. hand' \in [Hands -> Calls] /\ UNCHANGED <<files, found, score, verdict, exact, late>>
    BY <1>2, <1>4, <1>5 DEF Enter
  <1>7. \A j : ResultsOf(j)' = ResultsOf(j)
    BY <1>6 DEF ResultsOf
  <1>8. hand[h] = Empty
    BY DEF Enter
  <1>9. CallInv(h)'
    <2>1. hand'[h] = new
      BY <1>5
    <2>2. hand'[h].alone => \A u \in Hands \ {h} : hand'[u].op # "idle" => hand'[u].of # hand'[h].of
      BY <2>1, <1>3, <1>4, <1>5
    <2>3. hand'[h].row # Unscored => \A u \in Hands \ {h} : hand'[u].row # hand'[h].row
      BY <2>1, <1>3, <1>4, <1>5
    <2> QED
      BY <2>1, <2>2, <2>3, <1>3, <1>6, <1>7 DEF CallInv
  <1>10. ASSUME NEW u \in Hands \ {h} PROVE CallInv(u)'
    <2>1. hand'[u] = other(u) /\ CallInv(u)
      BY <1>5, <1>1
    <2>2. hand'[u].op = "idle" => hand'[u] = Empty
      <3>1. hand[u] = Empty => hand[u].of # i
        BY <1>1, EmptyFields
      <3> QED
        BY <2>1, <1>4, <3>1 DEF CallInv
    <2>3. hand'[u].alone => \A v \in Hands \ {u} : hand'[v].op # "idle" => hand'[v].of # hand'[u].of
      <3>1. ASSUME hand'[u].alone, NEW v \in Hands \ {u}, hand'[v].op # "idle"
            PROVE  hand'[v].of # hand'[u].of
        <4>1. hand[u].alone /\ hand[u].of # i /\ hand'[u].of = hand[u].of
          BY <3>1, <2>1, <1>4
        <4>2. CASE v = h
          BY <4>1, <4>2, <1>5, <1>3
        <4>3. CASE v # h
          BY <4>1, <4>3, <3>1, <1>4, <1>5, <2>1 DEF CallInv
        <4> QED
          BY <4>2, <4>3
      <3> QED
        BY <3>1
    <2>4. hand'[u].row # Unscored => \A v \in Hands \ {u} : hand'[v].row # hand'[u].row
      <3>1. ASSUME hand'[u].row # Unscored, NEW v \in Hands \ {u}
            PROVE  hand'[v].row # hand'[u].row
        <4>1. CASE v = h
          BY <4>1, <3>1, <2>1, <1>3, <1>4, <1>5
        <4>2. CASE v # h
          BY <4>2, <3>1, <2>1, <1>4, <1>5 DEF CallInv
        <4> QED
          BY <4>1, <4>2
      <3> QED
        BY <3>1
    <2>5. Own(u)' = Own(u)
      BY <2>1, <1>4 DEF Own
    <2>6. found' = found
      BY <1>6
    <2> QED
      BY <2>1, <2>2, <2>3, <2>4, <2>5, <2>6, <1>4, <1>7 DEF CallInv
  <1>11. ScoreInv'
    BY <1>6, <1>7 DEF CaseInv, ScoreInv
  <1>12. CaseTypeOK'
    BY <1>6, FilesKept DEF CaseInv, CaseTypeOK, Calls
  <1> QED
    BY <1>6, <1>9, <1>10, <1>11, <1>12, FilesKept DEF CaseInv

(* The results are read.                                                   *)
LEMMA CalculateInv ==
  ASSUME CaseInv, NEW h \in Hands, insertResult(h)
  PROVE  CaseInv'
  <1> DEFINE new == [hand[h] EXCEPT !.op = "add", !.sum = ResultsOf(hand[h].of) \cup Own(h)]
  <1>1. hand \in [Hands -> Calls] /\ \A u \in Hands : CallInv(u)
    BY DEF CaseInv, CaseTypeOK, Calls
  <1>2. /\ new \in Calls /\ new.op = "add" /\ new.of = hand[h].of /\ new.row = hand[h].row
        /\ new.alone = hand[h].alone /\ new.sum = ResultsOf(hand[h].of) \cup Own(h)
    BY <1>1 DEF Calls, ResultsOf, Own
  <1>3. hand' = [hand EXCEPT ![h] = new]
    BY <1>1 DEF insertResult, Own, Calls
  <1>4. UNCHANGED <<files, found, score, verdict, exact, late>> /\ hand[h].op = "insert"
    BY DEF insertResult
  <1>5. \A j : ResultsOf(j)' = ResultsOf(j)
    BY <1>4 DEF ResultsOf
  <1>6. \A u \in Hands : /\ hand'[u].of = hand[u].of /\ hand'[u].row = hand[u].row
                         /\ hand'[u].alone = hand[u].alone
                         /\ hand'[u].op # "idle" => hand[u].op # "idle"
                         /\ u # h => hand'[u] = hand[u]
    BY <1>1, <1>2, <1>3, <1>4
  <1>7. ASSUME NEW u \in Hands PROVE CallInv(u)'
    <2>1. Own(u)' = Own(u)
      BY <1>6 DEF Own
    <2>2. CASE u = h
      <3>1. hand'[h] = new
        BY <1>1, <1>3
      <3> QED
        BY <2>1, <2>2, <3>1, <1>1, <1>2, <1>4, <1>5, <1>6 DEF CallInv
    <2>3. CASE u # h
      BY <2>1, <2>3, <1>1, <1>4, <1>5, <1>6 DEF CallInv
    <2> QED
      BY <2>2, <2>3
  <1>8. ScoreInv'
    BY <1>4, <1>5 DEF CaseInv, ScoreInv
  <1>9. CaseTypeOK'
    BY <1>1, <1>2, <1>3, <1>4, FilesKept DEF CaseInv, CaseTypeOK, Calls
  <1> QED
    BY <1>4, <1>7, <1>8, <1>9, FilesKept DEF CaseInv

(* A call goes: what the others have read stays true when no result comes. *)
LEMMA GoneInv ==
  ASSUME CaseInv, NEW h \in Hands, hand' = [hand EXCEPT ![h] = Empty], UNCHANGED found
  PROVE  hand' \in [Hands -> Calls] /\ \A u \in Hands : CallInv(u)'
  <1>1. hand \in [Hands -> Calls] /\ Empty \in Calls /\ \A u \in Hands : CallInv(u)
    BY EmptyType DEF CaseInv, CaseTypeOK, Calls
  <1>2. \A j : ResultsOf(j)' = ResultsOf(j)
    BY DEF ResultsOf
  <1>3. hand'[h] = Empty /\ \A u \in Hands \ {h} : hand'[u] = hand[u]
    BY <1>1
  <1>4. \A v \in Hands : /\ hand'[v].op # "idle" => v # h /\ hand'[v] = hand[v]
                         /\ hand'[v].row # Unscored => v # h /\ hand'[v] = hand[v]
    BY <1>3, EmptyFields
  <1>5. ASSUME NEW u \in Hands PROVE CallInv(u)'
    <2>1. CASE u = h
      <3>1. hand'[u] = Empty
        BY <1>3, <2>1
      <3>2. \A v \in Hands \ {u} : hand'[v].op # "idle" => hand'[v].of # Unscored
        BY <1>1, <1>4, CaseworkAssumption DEF CallInv
      <3> QED
        BY <3>1, <3>2, EmptyFields DEF CallInv
    <2>2. CASE u # h
      <3>1. hand'[u] = hand[u] /\ Own(u)' = Own(u) /\ CallInv(u)
        BY <1>1, <1>3, <2>2 DEF Own
      <3>2. hand'[u].alone => \A v \in Hands \ {u} : hand'[v].op # "idle" => hand'[v].of # hand'[u].of
        BY <3>1, <1>4 DEF CallInv
      <3>3. hand'[u].row # Unscored => \A v \in Hands \ {u} : hand'[v].row # hand'[u].row
        BY <3>1, <1>4 DEF CallInv
      <3> QED
        BY <3>1, <3>2, <3>3, <1>2 DEF CallInv
    <2> QED
      BY <2>1, <2>2
  <1> QED
    BY <1>1, <1>5

LEMMA FailsInv ==
  ASSUME CaseInv, NEW h \in Hands, callFails(h)
  PROVE  CaseInv'
  <1>1. hand' \in [Hands -> Calls] /\ \A u \in Hands : CallInv(u)'
    BY GoneInv DEF callFails
  <1>2. UNCHANGED <<files, found, score, verdict, exact, late>>
    BY DEF callFails
  <1>3. \A j : ResultsOf(j)' = ResultsOf(j)
    BY <1>2 DEF ResultsOf
  <1>4. ScoreInv'
    BY <1>2, <1>3 DEF CaseInv, ScoreInv
  <1>5. CaseTypeOK'
    BY <1>1, <1>2, FilesKept DEF CaseInv, CaseTypeOK, Calls
  <1> QED
    BY <1>1, <1>2, <1>4, <1>5, FilesKept DEF CaseInv

(* An inspection is completed.                                             *)
LEMMA CompletionInv ==
  ASSUME CaseInv, NEW h \in Hands, storeCompletion(h)
  PROVE  CaseInv'
  <1> DEFINE i == hand[h].of
             sum == hand[h].sum
  <1>1. /\ hand \in [Hands -> Calls] /\ CallInv(h) /\ hand[h].op = "complete" /\ i \in Cases
        /\ sum \subseteq ResultsOf(i) /\ (hand[h].alone => sum = ResultsOf(i)) /\ sum \subseteq Results
    BY DEF CaseInv, CaseTypeOK, Calls, storeCompletion, CallInv
  <1>2. hand' \in [Hands -> Calls] /\ \A u \in Hands : CallInv(u)'
    BY GoneInv DEF storeCompletion
  <1>3. Set(i, "closed", TRUE) /\ UNCHANGED found
    BY DEF storeCompletion
  <1>4. \A j : ResultsOf(j)' = ResultsOf(j)
    BY <1>3 DEF ResultsOf
  <1>5. \A j \in Cases : score'[j] = IF j = i THEN sum ELSE score[j]
    BY DEF storeCompletion, CaseInv, CaseTypeOK
  <1>6. \A j \in Cases :
          /\ j # i => verdict'[j] = verdict[j]
          /\ j = i => \/ verdict'[j] = verdict[j] /\ sum = {}
                      \/ verdict'[j].on = sum
    BY DEF storeCompletion, CaseInv, CaseTypeOK
  <1>7. \A j \in Cases : j \in exact' => (j # i /\ j \in exact) \/ (j = i /\ hand[h].alone)
    BY DEF storeCompletion
  <1>8. \A j \in Cases : j \notin late' => (j # i /\ j \notin late) \/ (j = i /\ hand[h].alone)
    BY DEF storeCompletion
  <1>9. ASSUME NEW j \in Cases
        PROVE  /\ score'[j] \subseteq ResultsOf(j) /\ verdict'[j].on \subseteq ResultsOf(j)
               /\ j \in exact' => score'[j] = ResultsOf(j)
               /\ j \notin late' /\ verdict'[j].by = "score" => verdict'[j].on = ResultsOf(j)
    <2>1. CASE j # i
      BY <2>1, <1>5, <1>6, <1>7, <1>8 DEF CaseInv, ScoreInv
    <2>2. CASE j = i
      <3>1. score'[j] = sum /\ verdict[j].on \subseteq ResultsOf(j)
        BY <2>2, <1>5 DEF CaseInv, ScoreInv
      <3>2. CASE verdict'[j] = verdict[j] /\ sum = {}
        BY <2>2, <3>1, <3>2, <1>1, <1>7, <1>8
      <3>3. CASE verdict'[j].on = sum
        BY <2>2, <3>1, <3>3, <1>1, <1>7, <1>8
      <3> QED
        BY <2>2, <3>2, <3>3, <1>6
    <2> QED
      BY <2>1, <2>2
  <1>10. ScoreInv'
    BY <1>4, <1>9 DEF ScoreInv
  <1>11. CaseTypeOK'
    <2>1. score' \in [Cases -> SUBSET Results] /\ exact' \subseteq Cases /\ late' \subseteq Cases
      BY <1>1 DEF storeCompletion, CaseInv, CaseTypeOK
    <2>2. verdict' \in [Cases -> [by : {"none", "score", "given"}, on : SUBSET Results]]
      BY <1>1 DEF storeCompletion, CaseInv, CaseTypeOK
    <2> QED
      BY <1>1, <1>2, <1>3, <2>1, <2>2, SetInv DEF CaseInv, CaseTypeOK, Calls
  <1> QED
    BY <1>1, <1>2, <1>3, <1>10, <1>11, SetInv DEF CaseInv

(* A result comes in and the score is written.                             *)
LEMMA RecalculateInv ==
  ASSUME CaseInv, NEW h \in Hands, recalculateInspectionScore(h)
  PROVE  CaseInv'
  <1>1. /\ hand \in [Hands -> Calls] /\ \A u \in Hands : CallInv(u)
        /\ Empty \in Calls /\ found \in [Results -> Cases \cup {Unscored}]
    BY EmptyType DEF CaseInv, CaseTypeOK, Calls
  <1>2. PICK i \in Cases, own \in Results \cup {Unscored}, sum \in SUBSET Results :
             i = hand[h].of /\ own = hand[h].row /\ sum = hand[h].sum
    BY <1>1 DEF Calls, recalculateInspectionScore, CallInv
  <1>3. /\ hand[h].op = "add" /\ i \in Cases /\ sum \subseteq ResultsOf(i) \cup Own(h)
        /\ (hand[h].alone => sum = ResultsOf(i) \cup Own(h)) /\ sum \subseteq Results
        /\ hand' = [hand EXCEPT ![h] = Empty] /\ UNCHANGED <<files, verdict>>
        /\ found' = [r \in Results |-> IF r = own THEN i ELSE found[r]]
    BY <1>1, <1>2 DEF Calls, recalculateInspectionScore, CallInv
  <1>4. ResultsOf(i)' = ResultsOf(i) \cup Own(h)
    BY <1>3, <1>2 DEF ResultsOf, Own
  <1>5. ASSUME NEW j \in Cases, j # i PROVE ResultsOf(j)' = ResultsOf(j)
    <2>1. own \in Results => found[own] = Unscored /\ Unscored # j /\ own # Unscored
      BY <1>1, <1>2, CaseworkAssumption DEF CallInv
    <2> QED
      BY <1>3, <1>5, <2>1 DEF ResultsOf
  <1>6. hand'[h] = Empty /\ \A u \in Hands \ {h} : hand'[u] = hand[u]
    BY <1>1, <1>3
  <1>7. \A v \in Hands : /\ hand'[v].op # "idle" => v # h /\ hand'[v] = hand[v]
                         /\ hand'[v].row # Unscored => v # h /\ hand'[v] = hand[v]
    BY <1>6, EmptyFields
  <1>8. ASSUME NEW u \in Hands PROVE CallInv(u)'
    <2>1. CASE u = h
      <3>1. hand'[u] = Empty
        BY <1>6, <2>1
      <3>2. \A v \in Hands \ {u} : hand'[v].op # "idle" => hand'[v].of # Unscored
        BY <1>1, <1>7, CaseworkAssumption DEF CallInv
      <3> QED
        BY <3>1, <3>2, EmptyFields DEF CallInv
    <2>2. CASE u # h
      <3>1. hand'[u] = hand[u] /\ Own(u)' = Own(u) /\ CallInv(u)
        BY <1>1, <1>6, <2>2 DEF Own
      <3>2. hand'[u].alone => \A v \in Hands \ {u} : hand'[v].op # "idle" => hand'[v].of # hand'[u].of
        BY <3>1, <1>7 DEF CallInv
      <3>3. hand'[u].row # Unscored => \A v \in Hands \ {u} : hand'[v].row # hand'[u].row
        BY <3>1, <1>7 DEF CallInv
      <3>4. hand[u].row # Unscored => hand[u].row \in Results /\ hand[u].row # own
        BY <3>1, <1>1, <1>2, <2>2 DEF CallInv, Calls
      <3>5. hand'[u].row # Unscored => found'[hand'[u].row] = Unscored
        BY <3>1, <3>4, <1>3 DEF CallInv
      <3>6. /\ hand'[u].op = "idle" => hand'[u] = Empty
            /\ hand'[u].op # "idle" => hand'[u].of \in Cases
        BY <3>1 DEF CallInv
      <3>7. CASE hand[u].op \in {"idle", "insert"}
        BY <3>1, <3>2, <3>3, <3>5, <3>6, <3>7 DEF CallInv
      <3>8. CASE hand[u].op \in {"add", "complete"}
        <4>1. PICK o \in Cases : o = hand[u].of
          BY <3>1, <3>8 DEF CallInv
        <4>2. ResultsOf(o) \subseteq ResultsOf(o)'
          BY <1>4, <1>5
        <4>3. hand[u].alone => ResultsOf(o)' = ResultsOf(o)
          <5>1. hand[u].alone => o # i
            BY <3>1, <4>1, <1>3, <1>2, <2>2 DEF CallInv
          <5> QED
            BY <5>1, <1>5
        <4>4. ResultsOf(hand[u].of)' = ResultsOf(o)'
          BY <3>1, <4>1 DEF ResultsOf
        <4>5. hand[u].op = "add" =>
                 /\ hand[u].sum \subseteq ResultsOf(o)' \cup Own(u)
                 /\ hand[u].alone => hand[u].sum = ResultsOf(o)' \cup Own(u)
          BY <3>1, <4>1, <4>2, <4>3 DEF CallInv
        <4>6. hand[u].op = "complete" =>
                 /\ hand[u].row = Unscored
                 /\ hand[u].sum \subseteq ResultsOf(o)'
                 /\ hand[u].alone => hand[u].sum = ResultsOf(o)'
          BY <3>1, <4>1, <4>2, <4>3 DEF CallInv
        <4> QED
          BY <3>1, <3>2, <3>3, <3>5, <3>6, <4>4, <4>5, <4>6 DEF CallInv
      <3> QED
        BY <3>7, <3>8, <1>1 DEF Calls
    <2> QED
      BY <2>1, <2>2
  <1>9. \A j \in Cases :
          /\ verdict'[j] = verdict[j]
          /\ j # i => score'[j] = score[j]
          /\ j = i => score'[j] = IF sum = {} THEN score[j] ELSE sum
          /\ j \in exact' => (j # i /\ j \in exact) \/ (j = i /\ hand[h].alone)
          /\ j \notin late' => j # i /\ j \notin late
    BY <1>3, <1>2 DEF recalculateInspectionScore, CaseInv, CaseTypeOK
  <1>10. ASSUME NEW j \in Cases
        PROVE  /\ score'[j] \subseteq ResultsOf(j)' /\ verdict'[j].on \subseteq ResultsOf(j)'
               /\ j \in exact' => score'[j] = ResultsOf(j)'
               /\ j \notin late' /\ verdict'[j].by = "score" => verdict'[j].on = ResultsOf(j)'
    <2>1. CASE j # i
      BY <2>1, <1>5, <1>9 DEF CaseInv, ScoreInv
    <2>2. CASE j = i
      <3>1. score[j] \subseteq ResultsOf(j) /\ verdict[j].on \subseteq ResultsOf(j)
        BY DEF CaseInv, ScoreInv
      <3>2. /\ score'[j] = IF sum = {} THEN score[j] ELSE sum
            /\ ResultsOf(j)' = ResultsOf(j) \cup Own(h) /\ verdict'[j] = verdict[j]
        BY <2>2, <1>4, <1>9
      <3> QED
        BY <2>2, <3>1, <3>2, <1>3, <1>9
    <2> QED
      BY <2>1, <2>2
  <1>11. ScoreInv'
    BY <1>10 DEF ScoreInv
  <1>12. CaseTypeOK'
    <2>1. found' \in [Results -> Cases \cup {Unscored}] /\ hand' \in [Hands -> Calls]
      BY <1>1, <1>3
    <2>2. /\ score' \in [Cases -> SUBSET Results] /\ exact' \subseteq Cases /\ late' \subseteq Cases
          /\ verdict' \in [Cases -> [by : {"none", "score", "given"}, on : SUBSET Results]]
      BY <1>3, <1>2 DEF recalculateInspectionScore, CaseInv, CaseTypeOK
    <2> QED
      BY <1>3, <2>1, <2>2, FilesKept DEF CaseInv, CaseTypeOK, Calls
  <1> QED
    BY <1>3, <1>8, <1>11, <1>12, FilesKept DEF CaseInv

-----------------------------------------------------------------------------
(* Every step preserves the invariant.                                     *)
LEMMA NextInv ==
  ASSUME CaseInv, [CaseNext]_caseVars
  PROVE  CaseInv'
  <1>1. CASE \E i \in Cases, given \in {"open", "closed"} : FileStep(i, given)
    BY <1>1, FileInv
  <1>2. ASSUME NEW h \in Hands, NEW i \in Cases, NEW own \in Results \cup {Unscored}, addResult(h, i, own)
        PROVE  CaseInv'
    <2>1. [Empty EXCEPT !.op = "insert", !.row = own] \in Calls
      BY EmptyType DEF Calls, Empty
    <2>2. [Empty EXCEPT !.op = "insert", !.row = own].op = "insert"
      BY DEF Empty
    <2>3. [Empty EXCEPT !.op = "insert", !.row = own].row = own
      BY DEF Empty
    <2> QED
      BY <1>2, <2>1, <2>2, <2>3, EnterInv DEF addResult
  <1>3. ASSUME NEW h \in Hands, NEW i \in Cases, NEW given \in BOOLEAN, completeInspection(h, i, given)
        PROVE  CaseInv'
    <2> DEFINE call == [Empty EXCEPT !.op = "complete", !.sum = ResultsOf(i), !.given = given]
    <2>1. call \in Calls
      BY EmptyType DEF Calls, Empty, ResultsOf
    <2>2. call.op = "complete" /\ call.row = Unscored /\ call.sum = ResultsOf(i)
      BY DEF Empty
    <2> QED
      BY <1>3, <2>1, <2>2, EnterInv DEF completeInspection
  <1>4. CASE \E h \in Hands :
               insertResult(h) \/ recalculateInspectionScore(h) \/ storeCompletion(h) \/ callFails(h)
    BY <1>4, CalculateInv, RecalculateInv, CompletionInv, FailsInv
  <1>5. CASE UNCHANGED caseVars
    <2>1. CaseTypeOK'
      BY <1>5 DEF caseVars, files, marks, CaseInv, CaseTypeOK
    <2> QED
      BY <1>5, <2>1, MarksKept, FilesKept DEF caseVars, CaseInv
  <1> QED
    BY <1>1, <1>2, <1>3, <1>4, <1>5 DEF CaseNext

LEMMA CaseInvariant == CaseSpec => []CaseInv
  <1>1. CaseInit => CaseInv
    BY InitInv
  <1>2. CaseInv /\ [CaseNext]_caseVars => CaseInv'
    BY NextInv
  <1> QED
    BY <1>1, <1>2, PTL DEF CaseSpec

-----------------------------------------------------------------------------
(* The variables of Casework have the values they are meant to have.       *)
THEOREM CaseTypesHold == CaseSpec => []CaseTypeOK
  <1>1. CaseInv => CaseTypeOK
    BY DEF CaseInv
  <1> QED
    BY <1>1, CaseInvariant, PTL

(* addResult and completeInspection leave the average of all scored        *)
(* results, however many calls there were, unless two ran side by side.    *)
THEOREM ScoresExact == CaseSpec => []ScoreExactUnlessOverlap
  <1>1. CaseInv => ScoreExactUnlessOverlap
    BY DEF CaseInv, CaseTypeOK, ScoreInv, ScoreExactUnlessOverlap
  <1> QED
    BY <1>1, CaseInvariant, PTL

(* completeInspection's verdict is about the results there are, unless one *)
(* was added later or beside it.                                           *)
THEOREM VerdictsOnScore == CaseSpec => []VerdictOnScore
  <1>1. CaseInv => VerdictOnScore
    BY DEF CaseInv, ScoreInv, VerdictOnScore
  <1> QED
    BY <1>1, CaseInvariant, PTL

(* No case is closed without a time of closing but by a call that sets     *)
(* none: creating it, updateComplaint, updateInspection.                   *)
THEOREM ClosedIsStamped == CaseSpec => []ClosedUnstampedOnlyByEdit
  <1>1. CaseInv => ClosedUnstampedOnlyByEdit
    BY DEF CaseInv
  <1> QED
    BY <1>1, CaseInvariant, PTL

-----------------------------------------------------------------------------
-----------------------------------------------------------------------------
(***************************************************************************)
(* Conversations.  A call that has not been raced finds the conversation   *)
(* open and the participants it has read still all that there are.         *)
(***************************************************************************)
PostSound(p) ==
  post[p].stage # "idle" =>
    /\ post[p].talk \in Talks /\ post[p].author \in Users
    /\ p \notin raced => talk[post[p].talk] = "open"
    /\ p \notin raced /\ post[p].stage = "addressed" =>
         Participants(post[p].talk) \subseteq post[p].told

TalkInv == ConversationTypeOK /\ \A p \in Posts : PostSound(p)

(* The types, by the state they are of.                                    *)
PostRec == [stage : {"idle", "allowed", "addressed"}, talk : Talks \cup {Outside},
            author : Users \cup {Outside}, told : SUBSET Users]

LEMMA NoPostIsPost == NoPost \in PostRec /\ NoPost.stage = "idle"
  BY DEF NoPost, PostRec

LEMMA TalkInitially == ConversationInit => TalkInv
  <1> SUFFICES ASSUME ConversationInit
               PROVE  TalkInv
    OBVIOUS
  <1>1. Unwritten \in [talk : Talks \cup {Outside}, author : Users \cup {Outside},
                       state : {"none", "posted", "deleted"}] /\ Unwritten.state = "none"
    BY DEF Unwritten
  <1>2. ConversationTypeOK
    BY <1>1, NoPostIsPost DEF ConversationInit, ConversationTypeOK, PostRec
  <1>3. \A p \in Posts : PostSound(p)
    BY NoPostIsPost DEF ConversationInit, PostSound
  <1>4. QED
    BY <1>2, <1>3 DEF TalkInv

(* Steps about conversations and participants leave the calls that they    *)
(* do not race as they are.                                                *)
LEMMA TalkChanges ==
  ASSUME TalkInv, post' = post, message' = message, notice' = notice,
         talk' \in [Talks -> {"none", "open", "closed"}],
         room' \subseteq Talks \X (Users \cup {Outside}),
         \A k \in Talks, u \in Users \cup {Outside} : <<k, u>> \in room' => talk'[k] # "none",
         raced' \subseteq Posts, raced \subseteq raced',
         \A p \in Posts : post[p].stage # "idle" /\ p \notin raced' =>
           /\ talk[post[p].talk] = "open" => talk'[post[p].talk] = "open"
           /\ Participants(post[p].talk)' \subseteq Participants(post[p].talk)
  PROVE  TalkInv'
  <1>1. ConversationTypeOK'
    BY DEF TalkInv, ConversationTypeOK
  <1>2. \A p \in Posts : PostSound(p)'
    <2> TAKE p \in Posts
    <2>1. PostSound(p)
      BY DEF TalkInv
    <2>2. CASE post[p].stage = "idle"
      BY <2>2 DEF PostSound
    <2>3. CASE post[p].stage # "idle"
      <3>1. p \notin raced' => talk'[post[p].talk] = "open"
        BY <2>1, <2>3 DEF PostSound
      <3>2. p \notin raced' /\ post[p].stage = "addressed" =>
              Participants(post[p].talk)' \subseteq post[p].told
        BY <2>1, <2>3 DEF PostSound
      <3>3. QED
        BY <2>1, <2>3, <3>1, <3>2 DEF PostSound, Participants
    <2>4. QED
      BY <2>2, <2>3
  <1>3. QED
    BY <1>1, <1>2 DEF TalkInv

LEMMA CreateTalkKeeps ==
  ASSUME TalkInv, NEW u \in Users, NEW k \in Talks, NEW closed \in BOOLEAN,
         createConversation(u, k, closed)
  PROVE  TalkInv'
  <1>1. /\ talk' \in [Talks -> {"none", "open", "closed"}]
        /\ \A j \in Talks : talk[j] # "none" => talk'[j] = talk[j]
        /\ talk[k] = "none" /\ room' = room /\ raced' = raced
    BY DEF createConversation, TalkInv, ConversationTypeOK
  <1>2. \A j \in Talks, w \in Users \cup {Outside} : <<j, w>> \in room' => talk'[j] # "none"
    BY <1>1 DEF TalkInv, ConversationTypeOK
  <1>3. \A p \in Posts : post[p].stage # "idle" =>
          /\ talk[post[p].talk] = "open" => talk'[post[p].talk] = "open"
          /\ Participants(post[p].talk)' \subseteq Participants(post[p].talk)
    <2> SUFFICES ASSUME NEW p \in Posts, post[p].stage # "idle"
                 PROVE  /\ talk[post[p].talk] = "open" => talk'[post[p].talk] = "open"
                        /\ Participants(post[p].talk)' \subseteq Participants(post[p].talk)
      OBVIOUS
    <2>1. post[p].talk \in Talks
      BY DEF TalkInv, PostSound
    <2>2. talk[post[p].talk] = "open" => talk'[post[p].talk] = "open"
      BY <1>1, <2>1
    <2>3. QED
      BY <1>1, <2>2 DEF Participants, createConversation
  <1>4. raced' \subseteq Posts /\ room' \subseteq Talks \X (Users \cup {Outside})
    BY <1>1 DEF TalkInv, ConversationTypeOK
  <1>5. QED
    BY <1>1, <1>2, <1>3, <1>4, TalkChanges DEF createConversation

LEMMA UpdateTalkKeeps ==
  ASSUME TalkInv, NEW u \in Users, NEW k \in Talks, NEW closed \in BOOLEAN,
         updateConversation(u, k, closed)
  PROVE  TalkInv'
  <1>1. /\ talk' \in [Talks -> {"none", "open", "closed"}] /\ talk'[k] # "none"
        /\ \A j \in Talks \ {k} : talk'[j] = talk[j]
        /\ room' = room
    BY DEF updateConversation, TalkInv, ConversationTypeOK
  <1>2. \A j \in Talks, w \in Users \cup {Outside} : <<j, w>> \in room' => talk'[j] # "none"
    BY <1>1 DEF TalkInv, ConversationTypeOK
  <1>3. raced' = IF talk'[k] = "closed" THEN raced \cup At(k) ELSE raced
    BY DEF updateConversation
  <1>4. raced' \subseteq Posts /\ raced \subseteq raced'
    BY <1>3 DEF TalkInv, ConversationTypeOK, At
  <1>5. \A p \in Posts : post[p].stage # "idle" /\ p \notin raced' =>
          /\ talk[post[p].talk] = "open" => talk'[post[p].talk] = "open"
          /\ Participants(post[p].talk)' \subseteq Participants(post[p].talk)
    <2> SUFFICES ASSUME NEW p \in Posts, post[p].stage # "idle", p \notin raced'
                 PROVE  /\ talk[post[p].talk] = "open" => talk'[post[p].talk] = "open"
                        /\ Participants(post[p].talk)' \subseteq Participants(post[p].talk)
      OBVIOUS
    <2>1. post[p].talk \in Talks
      BY DEF TalkInv, PostSound
    <2>2. post[p].talk = k => talk'[k] = "open"
      BY <1>1, <1>3 DEF At
    <2>3. talk[post[p].talk] = "open" => talk'[post[p].talk] = "open"
      BY <1>1, <2>1, <2>2
    <2>4. QED
      BY <1>1, <2>3 DEF Participants, updateConversation
  <1>6. QED
    BY <1>1, <1>2, <1>4, <1>5, TalkChanges DEF updateConversation, TalkInv, ConversationTypeOK

LEMMA AddParticipantKeeps ==
  ASSUME TalkInv, NEW u \in Users, NEW k \in Talks, NEW who \in Users \cup {Outside},
         addParticipant(u, k, who)
  PROVE  TalkInv'
  <1>1. talk' = talk /\ room' = room \cup {<<k, who>>} /\ talk[k] # "none" /\ post' = post
    BY DEF addParticipant
  <1>2. raced' = IF who \in Users THEN raced \cup At(k) ELSE raced
    BY DEF addParticipant
  <1>3. raced' \subseteq Posts /\ raced \subseteq raced'
    BY <1>2 DEF TalkInv, ConversationTypeOK, At
  <1>4. room' \subseteq Talks \X (Users \cup {Outside})
    BY <1>1 DEF TalkInv, ConversationTypeOK
  <1>5. \A j \in Talks, w \in Users \cup {Outside} : <<j, w>> \in room' => talk'[j] # "none"
    BY <1>1 DEF TalkInv, ConversationTypeOK
  <1>6. \A p \in Posts : post[p].stage # "idle" /\ p \notin raced' =>
          Participants(post[p].talk)' \subseteq Participants(post[p].talk)
    BY <1>1, <1>2, ConversationsAssumption DEF Participants, At
  <1>7. QED
    BY <1>1, <1>3, <1>4, <1>5, <1>6, TalkChanges
      DEF addParticipant, TalkInv, ConversationTypeOK

(* One call moves to rec, and is raced no more if it ends.                 *)
LEMMA PostMoves ==
  ASSUME TalkInv, NEW p \in Posts, NEW rec \in PostRec, post' = [post EXCEPT ![p] = rec],
         UNCHANGED <<talk, room>>,
         rec.stage # "idle" =>
           /\ raced' = raced
           /\ rec.talk \in Talks /\ rec.author \in Users
           /\ p \notin raced => talk[rec.talk] = "open"
           /\ p \notin raced /\ rec.stage = "addressed" => Participants(rec.talk) \subseteq rec.told,
         rec.stage = "idle" => raced' = raced \ {p}
  PROVE  /\ \A q \in Posts : PostSound(q)'
         /\ post' \in [Posts -> PostRec] /\ raced' \subseteq Posts
  <1>1. post \in [Posts -> PostRec] /\ raced \subseteq Posts
    BY DEF TalkInv, ConversationTypeOK, PostRec
  <1>2. \A q \in Posts : post'[q] = IF q = p THEN rec ELSE post[q]
    BY <1>1
  <1>3. raced' \subseteq Posts /\ \A q \in Posts \ {p} : q \in raced' <=> q \in raced
    BY <1>1
  <1>4. PostSound(p)'
    BY <1>2 DEF PostSound, Participants
  <1>5. \A q \in Posts \ {p} : PostSound(q)'
    <2> TAKE q \in Posts \ {p}
    <2>1. PostSound(q) /\ post'[q] = post[q]
      BY <1>2 DEF TalkInv
    <2>2. QED
      BY <1>3, <2>1 DEF PostSound, Participants
  <1>6. QED
    BY <1>1, <1>3, <1>4, <1>5

LEMMA AddMessageKeeps ==
  ASSUME TalkInv, NEW p \in Posts, NEW u \in Users, NEW k \in Talks, addMessage(p, u, k)
  PROVE  TalkInv'
  <1>1. PICK rec : rec = [NoPost EXCEPT !.stage = "allowed", !.talk = k, !.author = u]
    OBVIOUS
  <1>2. /\ rec \in PostRec /\ rec.stage = "allowed" /\ rec.talk = k /\ rec.author = u
    BY <1>1 DEF NoPost, PostRec
  <1>3. post' = [post EXCEPT ![p] = rec] /\ talk[k] = "open"
    BY <1>1 DEF addMessage
  <1>4. /\ \A q \in Posts : PostSound(q)'
        /\ post' \in [Posts -> PostRec] /\ raced' \subseteq Posts
    BY <1>2, <1>3, PostMoves DEF addMessage
  <1>5. QED
    BY <1>4 DEF TalkInv, ConversationTypeOK, PostRec, addMessage

LEMMA AddressKeeps ==
  ASSUME TalkInv, NEW p \in Posts, buildMessageNotifications(p)
  PROVE  TalkInv'
  <1>1. PICK j \in PostRec : j = post[p]
    BY DEF TalkInv, ConversationTypeOK, PostRec
  <1>2. j.stage = "allowed"
    BY <1>1 DEF buildMessageNotifications
  <1>3. j.talk \in Talks /\ j.author \in Users /\ (p \notin raced => talk[j.talk] = "open")
    BY <1>1, <1>2 DEF TalkInv, PostSound
  <1>4. PICK told \in SUBSET Users : told = Participants(j.talk)
    BY DEF Participants
  <1>5. PICK rec : rec = [j EXCEPT !.stage = "addressed", !.told = told]
    OBVIOUS
  <1>6. /\ rec \in PostRec /\ rec.stage = "addressed" /\ rec.talk = j.talk
        /\ rec.author = j.author /\ rec.told = told
    BY <1>5 DEF PostRec
  <1>7. post' = [post EXCEPT ![p] = rec]
    BY <1>1, <1>4, <1>5 DEF buildMessageNotifications, TalkInv, ConversationTypeOK
  <1>8. Participants(rec.talk) \subseteq rec.told
    BY <1>4, <1>6 DEF Participants
  <1>9. /\ \A q \in Posts : PostSound(q)'
        /\ post' \in [Posts -> PostRec] /\ raced' \subseteq Posts
    BY <1>3, <1>6, <1>7, <1>8, PostMoves DEF buildMessageNotifications
  <1>10. QED
    BY <1>9 DEF TalkInv, ConversationTypeOK, PostRec, buildMessageNotifications

LEMMA PostFailsKeeps ==
  ASSUME TalkInv, NEW p \in Posts, postFails(p)
  PROVE  TalkInv'
  <1>1. /\ \A q \in Posts : PostSound(q)'
        /\ post' \in [Posts -> PostRec] /\ raced' \subseteq Posts
    BY NoPostIsPost, PostMoves DEF postFails
  <1>2. QED
    BY <1>1 DEF TalkInv, ConversationTypeOK, PostRec, postFails

(* The message is stored, with the notices of those who were read.         *)
LEMMA CommitMessageKeeps ==
  ASSUME TalkInv, NEW p \in Posts, NEW m \in Messages, commitMessage(p, m)
  PROVE  TalkInv'
  <1>1. PICK j \in PostRec : j = post[p]
    BY DEF TalkInv, ConversationTypeOK, PostRec
  <1>2. j.stage = "addressed" /\ j.talk \in Talks /\ j.author \in Users
    BY <1>1 DEF commitMessage, TalkInv, PostSound
  <1>3. /\ \A q \in Posts : PostSound(q)'
        /\ post' \in [Posts -> PostRec] /\ raced' \subseteq Posts
    BY NoPostIsPost, PostMoves DEF commitMessage
  <1>4. message' = [message EXCEPT ![m] = [talk |-> j.talk, author |-> j.author, state |-> "posted"]]
    BY <1>1 DEF commitMessage
  <1>5. message' \in [Messages -> [talk : Talks \cup {Outside}, author : Users \cup {Outside},
                                   state : {"none", "posted", "deleted"}]]
    BY <1>2, <1>4 DEF TalkInv, ConversationTypeOK
  <1>6. notice' = [n \in Messages \X Users |->
          IF n[1] = m /\ n[2] \in j.told THEN "UNREAD" ELSE notice[n]]
    BY <1>1 DEF commitMessage
  <1>7. notice' \in [Messages \X Users -> {"none", "UNREAD", "READ"}]
    BY <1>6 DEF TalkInv, ConversationTypeOK
  <1>8. \A n \in Messages :
          /\ message'[n].state # "none" => message'[n].talk \in Talks
          /\ message'[n].state = "none" => \A u \in Users : notice'[<<n, u>>] = "none"
    <2> TAKE n \in Messages
    <2>1. CASE n = m
      BY <1>2, <1>4, <2>1 DEF TalkInv, ConversationTypeOK
    <2>2. CASE n # m
      <3>1. message'[n] = message[n]
        BY <1>4, <2>2 DEF TalkInv, ConversationTypeOK
      <3>2. \A u \in Users : notice'[<<n, u>>] = notice[<<n, u>>]
        BY <1>6, <2>2
      <3>3. QED
        BY <3>1, <3>2 DEF TalkInv, ConversationTypeOK
    <2>3. QED
      BY <2>1, <2>2
  <1>9. QED
    BY <1>3, <1>5, <1>7, <1>8 DEF TalkInv, ConversationTypeOK, PostRec, commitMessage

(* Steps about messages and notices alone.                                 *)
LEMMA NoticesKeep ==
  ASSUME TalkInv, UNCHANGED <<talk, room, post, raced>>,
         message' \in [Messages -> [talk : Talks \cup {Outside}, author : Users \cup {Outside},
                                    state : {"none", "posted", "deleted"}]],
         notice' \in [Messages \X Users -> {"none", "UNREAD", "READ"}],
         \A m \in Messages :
           /\ message'[m].talk = message[m].talk
           /\ message'[m].state = "none" <=> message[m].state = "none"
           /\ \A u \in Users : notice[<<m, u>>] = "none" => notice'[<<m, u>>] = "none"
  PROVE  TalkInv'
  <1>1. \A m \in Messages :
          /\ message'[m].state # "none" => message'[m].talk \in Talks
          /\ message'[m].state = "none" => \A u \in Users : notice'[<<m, u>>] = "none"
    BY DEF TalkInv, ConversationTypeOK
  <1>2. ConversationTypeOK'
    BY <1>1 DEF TalkInv, ConversationTypeOK
  <1>3. \A p \in Posts : PostSound(p)'
    BY DEF TalkInv, PostSound, Participants
  <1>4. QED
    BY <1>2, <1>3 DEF TalkInv

LEMMA DeleteMessageKeeps ==
  ASSUME TalkInv, NEW u \in Users, NEW m \in Messages, deleteMessage(u, m)
  PROVE  TalkInv'
  <1>1. message' \in [Messages -> [talk : Talks \cup {Outside}, author : Users \cup {Outside},
                                   state : {"none", "posted", "deleted"}]]
    BY DEF deleteMessage, TalkInv, ConversationTypeOK
  <1>2. \A n \in Messages : /\ message'[n].talk = message[n].talk
                            /\ message'[n].state = "none" <=> message[n].state = "none"
    BY DEF deleteMessage, TalkInv, ConversationTypeOK
  <1>3. notice' \in [Messages \X Users -> {"none", "UNREAD", "READ"}] /\ notice' = notice
    BY DEF deleteMessage, TalkInv, ConversationTypeOK
  <1>4. QED
    BY <1>1, <1>2, <1>3, NoticesKeep DEF deleteMessage

LEMMA ReadKeeps ==
  ASSUME TalkInv, NEW u \in Users,
         readAllNotifications(u) \/ \E m \in Messages : readNotification(u, m)
  PROVE  TalkInv'
  <1>1. notice' \in [Messages \X Users -> {"none", "UNREAD", "READ"}]
    BY DEF readAllNotifications, readNotification, TalkInv, ConversationTypeOK
  <1>2. \A m \in Messages, w \in Users : notice[<<m, w>>] = "none" => notice'[<<m, w>>] = "none"
    BY DEF readAllNotifications, readNotification, TalkInv, ConversationTypeOK
  <1>3. UNCHANGED <<talk, room, post, raced>> /\ message' = message
    BY DEF readAllNotifications, readNotification
  <1>4. QED
    BY <1>1, <1>2, <1>3, NoticesKeep DEF TalkInv, ConversationTypeOK

LEMMA TalkStep == TalkInv /\ [ConversationNext]_conversationVars => TalkInv'
  <1> SUFFICES ASSUME TalkInv, [ConversationNext]_conversationVars
               PROVE  TalkInv'
    OBVIOUS
  <1>1. CASE \E u \in Users, k \in Talks, closed \in BOOLEAN :
               createConversation(u, k, closed) \/ updateConversation(u, k, closed)
    BY <1>1, CreateTalkKeeps, UpdateTalkKeeps
  <1>2. CASE \E u \in Users, k \in Talks, who \in Users \cup {Outside} : addParticipant(u, k, who)
    BY <1>2, AddParticipantKeeps
  <1>3. CASE \E u \in Users, k \in Talks, p \in Posts : addMessage(p, u, k)
    BY <1>3, AddMessageKeeps
  <1>4. CASE \E p \in Posts : buildMessageNotifications(p) \/ postFails(p)
    BY <1>4, AddressKeeps, PostFailsKeeps
  <1>5. CASE \E p \in Posts, m \in Messages : commitMessage(p, m)
    BY <1>5, CommitMessageKeeps
  <1>6. CASE \E u \in Users, m \in Messages : deleteMessage(u, m) \/ readNotification(u, m)
    BY <1>6, DeleteMessageKeeps, ReadKeeps
  <1>7. CASE \E u \in Users : readAllNotifications(u)
    BY <1>7, ReadKeeps
  <1>8. CASE UNCHANGED conversationVars
    BY <1>8, NoticesKeep DEF conversationVars, TalkInv, ConversationTypeOK
  <1>9. QED
    BY <1>1, <1>2, <1>3, <1>4, <1>5, <1>6, <1>7, <1>8 DEF ConversationNext

LEMMA TalkAlways == ConversationSpec => []TalkInv
BY TalkInitially, TalkStep, PTL DEF ConversationSpec

(* Only a commit makes a message appear, and then of an open conversation, *)
(* to all who are in it, or of a call that was raced.                      *)
LEMMA PostReaches ==
  ASSUME TalkInv, [ConversationNext]_conversationVars, NEW m \in Messages, Appears(m)
  PROVE  LET k == message'[m].talk
             behind == At(k) \cap raced IN
         \/ talk[k] = "open" /\ \A u \in Participants(k) : notice'[<<m, u>>] = "UNREAD"
         \/ \E p \in behind : post'[p] = NoPost
  <1>1. message[m].state = "none" /\ message'[m].state = "posted"
    BY DEF Appears
  <1>2. message' # message
    BY <1>1
  <1>3. ~ \E u \in Users, n \in Messages : deleteMessage(u, n)
    <2> SUFFICES ASSUME NEW u \in Users, NEW n \in Messages, deleteMessage(u, n)
                 PROVE  FALSE
      OBVIOUS
    <2>1. n # m
      BY <1>1 DEF deleteMessage
    <2>2. message'[m] = message[m]
      BY <2>1 DEF deleteMessage, TalkInv, ConversationTypeOK
    <2>3. QED
      BY <1>1, <2>2
  <1>4. PICK p \in Posts, n \in Messages : commitMessage(p, n)
    BY <1>2, <1>3 DEF ConversationNext, conversationVars, createConversation, updateConversation,
      addParticipant, addMessage, buildMessageNotifications, postFails, readNotification,
      readAllNotifications
  <1>5. PICK j \in PostRec : j = post[p]
    BY DEF TalkInv, ConversationTypeOK, PostRec
  <1>6. /\ j.stage = "addressed" /\ j.talk \in Talks
        /\ p \notin raced => talk[j.talk] = "open" /\ Participants(j.talk) \subseteq j.told
    BY <1>4, <1>5 DEF commitMessage, TalkInv, PostSound
  <1>7. m = n
    BY <1>1, <1>4 DEF commitMessage, TalkInv, ConversationTypeOK
  <1>8. message'[m].talk = j.talk
    BY <1>4, <1>5, <1>7 DEF commitMessage, TalkInv, ConversationTypeOK
  <1>9. \A u \in j.told : notice'[<<m, u>>] = "UNREAD"
    BY <1>4, <1>5, <1>7 DEF commitMessage, PostRec
  <1>10. post'[p] = NoPost /\ p \in At(j.talk)
    BY <1>4, <1>5, <1>6 DEF commitMessage, At, TalkInv, ConversationTypeOK
  <1>11. CASE p \in raced
    BY <1>8, <1>10, <1>11
  <1>12. CASE p \notin raced
    BY <1>6, <1>8, <1>9, <1>12
  <1>13. QED
    BY <1>11, <1>12

(* Conversations, messages, notices and calls are well typed.              *)
THEOREM ConversationTypesHold == ConversationSpec => []ConversationTypeOK
  <1>1. TalkInv => ConversationTypeOK
    BY DEF TalkInv
  <1>2. QED
    BY <1>1, TalkAlways, PTL

(* A message comes into an open conversation and everyone in it is told,   *)
(* unless the conversation was closed or joined while it was on its way.   *)
THEOREM RoomIsReached == ConversationSpec => PostsReachTheRoom
  <1>1. TalkInv /\ [ConversationNext]_conversationVars =>
          [\A m \in Messages : Appears(m) =>
             LET k == message'[m].talk
                 behind == At(k) \cap raced IN
             \/ talk[k] = "open" /\ \A u \in Participants(k) : notice'[<<m, u>>] = "UNREAD"
             \/ \E p \in behind : post'[p] = NoPost]_conversationVars
    BY PostReaches
  <1>2. QED
    BY <1>1, TalkAlways, PTL DEF ConversationSpec, PostsReachTheRoom

-----------------------------------------------------------------------------
-----------------------------------------------------------------------------
(***************************************************************************)
(* Public bookings.  An order that is not rewritten has a contact, and the *)
(* contact has the details the booking was made with.                      *)
(***************************************************************************)
CustomerRec == {NoCustomer} \cup [is : {"live", "archived"}, has : Details]
ContactRec  == {NoContact} \cup [of : Customers, has : Details]
OrderRec    == [contact : Contacts \cup {None}, made : Details \cup {None}]
VisitorRec  ==
  [stage : {"away", "customer", "contact", "numbered"},
   gave : Details \cup {None}, customer : Customers \cup {None},
   contact : Contacts \cup {None}, number : 0..MaxOrder, lost : BOOLEAN]

(* A booking under way refers to rows that are there.                      *)
VisitorSound(rec) ==
  /\ rec.stage # "away" => rec.gave \in Details
  /\ rec.customer # None => customer[rec.customer] # NoCustomer
  /\ rec.contact # None => contact[rec.contact] # NoContact
  /\ rec.stage = "numbered" => rec.number \in Orders

MadeAsHad ==
  /\ \A o \in Orders : order[o].contact # None => order[o].made # None
  /\ \A o \in Taken \ rewritten :
       order[o].contact # None /\ contact[order[o].contact].has = order[o].made

BookInv ==
  /\ BookingTypeOK
  /\ \A v \in Visitors : VisitorSound(visitor[v])
  /\ MadeAsHad

LEMMA NoRows ==
  /\ None \notin Details /\ None \notin Customers /\ None \notin Contacts
  /\ NoCustomer.is = "none" /\ NoContact.of = None /\ NoOrder.contact = None /\ NoOrder.made = None
  /\ NoCustomer \in CustomerRec /\ NoContact \in ContactRec /\ NoOrder \in OrderRec
  BY BookingsAssumption DEF NoCustomer, NoContact, NoOrder, CustomerRec, ContactRec, OrderRec

LEMMA AwayIsSound ==
  /\ Away \in VisitorRec /\ VisitorSound(Away)
  <1>1. MaxOrder \in Nat \ {0}
    BY BookingsAssumption
  <1>2. Away \in VisitorRec
    BY <1>1 DEF Away, VisitorRec
  <1>3. QED
    BY <1>2 DEF Away, VisitorSound

LEMMA BookInitially == BookingInit => BookInv
  <1> SUFFICES ASSUME BookingInit
               PROVE  BookInv
    OBVIOUS
  <1>1. Taken = {}
    BY NoRows DEF BookingInit, Taken
  <1>2. BookingTypeOK
    BY <1>1, NoRows, AwayIsSound
      DEF BookingInit, BookingTypeOK, CustomerRec, ContactRec, OrderRec, VisitorRec
  <1>3. \A v \in Visitors : VisitorSound(visitor[v])
    <2> TAKE v \in Visitors
    <2>1. visitor[v] = Away
      BY DEF BookingInit
    <2>2. QED
      BY <2>1, AwayIsSound DEF VisitorSound
  <1>4. QED
    BY <1>1, <1>2, <1>3, NoRows DEF BookInv, MadeAsHad, BookingInit

(* One booking moves on to rec and stores nothing.                         *)
LEMMA VisitorMoves ==
  ASSUME BookInv, UNCHANGED <<customer, contact, order, rewritten>>, NEW v \in Visitors,
         NEW rec \in VisitorRec, VisitorSound(rec), visitor' = [visitor EXCEPT ![v] = rec]
  PROVE  BookInv'
  <1>1. visitor \in [Visitors -> VisitorRec]
    BY DEF BookInv, BookingTypeOK, VisitorRec
  <1>2. visitor' \in [Visitors -> VisitorRec]
    BY <1>1
  <1>3. BookingTypeOK'
    BY <1>2 DEF BookInv, BookingTypeOK, VisitorRec, Taken
  <1>4. \A w \in Visitors : VisitorSound(visitor[w])'
    <2> TAKE w \in Visitors
    <2>1. PICK j : j = visitor'[w]
      OBVIOUS
    <2>2. VisitorSound(j)
      BY <1>1, <2>1 DEF BookInv
    <2>3. VisitorSound(j)'
      BY <2>2 DEF VisitorSound
    <2>4. QED
      BY <2>1, <2>3 DEF VisitorSound
  <1>5. MadeAsHad'
    BY DEF BookInv, MadeAsHad, Taken
  <1>6. QED
    BY <1>3, <1>4, <1>5 DEF BookInv

LEMMA FindCustomerKeeps ==
  ASSUME BookInv, NEW v \in Visitors, NEW d \in Details, NEW g \in Customers \cup {None},
         findOrCreateCustomer(v, d, g)
  PROVE  BookInv'
  <1>1. g # None => customer[g].is = "live"
    BY DEF findOrCreateCustomer
  <1>2. PICK rec : rec = [Away EXCEPT !.stage = "customer", !.gave = d, !.customer = g]
    OBVIOUS
  <1>3. /\ rec \in VisitorRec /\ rec.stage = "customer" /\ rec.gave = d
        /\ rec.customer = g /\ rec.contact = None
    BY <1>2, AwayIsSound DEF Away, VisitorRec
  <1>4. VisitorSound(rec)
    BY <1>1, <1>3, NoRows DEF VisitorSound
  <1>5. QED
    BY <1>2, <1>3, <1>4, VisitorMoves DEF findOrCreateCustomer

LEMMA FindContactKeeps ==
  ASSUME BookInv, NEW v \in Visitors, NEW x \in Contacts \cup {None}, findOrCreateContact(v, x)
  PROVE  BookInv'
  <1>1. PICK j \in VisitorRec : j = visitor[v]
    BY DEF BookInv, BookingTypeOK, VisitorRec
  <1>2. VisitorSound(j) /\ j.stage = "customer"
    BY <1>1 DEF BookInv, findOrCreateContact
  <1>3. x # None => contact[x] # NoContact
    BY DEF findOrCreateContact
  <1>4. PICK rec : rec = [j EXCEPT !.stage = "contact", !.contact = x]
    OBVIOUS
  <1>5. /\ rec \in VisitorRec /\ rec.stage = "contact" /\ rec.gave = j.gave
        /\ rec.customer = j.customer /\ rec.contact = x
    BY <1>4 DEF VisitorRec
  <1>6. VisitorSound(rec)
    BY <1>2, <1>3, <1>5 DEF VisitorSound
  <1>7. visitor' = [visitor EXCEPT ![v] = rec]
    BY <1>1, <1>4 DEF findOrCreateContact, BookInv, BookingTypeOK
  <1>8. QED
    BY <1>5, <1>6, <1>7, VisitorMoves DEF findOrCreateContact

(* The number after those taken is one of the month's.                     *)
LEMMA NextNumber ==
  ASSUME Cardinality(Taken) < MaxOrder
  PROVE  Cardinality(Taken) + 1 \in Orders
  <1>1. MaxOrder \in Nat
    BY BookingsAssumption
  <1>2. IsFiniteSet(1..MaxOrder)
    BY <1>1, FS_Interval
  <1>3. Taken \subseteq 1..MaxOrder
    BY DEF Taken, Orders
  <1>4. Cardinality(Taken) \in Nat
    BY <1>2, <1>3, FS_Subset, FS_CardinalityType
  <1>5. QED
    BY <1>1, <1>4 DEF Orders

LEMMA NumberKeeps ==
  ASSUME BookInv, NEW v \in Visitors, generateOrderNumber(v)
  PROVE  BookInv'
  <1>1. PICK j \in VisitorRec : j = visitor[v]
    BY DEF BookInv, BookingTypeOK, VisitorRec
  <1>2. VisitorSound(j) /\ j.stage = "contact"
    BY <1>1 DEF BookInv, generateOrderNumber
  <1>3. PICK n \in Orders : n = Cardinality(Taken) + 1
    BY NextNumber DEF generateOrderNumber
  <1>4. PICK rec : rec = [j EXCEPT !.stage = "numbered", !.number = n]
    OBVIOUS
  <1>5. n \in 0..MaxOrder
    BY BookingsAssumption DEF Orders
  <1>6. /\ rec \in VisitorRec /\ rec.stage = "numbered" /\ rec.gave = j.gave
        /\ rec.customer = j.customer /\ rec.contact = j.contact /\ rec.number = n
    BY <1>4, <1>5 DEF VisitorRec
  <1>7. VisitorSound(rec)
    BY <1>2, <1>6 DEF VisitorSound
  <1>8. visitor' = [visitor EXCEPT ![v] = rec]
    BY <1>1, <1>3, <1>4 DEF generateOrderNumber, BookInv, BookingTypeOK
  <1>9. QED
    BY <1>6, <1>7, <1>8, VisitorMoves DEF generateOrderNumber

LEMMA BookingFailsKeeps ==
  ASSUME BookInv, NEW v \in Visitors, createFails(v)
  PROVE  BookInv'
BY AwayIsSound, VisitorMoves DEF createFails

-----------------------------------------------------------------------------
(* Rows of customers, contacts and orders are stored.  What is stored is   *)
(* of its type, no customer goes, a contact that goes is let go of by the  *)
(* calls, and orders that are not rewritten keep their contacts' details.  *)
LEMMA RowsStored ==
  ASSUME BookInv,
         customer' \in [Customers -> CustomerRec], contact' \in [Contacts -> ContactRec],
         order' \in [Orders -> OrderRec], visitor' \in [Visitors -> VisitorRec],
         rewritten' \subseteq Taken',
         \A g \in Customers : customer[g] # NoCustomer => customer'[g] # NoCustomer,
         \A x \in Contacts : contact'[x] # NoContact => customer'[contact'[x].of] # NoCustomer,
         \A o \in Orders : order'[o].contact # None =>
           order'[o].made # None /\ contact'[order'[o].contact] # NoContact,
         \A v \in Visitors :
           /\ visitor'[v].stage # "away" =>
                /\ visitor'[v].stage = visitor[v].stage /\ visitor'[v].gave = visitor[v].gave
                /\ visitor'[v].number = visitor[v].number
           /\ visitor'[v].customer \in {visitor[v].customer, None}
           /\ visitor'[v].contact # None => contact'[visitor'[v].contact] # NoContact,
         \A o \in Taken' \ rewritten' :
           order'[o].contact # None /\ contact'[order'[o].contact].has = order'[o].made
  PROVE  BookInv'
  <1>1. BookingTypeOK'
    BY DEF BookingTypeOK, CustomerRec, ContactRec, OrderRec, VisitorRec
  <1>2. \A v \in Visitors : VisitorSound(visitor[v])'
    <2> TAKE v \in Visitors
    <2>1. VisitorSound(visitor[v]) /\ visitor[v].customer \in Customers \cup {None}
      BY DEF BookInv, BookingTypeOK
    <2>2. QED
      BY <2>1 DEF VisitorSound
  <1>3. MadeAsHad'
    BY DEF MadeAsHad
  <1>4. QED
    BY <1>1, <1>2, <1>3 DEF BookInv

-----------------------------------------------------------------------------
(* What the invariant says of the rows that a step leaves alone.           *)
LEMMA RowsAsTheyAre ==
  ASSUME BookInv
  PROVE  /\ customer \in [Customers -> CustomerRec] /\ contact \in [Contacts -> ContactRec]
         /\ order \in [Orders -> OrderRec] /\ visitor \in [Visitors -> VisitorRec]
         /\ rewritten \subseteq Taken
         /\ \A x \in Contacts : contact[x] # NoContact => customer[contact[x].of] # NoCustomer
         /\ \A o \in Orders : order[o].contact # None =>
              order[o].made # None /\ contact[order[o].contact] # NoContact
         /\ \A v \in Visitors : visitor[v].contact # None => contact[visitor[v].contact] # NoContact
         /\ \A o \in Taken \ rewritten :
              order[o].contact # None /\ contact[order[o].contact].has = order[o].made
  BY DEF BookInv, BookingTypeOK, VisitorSound, MadeAsHad, CustomerRec, ContactRec, OrderRec, VisitorRec

(* A contact that is there is a record of its customer and its details.    *)
LEMMA ContactThere ==
  ASSUME NEW r \in ContactRec, r # NoContact
  PROVE  r.of \in Customers /\ r.has \in Details
BY DEF ContactRec

LEMMA CustomerThere ==
  ASSUME NEW r \in CustomerRec
  PROVE  /\ r # NoCustomer => r.is \in {"live", "archived"} /\ r.has \in Details
         /\ r.is = "none" => r = NoCustomer
         /\ r.is # "none" => r # NoCustomer
BY NoRows DEF CustomerRec

(* The office writes one customer.                                         *)
LEMMA CustomerWritten ==
  ASSUME BookInv, NEW g \in Customers, NEW rec \in CustomerRec, rec # NoCustomer,
         customer' = [customer EXCEPT ![g] = rec],
         UNCHANGED <<contact, order, visitor, rewritten>>
  PROVE  BookInv'
  <1>1. /\ customer' \in [Customers -> CustomerRec]
        /\ \A h \in Customers : customer[h] # NoCustomer => customer'[h] # NoCustomer
    BY RowsAsTheyAre
  <1>2. \A x \in Contacts : contact[x] # NoContact => customer'[contact[x].of] # NoCustomer
    BY <1>1, RowsAsTheyAre, ContactThere
  <1>3. Taken' = Taken
    BY DEF Taken
  <1>4. QED
    BY <1>1, <1>2, <1>3, RowsAsTheyAre, RowsStored

LEMMA OfficeCreatesKeeps ==
  ASSUME BookInv, NEW g \in Customers, NEW d \in Details, officeCreates(g, d)
  PROVE  BookInv'
  <1>1. PICK rec : rec = [is |-> "live", has |-> d]
    OBVIOUS
  <1>2. rec \in CustomerRec /\ rec # NoCustomer
    BY <1>1 DEF CustomerRec, NoCustomer
  <1>3. QED
    BY <1>1, <1>2, CustomerWritten DEF officeCreates

LEMMA OfficeUpdatesKeeps ==
  ASSUME BookInv, NEW g \in Customers, NEW d \in Details, officeUpdates(g, d)
  PROVE  BookInv'
  <1>1. PICK j \in CustomerRec : j = customer[g] /\ j # NoCustomer
    BY RowsAsTheyAre DEF officeUpdates
  <1>2. PICK rec : rec = [j EXCEPT !.has = d]
    OBVIOUS
  <1>3. rec \in CustomerRec /\ rec # NoCustomer
    BY <1>1, <1>2 DEF CustomerRec, NoCustomer
  <1>4. customer' = [customer EXCEPT ![g] = rec]
    BY <1>1, <1>2, RowsAsTheyAre DEF officeUpdates
  <1>5. QED
    BY <1>3, <1>4, CustomerWritten DEF officeUpdates

LEMMA OfficeArchivesKeeps ==
  ASSUME BookInv, NEW g \in Customers, officeArchives(g)
  PROVE  BookInv'
  <1>1. PICK j \in CustomerRec : j = customer[g] /\ j # NoCustomer
    BY RowsAsTheyAre DEF officeArchives
  <1>2. PICK rec : rec = [j EXCEPT !.is = "archived"]
    OBVIOUS
  <1>3. rec \in CustomerRec /\ rec # NoCustomer
    BY <1>1, <1>2 DEF CustomerRec, NoCustomer
  <1>4. customer' = [customer EXCEPT ![g] = rec]
    BY <1>1, <1>2, RowsAsTheyAre DEF officeArchives
  <1>5. QED
    BY <1>3, <1>4, CustomerWritten DEF officeArchives

(* The office writes one contact: the orders that have it are rewritten.   *)
LEMMA ContactWritten ==
  ASSUME BookInv, NEW x \in Contacts, NEW rec \in ContactRec, rec # NoContact,
         customer[rec.of] # NoCustomer, contact' = [contact EXCEPT ![x] = rec],
         Of(x) \subseteq rewritten', rewritten \subseteq rewritten', rewritten' \subseteq Taken,
         UNCHANGED <<customer, order, visitor>>
  PROVE  BookInv'
  <1>1. /\ contact' \in [Contacts -> ContactRec]
        /\ \A y \in Contacts : contact'[y] = IF y = x THEN rec ELSE contact[y]
    BY RowsAsTheyAre
  <1>2. \A y \in Contacts : contact'[y] # NoContact => customer'[contact'[y].of] # NoCustomer
    BY <1>1, RowsAsTheyAre
  <1>3. Taken' = Taken
    BY DEF Taken
  <1>4. \A o \in Orders : order[o].contact \in Contacts \cup {None}
    BY RowsAsTheyAre DEF OrderRec
  <1>5. \A o \in Orders : order[o].contact # None =>
          order[o].made # None /\ contact'[order[o].contact] # NoContact
    BY <1>1, <1>4, RowsAsTheyAre
  <1>6. \A v \in Visitors : visitor[v].contact \in Contacts \cup {None}
    BY RowsAsTheyAre DEF VisitorRec
  <1>7. \A v \in Visitors : visitor[v].contact # None => contact'[visitor[v].contact] # NoContact
    BY <1>1, <1>6, RowsAsTheyAre
  <1>8. \A o \in Taken \ rewritten' :
          order[o].contact # None /\ contact'[order[o].contact].has = order[o].made
    <2> TAKE o \in Taken \ rewritten'
    <2>1. order[o].contact # None /\ contact[order[o].contact].has = order[o].made
      BY RowsAsTheyAre
    <2>2. order[o].contact # x
      BY DEF Of
    <2>3. QED
      BY <1>1, <1>4, <2>1, <2>2 DEF Taken
  <1>9. QED
    BY <1>1, <1>2, <1>3, <1>5, <1>7, <1>8, RowsAsTheyAre, RowsStored

LEMMA CreateContactKeeps ==
  ASSUME BookInv, NEW g \in Customers, NEW x \in Contacts, NEW d \in Details,
         createCustomerContact(g, x, d)
  PROVE  BookInv'
  <1>1. PICK rec : rec = [of |-> g, has |-> d]
    OBVIOUS
  <1>2. rec \in ContactRec /\ rec # NoContact /\ rec.of = g
    BY <1>1, NoRows DEF ContactRec, NoContact
  <1>3. customer[g] # NoCustomer
    BY NoRows DEF createCustomerContact
  <1>4. \A o \in Orders : order[o].contact # x
    BY RowsAsTheyAre, NoRows DEF createCustomerContact
  <1>5. Of(x) = {}
    BY <1>4 DEF Of, Taken
  <1>6. QED
    BY <1>1, <1>2, <1>3, <1>5, RowsAsTheyAre, ContactWritten DEF createCustomerContact

LEMMA UpdateContactKeeps ==
  ASSUME BookInv, NEW x \in Contacts, NEW d \in Details, updateCustomerContact(x, d)
  PROVE  BookInv'
  <1>1. PICK j \in ContactRec : j = contact[x] /\ j # NoContact
    BY RowsAsTheyAre DEF updateCustomerContact
  <1>2. PICK rec : rec = [j EXCEPT !.has = d]
    OBVIOUS
  <1>3. j.of \in Customers
    BY <1>1, ContactThere
  <1>4. rec \in ContactRec /\ rec # NoContact /\ rec.of = j.of
    BY <1>1, <1>2, <1>3, NoRows DEF ContactRec, NoContact
  <1>5. customer[rec.of] # NoCustomer
    BY <1>1, <1>4, RowsAsTheyAre
  <1>6. contact' = [contact EXCEPT ![x] = rec]
    BY <1>1, <1>2, RowsAsTheyAre DEF updateCustomerContact
  <1>7. Of(x) \subseteq rewritten' /\ rewritten \subseteq rewritten' /\ rewritten' \subseteq Taken
    BY RowsAsTheyAre DEF updateCustomerContact, Of
  <1>8. QED
    BY <1>4, <1>5, <1>6, <1>7, ContactWritten DEF updateCustomerContact

LEMMA DeleteContactKeeps ==
  ASSUME BookInv, NEW x \in Contacts, deleteCustomerContact(x)
  PROVE  BookInv'
  <1>1. /\ customer' = customer /\ contact' = [contact EXCEPT ![x] = NoContact]
        /\ order' = [o \in Orders |-> IF o \in Of(x) THEN [order[o] EXCEPT !.contact = None]
                                      ELSE order[o]]
        /\ visitor' = [v \in Visitors |->
             IF visitor[v].contact = x THEN [visitor[v] EXCEPT !.contact = None, !.lost = TRUE]
             ELSE visitor[v]]
        /\ rewritten' = rewritten \cup Of(x)
    BY DEF deleteCustomerContact
  <1>2. /\ contact' \in [Contacts -> ContactRec]
        /\ \A y \in Contacts : contact'[y] = IF y = x THEN NoContact ELSE contact[y]
    BY <1>1, RowsAsTheyAre, NoRows
  <1>3. \A o \in Orders :
          /\ order'[o] \in OrderRec /\ order'[o].made = order[o].made
          /\ order'[o].contact = IF o \in Of(x) THEN None ELSE order[o].contact
    BY <1>1, RowsAsTheyAre DEF OrderRec
  <1>4. \A v \in Visitors :
          /\ visitor'[v] \in VisitorRec /\ visitor'[v].stage = visitor[v].stage
          /\ visitor'[v].gave = visitor[v].gave /\ visitor'[v].number = visitor[v].number
          /\ visitor'[v].customer = visitor[v].customer
          /\ visitor'[v].contact = IF visitor[v].contact = x THEN None ELSE visitor[v].contact
    BY <1>1, RowsAsTheyAre DEF VisitorRec
  <1>5. order' \in [Orders -> OrderRec] /\ visitor' \in [Visitors -> VisitorRec]
    BY <1>1, <1>3, <1>4
  <1>6. Taken' = Taken
    BY <1>3 DEF Taken
  <1>7. rewritten' \subseteq Taken'
    BY <1>1, <1>6, RowsAsTheyAre DEF Of
  <1>8. \A y \in Contacts : contact'[y] # NoContact => customer'[contact'[y].of] # NoCustomer
    BY <1>1, <1>2, RowsAsTheyAre
  <1>9. \A o \in Orders : order[o].contact \in Contacts \cup {None}
    BY RowsAsTheyAre DEF OrderRec
  <1>10. \A o \in Orders : (order[o].contact = x /\ order[o].made # None) => o \in Of(x)
    BY DEF Of, Taken
  <1>11. \A o \in Taken \ rewritten' :
           order'[o].contact # None /\ contact'[order'[o].contact].has = order'[o].made
    <2> TAKE o \in Taken \ rewritten'
    <2>1. o \in Orders /\ o \notin Of(x) /\ order[o].made # None /\ o \notin rewritten
      BY <1>1 DEF Taken
    <2>2. order[o].contact # None /\ contact[order[o].contact].has = order[o].made
      BY <2>1, RowsAsTheyAre DEF Taken
    <2>3. order[o].contact # x /\ order[o].contact \in Contacts
      BY <1>9, <1>10, <2>1, <2>2
    <2>4. QED
      BY <1>2, <1>3, <2>1, <2>2, <2>3
  <1>12. \A v \in Visitors : visitor'[v].contact # None => contact'[visitor'[v].contact] # NoContact
    <2> TAKE v \in Visitors
    <2>1. visitor[v].contact \in Contacts \cup {None}
      BY RowsAsTheyAre DEF VisitorRec
    <2>2. QED
      BY <1>2, <1>4, <2>1, RowsAsTheyAre
  <1>13. \A o \in Orders : order'[o].contact # None =>
           order'[o].made # None /\ contact'[order'[o].contact] # NoContact
    BY <1>2, <1>3, <1>9, <1>10, RowsAsTheyAre
  <1>14. QED
    BY <1>1, <1>2, <1>4, <1>5, <1>6, <1>7, <1>8, <1>11, <1>12, <1>13, RowsAsTheyAre, RowsStored

LEMMA UpdateRequestKeeps ==
  ASSUME BookInv, NEW o \in Orders, NEW x \in Contacts, updateRequest(o, x)
  PROVE  BookInv'
  <1>1. /\ o \in Taken /\ contact[x] # NoContact /\ order' = [order EXCEPT ![o].contact = x]
        /\ rewritten' = rewritten \cup {o}
        /\ customer' = customer /\ contact' = contact /\ visitor' = visitor
    BY DEF updateRequest
  <1>2. \A p \in Orders :
          /\ order'[p] \in OrderRec /\ order'[p].made = order[p].made
          /\ order'[p].contact = IF p = o THEN x ELSE order[p].contact
    BY <1>1, RowsAsTheyAre DEF OrderRec
  <1>3. order' \in [Orders -> OrderRec]
    BY <1>1, RowsAsTheyAre DEF OrderRec
  <1>4. Taken' = Taken
    BY <1>2 DEF Taken
  <1>5. \A p \in Orders : order'[p].contact # None =>
          order'[p].made # None /\ contact'[order'[p].contact] # NoContact
    BY <1>1, <1>2, RowsAsTheyAre DEF Taken
  <1>6. \A p \in Taken \ rewritten' :
          order'[p].contact # None /\ contact'[order'[p].contact].has = order'[p].made
    <2> TAKE p \in Taken \ rewritten'
    <2>1. p \in Orders /\ p # o /\ p \in Taken \ rewritten
      BY <1>1 DEF Taken
    <2>2. QED
      BY <1>1, <1>2, <2>1, RowsAsTheyAre
  <1>7. rewritten' \subseteq Taken'
    BY <1>1, <1>4, RowsAsTheyAre
  <1>8. QED
    BY <1>1, <1>3, <1>4, <1>5, <1>6, <1>7, RowsAsTheyAre, RowsStored

(* A booking is committed: its order has the contact it has written, the   *)
(* orders that had that contact are rewritten.                             *)
LEMMA CreateKeeps ==
  ASSUME BookInv, NEW v \in Visitors, NEW g \in Customers, NEW x \in Contacts, create(v, g, x)
  PROVE  BookInv'
  <1>1. PICK j \in VisitorRec : j = visitor[v]
    BY RowsAsTheyAre
  <1>2. VisitorSound(j) /\ j.stage = "numbered"
    BY <1>1 DEF BookInv, create
  <1>3. PICK d \in Details, o \in Orders : d = j.gave /\ o = j.number
    BY <1>2 DEF VisitorSound
  <1>4. PICK c \in CustomerRec : c = customer[g]
    BY RowsAsTheyAre
  <1>5. PICK rec : rec = [is |-> IF c.is = "none" THEN "live" ELSE c.is, has |-> d]
    OBVIOUS
  <1>6. rec \in CustomerRec /\ rec # NoCustomer
    BY <1>5 DEF CustomerRec, NoCustomer
  <1>7. customer' = [customer EXCEPT ![g] = rec]
    BY <1>1, <1>3, <1>4, <1>5, RowsAsTheyAre DEF create
  <1>8. PICK new : new = [of |-> g, has |-> d]
    OBVIOUS
  <1>9. new \in ContactRec /\ new # NoContact /\ new.of = g /\ new.has = d
    BY <1>8, NoRows DEF ContactRec, NoContact
  <1>10. contact' = [contact EXCEPT ![x] = new]
    BY <1>1, <1>3, <1>8 DEF create, Overwritten
  <1>11. PICK made : made = [contact |-> x, made |-> d]
    OBVIOUS
  <1>12. made \in OrderRec /\ made.contact = x /\ made.made = d
    BY <1>11 DEF OrderRec
  <1>13. order' = [order EXCEPT ![o] = made]
    BY <1>1, <1>3, <1>11 DEF create
  <1>14. /\ o \notin Taken /\ rewritten' = rewritten \cup Of(x)
         /\ visitor' = [visitor EXCEPT ![v] = Away]
    BY <1>1, <1>3 DEF create
  <1>15. /\ customer' \in [Customers -> CustomerRec] /\ contact' \in [Contacts -> ContactRec]
         /\ order' \in [Orders -> OrderRec] /\ visitor' \in [Visitors -> VisitorRec]
    BY <1>6, <1>7, <1>9, <1>10, <1>12, <1>13, <1>14, RowsAsTheyAre, AwayIsSound
  <1>16. /\ \A h \in Customers : customer'[h] = IF h = g THEN rec ELSE customer[h]
         /\ \A y \in Contacts : contact'[y] = IF y = x THEN new ELSE contact[y]
         /\ \A p \in Orders : order'[p] = IF p = o THEN made ELSE order[p]
         /\ \A w \in Visitors : visitor'[w] = IF w = v THEN Away ELSE visitor[w]
    BY <1>7, <1>10, <1>13, <1>14, RowsAsTheyAre
  <1>17. \A h \in Customers : customer[h] # NoCustomer => customer'[h] # NoCustomer
    BY <1>6, <1>16
  <1>18. \A y \in Contacts : contact'[y] # NoContact => customer'[contact'[y].of] # NoCustomer
    <2> SUFFICES ASSUME NEW y \in Contacts, contact'[y] # NoContact
                 PROVE  customer'[contact'[y].of] # NoCustomer
      OBVIOUS
    <2>1. CASE y = x
      BY <1>6, <1>9, <1>16, <2>1
    <2>2. CASE y # x
      BY <1>16, <1>17, <2>2, RowsAsTheyAre, ContactThere
    <2>3. QED
      BY <2>1, <2>2
  <1>19. \A p \in Orders : order[p].contact \in Contacts \cup {None}
    BY RowsAsTheyAre DEF OrderRec
  <1>20. \A p \in Orders : order'[p].contact # None =>
           order'[p].made # None /\ contact'[order'[p].contact] # NoContact
    BY <1>9, <1>12, <1>16, <1>19, RowsAsTheyAre, NoRows
  <1>21. rewritten' \subseteq Taken'
    BY <1>12, <1>14, <1>16, RowsAsTheyAre, NoRows DEF Taken, Of
  <1>22. \A p \in Taken' \ rewritten' :
           order'[p].contact # None /\ contact'[order'[p].contact].has = order'[p].made
    <2> SUFFICES ASSUME NEW p \in Orders, order'[p].made # None, p \notin rewritten'
                 PROVE  order'[p].contact # None /\ contact'[order'[p].contact].has = order'[p].made
      BY DEF Taken
    <2>1. CASE p = o
      BY <1>9, <1>12, <1>16, <2>1, NoRows
    <2>2. CASE p # o
      <3>1. p \in Taken \ rewritten /\ p \notin Of(x) /\ order'[p] = order[p]
        BY <1>14, <1>16, <2>2 DEF Taken
      <3>2. order[p].contact # x /\ order[p].contact \in Contacts \cup {None}
        BY <1>19, <3>1 DEF Of
      <3>3. QED
        BY <1>16, <3>1, <3>2, RowsAsTheyAre
    <2>3. QED
      BY <2>1, <2>2
  <1>23. \A w \in Visitors :
           /\ visitor'[w].stage # "away" =>
                /\ visitor'[w].stage = visitor[w].stage /\ visitor'[w].gave = visitor[w].gave
                /\ visitor'[w].number = visitor[w].number
           /\ visitor'[w].customer \in {visitor[w].customer, None}
           /\ visitor'[w].contact # None => contact'[visitor'[w].contact] # NoContact
    <2> TAKE w \in Visitors
    <2>1. visitor[w].contact \in Contacts \cup {None}
      BY RowsAsTheyAre DEF VisitorRec
    <2>2. CASE w = v
      BY <1>16, <2>2 DEF Away
    <2>3. CASE w # v
      BY <1>9, <1>16, <2>1, <2>3, RowsAsTheyAre
    <2>4. QED
      BY <2>2, <2>3
  <1>24. QED
    BY <1>15, <1>17, <1>18, <1>20, <1>21, <1>22, <1>23, RowsStored

LEMMA BookStep == BookInv /\ [BookingNext]_bookingVars => BookInv'
  <1> SUFFICES ASSUME BookInv, [BookingNext]_bookingVars
               PROVE  BookInv'
    OBVIOUS
  <1>1. CASE \E v \in Visitors, d \in Details, g \in Customers \cup {None} :
               findOrCreateCustomer(v, d, g)
    BY <1>1, FindCustomerKeeps
  <1>2. CASE \E v \in Visitors, x \in Contacts \cup {None} : findOrCreateContact(v, x)
    BY <1>2, FindContactKeeps
  <1>3. CASE \E v \in Visitors : generateOrderNumber(v) \/ createFails(v)
    BY <1>3, NumberKeeps, BookingFailsKeeps
  <1>4. CASE \E v \in Visitors, g \in Customers, x \in Contacts : create(v, g, x)
    BY <1>4, CreateKeeps
  <1>5. CASE \E g \in Customers, d \in Details : officeCreates(g, d) \/ officeUpdates(g, d)
    BY <1>5, OfficeCreatesKeeps, OfficeUpdatesKeeps
  <1>6. CASE \E g \in Customers, d \in Details, x \in Contacts : createCustomerContact(g, x, d)
    BY <1>6, CreateContactKeeps
  <1>7. CASE \E g \in Customers : officeArchives(g)
    BY <1>7, OfficeArchivesKeeps
  <1>8. CASE \E x \in Contacts, d \in Details : updateCustomerContact(x, d)
    BY <1>8, UpdateContactKeeps
  <1>9. CASE \E x \in Contacts : deleteCustomerContact(x)
    BY <1>9, DeleteContactKeeps
  <1>10. CASE \E x \in Contacts, o \in Orders : updateRequest(o, x)
    BY <1>10, UpdateRequestKeeps
  <1>11. CASE UNCHANGED bookingVars
    <2>1. Taken' = Taken
      BY <1>11 DEF bookingVars, Taken
    <2>2. \A v \in Visitors : visitor[v].customer \in {visitor[v].customer, None}
      OBVIOUS
    <2>3. QED
      BY <1>11, <2>1, <2>2, RowsAsTheyAre, RowsStored DEF bookingVars
  <1>12. QED
    BY <1>1, <1>2, <1>3, <1>4, <1>5, <1>6, <1>7, <1>8, <1>9, <1>10, <1>11 DEF BookingNext

LEMMA BookAlways == BookingSpec => []BookInv
BY BookInitially, BookStep, PTL DEF BookingSpec

(* Customers, contacts, orders and bookings under way are well typed, and  *)
(* whatever they refer to is there.                                        *)
THEOREM BookingTypesHold == BookingSpec => []BookingTypeOK
  <1>1. BookInv => BookingTypeOK
    BY DEF BookInv
  <1>2. QED
    BY <1>1, BookAlways, PTL

(* Whoever booked finds the booking with the details he gave, until its    *)
(* contact is written again, deleted or replaced.                          *)
THEOREM BookingIsFound == BookingSpec => []LookupFailsOnlyAfterRewrite
  <1>1. BookInv => LookupFailsOnlyAfterRewrite
    BY DEF BookInv, MadeAsHad, LookupFailsOnlyAfterRewrite, lookup
  <1>2. QED
    BY <1>1, BookAlways, PTL

-----------------------------------------------------------------------------
-----------------------------------------------------------------------------
(* Listings.  A row whose place has neither moved nor been shared is in    *)
(* the pages that begin before its place, and in no other; when the rows   *)
(* have been counted its place is below their number.                      *)
CallerRec == [stage : {"idle", "asked", "page", "count", "answered", "done"},
              skip : Nat, take : 0..LargestTake, total : 0..Cardinality(Lines),
              seen : [Lines -> Nat]]

PagesRead == IF caller.stage \in {"asked", "count"} THEN caller.skip
                                                    ELSE caller.skip + caller.take

ListInv ==
  /\ ListingTypeOK /\ caller \in CallerRec
  /\ caller.stage = "idle" => caller = Idle
  /\ caller.stage # "idle" =>
       \A x \in Lines \ drifted :
         /\ ~Tied(x)
         /\ caller.seen[x] = IF x \in listed /\ Place(x) < PagesRead THEN 1 ELSE 0
         /\ caller.stage \in {"count", "answered", "done"} /\ x \in listed
            => Place(x) < caller.total
  /\ caller.stage = "done" => caller.total <= caller.skip + caller.take

LEMMA IdleCaller == Idle \in CallerRec /\ Idle.stage = "idle"
  <1>1. Cardinality(Lines) \in Nat
    BY ListingsAssumption, FS_CardinalityType
  <1>2. QED
    BY <1>1, ListingsAssumption DEF Idle, CallerRec

LEMMA RanksAreNumbers == rank \in [Lines -> Ranks] => \A x \in Lines : rank[x] \in Nat
  <1>1. Ranks \subseteq Nat
    BY ListingsAssumption
  <1>2. QED
    BY <1>1

(* There are so many rows before a row, and it is none of them.            *)
LEMMA PlaceIsBelow ==
  ASSUME listed \subseteq Lines, NEW x \in Lines
  PROVE  /\ Place(x) \in Nat /\ Cardinality(listed) \in 0..Cardinality(Lines)
         /\ x \in listed /\ rank \in [Lines -> Ranks] => Place(x) < Cardinality(listed)
  <1> DEFINE before == {y \in listed : rank[y] < rank[x]}
  <1>1. IsFiniteSet(listed) /\ Cardinality(listed) \in Nat
        /\ Cardinality(Lines) \in Nat /\ Cardinality(listed) <= Cardinality(Lines)
    BY ListingsAssumption, FS_Subset, FS_CardinalityType
  <1>2. /\ IsFiniteSet(before) /\ Cardinality(before) <= Cardinality(listed)
        /\ Cardinality(before) = Cardinality(listed) => before = listed
    BY <1>1, FS_Subset
  <1>3. Cardinality(before) \in Nat
    BY <1>2, FS_CardinalityType
  <1>4. rank \in [Lines -> Ranks] => x \notin before
    BY RanksAreNumbers
  <1>5. QED
    BY <1>1, <1>2, <1>3, <1>4 DEF Place

(* In a list in order a row that ties with none stands where its place     *)
(* says.                                                                   *)
LEMMA StandsAtItsPlace ==
  ASSUME rank \in [Lines -> Ranks], listed \subseteq Lines,
         NEW s \in Arranged, NEW x \in listed, ~Tied(x)
  PROVE  /\ DOMAIN s = 1..Cardinality(listed)
         /\ \A i \in DOMAIN s : s[i] = x => i = Place(x) + 1
         /\ Place(x) + 1 \in DOMAIN s /\ s[Place(x) + 1] = x
  <1> DEFINE n == Cardinality(listed)
  <1>1. IsFiniteSet(listed) /\ n \in Nat
    BY ListingsAssumption, FS_Subset, FS_CardinalityType
  <1>2. s \in Injection(1..n, listed) /\ s \in [1..n -> listed] /\ DOMAIN s = 1..n
        /\ \A i, j \in 1..n : s[i] = s[j] => i = j
    BY DEF Arranged, AnyOrder, Injection, IsInjective
  <1>3. Cardinality(1..n) = n
    BY <1>1, FS_Interval
  <1>4. s \in Surjection(1..n, listed)
    BY <1>1, <1>2, <1>3, FS_Injection
  <1>5. \A y \in listed : \E j \in 1..n : s[j] = y
    BY <1>4 DEF Surjection
  <1>6. ASSUME NEW i \in 1..n, s[i] = x PROVE i = Place(x) + 1
    <2> DEFINE before == {y \in listed : rank[y] < rank[x]}
               first == 1..(i - 1)
               f == [j \in first |-> s[j]]
    <2>1. \A y \in listed : rank[y] \in Int
      BY RanksAreNumbers
    <2>2. first \subseteq 1..n /\ i - 1 \in Nat
      BY <1>1
    <2>3. \A j, k \in 1..n : j < k => rank[s[j]] <= rank[s[k]]
      BY <1>2 DEF Arranged
    <2>4. \A j \in first : s[j] \in before
      <3> TAKE j \in first
      <3>1. j \in 1..n /\ j < i /\ s[j] \in listed
        BY <2>2, <1>2
      <3>2. s[j] # x
        BY <3>1, <1>2, <1>6
      <3>3. rank[s[j]] <= rank[x]
        BY <3>1, <2>3, <1>6
      <3>4. rank[s[j]] # rank[x]
        BY <3>1, <3>2 DEF Tied
      <3>5. QED
        BY <3>1, <3>3, <3>4, <2>1
    <2>5. \A y \in before : \E j \in first : s[j] = y
      <3> TAKE y \in before
      <3>1. PICK j \in 1..n : s[j] = y
        BY <1>5
      <3>2. j # i
        BY <3>1, <1>6, <2>1
      <3>3. ~(i < j)
        BY <3>1, <2>3, <1>6, <2>1
      <3>4. QED
        BY <3>1, <3>2, <3>3
    <2>6. f \in Bijection(first, before)
      <3>1. f \in [first -> before]
        BY <2>4
      <3>2. \A a, b \in first : f[a] = f[b] => a = b
        BY <2>2, <1>2
      <3>3. \A y \in before : \E j \in first : f[j] = y
        BY <2>5
      <3>4. QED
        BY <3>1, <3>2, <3>3 DEF Bijection, Injection, Surjection, IsInjective
    <2>7. ExistsBijection(first, before)
      BY <2>6 DEF ExistsBijection
    <2>8. IsFiniteSet(first) /\ Cardinality(first) = i - 1
      BY <2>2, FS_Interval
    <2>9. Cardinality(before) = i - 1
      BY <2>7, <2>8, FS_Bijection
    <2>10. QED
      BY <2>9 DEF Place
  <1>7. QED
    BY <1>2, <1>5, <1>6

LEMMA ListInitially == ListingInit => ListInv
  <1> SUFFICES ASSUME ListingInit PROVE ListInv
    OBVIOUS
  <1>1. \A list \in Lists : KindOf(list) \in [ties : BOOLEAN, fixed : BOOLEAN]
    BY DEF KindOf
  <1>2. kind \in [ties : BOOLEAN, fixed : BOOLEAN]
    BY <1>1 DEF ListingInit
  <1>3. caller = Idle /\ caller \in CallerRec /\ caller.stage = "idle"
    BY IdleCaller DEF ListingInit
  <1>4. ListingTypeOK
    BY <1>2, <1>3 DEF ListingInit, ListingTypeOK, CallerRec
  <1>5. QED
    BY <1>3, <1>4 DEF ListInv

(* The caller's own steps leave the rows.                                  *)
LEMMA CallerMoves ==
  ASSUME ListInv, caller' \in CallerRec,
         UNCHANGED <<kind, rank, listed>>, drifted' \subseteq Lines
  PROVE  /\ ListingTypeOK'
         /\ \A x \in Lines : (Tied(x)' <=> Tied(x)) /\ Place(x)' = Place(x)
  <1>1. ListingTypeOK'
    BY DEF ListInv, ListingTypeOK, CallerRec
  <1>2. \A x \in Lines : (Tied(x)' <=> Tied(x)) /\ Place(x)' = Place(x)
    BY DEF Tied, Place
  <1>3. QED
    BY <1>1, <1>2

LEMMA TakeIsLimited ==
  ASSUME NEW asked \in Asked \cup {Unasked}
  PROVE  getPagination(asked) \in 0..LargestTake
  BY ListingsAssumption DEF getPagination

LEMMA AskKeeps ==
  ASSUME ListInv, NEW asked \in Asked \cup {Unasked}, ask(asked)
  PROVE  ListInv'
  <1> DEFINE c == [Idle EXCEPT !.stage = "asked", !.take = getPagination(asked)]
  <1>1. caller' = c /\ drifted' = {x \in Lines : Tied(x)} /\ UNCHANGED <<kind, rank, listed>>
    BY DEF ask
  <1>2. c \in CallerRec /\ c.stage = "asked" /\ c.skip = 0 /\ c.seen = [x \in Lines |-> 0]
    BY IdleCaller, TakeIsLimited DEF CallerRec, Idle
  <1>3. ListingTypeOK' /\ \A x \in Lines : (Tied(x)' <=> Tied(x)) /\ Place(x)' = Place(x)
    BY <1>1, <1>2, CallerMoves
  <1>4. \A x \in Lines : Place(x) \in Nat
    BY PlaceIsBelow DEF ListInv, ListingTypeOK
  <1>5. PagesRead' = 0
    BY <1>1, <1>2 DEF PagesRead
  <1>6. \A x \in Lines \ drifted' :
          /\ ~Tied(x)'
          /\ caller'.seen[x] = IF x \in listed' /\ Place(x)' < PagesRead' THEN 1 ELSE 0
    BY <1>1, <1>2, <1>3, <1>4, <1>5
  <1>7. QED
    BY <1>1, <1>2, <1>3, <1>6 DEF ListInv

(* The page has the rows whose place is on it.                             *)
LEMMA FindManyKeeps ==
  ASSUME ListInv, findMany
  PROVE  ListInv'
  <1>1. PICK s \in Arranged :
          LET page == {s[i] : i \in {i \in DOMAIN s : /\ caller.skip < i
                                                     /\ i <= caller.skip + caller.take}} IN
          caller' = [caller EXCEPT
            !.stage = IF @ = "asked" THEN "page" ELSE "answered",
            !.seen = [x \in Lines |-> IF x \in page THEN @[x] + 1 ELSE @[x]]]
    BY DEF findMany
  <1> DEFINE page == {s[i] : i \in {i \in DOMAIN s : /\ caller.skip < i
                                                    /\ i <= caller.skip + caller.take}}
             seen == [x \in Lines |-> IF x \in page THEN caller.seen[x] + 1 ELSE caller.seen[x]]
  <1>2. /\ caller \in CallerRec /\ caller.stage \in {"asked", "count"}
        /\ rank \in [Lines -> Ranks] /\ listed \subseteq Lines /\ drifted \subseteq Lines
        /\ UNCHANGED <<kind, rank, listed, drifted>>
    BY DEF findMany, ListInv, ListingTypeOK
  <1>3. /\ caller.skip \in Nat /\ caller.take \in 0..LargestTake /\ caller.seen \in [Lines -> Nat]
        /\ caller.total \in 0..Cardinality(Lines) /\ LargestTake \in Nat
    BY <1>2, ListingsAssumption DEF CallerRec
  <1>4. seen \in [Lines -> Nat]
    BY <1>3
  <1>5. /\ caller' \in CallerRec
        /\ caller'.stage = IF caller.stage = "asked" THEN "page" ELSE "answered"
        /\ caller'.skip = caller.skip /\ caller'.take = caller.take /\ caller'.total = caller.total
        /\ caller'.seen = seen
    <2> HIDE DEF page
    <2>1. caller' = [caller EXCEPT !.stage = IF caller.stage = "asked" THEN "page" ELSE "answered",
                                   !.seen = seen]
      BY <1>1, <1>2 DEF page, CallerRec
    <2> HIDE DEF seen
    <2>2. QED
      BY <2>1, <1>2, <1>4 DEF CallerRec
  <1>6. ListingTypeOK' /\ \A x \in Lines : (Tied(x)' <=> Tied(x)) /\ Place(x)' = Place(x)
    BY <1>2, <1>5, CallerMoves
  <1>7. PagesRead = caller.skip /\ PagesRead' = caller.skip + caller.take
    BY <1>2, <1>5 DEF PagesRead
  <1>8. ASSUME NEW x \in Lines \ drifted
        PROVE  /\ ~Tied(x)'
               /\ caller'.seen[x] = IF x \in listed' /\ Place(x)' < PagesRead' THEN 1 ELSE 0
               /\ caller'.stage \in {"count", "answered", "done"} /\ x \in listed'
                  => Place(x)' < caller'.total
    <2>1. /\ ~Tied(x) /\ caller.seen[x] = IF x \in listed /\ Place(x) < caller.skip THEN 1 ELSE 0
          /\ caller.stage = "count" /\ x \in listed => Place(x) < caller.total
      BY <1>2, <1>7 DEF ListInv
    <2>2. Place(x) \in Nat
      BY <1>2, PlaceIsBelow
    <2>3. x \in page <=> /\ x \in listed
                         /\ caller.skip <= Place(x) /\ Place(x) < caller.skip + caller.take
      <3>1. CASE x \in listed
        <4>1. /\ \A i \in DOMAIN s : s[i] = x => i = Place(x) + 1
              /\ Place(x) + 1 \in DOMAIN s /\ s[Place(x) + 1] = x
          BY <1>2, <2>1, <3>1, StandsAtItsPlace
        <4>2. QED
          BY <4>1, <3>1, <2>2, <1>3
      <3>2. CASE x \notin listed
        <4>1. s \in [1..Cardinality(listed) -> listed]
          BY DEF Arranged, AnyOrder, Injection
        <4>2. QED
          BY <4>1, <3>2
      <3>3. QED
        BY <3>1, <3>2
    <2>4. caller'.seen[x] = IF x \in page THEN caller.seen[x] + 1 ELSE caller.seen[x]
      BY <1>5
    <2> HIDE DEF page
    <2>5. caller'.seen[x] = IF x \in listed /\ Place(x) < caller.skip + caller.take THEN 1 ELSE 0
      BY <2>1, <2>2, <2>3, <2>4, <1>3
    <2>6. QED
      BY <2>1, <2>5, <1>2, <1>5, <1>6, <1>7
  <1>9. QED
    BY <1>2, <1>5, <1>6, <1>8 DEF ListInv

LEMMA CountKeeps ==
  ASSUME ListInv, count
  PROVE  ListInv'
  <1>1. /\ caller \in CallerRec /\ caller.stage \in {"asked", "page"}
        /\ rank \in [Lines -> Ranks] /\ listed \subseteq Lines /\ drifted \subseteq Lines
        /\ UNCHANGED <<kind, rank, listed, drifted>>
    BY DEF count, ListInv, ListingTypeOK
  <1>2. Cardinality(listed) \in 0..Cardinality(Lines)
        /\ \A x \in listed : Place(x) < Cardinality(listed)
    <2>1. CASE Lines = {}
      <3>1. listed = {} /\ Cardinality(listed) = 0
        BY <1>1, <2>1, FS_EmptySet
      <3>2. QED
        BY <3>1, <2>1
    <2>2. CASE Lines # {}
      BY <1>1, <2>2, PlaceIsBelow
    <2>3. QED
      BY <2>1, <2>2
  <1>3. /\ caller' \in CallerRec
        /\ caller'.stage = IF caller.stage = "asked" THEN "count" ELSE "answered"
        /\ caller'.skip = caller.skip /\ caller'.take = caller.take /\ caller'.seen = caller.seen
        /\ caller'.total = Cardinality(listed)
    BY <1>1, <1>2 DEF count, CallerRec
  <1>4. ListingTypeOK' /\ \A x \in Lines : (Tied(x)' <=> Tied(x)) /\ Place(x)' = Place(x)
    BY <1>1, <1>3, CallerMoves
  <1>5. PagesRead' = PagesRead
    BY <1>1, <1>3 DEF PagesRead
  <1>6. ASSUME NEW x \in Lines \ drifted
        PROVE  /\ ~Tied(x)'
               /\ caller'.seen[x] = IF x \in listed' /\ Place(x)' < PagesRead' THEN 1 ELSE 0
               /\ caller'.stage \in {"count", "answered", "done"} /\ x \in listed'
                  => Place(x)' < caller'.total
    BY <1>1, <1>2, <1>3, <1>4, <1>5 DEF ListInv
  <1>7. QED
    BY <1>1, <1>3, <1>4, <1>6 DEF ListInv

LEMMA TurnKeeps ==
  ASSUME ListInv, turn
  PROVE  ListInv'
  <1>1. /\ caller \in CallerRec /\ caller.stage = "answered"
        /\ rank \in [Lines -> Ranks] /\ listed \subseteq Lines /\ drifted \subseteq Lines
        /\ UNCHANGED <<kind, rank, listed, drifted>>
    BY DEF turn, ListInv, ListingTypeOK
  <1>2. /\ caller.skip \in Nat /\ caller.take \in 0..LargestTake /\ LargestTake \in Nat
        /\ caller.total \in 0..Cardinality(Lines)
    BY <1>1, ListingsAssumption DEF CallerRec
  <1>3. /\ caller' \in CallerRec /\ caller'.seen = caller.seen /\ caller'.total = caller.total
        /\ \/ caller'.stage = "asked" /\ caller'.skip = caller.skip + caller.take
           \/ /\ caller'.stage = "done" /\ caller'.skip = caller.skip
              /\ caller'.take = caller.take /\ caller.total <= caller.skip + caller.take
    <2>1. CASE caller.skip + caller.take < caller.total
      <3>1. caller' = [caller EXCEPT !.stage = "asked", !.skip = caller.skip + caller.take]
        BY <1>1, <2>1 DEF turn, CallerRec
      <3>2. caller.skip + caller.take \in Nat
        BY <1>2
      <3>3. QED
        BY <1>1, <3>1, <3>2 DEF CallerRec
    <2>2. CASE ~(caller.skip + caller.take < caller.total)
      <3>1. caller' = [caller EXCEPT !.stage = "done"]
        BY <2>2 DEF turn
      <3>2. caller.total <= caller.skip + caller.take
        BY <1>2, <2>2
      <3>3. QED
        BY <1>1, <3>1, <3>2 DEF CallerRec
    <2>3. QED
      BY <2>1, <2>2
  <1>4. ListingTypeOK' /\ \A x \in Lines : (Tied(x)' <=> Tied(x)) /\ Place(x)' = Place(x)
    BY <1>1, <1>3, CallerMoves
  <1>5. PagesRead' = PagesRead
    BY <1>1, <1>3 DEF PagesRead
  <1>6. ASSUME NEW x \in Lines \ drifted
        PROVE  /\ ~Tied(x)'
               /\ caller'.seen[x] = IF x \in listed' /\ Place(x)' < PagesRead' THEN 1 ELSE 0
               /\ caller'.stage \in {"count", "answered", "done"} /\ x \in listed'
                  => Place(x)' < caller'.total
    BY <1>1, <1>3, <1>4, <1>5 DEF ListInv
  <1>7. QED
    BY <1>1, <1>3, <1>4, <1>6 DEF ListInv

(* Another request counts every row that it moves or makes tie.            *)
LEMMA WriteKeeps ==
  ASSUME ListInv, NEW x \in Lines, NEW r \in Ranks, NEW among \in BOOLEAN, write(x, r, among)
  PROVE  ListInv'
  <1>1. /\ rank' = [rank EXCEPT ![x] = r]
        /\ listed' = IF among THEN listed \cup {x} ELSE listed \ {x}
        /\ ~kind.ties => \A y \in Lines \ {x} : rank[y] # r
        /\ kind' = kind /\ caller' = caller
    BY DEF write
  <1>2. rank' \in [Lines -> Ranks] /\ listed' \subseteq Lines /\ drifted' \subseteq Lines
        /\ (~kind'.ties => \A y, z \in Lines : rank'[y] = rank'[z] => y = z)
    <2>1. drifted' \subseteq Lines
      BY DEF write, ListInv, ListingTypeOK
    <2>2. rank' \in [Lines -> Ranks] /\ listed' \subseteq Lines
      BY <1>1 DEF ListInv, ListingTypeOK
    <2>3. ~kind'.ties => \A y, z \in Lines : rank'[y] = rank'[z] => y = z
      BY <1>1 DEF ListInv, ListingTypeOK
    <2>4. QED
      BY <2>1, <2>2, <2>3
  <1>3. ListingTypeOK'
    BY <1>1, <1>2 DEF ListInv, ListingTypeOK
  <1>4. PagesRead' = PagesRead
    BY <1>1 DEF PagesRead
  <1>5. CASE caller.stage = "idle"
    BY <1>5, <1>1, <1>3 DEF ListInv
  <1>6. CASE caller.stage # "idle"
    <2>1. drifted' = drifted \cup {x} \cup {y \in Lines : Place(y)' # Place(y) \/ Tied(y)'}
      BY <1>6, IdleCaller DEF write
    <2>2. ASSUME NEW y \in Lines \ drifted'
          PROVE  y \in Lines \ drifted /\ Place(y)' = Place(y) /\ ~Tied(y)'
                 /\ (y \in listed' <=> y \in listed)
      BY <2>1, <1>1
    <2>3. ASSUME NEW y \in Lines \ drifted'
          PROVE  /\ ~Tied(y)'
                 /\ caller'.seen[y] = IF y \in listed' /\ Place(y)' < PagesRead' THEN 1 ELSE 0
                 /\ caller'.stage \in {"count", "answered", "done"} /\ y \in listed'
                    => Place(y)' < caller'.total
      BY <2>2, <1>1, <1>4, <1>6 DEF ListInv
    <2>4. QED
      BY <1>1, <1>3, <1>6, <2>3 DEF ListInv
  <1>7. QED
    BY <1>5, <1>6

LEMMA ListStep == ListInv /\ [ListingNext]_listingVars => ListInv'
  <1> SUFFICES ASSUME ListInv, [ListingNext]_listingVars PROVE ListInv'
    OBVIOUS
  <1>1. CASE UNCHANGED listingVars
    BY <1>1 DEF listingVars, ListInv, ListingTypeOK, Tied, Place, PagesRead
  <1>2. ASSUME NEW asked \in Asked \cup {Unasked}, ask(asked) PROVE ListInv'
    BY <1>2, AskKeeps
  <1>3. ASSUME NEW x \in Lines, NEW r \in Ranks, NEW among \in BOOLEAN, write(x, r, among)
        PROVE  ListInv'
    BY <1>3, WriteKeeps
  <1>4. QED
    BY <1>1, <1>2, <1>3, FindManyKeeps, CountKeeps, TurnKeeps DEF ListingNext

LEMMA ListAlways == ListingSpec => []ListInv
  BY ListInitially, ListStep, PTL DEF ListingSpec

(* The types of a list and of a pass through it.                           *)
THEOREM ListingTypesHold == ListingSpec => []ListingTypeOK
  <1>1. ListInv => ListingTypeOK
    BY DEF ListInv
  <1>2. QED
    BY <1>1, ListAlways, PTL

(* Whoever pages through any of the lists to its end has got every row     *)
(* whose place no write has moved and no row shares exactly once, and no   *)
(* row that is not in the list.                                            *)
THEOREM ListIsComplete == ListingSpec => []ListedUnlessMoved
  <1>1. ListInv => ListedUnlessMoved
    <2> SUFFICES ASSUME ListInv, caller.stage = "done", NEW x \in Lines \ drifted
                 PROVE  caller.seen[x] = IF x \in listed THEN 1 ELSE 0
      BY DEF ListedUnlessMoved
    <2>1. Place(x) \in Nat
      BY PlaceIsBelow DEF ListInv, ListingTypeOK
    <2>2. /\ caller.skip \in Nat /\ caller.take \in Nat /\ caller.total \in Nat
      <3>1. caller \in CallerRec /\ LargestTake \in Nat /\ Cardinality(Lines) \in Nat
        BY ListingsAssumption, FS_CardinalityType DEF ListInv
      <3>2. QED
        BY <3>1 DEF CallerRec
    <2>3. x \in listed => Place(x) < PagesRead
      BY <2>1, <2>2 DEF ListInv, PagesRead
    <2>4. QED
      BY <2>3 DEF ListInv
  <1>2. QED
    BY <1>1, ListAlways, PTL

-----------------------------------------------------------------------------
-----------------------------------------------------------------------------
(* Directory.  A request that marks a row clears all the rows it knew to   *)
(* be there, and what it is about to name is there unless it is told       *)
(* otherwise.                                                              *)
RowRec == [table : Tables \cup {"none"}, group : Groups \cup {Nil},
           marked : BOOLEAN, link : Rows \cup {Nil}]
TellerRec == [op : {"idle", "clear", "write", "invite", "link", "book", "numbered"},
              row : Rows \cup {Nil}, new : RowRec, mark : Marks,
              knew : SUBSET Rows, clears : SUBSET Rows, missed : BOOLEAN]

Referenced ==
  \A x \in Rows :
    /\ row[x].table = "contact" => row[x].group \in Groups /\ standing[row[x].group] # "none"
    /\ row[x].link # Nil => row[x].table = "site" /\ row[row[x].link].table = "contact"

Paired == \A pair \in unseen : pair \subseteq Rows /\ Cardinality(pair) = 2

RowsInv ==
  /\ row \in [Rows -> RowRec]
  /\ standing \in [Groups -> {"none", "live", "archived"}]
  /\ Paired
  /\ Referenced
  /\ TwoMarkedOnlyUnseen

NewSound(c) ==
  /\ c.new.table = "contact" => c.new.group \in Groups /\ standing[c.new.group] # "none"
  /\ c.new.link # Nil /\ ~c.missed => row[c.new.link].table = "contact"

WriterSound(c) ==
  c.op \in {"clear", "write"} =>
    /\ c.mark = "yes" => c.knew = c.clears
    /\ c.row = Nil /\ c.new.link # Nil => c.new.table = "site"
    /\ c.row # Nil /\ c.new.link # Nil /\ ~c.missed => row[c.row].table = "site"

InviterSound(c) ==
  c.op \in {"invite", "link"} =>
    /\ c.row \in Rows /\ (~c.missed => row[c.row].table = "site")
    /\ c.op = "invite" => c.new.table = "contact" /\ c.new.link = Nil
    /\ c.op = "link" => c.new.link \in Rows

BookerSound(c) ==
  c.op \in {"book", "numbered"} =>
    /\ c.new.group # Nil => standing[c.new.group] # "none"
    /\ c.row # Nil => /\ c.new.group # Nil
                      /\ ~c.missed => row[c.row].table = "contact" /\ row[c.row].group = c.new.group

Sound(c) == NewSound(c) /\ WriterSound(c) /\ InviterSound(c) /\ BookerSound(c)

TellersInv == teller \in [Tellers -> TellerRec] /\ \A t \in Tellers : Sound(teller[t])

DirectoryInv == RowsInv /\ TellersInv

(* What is there stays what it is.                                         *)
Lasting ==
  /\ \A y \in Rows : There(y) => row'[y].table = row[y].table /\ row'[y].group = row[y].group
  /\ \A g \in Groups : standing[g] # "none" => standing'[g] # "none"

LEMMA ReadyCall ==
  /\ NoRow \in RowRec /\ Ready \in TellerRec /\ Ready.op = "idle" /\ Ready.row = Nil
  /\ Ready.new = NoRow /\ Ready.knew = {} /\ Ready.clears = {} /\ Ready.missed = FALSE
  /\ NoRow.table = "none" /\ NoRow.group = Nil /\ NoRow.link = Nil /\ NoRow.marked = FALSE
  BY DEF NoRow, Ready, RowRec, TellerRec, Tables, Marks

LEMMA ReadyIsSound == Sound(Ready)
  BY ReadyCall DEF Sound, NewSound, WriterSound, InviterSound, BookerSound

LEMMA DirectoryTypes == DirectoryInv => DirectoryTypeOK
  BY DEF DirectoryInv, RowsInv, TellersInv, TellerRec, RowRec, Paired, Referenced, DirectoryTypeOK

LEMMA DirectoryInitially == DirectoryInit => DirectoryInv
  <1> SUFFICES ASSUME DirectoryInit PROVE DirectoryInv
    OBVIOUS
  <1>1. RowsInv
    BY ReadyCall DEF DirectoryInit, RowsInv, Paired, Referenced, TwoMarkedOnlyUnseen
  <1>2. TellersInv
    BY ReadyCall, ReadyIsSound DEF DirectoryInit, TellersInv
  <1>3. QED
    BY <1>1, <1>2 DEF DirectoryInv

(* A call stays sound, and one that is told that it has missed does.       *)
LEMMA SoundStays ==
  ASSUME RowsInv, NEW c \in TellerRec, Sound(c), Lasting
  PROVE  Sound(c)' /\ Sound([c EXCEPT !.missed = TRUE])'
  <1> DEFINE d == [c EXCEPT !.missed = TRUE]
  <1>1. d.op = c.op /\ d.row = c.row /\ d.new = c.new /\ d.mark = c.mark
        /\ d.knew = c.knew /\ d.clears = c.clears /\ d.missed = TRUE
    BY DEF TellerRec
  <1> HIDE DEF d
  <1>2. /\ c.row \in Rows \cup {Nil} /\ c.new.link \in Rows \cup {Nil}
        /\ c.new.group \in Groups \cup {Nil} /\ Nil \notin Groups
    BY DirectoryAssumption DEF TellerRec, RowRec
  <1>3. /\ \A y \in Rows : row[y].table = "contact" => row'[y].table = "contact"
        /\ \A y \in Rows : row[y].table = "contact" => row'[y].group = row[y].group
        /\ \A y \in Rows : row[y].table = "site" => row'[y].table = "site"
    BY DEF Lasting, There
  <1>4. \A g \in Groups : standing[g] # "none" => standing'[g] # "none"
    BY DEF Lasting
  <1>5. NewSound(c)' /\ NewSound(d)'
    BY <1>1, <1>2, <1>3, <1>4 DEF Sound, NewSound
  <1>6. WriterSound(c)' /\ WriterSound(d)'
    BY <1>1, <1>2, <1>3 DEF Sound, WriterSound
  <1>7. InviterSound(c)' /\ InviterSound(d)'
    BY <1>1, <1>2, <1>3 DEF Sound, InviterSound
  <1>8. BookerSound(c)' /\ BookerSound(d)'
    BY <1>1, <1>2, <1>3, <1>4 DEF Sound, BookerSound
  <1>9. QED
    BY <1>5, <1>6, <1>7, <1>8 DEF Sound, d

LEMMA TellerMoves ==
  ASSUME DirectoryInv, Lasting, NEW t \in Tellers, NEW c \in TellerRec, Sound(c)',
         teller' = [teller EXCEPT ![t] = c]
  PROVE  TellersInv'
  <1>1. teller \in [Tellers -> TellerRec] /\ \A u \in Tellers : Sound(teller[u])
    BY DEF DirectoryInv, TellersInv
  <1>2. teller' \in [Tellers -> TellerRec]
    BY <1>1
  <1>3. ASSUME NEW u \in Tellers PROVE Sound(teller[u])'
    <2>1. PICK d \in TellerRec : teller'[u] = d
      BY <1>2
    <2>2. Sound(d)'
      <3>1. CASE u = t
        BY <3>1, <2>1, <1>1
      <3>2. CASE u # t
        <4>1. teller[u] = d /\ Sound(d)
          BY <3>2, <2>1, <1>1
        <4>2. QED
          BY <4>1, SoundStays DEF DirectoryInv
      <3>3. QED
        BY <3>1, <3>2
    <2>3. QED
      BY <2>1, <2>2
  <1>4. QED
    BY <1>2, <1>3 DEF TellersInv

(* A call that leaves the rows.                                            *)
LEMMA OnlyTellerMoves ==
  ASSUME DirectoryInv, NEW t \in Tellers, NEW c \in TellerRec, Sound(c),
         teller' = [teller EXCEPT ![t] = c], UNCHANGED <<row, standing, unseen>>
  PROVE  DirectoryInv'
  <1>1. Lasting
    BY DEF Lasting
  <1>2. RowsInv'
    BY DEF DirectoryInv, RowsInv, Paired, Referenced, TwoMarkedOnlyUnseen
  <1>3. Sound(c)'
    BY <1>1, SoundStays DEF DirectoryInv
  <1>4. QED
    BY <1>1, <1>2, <1>3, TellerMoves DEF DirectoryInv

LEMMA FailKeeps ==
  ASSUME DirectoryInv, NEW t \in Tellers, Fail(t)
  PROVE  DirectoryInv'
  BY ReadyCall, ReadyIsSound, OnlyTellerMoves DEF Fail, Reply

(* A row is written and others are cleared.  Whoever is marked beside it   *)
(* is a stranger, or was before.                                           *)
LEMMA WriteKeepsRows ==
  ASSUME RowsInv, NEW x \in Rows, NEW rec \in RowRec,
         NEW cleared \in SUBSET Rows, NEW strangers \in SUBSET Rows,
         Write(x, rec, cleared, strangers),
         standing' \in [Groups -> {"none", "live", "archived"}],
         \A g \in Groups : standing[g] # "none" => standing'[g] # "none",
         There(x) => rec.table = row[x].table /\ rec.group = row[x].group,
         rec.table = "contact" => rec.group \in Groups /\ standing'[rec.group] # "none",
         rec.link # Nil => rec.table = "site" /\ row[rec.link].table = "contact",
         rec.marked => \/ Rows \subseteq cleared \cup strangers
                       \/ /\ row[x].marked
                          /\ rec.table = row[x].table /\ rec.group = row[x].group
  PROVE  RowsInv' /\ Lasting
  <1>1. /\ row \in [Rows -> RowRec] /\ Referenced /\ TwoMarkedOnlyUnseen /\ Paired
        /\ Nil \notin Rows
    BY DirectoryAssumption DEF RowsInv
  <1>2. row' = [y \in Rows |->
          IF y = x THEN rec
          ELSE IF y \in cleared THEN [row[y] EXCEPT !.marked = FALSE] ELSE row[y]]
    BY DEF Write
  <1>3. unseen' = {pair \in unseen \cup {{x, y} : y \in strangers \ {x}} :
                     \A y \in pair : row'[y].marked}
    BY DEF Write
  <1>4. row'[x] = rec
    BY <1>2
  <1>5. ASSUME NEW y \in Rows, y # x
        PROVE  /\ row'[y] \in RowRec /\ row'[y].table = row[y].table
               /\ row'[y].group = row[y].group /\ row'[y].link = row[y].link
               /\ row'[y].marked => row[y].marked /\ y \notin cleared
    BY <1>1, <1>2, <1>5 DEF RowRec
  <1>6. row' \in [Rows -> RowRec]
    BY <1>2, <1>4, <1>5
  <1>7. Lasting
    BY <1>4, <1>5 DEF Lasting
  <1>8. Paired'
    <2>1. \A pair \in unseen' : \/ pair \in unseen
                                \/ \E y \in strangers \ {x} : pair = {x, y}
      BY <1>3
    <2>2. ASSUME NEW y \in strangers \ {x}
          PROVE  {x, y} \subseteq Rows /\ Cardinality({x, y}) = 2
      <3>1. IsFiniteSet({x}) /\ Cardinality({x}) = 1
        BY FS_Singleton
      <3>2. Cardinality({x} \cup {y}) = 2
        <4>1. Cardinality({x} \cup {y}) = IF y \in {x} THEN Cardinality({x}) ELSE Cardinality({x}) + 1
          BY <3>1, FS_AddElement
        <4>2. QED
          BY <4>1, <3>1
      <3>3. {x} \cup {y} = {x, y}
        OBVIOUS
      <3>4. QED
        BY <3>2, <3>3
    <2>3. QED
      BY <1>1, <2>1, <2>2 DEF Paired
  <1>9. Referenced'
    <2> SUFFICES ASSUME NEW y \in Rows
                 PROVE  /\ row'[y].table = "contact"
                           => row'[y].group \in Groups /\ standing'[row'[y].group] # "none"
                        /\ row'[y].link # Nil
                           => row'[y].table = "site" /\ row'[row'[y].link].table = "contact"
      BY DEF Referenced
    <2>1. \A z \in Rows : row[z].table = "contact" => row'[z].table = "contact"
      BY <1>7 DEF Lasting, There
    <2>2. CASE y = x
      <3>1. rec.link \in Rows \cup {Nil}
        BY DEF RowRec
      <3>2. QED
        BY <3>1, <2>1, <2>2, <1>4
    <2>3. CASE y # x
      <3>1. row[y].link \in Rows \cup {Nil}
        BY <1>1 DEF RowRec
      <3>2. /\ row[y].table = "contact"
               => row[y].group \in Groups /\ standing[row[y].group] # "none"
            /\ row[y].link # Nil => row[y].table = "site" /\ row[row[y].link].table = "contact"
        BY <1>1 DEF Referenced
      <3>3. QED
        BY <3>1, <3>2, <2>1, <2>3, <1>5
    <2>4. QED
      BY <2>2, <2>3
  <1>10. ASSUME NEW y \in Rows, NEW z \in Rows, y # z, row'[y].marked, row'[z].marked,
                row'[y].table = row'[z].table, row'[y].group = row'[z].group
         PROVE  {y, z} \in unseen'
    <2>1. ASSUME NEW w \in Rows, w # x, row'[x].marked, row'[w].marked,
                 row'[x].table = row'[w].table, row'[x].group = row'[w].group
          PROVE  {x, w} \in unseen'
      <3>1. w \notin cleared /\ row[w].marked
        BY <2>1, <1>5
      <3>2. CASE w \in strangers
        BY <3>2, <2>1, <1>3
      <3>3. CASE w \notin strangers
        <4>1. row[x].marked /\ rec.table = row[x].table /\ rec.group = row[x].group
          BY <3>1, <3>3, <2>1, <1>4
        <4>2. row[x].table = row[w].table /\ row[x].group = row[w].group
          BY <4>1, <2>1, <1>4, <1>5
        <4>3. {x, w} \in unseen
          BY <4>1, <4>2, <3>1, <2>1, <1>1 DEF TwoMarkedOnlyUnseen
        <4>4. QED
          BY <4>3, <2>1, <1>3
      <3>4. QED
        BY <3>2, <3>3
    <2>2. CASE y = x
      BY <2>1, <2>2, <1>10
    <2>3. CASE z = x
      <3>1. {x, y} \in unseen'
        BY <2>1, <2>3, <1>10
      <3>2. {x, y} = {y, z}
        BY <2>3
      <3>3. QED
        BY <3>1, <3>2
    <2>4. CASE y # x /\ z # x
      <3>1. {y, z} \in unseen
        BY <2>4, <1>1, <1>5, <1>10 DEF TwoMarkedOnlyUnseen
      <3>2. QED
        BY <3>1, <1>3, <1>10
    <2>5. QED
      BY <2>2, <2>3, <2>4
  <1>11. TwoMarkedOnlyUnseen'
    BY <1>10 DEF TwoMarkedOnlyUnseen
  <1>12. QED
    BY <1>6, <1>7, <1>8, <1>9, <1>11 DEF RowsInv

-----------------------------------------------------------------------------
LEMMA AcceptKeeps ==
  ASSUME DirectoryInv, NEW t \in Tellers, NEW c \in TellerRec, Sound(c),
         Accept(t, c), UNCHANGED <<row, standing, unseen>>
  PROVE  DirectoryInv'
  BY OnlyTellerMoves DEF Accept

LEMMA DemandKeeps ==
  ASSUME DirectoryInv, NEW t \in Tellers, NEW c \in TellerRec,
         NEW table \in Tables, NEW g \in Groups \cup {Nil},
         NewSound(c), c.op = "idle",
         c.row = Nil /\ c.new.link # Nil => c.new.table = "site",
         c.row # Nil /\ c.new.link # Nil => row[c.row].table = "site",
         Demand(t, c, table, g)
  PROVE  DirectoryInv'
  <1>1. CASE c.mark = "yes"
    <2> DEFINE d == [c EXCEPT !.op = "clear", !.knew = Members(table, g),
                              !.clears = Clearable(table, g)]
    <2>1. Members(table, g) \in SUBSET Rows /\ Clearable(table, g) = Members(table, g)
      BY DEF Members, Clearable
    <2>2. /\ d \in TellerRec /\ d.op = "clear" /\ d.row = c.row /\ d.new = c.new
          /\ d.missed = c.missed /\ d.mark = c.mark /\ d.knew = d.clears
      BY <2>1 DEF TellerRec
    <2>3. Sound(d)
      BY <2>2 DEF Sound, NewSound, WriterSound, InviterSound, BookerSound
    <2>4. Accept(t, d) /\ UNCHANGED <<row, standing, unseen>>
      BY <1>1 DEF Demand
    <2> HIDE DEF d
    <2>5. QED
      BY <2>2, <2>3, <2>4, AcceptKeeps
  <1>2. CASE c.mark # "yes"
    <2> DEFINE d == [c EXCEPT !.op = "write"]
    <2>1. /\ d \in TellerRec /\ d.op = "write" /\ d.row = c.row /\ d.new = c.new
          /\ d.missed = c.missed /\ d.mark = c.mark
      BY DEF TellerRec
    <2>2. Sound(d)
      BY <1>2, <2>1 DEF Sound, NewSound, WriterSound, InviterSound, BookerSound
    <2>3. Accept(t, d) /\ UNCHANGED <<row, standing, unseen>>
      BY <1>2 DEF Demand
    <2> HIDE DEF d
    <2>4. QED
      BY <2>1, <2>2, <2>3, AcceptKeeps
  <1>3. QED
    BY <1>1, <1>2

LEMMA CreateRowKeeps ==
  ASSUME DirectoryInv, NEW t \in Tellers, NEW table \in Tables, NEW g \in Groups,
         NEW mark \in Marks, NEW link \in Rows \cup {Nil}, createRow(t, table, g, mark, link)
  PROVE  DirectoryInv'
  <1> DEFINE new == [NoRow EXCEPT !.table = table, !.group = g, !.link = link]
             c == [Ready EXCEPT !.mark = mark, !.new = new]
  <1>1. new \in RowRec /\ new.table = table /\ new.group = g /\ new.link = link
    BY ReadyCall DEF RowRec
  <1>2. /\ c \in TellerRec /\ c.op = "idle" /\ c.row = Nil /\ c.new = new
    <2> HIDE DEF new
    <2>1. QED
      BY <1>1, ReadyCall DEF TellerRec
  <1>3. /\ table = "contact" => standing[g] = "live"
        /\ link # Nil => table = "site" /\ row[link].table = "contact"
        /\ Demand(t, c, table, g)
    BY DEF createRow
  <1> HIDE DEF c, new
  <1>4. NewSound(c)
    BY <1>1, <1>2, <1>3 DEF NewSound
  <1>5. QED
    BY <1>1, <1>2, <1>3, <1>4, DemandKeeps

LEMMA UpdateRowKeeps ==
  ASSUME DirectoryInv, NEW t \in Tellers, NEW x \in Rows,
         NEW mark \in Marks, NEW link \in Rows \cup {Nil}, updateRow(t, x, mark, link)
  PROVE  DirectoryInv'
  <1> DEFINE new == [NoRow EXCEPT !.link = link]
             c == [Ready EXCEPT !.mark = mark, !.row = x, !.new.link = link]
  <1>1. new \in RowRec /\ new.table = "none" /\ new.link = link
    BY ReadyCall DEF RowRec
  <1>2. c \in TellerRec /\ c.op = "idle" /\ c.row = x /\ c.new = new
    <2>1. c = [Ready EXCEPT !.mark = mark, !.row = x, !.new = new]
      BY ReadyCall DEF TellerRec
    <2> HIDE DEF c, new
    <2>2. QED
      BY <2>1, <1>1, ReadyCall DEF TellerRec
  <1>3. /\ There(x)
        /\ link # Nil => row[x].table = "site" /\ row[link].table = "contact"
        /\ Demand(t, c, row[x].table, row[x].group)
    BY DEF updateRow
  <1>4. PICK table \in Tables, g \in Groups \cup {Nil} : table = row[x].table /\ g = row[x].group
    <2>1. row[x] \in RowRec /\ row[x].table # "none"
      BY <1>3 DEF There, DirectoryInv, RowsInv
    <2>2. QED
      BY <2>1 DEF RowRec
  <1> HIDE DEF c, new
  <1>5. Demand(t, c, table, g)
    BY <1>3, <1>4
  <1>6. /\ NewSound(c) /\ x # Nil
        /\ c.new.link # Nil => row[c.row].table = "site"
    BY <1>1, <1>2, <1>3, DirectoryAssumption DEF NewSound, There
  <1>7. QED
    BY <1>2, <1>5, <1>6, DemandKeeps

LEMMA ClearMarksKeeps ==
  ASSUME DirectoryInv, NEW t \in Tellers, clearMarks(t)
  PROVE  DirectoryInv'
  <1>1. PICK c \in TellerRec : teller[t] = c /\ Sound(c)
    BY DEF DirectoryInv, TellersInv
  <1> DEFINE d == [c EXCEPT !.op = "write"]
  <1>2. c.op = "clear" /\ teller' = [teller EXCEPT ![t] = d] /\ UNCHANGED <<row, standing, unseen>>
    BY <1>1 DEF clearMarks, DirectoryInv, TellersInv
  <1>3. /\ d \in TellerRec /\ d.op = "write" /\ d.row = c.row /\ d.new = c.new /\ d.mark = c.mark
        /\ d.missed = c.missed /\ d.knew = c.knew /\ d.clears = c.clears
    BY DEF TellerRec
  <1> HIDE DEF d
  <1>4. Sound(d)
    BY <1>1, <1>2, <1>3 DEF Sound, NewSound, WriterSound, InviterSound, BookerSound
  <1>5. QED
    BY <1>2, <1>3, <1>4, OnlyTellerMoves

LEMMA NumberBookingKeeps ==
  ASSUME DirectoryInv, NEW t \in Tellers, numberBooking(t)
  PROVE  DirectoryInv'
  <1>1. PICK c \in TellerRec : teller[t] = c /\ Sound(c)
    BY DEF DirectoryInv, TellersInv
  <1> DEFINE d == [c EXCEPT !.op = "numbered"]
  <1>2. c.op = "book" /\ teller' = [teller EXCEPT ![t] = d] /\ UNCHANGED <<row, standing, unseen>>
    BY <1>1 DEF numberBooking, DirectoryInv, TellersInv
  <1>3. /\ d \in TellerRec /\ d.op = "numbered" /\ d.row = c.row /\ d.new = c.new
        /\ d.missed = c.missed
    BY DEF TellerRec
  <1> HIDE DEF d
  <1>4. Sound(d)
    BY <1>1, <1>2, <1>3 DEF Sound, NewSound, WriterSound, InviterSound, BookerSound
  <1>5. QED
    BY <1>2, <1>3, <1>4, OnlyTellerMoves

LEMMA InviteKeeps ==
  ASSUME DirectoryInv, NEW t \in Tellers, NEW x \in Rows, NEW g \in Groups,
         inviteFacilityContact(t, x, g)
  PROVE  DirectoryInv'
  <1>1. row[x] \in RowRec /\ row[x].marked \in BOOLEAN
    BY DEF DirectoryInv, RowsInv, RowRec
  <1> DEFINE new == [NoRow EXCEPT !.table = "contact", !.group = g, !.marked = row[x].marked]
             c == [Ready EXCEPT !.op = "invite", !.row = x, !.new = new]
  <1>2. new \in RowRec /\ new.table = "contact" /\ new.group = g /\ new.link = Nil
    BY <1>1, ReadyCall DEF RowRec, Tables
  <1>3. /\ row[x].table = "site" /\ standing[g] # "none"
        /\ Accept(t, c) /\ UNCHANGED <<row, standing, unseen>>
    BY DEF inviteFacilityContact
  <1>4. /\ c \in TellerRec /\ c.op = "invite" /\ c.row = x /\ c.new = new
    <2> HIDE DEF new
    <2>1. QED
      BY <1>2, ReadyCall DEF TellerRec
  <1> HIDE DEF c, new
  <1>5. Sound(c)
    BY <1>2, <1>3, <1>4 DEF Sound, NewSound, WriterSound, InviterSound, BookerSound
  <1>6. QED
    BY <1>3, <1>4, <1>5, AcceptKeeps

LEMMA FindOrCreateKeeps ==
  ASSUME DirectoryInv, NEW t \in Tellers, NEW g \in Groups \cup {Nil}, NEW x \in Rows \cup {Nil},
         findOrCreate(t, g, x)
  PROVE  DirectoryInv'
  <1> DEFINE new == [NoRow EXCEPT !.group = g]
             c == [Ready EXCEPT !.op = "book", !.row = x, !.new = new]
  <1>1. new \in RowRec /\ new.table = "none" /\ new.group = g /\ new.link = Nil
    BY ReadyCall DEF RowRec
  <1>2. /\ g # Nil => standing[g] = "live"
        /\ x # Nil => g # Nil /\ x \in Members("contact", g)
        /\ Accept(t, c) /\ UNCHANGED <<row, standing, unseen>>
    BY DEF findOrCreate
  <1>3. /\ c \in TellerRec /\ c.op = "book" /\ c.row = x /\ c.new = new
    <2> HIDE DEF new
    <2>1. QED
      BY <1>1, ReadyCall DEF TellerRec
  <1> HIDE DEF c, new
  <1>4. x # Nil => row[x].table = "contact" /\ row[x].group = g
    BY <1>2 DEF Members
  <1>5. Sound(c)
    BY <1>1, <1>2, <1>3, <1>4 DEF Sound, NewSound, WriterSound, InviterSound, BookerSound
  <1>6. QED
    BY <1>2, <1>3, <1>5, AcceptKeeps

LEMMA CommitUpdateKeeps ==
  ASSUME DirectoryInv, NEW t \in Tellers, commitUpdate(t)
  PROVE  DirectoryInv'
  <1>1. PICK c \in TellerRec : teller[t] = c /\ Sound(c)
    BY DEF DirectoryInv, TellersInv
  <1>2. CASE c.missed
    BY <1>1, <1>2, FailKeeps DEF commitUpdate
  <1>3. CASE ~c.missed
    <2>1. c.op = "write" /\ c.row # Nil /\ c.row \in Rows
      BY <1>1 DEF commitUpdate, TellerRec
    <2>2. PICK x \in Rows : x = c.row
      BY <2>1
    <2>3. PICK old \in RowRec : old = row[x]
      BY DEF DirectoryInv, RowsInv
    <2> DEFINE link == IF c.new.link = Nil THEN old.link ELSE c.new.link
               marked == IF c.mark = "keep" THEN old.marked ELSE c.mark = "yes"
               rec == [old EXCEPT !.link = link, !.marked = marked]
               strangers == IF c.mark = "yes" THEN Rows \ c.knew ELSE {}
    <2>4. Write(x, rec, c.clears, strangers) /\ Reply(t) /\ UNCHANGED standing
      BY <1>1, <1>3, <2>2, <2>3 DEF commitUpdate
    <2>5. c.new \in RowRec /\ c.clears \in SUBSET Rows /\ c.knew \in SUBSET Rows /\ c.mark \in Marks
      BY DEF TellerRec
    <2>6. /\ rec \in RowRec /\ rec.table = old.table /\ rec.group = old.group
          /\ rec.link = link /\ rec.marked = marked
      BY <2>5 DEF RowRec
    <2>7. strangers \in SUBSET Rows
      OBVIOUS
    <2>8. c.mark = "yes" => Rows \subseteq c.clears \cup strangers
      BY <1>1, <2>1 DEF Sound, WriterSound
    <2>9. rec.marked => \/ Rows \subseteq c.clears \cup strangers
                        \/ /\ row[x].marked
                           /\ rec.table = row[x].table /\ rec.group = row[x].group
      BY <2>3, <2>6, <2>8
    <2>10. /\ old.table = "contact" => old.group \in Groups /\ standing[old.group] # "none"
           /\ old.link # Nil => old.table = "site" /\ row[old.link].table = "contact"
      BY <2>2, <2>3 DEF DirectoryInv, RowsInv, Referenced
    <2>11. c.new.link # Nil => old.table = "site" /\ row[c.new.link].table = "contact"
      BY <1>1, <1>3, <2>1, <2>2, <2>3 DEF Sound, WriterSound, NewSound
    <2>12. rec.link # Nil => rec.table = "site" /\ row[rec.link].table = "contact"
      BY <2>6, <2>10, <2>11
    <2> HIDE DEF rec, strangers, link, marked
    <2>13. RowsInv' /\ Lasting
      <3>1. RowsInv /\ standing' = standing /\ standing \in [Groups -> {"none", "live", "archived"}]
        BY <2>4 DEF DirectoryInv, RowsInv
      <3>2. QED
        BY <3>1, <2>3, <2>4, <2>5, <2>6, <2>7, <2>9, <2>10, <2>12, WriteKeepsRows
    <2>14. Sound(Ready)'
      BY <2>13, ReadyCall, ReadyIsSound, SoundStays DEF DirectoryInv
    <2>15. TellersInv'
      BY <2>4, <2>13, <2>14, ReadyCall, TellerMoves DEF Reply
    <2>16. QED
      BY <2>13, <2>15 DEF DirectoryInv
  <1>4. QED
    BY <1>2, <1>3

LEMMA CommitCreateKeeps ==
  ASSUME DirectoryInv, NEW t \in Tellers, NEW x \in Rows, commitCreate(t, x)
  PROVE  DirectoryInv'
  <1>1. PICK c \in TellerRec : teller[t] = c /\ Sound(c)
    BY DEF DirectoryInv, TellersInv
  <1>2. CASE c.missed
    BY <1>1, <1>2, FailKeeps DEF commitCreate
  <1>3. CASE ~c.missed
    <2> DEFINE rec == [c.new EXCEPT !.marked = c.mark = "yes"]
               strangers == Rows \ c.knew
    <2>1. /\ Write(x, rec, c.clears, strangers) /\ Reply(t) /\ UNCHANGED standing
          /\ c.op = "write" /\ c.row = Nil /\ ~There(x)
      BY <1>1, <1>3 DEF commitCreate
    <2>2. c.new \in RowRec /\ c.clears \in SUBSET Rows /\ c.knew \in SUBSET Rows
      BY DEF TellerRec
    <2>3. /\ rec \in RowRec /\ rec.table = c.new.table /\ rec.group = c.new.group
          /\ rec.link = c.new.link /\ rec.marked = (c.mark = "yes")
      BY <2>2 DEF RowRec
    <2>4. strangers \in SUBSET Rows
      OBVIOUS
    <2>5. c.mark = "yes" => Rows \subseteq c.clears \cup strangers
      BY <1>1, <2>1 DEF Sound, WriterSound
    <2>6. /\ rec.table = "contact" => rec.group \in Groups /\ standing[rec.group] # "none"
          /\ rec.link # Nil => rec.table = "site" /\ row[rec.link].table = "contact"
      BY <1>1, <1>3, <2>1, <2>3 DEF Sound, WriterSound, NewSound
    <2> HIDE DEF rec, strangers
    <2>7. RowsInv' /\ Lasting
      <3>1. RowsInv /\ standing' = standing /\ standing \in [Groups -> {"none", "live", "archived"}]
        BY <2>1 DEF DirectoryInv, RowsInv
      <3>2. QED
        BY <3>1, <2>1, <2>2, <2>3, <2>4, <2>5, <2>6, WriteKeepsRows
    <2>8. Sound(Ready)'
      BY <2>7, ReadyCall, ReadyIsSound, SoundStays DEF DirectoryInv
    <2>9. TellersInv'
      BY <2>1, <2>7, <2>8, ReadyCall, TellerMoves DEF Reply
    <2>10. QED
      BY <2>7, <2>9 DEF DirectoryInv
  <1>4. QED
    BY <1>2, <1>3

LEMMA CreateInvitedKeeps ==
  ASSUME DirectoryInv, NEW t \in Tellers, NEW y \in Rows, createInvited(t, y)
  PROVE  DirectoryInv'
  <1>1. PICK c \in TellerRec : teller[t] = c /\ Sound(c)
    BY DEF DirectoryInv, TellersInv
  <1> DEFINE new == [NoRow EXCEPT !.link = y]
             d == [c EXCEPT !.op = "link", !.new = new]
  <1>2. /\ c.op = "invite" /\ ~There(y) /\ standing' = standing
        /\ Write(y, c.new, {}, Rows) /\ teller' = [teller EXCEPT ![t] = d]
    BY <1>1 DEF createInvited, DirectoryInv, TellersInv
  <1>3. /\ c.row \in Rows /\ c.new.table = "contact" /\ c.new.link = Nil
        /\ c.new.group \in Groups /\ standing[c.new.group] # "none"
        /\ ~c.missed => row[c.row].table = "site"
    BY <1>1, <1>2 DEF Sound, InviterSound, NewSound
  <1>4. c.new \in RowRec
    BY DEF TellerRec
  <1>5. RowsInv' /\ Lasting
    <2>1. RowsInv /\ standing \in [Groups -> {"none", "live", "archived"}]
          /\ Rows \subseteq {} \cup Rows /\ {} \in SUBSET Rows /\ Rows \in SUBSET Rows
      BY DEF DirectoryInv, RowsInv
    <2>2. QED
      BY <2>1, <1>2, <1>3, <1>4, WriteKeepsRows
  <1>6. new \in RowRec /\ new.table = "none" /\ new.link = y
    BY ReadyCall DEF RowRec
  <1>7. d \in TellerRec /\ d.op = "link" /\ d.new = new /\ d.row = c.row /\ d.missed = c.missed
    <2> HIDE DEF new
    <2>1. QED
      BY <1>6 DEF TellerRec
  <1> HIDE DEF d, new
  <1>8. row'[y].table = "contact" /\ (~c.missed => row'[c.row].table = "site")
    <2>1. row'[y] = c.new
      BY <1>2 DEF Write
    <2>2. ~c.missed => row'[c.row].table = "site"
      BY <1>3, <1>5 DEF Lasting, There
    <2>3. QED
      BY <2>1, <2>2, <1>3
  <1>9. Sound(d)'
    BY <1>3, <1>6, <1>7, <1>8 DEF Sound, NewSound, WriterSound, InviterSound, BookerSound
  <1>10. TellersInv'
    BY <1>2, <1>5, <1>7, <1>9, TellerMoves
  <1>11. QED
    BY <1>5, <1>10 DEF DirectoryInv

-----------------------------------------------------------------------------
LEMMA LinkInvitedKeeps ==
  ASSUME DirectoryInv, NEW t \in Tellers, linkInvited(t)
  PROVE  DirectoryInv'
  <1>1. PICK c \in TellerRec : teller[t] = c /\ Sound(c)
    BY DEF DirectoryInv, TellersInv
  <1>2. CASE c.missed
    BY <1>1, <1>2, FailKeeps DEF linkInvited
  <1>3. CASE ~c.missed
    <2>1. c.op = "link" /\ c.row \in Rows /\ c.new.link \in Rows
      BY <1>1 DEF linkInvited, Sound, InviterSound
    <2>2. PICK x \in Rows, y \in Rows : x = c.row /\ y = c.new.link
      BY <2>1
    <2>3. row' = [row EXCEPT ![x].link = y] /\ Reply(t) /\ UNCHANGED <<standing, unseen>>
      BY <1>1, <1>3, <2>2 DEF linkInvited
    <2>4. row[x].table = "site" /\ row[y].table = "contact"
      BY <1>1, <1>3, <2>1, <2>2, DirectoryAssumption DEF Sound, InviterSound, NewSound
    <2>5. /\ row \in [Rows -> RowRec] /\ standing \in [Groups -> {"none", "live", "archived"}]
          /\ Paired /\ Referenced /\ TwoMarkedOnlyUnseen
      BY DEF DirectoryInv, RowsInv
    <2>6. /\ row' \in [Rows -> RowRec] /\ row'[x].link = y
          /\ \A z \in Rows : /\ row'[z].table = row[z].table /\ row'[z].group = row[z].group
                             /\ row'[z].marked = row[z].marked
                             /\ z # x => row'[z].link = row[z].link
      <3>1. row' = [z \in Rows |-> IF z = x THEN [row[z] EXCEPT !.link = y] ELSE row[z]]
        BY <2>3, <2>5
      <3>2. ASSUME NEW z \in Rows
            PROVE  /\ row'[z] \in RowRec
                   /\ row'[z].table = row[z].table /\ row'[z].group = row[z].group
                   /\ row'[z].marked = row[z].marked
                   /\ z # x => row'[z].link = row[z].link
                   /\ z = x => row'[z].link = y
        BY <3>1, <2>5 DEF RowRec
      <3>3. QED
        BY <3>1, <3>2
    <2>7. Lasting
      BY <2>3, <2>6 DEF Lasting
    <2>8. Referenced'
      <3>1. \A z \in Rows : row[z].link \in Rows \cup {Nil}
        BY <2>5 DEF RowRec
      <3>2. QED
        BY <3>1, <2>3, <2>4, <2>5, <2>6 DEF Referenced
    <2>9. RowsInv'
      BY <2>3, <2>5, <2>6, <2>8 DEF RowsInv, Paired, TwoMarkedOnlyUnseen
    <2>10. Sound(Ready)'
      BY <2>7, ReadyCall, ReadyIsSound, SoundStays DEF DirectoryInv
    <2>11. TellersInv'
      BY <2>3, <2>7, <2>10, ReadyCall, TellerMoves DEF Reply
    <2>12. QED
      BY <2>9, <2>11 DEF DirectoryInv
  <1>4. QED
    BY <1>2, <1>3

LEMMA CommitBookingKeeps ==
  ASSUME DirectoryInv, NEW t \in Tellers, NEW g \in Groups, NEW x \in Rows, commitBooking(t, g, x)
  PROVE  DirectoryInv'
  <1>1. PICK c \in TellerRec : teller[t] = c /\ Sound(c)
    BY DEF DirectoryInv, TellersInv
  <1>2. CASE c.missed
    BY <1>1, <1>2, FailKeeps DEF commitBooking
  <1>3. CASE ~c.missed
    <2> DEFINE rec == [NoRow EXCEPT !.table = "contact", !.group = g, !.marked = TRUE]
    <2>1. /\ c.op = "numbered"
          /\ IF c.new.group = Nil THEN standing[g] = "none" ELSE g = c.new.group
          /\ IF c.row = Nil THEN ~There(x) ELSE x = c.row
          /\ Write(x, rec, {}, Rows)
          /\ standing' = [standing EXCEPT ![g] = IF @ = "none" THEN "live" ELSE @]
          /\ teller' = [u \in Tellers |->
               IF u = t THEN Ready
               ELSE IF teller[u].op = "numbered" THEN [teller[u] EXCEPT !.missed = TRUE]
               ELSE teller[u]]
      BY <1>1, <1>3 DEF commitBooking
    <2>2. /\ rec \in RowRec /\ rec.table = "contact" /\ rec.group = g /\ rec.link = Nil
      BY ReadyCall DEF RowRec, Tables
    <2>3. standing \in [Groups -> {"none", "live", "archived"}]
      BY DEF DirectoryInv, RowsInv
    <2>4. /\ standing' \in [Groups -> {"none", "live", "archived"}] /\ standing'[g] # "none"
          /\ \A h \in Groups : standing[h] # "none" => standing'[h] # "none"
      BY <2>1, <2>3
    <2>5. There(x) => rec.table = row[x].table /\ rec.group = row[x].group
      BY <1>1, <1>3, <2>1, <2>2 DEF Sound, BookerSound
    <2> HIDE DEF rec
    <2>6. RowsInv' /\ Lasting
      <3>1. RowsInv /\ Rows \subseteq {} \cup Rows /\ {} \in SUBSET Rows /\ Rows \in SUBSET Rows
        BY DEF DirectoryInv
      <3>2. QED
        BY <3>1, <2>1, <2>2, <2>4, <2>5, WriteKeepsRows
    <2>7. teller \in [Tellers -> TellerRec] /\ \A u \in Tellers : Sound(teller[u])
      BY DEF DirectoryInv, TellersInv
    <2>8. ASSUME NEW u \in Tellers PROVE teller'[u] \in TellerRec /\ Sound(teller[u])'
      <3>1. PICK old \in TellerRec : teller[u] = old /\ Sound(old)
        BY <2>7
      <3>2. PICK d : teller'[u] = d
        OBVIOUS
      <3>3. Sound(old)' /\ Sound([old EXCEPT !.missed = TRUE])' /\ Sound(Ready)'
        BY <2>6, <3>1, ReadyCall, ReadyIsSound, SoundStays DEF DirectoryInv
      <3>4. d \in {old, [old EXCEPT !.missed = TRUE], Ready}
        BY <2>1, <3>1, <3>2
      <3>5. d \in TellerRec
        BY <3>4, ReadyCall DEF TellerRec
      <3>6. Sound(d)'
        BY <3>3, <3>4
      <3>7. QED
        BY <3>2, <3>5, <3>6
    <2>9. TellersInv'
      <3>1. teller' \in [Tellers -> TellerRec]
        BY <2>1, <2>8
      <3>2. QED
        BY <3>1, <2>8 DEF TellersInv
    <2>10. QED
      BY <2>6, <2>9 DEF DirectoryInv
  <1>4. QED
    BY <1>2, <1>3

(* No teller moves.                                                        *)
LEMMA TellersStay ==
  ASSUME DirectoryInv, Lasting, teller' = teller
  PROVE  TellersInv'
  <1>1. teller \in [Tellers -> TellerRec] /\ \A u \in Tellers : Sound(teller[u])
    BY DEF DirectoryInv, TellersInv
  <1>2. ASSUME NEW u \in Tellers PROVE Sound(teller[u])'
    <2>1. PICK d \in TellerRec : teller[u] = d /\ Sound(d)
      BY <1>1
    <2>2. Sound(d)' /\ teller'[u] = d
      BY <2>1, SoundStays DEF DirectoryInv
    <2>3. QED
      BY <2>2
  <1>3. QED
    BY <1>1, <1>2 DEF TellersInv

LEMMA DeactivatePriceKeeps ==
  ASSUME DirectoryInv, NEW x \in Rows, deactivatePrice(x)
  PROVE  DirectoryInv'
  <1>1. PICK old \in RowRec : old = row[x]
    BY DEF DirectoryInv, RowsInv
  <1> DEFINE rec == [old EXCEPT !.marked = FALSE]
  <1>2. old.table = "price" /\ Write(x, rec, {}, {}) /\ UNCHANGED <<standing, teller>>
    BY <1>1 DEF deactivatePrice
  <1>3. /\ rec \in RowRec /\ rec.table = "price" /\ rec.group = old.group
        /\ rec.link = old.link /\ ~rec.marked
    BY <1>2 DEF RowRec
  <1>4. old.link # Nil => old.table = "site"
    BY <1>1 DEF DirectoryInv, RowsInv, Referenced
  <1> HIDE DEF rec
  <1>5. RowsInv' /\ Lasting
    <2>1. RowsInv /\ standing' = standing /\ standing \in [Groups -> {"none", "live", "archived"}]
      BY <1>2 DEF DirectoryInv, RowsInv
    <2>2. QED
      BY <2>1, <1>1, <1>2, <1>3, <1>4, WriteKeepsRows
  <1>6. QED
    BY <1>2, <1>5, TellersStay DEF DirectoryInv

(* A contact goes: links to it are cut, and calls that are to write it or  *)
(* to name it are told.                                                    *)
LEMMA DeleteRowKeeps ==
  ASSUME DirectoryInv, NEW x \in Rows, deleteContact(x)
  PROVE  DirectoryInv'
  <1>1. /\ row \in [Rows -> RowRec] /\ standing \in [Groups -> {"none", "live", "archived"}]
        /\ Paired /\ Referenced /\ TwoMarkedOnlyUnseen
        /\ teller \in [Tellers -> TellerRec] /\ \A u \in Tellers : Sound(teller[u])
        /\ Nil \notin Rows \cup Groups
    BY DirectoryAssumption DEF DirectoryInv, RowsInv, TellersInv
  <1>2. /\ row' = [y \in Rows |->
                     IF y = x THEN NoRow
                     ELSE IF row[y].link = x THEN [row[y] EXCEPT !.link = Nil] ELSE row[y]]
        /\ unseen' = {pair \in unseen : x \notin pair}
        /\ teller' = [t \in Tellers |->
             [teller[t] EXCEPT !.clears = @ \ {x}, !.knew = @ \ {x},
                               !.missed = @ \/ x \in {teller[t].row, teller[t].new.link}]]
        /\ standing' = standing
    BY DEF deleteContact
  <1>3. ASSUME NEW y \in Rows
        PROVE  /\ row'[y] \in RowRec
               /\ y = x => row'[y] = NoRow
               /\ y # x => /\ row'[y].table = row[y].table /\ row'[y].group = row[y].group
                           /\ row'[y].marked = row[y].marked
                           /\ row'[y].link = IF row[y].link = x THEN Nil ELSE row[y].link
    BY <1>1, <1>2, ReadyCall DEF RowRec
  <1>4. row' \in [Rows -> RowRec]
    BY <1>2, <1>3
  <1>5. Referenced'
    <2> SUFFICES ASSUME NEW y \in Rows
                 PROVE  /\ row'[y].table = "contact"
                           => row'[y].group \in Groups /\ standing'[row'[y].group] # "none"
                        /\ row'[y].link # Nil
                           => row'[y].table = "site" /\ row'[row'[y].link].table = "contact"
      BY DEF Referenced
    <2>1. CASE y = x
      BY <2>1, <1>3, ReadyCall
    <2>2. CASE y # x
      <3>1. row[y].link \in Rows \cup {Nil}
        BY <1>1 DEF RowRec
      <3>2. /\ row[y].table = "contact"
               => row[y].group \in Groups /\ standing[row[y].group] # "none"
            /\ row[y].link # Nil => row[y].table = "site" /\ row[row[y].link].table = "contact"
        BY <1>1 DEF Referenced
      <3>3. row[y].link # Nil /\ row[y].link # x => row'[row[y].link].table = row[row[y].link].table
        BY <3>1, <1>3
      <3>4. QED
        BY <3>1, <3>2, <3>3, <2>2, <1>2, <1>3
    <2>3. QED
      BY <2>1, <2>2
  <1>6. TwoMarkedOnlyUnseen'
    <2> SUFFICES ASSUME NEW y \in Rows, NEW z \in Rows, y # z, row'[y].marked, row'[z].marked,
                        row'[y].table = row'[z].table, row'[y].group = row'[z].group
                 PROVE  {y, z} \in unseen'
      BY DEF TwoMarkedOnlyUnseen
    <2>1. y # x /\ z # x
      BY <1>3, ReadyCall
    <2>2. {y, z} \in unseen
      BY <2>1, <1>1, <1>3 DEF TwoMarkedOnlyUnseen
    <2>3. QED
      BY <2>1, <2>2, <1>2
  <1>7. RowsInv'
    BY <1>1, <1>2, <1>4, <1>5, <1>6 DEF RowsInv, Paired
  <1>8. ASSUME NEW t \in Tellers PROVE teller'[t] \in TellerRec /\ Sound(teller[t])'
    <2>1. PICK c \in TellerRec : teller[t] = c /\ Sound(c)
      BY <1>1
    <2> DEFINE d == [c EXCEPT !.clears = c.clears \ {x}, !.knew = c.knew \ {x},
                              !.missed = c.missed \/ x \in {c.row, c.new.link}]
    <2>2. teller'[t] = d
      BY <1>2, <2>1
    <2>3. /\ d \in TellerRec /\ d.op = c.op /\ d.row = c.row /\ d.new = c.new /\ d.mark = c.mark
          /\ d.clears = c.clears \ {x} /\ d.knew = c.knew \ {x}
          /\ d.missed = (c.missed \/ x \in {c.row, c.new.link})
      BY DEF TellerRec
    <2> HIDE DEF d
    <2>4. ~d.missed => ~c.missed /\ c.row # x /\ c.new.link # x
      BY <2>3
    <2>5. c.row \in Rows \cup {Nil} /\ c.new.link \in Rows \cup {Nil}
      BY DEF TellerRec, RowRec
    <2>6. NewSound(d)'
      BY <2>1, <2>3, <2>4, <2>5, <1>2, <1>3 DEF Sound, NewSound
    <2>7. WriterSound(d)'
      BY <2>1, <2>3, <2>4, <2>5, <1>2, <1>3 DEF Sound, WriterSound
    <2>8. InviterSound(d)'
      BY <2>1, <2>3, <2>4, <2>5, <1>2, <1>3 DEF Sound, InviterSound
    <2>9. BookerSound(d)'
      BY <2>1, <2>3, <2>4, <2>5, <1>2, <1>3 DEF Sound, BookerSound
    <2>10. Sound(d)'
      BY <2>6, <2>7, <2>8, <2>9 DEF Sound
    <2>11. QED
      BY <2>2, <2>3, <2>10
  <1>9. TellersInv'
    <2>1. teller' \in [Tellers -> TellerRec]
      BY <1>2, <1>8
    <2>2. QED
      BY <2>1, <1>8 DEF TellersInv
  <1>10. QED
    BY <1>7, <1>9 DEF DirectoryInv

(* A customer comes, or is archived.                                       *)
LEMMA CustomerKeeps ==
  ASSUME DirectoryInv, NEW g \in Groups, createCustomer(g) \/ archiveCustomer(g)
  PROVE  DirectoryInv'
  <1>1. /\ UNCHANGED <<row, teller, unseen>> /\ standing \in [Groups -> {"none", "live", "archived"}]
        /\ \/ standing' = [standing EXCEPT ![g] = "live"]
           \/ standing' = [standing EXCEPT ![g] = "archived"]
    BY DEF createCustomer, archiveCustomer, DirectoryInv, RowsInv
  <1>2. /\ standing' \in [Groups -> {"none", "live", "archived"}]
        /\ \A h \in Groups : standing[h] # "none" => standing'[h] # "none"
    BY <1>1
  <1>3. Lasting
    BY <1>1, <1>2 DEF Lasting
  <1>4. RowsInv'
    BY <1>1, <1>2 DEF DirectoryInv, RowsInv, Paired, Referenced, TwoMarkedOnlyUnseen
  <1>5. QED
    BY <1>1, <1>3, <1>4, TellersStay DEF DirectoryInv

LEMMA DirectoryStep == DirectoryInv /\ [DirectoryNext]_directoryVars => DirectoryInv'
  <1> SUFFICES ASSUME DirectoryInv, [DirectoryNext]_directoryVars PROVE DirectoryInv'
    OBVIOUS
  <1>1. CASE UNCHANGED directoryVars
    <2>1. UNCHANGED <<row, standing, teller, unseen>>
      BY <1>1 DEF directoryVars
    <2>2. Lasting
      BY <2>1 DEF Lasting
    <2>3. RowsInv'
      BY <2>1 DEF DirectoryInv, RowsInv, Paired, Referenced, TwoMarkedOnlyUnseen
    <2>4. QED
      BY <2>1, <2>2, <2>3, TellersStay DEF DirectoryInv
  <1>2. ASSUME NEW t \in Tellers, NEW table \in Tables, NEW g \in Groups, NEW mark \in Marks,
               NEW link \in Rows \cup {Nil}, createRow(t, table, g, mark, link)
        PROVE  DirectoryInv'
    BY <1>2, CreateRowKeeps
  <1>3. ASSUME NEW t \in Tellers, NEW x \in Rows, NEW mark \in Marks, NEW link \in Rows \cup {Nil},
               updateRow(t, x, mark, link)
        PROVE  DirectoryInv'
    BY <1>3, UpdateRowKeeps
  <1>4. ASSUME NEW t \in Tellers, NEW x \in Rows, commitCreate(t, x) \/ createInvited(t, x)
        PROVE  DirectoryInv'
    BY <1>4, CommitCreateKeeps, CreateInvitedKeeps
  <1>5. ASSUME NEW t \in Tellers, NEW x \in Rows, NEW g \in Groups,
               inviteFacilityContact(t, x, g) \/ commitBooking(t, g, x)
        PROVE  DirectoryInv'
    BY <1>5, InviteKeeps, CommitBookingKeeps
  <1>6. ASSUME NEW t \in Tellers, NEW g \in Groups \cup {Nil}, NEW x \in Rows \cup {Nil},
               findOrCreate(t, g, x)
        PROVE  DirectoryInv'
    BY <1>6, FindOrCreateKeeps
  <1>7. ASSUME NEW t \in Tellers,
               clearMarks(t) \/ commitUpdate(t) \/ linkInvited(t) \/ numberBooking(t)
        PROVE  DirectoryInv'
    BY <1>7, ClearMarksKeeps, CommitUpdateKeeps, LinkInvitedKeeps, NumberBookingKeeps
  <1>8. ASSUME NEW x \in Rows, deactivatePrice(x) \/ deleteContact(x) PROVE DirectoryInv'
    BY <1>8, DeactivatePriceKeeps, DeleteRowKeeps
  <1>9. ASSUME NEW g \in Groups, createCustomer(g) \/ archiveCustomer(g) PROVE DirectoryInv'
    BY <1>9, CustomerKeeps
  <1>10. QED
    BY <1>1, <1>2, <1>3, <1>4, <1>5, <1>6, <1>7, <1>8, <1>9 DEF DirectoryNext

LEMMA DirectoryAlways == DirectorySpec => []DirectoryInv
  BY DirectoryInitially, DirectoryStep, PTL DEF DirectorySpec

(* The types of contacts, prices and the requests about them; a contact    *)
(* has a customer and a link leads to a contact.                           *)
THEOREM DirectoryTypesHold == DirectorySpec => []DirectoryTypeOK
  BY DirectoryTypes, DirectoryAlways, PTL

(* Two primary contacts of one customer, or two default prices of one      *)
(* service, come only of a row that the request which marked the other did *)
(* not see, or of a request that clears nothing.                           *)
THEOREM SecondMarkIsUnseen == DirectorySpec => []TwoMarkedOnlyUnseen
  <1>1. DirectoryInv => TwoMarkedOnlyUnseen
    BY DEF DirectoryInv, RowsInv
  <1>2. QED
    BY <1>1, DirectoryAlways, PTL

-----------------------------------------------------------------------------
(* The five components side by side: a behaviour of one of them keeps the  *)
(* invariants of all.                                                      *)
RecordsInv == DirectoryInv /\ BookInv /\ ListInv /\ TalkInv /\ CaseInv

LEMMA RecordsInitially == Init => RecordsInv
  BY DirectoryInitially, BookInitially, ListInitially, TalkInitially, InitInv DEF Init, RecordsInv

LEMMA RecordsStep == RecordsInv /\ [Next]_vars => RecordsInv'
  <1> SUFFICES ASSUME RecordsInv, [Next]_vars PROVE RecordsInv'
    OBVIOUS
  <1>1. /\ [DirectoryNext]_directoryVars /\ [BookingNext]_bookingVars
        /\ [ListingNext]_listingVars /\ [ConversationNext]_conversationVars
        /\ [CaseNext]_caseVars
    BY DEF Next, vars
  <1>2. QED
    BY <1>1, DirectoryStep, BookStep, ListStep, TalkStep, NextInv DEF RecordsInv

(* The types of all five, in a behaviour of any of them.                   *)
THEOREM RecordsTypeCorrect == Spec => []TypeOK
  <1>1. RecordsInv => TypeOK
    BY DirectoryTypes
       DEF RecordsInv, TypeOK, BookInv, ListInv, TalkInv, CaseInv
  <1>2. QED
    BY <1>1, RecordsInitially, RecordsStep, PTL DEF Spec
=============================================================================
