------------------------- MODULE TaskRuntime_proofs -------------------------
(***************************************************************************)
(* Proofs about TaskRuntime, for any numbers of runs and tasks, any limits *)
(* and any set of requests.                                                *)
(* What the requests in flight hold follows from CallInv: a handler that   *)
(* commits in one step finds the team's lock free, so that no tool call is *)
(* halfway (QuietStep); a step that only ages assignments keeps their      *)
(* names (SameNamesStep); the steps of suspended requests are treated one  *)
(* by one.  What the results of a run hold follows from AgreeInv and       *)
(* PendingInv on top of it, one step of a run at a time (ResultSteps).     *)
(***************************************************************************)
EXTENDS TaskRuntime, Enumerations_proofs

(* Canonical names are names of the same task. *)
LEMMA CanonicalIsName ==
  ASSUME NEW n \in Name
  PROVE  /\ Canonical(n) \in Name /\ Canonical(n)[1] = 0
         /\ Canonical(n)[2] = n[2] /\ n[2] \in Task
  BY RuntimeAssumption DEF Name, Canonical, Sub, Task

(* A result filed under some name is a result. *)
LEMMA FiledIsResult ==
  ASSUME NEW n \in Name, NEW alias \in Name \cup {NoName}
  PROVE  TimedOut(n, alias) \in Result /\ Completed(n, alias) \in Result
  BY DEF TimedOut, Completed, Result

(* The latest assignment of a run that has an open one. *)
LEMMA LatestInDomain ==
  ASSUME TypeOK, NEW s \in Sub, LatestOpen(s)
  PROVE  /\ Len(assigned[s]) \in DOMAIN assigned[s]
         /\ assigned[s][Len(assigned[s])] \in Assignment
  <1>1. assigned[s] \in Seq(Assignment)
    BY DEF TypeOK
  <1> QED
    BY <1>1 DEF LatestOpen, Latest

(* The timeout of the latest task keeps the results a list of results. *)
LEMMA TimeoutIsResult ==
  ASSUME TypeOK, NEW s \in Sub
  PROVE  ResultsWithTimeout(s) \in Seq(Result)
  <1>1. results[s] \in Seq(Result)
    BY DEF TypeOK
  <1>2. CASE LatestOpen(s)
    <2>1. assigned[s][Len(assigned[s])] \in Assignment
      BY <1>2, LatestInDomain
    <2>2. assigned[s][Len(assigned[s])].name \in Name
      BY <2>1 DEF Assignment
    <2> QED
      BY <1>1, <1>2, <2>2, CanonicalIsName, FiledIsResult DEF ResultsWithTimeout
  <1>3. CASE ~LatestOpen(s)
    BY <1>1, <1>3 DEF ResultsWithTimeout
  <1> QED
    BY <1>2, <1>3

(* The tasks a score counts are some of the tasks. *)
LEMMA DenominatorFinite ==
  ASSUME NEW s \in Sub, NEW res
  PROVE  IsFiniteSet(Denominator(s, res)) /\ Denominator(s, res) \subseteq Task
  <1>1. Denominator(s, res) \subseteq Task
    BY DEF Denominator
  <1>2. IsFiniteSet(Task)
    BY FS_Interval, RuntimeAssumption DEF Task
  <1> QED
    BY <1>1, <1>2, FS_Subset

(* A scoring replaces results by results. *)
LEMMA ScoreType ==
  ASSUME TypeOK, NEW s \in Sub, NEW res \in Seq(Result), Score(s, res)
  PROVE  /\ results' \in [Sub -> Seq(Result)]
         /\ judged' \in [Sub -> SUBSET Task]
         /\ scored' \in [Sub -> BOOLEAN]
  <1>1. PICK q \in Ordered(Denominator(s, res)) :
          results' = [results EXCEPT ![s] = [k \in DOMAIN q |-> RecordFor(res, q[k])]]
    BY DEF Score
  <1>2. \A t \in Task : RecordFor(res, t) \in Result
    <2> SUFFICES ASSUME NEW t \in Task PROVE RecordFor(res, t) \in Result
      OBVIOUS
    <2>1. CASE RecordsOf(res, t) = {}
      <3>1. <<0, t>> \in Name
        BY RuntimeAssumption DEF Name
      <3>2. Unstarted(t) \in Result
        BY <3>1 DEF Unstarted, Result
      <3> QED
        BY <2>1, <3>2 DEF RecordFor
    <2>2. CASE RecordsOf(res, t) # {}
      <3>1. (CHOOSE i \in RecordsOf(res, t) : TRUE) \in DOMAIN res
        BY <2>2 DEF RecordsOf
      <3> QED
        BY <2>2, <3>1 DEF RecordFor
    <2> QED
      BY <2>1, <2>2
  <1>3. [k \in DOMAIN q |-> RecordFor(res, q[k])] \in Seq(Result)
    BY <1>1, <1>2, DenominatorFinite, OrderedEnumerates
  <1>4. Judged(s, res) \subseteq Task
    BY DEF Judged, Denominator
  <1> QED
    BY <1>1, <1>3, <1>4 DEF TypeOK, Score

-----------------------------------------------------------------------------
(* Invariance of CallInv. *)

(* No call is in flight at the start. *)
LEMMA InitCallInv == Init => CallInv
  <1> SUFFICES ASSUME Init PROVE CallInv
    OBVIOUS
  <1>1. NoCall \in Call
    BY RuntimeAssumption DEF NoCall, Call, Sub
  <1>2. TypeOK
    BY <1>1, RuntimeAssumption DEF Init, TypeOK, Sub, Task
  <1>3. \A r \in Req : call[r].pc = "idle"
    BY DEF Init, NoCall
  <1> QED
    BY <1>2, <1>3, RuntimeAssumption DEF Init, CallInv, LockInv, FreshInv, BatchInv,
       CallStillAllowed, BudgetHeld, RateHeld, DistinctNames

(* A step of a handler that runs from lock to commit, no call being        *)
(* suspended.                                                              *)
LEMMA QuietStep ==
  ASSUME CallInv, TypeOK', TeamLockFree, UNCHANGED <<logVars, holder, call>>, DistinctNames'
  PROVE  CallInv'
  <1>1. \A r \in Req : call'[r].pc = "idle"
    BY RuntimeAssumption DEF CallInv, LockInv, TeamLockFree, TypeOK, Call
  <1> QED
    BY <1>1 DEF CallInv, LockInv, FreshInv, BatchInv, CallStillAllowed, BudgetHeld, RateHeld,
       logVars

(* A step that at most ages assignments. *)
LEMMA SameNamesStep ==
  ASSUME CallInv, TypeOK', UNCHANGED <<status, results, logVars, holder, call>>,
         \A s \in Sub : /\ DOMAIN assigned'[s] = DOMAIN assigned[s]
                        /\ \A i \in DOMAIN assigned[s] :
                             assigned'[s][i].name = assigned[s][i].name
  PROVE  CallInv'
  <1>1. DistinctNames'
    BY DEF CallInv, DistinctNames
  <1>2. CallStillAllowed' /\ LockInv' /\ BatchInv' /\ BudgetHeld' /\ RateHeld'
    BY DEF CallInv, CallStillAllowed, LockInv, BatchInv, BudgetHeld, RateHeld, Running,
       Answered, WithinLimits, logVars
  <1>3. FreshInv'
    <2> SUFFICES ASSUME NEW r \in Req, call[r].pc = "execute"
                 PROVE  /\ call[r].name \in Name
                        /\ call[r].fresh => Named(call[r].sub, call[r].name)' = {}
      BY DEF FreshInv
    <2>1. call[r].sub \in Sub
      BY DEF CallInv, TypeOK, Call
    <2> QED
      BY <2>1 DEF CallInv, FreshInv, Named, Matches
  <1> QED
    BY <1>1, <1>2, <1>3 DEF CallInv

(* The environment keeps the invariant of the calls. *)
LEMMA EnvironmentStep == CallInv /\ Environment => CallInv'
  <1> SUFFICES ASSUME CallInv, Environment PROVE CallInv'
    OBVIOUS
  <1> USE DEF CallInv
  <1>1. ASSUME NEW s \in Sub, NEW i \in DOMAIN assigned[s], BudgetRunsOut(s, i) PROVE CallInv'
    <2>1. assigned[s] \in Seq(Assignment) /\ assigned[s][i] \in Assignment
      BY DEF TypeOK
    <2>2. [assigned[s] EXCEPT ![i].late = TRUE] \in Seq(Assignment)
      <3>1. [assigned[s][i] EXCEPT !.late = TRUE] \in Assignment
        BY <2>1 DEF Assignment
      <3> QED
        BY <2>1, <3>1
    <2>3. assigned' = [assigned EXCEPT ![s] = [assigned[s] EXCEPT ![i].late = TRUE]]
      BY <1>1 DEF BudgetRunsOut
    <2>4. TypeOK'
      BY <1>1, <2>2, <2>3 DEF TypeOK, BudgetRunsOut, runVars, logVars
    <2>5. assigned[s][i].name = [assigned[s][i] EXCEPT !.late = TRUE].name
      BY <2>1 DEF Assignment
    <2>6. \A p \in Sub : /\ DOMAIN assigned'[p] = DOMAIN assigned[p]
                         /\ \A k \in DOMAIN assigned[p] :
                              assigned'[p][k].name = assigned[p][k].name
      BY <2>1, <2>3, <2>5 DEF TypeOK
    <2> QED
      BY <1>1, <2>4, <2>6, SameNamesStep DEF BudgetRunsOut
  <1>2. CASE RaiseTimeBudget
    <2> DEFINE young(s) == [i \in DOMAIN assigned[s] |-> [assigned[s][i] EXCEPT !.late = FALSE]]
    <2>1. ASSUME NEW s \in Sub
          PROVE  /\ young(s) \in Seq(Assignment) /\ DOMAIN young(s) = DOMAIN assigned[s]
                 /\ \A i \in DOMAIN assigned[s] : young(s)[i].name = assigned[s][i].name
      <3>1. assigned[s] \in Seq(Assignment)
        BY DEF TypeOK
      <3>2. ASSUME NEW i \in DOMAIN assigned[s]
            PROVE  /\ [assigned[s][i] EXCEPT !.late = FALSE] \in Assignment
                   /\ [assigned[s][i] EXCEPT !.late = FALSE].name = assigned[s][i].name
        <4>1. assigned[s][i] \in Assignment
          BY <3>1
        <4> QED
          BY <4>1 DEF Assignment
      <3>3. DOMAIN assigned[s] = 1..Len(assigned[s]) /\ Len(assigned[s]) \in Nat
        BY <3>1
      <3>4. young(s) \in [1..Len(assigned[s]) -> Assignment]
        BY <3>2, <3>3
      <3> QED
        BY <3>2, <3>3, <3>4
    <2>2. assigned' = [s \in Sub |-> IF s \in Running THEN young(s) ELSE assigned[s]]
      BY <1>2 DEF RaiseTimeBudget
    <2>3. TypeOK'
      BY <1>2, <2>1, <2>2 DEF TypeOK, RaiseTimeBudget, logVars
    <2>4. \A s \in Sub : /\ DOMAIN assigned'[s] = DOMAIN assigned[s]
                         /\ \A k \in DOMAIN assigned[s] :
                              assigned'[s][k].name = assigned[s][k].name
      BY <2>1, <2>2
    <2> QED
      BY <1>2, <2>3, <2>4, SameNamesStep DEF RaiseTimeBudget
  <1>3. CASE MoveWindow
    <2>1. TypeOK'
      BY <1>3 DEF TypeOK, MoveWindow, runVars, logVars
    <2> QED
      BY <1>3, <2>1, SameNamesStep DEF MoveWindow, runVars
  <1>4. CASE MinutePasses
    <2>1. TypeOK'
      BY <1>4 DEF TypeOK, MinutePasses, runVars
    <2>2. UNCHANGED <<runVars, calls, holder, call>> /\ recent' = recent - 1 /\ recent > 0
      BY <1>4 DEF MinutePasses
    <2>3. CallStillAllowed'
      BY <2>2, RuntimeAssumption DEF CallStillAllowed, TypeOK, Running, Answered,
         WithinLimits, runVars
    <2>4. LockInv' /\ BatchInv' /\ DistinctNames' /\ BudgetHeld'
      BY <2>2 DEF LockInv, BatchInv, DistinctNames, BudgetHeld, runVars
    <2>5. FreshInv'
      BY <2>2 DEF FreshInv, Named, Matches, runVars
    <2>6. RateHeld'
      BY <2>2, RuntimeAssumption DEF RateHeld, TypeOK
    <2> QED
      BY <2>1, <2>3, <2>4, <2>5, <2>6
  <1>5. ASSUME NEW r \in Req, Abandon(r) PROVE CallInv'
    <2>1. NoCall \in Call /\ NoCall.pc = "idle"
      BY RuntimeAssumption DEF NoCall, Call, Sub
    <2>2. TypeOK'
      BY <1>5, <2>1 DEF TypeOK, Abandon, runVars, logVars
    <2>3. \A q \in Req : call'[q].pc = "idle"
      BY <1>5, <2>1, RuntimeAssumption DEF Abandon, TypeOK, LockInv, Call
    <2> QED
      BY <1>5, <2>2, <2>3 DEF Abandon, LockInv, FreshInv, BatchInv, CallStillAllowed,
         BudgetHeld, RateHeld, DistinctNames, runVars, logVars
  <1> QED
    BY <1>1, <1>2, <1>3, <1>4, <1>5 DEF Environment

(* Two assignments under one name stay impossible when one of a name that  *)
(* no assignment has is appended.                                          *)
LEMMA AssignDistinct ==
  ASSUME TypeOK, DistinctNames, NEW s \in Sub, NEW n \in Name, Assign(s, n),
         \A i \in DOMAIN assigned[s] : assigned[s][i].name # n
  PROVE  assigned' \in [Sub -> Seq(Assignment)] /\ DistinctNames'
  <1>1. /\ assigned[s] \in Seq(Assignment)
        /\ [name |-> n, late |-> FALSE] \in Assignment
    BY DEF TypeOK, Assignment
  <1>2. assigned' = [assigned EXCEPT ![s] = Append(assigned[s], [name |-> n, late |-> FALSE])]
    BY DEF Assign
  <1>3. assigned' \in [Sub -> Seq(Assignment)]
    BY <1>1, <1>2 DEF TypeOK
  <1>4. ASSUME NEW p \in Sub, NEW i \in DOMAIN assigned'[p], NEW j \in DOMAIN assigned'[p],
               assigned'[p][i].name = assigned'[p][j].name
        PROVE  i = j
    <2>1. CASE p # s
      BY <1>2, <1>4, <2>1 DEF TypeOK, DistinctNames
    <2>2. CASE p = s
      <3>1. assigned'[s] = Append(assigned[s], [name |-> n, late |-> FALSE])
        BY <1>2 DEF TypeOK
      <3>2. DOMAIN assigned[s] = 1..Len(assigned[s]) /\ Len(assigned[s]) \in Nat
            /\ DOMAIN assigned'[s] = 1..(Len(assigned[s]) + 1)
        BY <1>1, <3>1
      <3>3. /\ assigned'[s][Len(assigned[s]) + 1] = [name |-> n, late |-> FALSE]
            /\ \A k \in DOMAIN assigned[s] : assigned'[s][k] = assigned[s][k]
        BY <1>1, <3>1, <3>2
      <3> QED
        BY <1>4, <2>2, <3>2, <3>3 DEF DistinctNames
    <2> QED
      BY <2>1, <2>2
  <1> QED
    BY <1>3, <1>4 DEF DistinctNames

(* The assignment of the next task keeps it. *)
LEMMA StartNextTaskStep ==
  ASSUME CallInv, NEW s \in Sub, StartNextTask(s)
  PROVE  CallInv'
  <1> USE DEF CallInv
  <1>1. PICK t \in Task \ AssignedTasks(s) : Assign(s, <<0, t>>)
    BY DEF StartNextTask
  <1>2. <<0, t>> \in Name
    BY RuntimeAssumption DEF Name
  <1>3. \A i \in DOMAIN assigned[s] : assigned[s][i].name # <<0, t>>
    BY <1>1 DEF AssignedTasks
  <1>4. assigned' \in [Sub -> Seq(Assignment)] /\ DistinctNames'
    BY <1>1, <1>2, <1>3, AssignDistinct
  <1>5. results' = [results EXCEPT ![s] = ResultsWithTimeout(s)]
        /\ UNCHANGED <<open, status, judged, scored, logVars, holder, call>> /\ TeamLockFree
    BY DEF StartNextTask
  <1>6. TypeOK'
    BY <1>4, <1>5, TimeoutIsResult DEF TypeOK, logVars
  <1> QED
    BY <1>4, <1>5, <1>6, QuietStep

(* The new assignments of a batch have names of their own. *)
LEMMA BatchDistinct ==
  ASSUME TypeOK, DistinctNames, NEW s \in Sub, NEW names, names \in Seq(Name),
         NEW q \in Ordered(Fresh(s, names)),
         assigned' = [assigned EXCEPT ![s] =
            assigned[s] \o [k \in DOMAIN q |-> [name |-> names[q[k]], late |-> FALSE]]]
  PROVE  assigned' \in [Sub -> Seq(Assignment)] /\ DistinctNames'
  <1> DEFINE new == [k \in DOMAIN q |-> [name |-> names[q[k]], late |-> FALSE]]
             n == Len(assigned[s])
             m == Cardinality(Fresh(s, names))
  <1>1. DOMAIN names = 1..Len(names) /\ Len(names) \in Nat
    OBVIOUS
  <1>2. IsFiniteSet(Fresh(s, names))
    <2>1. Fresh(s, names) \subseteq 1..Len(names)
      BY <1>1 DEF Fresh
    <2>2. IsFiniteSet(1..Len(names))
      BY <1>1, FS_Interval
    <2> QED
      BY <2>1, <2>2, FS_Subset
  <1>3. /\ DOMAIN q = 1..m /\ m \in Nat /\ q \in [1..m -> Fresh(s, names)]
        /\ \A i, j \in DOMAIN q : i < j => q[i] < q[j]
    BY <1>2, OrderedEnumerates
  <1>4. \A k \in 1..m : q[k] \in Fresh(s, names) /\ q[k] \in DOMAIN names /\ names[q[k]] \in Name
    <2>1. \A k \in 1..m : q[k] \in Fresh(s, names)
      BY <1>3
    <2>2. \A x \in Fresh(s, names) : x \in DOMAIN names
      BY DEF Fresh
    <2> QED
      BY <2>1, <2>2
  <1>5. new \in Seq(Assignment) /\ Len(new) = m /\ \A k \in 1..m : new[k].name = names[q[k]]
    <2>1. \A k \in 1..m : [name |-> names[q[k]], late |-> FALSE] \in Assignment
      BY <1>4 DEF Assignment
    <2>2. new \in [1..m -> Assignment]
      BY <1>3, <2>1
    <2>3. m \in Nat
      BY <1>3
    <2>4. new \in Seq(Assignment) /\ Len(new) = m
      BY <2>2, <2>3
    <2>5. \A k \in 1..m : new[k] = [name |-> names[q[k]], late |-> FALSE]
      BY <1>3
    <2> QED
      BY <2>4, <2>5
  <1>6. assigned[s] \in Seq(Assignment)
    BY DEF TypeOK
  <1>7. assigned'[s] = assigned[s] \o new
    BY DEF TypeOK
  <1>8. assigned' \in [Sub -> Seq(Assignment)]
    <2>1. assigned[s] \o new \in Seq(Assignment)
      BY <1>5, <1>6
    <2> QED
      BY <2>1 DEF TypeOK
  <1> HIDE DEF new, m
  <1>9. /\ DOMAIN assigned[s] = 1..n /\ n \in Nat /\ DOMAIN assigned'[s] = 1..(n + m)
        /\ \A i \in 1..n : assigned'[s][i] = assigned[s][i]
        /\ \A i \in (n + 1)..(n + m) : assigned'[s][i] = new[i - n]
    <2>1. /\ assigned[s] \o new \in Seq(Assignment)
          /\ Len(assigned[s] \o new) = n + m
          /\ \A i \in 1..(n + m) :
               (assigned[s] \o new)[i] = IF i <= n THEN assigned[s][i] ELSE new[i - n]
      BY <1>5, <1>6, ConcatProperties
    <2>2. DOMAIN assigned[s] = 1..n /\ n \in Nat /\ m \in Nat
      BY <1>3, <1>6
    <2>3. DOMAIN assigned'[s] = 1..(n + m)
      BY <1>7, <2>1
    <2> HIDE DEF n
    <2>4. \A i \in 1..(n + m) :
            assigned'[s][i] = IF i <= n THEN assigned[s][i] ELSE new[i - n]
      BY <1>7, <2>1
    <2>5. \A i \in 1..n : assigned'[s][i] = assigned[s][i]
      <3>1. \A i \in 1..n : i \in 1..(n + m) /\ i <= n
        BY <2>2
      <3> QED
        BY <2>4, <3>1
    <2>6. \A i \in (n + 1)..(n + m) : assigned'[s][i] = new[i - n]
      <3>1. \A i \in (n + 1)..(n + m) : i \in 1..(n + m) /\ ~(i <= n)
        BY <2>2
      <3> QED
        BY <2>4, <3>1
    <2> QED
      BY <2>2, <2>3, <2>5, <2>6
  <1> HIDE DEF n
  <1>10. \A i \in (n + 1)..(n + m) :
           assigned'[s][i].name = names[q[i - n]] /\ (i - n) \in 1..m
    BY <1>3, <1>5, <1>9
  <1>11. \A i \in 1..n, k \in 1..m : assigned[s][i].name # names[q[k]]
    BY <1>4, <1>9 DEF Fresh, Named, Matches
  <1>12. ASSUME NEW j \in 1..m, NEW k \in 1..m, j < k PROVE names[q[j]] # names[q[k]]
    <2>1. q[j] < q[k] /\ q[k] \in Fresh(s, names) /\ q[j] \in DOMAIN names /\ q[k] \in DOMAIN names
      BY <1>3, <1>4, <1>12
    <2>2. q[j] \in 1..(q[k] - 1)
      BY <1>1, <2>1
    <2> QED
      BY <2>1, <2>2 DEF Fresh, Matches
  <1>13. ASSUME NEW i \in 1..(n + m), NEW j \in 1..(n + m), i < j
         PROVE  assigned'[s][i].name # assigned'[s][j].name
    <2>1. CASE j <= n
      BY <1>9, <1>13, <2>1 DEF DistinctNames
    <2>2. CASE i <= n /\ j > n
      <3>1. i \in 1..n /\ j \in (n + 1)..(n + m)
        BY <1>3, <1>9, <2>2
      <3>2. j - n \in 1..m /\ assigned'[s][j].name = names[q[j - n]]
        BY <1>10, <3>1
      <3>3. assigned'[s][i] = assigned[s][i] /\ assigned[s][i].name # names[q[j - n]]
        BY <1>9, <1>11, <3>1, <3>2
      <3> QED
        BY <3>2, <3>3
    <2>3. CASE i > n
      <3>1. i \in (n + 1)..(n + m) /\ j \in (n + 1)..(n + m) /\ i - n < j - n
        BY <1>3, <1>9, <1>13, <2>3
      <3> QED
        BY <1>10, <1>12, <3>1
    <2> QED
      BY <1>3, <1>9, <1>13, <2>1, <2>2, <2>3
  <1>14. \A i, j \in DOMAIN assigned'[s] :
           assigned'[s][i].name = assigned'[s][j].name => i = j
    <2> SUFFICES ASSUME NEW i \in 1..(n + m), NEW j \in 1..(n + m), i # j
                 PROVE  assigned'[s][i].name # assigned'[s][j].name
      BY <1>9
    <2>1. i < j \/ j < i
      BY <1>3, <1>9
    <2> QED
      BY <1>13, <2>1
  <1>15. \A p \in Sub : p # s => assigned'[p] = assigned[p]
    BY DEF TypeOK
  <1> QED
    BY <1>8, <1>14, <1>15, ZenonT(60) DEF DistinctNames

(* The commit of a batch keeps it. *)
LEMMA SubmitBatchStep ==
  ASSUME CallInv, NEW r \in Req, NEW s \in Sub, NEW names \in Answers, SubmitBatch(r, s, names)
  PROVE  CallInv'
  <1> USE DEF CallInv
  <1> DEFINE answers == [k \in DOMAIN names |-> Completed(Canonical(names[k]), names[k])]
  <1>1. names \in Seq(Name) /\ DOMAIN names = 1..Len(names) /\ Len(names) \in Nat
    BY DEF Answers
  <1>2. answers \in Seq(Result)
    <2>1. \A k \in 1..Len(names) : Completed(Canonical(names[k]), names[k]) \in Result
      BY <1>1, CanonicalIsName, FiledIsResult
    <2>2. answers \in [1..Len(names) -> Result]
      BY <1>1, <2>1
    <2> QED
      BY <1>1, <2>2
  <1> HIDE DEF answers
  <1>3. /\ TeamLockFree /\ s \in Running
        /\ \E q \in Ordered(Fresh(s, names)) : assigned' = [assigned EXCEPT ![s] =
             assigned[s] \o [k \in DOMAIN q |-> [name |-> names[q[k]], late |-> FALSE]]]
        /\ results' = [results EXCEPT ![s] = answers]
        /\ status' = [status EXCEPT ![s] = "completed"]
        /\ holder' = r
        /\ call' = [call EXCEPT ![r] =
             [pc |-> "score", sub |-> s, name |-> NoName, fresh |-> FALSE, answers |-> answers]]
        /\ UNCHANGED <<open, judged, scored, logVars>>
    BY DEF SubmitBatch, Move, answers
  <1>4. assigned' \in [Sub -> Seq(Assignment)] /\ DistinctNames'
    BY <1>1, <1>3, BatchDistinct
  <1>5. [pc |-> "score", sub |-> s, name |-> NoName, fresh |-> FALSE, answers |-> answers] \in Call
    BY <1>2 DEF Call
  <1>6. TypeOK'
    BY <1>2, <1>3, <1>4, <1>5 DEF TypeOK, Ending, logVars
  <1>7. \A q \in Req : call[q].pc = "idle"
    BY <1>3, RuntimeAssumption DEF LockInv, TeamLockFree, TypeOK, Call
  <1>8. /\ call'[r].pc = "score" /\ call'[r].sub = s
        /\ \A q \in Req : q # r => call'[q].pc = "idle"
    BY <1>3, <1>7 DEF TypeOK
  <1>9. LockInv' /\ FreshInv' /\ CallStillAllowed'
    BY <1>3, <1>8 DEF LockInv, FreshInv, CallStillAllowed
  <1>10. status'[s] = "completed"
    BY <1>3 DEF TypeOK
  <1>11. BatchInv'
    BY <1>8, <1>10 DEF BatchInv, Ending
  <1> QED
    BY <1>3, <1>4, <1>6, <1>9, <1>11 DEF BudgetHeld, RateHeld, logVars

(* A scoring touches neither names nor status. *)
LEMMA AdminScoreStep ==
  ASSUME CallInv, NEW s \in Sub, AdminScore(s)
  PROVE  CallInv'
  <1> USE DEF CallInv
  <1>1. /\ status[s] \in Ending /\ Score(s, results[s])
        /\ UNCHANGED <<open, status, assigned, logVars, holder, call>>
    BY DEF AdminScore
  <1>2. results[s] \in Seq(Result)
    BY DEF TypeOK
  <1>3. TypeOK'
    BY <1>1, <1>2, ScoreType DEF TypeOK, logVars
  <1>4. \A p \in Sub : p # s => results'[p] = results[p]
    BY <1>1 DEF Score, TypeOK
  <1>5. CallStillAllowed'
    <2> SUFFICES ASSUME NEW r \in Req, call[r].pc = "execute"
                 PROVE  /\ call[r].sub \in Running
                        /\ ~Answered(call[r].sub, call[r].name)'
                        /\ WithinLimits(call[r].name[2])
      BY <1>1 DEF CallStillAllowed, Running, WithinLimits, logVars, Answered
    <2>1. call[r].sub \in Running /\ ~Answered(call[r].sub, call[r].name)
          /\ WithinLimits(call[r].name[2])
      BY DEF CallStillAllowed
    <2>2. call[r].sub \in Sub /\ call[r].sub # s
      BY <1>1, <2>1 DEF Running, Ending
    <2> QED
      BY <1>1, <1>4, <2>1, <2>2 DEF Answered
  <1> QED
    BY <1>1, <1>3, <1>5 DEF LockInv, FreshInv, BatchInv, BudgetHeld, RateHeld, DistinctNames,
       Named, Matches, logVars

(* The scoring after a batch keeps it. *)
LEMMA BatchScoreStep ==
  ASSUME CallInv, NEW r \in Req, BatchScore(r)
  PROVE  CallInv'
  <1> USE DEF CallInv
  <1>1. /\ call[r].pc = "score" /\ Score(call[r].sub, call[r].answers) /\ holder' = None
        /\ call' = [call EXCEPT ![r] = NoCall]
        /\ UNCHANGED <<open, status, assigned, logVars>>
    BY DEF BatchScore
  <1>2. call[r].sub \in Sub /\ call[r].answers \in Seq(Result)
    BY DEF TypeOK, Call
  <1>3. NoCall \in Call /\ NoCall.pc = "idle"
    BY RuntimeAssumption DEF NoCall, Call, Sub
  <1>4. TypeOK'
    BY <1>1, <1>2, <1>3, ScoreType DEF TypeOK, logVars
  <1>5. \A q \in Req : call'[q].pc = "idle"
    BY <1>1, <1>3 DEF TypeOK, LockInv, Call
  <1> QED
    BY <1>1, <1>4, <1>5 DEF LockInv, FreshInv, BatchInv, CallStillAllowed, BudgetHeld, RateHeld,
       DistinctNames, logVars

(* So do the steps of the run, *)
LEMMA RunsStep == CallInv /\ Runs => CallInv'
  <1> SUFFICES ASSUME CallInv, Runs PROVE CallInv'
    OBVIOUS
  <1> USE DEF CallInv
  <1> PICK s \in Sub :
        \/ CloseStale(s) \/ StartSubmission(s) \/ Expire(s) \/ Finalize(s) \/ Abort(s)
        \/ AdminScore(s) \/ StartNextTask(s) \/ \E n \in Name : SubmitTask(s, n)
        \/ \E r \in Req, names \in Answers : SubmitBatch(r, s, names)
    BY DEF Runs
  <1>1. CASE CloseStale(s) \/ StartSubmission(s) \/ Expire(s) \/ Abort(s)
    <2>1. TeamLockFree /\ UNCHANGED <<open, assigned, results, judged, scored, logVars, holder, call>>
      BY <1>1 DEF CloseStale, StartSubmission, Expire, Abort
    <2>2. status' \in [Sub -> {"absent", "in_progress"} \cup Ending]
      BY <1>1 DEF CloseStale, StartSubmission, Expire, Abort, Move, TypeOK, Ending
    <2>3. TypeOK' /\ DistinctNames'
      BY <2>1, <2>2 DEF TypeOK, DistinctNames, logVars
    <2> QED
      BY <2>1, <2>3, QuietStep
  <1>2. CASE Finalize(s)
    <2>1. /\ TeamLockFree /\ UNCHANGED <<open, assigned, judged, scored, logVars, holder, call>>
          /\ status' = [status EXCEPT ![s] = "completed"]
          /\ results' = [results EXCEPT ![s] = ResultsWithTimeout(s)]
      BY <1>2 DEF Finalize, Move
    <2>2. TypeOK' /\ DistinctNames'
      BY <2>1, TimeoutIsResult DEF TypeOK, DistinctNames, Ending, logVars
    <2> QED
      BY <2>1, <2>2, QuietStep
  <1>3. CASE AdminScore(s)
    BY <1>3, AdminScoreStep
  <1>4. CASE StartNextTask(s)
    BY <1>4, StartNextTaskStep
  <1>5. ASSUME NEW n \in Name, SubmitTask(s, n) PROVE CallInv'
    <2>1. PICK i \in LatestNamed(s, n) :
            File(s, IF assigned[s][i].late THEN TimedOut(n, assigned[s][i].name)
                                           ELSE Completed(n, assigned[s][i].name))
      BY <1>5 DEF SubmitTask
    <2>2. TeamLockFree /\ UNCHANGED <<open, status, assigned, judged, scored, logVars, holder, call>>
      BY <1>5 DEF SubmitTask
    <2>3. assigned[s][i] \in Assignment
      BY DEF LatestNamed, Named, TypeOK
    <2>4. assigned[s][i].name \in Name
      BY <2>3 DEF Assignment
    <2>5. PICK x \in Result : results' = [results EXCEPT ![s] = Append(results[s], x)]
      BY <2>1, <2>4, FiledIsResult DEF File
    <2>6. TypeOK' /\ DistinctNames'
      BY <2>2, <2>5 DEF TypeOK, DistinctNames, logVars
    <2> QED
      BY <2>2, <2>6, QuietStep
  <1>6. ASSUME NEW r \in Req, NEW names \in Answers, SubmitBatch(r, s, names) PROVE CallInv'
    BY <1>6, SubmitBatchStep
  <1> QED
    BY <1>1, <1>2, <1>3, <1>4, <1>5, <1>6

(* A call that is let through has the lock to itself. *)
LEMMA SuspendStep ==
  ASSUME CallInv, TeamLockFree, NEW r \in Req, NEW c \in Call,
         c.pc = "execute", call' = [call EXCEPT ![r] = c], holder' = r,
         UNCHANGED <<open, runVars, judged, scored, logVars>>,
         c.sub \in Running, c.name \in Name, ~Answered(c.sub, c.name), WithinLimits(c.name[2]),
         c.fresh => Named(c.sub, c.name) = {}
  PROVE  CallInv'
  <1> USE DEF CallInv
  <1>1. TypeOK'
    BY DEF TypeOK, runVars, logVars
  <1>2. \A q \in Req : call[q].pc = "idle"
    BY RuntimeAssumption DEF LockInv, TeamLockFree, TypeOK, Call
  <1>3. /\ call'[r] = c
        /\ \A q \in Req : q # r => call'[q].pc = "idle"
    BY <1>2 DEF TypeOK
  <1>4. LockInv' /\ BatchInv'
    BY <1>3 DEF LockInv, BatchInv
  <1>5. CallStillAllowed'
    BY <1>3 DEF CallStillAllowed, Running, Answered, WithinLimits, runVars, logVars
  <1>6. FreshInv'
    BY <1>3 DEF FreshInv, Named, Matches, runVars
  <1> QED
    BY <1>1, <1>4, <1>5, <1>6 DEF BudgetHeld, RateHeld, DistinctNames, runVars, logVars

(* the commit of a tool call, *)
LEMMA ToolCommitStep ==
  ASSUME CallInv, NEW r \in Req, ToolCommit(r)
  PROVE  CallInv'
  <1> USE DEF CallInv
  <1> DEFINE c == call[r]
  <1>1. /\ c.pc = "execute"
        /\ IF c.fresh THEN Assign(c.sub, c.name) ELSE UNCHANGED assigned
        /\ calls' = [calls EXCEPT ![c.name[2]] = calls[c.name[2]] + 1]
        /\ recent' = recent + 1 /\ holder' = None
        /\ call' = [call EXCEPT ![r] = NoCall]
        /\ UNCHANGED <<open, status, results, judged, scored>>
    BY DEF ToolCommit
  <1>2. c.sub \in Sub /\ c.name \in Name /\ c.name[2] \in Task
    BY <1>1, CanonicalIsName DEF TypeOK, Call, FreshInv
  <1>3. WithinLimits(c.name[2]) /\ (c.fresh => Named(c.sub, c.name) = {})
    BY <1>1 DEF CallStillAllowed, FreshInv
  <1> HIDE DEF c
  <1>4. assigned' \in [Sub -> Seq(Assignment)] /\ DistinctNames'
    <2>1. CASE c.fresh
      <3>1. \A i \in DOMAIN assigned[c.sub] : assigned[c.sub][i].name # c.name
        BY <1>3, <2>1 DEF Named, Matches
      <3> QED
        BY <1>1, <1>2, <2>1, <3>1, AssignDistinct
    <2>2. CASE ~c.fresh
      BY <1>1, <2>2 DEF TypeOK, DistinctNames
    <2> QED
      BY <2>1, <2>2
  <1>5. NoCall \in Call /\ NoCall.pc = "idle"
    BY RuntimeAssumption DEF NoCall, Call, Sub
  <1>6. TypeOK'
    BY <1>1, <1>2, <1>4, <1>5 DEF TypeOK
  <1>7. \A q \in Req : call'[q].pc = "idle"
    BY <1>1, <1>5 DEF TypeOK, LockInv, Call, c
  <1>8. BudgetHeld' /\ RateHeld'
    BY <1>1, <1>2, <1>3, RuntimeAssumption DEF BudgetHeld, RateHeld, WithinLimits, TypeOK
  <1> QED
    BY <1>4, <1>6, <1>7, <1>8 DEF LockInv, FreshInv, BatchInv, CallStillAllowed

(* and the other steps of a tool call. *)
LEMMA ToolsStep == CallInv /\ Tools => CallInv'
  <1> SUFFICES ASSUME CallInv, Tools PROVE CallInv'
    OBVIOUS
  <1> USE DEF CallInv
  <1> PICK s \in Sub, n \in Name \cup {NoName} :
        ToolTooLate(s, n) \/ \E r \in Req : ToolCheck(r, s, n) \/ ToolAssign(r, s, n)
    BY DEF Tools
  <1>1. ASSUME NEW i \in IF n = NoName THEN FirstUnsubmitted(s) ELSE LatestNamed(s, n)
        PROVE  assigned[s][i] \in Assignment /\ assigned[s][i].name \in Name
    <2>1. assigned[s][i] \in Assignment
      BY DEF FirstUnsubmitted, LatestNamed, Named, TypeOK
    <2> QED
      BY <2>1 DEF Assignment
  <1>2. CASE ToolTooLate(s, n)
    <2>1. PICK i \in IF n = NoName THEN FirstUnsubmitted(s) ELSE LatestNamed(s, n) :
            File(s, TimedOut(Canonical(assigned[s][i].name), NoName))
      BY <1>2 DEF ToolTooLate
    <2>2. TeamLockFree /\ UNCHANGED <<open, status, assigned, judged, scored, logVars, holder, call>>
      BY <1>2 DEF ToolTooLate
    <2>3. PICK x \in Result : results' = [results EXCEPT ![s] = Append(results[s], x)]
      BY <1>1, <2>1, CanonicalIsName, FiledIsResult DEF File
    <2>4. TypeOK' /\ DistinctNames'
      BY <2>2, <2>3 DEF TypeOK, DistinctNames, logVars
    <2> QED
      BY <2>2, <2>4, QuietStep
  <1>3. NoCall \in Call /\ NoCall.fresh = FALSE
    BY RuntimeAssumption DEF NoCall, Call, Sub
  <1>4. ASSUME NEW r \in Req, ToolCheck(r, s, n) PROVE CallInv'
    <2>1. PICK i \in IF n = NoName THEN FirstUnsubmitted(s) ELSE LatestNamed(s, n) :
            /\ ~Answered(s, assigned[s][i].name) /\ WithinLimits(assigned[s][i].name[2])
            /\ call' = [call EXCEPT ![r] = [NoCall EXCEPT
                 !.pc = "execute", !.sub = s, !.name = assigned[s][i].name]]
      BY <1>4 DEF ToolCheck
    <2> DEFINE c == [NoCall EXCEPT !.pc = "execute", !.sub = s, !.name = assigned[s][i].name]
    <2>2. assigned[s][i].name \in Name
      BY <1>1
    <2>3. c \in Call /\ c.pc = "execute" /\ c.sub = s /\ c.name = assigned[s][i].name /\ ~c.fresh
      BY <1>3, <2>2 DEF Call, NoCall
    <2>4. TeamLockFree /\ s \in Running /\ holder' = r
          /\ UNCHANGED <<open, runVars, judged, scored, logVars>>
      BY <1>4 DEF ToolCheck
    <2> HIDE DEF c
    <2>5. call' = [call EXCEPT ![r] = c]
      BY <2>1 DEF c
    <2> QED
      BY <2>1, <2>2, <2>3, <2>4, <2>5, SuspendStep
  <1>5. ASSUME NEW r \in Req, ToolAssign(r, s, n) PROVE CallInv'
    <2> DEFINE c == [NoCall EXCEPT !.pc = "execute", !.sub = s, !.name = n, !.fresh = TRUE]
    <2>1. n \in Name
      BY <1>5 DEF ToolAssign, Planned
    <2>2. c \in Call /\ c.pc = "execute" /\ c.sub = s /\ c.name = n
      BY <1>3, <2>1 DEF Call, NoCall
    <2>3. /\ TeamLockFree /\ s \in Running /\ holder' = r
          /\ UNCHANGED <<open, runVars, judged, scored, logVars>>
          /\ ~Answered(s, n) /\ WithinLimits(n[2]) /\ Named(s, n) = {}
          /\ call' = [call EXCEPT ![r] = c]
      BY <1>5 DEF ToolAssign
    <2> HIDE DEF c
    <2> QED
      BY <2>1, <2>2, <2>3, SuspendStep
  <1> QED
    BY <1>2, <1>4, <1>5

(* Every step keeps the invariant of the calls. *)
LEMMA NextCallInv == CallInv /\ [Next]_vars => CallInv'
  <1> SUFFICES ASSUME CallInv, [Next]_vars PROVE CallInv'
    OBVIOUS
  <1>1. CASE Environment
    BY <1>1, EnvironmentStep
  <1>2. CASE Runs
    BY <1>2, RunsStep
  <1>3. CASE Tools
    BY <1>3, ToolsStep
  <1>4. ASSUME NEW r \in Req, BatchScore(r) \/ ToolCommit(r) PROVE CallInv'
    BY <1>4, BatchScoreStep, ToolCommitStep
  <1>5. CASE UNCHANGED vars
    BY <1>5 DEF vars, runVars, logVars, CallInv, TypeOK, LockInv, FreshInv, BatchInv,
       CallStillAllowed, BudgetHeld, RateHeld, DistinctNames, Running, Answered, WithinLimits,
       Named, Matches
  <1> QED
    BY <1>1, <1>2, <1>3, <1>4, <1>5 DEF Next

(* The invariant of the calls holds of every behaviour. *)
LEMMA CallInvariantHolds == Spec => []CallInv
  <1>1. Init => CallInv
    BY InitCallInv
  <1>2. CallInv /\ [Next]_vars => CallInv'
    BY NextCallInv
  <1> QED
    BY <1>1, <1>2, PTL DEF Spec

-----------------------------------------------------------------------------
(* What follows from the invariant. *)

(* However tool calls overlap, and over all runs of the team, no task gets *)
(* more of them than the budget.                                           *)
THEOREM BudgetNeverExceeded == Spec => []BudgetHeld
  <1>1. CallInv => BudgetHeld
    BY DEF CallInv
  <1> QED
    BY <1>1, CallInvariantHolds, PTL

(* No minute sees more calls of the team than the rate limit. *)
THEOREM RateNeverExceeded == Spec => []RateHeld
  <1>1. CallInv => RateHeld
    BY DEF CallInv
  <1> QED
    BY <1>1, CallInvariantHolds, PTL

(* No run has two assignments under one name, whichever of start_next_task,*)
(* run_tool and submit_batch created them.                                 *)
THEOREM NamesStayDistinct == Spec => []DistinctNames
  <1>1. CallInv => DistinctNames
    BY DEF CallInv
  <1> QED
    BY <1>1, CallInvariantHolds, PTL

(* What a tool call has checked still holds when it commits. *)
THEOREM ChecksStayValid == Spec => []CallStillAllowed
  <1>1. CallInv => CallStillAllowed
    BY DEF CallInv
  <1> QED
    BY <1>1, CallInvariantHolds, PTL

-----------------------------------------------------------------------------
(* Refinement of SubmissionFSM. *)

(* The limit of runs is never in the way: an absent run leaves room. *)
LEMMA RoomForAbsent ==
  ASSUME NEW s \in Sub, status[s] = "absent"
  PROVE  Cardinality(FSM!Done("team")) < NSubs
  <1>1. IsFiniteSet(Sub) /\ Cardinality(Sub) = NSubs
    BY FS_Interval, RuntimeAssumption DEF Sub
  <1>2. FSM!Done("team") \subseteq Sub /\ s \notin FSM!Done("team")
    BY DEF FSM!Done
  <1>3. IsFiniteSet(Sub \ {s}) /\ Cardinality(Sub \ {s}) = NSubs - 1
    BY <1>1, FS_RemoveElement
  <1>4. FSM!Done("team") \subseteq Sub \ {s}
    BY <1>2
  <1>5. /\ Cardinality(FSM!Done("team")) <= Cardinality(Sub \ {s})
        /\ Cardinality(FSM!Done("team")) \in Nat
    BY <1>3, <1>4, FS_Subset, FS_CardinalityType
  <1> QED
    BY <1>3, <1>5, RuntimeAssumption

(* A change of status is a step of SubmissionFSM. *)
LEMMA MoveRefines ==
  ASSUME TypeOK, NEW s \in Sub, UNCHANGED scored,
         \/ status[s] = "in_progress" /\ \E how \in Ending : Move(s, how)
         \/ status[s] = "absent" /\ Running = {} /\ Move(s, "in_progress")
  PROVE  FSM!FSMNext
  <1>1. CASE status[s] = "in_progress" /\ \E how \in Ending : Move(s, how)
    BY <1>1 DEF FSM!FSMNext, FSM!End, FSM!Finished, Ending, Move
  <1>2. CASE status[s] = "absent" /\ Running = {} /\ Move(s, "in_progress")
    <2>1. FSM!Running("team") = {}
      BY <1>2 DEF FSM!Running, Running
    <2>2. Cardinality(FSM!Done("team")) < NSubs
      BY <1>2, RoomForAbsent
    <2>3. FSM!Begin(s)
      <3>1. [p \in Sub |-> "team"][s] = "team"
        OBVIOUS
      <3>2. /\ FSM!Running([p \in Sub |-> "team"][s]) = {}
            /\ Cardinality(FSM!Done([p \in Sub |-> "team"][s])) < NSubs
        BY <2>1, <2>2, <3>1
      <3>3. status' = [status EXCEPT ![s] = "in_progress"] /\ status[s] = "absent"
        BY <1>2 DEF Move
      <3> QED
        BY <3>2, <3>3 DEF FSM!Begin, FSM!Cardinality, Cardinality
    <2> QED
      BY <2>3 DEF FSM!FSMNext
  <1> QED
    BY <1>1, <1>2

(* A scoring is a step of SubmissionFSM. *)
LEMMA ScoreRefines ==
  ASSUME TypeOK, NEW s \in Sub, status[s] \in Ending, NEW res, Score(s, res), UNCHANGED status
  PROVE  FSM!FSMNext
  BY DEF Score, FSM!FSMNext, FSM!GiveScore, FSM!Finished, Ending

(* Every step is a step of SubmissionFSM or leaves its variables alone. *)
LEMMA StepRefines == CallInv /\ [Next]_vars => [FSM!FSMNext]_(FSM!fsmVars)
  <1> SUFFICES ASSUME CallInv, [Next]_vars PROVE FSM!FSMNext \/ UNCHANGED <<status, scored>>
    BY DEF FSM!fsmVars
  <1> USE DEF CallInv
  <1>1. CASE Environment \/ Tools \/ UNCHANGED vars
    BY <1>1, ZenonT(60) DEF Environment, Tools, BudgetRunsOut, RaiseTimeBudget, MoveWindow, MinutePasses,
       Abandon, ToolTooLate, ToolCheck, ToolAssign, vars, runVars
  <1>2. CASE Runs
    <2> PICK s \in Sub :
          \/ CloseStale(s) \/ StartSubmission(s) \/ Expire(s) \/ Finalize(s) \/ Abort(s)
          \/ AdminScore(s) \/ StartNextTask(s) \/ \E n \in Name : SubmitTask(s, n)
          \/ \E r \in Req, names \in Answers : SubmitBatch(r, s, names)
      BY <1>2 DEF Runs
    <2>1. CASE CloseStale(s) \/ Expire(s) \/ Finalize(s) \/ Abort(s)
               \/ \E r \in Req, names \in Answers : SubmitBatch(r, s, names)
      <3>1. UNCHANGED scored /\ status[s] = "in_progress" /\ \E how \in Ending : Move(s, how)
        BY <2>1 DEF CloseStale, Expire, Finalize, Abort, SubmitBatch, Running, Ending
      <3> QED
        BY <3>1, MoveRefines
    <2>2. CASE StartSubmission(s)
      <3>1. UNCHANGED scored /\ status[s] = "absent" /\ Running = {} /\ Move(s, "in_progress")
        BY <2>2 DEF StartSubmission
      <3> QED
        BY <3>1, MoveRefines
    <2>3. CASE AdminScore(s)
      BY <2>3, ScoreRefines DEF AdminScore
    <2>4. CASE StartNextTask(s) \/ \E n \in Name : SubmitTask(s, n)
      BY <2>4 DEF StartNextTask, SubmitTask
    <2> QED
      BY <2>1, <2>2, <2>3, <2>4
  <1>3. ASSUME NEW r \in Req, BatchScore(r) PROVE FSM!FSMNext
    <2>1. call[r].sub \in Sub /\ status[call[r].sub] \in Ending
      BY <1>3 DEF BatchScore, BatchInv, TypeOK, Call
    <2> QED
      BY <1>3, <2>1, ScoreRefines DEF BatchScore
  <1>4. ASSUME NEW r \in Req, ToolCommit(r) PROVE UNCHANGED <<status, scored>>
    BY <1>4 DEF ToolCommit
  <1> QED
    BY <1>1, <1>2, <1>3, <1>4 DEF Next

(* What a team does inside its runs moves them through SubmissionFSM only. *)
THEOREM Implements == Spec => ImplementsFSM
  <1>1. Init => FSM!FSMInit
    BY DEF Init, FSM!FSMInit
  <1>2. CallInv /\ [Next]_vars => [FSM!FSMNext]_(FSM!fsmVars)
    BY StepRefines
  <1> QED
    BY <1>1, <1>2, CallInvariantHolds, PTL DEF Spec, ImplementsFSM, FSM!FSMSpec

-----------------------------------------------------------------------------
(* What a scoring finds and records. *)

(* A name that has a result has a last one. *)
LEMMA LastRecord ==
  ASSUME NEW res \in Seq(Result), NEW t, <<0, t>> \in NamesIn(res)
  PROVE  RecordsOf(res, t) # {}
  <1> DEFINE T == {i \in DOMAIN res : res[i].name = <<0, t>>}
  <1>1. T \in SUBSET (1..Len(res)) /\ T # {} /\ Len(res) \in Nat
    BY DEF NamesIn
  <1>2. PICK x \in T : \A y \in T : y <= x
    <2> HIDE DEF T
    <2> QED
      BY <1>1, GreatestBelow
  <1>3. x \in DOMAIN res /\ res[x].name = <<0, t>>
    BY <1>2
  <1>4. ASSUME NEW j \in DOMAIN res, j > x PROVE res[j].name # <<0, t>>
    <2>1. j \in Nat /\ x \in Nat
      BY <1>1, <1>3
    <2> QED
      BY <1>2, <1>4, <2>1
  <1> QED
    BY <1>3, <1>4 DEF RecordsOf

(* The record of a task carries its canonical name, and the status of a    *)
(* result filed under it; without one it is unstarted.                     *)
LEMMA RecordOf ==
  ASSUME NEW res \in Seq(Result), NEW t
  PROVE  /\ RecordFor(res, t).name = <<0, t>>
         /\ <<0, t>> \in NamesIn(res) => \E i \in DOMAIN res :
              res[i].name = <<0, t>> /\ RecordFor(res, t).status = res[i].status
         /\ <<0, t>> \notin NamesIn(res) => RecordFor(res, t).status = "unstarted"
  <1>1. CASE <<0, t>> \in NamesIn(res)
    <2>1. (CHOOSE i \in RecordsOf(res, t) : TRUE) \in RecordsOf(res, t)
      BY <1>1, LastRecord
    <2>2. PICK i \in RecordsOf(res, t) : RecordFor(res, t) = res[i]
      BY <1>1, <2>1, LastRecord DEF RecordFor
    <2>3. i \in DOMAIN res /\ res[i].name = <<0, t>>
      BY <2>2 DEF RecordsOf
    <2> QED
      BY <1>1, <2>2, <2>3
  <1>2. CASE <<0, t>> \notin NamesIn(res)
    <2>1. RecordsOf(res, t) = {}
      BY <1>2 DEF RecordsOf, NamesIn
    <2>2. RecordFor(res, t) = Unstarted(t)
      BY <2>1 DEF RecordFor
    <2> QED
      BY <1>2, <2>2 DEF Unstarted
  <1> QED
    BY <1>1, <1>2

(* A scoring writes the records of the tasks in the denominator, no others,*)
(* and touches no other run.                                               *)
LEMMA ScoreResults ==
  ASSUME TypeOK, NEW s \in Sub, NEW res \in Seq(Result), Score(s, res)
  PROVE  /\ \A p \in Sub \ {s} : /\ results'[p] = results[p] /\ scored'[p] = scored[p]
                                /\ judged'[p] = judged[p]
         /\ scored'[s] /\ judged'[s] = Judged(s, res)
         /\ \A k \in DOMAIN results'[s] : \E t \in Denominator(s, res) :
              results'[s][k] = RecordFor(res, t)
         /\ \A t \in Denominator(s, res) : \E k \in DOMAIN results'[s] :
              results'[s][k] = RecordFor(res, t)
  <1> DEFINE D == Denominator(s, res)
  <1>1. PICK q \in Ordered(D) :
          results' = [results EXCEPT ![s] = [k \in DOMAIN q |-> RecordFor(res, q[k])]]
    BY DEF Score
  <1>2. IsFiniteSet(D) /\ D \in SUBSET Nat
    BY DenominatorFinite DEF Task
  <1> HIDE DEF D
  <1>3. q \in [1..Cardinality(D) -> D] /\ \A t \in D : \E k \in DOMAIN q : q[k] = t
    BY <1>2, OrderedEnumerates, OrderedOnto
  <1>4. results'[s] = [k \in DOMAIN q |-> RecordFor(res, q[k])]
    BY <1>1 DEF TypeOK
  <1>5. /\ \A k \in DOMAIN results'[s] : \E t \in D : results'[s][k] = RecordFor(res, t)
        /\ \A t \in D : \E k \in DOMAIN results'[s] : results'[s][k] = RecordFor(res, t)
    BY <1>3, <1>4
  <1>6. /\ \A p \in Sub \ {s} : /\ results'[p] = results[p] /\ scored'[p] = scored[p]
                               /\ judged'[p] = judged[p]
        /\ scored'[s] /\ judged'[s] = Judged(s, res)
    BY <1>1 DEF TypeOK, Score
  <1> QED
    BY <1>5, <1>6 DEF D

(* Every task with a result under its canonical name is in the denominator.*)
LEMMA NamedCounts ==
  ASSUME NEW s \in Sub, NEW res \in Seq(Result), NEW t, <<0, t>> \in NamesIn(res)
  PROVE  t \in Denominator(s, res) /\ t \in Task
  <1>1. PICK i \in DOMAIN res : res[i].name = <<0, t>>
    BY DEF NamesIn
  <1>2. res[i] \in Result
    BY <1>1
  <1>3. <<0, t>> \in Name
    BY <1>1, <1>2 DEF Result
  <1>4. t \in Task
    BY <1>3 DEF Name
  <1> QED
    BY <1>1, <1>4 DEF Denominator, Touched

(* Scoring what a scoring recorded counts no further task. *)
LEMMA DenominatorStable ==
  ASSUME NEW s \in Sub, NEW old \in Seq(Result), NEW new \in Seq(Result),
         NamesIn(old) \subseteq NamesIn(new),
         NamesIn(new) \subseteq {<<0, t>> : t \in Denominator(s, old)}
  PROVE  Denominator(s, new) \subseteq Denominator(s, old)
  <1> DEFINE K == Touched(s, old)  L == Touched(s, new)
  <1>1. K \subseteq L
    BY DEF Touched, NamesIn
  <1>2. \A t \in Task : t \in L => t \in Denominator(s, old)
    <2> SUFFICES ASSUME NEW t \in Task, t \in L PROVE t \in Denominator(s, old)
      OBVIOUS
    <2>1. CASE t \in AssignedTasks(s)
      BY <2>1 DEF Denominator, Touched
    <2>2. CASE \E i \in DOMAIN new : new[i].name = <<0, t>>
      BY <2>2 DEF NamesIn
    <2> QED
      BY <2>1, <2>2 DEF Touched
  <1>3. ASSUME NEW t \in Task, Cardinality({u \in Task : u \in L \/ u < t}) < HiddenCount
        PROVE  t \in Denominator(s, old)
    <2> DEFINE A == {u \in Task : u \in K \/ u < t}  B == {u \in Task : u \in L \/ u < t}
    <2>1. A \subseteq B /\ B \subseteq Task
      BY <1>1
    <2>2. IsFiniteSet(Task)
      BY FS_Interval, RuntimeAssumption DEF Task
    <2>3. IsFiniteSet(B) /\ Cardinality(B) \in Nat /\ Cardinality(A) \in Nat
          /\ Cardinality(A) <= Cardinality(B)
      <3> HIDE DEF A, B
      <3> QED
        BY <2>1, <2>2, FS_Subset, FS_CardinalityType
    <2>4. Cardinality(A) < HiddenCount
      BY <1>3, <2>3, RuntimeAssumption
    <2> QED
      BY <2>4 DEF Denominator
  <1> QED
    BY <1>2, <1>3 DEF Denominator

-----------------------------------------------------------------------------
(* Invariance of IInv. *)

(* No run has results at the start. *)
LEMMA InitInvariant == Init => IInv
  <1> SUFFICES ASSUME Init PROVE AgreeInv /\ PendingInv
    BY InitCallInv DEF IInv
  <1>1. \A s \in Sub : results[s] = <<>>
    BY DEF Init
  <1>2. \A r \in Req : call[r].pc = "idle"
    BY DEF Init, NoCall
  <1> QED
    BY <1>1, <1>2 DEF AgreeInv, PendingInv

(* A step that leaves results and scores alone, starts a run that has no   *)
(* results or ends one, and disturbs no batch that waits for its scoring.  *)
LEMMA SameResultsStep ==
  ASSUME AgreeInv, PendingInv, TypeOK, UNCHANGED <<results, scored>>,
         \A s \in Sub : /\ status'[s] = "absent" => status[s] = "absent"
                        /\ status'[s] = "in_progress" =>
                             status[s] = "in_progress" \/ results[s] = <<>>,
         \A r \in Req : call'[r].pc = "score" =>
           /\ call'[r] = call[r]
           /\ assigned'[call[r].sub] = assigned[call[r].sub]
  PROVE  AgreeInv' /\ PendingInv'
  <1>1. AgreeInv'
    BY DEF AgreeInv
  <1>2. PendingInv'
    <2>1. ASSUME NEW s \in Sub, NEW answers, assigned'[s] = assigned[s], Awaits(s, answers)
          PROVE  Awaits(s, answers)'
      <3>1. Denominator(s, answers)' = Denominator(s, answers)
        BY <2>1 DEF Denominator, Touched, AssignedTasks
      <3>2. NamesIn(results[s])' = NamesIn(results[s]) /\ NamesIn(answers)' = NamesIn(answers)
        BY DEF NamesIn
      <3> QED
        BY <2>1, <3>1, <3>2 DEF Awaits
    <2>2. \A r \in Req : call[r].sub \in Sub
      BY DEF TypeOK, Call
    <2> QED
      BY <2>1, <2>2 DEF PendingInv
  <1> QED
    BY <1>1, <1>2

(* A handler that runs from lock to commit and only moves runs. *)
LEMMA QuietResults ==
  ASSUME IInv, TeamLockFree, UNCHANGED <<results, scored, call>>,
         \A s \in Sub : /\ status'[s] = "absent" => status[s] = "absent"
                        /\ status'[s] = "in_progress" =>
                             status[s] = "in_progress" \/ results[s] = <<>>
  PROVE  AgreeInv' /\ PendingInv'
  <1>1. \A r \in Req : call'[r].pc = "idle"
    BY RuntimeAssumption DEF IInv, CallInv, LockInv, TeamLockFree, TypeOK, Call
  <1> QED
    BY <1>1, SameResultsStep DEF IInv, CallInv

(* A handler that runs from lock to commit and files one result of a run   *)
(* in progress, under a name that has none; it may end the run.            *)
LEMMA FileStep ==
  ASSUME IInv, TeamLockFree, NEW s \in Running, NEW x \in Result, x.status # "unstarted",
         x.name \notin NamesIn(results[s]),
         results' = [results EXCEPT ![s] = Append(results[s], x)],
         UNCHANGED <<scored, call>>,
         status' = status \/ Move(s, "completed")
  PROVE  AgreeInv' /\ PendingInv'
  <1> USE DEF IInv, CallInv
  <1>1. \A r \in Req : call'[r].pc = "idle"
    BY RuntimeAssumption DEF LockInv, TeamLockFree, TypeOK, Call
  <1>2. PendingInv'
    BY <1>1 DEF PendingInv
  <1>3. s \in Sub /\ status[s] = "in_progress" /\ results[s] \in Seq(Result)
    BY DEF Running, TypeOK
  <1>4. results'[s] = Append(results[s], x) /\ \A p \in Sub \ {s} : results'[p] = results[p]
    BY <1>3 DEF TypeOK
  <1>5. /\ DOMAIN results[s] = 1..Len(results[s]) /\ Len(results[s]) \in Nat
        /\ DOMAIN results'[s] = 1..(Len(results[s]) + 1)
        /\ results'[s][Len(results[s]) + 1] = x
        /\ \A k \in DOMAIN results[s] : results'[s][k] = results[s][k]
    BY <1>3, <1>4
  <1>6. \A i, j \in DOMAIN results'[s] : results'[s][i].name = results'[s][j].name => i = j
    <2>1. \A k \in DOMAIN results[s] : results[s][k].name # x.name
      BY DEF NamesIn
    <2>2. \A i, j \in DOMAIN results[s] : results[s][i].name = results[s][j].name => i = j
      BY <1>3 DEF AgreeInv
    <2>3. \A i \in DOMAIN results'[s] : i \in DOMAIN results[s] \/ i = Len(results[s]) + 1
      BY <1>5
    <2> QED
      BY <1>5, <2>1, <2>2, <2>3
  <1>7. ~scored[s] => \A k \in DOMAIN results'[s] : results'[s][k].status # "unstarted"
    <2>1. \A i \in DOMAIN results'[s] : i \in DOMAIN results[s] \/ i = Len(results[s]) + 1
      BY <1>5
    <2> QED
      BY <1>3, <1>5, <2>1 DEF AgreeInv
  <1>8. \A p \in Sub : status'[p] \in {status[p], "completed"} /\ (p # s => status'[p] = status[p])
    BY <1>3 DEF Move, TypeOK
  <1>9. ASSUME NEW p \in Sub \ {s}
        PROVE  /\ results'[p] = results[p] /\ status'[p] = status[p] /\ scored'[p] = scored[p]
    BY <1>4, <1>8
  <1>10. status'[s] # "absent"
    BY <1>3, <1>8
  <1>11. AgreeInv'
    BY <1>6, <1>7, <1>9, <1>10 DEF AgreeInv
  <1> QED
    BY <1>2, <1>11

(* The timeout of the task that is open goes under a name without result.  *)
LEMMA TimeoutStep ==
  ASSUME IInv, TeamLockFree, NEW s \in Running,
         results' = [results EXCEPT ![s] = ResultsWithTimeout(s)],
         UNCHANGED <<scored, call>>,
         status' = status \/ Move(s, "completed")
  PROVE  AgreeInv' /\ PendingInv'
  <1>1. s \in Sub /\ TypeOK /\ status[s] = "in_progress"
    BY DEF IInv, CallInv, Running
  <1>2. CASE LatestOpen(s)
    <2> DEFINE a == assigned[s][Len(assigned[s])]
    <2>1. a \in Assignment
      BY <1>1, <1>2, LatestInDomain
    <2>2. a.name \in Name /\ Canonical(a.name) \in Name
      BY <2>1, CanonicalIsName DEF Assignment
    <2>3. Canonical(a.name) \notin NamesIn(results[s])
      BY <1>2 DEF LatestOpen, Latest, Unsubmitted, Filed, NamesIn
    <2> DEFINE x == TimedOut(Canonical(a.name), a.name)
    <2>4. x \in Result /\ x.name = Canonical(a.name) /\ x.status # "unstarted"
      BY <2>2 DEF TimedOut, Result
    <2>5. results' = [results EXCEPT ![s] = Append(results[s], x)]
      BY <1>2 DEF ResultsWithTimeout
    <2> HIDE DEF x, a
    <2> QED
      BY <2>3, <2>4, <2>5, FileStep
  <1>3. CASE ~LatestOpen(s)
    <2>1. results' = results
      BY <1>1, <1>3 DEF ResultsWithTimeout, TypeOK
    <2>2. \A p \in Sub : status'[p] \in {status[p], "completed"}
      BY <1>1 DEF Move, TypeOK
    <2> QED
      BY <2>1, <2>2, QuietResults
  <1> QED
    BY <1>2, <1>3

(* A batch leaves its answers and waits for its scoring. *)
LEMMA BatchFiles ==
  ASSUME IInv, NEW r \in Req, NEW s \in Sub, NEW names \in Answers, SubmitBatch(r, s, names)
  PROVE  AgreeInv' /\ PendingInv'
  <1> USE DEF IInv, CallInv
  <1> DEFINE answers == [k \in DOMAIN names |-> Completed(Canonical(names[k]), names[k])]
  <1>1. \A k \in DOMAIN names : names[k] \in Name
    BY DEF Answers
  <1>2. \A k \in DOMAIN answers : \E t \in Task :
          answers[k].name = <<0, t>> /\ answers[k].status = "completed"
    BY <1>1, CanonicalIsName DEF Completed, Canonical
  <1>3. /\ TeamLockFree /\ s \in Running /\ UNCHANGED scored
        /\ results' = [results EXCEPT ![s] = answers]
        /\ status' = [status EXCEPT ![s] = "completed"]
        /\ call' = [call EXCEPT ![r] = [pc |-> "score", sub |-> s, name |-> NoName,
                                       fresh |-> FALSE, answers |-> answers]]
    BY DEF SubmitBatch, Move
  <1> HIDE DEF answers
  <1>4. results'[s] = answers /\ \A p \in Sub \ {s} : results'[p] = results[p]
    BY <1>3 DEF TypeOK
  <1>5. AgreeInv'
    <2>1. \A k \in DOMAIN results'[s] : results'[s][k].status = "completed"
      BY <1>2, <1>4
    <2>2. status'[s] = "completed" /\ \A p \in Sub \ {s} : status'[p] = status[p]
      BY <1>3 DEF TypeOK
    <2>3. ASSUME NEW p \in Sub \ {s}
          PROVE  results'[p] = results[p] /\ status'[p] = status[p] /\ scored'[p] = scored[p]
      BY <1>3, <1>4, <2>2
    <2> QED
      BY <2>1, <2>2, <2>3 DEF AgreeInv
  <1>6. PendingInv'
    <2>1. \A q \in Req : call[q].pc = "idle"
      BY <1>3, RuntimeAssumption DEF LockInv, TeamLockFree, TypeOK, Call
    <2>2. \A q \in Req : call'[q].pc = "score" => call'[q].sub = s /\ call'[q].answers = answers
      BY <1>3, <2>1 DEF TypeOK
    <2>3. \A t \in Task : <<0, t>> \in NamesIn(answers) => t \in Denominator(s, answers)'
      BY DEF Denominator, Touched, NamesIn
    <2>4. NamesIn(answers)' = NamesIn(answers) /\ NamesIn(results[s])' = NamesIn(answers)
      BY <1>4 DEF NamesIn
    <2>5. NamesIn(answers) \subseteq {<<0, t>> : t \in Denominator(s, answers)'}
      BY <1>2, <2>3 DEF NamesIn
    <2>6. \A k \in DOMAIN answers : answers[k].name \in NamesIn(answers)
      BY DEF NamesIn
    <2>7. \A a : a = answers => Awaits(s, a)'
      BY <1>2, <1>4, <2>4, <2>5, <2>6 DEF Awaits
    <2> QED
      BY <2>2, <2>7 DEF PendingInv
  <1> QED
    BY <1>5, <1>6

(* After a scoring the results of the run agree, whatever it scored. *)
LEMMA ScoreAgrees ==
  ASSUME IInv, NEW s \in Sub, status[s] \in Ending, NEW res \in Seq(Result), Score(s, res),
         UNCHANGED status
  PROVE  AgreeInv'
  <1> USE DEF IInv, CallInv
  <1>1. /\ \A p \in Sub \ {s} : results'[p] = results[p] /\ scored'[p] = scored[p]
        /\ scored'[s]
        /\ \A k \in DOMAIN results'[s] : \E t \in Denominator(s, res) :
             results'[s][k] = RecordFor(res, t)
    BY ScoreResults
  <1>2. ASSUME NEW i \in DOMAIN results'[s], NEW j \in DOMAIN results'[s],
               results'[s][i].name = results'[s][j].name
        PROVE  results'[s][i].status = results'[s][j].status
    <2>1. PICK t \in Denominator(s, res) : results'[s][i] = RecordFor(res, t)
      BY <1>1
    <2>2. PICK u \in Denominator(s, res) : results'[s][j] = RecordFor(res, u)
      BY <1>1
    <2>3. results'[s][i].name = <<0, t>> /\ results'[s][j].name = <<0, u>>
      BY <2>1, <2>2, RecordOf
    <2>4. t = u
      <3>1. <<0, t>> = <<0, u>>
        BY <1>2, <2>3
      <3>2. <<0, t>>[2] = t /\ <<0, u>>[2] = u
        OBVIOUS
      <3> QED
        BY ONLY <3>1, <3>2
    <2> QED
      BY <2>1, <2>2, <2>4
  <1>3. status'[s] # "absent" /\ status'[s] # "in_progress"
    BY DEF Ending
  <1>4. ASSUME NEW p \in Sub \ {s}
        PROVE  results'[p] = results[p] /\ status'[p] = status[p] /\ scored'[p] = scored[p]
    BY <1>1
  <1> QED
    BY <1>1, <1>2, <1>3, <1>4 DEF AgreeInv

(* Scoring the results of a run is what scoring the answers of a batch     *)
(* that waits comes to.                                                    *)
LEMMA AwaitsScore ==
  ASSUME IInv, NEW s \in Sub, Score(s, results[s]), UNCHANGED assigned,
         NEW answers \in Seq(Result), Awaits(s, answers)
  PROVE  Awaits(s, answers)'
  <1> USE DEF IInv, CallInv
  <1> DEFINE D == Denominator(s, answers)  old == results[s]
  <1>1. old \in Seq(Result) /\ results'[s] \in Seq(Result)
    BY ScoreType DEF TypeOK
  <1>2. /\ scored'[s]
        /\ \A k \in DOMAIN results'[s] : \E t \in Denominator(s, old) :
             results'[s][k] = RecordFor(old, t)
        /\ \A t \in Denominator(s, old) : \E k \in DOMAIN results'[s] :
             results'[s][k] = RecordFor(old, t)
    BY ScoreResults, <1>1
  <1>3. /\ NamesIn(answers) \subseteq NamesIn(old)
        /\ NamesIn(old) \subseteq {<<0, t>> : t \in D}
        /\ \A k \in DOMAIN old : old[k].status =
             IF old[k].name \in NamesIn(answers) THEN "completed" ELSE "unstarted"
        /\ \A i \in DOMAIN answers : answers[i].status = "completed"
    BY DEF Awaits
  <1>4. Denominator(s, old) \subseteq D
    BY <1>1, <1>3, DenominatorStable
  <1>5. D' = D
    BY DEF Denominator, Touched, AssignedTasks
  <1> HIDE DEF D, old
  <1>6. ASSUME NEW k \in DOMAIN results'[s]
        PROVE  /\ results'[s][k].name \in {<<0, t>> : t \in D}
               /\ results'[s][k].status =
                    IF results'[s][k].name \in NamesIn(answers) THEN "completed" ELSE "unstarted"
    <2>1. PICK t \in Denominator(s, old) : results'[s][k] = RecordFor(old, t)
      BY <1>2
    <2>2. results'[s][k].name = <<0, t>>
      <3>1. RecordFor(old, t).name = <<0, t>>
        BY ONLY <1>1, RecordOf
      <3> QED
        BY ONLY <2>1, <3>1
    <2>3. CASE <<0, t>> \in NamesIn(old)
      <3>1. PICK i \in DOMAIN old : old[i].name = <<0, t>> /\ RecordFor(old, t).status = old[i].status
        BY <1>1, <2>3, RecordOf
      <3> QED
        BY <1>3, <1>4, <2>1, <2>2, <3>1
    <2>4. CASE <<0, t>> \notin NamesIn(old)
      <3>1. RecordFor(old, t).status = "unstarted"
        BY <1>1, <2>4, RecordOf
      <3> QED
        BY <1>3, <1>4, <2>1, <2>2, <2>4, <3>1
    <2> QED
      BY <2>3, <2>4
  <1>7. NamesIn(answers) \subseteq NamesIn(results'[s])
    <2> SUFFICES ASSUME NEW n \in NamesIn(answers) PROVE n \in NamesIn(results'[s])
      OBVIOUS
    <2>1. PICK t \in D : n = <<0, t>> /\ <<0, t>> \in NamesIn(old)
      BY <1>3
    <2>2. t \in Denominator(s, old)
      BY <1>1, <2>1, NamedCounts
    <2>3. PICK k \in DOMAIN results'[s] : results'[s][k] = RecordFor(old, t)
      BY <1>2, <2>2
    <2>4. results'[s][k].name = n
      BY <1>1, <2>1, <2>3, RecordOf
    <2> QED
      BY <2>4 DEF NamesIn
  <1>8. NamesIn(results'[s]) \subseteq {<<0, t>> : t \in D}
    BY <1>6 DEF NamesIn
  <1>9. NamesIn(results[s])' = NamesIn(results'[s]) /\ NamesIn(answers)' = NamesIn(answers)
    BY DEF NamesIn
  <1> QED
    BY <1>2, <1>3, <1>5, <1>6, <1>7, <1>8, <1>9 DEF Awaits, D

(* The scoring by an administrator keeps records and results agreeing. *)
LEMMA AdminScoreResults ==
  ASSUME IInv, NEW s \in Sub, AdminScore(s)
  PROVE  AgreeInv' /\ PendingInv'
  <1> USE DEF IInv, CallInv
  <1>1. /\ status[s] \in Ending /\ Score(s, results[s])
        /\ UNCHANGED <<status, assigned, call>> /\ results[s] \in Seq(Result)
    BY DEF AdminScore, TypeOK
  <1>2. AgreeInv'
    BY <1>1, ScoreAgrees
  <1>3. \A p \in Sub \ {s} : results'[p] = results[p] /\ scored'[p] = scored[p]
    BY <1>1, ScoreResults
  <1>4. ASSUME NEW p \in Sub, NEW answers \in Seq(Result), Awaits(p, answers)
        PROVE  Awaits(p, answers)'
    <2>1. CASE p = s
      BY <1>1, <1>4, <2>1, AwaitsScore
    <2>2. CASE p # s
      <3>1. Denominator(p, answers)' = Denominator(p, answers)
        BY <1>1 DEF Denominator, Touched, AssignedTasks
      <3>2. NamesIn(results[p])' = NamesIn(results[p]) /\ NamesIn(answers)' = NamesIn(answers)
        BY <1>3, <2>2 DEF NamesIn
      <3>3. results'[p] = results[p] /\ scored'[p] = scored[p]
        BY <1>3, <2>2
      <3> QED
        BY <1>4, <3>1, <3>2, <3>3 DEF Awaits
    <2> QED
      BY <2>1, <2>2
  <1>5. \A r \in Req : call[r].sub \in Sub /\ call[r].answers \in Seq(Result)
    BY DEF TypeOK, Call
  <1>6. PendingInv'
    BY <1>1, <1>4, <1>5 DEF PendingInv
  <1> QED
    BY <1>2, <1>6

(* The scoring of a batch is the last step of the only suspended request.  *)
LEMMA BatchScoreResults ==
  ASSUME IInv, NEW r \in Req, BatchScore(r)
  PROVE  AgreeInv' /\ PendingInv'
  <1> USE DEF IInv, CallInv
  <1>1. /\ call[r].pc = "score" /\ call[r].sub \in Sub /\ call[r].answers \in Seq(Result)
        /\ Score(call[r].sub, call[r].answers)
        /\ call' = [call EXCEPT ![r] = NoCall] /\ UNCHANGED status
    BY DEF BatchScore, TypeOK, Call
  <1>2. status[call[r].sub] \in Ending
    BY <1>1 DEF BatchInv
  <1>3. AgreeInv'
    BY <1>1, <1>2, ScoreAgrees
  <1>4. \A q \in Req : call'[q].pc = "idle"
    BY <1>1 DEF LockInv, TypeOK, Call, NoCall
  <1> QED
    BY <1>3, <1>4 DEF PendingInv

(* Steps of the clock, of the administrator and of requests that end.      *)
LEMMA EnvironmentResults ==
  ASSUME IInv, Environment
  PROVE  AgreeInv' /\ PendingInv'
  <1> USE DEF IInv, CallInv
  <1>1. \A r \in Req : call[r].pc = "score" => call[r].sub \in Sub /\ call[r].sub \notin Running
    BY DEF BatchInv, TypeOK, Call, Running, Ending
  <1>2. UNCHANGED <<status, results, scored>>
    BY DEF Environment, BudgetRunsOut, RaiseTimeBudget, MoveWindow, MinutePasses, Abandon, runVars
  <1>3. \A r \in Req : call'[r].pc = "score" => call'[r] = call[r]
    BY DEF Environment, BudgetRunsOut, RaiseTimeBudget, MoveWindow, MinutePasses, Abandon, NoCall,
       TypeOK
  <1>4. \A p \in Sub : p \notin Running => assigned'[p] = assigned[p]
    BY DEF Environment, BudgetRunsOut, RaiseTimeBudget, MoveWindow, MinutePasses, Abandon, runVars,
       TypeOK
  <1> QED
    BY <1>1, <1>2, <1>3, <1>4, SameResultsStep

(* The steps of the run keep records and results agreeing. *)
LEMMA RunsResults ==
  ASSUME IInv, Runs
  PROVE  AgreeInv' /\ PendingInv'
  <1> USE DEF IInv, CallInv
  <1> PICK s \in Sub :
        \/ CloseStale(s) \/ StartSubmission(s) \/ Expire(s) \/ Finalize(s) \/ Abort(s)
        \/ AdminScore(s) \/ StartNextTask(s) \/ \E n \in Name : SubmitTask(s, n)
        \/ \E r \in Req, names \in Answers : SubmitBatch(r, s, names)
    BY DEF Runs
  <1>1. CASE CloseStale(s) \/ Expire(s) \/ Abort(s) \/ StartSubmission(s)
    <2>1. TeamLockFree /\ UNCHANGED <<results, scored, call>>
      BY <1>1 DEF CloseStale, Expire, Abort, StartSubmission
    <2>2. \/ \E to \in Ending : status' = [status EXCEPT ![s] = to]
          \/ status[s] = "absent" /\ status' = [status EXCEPT ![s] = "in_progress"]
      BY <1>1 DEF CloseStale, Expire, Abort, StartSubmission, Move, Ending
    <2>3. status[s] = "absent" => results[s] = <<>>
      BY DEF AgreeInv
    <2>4. \A p \in Sub : /\ status'[p] = "absent" => status[p] = "absent"
                         /\ status'[p] = "in_progress" =>
                              status[p] = "in_progress" \/ results[p] = <<>>
      BY <2>2, <2>3 DEF TypeOK, Ending
    <2> QED
      BY <2>1, <2>4, QuietResults
  <1>2. CASE Finalize(s)
    BY <1>2, TimeoutStep DEF Finalize
  <1>3. CASE AdminScore(s)
    BY <1>3, AdminScoreResults
  <1>4. CASE StartNextTask(s)
    BY <1>4, TimeoutStep DEF StartNextTask
  <1>5. ASSUME NEW n \in Name, SubmitTask(s, n) PROVE AgreeInv' /\ PendingInv'
    <2>1. PICK i \in LatestNamed(s, n) :
            /\ \A k \in DOMAIN results[s] : results[s][k].name # n
            /\ File(s, IF assigned[s][i].late THEN TimedOut(n, assigned[s][i].name)
                                              ELSE Completed(n, assigned[s][i].name))
      BY <1>5 DEF SubmitTask
    <2>2. assigned[s][i] \in Assignment
      BY DEF LatestNamed, Named, TypeOK
    <2>3. assigned[s][i].name \in Name
      BY <2>2 DEF Assignment
    <2> DEFINE a == assigned[s][i]
               x == IF a.late THEN TimedOut(n, a.name) ELSE Completed(n, a.name)
    <2>4. /\ x \in Result /\ x.name = n /\ x.status # "unstarted"
          /\ results' = [results EXCEPT ![s] = Append(results[s], x)]
      <3>1. TimedOut(n, a.name) \in Result /\ Completed(n, a.name) \in Result
        BY <2>3, FiledIsResult
      <3>2. x.name = n /\ x.status # "unstarted"
        BY DEF TimedOut, Completed
      <3> QED
        BY <2>1, <3>1, <3>2 DEF File
    <2> HIDE DEF x, a
    <2>5. n \notin NamesIn(results[s])
      BY <2>1 DEF NamesIn
    <2>6. TeamLockFree /\ s \in Running /\ UNCHANGED <<status, scored, call>>
      BY <1>5 DEF SubmitTask
    <2> QED
      BY <2>4, <2>5, <2>6, FileStep
  <1>6. ASSUME NEW r \in Req, NEW names \in Answers, SubmitBatch(r, s, names)
        PROVE  AgreeInv' /\ PendingInv'
    BY <1>6, BatchFiles
  <1> QED
    BY <1>1, <1>2, <1>3, <1>4, <1>5, <1>6

(* The steps of a tool call keep records and results agreeing. *)
LEMMA ToolsResults ==
  ASSUME IInv, Tools
  PROVE  AgreeInv' /\ PendingInv'
  <1> USE DEF IInv, CallInv
  <1> PICK s \in Sub, n \in Name \cup {NoName} :
        ToolTooLate(s, n) \/ \E r \in Req : ToolCheck(r, s, n) \/ ToolAssign(r, s, n)
    BY DEF Tools
  <1>1. CASE ToolTooLate(s, n)
    <2>1. PICK i \in IF n = NoName THEN FirstUnsubmitted(s) ELSE LatestNamed(s, n) :
            /\ ~Answered(s, assigned[s][i].name)
            /\ File(s, TimedOut(Canonical(assigned[s][i].name), NoName))
      BY <1>1 DEF ToolTooLate
    <2>2. assigned[s][i] \in Assignment
      BY DEF FirstUnsubmitted, LatestNamed, Named, TypeOK
    <2>3. Canonical(assigned[s][i].name) \in Name
      BY <2>2, CanonicalIsName DEF Assignment
    <2> DEFINE x == TimedOut(Canonical(assigned[s][i].name), NoName)
    <2>4. x \in Result /\ x.name = Canonical(assigned[s][i].name) /\ x.status # "unstarted"
      BY <2>3 DEF TimedOut, Result
    <2>5. x.name \notin NamesIn(results[s])
      BY <2>1, <2>4 DEF Answered, NamesIn
    <2>6. results' = [results EXCEPT ![s] = Append(results[s], x)]
      BY <2>1 DEF File
    <2>7. TeamLockFree /\ s \in Running /\ UNCHANGED <<status, scored, call>>
      BY <1>1 DEF ToolTooLate
    <2> HIDE DEF x
    <2> QED
      BY <2>4, <2>5, <2>6, <2>7, FileStep
  <1>2. ASSUME NEW r \in Req, ToolCheck(r, s, n) \/ ToolAssign(r, s, n)
        PROVE  AgreeInv' /\ PendingInv'
    <2>1. UNCHANGED <<status, assigned, results, scored>>
      BY <1>2 DEF ToolCheck, ToolAssign, runVars
    <2>2. \A q \in Req : call'[q].pc = "score" => call'[q] = call[q]
      BY <1>2, ZenonT(60) DEF ToolCheck, ToolAssign, NoCall, TypeOK
    <2> QED
      BY <2>1, <2>2, SameResultsStep
  <1> QED
    BY <1>1, <1>2

(* The commit of a tool call keeps records and results agreeing. *)
LEMMA ToolCommitResults ==
  ASSUME IInv, NEW r \in Req, ToolCommit(r)
  PROVE  AgreeInv' /\ PendingInv'
  <1> USE DEF IInv, CallInv
  <1>1. UNCHANGED <<status, results, scored>>
    BY DEF ToolCommit
  <1>2. \A q \in Req : call'[q].pc = "idle"
    BY DEF ToolCommit, LockInv, TypeOK, Call, NoCall
  <1> QED
    BY <1>1, <1>2, SameResultsStep

(* Every step keeps the invariant. *)
LEMMA NextInvariant == IInv /\ [Next]_vars => IInv'
  <1> SUFFICES ASSUME IInv, [Next]_vars PROVE AgreeInv' /\ PendingInv'
    BY NextCallInv DEF IInv
  <1>1. CASE Environment
    BY <1>1, EnvironmentResults
  <1>2. CASE Runs
    BY <1>2, RunsResults
  <1>3. CASE Tools
    BY <1>3, ToolsResults
  <1>4. ASSUME NEW r \in Req, BatchScore(r) \/ ToolCommit(r) PROVE AgreeInv' /\ PendingInv'
    BY <1>4, BatchScoreResults, ToolCommitResults
  <1>5. CASE UNCHANGED vars
    BY <1>5, SameResultsStep DEF vars, runVars, IInv, CallInv
  <1> QED
    BY <1>1, <1>2, <1>3, <1>4, <1>5 DEF Next

(* All that the calls and the results of a run rest on holds forever.      *)
THEOREM InvariantHolds == Spec => []IInv
  <1>1. Init => IInv
    BY InitInvariant
  <1>2. IInv /\ [Next]_vars => IInv'
    BY NextInvariant
  <1> QED
    BY <1>1, <1>2, PTL DEF Spec

-----------------------------------------------------------------------------
(* What follows from the invariant. *)

(* Clients that use only canonical names get at most one result for a task *)
(* while the run is on, whether answer or timeout.                         *)
THEOREM OneResultHolds == Spec => []OneResultPerTask
  <1>1. IInv => OneResultPerTask
    <2> SUFFICES ASSUME IInv, NEW s \in Running, NEW t \in Task, CanonicalOnly(s, t)
                 PROVE  Cardinality({k \in DOMAIN results[s] : results[s][k].name[2] = t}) <= 1
      BY DEF OneResultPerTask
    <2> DEFINE S == {k \in DOMAIN results[s] : results[s][k].name[2] = t}
    <2>1. s \in Sub /\ status[s] = "in_progress" /\ results[s] \in Seq(Result)
      BY DEF IInv, CallInv, TypeOK, Running
    <2>2. ASSUME NEW k \in S PROVE results[s][k].name = <<0, t>>
      <3>1. results[s][k] \in Result
        BY <2>1
      <3>2. results[s][k].name \in (0..NSubs) \X Task
        BY <3>1 DEF Result, Name
      <3>3. results[s][k].name[1] = 0 /\ results[s][k].name[2] = t
        BY DEF CanonicalOnly
      <3> QED
        BY <3>2, <3>3
    <2>3. \A k, j \in S : k = j
      BY <2>1, <2>2 DEF IInv, AgreeInv
    <2> QED
      BY <2>3, AtMostOne
  <1> QED
    BY <1>1, InvariantHolds, PTL

(* What a step does to the results of a run: nothing, a scoring, a batch,  *)
(* or one more result at the end.                                          *)
Filing(s) == \E x \in Result : results'[s] = Append(results[s], x)
(* How a step may change the results of a run and its score. *)
LEMMA ResultSteps ==
  ASSUME IInv, [Next]_vars
  PROVE  \A s \in Sub :
           \/ results'[s] = results[s] /\ scored'[s] = scored[s]
           \/ Filing(s) /\ scored'[s] = scored[s]
           \/ BatchStep(s) /\ scored'[s] = scored[s]
           \/ Score(s, results[s])
           \/ \E r \in Req : call[r].pc = "score" /\ call[r].sub = s /\ Score(s, call[r].answers)
  <1> USE DEF IInv, CallInv
  <1> SUFFICES ASSUME NEW s \in Sub,
                      ~(results'[s] = results[s] /\ scored'[s] = scored[s])
               PROVE  \/ Filing(s) /\ scored'[s] = scored[s]
                      \/ BatchStep(s) /\ scored'[s] = scored[s]
                      \/ Score(s, results[s])
                      \/ \E r \in Req : /\ call[r].pc = "score" /\ call[r].sub = s
                                         /\ Score(s, call[r].answers)
    OBVIOUS
  <1>1. ASSUME NEW p \in Sub, NEW x \in Result, UNCHANGED scored,
               results' = [results EXCEPT ![p] = Append(results[p], x)]
        PROVE  Filing(s) /\ scored'[s] = scored[s]
    BY <1>1 DEF TypeOK, Filing
  <1>2. ASSUME NEW p \in Sub, UNCHANGED scored,
               results' = [results EXCEPT ![p] = ResultsWithTimeout(p)]
        PROVE  Filing(s) /\ scored'[s] = scored[s]
    <2>1. CASE LatestOpen(p)
      <3>1. assigned[p][Len(assigned[p])].name \in Name
        BY <2>1, LatestInDomain DEF Assignment
      <3> QED
        BY <1>1, <1>2, <2>1, <3>1, CanonicalIsName, FiledIsResult DEF ResultsWithTimeout
    <2>2. CASE ~LatestOpen(p)
      BY <1>2, <2>2 DEF ResultsWithTimeout, TypeOK
    <2> QED
      BY <2>1, <2>2
  <1>3. CASE Environment \/ UNCHANGED vars
    BY <1>3 DEF Environment, BudgetRunsOut, RaiseTimeBudget, MoveWindow, MinutePasses, Abandon,
       vars, runVars
  <1>4. CASE Runs
    <2> PICK p \in Sub :
          \/ CloseStale(p) \/ StartSubmission(p) \/ Expire(p) \/ Finalize(p) \/ Abort(p)
          \/ AdminScore(p) \/ StartNextTask(p) \/ \E n \in Name : SubmitTask(p, n)
          \/ \E r \in Req, names \in Answers : SubmitBatch(r, p, names)
      BY <1>4 DEF Runs
    <2>1. CASE CloseStale(p) \/ StartSubmission(p) \/ Expire(p) \/ Abort(p)
      BY <2>1 DEF CloseStale, StartSubmission, Expire, Abort
    <2>2. CASE Finalize(p) \/ StartNextTask(p)
      BY <1>2, <2>2 DEF Finalize, StartNextTask
    <2>3. CASE AdminScore(p)
      <3>1. Score(p, results[p]) /\ results[p] \in Seq(Result)
        BY <2>3 DEF AdminScore, TypeOK
      <3>2. p = s
        BY <3>1, ScoreResults
      <3> QED
        BY <3>1, <3>2
    <2>4. ASSUME NEW n \in Name, SubmitTask(p, n) PROVE Filing(s) /\ scored'[s] = scored[s]
      <3>1. PICK i \in LatestNamed(p, n) :
              File(p, IF assigned[p][i].late THEN TimedOut(n, assigned[p][i].name)
                                             ELSE Completed(n, assigned[p][i].name))
        BY <2>4 DEF SubmitTask
      <3>2. assigned[p][i] \in Assignment
        BY DEF LatestNamed, Named, TypeOK
      <3>3. assigned[p][i].name \in Name
        BY <3>2 DEF Assignment
      <3>4. PICK x \in Result : results' = [results EXCEPT ![p] = Append(results[p], x)]
        BY <3>1, <3>3, FiledIsResult DEF File
      <3> QED
        BY <1>1, <2>4, <3>4 DEF SubmitTask
    <2>5. ASSUME NEW r \in Req, NEW names \in Answers, SubmitBatch(r, p, names)
          PROVE  BatchStep(s) /\ scored'[s] = scored[s]
      <3>1. p = s /\ UNCHANGED scored
        BY <2>5 DEF SubmitBatch, TypeOK
      <3>2. call[r].pc = "idle" /\ call'[r].pc = "score" /\ call'[r].sub = p
        BY <2>5 DEF SubmitBatch, TypeOK
      <3> QED
        BY <3>1, <3>2 DEF BatchStep
    <2> QED
      BY <2>1, <2>2, <2>3, <2>4, <2>5
  <1>5. CASE Tools
    <2> PICK p \in Sub, n \in Name \cup {NoName} :
          ToolTooLate(p, n) \/ \E r \in Req : ToolCheck(r, p, n) \/ ToolAssign(r, p, n)
      BY <1>5 DEF Tools
    <2>1. CASE ToolTooLate(p, n)
      <3>1. PICK i \in IF n = NoName THEN FirstUnsubmitted(p) ELSE LatestNamed(p, n) :
              File(p, TimedOut(Canonical(assigned[p][i].name), NoName))
        BY <2>1 DEF ToolTooLate
      <3>2. assigned[p][i] \in Assignment
        BY DEF FirstUnsubmitted, LatestNamed, Named, TypeOK
      <3>3. Canonical(assigned[p][i].name) \in Name
        BY <3>2, CanonicalIsName DEF Assignment
      <3> QED
        BY <1>1, <2>1, <3>1, <3>3, FiledIsResult DEF File, ToolTooLate
    <2>2. CASE \E r \in Req : ToolCheck(r, p, n) \/ ToolAssign(r, p, n)
      BY <2>2 DEF ToolCheck, ToolAssign, runVars
    <2> QED
      BY <2>1, <2>2
  <1>6. ASSUME NEW r \in Req, BatchScore(r)
        PROVE  call[r].pc = "score" /\ call[r].sub = s /\ Score(s, call[r].answers)
    <2>1. /\ call[r].pc = "score" /\ Score(call[r].sub, call[r].answers)
          /\ call[r].sub \in Sub /\ call[r].answers \in Seq(Result)
      BY <1>6 DEF BatchScore, TypeOK, Call
    <2>2. call[r].sub = s
      BY <2>1, ScoreResults
    <2> QED
      BY <2>1, <2>2
  <1>7. ASSUME NEW r \in Req, ToolCommit(r) PROVE FALSE
    BY <1>7 DEF ToolCommit
  <1> QED
    BY <1>3, <1>4, <1>5, <1>6, <1>7 DEF Next

(* A result outlives every step but a batch and, filed under an ephemeral  *)
(* name, a scoring; the late scoring of a batch changes none of the        *)
(* results that an administrator has scored before it.                     *)
THEOREM ResultKeptHolds == Spec => ResultKept
  <1> DEFINE Kept(s, k) ==
        \/ \E j \in DOMAIN results'[s] : /\ results'[s][j].name = results[s][k].name
                                          /\ results'[s][j].status = results[s][k].status
        \/ BatchStep(s)
        \/ results[s][k].name[1] # 0 /\ scored'[s]
  <1>1. ASSUME IInv, [Next]_vars, NEW s \in Sub, NEW k \in DOMAIN results[s] PROVE Kept(s, k)
    <2>1. results[s] \in Seq(Result) /\ results[s][k] \in Result
      BY <1>1 DEF IInv, CallInv, TypeOK
    <2>2. results[s][k].name \in (0..NSubs) \X Task
      BY <2>1 DEF Result, Name
    <2>3. CASE results'[s] = results[s]
      BY <2>3
    <2>4. CASE Filing(s)
      <3>1. PICK x \in Result : results'[s] = Append(results[s], x)
        BY <2>4 DEF Filing
      <3> QED
        BY <2>1, <3>1
    <2>5. CASE Score(s, results[s])
      <3>1. CASE results[s][k].name[1] # 0
        BY <1>1, <2>1, <2>5, <3>1, ScoreResults DEF IInv, CallInv
      <3>2. CASE results[s][k].name[1] = 0
        <4>1. PICK t \in Task : results[s][k].name = <<0, t>>
          BY <2>2, <3>2
        <4>2. <<0, t>> \in NamesIn(results[s])
          BY <4>1 DEF NamesIn
        <4>3. PICK j \in DOMAIN results'[s] : results'[s][j] = RecordFor(results[s], t)
          BY <1>1, <2>1, <2>5, <4>2, NamedCounts, ScoreResults DEF IInv, CallInv
        <4>4. PICK i \in DOMAIN results[s] : /\ results[s][i].name = <<0, t>>
                                             /\ results'[s][j].name = <<0, t>>
                                             /\ results'[s][j].status = results[s][i].status
          BY <2>1, <4>2, <4>3, RecordOf, ZenonT(60)
        <4>5. results[s][i].status = results[s][k].status
          BY <1>1, <4>1, <4>4 DEF IInv, AgreeInv
        <4> QED
          BY <4>1, <4>4, <4>5
      <3> QED
        BY <3>1, <3>2
    <2>6. ASSUME NEW r \in Req, call[r].pc = "score", call[r].sub = s, Score(s, call[r].answers)
          PROVE  Kept(s, k)
      <3> DEFINE answers == call[r].answers
      <3>1. answers \in Seq(Result) /\ TypeOK
        BY <1>1 DEF IInv, CallInv, TypeOK, Call
      <3>2. Awaits(s, answers)
        BY <1>1, <2>6 DEF IInv, PendingInv
      <3> HIDE DEF answers
      <3>3. /\ \A i \in DOMAIN answers : answers[i].status = "completed"
            /\ NamesIn(results[s]) \subseteq {<<0, t>> : t \in Denominator(s, answers)}
            /\ results[s][k].status =
                 IF results[s][k].name \in NamesIn(answers) THEN "completed" ELSE "unstarted"
        BY <3>2 DEF Awaits
      <3>4. PICK t \in Denominator(s, answers) : results[s][k].name = <<0, t>>
        BY <3>3 DEF NamesIn
      <3>5. PICK j \in DOMAIN results'[s] : results'[s][j] = RecordFor(answers, t)
        BY <2>6, <3>1, ScoreResults DEF answers
      <3>6. /\ results'[s][j].name = <<0, t>>
            /\ results'[s][j].status =
                 IF <<0, t>> \in NamesIn(answers) THEN "completed" ELSE "unstarted"
        BY <3>1, <3>3, <3>5, RecordOf
      <3> QED
        BY <3>3, <3>4, <3>6
    <2> QED
      BY <1>1, <2>3, <2>4, <2>5, <2>6, ResultSteps
  <1>2. IInv /\ [Next]_vars => [\A s \in Sub : \A k \in DOMAIN results[s] : Kept(s, k)]_vars
    BY <1>1
  <1> QED
    BY <1>2, InvariantHolds, PTL DEF Spec, ResultKept

(* What a scoring of the recorded results judges, as long as none has      *)
(* filed a task as unstarted: the tasks that have an answer.               *)
LEMMA JudgesAnswers ==
  ASSUME IInv, NEW s \in Sub, ~scored[s]
  PROVE  Judged(s, results[s]) = CompletedTasks(s)
  <1> DEFINE res == results[s]
  <1>1. res \in Seq(Result)
    BY DEF IInv, CallInv, TypeOK
  <1>2. /\ \A i, j \in DOMAIN res : res[i].name = res[j].name => res[i].status = res[j].status
        /\ \A k \in DOMAIN res : res[k].status # "unstarted"
    BY DEF IInv, AgreeInv
  <1>3. \A k \in DOMAIN res : res[k].status \in {"completed", "timed_out"}
    <2>1. \A k \in DOMAIN res : res[k] \in Result
      BY <1>1
    <2> QED
      BY <1>2, <2>1 DEF Result
  <1>4. CompletedTasks(s) = {t \in Task : \E k \in DOMAIN res :
          res[k].name = <<0, t>> /\ res[k].status = "completed"}
    BY DEF CompletedTasks
  <1> HIDE DEF res
  <1>5. ASSUME NEW t \in Judged(s, res) PROVE t \in CompletedTasks(s)
    <2>1. PICK i \in RecordsOf(res, t) : res[i].status # "timed_out"
      BY DEF Judged
    <2>2. i \in DOMAIN res /\ res[i].name = <<0, t>> /\ t \in Task
      BY DEF RecordsOf, Judged, Denominator
    <2> QED
      BY <1>3, <1>4, <2>1, <2>2
  <1>6. ASSUME NEW t \in CompletedTasks(s) PROVE t \in Judged(s, res)
    <2>1. PICK k \in DOMAIN res : res[k].name = <<0, t>> /\ res[k].status = "completed"
      BY <1>4
    <2>2. <<0, t>> \in NamesIn(res)
      BY <2>1 DEF NamesIn
    <2>3. PICK i \in RecordsOf(res, t) : TRUE
      BY <1>1, <2>2, LastRecord
    <2>4. i \in DOMAIN res /\ res[i].name = <<0, t>>
      BY DEF RecordsOf
    <2>5. res[i].status = "completed"
      BY <1>2, <2>1, <2>4
    <2> QED
      BY <1>1, <2>2, <2>5, NamedCounts DEF Judged
  <1> QED
    BY <1>5, <1>6 DEF res

(* The first scoring of a run, by the batch or by the administrator while  *)
(* the batch waits, evaluates exactly the tasks with an answer.            *)
THEOREM FirstScoreSealsHolds == Spec => FirstScoreSeals
  <1>1. ASSUME IInv, [Next]_vars, NEW s \in Sub, ~scored[s], scored'[s]
        PROVE  judged'[s] = CompletedTasks(s)
    <2>1. TypeOK /\ results[s] \in Seq(Result)
      BY <1>1 DEF IInv, CallInv, TypeOK
    <2>2. CASE Score(s, results[s])
      BY <1>1, <2>1, <2>2, ScoreResults, JudgesAnswers
    <2>3. ASSUME NEW r \in Req, call[r].pc = "score", call[r].sub = s, Score(s, call[r].answers)
          PROVE  Score(s, results[s])
      BY <1>1, <2>3 DEF IInv, PendingInv, Awaits
    <2> QED
      BY <1>1, <2>2, <2>3, ResultSteps
  <1>2. IInv /\ [Next]_vars =>
          [\A s \in Sub : ~scored[s] /\ scored'[s] => judged'[s] = CompletedTasks(s)]_vars
    BY <1>1
  <1> QED
    BY <1>2, InvariantHolds, PTL DEF Spec, FirstScoreSeals

=============================================================================
