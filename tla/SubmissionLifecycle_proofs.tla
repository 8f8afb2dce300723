--------------------- MODULE SubmissionLifecycle_proofs ---------------------
(***************************************************************************)
(* The safety properties of SubmissionLifecycle hold for every number of   *)
(* teams, submissions and requests, and it implements SubmissionFSM.       *)
(***************************************************************************)
EXTENDS SubmissionLifecycle, FiniteSetTheorems, TLAPS

(* One request takes a step. *)
Step(r) == LockStep(r) \/ RunStep(r)

(* A lock freed of a request is free when the request held it. *)
LEMMA FreedType ==
  ASSUME NEW f \in [Key -> Req \cup {None}], NEW r
  PROVE  /\ Freed(f, r) \in [Key -> Req \cup {None}]
         /\ \A k \in Key : Freed(f, r)[k] = IF f[k] = r THEN None ELSE f[k]
BY DEF Freed

(* An idle request is a request. *)
LEMMA IdleType == Idle \in Request
BY DEF Idle, Request, PC, Status, Terminal

(* A request that moves on stays a request. *)
LEMMA GotoType ==
  ASSUME TypeOK, NEW r \in Req, NEW pc \in PC, Goto(r, pc)
  PROVE  req' \in [Req -> Request]
<1>1. req[r] \in Request
  BY DEF TypeOK
<1>2. [req[r] EXCEPT !.pc = pc] \in Request
  BY <1>1 DEF Request
<1>3. QED
  BY <1>2 DEF TypeOK, Goto

(* The types hold at the start. *)
LEMMA TypeInit == Init => TypeOK
<1> SUFFICES ASSUME Init PROVE TypeOK
  OBVIOUS
<1>1. phase \in Phase /\ teamStatus \in [Team -> {"active", "suspended"}]
  BY DEF Init, Phase
<1>2. ended \in BOOLEAN /\ aged \in [Sub -> BOOLEAN] /\ scored \in [Sub -> BOOLEAN]
  BY Zenon DEF Init
<1>3. status \in [Sub -> Status] /\ attempt \in [Sub -> Nat]
  BY DEF Init, Status
<1>4. mutex \in [Key -> Req \cup {None}] /\ row \in [Key -> Req \cup {None}]
  BY DEF Init
<1>5. req \in [Req -> Request]
  BY IdleType DEF Init
<1> QED
  BY <1>1, <1>2, <1>3, <1>4, <1>5 DEF TypeOK

(* A request that leaves frees its lock. *)
LEMMA LeaveType ==
  ASSUME TypeOK, NEW r \in Req, Leave(r)
  PROVE  mutex' \in [Key -> Req \cup {None}] /\ req' \in [Req -> Request]
<1>1. "teardown" \in PC
  BY DEF PC
<1>2. mutex' \in [Key -> Req \cup {None}]
  BY FreedType DEF TypeOK, Leave
<1>3. QED
  BY <1>1, <1>2, GotoType DEF Leave

(* A request that commits and returns frees both its locks. *)
LEMMA CommitType ==
  ASSUME TypeOK, NEW r \in Req, CommitAndReturn(r)
  PROVE  /\ mutex' \in [Key -> Req \cup {None}] /\ row' \in [Key -> Req \cup {None}]
         /\ req' \in [Req -> Request]
BY FreedType, IdleType DEF TypeOK, CommitAndReturn

(* A step of control keeps the types. *)
LEMMA ControlType ==
  ASSUME TypeOK, UNCHANGED <<envVars, subVars>>,
         mutex' \in [Key -> Req \cup {None}], row' \in [Key -> Req \cup {None}],
         req' \in [Req -> Request]
  PROVE  TypeOK'
BY DEF TypeOK, envVars, subVars

(* A change of status keeps the types. *)
LEMMA StatusType ==
  ASSUME TypeOK, NEW s \in Sub, NEW st \in Status,
         status' = [status EXCEPT ![s] = st],
         aged' = [aged EXCEPT ![s] = FALSE]
  PROVE  status' \in [Sub -> Status] /\ aged' \in [Sub -> BOOLEAN]
BY DEF TypeOK

(* A step of a request keeps the types. *)
LEMMA StepType ==
  ASSUME TypeOK, LockInv, ReadInv, NEW r \in Req, Step(r)
  PROVE  TypeOK'
<1> DEFINE held == mutex' \in [Key -> Req \cup {None}]
           rows == row' \in [Key -> Req \cup {None}]
           reqs == req' \in [Req -> Request]
<1>0. /\ req[r] \in Request /\ mutex \in [Key -> Req \cup {None}]
      /\ row \in [Key -> Req \cup {None}] /\ req \in [Req -> Request]
  BY DEF TypeOK
<1>1. CASE Teardown(r)
  <2>1. rows /\ reqs
    BY <1>0, <1>1, FreedType, IdleType DEF Teardown
  <2>2. QED
    BY <1>0, <1>1, <2>1, ControlType DEF Teardown
<1>2. CASE AcquireTeamLock(r)
  <2>1. req[r].op \in TeamLocked
    BY <1>2 DEF AcquireTeamLock, LockInv, LockOK, OpsAt
  <2>2. AfterTeamLock(req[r].op) \in PC
    BY <2>1 DEF AfterTeamLock, PC, TeamLocked
  <2>3. reqs
    BY <1>2, <2>2, GotoType DEF AcquireTeamLock
  <2>4. held
    BY <1>0, <1>2 DEF AcquireTeamLock
  <2>5. QED
    BY <1>0, <1>2, <2>3, <2>4, ControlType DEF AcquireTeamLock
<1>3. CASE CheckWindow(r)
  <2>1. "expire" \in PC /\ "teamRow" \in PC /\ "write" \in PC
    BY DEF PC
  <2>2. held /\ reqs
    BY <1>0, <1>3, <2>1, GotoType, LeaveType DEF CheckWindow
  <2>3. QED
    BY <1>0, <1>3, <2>2, ControlType DEF CheckWindow
<1>4. CASE Expire(r)
  <2>1. req[r].sub \in Sub
    BY <1>4 DEF Expire, LockInv, LockOK, ReadInv, ReadOK, OpsAt, ReadForUpdate, NamesSub
  <2>2. held /\ rows /\ reqs
    BY <1>4, CommitType DEF Expire
  <2>3. status' \in [Sub -> Status] /\ aged' \in [Sub -> BOOLEAN]
    BY <1>4, <2>1, StatusType DEF Expire, Status, Terminal
  <2>4. QED
    BY <1>4, <2>2, <2>3 DEF TypeOK, Expire, envVars
<1>5. CASE StartLockTeamRow(r)
  <2>1. "active" \in PC
    BY DEF PC
  <2>2. held /\ reqs
    BY <1>0, <1>5, <2>1, GotoType, LeaveType DEF StartLockTeamRow
  <2>3. rows
    BY <1>0, <1>5 DEF StartLockTeamRow
  <2>4. QED
    BY <1>5, <2>2, <2>3, ControlType DEF StartLockTeamRow
<1>6. CASE StartReadActive(r)
  <2>1. "count" \in PC /\ "stale" \in PC
    BY DEF PC
  <2>2. held /\ reqs
    <3>1. CASE Active(req[r].team) = {} /\ Goto(r, "count") /\ UNCHANGED mutex
      BY <1>0, <2>1, <3>1, GotoType
    <3>2. ASSUME NEW s \in Active(req[r].team), UNCHANGED mutex,
                 req' = [req EXCEPT ![r].pc = "stale", ![r].sub = s]
          PROVE  held /\ reqs
      <4>1. s \in Sub
        BY <3>2 DEF Active
      <4>2. [req[r] EXCEPT !.pc = "stale", !.sub = s] \in Request
        BY <1>0, <2>1, <4>1 DEF Request
      <4>3. QED
        BY <1>0, <3>2, <4>2
    <3>3. CASE Leave(r)
      BY <3>3, LeaveType
    <3>4. QED
      BY <1>6, <3>1, <3>2, <3>3 DEF StartReadActive
  <2>3. QED
    BY <1>0, <1>6, <2>2, ControlType DEF StartReadActive
<1>7. CASE StartCloseStale(r)
  <2>1. req[r].sub \in Sub
    BY <1>7 DEF StartCloseStale, ReadInv, ReadOK, ReadUnderTeamLock
  <2>2. rows
    BY <1>0, <1>7, FreedType DEF StartCloseStale
  <2>3. [req[r] EXCEPT !.pc = "count", !.sub = None] \in Request
    BY <1>0 DEF Request, PC
  <2>4. reqs
    BY <1>0, <1>7, <2>3 DEF StartCloseStale
  <2>5. status' \in [Sub -> Status] /\ aged' \in [Sub -> BOOLEAN]
    BY <1>7, <2>1, StatusType DEF StartCloseStale, Status, Terminal
  <2>6. QED
    BY <1>7, <2>2, <2>4, <2>5 DEF TypeOK, StartCloseStale, envVars
<1>8. CASE StartCount(r)
  <2>1. held /\ reqs
    <3>1. ASSUME UNCHANGED mutex,
                 req' = [req EXCEPT ![r].pc = "insert",
                              ![r].n = Cardinality(Completed(req[r].team))]
          PROVE  held /\ reqs
      <4>1. IsFiniteSet(Completed(req[r].team))
        BY LifecycleAssumption, FS_Subset DEF Completed
      <4>2. Cardinality(Completed(req[r].team)) \in Nat
        BY <4>1, FS_CardinalityType
      <4>3. [req[r] EXCEPT !.pc = "insert",
               !.n = Cardinality(Completed(req[r].team))] \in Request
        BY <1>0, <4>2 DEF Request, PC
      <4>4. QED
        BY <1>0, <3>1, <4>3
    <3>2. CASE Leave(r)
      BY <3>2, LeaveType
    <3>3. QED
      BY <1>8, <3>1, <3>2 DEF StartCount
  <2>2. QED
    BY <1>0, <1>8, <2>1, ControlType DEF StartCount
<1>9. CASE StartInsert(r)
  <2>1. held /\ rows /\ reqs
    BY <1>9, CommitType DEF StartInsert
  <2>2. req[r].n + 1 \in Nat
    BY <1>0 DEF Request
  <2>3. status' \in [Sub -> Status] /\ attempt' \in [Sub -> Nat]
    BY <1>9, <2>2 DEF StartInsert, TypeOK, Status
  <2>4. QED
    BY <1>9, <2>1, <2>3 DEF TypeOK, StartInsert, envVars
<1>10. CASE LockSubmissionRow(r)
  <2>1. held /\ reqs
    <3>1. ASSUME UNCHANGED mutex,
                 req' = [req EXCEPT ![r].seen = "in_progress",
                           ![r].pc = IF req[r].op = "batch" THEN "window" ELSE "write"]
          PROVE  held /\ reqs
      <4>1. [req[r] EXCEPT !.seen = "in_progress",
               !.pc = IF req[r].op = "batch" THEN "window" ELSE "write"] \in Request
        BY <1>0, ZenonT(60) DEF Request, PC, Status
      <4>2. QED
        BY <1>0, <3>1, <4>1
    <3>2. CASE Leave(r)
      BY <3>2, LeaveType
    <3>3. QED
      BY <1>10, <3>1, <3>2 DEF LockSubmissionRow
  <2>2. rows
    <3>1. req[r].sub \in Sub
      BY <1>10 DEF LockSubmissionRow, LockInv, LockOK, ReadInv, ReadOK, OpsAt, NamesSub
    <3>2. QED
      BY <1>0, <1>10, <3>1 DEF LockSubmissionRow, Key
  <2>3. QED
    BY <1>10, <2>1, <2>2, ControlType DEF LockSubmissionRow
<1>11. CASE LockActiveRow(r)
  <2>1. held /\ rows /\ reqs
    <3>1. CASE Leave(r) /\ UNCHANGED row
      BY <1>0, <3>1, LeaveType
    <3>2. ASSUME NEW s \in Active(req[r].team), UNCHANGED mutex,
                 row' = [row EXCEPT ![s] = r],
                 req' = [req EXCEPT ![r].pc = "window", ![r].sub = s,
                                    ![r].seen = "in_progress"]
          PROVE  held /\ rows /\ reqs
      <4>1. s \in Sub
        BY <3>2 DEF Active
      <4>2. [req[r] EXCEPT !.pc = "window", !.sub = s, !.seen = "in_progress"] \in Request
        BY <1>0, <4>1 DEF Request, PC, Status
      <4>3. QED
        BY <1>0, <3>2, <4>1, <4>2 DEF Key
    <3>3. QED
      BY <1>11, <3>1, <3>2 DEF LockActiveRow
  <2>2. QED
    BY <1>11, <2>1, ControlType DEF LockActiveRow
<1>12. CASE ReadSubmission(r)
  <2>1. held /\ reqs
    <3>1. ASSUME UNCHANGED mutex,
                 req' = [req EXCEPT ![r].seen = status[req[r].sub],
                           ![r].pc = IF req[r].op = "status" THEN "window" ELSE "write"]
          PROVE  held /\ reqs
      <4>1. req[r].sub \in Sub
        BY <1>12 DEF ReadSubmission, LockInv, LockOK, ReadInv, ReadOK, OpsAt, NamesSub
      <4>2. status[req[r].sub] \in Status
        BY <4>1 DEF TypeOK
      <4>3. [req[r] EXCEPT !.seen = status[req[r].sub],
               !.pc = IF req[r].op = "status" THEN "window" ELSE "write"] \in Request
        BY <1>0, <4>2 DEF Request, PC
      <4>4. QED
        BY <1>0, <3>1, <4>3
    <3>2. CASE Leave(r)
      BY <3>2, LeaveType
    <3>3. QED
      BY <1>12, <3>1, <3>2 DEF ReadSubmission
  <2>2. QED
    BY <1>0, <1>12, <2>1, ControlType DEF ReadSubmission
<1>13. CASE Finalize(r)
  <2>1. req[r].sub \in Sub
    BY <1>13 DEF Finalize, ReadInv, ReadOK, NamesSub
  <2>2. held /\ rows /\ reqs
    BY <1>13, CommitType DEF Finalize
  <2>3. status' \in [Sub -> Status] /\ aged' \in [Sub -> BOOLEAN]
    BY <1>13, <2>1, StatusType DEF Finalize, Status, Terminal
  <2>4. QED
    BY <1>13, <2>2, <2>3 DEF TypeOK, Finalize, envVars
<1>14. CASE Abort(r)
  <2>1. req[r].sub \in Sub
    BY <1>14 DEF Abort, ReadInv, ReadOK, NamesSub, ReadUnderTeamLock
  <2>2. held /\ rows /\ reqs
    BY <1>14, CommitType DEF Abort
  <2>3. status' \in [Sub -> Status] /\ aged' \in [Sub -> BOOLEAN]
    BY <1>14, <2>1, StatusType DEF Abort, Status, Terminal
  <2>4. QED
    BY <1>14, <2>2, <2>3 DEF TypeOK, Abort, envVars
<1>15. CASE BatchComplete(r)
  <2>1. req[r].sub \in Sub
    BY <1>15 DEF BatchComplete, ReadInv, ReadOK, NamesSub
  <2>2. [req[r] EXCEPT !.pc = "subMutex", !.seen = "completed"] \in Request
    BY <1>0 DEF Request, PC, Status, Terminal
  <2>3. rows /\ reqs
    BY <1>0, <1>15, <2>2, FreedType DEF BatchComplete
  <2>4. status' \in [Sub -> Status] /\ aged' \in [Sub -> BOOLEAN]
    BY <1>15, <2>1, StatusType DEF BatchComplete, Status, Terminal
  <2>5. QED
    BY <1>15, <2>3, <2>4 DEF TypeOK, BatchComplete, envVars
<1>16. CASE BatchFail(r)
  <2>1. held /\ reqs
    BY <1>16, LeaveType DEF BatchFail
  <2>2. QED
    BY <1>0, <1>16, <2>1, ControlType DEF BatchFail
<1>16a. CASE TaskEnds(r)
  <2>1. held /\ rows /\ reqs
    BY <1>0, <1>16a, LeaveType, CommitType DEF TaskEnds
  <2>2. QED
    BY <1>16a, <2>1, ControlType DEF TaskEnds
<1>17. CASE AcquireSubmissionLock(r)
  <2>1. "scoreRow" \in PC
    BY DEF PC
  <2>2. held /\ reqs
    BY <1>0, <1>17, <2>1, GotoType DEF AcquireSubmissionLock
  <2>3. QED
    BY <1>0, <1>17, <2>2, ControlType DEF AcquireSubmissionLock
<1>18. CASE ScoreLockRow(r)
  <2>1. "score" \in PC
    BY DEF PC
  <2>2. held /\ reqs
    BY <1>0, <1>18, <2>1, GotoType, LeaveType DEF ScoreLockRow
  <2>3. rows
    BY <1>0, <1>18 DEF ScoreLockRow
  <2>4. QED
    BY <1>18, <2>2, <2>3, ControlType DEF ScoreLockRow
<1>19. CASE Score(r)
  <2>1. held /\ rows /\ reqs
    BY <1>0, <1>19, LeaveType, CommitType DEF Score
  <2>2. scored' \in [Sub -> BOOLEAN]
    BY <1>19 DEF Score, TypeOK
  <2>3. QED
    BY <1>19, <2>1, <2>2 DEF TypeOK, Score, envVars
<1>20. CASE SetTeamStatus(r)
  <2>1. held /\ rows /\ reqs
    BY <1>20, CommitType DEF SetTeamStatus
  <2>2. teamStatus' \in [Team -> {"active", "suspended"}]
    BY <1>20 DEF SetTeamStatus, TypeOK
  <2>3. QED
    BY <1>20, <2>1, <2>2 DEF TypeOK, SetTeamStatus, subVars
<1>21. QED
  BY <1>1, <1>2, <1>3, <1>4, <1>5, <1>6, <1>7, <1>8, <1>9, <1>10, <1>11, <1>12,
     <1>13, <1>14, <1>15, <1>16, <1>16a, <1>17, <1>18, <1>19, <1>20
     DEF Step, LockStep, RunStep

(* A step of the environment keeps the types. *)
LEMMA EnvironmentType ==
  ASSUME TypeOK, Environment
  PROVE  TypeOK'
<1>1. ASSUME NEW r \in Req, NEW op \in Ops, NEW t \in Team, NEW s \in Sub \cup {None},
             Arrive(r, op, t, s)
      PROVE  TypeOK'
  <2>1. op \in TeamLocked \/ op = "status" \/ op = "score"
    BY LifecycleAssumption DEF TeamLocked, ParticipantOps, AdminOps
  <2> DEFINE pc == CASE op \in TeamLocked -> "mutex"
                     [] op = "status"     -> "read"
                     [] op = "score"      -> "subMutex"
  <2>2. pc \in PC
    BY <2>1 DEF TeamLocked, PC
  <2>3. op \in ParticipantOps \cup AdminOps \cup {"none"}
    BY LifecycleAssumption
  <2> HIDE DEF pc
  <2>4. [Idle EXCEPT !.op = op, !.team = t, !.sub = s, !.pc = pc] \in Request
    BY <2>2, <2>3, IdleType DEF Request, Idle
  <2>5. req' = [req EXCEPT ![r] = [Idle EXCEPT !.op = op, !.team = t, !.sub = s, !.pc = pc]]
    BY <1>1 DEF Arrive, pc
  <2>6. req' \in [Req -> Request]
    BY <2>4, <2>5 DEF TypeOK
  <2>7. QED
    BY <1>1, <2>6, ControlType DEF Arrive, TypeOK, lockVars
<1>2. ASSUME NEW s \in Sub, Age(s) PROVE TypeOK'
  BY <1>2 DEF Age, TypeOK, envVars, lockVars
<1>3. CASE MovePhase
  BY <1>3 DEF MovePhase, TypeOK, subVars, lockVars, Phase
<1>4. CASE MoveEnd
  <2>1. ended' \in BOOLEAN
    BY <1>4, Zenon DEF MoveEnd
  <2>2. QED
    BY <1>4, <2>1 DEF MoveEnd, TypeOK, subVars, lockVars
<1>5. CASE Crash
  <2>1. req' \in [Req -> Request]
    BY <1>5, IdleType DEF Crash
  <2>2. mutex' \in [Key -> Req \cup {None}] /\ row' \in [Key -> Req \cup {None}]
    BY <1>5 DEF Crash
  <2>3. QED
    BY <1>5, <2>1, <2>2, ControlType DEF Crash
<1>6. QED
  BY <1>1, <1>2, <1>3, <1>4, <1>5 DEF Environment

-----------------------------------------------------------------------------
(* A step of one request leaves the others where they are, with the locks  *)
(* they hold.                                                              *)
LEMMA OthersKeep ==
  ASSUME TypeOK, NEW r \in Req, NEW q \in Req, q # r, Step(r)
  PROVE  /\ req'[q] = req[q]
         /\ \A k \in Key : /\ mutex[k] = q => mutex'[k] = q
                           /\ row[k] = q => row'[k] = q
<1>0. /\ req \in [Req -> Request] /\ mutex \in [Key -> Req \cup {None}]
      /\ row \in [Key -> Req \cup {None}] /\ q # None
  BY LifecycleAssumption DEF TypeOK
<1>1. ASSUME Leave(r) PROVE req'[q] = req[q] /\ \A k \in Key : mutex[k] = q => mutex'[k] = q
  BY <1>0, <1>1, FreedType DEF Leave, Goto
<1>2. ASSUME CommitAndReturn(r)
      PROVE  req'[q] = req[q] /\ \A k \in Key : /\ mutex[k] = q => mutex'[k] = q
                                                /\ row[k] = q => row'[k] = q
  BY <1>0, <1>2, FreedType DEF CommitAndReturn
<1>3. CASE Teardown(r)
  BY <1>0, <1>3, FreedType DEF Teardown
<1>4. CASE AcquireTeamLock(r) \/ AcquireSubmissionLock(r)
  BY <1>0, <1>4 DEF AcquireTeamLock, AcquireSubmissionLock, Goto
<1>5. CASE CheckWindow(r)
  BY <1>0, <1>1, <1>5 DEF CheckWindow, Goto
<1>6. CASE Expire(r) \/ StartInsert(r) \/ Finalize(r) \/ Abort(r) \/ SetTeamStatus(r)
  <2>1. CommitAndReturn(r)
    BY <1>6, Zenon DEF Expire, StartInsert, Finalize, Abort, SetTeamStatus
  <2>2. QED
    BY <1>2, <2>1
<1>7. CASE StartLockTeamRow(r)
  BY <1>0, <1>1, <1>7 DEF StartLockTeamRow, Goto
<1>8. CASE StartReadActive(r)
  BY <1>0, <1>1, <1>8 DEF StartReadActive, Goto
<1>9. CASE StartCloseStale(r)
  BY <1>0, <1>9, FreedType DEF StartCloseStale
<1>10. CASE StartCount(r)
  BY <1>0, <1>1, <1>10 DEF StartCount
<1>11. CASE LockSubmissionRow(r)
  BY <1>0, <1>1, <1>11 DEF LockSubmissionRow
<1>12. CASE LockActiveRow(r)
  BY <1>0, <1>1, <1>12 DEF LockActiveRow
<1>13. CASE ReadSubmission(r)
  BY <1>0, <1>1, <1>13 DEF ReadSubmission
<1>14. CASE BatchComplete(r)
  BY <1>0, <1>14, FreedType DEF BatchComplete
<1>15. CASE BatchFail(r)
  BY <1>0, <1>1, <1>15 DEF BatchFail
<1>15a. CASE TaskEnds(r)
  BY <1>0, <1>1, <1>2, <1>15a DEF TaskEnds
<1>16. CASE ScoreLockRow(r)
  BY <1>0, <1>1, <1>16 DEF ScoreLockRow, Goto
<1>17. CASE Score(r)
  <2>1. CommitAndReturn(r) \/ (Leave(r) /\ row' = row)
    BY <1>17, Zenon DEF Score
  <2>2. QED
    BY <1>1, <1>2, <2>1
<1>18. QED
  BY <1>3, <1>4, <1>5, <1>6, <1>7, <1>8, <1>9, <1>10, <1>11, <1>12, <1>13,
     <1>14, <1>15, <1>15a, <1>16, <1>17 DEF Step, LockStep, RunStep

(* LockInv for the request that takes the step. *)
LEMMA OwnLock ==
  ASSUME TypeOK, LockInv, NEW r \in Req, Step(r)
  PROVE  LockOK(r)'
<1> DEFINE Own == /\ req'[r].op \in OpsAt(req'[r].pc)
                  /\ req'[r].pc # "idle" => req'[r].team \in Team
                  /\ req'[r].op \in TeamLocked /\ InBody(r)' => mutex'[req'[r].team] = r
<1> SUFFICES Own
  BY DEF LockOK
<1>0. /\ req \in [Req -> Request] /\ req[r] \in Request
      /\ mutex \in [Key -> Req \cup {None}] /\ Team \subseteq Key
      /\ req[r].op \in OpsAt(req[r].pc)
      /\ req[r].pc # "idle" => req[r].team \in Team
      /\ req[r].op \in TeamLocked /\ InBody(r) => mutex[req[r].team] = r
  BY DEF TypeOK, Key, LockInv, LockOK
<1>1. ASSUME Leave(r), req[r].pc # "idle" PROVE Own
  <2>1. req'[r] = [req[r] EXCEPT !.pc = "teardown"]
    BY <1>0, <1>1 DEF Leave, Goto
  <2>2. req'[r].pc = "teardown" /\ req'[r].op = req[r].op /\ req'[r].team = req[r].team
    BY <1>0, <2>1 DEF Request
  <2>3. req[r].op \in TeamLocked \cup {"status", "score"}
    BY <1>0, <1>1 DEF OpsAt, TeamLocked, Request, PC
  <2>4. QED
    BY <1>0, <1>1, <2>2, <2>3 DEF OpsAt, InBody
<1>2. ASSUME req' = [req EXCEPT ![r] = Idle] PROVE Own
  BY <1>0, <1>2 DEF Idle, OpsAt, InBody, TeamLocked
<1>3. ASSUME NEW pc, req'[r].pc = pc, req'[r].op = req[r].op,
             req'[r].team = req[r].team, mutex' = mutex, InBody(r),
             pc \notin {"idle", "mutex", "teardown"}, req[r].op \in OpsAt(pc)
      PROVE  Own
  BY <1>0, <1>3 DEF InBody
<1>4. CASE AcquireTeamLock(r)
  <2>1. /\ req'[r].pc = AfterTeamLock(req[r].op) /\ req'[r].op = req[r].op
        /\ req'[r].team = req[r].team
    BY <1>0, <1>4 DEF AcquireTeamLock, Goto, Request
  <2>2. req[r].op \in TeamLocked
    BY <1>0, <1>4 DEF AcquireTeamLock, OpsAt
  <2>3. req[r].op \in OpsAt(AfterTeamLock(req[r].op))
    BY <2>2 DEF TeamLocked, OpsAt, AfterTeamLock
  <2>4. mutex'[req[r].team] = r
    BY <1>0, <1>4 DEF AcquireTeamLock
  <2>5. QED
    BY <1>0, <1>4, <2>1, <2>3, <2>4 DEF AcquireTeamLock
<1>5. CASE CheckWindow(r)
  <2>1. req[r].op \in {"start", "batch", "task", "status"} /\ InBody(r)
    BY <1>0, <1>5 DEF CheckWindow, OpsAt, InBody
  <2>2. ASSUME NEW pc, Goto(r, pc), UNCHANGED mutex,
               pc \notin {"idle", "mutex", "teardown"}, req[r].op \in OpsAt(pc)
        PROVE  Own
    <3>1. req'[r].pc = pc /\ req'[r].op = req[r].op /\ req'[r].team = req[r].team
      BY <1>0, <2>2 DEF Goto, Request
    <3>2. QED
      BY <1>3, <2>1, <2>2, <3>1
  <2>3. CASE Leave(r)
    BY <1>1, <1>5, <2>3 DEF CheckWindow
  <2>4. CASE Goto(r, "expire") /\ UNCHANGED mutex /\ req[r].op # "start"
    BY <2>1, <2>2, <2>4 DEF OpsAt
  <2>5. CASE Goto(r, "teamRow") /\ UNCHANGED mutex /\ req[r].op = "start"
    BY <2>2, <2>5 DEF OpsAt
  <2>6. CASE Goto(r, "write") /\ UNCHANGED mutex /\ req[r].op \in {"batch", "task"}
    BY <2>2, <2>6 DEF OpsAt
  <2>7. QED
    BY <1>5, <2>3, <2>4, <2>5, <2>6 DEF CheckWindow
<1>6. CASE \/ Expire(r) \/ StartInsert(r) \/ Finalize(r) \/ Abort(r)
           \/ SetTeamStatus(r) \/ Teardown(r)
  BY <1>2, <1>6 DEF Expire, StartInsert, Finalize, Abort, SetTeamStatus,
                    CommitAndReturn, Teardown
<1>7. CASE StartLockTeamRow(r)
  <2>1. req[r].op = "start" /\ InBody(r)
    BY <1>0, <1>7 DEF StartLockTeamRow, OpsAt, InBody
  <2>2. CASE Leave(r)
    BY <1>1, <2>1, <2>2 DEF InBody
  <2>3. CASE Goto(r, "active") /\ UNCHANGED mutex
    <3>1. req'[r].pc = "active" /\ req'[r].op = req[r].op /\ req'[r].team = req[r].team
      BY <1>0, <2>3 DEF Goto, Request
    <3>2. QED
      BY <1>3, <2>1, <2>3, <3>1 DEF OpsAt
  <2>4. QED
    BY <1>7, <2>2, <2>3 DEF StartLockTeamRow
<1>8. CASE StartReadActive(r)
  <2>1. req[r].op = "start" /\ InBody(r)
    BY <1>0, <1>8 DEF StartReadActive, OpsAt, InBody
  <2>2. CASE Leave(r)
    BY <1>1, <2>1, <2>2 DEF InBody
  <2>3. CASE Goto(r, "count") /\ UNCHANGED mutex
    <3>1. req'[r].pc = "count" /\ req'[r].op = req[r].op /\ req'[r].team = req[r].team
      BY <1>0, <2>3 DEF Goto, Request
    <3>2. QED
      BY <1>3, <2>1, <2>3, <3>1 DEF OpsAt
  <2>4. ASSUME NEW s \in Active(req[r].team), UNCHANGED mutex,
               req' = [req EXCEPT ![r].pc = "stale", ![r].sub = s]
        PROVE  Own
    <3>1. req'[r].pc = "stale" /\ req'[r].op = req[r].op /\ req'[r].team = req[r].team
      BY <1>0, <2>4 DEF Request
    <3>2. QED
      BY <1>3, <2>1, <2>4, <3>1 DEF OpsAt
  <2>5. QED
    BY <1>8, <2>2, <2>3, <2>4 DEF StartReadActive
<1>9. CASE StartCloseStale(r)
  BY <1>0, <1>3, <1>9 DEF StartCloseStale, Request, InBody, OpsAt
<1>10. CASE StartCount(r)
  <2>1. req[r].op = "start" /\ InBody(r)
    BY <1>0, <1>10 DEF StartCount, OpsAt, InBody
  <2>2. CASE Leave(r)
    BY <1>1, <2>1, <2>2 DEF InBody
  <2>3. ASSUME UNCHANGED mutex,
               req' = [req EXCEPT ![r].pc = "insert",
                            ![r].n = Cardinality(Completed(req[r].team))]
        PROVE  Own
    <3>1. req'[r].pc = "insert" /\ req'[r].op = req[r].op /\ req'[r].team = req[r].team
      BY <1>0, <2>3 DEF Request
    <3>2. QED
      BY <1>3, <2>1, <2>3, <3>1 DEF OpsAt
  <2>4. QED
    BY <1>10, <2>2, <2>3 DEF StartCount
<1>11. CASE LockSubmissionRow(r)
  <2>1. req[r].op \in {"finalize", "batch"} /\ InBody(r)
    BY <1>0, <1>11 DEF LockSubmissionRow, OpsAt, InBody
  <2>2. CASE Leave(r)
    BY <1>1, <2>1, <2>2 DEF InBody
  <2> DEFINE pc == IF req[r].op = "batch" THEN "window" ELSE "write"
  <2>3. ASSUME UNCHANGED mutex,
               req' = [req EXCEPT ![r].seen = "in_progress", ![r].pc = pc]
        PROVE  Own
    <3>1. req'[r].pc = pc /\ req'[r].op = req[r].op /\ req'[r].team = req[r].team
      BY <1>0, <2>3 DEF Request
    <3>2. req[r].op \in OpsAt(pc) /\ pc \notin {"idle", "mutex", "teardown"}
      BY <2>1 DEF OpsAt
    <3> HIDE DEF pc
    <3>3. QED
      BY <1>3, <2>1, <2>3, <3>1, <3>2
  <2>4. QED
    BY <1>11, <2>2, <2>3 DEF LockSubmissionRow
<1>12. CASE LockActiveRow(r)
  <2>1. req[r].op = "task" /\ InBody(r)
    BY <1>0, <1>12 DEF LockActiveRow, OpsAt, InBody
  <2>2. CASE Leave(r)
    BY <1>1, <2>1, <2>2 DEF InBody
  <2>3. ASSUME NEW s, UNCHANGED mutex,
               req' = [req EXCEPT ![r].pc = "window", ![r].sub = s,
                                  ![r].seen = "in_progress"]
        PROVE  Own
    <3>1. req'[r].pc = "window" /\ req'[r].op = req[r].op /\ req'[r].team = req[r].team
      BY <1>0, <2>3 DEF Request
    <3>2. QED
      BY <1>3, <2>1, <2>3, <3>1 DEF OpsAt
  <2>4. QED
    BY <1>12, <2>2, <2>3 DEF LockActiveRow
<1>13. CASE ReadSubmission(r)
  <2>1. req[r].op \in {"abort", "status"} /\ InBody(r)
    BY <1>0, <1>13 DEF ReadSubmission, OpsAt, InBody
  <2>2. CASE Leave(r)
    BY <1>1, <2>1, <2>2 DEF InBody
  <2> DEFINE pc == IF req[r].op = "status" THEN "window" ELSE "write"
  <2>3. ASSUME UNCHANGED mutex,
               req' = [req EXCEPT ![r].seen = status[req[r].sub], ![r].pc = pc]
        PROVE  Own
    <3>1. req'[r].pc = pc /\ req'[r].op = req[r].op /\ req'[r].team = req[r].team
      BY <1>0, <2>3 DEF Request
    <3>2. req[r].op \in OpsAt(pc) /\ pc \notin {"idle", "mutex", "teardown"}
      BY <2>1 DEF OpsAt
    <3> HIDE DEF pc
    <3>3. QED
      BY <1>3, <2>1, <2>3, <3>1, <3>2
  <2>4. QED
    BY <1>13, <2>2, <2>3 DEF ReadSubmission
<1>14. CASE BatchComplete(r)
  BY <1>0, <1>3, <1>14 DEF BatchComplete, Request, InBody, OpsAt
<1>15. CASE BatchFail(r)
  BY <1>1, <1>15 DEF BatchFail
<1>15a. CASE TaskEnds(r)
  BY <1>1, <1>2, <1>15a DEF TaskEnds, CommitAndReturn
<1>16. CASE AcquireSubmissionLock(r)
  <2>1. /\ req'[r].pc = "scoreRow" /\ req'[r].op = req[r].op
        /\ req'[r].team = req[r].team
    BY <1>0, <1>16 DEF AcquireSubmissionLock, Goto, Request
  <2>2. req[r].op \in {"batch", "score"} /\ InBody(r)
    BY <1>0, <1>16 DEF AcquireSubmissionLock, OpsAt, InBody
  <2>3. req[r].op \in TeamLocked => mutex'[req[r].team] = r
    BY <1>0, <1>16, <2>2 DEF AcquireSubmissionLock
  <2>4. QED
    BY <1>0, <1>16, <2>1, <2>2, <2>3 DEF OpsAt, AcquireSubmissionLock
<1>17. CASE ScoreLockRow(r)
  <2>1. req[r].op \in {"batch", "score"} /\ InBody(r)
    BY <1>0, <1>17 DEF ScoreLockRow, OpsAt, InBody
  <2>2. CASE Leave(r)
    BY <1>1, <2>1, <2>2 DEF InBody
  <2>3. CASE Goto(r, "score") /\ UNCHANGED mutex
    <3>1. req'[r].pc = "score" /\ req'[r].op = req[r].op /\ req'[r].team = req[r].team
      BY <1>0, <2>3 DEF Goto, Request
    <3>2. QED
      BY <1>3, <2>1, <2>3, <3>1 DEF OpsAt
  <2>4. QED
    BY <1>17, <2>2, <2>3 DEF ScoreLockRow
<1>18. CASE Score(r)
  BY <1>1, <1>2, <1>18 DEF Score, CommitAndReturn
<1>19. QED
  BY <1>4, <1>5, <1>6, <1>7, <1>8, <1>9, <1>10, <1>11, <1>12, <1>13, <1>14,
     <1>15, <1>15a, <1>16, <1>17, <1>18 DEF Step, LockStep, RunStep

-----------------------------------------------------------------------------
(* What a step may do to a submission, and under which locks. *)
Began(r, s) ==
  /\ status[s] = "absent" /\ req[r].pc = "insert" /\ Owner[s] = req[r].team
  /\ mutex[Owner[s]] = r
  /\ status' = [status EXCEPT ![s] = "in_progress"]
  /\ req'[r] = Idle

Ended(r, s) ==
  /\ status[s] = "in_progress" /\ row[s] = r /\ mutex[Owner[s]] = r
  /\ Owner[s] = req[r].team
  /\ status' = [status EXCEPT ![s] = "completed"]

Lapsed(r, s) ==
  /\ status[s] # "absent" /\ row[s] \in {None, r}
  /\ status' = [status EXCEPT ![s] = "expired"]
  /\ req[r].pc = "expire" /\ req[r].sub = s /\ Owner[s] = req[r].team

GivenUp(r, s) ==
  /\ status[s] \in {"in_progress", "expired"} /\ row[s] = None
  /\ mutex[Owner[s]] = r /\ Owner[s] = req[r].team
  /\ status' = [status EXCEPT ![s] = "interrupted"]

(* The four ways in which a step changes a status. *)
LEMMA StatusChange ==
  ASSUME TypeOK, LockInv, ReadInv, NEW r \in Req, Step(r)
  PROVE  \/ UNCHANGED status
         \/ \E s \in Sub : Began(r, s) \/ Ended(r, s) \/ Lapsed(r, s) \/ GivenUp(r, s)
<1>0. /\ req \in [Req -> Request] /\ req[r] \in Request
      /\ LockOK(r) /\ ReadOK(r)
  BY DEF TypeOK, LockInv, ReadInv
<1>1. CASE Expire(r)
  <2>1. /\ req[r].sub \in Sub /\ status[req[r].sub] # "absent"
        /\ Owner[req[r].sub] = req[r].team
    BY <1>0, <1>1 DEF Expire, LockOK, ReadOK, OpsAt, ReadForUpdate, NamesSub
  <2>2. Lapsed(r, req[r].sub)
    BY <1>1, <2>1 DEF Expire, Lapsed
  <2>3. QED
    BY <2>1, <2>2
<1>2. CASE StartCloseStale(r)
  <2>1. GivenUp(r, req[r].sub) /\ req[r].sub \in Sub
    BY <1>0, <1>2 DEF StartCloseStale, GivenUp, LockOK, OpsAt, TeamLocked, InBody,
                     ReadOK, ReadUnderTeamLock
  <2>2. QED
    BY <2>1
<1>3. CASE StartInsert(r)
  <2>1. req[r].op = "start" /\ mutex[req[r].team] = r
    BY <1>0, <1>3 DEF StartInsert, LockOK, OpsAt, TeamLocked, InBody
  <2>2. PICK s \in Sub : /\ Owner[s] = req[r].team /\ status[s] = "absent"
                         /\ status' = [status EXCEPT ![s] = "in_progress"]
    BY <1>3 DEF StartInsert
  <2>3. req'[r] = Idle
    BY <1>0, <1>3 DEF StartInsert, CommitAndReturn
  <2>4. Began(r, s)
    BY <1>3, <2>1, <2>2, <2>3 DEF Began, StartInsert
  <2>5. QED
    BY <2>4
<1>4. CASE Finalize(r)
  <2>1. Ended(r, req[r].sub) /\ req[r].sub \in Sub
    BY <1>0, <1>4 DEF Finalize, Ended, LockOK, TeamLocked, InBody, ReadOK, ReadForUpdate
  <2>2. QED
    BY <2>1
<1>5. CASE BatchComplete(r)
  <2>1. Ended(r, req[r].sub) /\ req[r].sub \in Sub
    BY <1>0, <1>5 DEF BatchComplete, Ended, LockOK, TeamLocked, InBody, ReadOK,
                     ReadForUpdate
  <2>2. QED
    BY <2>1
<1>6. CASE Abort(r)
  <2>1. GivenUp(r, req[r].sub) /\ req[r].sub \in Sub
    BY <1>0, <1>6 DEF Abort, GivenUp, LockOK, TeamLocked, InBody, ReadOK,
                     ReadUnderTeamLock
  <2>2. QED
    BY <2>1
<1>7. CASE \/ AcquireTeamLock(r) \/ AcquireSubmissionLock(r) \/ StartLockTeamRow(r)
           \/ LockSubmissionRow(r) \/ LockActiveRow(r) \/ ScoreLockRow(r)
           \/ SetTeamStatus(r) \/ CheckWindow(r) \/ StartReadActive(r) \/ StartCount(r)
           \/ ReadSubmission(r) \/ BatchFail(r) \/ TaskEnds(r) \/ Score(r) \/ Teardown(r)
  BY <1>7 DEF AcquireTeamLock, AcquireSubmissionLock, StartLockTeamRow,
     LockSubmissionRow, LockActiveRow, ScoreLockRow, SetTeamStatus, CheckWindow,
     StartReadActive, StartCount, ReadSubmission, BatchFail, TaskEnds, Score, Teardown,
     subVars
<1>8. QED
  BY <1>1, <1>2, <1>3, <1>4, <1>5, <1>6, <1>7 DEF Step, LockStep, RunStep

(* What the other requests have read survives the step. *)
LEMMA OthersRead ==
  ASSUME TypeOK, LockInv, ReadInv, NEW r \in Req, NEW q \in Req, q # r, Step(r)
  PROVE  ReadOK(q)'
<1>0. /\ LockOK(q) /\ ReadOK(q) /\ q # None /\ req'[q] = req[q] /\ status \in [Sub -> Status]
      /\ \A k \in Key : row[k] = q => row'[k] = q
      /\ Sub \subseteq Key
  BY LifecycleAssumption, OthersKeep DEF LockInv, ReadInv, TypeOK, Key
<1> DEFINE s == req[q].sub
<1>1. CASE UNCHANGED status
  BY <1>0, <1>1 DEF ReadOK, ReadForUpdate, ReadUnderTeamLock
<1>2. ASSUME NEW x \in Sub, Began(r, x) \/ Ended(r, x) \/ Lapsed(r, x) \/ GivenUp(r, x)
      PROVE  ReadOK(q)'
  <2>1. s \in Sub /\ status[s] # "absent" => status'[s] # "absent"
    BY <1>0, <1>2 DEF Began, Ended, Lapsed, GivenUp
  <2>2. s \in Sub /\ status[s] \in Terminal => status'[s] \in Terminal
    BY <1>0, <1>2 DEF Began, Ended, Lapsed, GivenUp, Terminal
  <2>3. ReadForUpdate(q) => status'[s] = status[s] /\ row'[s] = q
    BY <1>0, <1>2 DEF Began, Ended, Lapsed, GivenUp, ReadOK
  <2>4. ReadUnderTeamLock(q) => status'[s] \in {"in_progress", "expired"}
    <3>1. ReadUnderTeamLock(q) => req[q].op \in TeamLocked /\ InBody(q)
      BY <1>0 DEF ReadUnderTeamLock, LockOK, OpsAt, TeamLocked, InBody
    <3>2. ReadUnderTeamLock(q) => s \in Sub /\ mutex[Owner[s]] = q
      BY <1>0, <3>1 DEF LockOK, ReadOK
    <3>3. QED
      BY <1>0, <1>2, <3>2 DEF Began, Ended, Lapsed, GivenUp, ReadOK
  <2>5. s \in Sub \/ ~(req[q].op \in NamesSub)
    BY <1>0 DEF ReadOK
  <2>6. QED
    BY <1>0, <2>1, <2>2, <2>3, <2>4, <2>5
       DEF ReadOK, ReadForUpdate, ReadUnderTeamLock, NamesSub
<1>3. QED
  BY <1>1, <1>2, StatusChange

(* The completed runs of a team are finitely many. *)
LEMMA CompletedFinite ==
  ASSUME NEW t
  PROVE  /\ IsFiniteSet(Completed(t)) /\ Cardinality(Completed(t)) \in Nat
<1>1. Completed(t) \subseteq Sub
  BY DEF Completed
<1>2. QED
  BY <1>1, LifecycleAssumption, FS_Subset, FS_CardinalityType

(* Completions of a team are added under its lock only, one at a time. *)
LEMMA CompletedChange ==
  ASSUME TypeOK, LockInv, ReadInv, NEW r \in Req, Step(r), NEW t \in Team
  PROVE  /\ \/ Completed(t)' \subseteq Completed(t)
            \/ \E s \in Sub : Ended(r, s) /\ Owner[s] = t /\ Completed(t)' = Completed(t) \cup {s}
         /\ \/ Active(t)' \subseteq Active(t)
            \/ \E s \in Sub : Began(r, s) /\ Owner[s] = t /\ Active(t)' = {s} \cup Active(t)
<1>0. status \in [Sub -> Status]
  BY DEF TypeOK
<1>1. CASE UNCHANGED status
  BY <1>1 DEF Completed, Active
<1>2. ASSUME NEW s \in Sub, Began(r, s)
      PROVE  /\ Completed(t)' \subseteq Completed(t)
             /\ \/ Active(t)' \subseteq Active(t)
                \/ Owner[s] = t /\ Active(t)' = {s} \cup Active(t)
  BY <1>0, <1>2 DEF Completed, Active, Began
<1>3. ASSUME NEW s \in Sub, Ended(r, s)
      PROVE  /\ Active(t)' \subseteq Active(t)
             /\ \/ Completed(t)' \subseteq Completed(t)
                \/ Owner[s] = t /\ Completed(t)' = Completed(t) \cup {s}
  BY <1>0, <1>3 DEF Completed, Active, Ended
<1>4. ASSUME NEW s \in Sub, Lapsed(r, s) \/ GivenUp(r, s)
      PROVE  Completed(t)' \subseteq Completed(t) /\ Active(t)' \subseteq Active(t)
  BY <1>0, <1>4 DEF Completed, Active, Lapsed, GivenUp
<1>5. QED
  BY <1>1, <1>2, <1>3, <1>4, StatusChange

(* Only a request that holds the team's lock changes its status. *)
LEMMA TeamStatusChange ==
  ASSUME TypeOK, LockInv, NEW r \in Req, Step(r), NEW t \in Team, mutex[t] # r
  PROVE  teamStatus'[t] = teamStatus[t]
<1>1. CASE SetTeamStatus(r)
  <2>1. req[r].op \in TeamLocked /\ InBody(r) /\ req[r].pc # "idle"
    BY <1>1 DEF SetTeamStatus, LockInv, LockOK, OpsAt, TeamLocked, InBody
  <2>2. mutex[req[r].team] = r
    BY <2>1 DEF LockInv, LockOK
  <2>3. QED
    BY <1>1, <2>2 DEF SetTeamStatus, TypeOK
<1>2. CASE ~SetTeamStatus(r)
  BY <1>2 DEF Step, LockStep, RunStep, AcquireTeamLock, AcquireSubmissionLock,
     StartLockTeamRow, LockSubmissionRow, LockActiveRow, ScoreLockRow, Score,
     CheckWindow, StartReadActive, StartCount, ReadSubmission, BatchFail, TaskEnds,
     Teardown, Expire, StartCloseStale, StartInsert, Finalize, BatchComplete, Abort,
     envVars
<1>3. QED
  BY <1>1, <1>2

(* What the other requests have counted survives the step. *)
LEMMA OthersCount ==
  ASSUME TypeOK, LockInv, ReadInv, CountInv,
         NEW r \in Req, NEW q \in Req, q # r, Step(r)
  PROVE  CountOK(q)'
<1>0. LockOK(q) /\ CountOK(q) /\ req'[q] = req[q]
  BY OthersKeep DEF LockInv, CountInv
<1>1. SUFFICES ASSUME req[q].pc \in {"active", "stale", "count", "insert"}
               PROVE  CountOK(q)'
  BY <1>0 DEF CountOK
<1>2. req[q].op \in TeamLocked /\ InBody(q)
  BY <1>0, <1>1 DEF LockOK, OpsAt, TeamLocked, InBody
<1>3. PICK t \in Team : t = req[q].team /\ mutex[t] = q
  BY <1>0, <1>1, <1>2 DEF LockOK
<1>4. \A s \in Sub : Owner[s] = t => ~Ended(r, s) /\ ~Began(r, s)
  BY <1>3 DEF Ended, Began
<1>5. Completed(t)' \subseteq Completed(t) /\ Active(t)' \subseteq Active(t)
  BY <1>3, <1>4, CompletedChange
<1>6. Cardinality(Completed(t)') <= Cardinality(Completed(t))
  BY <1>5, CompletedFinite, FS_Subset
<1>7. Cardinality(Completed(t)') \in Nat /\ Cardinality(Completed(t)) \in Nat
  BY <1>5, CompletedFinite, FS_Subset, FS_CardinalityType
<1>8. Cardinality(Completed(t)) < Limit => Cardinality(Completed(t)') < Limit
  BY <1>6, <1>7, LifecycleAssumption
<1>9. req'[q].team = t /\ req[q].team = t
  BY <1>0, <1>3
<1>10. teamStatus'[t] = teamStatus[t]
  BY <1>3, TeamStatusChange
<1>11. QED
  BY <1>0, <1>5, <1>8, <1>9, <1>10 DEF CountOK

(* The team's running submission and its completed ones stay within Limit. *)
LEMMA StepRoom ==
  ASSUME IInv, NEW r \in Req, Step(r)
  PROVE  OneActive' /\ RoomInv' /\ WithinLimit'
<1>0. /\ TypeOK /\ LockInv /\ ReadInv /\ CountOK(r) /\ RoomInv /\ OneActive /\ WithinLimit
      /\ Owner \in [Sub -> Team] /\ Limit \in Nat
      /\ status \in [Sub -> Status]
  BY LifecycleAssumption DEF IInv, CountInv, TypeOK
<1>1. ASSUME NEW t \in Team, Completed(t)' \subseteq Completed(t)
      PROVE  Cardinality(Completed(t)') <= Cardinality(Completed(t))
             /\ Cardinality(Completed(t)') \in Nat
  BY <1>1, CompletedFinite, FS_Subset, FS_CardinalityType
<1>2. ASSUME NEW s \in Sub, Began(r, s)
      PROVE  OneActive' /\ RoomInv' /\ WithinLimit'
  <2>1. Active(Owner[s]) = {} /\ Cardinality(Completed(Owner[s])) < Limit
    BY <1>0, <1>2 DEF Began, CountOK
  <2>2. \A t \in Team : Completed(t)' = Completed(t)
    BY <1>0, <1>2 DEF Began, Completed
  <2>3. OneActive'
    BY <1>0, <1>2, <2>1 DEF Began, Active, OneActive
  <2>4. RoomInv'
    BY <1>0, <1>2, <2>1, <2>2 DEF Began, RoomInv
  <2>5. WithinLimit'
    BY <1>0, <2>2 DEF WithinLimit
  <2>6. QED
    BY <2>3, <2>4, <2>5
<1>3. ASSUME NEW s \in Sub, Ended(r, s)
      PROVE  OneActive' /\ RoomInv' /\ WithinLimit'
  <2>1. \A t \in Team : t # Owner[s] => Completed(t)' = Completed(t)
    BY <1>0, <1>3 DEF Ended, Completed
  <2>2. Completed(Owner[s])' = Completed(Owner[s]) \cup {s}
    BY <1>0, <1>3 DEF Ended, Completed
  <2>3. Cardinality(Completed(Owner[s])) < Limit
    BY <1>0, <1>3 DEF Ended, RoomInv
  <2>4. Cardinality(Completed(Owner[s])') <= Cardinality(Completed(Owner[s])) + 1
    <3>1. \/ Cardinality(Completed(Owner[s])') = Cardinality(Completed(Owner[s]))
          \/ Cardinality(Completed(Owner[s])') = Cardinality(Completed(Owner[s])) + 1
      BY <2>2, CompletedFinite, FS_AddElement
    <3>2. Cardinality(Completed(Owner[s])) \in Nat
      BY CompletedFinite
    <3>3. QED
      BY <3>1, <3>2
  <2>5. OneActive'
    BY <1>0, <1>3 DEF Ended, OneActive
  <2>6. RoomInv'
    BY <1>0, <1>3, <2>1 DEF Ended, RoomInv, OneActive
  <2>7. Cardinality(Completed(Owner[s])') \in Nat
    BY <2>2, CompletedFinite, FS_AddElement, FS_CardinalityType
  <2>8. Cardinality(Completed(Owner[s])') <= Limit
    BY <1>0, <2>3, <2>4, <2>7, CompletedFinite
  <2>9. WithinLimit'
    BY <1>0, <2>1, <2>8 DEF WithinLimit
  <2>10. QED
    BY <2>5, <2>6, <2>9
<1>4. ASSUME \A s \in Sub : status'[s] = "in_progress" => status[s] = "in_progress",
             \A t \in Team : Completed(t)' \subseteq Completed(t)
      PROVE  OneActive' /\ RoomInv' /\ WithinLimit'
  <2>1. OneActive'
    BY <1>0, <1>4 DEF OneActive
  <2>2. \A t \in Team : /\ Cardinality(Completed(t)') <= Cardinality(Completed(t))
                         /\ Cardinality(Completed(t)') \in Nat
                         /\ Cardinality(Completed(t)) \in Nat
    BY <1>1, <1>4, CompletedFinite
  <2>3. RoomInv'
    <3>1. SUFFICES ASSUME NEW s \in Sub, status'[s] = "in_progress"
                   PROVE  Cardinality(Completed(Owner[s])') < Limit
      BY DEF RoomInv
    <3>2. Cardinality(Completed(Owner[s])) < Limit /\ Owner[s] \in Team
      BY <1>0, <1>4, <3>1 DEF RoomInv
    <3>3. QED
      BY <1>0, <2>2, <3>2
  <2>4. WithinLimit'
    BY <1>0, <2>2 DEF WithinLimit
  <2>5. QED
    BY <2>1, <2>3, <2>4
<1>5. ASSUME NEW s \in Sub, Lapsed(r, s) \/ GivenUp(r, s)
      PROVE  OneActive' /\ RoomInv' /\ WithinLimit'
  <2>1. \A x \in Sub : status'[x] = "in_progress" => status[x] = "in_progress"
    BY <1>0, <1>5 DEF Lapsed, GivenUp
  <2>2. \A t \in Team : Completed(t)' \subseteq Completed(t)
    BY <1>0, <1>5 DEF Lapsed, GivenUp, Completed
  <2>3. QED
    BY <1>4, <2>1, <2>2
<1>6. CASE UNCHANGED status
  BY <1>4, <1>6 DEF Completed
<1>7. QED
  BY <1>0, <1>2, <1>3, <1>5, <1>6, StatusChange

(* Only Score writes a score, and it leaves the status alone. *)
LEMMA ScoredChange ==
  ASSUME TypeOK, ReadInv, NEW r \in Req, Step(r)
  PROVE  \/ UNCHANGED scored
         \/ /\ UNCHANGED status
            /\ \E s \in Sub : /\ status[s] \in Terminal
                              /\ scored' = [scored EXCEPT ![s] = TRUE]
<1>1. CASE Score(r)
  <2>1. req[r].sub \in Sub /\ status[req[r].sub] \in Terminal
    BY <1>1 DEF Score, ReadInv, ReadOK
  <2>2. /\ UNCHANGED status
        /\ UNCHANGED scored \/ scored' = [scored EXCEPT ![req[r].sub] = TRUE]
    BY <1>1, Zenon DEF Score
  <2>3. QED
    BY <2>1, <2>2, Zenon
<1>2. CASE ~Score(r)
  BY <1>2 DEF Step, LockStep, RunStep, AcquireTeamLock, AcquireSubmissionLock,
     StartLockTeamRow, LockSubmissionRow, LockActiveRow, ScoreLockRow, SetTeamStatus,
     CheckWindow, StartReadActive, StartCount, ReadSubmission, BatchFail, TaskEnds,
     Teardown, Expire, StartCloseStale, StartInsert, Finalize, BatchComplete, Abort,
     subVars
<1>3. QED
  BY <1>1, <1>2

(* A step of a request scores a run only when it is over. *)
LEMMA StepScored ==
  ASSUME IInv, NEW r \in Req, Step(r)
  PROVE  ScoredIsTerminal'
<1>0. /\ TypeOK /\ LockInv /\ ReadInv /\ ScoredIsTerminal
      /\ status \in [Sub -> Status] /\ scored \in [Sub -> BOOLEAN]
  BY DEF IInv, TypeOK
<1>1. CASE UNCHANGED scored
  <2>1. ASSUME NEW s \in Sub, status[s] \in Terminal PROVE status'[s] \in Terminal
    BY <1>0, <2>1, StatusChange DEF Began, Ended, Lapsed, GivenUp, Terminal
  <2>2. QED
    BY <1>0, <1>1, <2>1 DEF ScoredIsTerminal
<1>2. ASSUME UNCHANGED status, NEW s \in Sub, status[s] \in Terminal,
             scored' = [scored EXCEPT ![s] = TRUE]
      PROVE  ScoredIsTerminal'
  <2>1. \A x \in Sub : x # s => scored'[x] = scored[x]
    BY <1>0, <1>2, Zenon
  <2>2. QED
    BY <1>0, <1>2, <2>1 DEF ScoredIsTerminal
<1>3. QED
  BY <1>0, <1>1, <1>2, ScoredChange

(* What the stepping request has read and counted itself. *)
LEMMA OwnStep ==
  ASSUME IInv, NEW r \in Req, Step(r)
  PROVE  ReadOK(r)' /\ CountOK(r)'
<1> DEFINE Goal == ReadOK(r)' /\ CountOK(r)'
<1> SUFFICES Goal
  OBVIOUS
<1>0. /\ TypeOK /\ LockOK(r) /\ ReadOK(r) /\ CountOK(r) /\ OneActive
      /\ req \in [Req -> Request] /\ req[r] \in Request
      /\ status \in [Sub -> Status] /\ row \in [Key -> Req \cup {None}]
      /\ Sub \subseteq Key
  BY DEF IInv, LockInv, ReadInv, CountInv, TypeOK, Key
<1>1. ASSUME Leave(r), UNCHANGED status PROVE Goal
  <2>1. /\ req'[r].pc = "teardown" /\ req'[r].op = req[r].op
        /\ req'[r].sub = req[r].sub
    BY <1>0, <1>1 DEF Leave, Goto, Request
  <2>2. QED
    BY <1>0, <1>1, <2>1 DEF ReadOK, CountOK, ReadForUpdate, ReadUnderTeamLock
<1>2. ASSUME req' = [req EXCEPT ![r] = Idle] PROVE Goal
  <2>1. req'[r].pc = "idle" /\ req'[r].op = "none"
    BY <1>0, <1>2 DEF Idle
  <2>2. QED
    BY <2>1 DEF ReadOK, CountOK, ReadForUpdate, ReadUnderTeamLock, NamesSub
<1>3. ASSUME NEW pc, Goto(r, pc)
      PROVE  /\ req'[r].pc = pc /\ req'[r].op = req[r].op /\ req'[r].sub = req[r].sub
             /\ req'[r].team = req[r].team /\ req'[r].seen = req[r].seen
  BY <1>0, <1>3 DEF Goto, Request
<1>4. CASE AcquireTeamLock(r)
  <2>1. req[r].op \in TeamLocked
    BY <1>0, <1>4 DEF AcquireTeamLock, LockOK, OpsAt
  <2>2. /\ req'[r].pc \in {"window", "subRow", "activeRow", "read", "teamWrite"}
        /\ req'[r].pc = "window" => req[r].op = "start"
        /\ req'[r].op = req[r].op /\ req'[r].sub = req[r].sub
    BY <1>3, <1>4, <2>1 DEF AcquireTeamLock, AfterTeamLock, TeamLocked
  <2>3. status' = status
    BY <1>4 DEF AcquireTeamLock, subVars
  <2>4. QED
    BY <1>0, <2>2, <2>3 DEF ReadOK, CountOK, ReadForUpdate, ReadUnderTeamLock
<1>5. CASE CheckWindow(r)
  <2>1. /\ req[r].pc = "window" /\ UNCHANGED <<status, row>>
        /\ req[r].op \in {"start", "batch", "task", "status"}
    BY <1>0, <1>5 DEF CheckWindow, subVars, LockOK, OpsAt
  <2>2. CASE Leave(r)
    BY <1>1, <2>1, <2>2
  <2>3. CASE Goto(r, "expire") /\ req[r].op # "start" /\ req[r].seen = "in_progress"
    BY <1>0, <1>3, <2>1, <2>3 DEF ReadOK, CountOK, ReadForUpdate, ReadUnderTeamLock, NamesSub
  <2>4. CASE Goto(r, "teamRow") /\ req[r].op = "start"
    BY <1>0, <1>3, <2>1, <2>4 DEF ReadOK, CountOK, ReadForUpdate, ReadUnderTeamLock, NamesSub
  <2>5. CASE Goto(r, "write") /\ req[r].op \in {"batch", "task"}
    BY <1>0, <1>3, <2>1, <2>5 DEF ReadOK, CountOK, ReadForUpdate, ReadUnderTeamLock, NamesSub
  <2>6. QED
    BY <1>5, <2>2, <2>3, <2>4, <2>5 DEF CheckWindow
<1>6. CASE \/ Expire(r) \/ StartInsert(r) \/ Finalize(r) \/ Abort(r)
           \/ SetTeamStatus(r) \/ Teardown(r)
  <2>1. req' = [req EXCEPT ![r] = Idle]
    BY <1>6, Zenon DEF Expire, StartInsert, Finalize, Abort, SetTeamStatus,
                       CommitAndReturn, Teardown
  <2>2. QED
    BY <1>2, <2>1
<1>7. CASE StartLockTeamRow(r)
  <2>1. req[r].op = "start" /\ UNCHANGED <<status, teamStatus>>
    BY <1>0, <1>7 DEF StartLockTeamRow, subVars, envVars, LockOK, OpsAt
  <2>2. CASE Leave(r)
    BY <1>1, <2>1, <2>2
  <2>3. CASE Goto(r, "active") /\ teamStatus[req[r].team] = "active"
    BY <1>3, <2>1, <2>3 DEF ReadOK, CountOK, ReadForUpdate, ReadUnderTeamLock, NamesSub
  <2>4. QED
    BY <1>7, <2>2, <2>3 DEF StartLockTeamRow
<1>8. CASE StartReadActive(r)
  <2>1. /\ req[r].op = "start" /\ UNCHANGED <<status, teamStatus>>
        /\ teamStatus[req[r].team] = "active"
    BY <1>0, <1>8 DEF StartReadActive, subVars, envVars, LockOK, OpsAt, CountOK
  <2>2. CASE Leave(r)
    BY <1>1, <2>1, <2>2
  <2>3. CASE Goto(r, "count") /\ Active(req[r].team) = {}
    <3>1. Active(req[r].team)' = {}
      BY <1>3, <2>1, <2>3 DEF Active
    <3>2. QED
      BY <1>3, <2>1, <2>3, <3>1
         DEF ReadOK, CountOK, ReadForUpdate, ReadUnderTeamLock, NamesSub
  <2>4. ASSUME NEW s \in Active(req[r].team),
               req' = [req EXCEPT ![r].pc = "stale", ![r].sub = s]
        PROVE  Goal
    <3>1. /\ req'[r].pc = "stale" /\ req'[r].op = "start" /\ req'[r].sub = s
          /\ req'[r].team = req[r].team
      BY <1>0, <2>1, <2>4 DEF Request
    <3>2. s \in Sub /\ Owner[s] = req[r].team /\ status[s] = "in_progress"
      BY <2>4 DEF Active
    <3>3. Active(req[r].team)' \subseteq {s}
      BY <1>0, <2>1, <3>1, <3>2 DEF Active, OneActive
    <3>4. QED
      BY <2>1, <3>1, <3>2, <3>3 DEF ReadOK, CountOK, ReadForUpdate, ReadUnderTeamLock, NamesSub
  <2>5. QED
    BY <1>8, <2>2, <2>3, <2>4 DEF StartReadActive
<1>9. CASE StartCloseStale(r)
  <2>1. /\ req[r].op = "start" /\ UNCHANGED teamStatus
        /\ teamStatus[req[r].team] = "active"
        /\ Active(req[r].team) \subseteq {req[r].sub} /\ req[r].sub \in Sub
    BY <1>0, <1>9 DEF StartCloseStale, envVars, LockOK, OpsAt, CountOK, ReadOK,
                     ReadUnderTeamLock
  <2>2. req'[r].pc = "count" /\ req'[r].op = "start" /\ req'[r].team = req[r].team
    BY <1>0, <1>9, <2>1 DEF StartCloseStale, Request
  <2>3. status' = [status EXCEPT ![req[r].sub] = "interrupted"]
    BY <1>9 DEF StartCloseStale
  <2>4. Active(req[r].team)' = {}
    BY <1>0, <2>1, <2>2, <2>3 DEF Active
  <2>5. QED
    BY <2>1, <2>2, <2>4 DEF ReadOK, CountOK, ReadForUpdate, ReadUnderTeamLock, NamesSub
<1>10. CASE StartCount(r)
  <2>1. /\ req[r].op = "start" /\ UNCHANGED <<status, teamStatus>>
        /\ Active(req[r].team) = {} /\ teamStatus[req[r].team] = "active"
    BY <1>0, <1>10 DEF StartCount, subVars, envVars, LockOK, OpsAt, CountOK
  <2>2. CASE Leave(r)
    BY <1>1, <2>1, <2>2
  <2>3. ASSUME Cardinality(Completed(req[r].team)) < Limit,
               req' = [req EXCEPT ![r].pc = "insert",
                            ![r].n = Cardinality(Completed(req[r].team))]
        PROVE  Goal
    <3>1. req'[r].pc = "insert" /\ req'[r].op = "start" /\ req'[r].team = req[r].team
      BY <1>0, <2>1, <2>3 DEF Request
    <3>2. Active(req[r].team)' = {} /\ Completed(req[r].team)' = Completed(req[r].team)
      BY <2>1, <3>1 DEF Active, Completed
    <3>3. QED
      BY <2>1, <2>3, <3>1, <3>2
         DEF ReadOK, CountOK, ReadForUpdate, ReadUnderTeamLock, NamesSub
  <2>4. QED
    BY <1>10, <2>2, <2>3 DEF StartCount
<1>11. CASE LockSubmissionRow(r)
  <2>1. req[r].op \in {"finalize", "batch"} /\ UNCHANGED status
    BY <1>0, <1>11 DEF LockSubmissionRow, subVars, LockOK, OpsAt
  <2>2. CASE Leave(r)
    BY <1>1, <2>1, <2>2
  <2> DEFINE s == req[r].sub
             pc == IF req[r].op = "batch" THEN "window" ELSE "write"
  <2>3. ASSUME Owner[s] = req[r].team, status[s] = "in_progress",
               row' = [row EXCEPT ![s] = r],
               req' = [req EXCEPT ![r].seen = "in_progress", ![r].pc = pc]
        PROVE  Goal
    <3>1. /\ req'[r].pc = pc /\ req'[r].op = req[r].op /\ req'[r].sub = s
          /\ req'[r].team = req[r].team
      BY <1>0, <2>3 DEF Request
    <3>2. s \in Sub /\ row'[s] = r
      BY <1>0, <2>1, <2>3 DEF ReadOK, NamesSub
    <3>3. QED
      BY <2>1, <2>3, <3>1, <3>2 DEF ReadOK, CountOK, ReadForUpdate, ReadUnderTeamLock
  <2>4. QED
    BY <1>11, <2>2, <2>3 DEF LockSubmissionRow
<1>12. CASE LockActiveRow(r)
  <2>1. req[r].op = "task" /\ UNCHANGED status
    BY <1>0, <1>12 DEF LockActiveRow, subVars, LockOK, OpsAt
  <2>2. CASE Leave(r)
    BY <1>1, <2>1, <2>2
  <2>3. ASSUME NEW s \in Active(req[r].team), row' = [row EXCEPT ![s] = r],
               req' = [req EXCEPT ![r].pc = "window", ![r].sub = s,
                                  ![r].seen = "in_progress"]
        PROVE  Goal
    <3>1. /\ req'[r].pc = "window" /\ req'[r].op = "task" /\ req'[r].sub = s
          /\ req'[r].team = req[r].team
      BY <1>0, <2>1, <2>3 DEF Request
    <3>2. /\ s \in Sub /\ Owner[s] = req[r].team /\ status[s] = "in_progress"
          /\ row'[s] = r
      BY <1>0, <2>3 DEF Active
    <3>3. QED
      BY <2>1, <3>1, <3>2 DEF ReadOK, CountOK, ReadForUpdate, ReadUnderTeamLock, NamesSub
  <2>4. QED
    BY <1>12, <2>2, <2>3 DEF LockActiveRow
<1>13. CASE ReadSubmission(r)
  <2>1. /\ req[r].op \in {"abort", "status"} /\ UNCHANGED status
        /\ req[r].sub \in Sub /\ status[req[r].sub] # "absent"
    BY <1>0, <1>13 DEF ReadSubmission, subVars, LockOK, OpsAt, ReadOK, NamesSub
  <2>2. CASE Leave(r)
    BY <1>1, <2>1, <2>2
  <2> DEFINE s == req[r].sub
             pc == IF req[r].op = "status" THEN "window" ELSE "write"
  <2>3. ASSUME Owner[s] = req[r].team, req[r].op = "status" \/ status[s] = "in_progress",
               req' = [req EXCEPT ![r].seen = status[s], ![r].pc = pc]
        PROVE  Goal
    <3>1. /\ req'[r].pc = pc /\ req'[r].op = req[r].op /\ req'[r].sub = s
          /\ req'[r].team = req[r].team
      BY <1>0, <2>3 DEF Request
    <3>2. QED
      BY <2>1, <2>3, <3>1 DEF ReadOK, CountOK, ReadForUpdate, ReadUnderTeamLock
  <2>4. QED
    BY <1>13, <2>2, <2>3 DEF ReadSubmission
<1>14. CASE BatchComplete(r)
  <2>1. /\ req[r].op = "batch" /\ req[r].sub \in Sub
        /\ status' = [status EXCEPT ![req[r].sub] = "completed"]
    BY <1>0, <1>14 DEF BatchComplete, ReadOK, NamesSub
  <2>2. req'[r].pc = "subMutex" /\ req'[r].op = "batch" /\ req'[r].sub = req[r].sub
    BY <1>0, <1>14, <2>1 DEF BatchComplete, Request
  <2>3. status'[req[r].sub] = "completed"
    BY <1>0, <2>1
  <2>4. QED
    BY <2>1, <2>2, <2>3 DEF ReadOK, CountOK, ReadForUpdate, ReadUnderTeamLock, Terminal
<1>15. CASE BatchFail(r)
  BY <1>1, <1>15 DEF BatchFail, subVars
<1>15a. CASE TaskEnds(r)
  BY <1>1, <1>2, <1>15a DEF TaskEnds, CommitAndReturn, subVars
<1>16. CASE AcquireSubmissionLock(r)
  <2>1. /\ req'[r].pc = "scoreRow" /\ req'[r].op = req[r].op
        /\ req'[r].sub = req[r].sub /\ UNCHANGED status /\ req[r].pc = "subMutex"
    BY <1>3, <1>16 DEF AcquireSubmissionLock, subVars
  <2>2. QED
    BY <1>0, <2>1 DEF ReadOK, CountOK, ReadForUpdate, ReadUnderTeamLock
<1>17. CASE ScoreLockRow(r)
  <2>1. /\ req[r].op \in {"batch", "score"} /\ UNCHANGED status
        /\ req[r].pc = "scoreRow"
    BY <1>0, <1>17 DEF ScoreLockRow, subVars, LockOK, OpsAt
  <2>2. CASE Leave(r)
    BY <1>1, <2>1, <2>2
  <2>3. CASE Goto(r, "score") /\ (req[r].op # "batch" => status[req[r].sub] # "in_progress")
    <3>1. req[r].sub \in Sub /\ status[req[r].sub] # "absent"
      BY <1>0, <2>1 DEF ReadOK, NamesSub
    <3>2. status[req[r].sub] \in Terminal
      BY <1>0, <2>1, <2>3, <3>1 DEF ReadOK, Status
    <3>3. QED
      BY <1>3, <2>1, <2>3, <3>1, <3>2 DEF ReadOK, CountOK, ReadForUpdate, ReadUnderTeamLock
  <2>4. QED
    BY <1>17, <2>2, <2>3 DEF ScoreLockRow
<1>18. CASE Score(r)
  <2>1. (Leave(r) /\ UNCHANGED status) \/ req' = [req EXCEPT ![r] = Idle]
    BY <1>18, Zenon DEF Score, CommitAndReturn
  <2>2. QED
    BY <1>1, <1>2, <2>1
<1>19. QED
  BY <1>4, <1>5, <1>6, <1>7, <1>8, <1>9, <1>10, <1>11, <1>12, <1>13, <1>14,
     <1>15, <1>15a, <1>16, <1>17, <1>18 DEF Step, LockStep, RunStep

-----------------------------------------------------------------------------
(* A step of a request keeps the invariant. *)
LEMMA StepInv ==
  ASSUME IInv, NEW r \in Req, Step(r)
  PROVE  IInv'
<1>0. TypeOK /\ LockInv /\ ReadInv /\ CountInv
  BY DEF IInv
<1>1. TypeOK'
  BY <1>0, StepType
<1>2. LockInv'
  <2>1. ASSUME NEW q \in Req, q # r PROVE LockOK(q)'
    <3>1. /\ LockOK(q) /\ req'[q] = req[q] /\ Team \subseteq Key
          /\ \A k \in Key : mutex[k] = q => mutex'[k] = q
      BY <1>0, <2>1, OthersKeep DEF LockInv, Key
    <3>2. req[q].pc # "idle" => req[q].team \in Key
      BY <3>1 DEF LockOK
    <3>3. QED
      BY <3>1, <3>2 DEF LockOK, InBody
  <2>2. QED
    BY <1>0, <2>1, OwnLock DEF LockInv
<1>3. ReadInv' /\ CountInv'
  BY <1>0, OthersRead, OthersCount, OwnStep DEF ReadInv, CountInv
<1>4. QED
  BY <1>1, <1>2, <1>3, StepRoom, StepScored DEF IInv

(* A step of the environment keeps the invariant. *)
LEMMA EnvironmentInv ==
  ASSUME IInv, Environment
  PROVE  IInv'
<1>0. /\ TypeOK /\ LockInv /\ ReadInv /\ CountInv /\ RoomInv
      /\ OneActive /\ WithinLimit /\ ScoredIsTerminal
  BY DEF IInv
<1>1. TypeOK'
  BY <1>0, EnvironmentType
<1>2. UNCHANGED <<status, scored, teamStatus>>
  BY DEF Environment, Arrive, Age, MovePhase, MoveEnd, Crash, subVars, envVars
<1>3. RoomInv' /\ OneActive' /\ WithinLimit' /\ ScoredIsTerminal'
  BY <1>0, <1>2 DEF RoomInv, OneActive, WithinLimit, ScoredIsTerminal, Completed
<1>4. ASSUME NEW q \in Req, req'[q] = req[q], UNCHANGED <<mutex, row>>
      PROVE  LockOK(q)' /\ ReadOK(q)' /\ CountOK(q)'
  <2>1. LockOK(q) /\ ReadOK(q) /\ CountOK(q)
    BY <1>0 DEF LockInv, ReadInv, CountInv
  <2>2. LockOK(q)'
    BY <1>4, <2>1 DEF LockOK, InBody
  <2>3. ReadOK(q)'
    BY <1>2, <1>4, <2>1 DEF ReadOK, ReadForUpdate, ReadUnderTeamLock
  <2>4. CountOK(q)'
    BY <1>2, <1>4, <2>1 DEF CountOK, Active, Completed
  <2>5. QED
    BY <2>2, <2>3, <2>4
<1>5. ASSUME NEW q \in Req, req'[q] = Idle
      PROVE  LockOK(q)' /\ ReadOK(q)' /\ CountOK(q)'
  <2>1. req'[q].pc = "idle" /\ req'[q].op = "none"
    BY <1>5 DEF Idle
  <2>2. LockOK(q)'
    BY <2>1 DEF LockOK, OpsAt, InBody, TeamLocked
  <2>3. ReadOK(q)' /\ CountOK(q)'
    BY <2>1 DEF ReadOK, ReadForUpdate, ReadUnderTeamLock, CountOK, NamesSub
  <2>4. QED
    BY <2>2, <2>3
<1>6. ASSUME NEW r \in Req, NEW op \in Ops, NEW t \in Team, NEW s \in Sub \cup {None},
             Arrive(r, op, t, s)
      PROVE  IInv'
  <2>1. op \in TeamLocked \/ op = "status" \/ op = "score"
    BY LifecycleAssumption DEF TeamLocked, ParticipantOps, AdminOps
  <2> DEFINE pc == CASE op \in TeamLocked -> "mutex"
                     [] op = "status"     -> "read"
                     [] op = "score"      -> "subMutex"
  <2>2. /\ req'[r].pc = pc /\ req'[r].op = op /\ req'[r].team = t /\ req'[r].sub = s
    BY <1>0, <1>6 DEF Arrive, Idle, TypeOK
  <2>3. op \in OpsAt(pc) /\ pc \in {"mutex", "read", "subMutex"}
    BY <2>1 DEF OpsAt, TeamLocked
  <2>4. op \in TeamLocked => pc = "mutex"
    BY DEF TeamLocked
  <2>5. pc = "subMutex" => op = "score"
    BY <2>1
  <2> HIDE DEF pc
  <2>6. LockOK(r)'
    BY <2>2, <2>3, <2>4 DEF LockOK, InBody
  <2>7. op \in NamesSub => s \in Sub /\ status'[s] # "absent"
    BY <1>2, <1>6 DEF Arrive
  <2>8. ReadOK(r)' /\ CountOK(r)'
    BY <2>2, <2>3, <2>5, <2>7 DEF ReadOK, CountOK, ReadForUpdate, ReadUnderTeamLock
  <2>9. ASSUME NEW q \in Req, q # r PROVE LockOK(q)' /\ ReadOK(q)' /\ CountOK(q)'
    <3>1. req'[q] = req[q] /\ UNCHANGED <<mutex, row>>
      BY <1>0, <1>6, <2>9 DEF Arrive, TypeOK, lockVars
    <3>2. QED
      BY <1>4, <3>1
  <2>10. QED
    BY <1>1, <1>3, <2>6, <2>8, <2>9 DEF IInv, LockInv, ReadInv, CountInv
<1>7. CASE (\E s \in Sub : Age(s)) \/ MovePhase \/ MoveEnd
  <2>1. UNCHANGED <<mutex, row, req>>
    BY <1>7 DEF Age, MovePhase, MoveEnd, lockVars
  <2>2. QED
    BY <1>1, <1>3, <1>4, <2>1 DEF IInv, LockInv, ReadInv, CountInv
<1>8. CASE Crash
  <2>1. \A q \in Req : req'[q] = Idle
    BY <1>8 DEF Crash
  <2>2. QED
    BY <1>1, <1>3, <1>5, <2>1 DEF IInv, LockInv, ReadInv, CountInv
<1>9. QED
  BY <1>6, <1>7, <1>8 DEF Environment

(* The invariant holds at the start. *)
LEMMA InitInv == Init => IInv
<1> SUFFICES ASSUME Init PROVE IInv
  OBVIOUS
<1>1. TypeOK
  BY TypeInit
<1>2. /\ \A r \in Req : req[r] = Idle
      /\ \A s \in Sub : status[s] = "absent"
      /\ \A s \in Sub : scored[s] = FALSE
  BY DEF Init
<1>3. ASSUME NEW r \in Req PROVE LockOK(r) /\ ReadOK(r) /\ CountOK(r)
  <2>1. req[r].pc = "idle" /\ req[r].op = "none"
    BY <1>2 DEF Idle
  <2>2. LockOK(r)
    BY <2>1 DEF LockOK, OpsAt, InBody, TeamLocked
  <2>3. ReadOK(r) /\ CountOK(r)
    BY <2>1 DEF ReadOK, ReadForUpdate, ReadUnderTeamLock, CountOK, NamesSub
  <2>4. QED
    BY <2>2, <2>3
<1>4. WithinLimit
  <2>1. \A t \in Team : Completed(t) = {}
    BY <1>2 DEF Completed
  <2>2. QED
    BY <2>1, FS_EmptySet, LifecycleAssumption DEF WithinLimit
<1>5. RoomInv /\ OneActive /\ ScoredIsTerminal
  BY <1>2 DEF RoomInv, OneActive, ScoredIsTerminal
<1>6. QED
  BY <1>1, <1>3, <1>4, <1>5 DEF IInv, LockInv, ReadInv, CountInv

(* Every step keeps the invariant. *)
LEMMA NextInv == IInv /\ [Next]_vars => IInv'
<1>1. ASSUME IInv, UNCHANGED vars PROVE IInv'
  <2>1. /\ UNCHANGED <<phase, ended, teamStatus, status, attempt, aged, scored>>
        /\ UNCHANGED <<mutex, row, req>>
    BY <1>1 DEF vars, envVars, subVars, lockVars
  <2>2. TypeOK'
    BY <1>1, <2>1 DEF IInv, TypeOK
  <2>3. LockInv' /\ ReadInv'
    BY <1>1, <2>1 DEF IInv, LockInv, LockOK, InBody, ReadInv, ReadOK, ReadForUpdate,
       ReadUnderTeamLock
  <2>4. CountInv' /\ RoomInv' /\ OneActive' /\ WithinLimit'
    BY <1>1, <2>1 DEF IInv, CountInv, CountOK, RoomInv, OneActive, WithinLimit,
       Active, Completed
  <2>5. ScoredIsTerminal'
    BY <1>1, <2>1 DEF IInv, ScoredIsTerminal
  <2>6. QED
    BY <2>2, <2>3, <2>4, <2>5 DEF IInv
<1>2. QED
  BY <1>1, StepInv, EnvironmentInv DEF Next, Step

(* The whole inductive invariant holds in every reachable state. *)
THEOREM InvariantHolds == Spec => []IInv
<1>1. QED
  BY InitInv, NextInv, PTL DEF Spec

(* Every variable keeps its type. *)
THEOREM TypeCorrect == Spec => []TypeOK
<1>1. IInv => TypeOK
  BY DEF IInv
<1>2. QED
  BY <1>1, InvariantHolds, PTL

(* A team never has two submissions in progress. *)
THEOREM OneActiveHolds == Spec => []OneActive
<1>1. IInv => OneActive
  BY DEF IInv
<1>2. QED
  BY <1>1, InvariantHolds, PTL

(* A team never completes more submissions than the limit. *)
THEOREM WithinLimitHolds == Spec => []WithinLimit
<1>1. IInv => WithinLimit
  BY DEF IInv
<1>2. QED
  BY <1>1, InvariantHolds, PTL

(* No submission carries a score before it has ended. *)
THEOREM ScoredIsTerminalHolds == Spec => []ScoredIsTerminal
<1>1. IInv => ScoredIsTerminal
  BY DEF IInv
<1>2. QED
  BY <1>1, InvariantHolds, PTL

-----------------------------------------------------------------------------
(* The environment changes no status and no score. *)
LEMMA EnvironmentKeeps == Environment => UNCHANGED <<status, scored>>
BY DEF Environment, Arrive, Age, MovePhase, MoveEnd, Crash, subVars

(* A finished submission never becomes in progress or completed again. *)
THEOREM NoRevivalHolds == Spec => NoRevival
<1> DEFINE Keep == \A s \in Sub : status[s] \in Terminal =>
       status'[s] \in Terminal /\ (status'[s] = "completed" => status[s] = "completed")
<1>1. ASSUME IInv, [Next]_vars PROVE [Keep]_vars
  <2>1. CASE UNCHANGED status
    BY <2>1
  <2>2. ASSUME NEW r \in Req, NEW x \in Sub,
               Began(r, x) \/ Ended(r, x) \/ Lapsed(r, x) \/ GivenUp(r, x)
        PROVE  Keep
    <3>1. status \in [Sub -> Status]
      BY <1>1 DEF IInv, TypeOK
    <3>2. QED
      BY <2>2, <3>1 DEF Began, Ended, Lapsed, GivenUp, Terminal
  <2>3. CASE Environment
    BY <2>1, <2>3, EnvironmentKeeps
  <2>4. ASSUME NEW r \in Req, Step(r) PROVE Keep
    BY <1>1, <2>1, <2>2, <2>4, StatusChange DEF IInv
  <2>5. QED
    BY <1>1, <2>3, <2>4 DEF Next, Step
<1>2. QED
  BY <1>1, InvariantHolds, PTL DEF Spec, NoRevival

(* Only a status poll that read it in progress takes a completion away. *)
THEOREM CompletionLostOnlyToPollHolds == Spec => CompletionLostOnlyToPoll
<1> DEFINE Keep == \A s \in Sub : status[s] = "completed" /\ status'[s] # "completed" =>
       /\ status'[s] = "expired"
       /\ \E r \in Req : /\ req[r].op = "status" /\ req[r].sub = s
                         /\ req[r].seen = "in_progress"
<1>1. ASSUME IInv, [Next]_vars PROVE [Keep]_vars
  <2>1. CASE UNCHANGED status
    BY <2>1
  <2>2. ASSUME NEW r \in Req, NEW x \in Sub,
               Began(r, x) \/ Ended(r, x) \/ Lapsed(r, x) \/ GivenUp(r, x)
        PROVE  Keep
    <3>1. status \in [Sub -> Status] /\ LockOK(r) /\ ReadOK(r)
      BY <1>1 DEF IInv, TypeOK, LockInv, ReadInv
    <3>2. CASE ~Lapsed(r, x)
      BY <2>2, <3>1, <3>2 DEF Began, Ended, GivenUp
    <3>3. CASE Lapsed(r, x)
      <4>1. SUFFICES ASSUME NEW s \in Sub, status[s] = "completed", status'[s] # "completed"
                     PROVE  /\ status'[s] = "expired" /\ req[r].op = "status"
                            /\ req[r].sub = s /\ req[r].seen = "in_progress"
        OBVIOUS
      <4>2. s = x /\ status'[s] = "expired" /\ req[r].pc = "expire" /\ req[r].sub = s
        BY <3>1, <3>3, <4>1 DEF Lapsed
      <4>3. req[r].op \in {"batch", "task", "status"}
        BY <3>1, <4>2 DEF LockOK, OpsAt
      <4>4. ~ReadForUpdate(r)
        BY <3>1, <4>1, <4>2 DEF ReadOK
      <4>5. QED
        BY <3>1, <4>2, <4>3, <4>4 DEF ReadOK, ReadForUpdate
    <3>4. QED
      BY <3>2, <3>3
  <2>3. CASE Environment
    BY <2>1, <2>3, EnvironmentKeeps
  <2>4. ASSUME NEW r \in Req, Step(r) PROVE Keep
    BY <1>1, <2>1, <2>2, <2>4, StatusChange DEF IInv
  <2>5. QED
    BY <1>1, <2>3, <2>4 DEF Next, Step
<1>2. QED
  BY <1>1, InvariantHolds, PTL DEF Spec, CompletionLostOnlyToPoll

(* A suspended team never gets a new submission. *)
THEOREM NoStartWhileSuspendedHolds == Spec => NoStartWhileSuspended
<1> DEFINE Keep == \A s \in Sub : status[s] = "absent" /\ status'[s] = "in_progress" =>
       teamStatus[Owner[s]] = "active"
<1>1. ASSUME IInv, [Next]_vars PROVE [Keep]_vars
  <2>1. CASE UNCHANGED status
    BY <2>1
  <2>2. ASSUME NEW r \in Req, NEW x \in Sub, Began(r, x)
        PROVE  Keep
    <3>1. status \in [Sub -> Status] /\ CountOK(r)
      BY <1>1 DEF IInv, TypeOK, CountInv
    <3>2. teamStatus[Owner[x]] = "active"
      BY <2>2, <3>1 DEF Began, CountOK
    <3>3. QED
      BY <2>2, <3>1, <3>2 DEF Began
  <2>3. ASSUME NEW r \in Req, NEW x \in Sub, Ended(r, x) \/ Lapsed(r, x) \/ GivenUp(r, x)
        PROVE  Keep
    <3>1. status \in [Sub -> Status]
      BY <1>1 DEF IInv, TypeOK
    <3>2. QED
      BY <2>3, <3>1 DEF Ended, Lapsed, GivenUp
  <2>4. CASE Environment
    BY <2>1, <2>4, EnvironmentKeeps
  <2>5. ASSUME NEW r \in Req, Step(r) PROVE Keep
    BY <1>1, <2>1, <2>2, <2>3, <2>5, StatusChange DEF IInv
  <2>6. QED
    BY <1>1, <2>4, <2>5 DEF Next, Step
<1>2. QED
  BY <1>1, InvariantHolds, PTL DEF Spec, NoStartWhileSuspended

(* A request that changes a status goes on to another control point. *)
LEMMA MoverMoves ==
  ASSUME TypeOK, NEW r \in Req, Step(r), req'[r] = req[r]
  PROVE  UNCHANGED status
<1>0. req \in [Req -> Request] /\ req[r] \in Request
  BY DEF TypeOK
<1>1. CASE Expire(r) \/ StartInsert(r) \/ Finalize(r) \/ Abort(r)
  BY <1>0, <1>1 DEF Expire, StartInsert, Finalize, Abort, CommitAndReturn, Idle
<1>2. CASE StartCloseStale(r)
  BY <1>0, <1>2 DEF StartCloseStale, Request
<1>3. CASE BatchComplete(r)
  BY <1>0, <1>3 DEF BatchComplete, Request
<1>4. CASE \/ AcquireTeamLock(r) \/ AcquireSubmissionLock(r) \/ StartLockTeamRow(r)
           \/ LockSubmissionRow(r) \/ LockActiveRow(r) \/ ScoreLockRow(r)
           \/ SetTeamStatus(r) \/ CheckWindow(r) \/ StartReadActive(r) \/ StartCount(r)
           \/ ReadSubmission(r) \/ BatchFail(r) \/ TaskEnds(r) \/ Score(r) \/ Teardown(r)
  BY <1>4 DEF AcquireTeamLock, AcquireSubmissionLock, StartLockTeamRow,
     LockSubmissionRow, LockActiveRow, ScoreLockRow, SetTeamStatus, CheckWindow,
     StartReadActive, StartCount, ReadSubmission, BatchFail, TaskEnds, Score, Teardown,
     subVars
<1>5. QED
  BY <1>1, <1>2, <1>3, <1>4 DEF Step, LockStep, RunStep

(* No request moves a submission of another team. *)
THEOREM OnlyOwnerMovesHolds == Spec => OnlyOwnerMoves
<1> DEFINE Keep == \A s \in Sub : status'[s] # status[s] =>
       \E r \in Req : req[r].team = Owner[s] /\ req'[r] # req[r]
<1>1. ASSUME IInv, [Next]_vars PROVE [Keep]_vars
  <2>1. CASE UNCHANGED status
    BY <2>1
  <2>2. ASSUME NEW r \in Req, NEW x \in Sub, req'[r] # req[r],
               Began(r, x) \/ Ended(r, x) \/ Lapsed(r, x) \/ GivenUp(r, x)
        PROVE  Keep
    <3>1. status \in [Sub -> Status]
      BY <1>1 DEF IInv, TypeOK
    <3>2. Owner[x] = req[r].team
      BY <2>2 DEF Began, Ended, Lapsed, GivenUp
    <3>3. \A s \in Sub : s # x => status'[s] = status[s]
      BY <2>2, <3>1 DEF Began, Ended, Lapsed, GivenUp
    <3>4. QED
      BY <2>2, <3>2, <3>3
  <2>3. CASE Environment
    BY <2>1, <2>3, EnvironmentKeeps
  <2>4. ASSUME NEW r \in Req, Step(r) PROVE Keep
    <3>1. CASE UNCHANGED status
      BY <2>1, <3>1
    <3>2. CASE ~UNCHANGED status
      BY <1>1, <2>2, <2>4, <3>2, StatusChange, MoverMoves DEF IInv
    <3>3. QED
      BY <3>1, <3>2
  <2>5. QED
    BY <1>1, <2>3, <2>4 DEF Next, Step
<1>2. QED
  BY <1>1, InvariantHolds, PTL DEF Spec, OnlyOwnerMoves

-----------------------------------------------------------------------------
(* Every step of a request is a step of the state machine, or stutters. *)
LEMMA StepImplements ==
  ASSUME IInv, NEW r \in Req, Step(r)
  PROVE  FSM!FSMNext \/ UNCHANGED <<status, scored>>
<1>0. /\ TypeOK /\ LockInv /\ ReadInv /\ CountOK(r) /\ status \in [Sub -> Status]
  BY DEF IInv, TypeOK, CountInv
<1>1. CASE UNCHANGED status
  <2>1. ASSUME NEW s \in Sub, status[s] \in Terminal, scored' = [scored EXCEPT ![s] = TRUE]
        PROVE  FSM!FSMNext
    <3>1. FSM!GiveScore(s)
      BY <1>1, <2>1 DEF FSM!GiveScore, FSM!Finished, Terminal
    <3>2. QED
      BY <3>1 DEF FSM!FSMNext
  <2>2. QED
    BY <1>0, <1>1, <2>1, ScoredChange
<1>2. ASSUME UNCHANGED scored, NEW s \in Sub, Began(r, s)
      PROVE  FSM!FSMNext
  <2>1. Active(Owner[s]) = {} /\ Cardinality(Completed(Owner[s])) < Limit
    BY <1>0, <1>2 DEF Began, CountOK
  <2>2. FSM!Running(Owner[s]) = Active(Owner[s])
    BY DEF FSM!Running, Active
  <2>3. FSM!Done(Owner[s]) = Completed(Owner[s])
    BY DEF FSM!Done, Completed
  <2>4. FSM!Cardinality(Completed(Owner[s])) = Cardinality(Completed(Owner[s]))
    BY DEF FSM!Cardinality, Cardinality
  <2>5. FSM!Begin(s)
    BY <1>2, <2>1, <2>2, <2>3, <2>4 DEF FSM!Begin, Began
  <2>6. QED
    BY <2>5 DEF FSM!FSMNext
<1>3. ASSUME UNCHANGED scored, NEW s \in Sub, NEW x \in Terminal,
             status' = [status EXCEPT ![s] = x],
             \/ status[s] = "in_progress"
             \/ x = "expired" /\ status[s] \in Terminal
             \/ x = "interrupted" /\ status[s] = "expired"
      PROVE  FSM!FSMNext \/ UNCHANGED <<status, scored>>
  <2>1. x \in FSM!Finished
    BY DEF FSM!Finished, Terminal
  <2>2. CASE status[s] = "in_progress"
    <3>1. FSM!End(s, x)
      BY <1>3, <2>2 DEF FSM!End
    <3>2. QED
      BY <2>1, <3>1 DEF FSM!FSMNext
  <2>3. CASE status[s] = x
    BY <1>0, <1>3, <2>3
  <2>4. CASE /\ status[s] \in Terminal /\ status[s] # x
             /\ \/ x = "expired"
                \/ x = "interrupted" /\ status[s] = "expired"
    <3>1. FSM!Overwrite(s, status[s], x)
      BY <1>3, <2>4 DEF FSM!Overwrite, Terminal
    <3>2. status[s] \in FSM!Finished
      BY <2>4 DEF FSM!Finished, Terminal
    <3>3. QED
      BY <2>1, <3>1, <3>2 DEF FSM!FSMNext
  <2>5. QED
    BY <1>3, <2>2, <2>3, <2>4 DEF Terminal
<1>4. ASSUME UNCHANGED scored, NEW s \in Sub,
             Ended(r, s) \/ Lapsed(r, s) \/ GivenUp(r, s)
      PROVE  FSM!FSMNext \/ UNCHANGED <<status, scored>>
  <2>1. status[s] \in Status
    BY <1>0
  <2>2. CASE Ended(r, s)
    BY <1>3, <1>4, <2>2 DEF Ended, Terminal
  <2>3. CASE Lapsed(r, s)
    <3>1. status[s] = "in_progress" \/ status[s] \in Terminal
      BY <2>1, <2>3 DEF Lapsed, Status
    <3>2. QED
      BY <1>3, <1>4, <2>3, <3>1 DEF Lapsed, Terminal
  <2>4. CASE GivenUp(r, s)
    BY <1>3, <1>4, <2>4 DEF GivenUp, Terminal
  <2>5. QED
    BY <1>4, <2>2, <2>3, <2>4
<1>5. CASE UNCHANGED scored /\ ~UNCHANGED status
  BY <1>0, <1>2, <1>4, <1>5, StatusChange
<1>6. QED
  BY <1>0, <1>1, <1>5, ScoredChange

(* The requests, locks and transactions implement the abstract machine. *)
THEOREM Implements == Spec => ImplementsFSM
<1>1. Init => FSM!FSMInit
  BY DEF Init, FSM!FSMInit
<1>2. ASSUME IInv, [Next]_vars PROVE [FSM!FSMNext]_<<status, scored>>
  <2>1. CASE UNCHANGED vars
    BY <2>1 DEF vars, subVars
  <2>2. CASE Environment
    BY <2>2, EnvironmentKeeps
  <2>3. ASSUME NEW r \in Req, Step(r) PROVE FSM!FSMNext \/ UNCHANGED <<status, scored>>
    BY <1>2, <2>3, StepImplements
  <2>4. QED
    BY <1>2, <2>1, <2>2, <2>3 DEF Next, Step
<1>3. IInv /\ [Next]_vars => [FSM!FSMNext]_(FSM!fsmVars)
  BY <1>2 DEF FSM!fsmVars
<1>4. QED
  BY <1>1, <1>3, InvariantHolds, PTL DEF Spec, ImplementsFSM, FSM!FSMSpec
=============================================================================
