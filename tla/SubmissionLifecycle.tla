------------------------- MODULE SubmissionLifecycle -------------------------
(***************************************************************************)
(* The life of a competition submission as SubmissionService,              *)
(* ScoringService and the admin routes drive it.  Every HTTP request is a  *)
(* coroutine of one event loop: it may be suspended at any await, so an    *)
(* operation is split at the awaits where another request could change     *)
(* what it has read.  Two kinds of lock protect it:                        *)
(*   mutex  the in-process asyncio locks of services/locks.py, one for     *)
(*          each team and one for each submission;                         *)
(*   row    the PostgreSQL row locks (SELECT ... FOR UPDATE, and the one   *)
(*          an UPDATE takes) of a teams or a submissions row, held until   *)
(*          the transaction of the request ends.                           *)
(* A read without FOR UPDATE takes neither and sees the committed row.     *)
(***************************************************************************)
EXTENDS Naturals, FiniteSets

CONSTANTS
  Team,       \* team ids
  Sub,        \* submission ids that can be drawn (uuid4), a bound on starts
  Req,        \* requests that can be in flight at the same time
  Owner,      \* Owner[s] is the team that draws submission id s
  Limit,      \* the setting submission_limit_per_team
  Ops,        \* the operations clients and admins call in this instance
  MayCrash,   \* whether the API process may die in this instance
  None        \* no lock holder, no team, no submission

ParticipantOps == {"start", "finalize", "batch", "abort", "task", "status"}
AdminOps       == {"score", "suspend", "activate"}
NamesSub       == {"finalize", "batch", "abort", "status", "score"}
TeamLocked     == {"start", "finalize", "batch", "abort", "task", "suspend", "activate"}

Key == Team \cup Sub

ASSUME LifecycleAssumption ==
  /\ IsFiniteSet(Sub)
  /\ Owner \in [Sub -> Team]
  /\ Limit \in Nat
  /\ MayCrash \in BOOLEAN
  /\ Ops \subseteq ParticipantOps \cup AdminOps
  /\ Team \cap Sub = {}
  /\ None \notin Team \cup Sub \cup Req

Terminal  == {"completed", "expired", "interrupted"}
Status    == {"absent", "in_progress"} \cup Terminal
Phase     == {"open", "closed"}  \* open: registration, build; closed: frozen, evaluating, results_published

PC == {"idle", "mutex", "window", "teamRow", "active", "stale", "count", "insert",
       "subRow", "activeRow", "read", "write", "expire", "subMutex", "scoreRow",
       "score", "teamWrite", "teardown"}

VARIABLES
  phase,      \* the setting competition_phase, as the settings cache gives it
  ended,      \* competition_end_at lies in the past
  teamStatus, \* teams.status
  status,     \* submissions.status; "absent" before the row is inserted
  attempt,    \* submissions.attempt_number
  aged,       \* in-progress submissions that started more than 1800 s ago
  scored,     \* submissions whose aggregate_score is set
  mutex,      \* the holder of each asyncio lock
  row,        \* the transaction that holds each row lock
  req         \* the requests: control point, arguments and what they have read

lockVars == <<mutex, row>>
subVars  == <<status, attempt, aged, scored>>
envVars  == <<phase, ended, teamStatus>>
vars     == <<envVars, subVars, lockVars, req>>

Idle == [pc |-> "idle", op |-> "none", team |-> None, sub |-> None,
         seen |-> "absent", n |-> 0]

Request == [pc : PC, op : ParticipantOps \cup AdminOps \cup {"none"},
            team : Team \cup {None}, sub : Sub \cup {None},
            seen : Status, n : Nat]

-----------------------------------------------------------------------------
Active(t)    == {s \in Sub : Owner[s] = t /\ status[s] = "in_progress"}
Completed(t) == {s \in Sub : Owner[s] = t /\ status[s] = "completed"}

(* The event window test of _check_competition_window. *)
WindowOpen == phase # "closed" /\ ~ended

Freed(f, r) == [k \in Key |-> IF f[k] = r THEN None ELSE f[k]]

Goto(r, pc) == req' = [req EXCEPT ![r].pc = pc]

(* Leaving "async with": the asyncio locks are free again.  The session is *)
(* closed, and with it the row locks of an uncommitted transaction, only   *)
(* when the dependency get_db_session is torn down.                        *)
Leave(r) == /\ mutex' = Freed(mutex, r)
            /\ Goto(r, "teardown")

(* A commit followed by leaving the handler. *)
CommitAndReturn(r) == /\ mutex' = Freed(mutex, r)
                      /\ row' = Freed(row, r)
                      /\ req' = [req EXCEPT ![r] = Idle]

Teardown(r) ==
  /\ req[r].pc = "teardown"
  /\ row' = Freed(row, r)
  /\ req' = [req EXCEPT ![r] = Idle]
  /\ UNCHANGED <<envVars, subVars, mutex>>

-----------------------------------------------------------------------------
(* A request arrives.  The middleware authenticated a participant's team   *)
(* as active in a session of its own before the handler runs.              *)
Arrive(r, op, t, s) ==
  /\ req[r] = Idle
  /\ op \in Ops
  /\ op \in ParticipantOps => teamStatus[t] = "active"
  /\ IF op \in NamesSub THEN s # None /\ status[s] # "absent" ELSE s = None
  /\ req' = [req EXCEPT ![r] = [Idle EXCEPT
       !.op = op, !.team = t, !.sub = s,
       !.pc = CASE op \in TeamLocked -> "mutex"
                [] op = "status"     -> "read"
                [] op = "score"      -> "subMutex"]]
  /\ UNCHANGED <<envVars, subVars, lockVars>>

AfterTeamLock(op) ==
  CASE op = "start"                   -> "window"
    [] op \in {"finalize", "batch"}   -> "subRow"
    [] op = "task"                    -> "activeRow"
    [] op = "abort"                   -> "read"
    [] op \in {"suspend", "activate"} -> "teamWrite"

(* Mutant: every call makes a lock of its own. *)
AcquireTeamLockMutant(r) ==
  /\ req[r].pc = "mutex"
  /\ mutex' = [mutex EXCEPT ![req[r].team] = r]
  /\ Goto(r, AfterTeamLock(req[r].op))
  /\ UNCHANGED <<envVars, subVars, row>>

AcquireTeamLock(r) ==
  /\ req[r].pc = "mutex"
  /\ mutex[req[r].team] = None
  /\ mutex' = [mutex EXCEPT ![req[r].team] = r]
  /\ Goto(r, AfterTeamLock(req[r].op))
  /\ UNCHANGED <<envVars, subVars, row>>

-----------------------------------------------------------------------------
(* _check_competition_window.  start passes no submission to it. *)
CheckWindow(r) ==
  /\ req[r].pc = "window"
  /\ \/ /\ ~WindowOpen
        /\ req[r].op # "start" /\ req[r].seen = "in_progress"
        /\ Goto(r, "expire")
        /\ UNCHANGED mutex
     \/ /\ ~WindowOpen
        /\ req[r].op = "start" \/ req[r].seen # "in_progress"
        /\ Leave(r)
     \/ /\ WindowOpen
        /\ req[r].op = "start" /\ Goto(r, "teamRow")
        /\ UNCHANGED mutex
     \/ /\ WindowOpen
        /\ req[r].op \in {"batch", "task"} /\ Goto(r, "write")
        /\ UNCHANGED mutex
     \/ /\ WindowOpen
        /\ req[r].op = "status" /\ Leave(r)
  /\ UNCHANGED <<envVars, subVars, row>>

(* submission.status = "expired" and its commit: the UPDATE waits for the  *)
(* row, then overwrites whatever status the row has by then.               *)
Expire(r) ==
  /\ req[r].pc = "expire"
  /\ row[req[r].sub] \in {None, r}
  /\ status' = [status EXCEPT ![req[r].sub] = "expired"]
  /\ aged' = [aged EXCEPT ![req[r].sub] = FALSE]
  /\ CommitAndReturn(r)
  /\ UNCHANGED <<envVars, attempt, scored>>

-----------------------------------------------------------------------------
(* start_submission, under the team lock. *)
(* Mutant: start trusts the status the middleware saw. *)
StartLockTeamRowMutant(r) ==
  /\ req[r].pc = "teamRow"
  /\ row[req[r].team] = None
  /\ row' = [row EXCEPT ![req[r].team] = r]
  /\ Goto(r, "active")
  /\ UNCHANGED <<envVars, subVars, mutex>>

StartLockTeamRow(r) ==
  /\ req[r].pc = "teamRow"
  /\ row[req[r].team] = None
  /\ row' = [row EXCEPT ![req[r].team] = r]
  /\ IF teamStatus[req[r].team] = "active"
       THEN Goto(r, "active") /\ UNCHANGED mutex
       ELSE Leave(r)
  /\ UNCHANGED <<envVars, subVars>>

(* The active submission is read without locking its row. *)
StartReadActive(r) ==
  /\ req[r].pc = "active"
  /\ \/ /\ Active(req[r].team) = {}
        /\ Goto(r, "count")
        /\ UNCHANGED mutex
     \/ \E s \in Active(req[r].team) :
          \/ aged[s] /\ req' = [req EXCEPT ![r].pc = "stale", ![r].sub = s]
                     /\ UNCHANGED mutex
          \/ ~aged[s] /\ Leave(r)
  /\ UNCHANGED <<envVars, subVars, row>>

(* Mutant: the stale run is left behind, not closed. *)
StartCloseStaleMutant(r) ==
  /\ req[r].pc = "stale"
  /\ req' = [req EXCEPT ![r].pc = "count", ![r].sub = None]
  /\ UNCHANGED <<envVars, subVars, mutex, row>>

(* The commit that closes the stale run also gives up the team row. *)
StartCloseStale(r) ==
  /\ req[r].pc = "stale"
  /\ row[req[r].sub] = None
  /\ status' = [status EXCEPT ![req[r].sub] = "interrupted"]
  /\ aged' = [aged EXCEPT ![req[r].sub] = FALSE]
  /\ row' = Freed(row, r)
  /\ req' = [req EXCEPT ![r].pc = "count", ![r].sub = None]
  /\ UNCHANGED <<envVars, attempt, scored, mutex>>

(* Mutant: the limit is tested with > for >=. *)
StartCountMutant(r) ==
  /\ req[r].pc = "count"
  /\ Cardinality(Completed(req[r].team)) <= Limit
  /\ req' = [req EXCEPT ![r].pc = "insert",
                        ![r].n = Cardinality(Completed(req[r].team))]
  /\ UNCHANGED <<envVars, subVars, mutex, row>>

(* Only completed runs count against the limit.  The last disjunct is a    *)
(* hidden pool smaller than hidden_task_count.                             *)
StartCount(r) ==
  /\ req[r].pc = "count"
  /\ \/ /\ Cardinality(Completed(req[r].team)) < Limit
        /\ \E s \in Sub : Owner[s] = req[r].team /\ status[s] = "absent"
        /\ req' = [req EXCEPT ![r].pc = "insert",
                              ![r].n = Cardinality(Completed(req[r].team))]
        /\ UNCHANGED mutex
     \/ Cardinality(Completed(req[r].team)) >= Limit /\ Leave(r)
     \/ Leave(r)
  /\ UNCHANGED <<envVars, subVars, row>>

(* The INSERT needs a share of the team row for its foreign key. *)
StartInsert(r) ==
  /\ req[r].pc = "insert"
  /\ row[req[r].team] \in {None, r}
  /\ \E s \in Sub :
       /\ Owner[s] = req[r].team /\ status[s] = "absent"
       /\ status' = [status EXCEPT ![s] = "in_progress"]
       /\ attempt' = [attempt EXCEPT ![s] = req[r].n + 1]
  /\ CommitAndReturn(r)
  /\ UNCHANGED <<envVars, aged, scored>>

-----------------------------------------------------------------------------
(* Mutants: no test of the owner, no FOR UPDATE. *)
LockSubmissionRowAnyOwner(r) ==
  LET s == req[r].sub IN
  /\ req[r].pc = "subRow" /\ row[s] = None /\ status[s] = "in_progress"
  /\ row' = [row EXCEPT ![s] = r]
  /\ req' = [req EXCEPT ![r].seen = "in_progress",
       ![r].pc = IF req[r].op = "batch" THEN "window" ELSE "write"]
  /\ UNCHANGED <<envVars, subVars, mutex>>

LockSubmissionRowUnlocked(r) ==
  LET s == req[r].sub IN
  /\ req[r].pc = "subRow" /\ Owner[s] = req[r].team /\ status[s] = "in_progress"
  /\ req' = [req EXCEPT ![r].seen = "in_progress",
       ![r].pc = IF req[r].op = "batch" THEN "window" ELSE "write"]
  /\ UNCHANGED <<envVars, subVars, mutex, row>>

(* finalize_submission and submit_batch lock the submission row by id.     *)
(* finalize does so whoever owns it, and answers 404 afterwards.           *)
LockSubmissionRow(r) ==
  LET s == req[r].sub  own == Owner[s] = req[r].team IN
  /\ req[r].pc = "subRow"
  /\ \/ /\ req[r].op = "batch" /\ ~own
        /\ Leave(r)
        /\ UNCHANGED row
     \/ /\ req[r].op = "finalize" \/ own
        /\ row[s] = None
        /\ row' = [row EXCEPT ![s] = r]
        /\ IF own /\ status[s] = "in_progress"
             THEN /\ req' = [req EXCEPT ![r].seen = "in_progress",
                       ![r].pc = IF req[r].op = "batch" THEN "window" ELSE "write"]
                  /\ UNCHANGED mutex
             ELSE Leave(r)
  /\ UNCHANGED <<envVars, subVars>>

(* start_next_task and submit_task lock the team's in-progress row. *)
LockActiveRow(r) ==
  /\ req[r].pc = "activeRow"
  /\ \/ /\ Active(req[r].team) = {}
        /\ Leave(r)
        /\ UNCHANGED row
     \/ \E s \in Active(req[r].team) :
          /\ row[s] = None
          /\ row' = [row EXCEPT ![s] = r]
          /\ req' = [req EXCEPT ![r].pc = "window", ![r].sub = s,
                                ![r].seen = "in_progress"]
          /\ UNCHANGED mutex
  /\ UNCHANGED <<envVars, subVars>>

(* Mutant: abort takes any status for one it may interrupt. *)
ReadSubmissionMutant(r) ==
  /\ req[r].pc = "read" /\ Owner[req[r].sub] = req[r].team
  /\ req' = [req EXCEPT ![r].seen = status[req[r].sub],
               ![r].pc = IF req[r].op = "status" THEN "window" ELSE "write"]
  /\ UNCHANGED <<envVars, subVars, mutex, row>>

(* abort_submission and get_submission_status read the row without a lock. *)
ReadSubmission(r) ==
  LET s == req[r].sub IN
  /\ req[r].pc = "read"
  /\ \/ /\ Owner[s] = req[r].team
        /\ req[r].op = "status" \/ status[s] = "in_progress"
        /\ req' = [req EXCEPT ![r].seen = status[s],
                     ![r].pc = IF req[r].op = "status" THEN "window" ELSE "write"]
        /\ UNCHANGED mutex
     \/ /\ Owner[s] # req[r].team \/ (req[r].op = "abort" /\ status[s] # "in_progress")
        /\ Leave(r)
  /\ UNCHANGED <<envVars, subVars, row>>

(* finalize_submission commits; it never looks at the event window. *)
Finalize(r) ==
  /\ req[r].pc = "write" /\ req[r].op = "finalize"
  /\ status' = [status EXCEPT ![req[r].sub] = "completed"]
  /\ aged' = [aged EXCEPT ![req[r].sub] = FALSE]
  /\ CommitAndReturn(r)
  /\ UNCHANGED <<envVars, attempt, scored>>

(* abort_submission: an UPDATE from the value read before. *)
Abort(r) ==
  /\ req[r].pc = "write" /\ req[r].op = "abort"
  /\ row[req[r].sub] = None
  /\ status' = [status EXCEPT ![req[r].sub] = "interrupted"]
  /\ aged' = [aged EXCEPT ![req[r].sub] = FALSE]
  /\ CommitAndReturn(r)
  /\ UNCHANGED <<envVars, attempt, scored>>

(* Mutant: one transaction for the batch and its scoring. *)
BatchCompleteMutant(r) ==
  /\ req[r].pc = "write" /\ req[r].op = "batch"
  /\ status' = [status EXCEPT ![req[r].sub] = "completed"]
  /\ aged' = [aged EXCEPT ![req[r].sub] = FALSE]
  /\ req' = [req EXCEPT ![r].pc = "subMutex", ![r].seen = "completed"]
  /\ UNCHANGED <<envVars, attempt, scored, mutex, row>>

(* submit_batch completes the submission, commits (the row lock is gone)   *)
(* and goes on to score it, still under the team lock.                     *)
BatchComplete(r) ==
  /\ req[r].pc = "write" /\ req[r].op = "batch"
  /\ status' = [status EXCEPT ![req[r].sub] = "completed"]
  /\ aged' = [aged EXCEPT ![req[r].sub] = FALSE]
  /\ row' = Freed(row, r)
  /\ req' = [req EXCEPT ![r].pc = "subMutex", ![r].seen = "completed"]
  /\ UNCHANGED <<envVars, attempt, scored, mutex>>

(* An answer for a task id unknown to the tasks table violates a foreign   *)
(* key: the batch fails before it commits.                                 *)
BatchFail(r) ==
  /\ req[r].pc = "write" /\ req[r].op = "batch"
  /\ Leave(r)
  /\ UNCHANGED <<envVars, subVars, row>>

(* start_next_task and submit_task commit what they do to assignments and  *)
(* results, or raise; the status stays.                                    *)
TaskEnds(r) ==
  /\ req[r].pc = "write" /\ req[r].op = "task"
  /\ \/ CommitAndReturn(r)
     \/ Leave(r) /\ UNCHANGED row
  /\ UNCHANGED <<envVars, subVars>>

-----------------------------------------------------------------------------
(* score_submission, called by submit_batch and by the admin route. *)
AcquireSubmissionLock(r) ==
  /\ req[r].pc = "subMutex"
  /\ mutex[req[r].sub] = None
  /\ mutex' = [mutex EXCEPT ![req[r].sub] = r]
  /\ Goto(r, "scoreRow")
  /\ UNCHANGED <<envVars, subVars, row>>

(* The session of submit_batch already holds the submission object, whose  *)
(* loaded status the new SELECT does not refresh; the admin's loads it.    *)
(* Without force a scored submission is returned as it is.                 *)
ScoreLockRow(r) ==
  LET s == req[r].sub
      loaded == IF req[r].op = "batch" THEN req[r].seen ELSE status[s] IN
  /\ req[r].pc = "scoreRow"
  /\ row[s] = None
  /\ row' = [row EXCEPT ![s] = r]
  /\ \/ loaded = "in_progress" /\ Leave(r)
     \/ loaded # "in_progress" /\ Goto(r, "score") /\ UNCHANGED mutex
     \/ loaded # "in_progress" /\ req[r].op = "score" /\ scored[s] /\ Leave(r)
  /\ UNCHANGED <<envVars, subVars>>

(* The scores are written and committed; or the evaluation raises. *)
Score(r) ==
  /\ req[r].pc = "score"
  /\ \/ /\ scored' = [scored EXCEPT ![req[r].sub] = TRUE]
        /\ CommitAndReturn(r)
     \/ Leave(r) /\ UNCHANGED <<scored, row>>
  /\ UNCHANGED <<envVars, status, attempt, aged>>

-----------------------------------------------------------------------------
(* AdminService.update_team_status under the team lock. *)
SetTeamStatus(r) ==
  /\ req[r].pc = "teamWrite"
  /\ row[req[r].team] = None
  /\ teamStatus' = [teamStatus EXCEPT ![req[r].team] =
                      IF req[r].op = "suspend" THEN "suspended" ELSE "active"]
  /\ CommitAndReturn(r)
  /\ UNCHANGED <<phase, ended, subVars>>

(* The admin moves the phase on; transitions that race each other, or a    *)
(* cache fill that comes late, move it back (SettingsCache).  He sets      *)
(* competition_end_at, and time passes it.                                 *)
MovePhase ==
  /\ phase' \in Phase \ {phase}
  /\ UNCHANGED <<ended, teamStatus, subVars, lockVars, req>>

MoveEnd ==
  /\ ended' = ~ended
  /\ UNCHANGED <<phase, teamStatus, subVars, lockVars, req>>

(* More than 1800 seconds have passed since the submission started. *)
Age(s) ==
  /\ status[s] = "in_progress" /\ ~aged[s]
  /\ aged' = [aged EXCEPT ![s] = TRUE]
  /\ UNCHANGED <<envVars, status, attempt, scored, lockVars, req>>

(* The API process dies: requests and asyncio locks are gone, and the      *)
(* database rolls every open transaction back.                             *)
Crash ==
  /\ MayCrash
  /\ \E r \in Req : req[r] # Idle
  /\ req' = [r \in Req |-> Idle]
  /\ mutex' = [k \in Key |-> None]
  /\ row' = [k \in Key |-> None]
  /\ UNCHANGED <<envVars, subVars>>

-----------------------------------------------------------------------------
Init ==
  /\ phase = "open" /\ ended = FALSE
  /\ teamStatus = [t \in Team |-> "active"]
  /\ status = [s \in Sub |-> "absent"]
  /\ attempt = [s \in Sub |-> 0]
  /\ aged = [s \in Sub |-> FALSE]
  /\ scored = [s \in Sub |-> FALSE]
  /\ mutex = [k \in Key |-> None]
  /\ row = [k \in Key |-> None]
  /\ req = [r \in Req |-> Idle]

(* The steps that wait for a lock another request may hold. *)
LockStep(r) ==
  \/ AcquireTeamLock(r) \/ AcquireSubmissionLock(r)
  \/ StartLockTeamRow(r) \/ LockSubmissionRow(r) \/ LockActiveRow(r)
  \/ ScoreLockRow(r) \/ StartCloseStale(r) \/ StartInsert(r)
  \/ Expire(r) \/ Abort(r) \/ SetTeamStatus(r)

RunStep(r) ==
  \/ CheckWindow(r) \/ StartReadActive(r) \/ StartCount(r)
  \/ ReadSubmission(r) \/ Finalize(r) \/ BatchComplete(r)
  \/ BatchFail(r) \/ TaskEnds(r) \/ Score(r) \/ Teardown(r)

Environment ==
  \/ \E r \in Req, op \in Ops, t \in Team, s \in Sub \cup {None} : Arrive(r, op, t, s)
  \/ \E s \in Sub : Age(s)
  \/ MovePhase \/ MoveEnd \/ Crash

Next == Environment \/ \E r \in Req : LockStep(r) \/ RunStep(r)

Spec == Init /\ [][Next]_vars

(* The event loop runs every ready coroutine, asyncio.Lock wakes its       *)
(* waiters in order and PostgreSQL queues the waiters of a row: a request  *)
(* that can go on again and again does.  No client has to call, and        *)
(* nothing obliges time, the admin or a crash.                             *)
Fairness == \A r \in Req : SF_vars(LockStep(r)) /\ WF_vars(RunStep(r))

FairSpec == Spec /\ Fairness

-----------------------------------------------------------------------------
TypeOK ==
  /\ phase \in Phase
  /\ ended \in BOOLEAN
  /\ teamStatus \in [Team -> {"active", "suspended"}]
  /\ status \in [Sub -> Status]
  /\ attempt \in [Sub -> Nat]
  /\ aged \in [Sub -> BOOLEAN]
  /\ scored \in [Sub -> BOOLEAN]
  /\ mutex \in [Key -> Req \cup {None}]
  /\ row \in [Key -> Req \cup {None}]
  /\ req \in [Req -> Request]

(* A team never has two submissions in progress, however its requests      *)
(* interleave: the code reads the active one with scalar_one_or_none, which*)
(* raises on two.                                                          *)
OneActive == \A s1, s2 \in Sub :
  /\ Owner[s1] = Owner[s2]
  /\ status[s1] = "in_progress" /\ status[s2] = "in_progress"
  => s1 = s2

(* No sequence of starts, finalizes, batches and stale closures gives a    *)
(* team more completed submissions than submission_limit_per_team.         *)
WithinLimit == \A t \in Team : Cardinality(Completed(t)) <= Limit

(* Only a submission that has left "in_progress" carries a score, although *)
(* submit_batch scores from an object it loaded before its commit.         *)
ScoredIsTerminal == \A s \in Sub : scored[s] => status[s] \in Terminal

(* A finished submission never becomes in progress or completed again: no  *)
(* late finalize, batch or task request revives an expired or interrupted  *)
(* run.                                                                    *)
NoRevival ==
  [][\A s \in Sub : status[s] \in Terminal =>
       status'[s] \in Terminal /\ (status'[s] = "completed" => status[s] = "completed")]_vars

(* A completed submission loses its status only to a status poll that read *)
(* it while in progress; no other handler overwrites a completion.         *)
CompletionLostOnlyToPoll ==
  [][\A s \in Sub : status[s] = "completed" /\ status'[s] # "completed" =>
       /\ status'[s] = "expired"
       /\ \E r \in Req : /\ req[r].op = "status" /\ req[r].sub = s
                         /\ req[r].seen = "in_progress"]_vars

(* A suspended team never gets a new submission, not even through a start  *)
(* request that was authenticated before the suspension.                   *)
NoStartWhileSuspended ==
  [][\A s \in Sub : status[s] = "absent" /\ status'[s] = "in_progress" =>
       teamStatus[Owner[s]] = "active"]_vars

(* Every request is answered: the two levels of in-process locks and the   *)
(* row locks are never waited for in a cycle.                              *)
RequestsAnswered == \A r \in Req : req[r].pc # "idle" ~> req[r].pc = "idle"

(* No request moves a submission of another team: finalize, batch, abort   *)
(* and the poll name a submission by id and check its owner.               *)
OnlyOwnerMoves ==
  [][\A s \in Sub : status'[s] # status[s] =>
       \E r \in Req : req[r].team = Owner[s] /\ req'[r] # req[r]]_vars

(* The requests, locks and transactions together implement the state       *)
(* machine of SubmissionFSM.                                               *)
FSM == INSTANCE SubmissionFSM WITH
  Team <- Team, Sub <- Sub, Owner <- Owner, Limit <- Limit, status <- status, scored <- scored
ImplementsFSM == FSM!FSMSpec

-----------------------------------------------------------------------------
(* The inductive invariant behind the safety properties. *)

OpsAt(pc) ==
  CASE pc = "mutex"     -> TeamLocked
    [] pc = "window"    -> {"start", "batch", "task", "status"}
    [] pc \in {"teamRow", "active", "stale", "count", "insert"} -> {"start"}
    [] pc = "subRow"    -> {"finalize", "batch"}
    [] pc = "activeRow" -> {"task"}
    [] pc = "read"      -> {"abort", "status"}
    [] pc = "write"     -> {"finalize", "batch", "abort", "task"}
    [] pc = "expire"    -> {"batch", "task", "status"}
    [] pc \in {"subMutex", "scoreRow", "score"} -> {"batch", "score"}
    [] pc = "teamWrite" -> {"suspend", "activate"}
    [] pc = "teardown"  -> TeamLocked \cup {"status", "score"}
    [] pc = "idle"      -> {"none"}

InBody(r) == req[r].pc \notin {"idle", "mutex", "teardown"}

(* A request in the body of a team-locked operation holds that team's lock. *)
LockOK(r) ==
  /\ req[r].op \in OpsAt(req[r].pc)
  /\ req[r].pc # "idle" => req[r].team \in Team
  /\ req[r].op \in TeamLocked /\ InBody(r) => mutex[req[r].team] = r

(* The requests that read the status of their submission under its row     *)
(* lock, and hold it until they write.                                     *)
ReadForUpdate(r) ==
  \/ req[r].pc = "write" /\ req[r].op \in {"finalize", "batch", "task"}
  \/ req[r].pc \in {"window", "expire"} /\ req[r].op \in {"batch", "task"}

(* The requests that interrupt a run they read without its row lock. *)
ReadUnderTeamLock(r) ==
  \/ req[r].pc = "write" /\ req[r].op = "abort"
  \/ req[r].pc = "stale"

(* What a request has read still holds when it uses it, or has only        *)
(* expired meanwhile.                                                      *)
ReadOK(r) == LET s == req[r].sub IN
  /\ req[r].op \in NamesSub => s \in Sub /\ status[s] # "absent"
  /\ ReadForUpdate(r) => /\ s \in Sub /\ Owner[s] = req[r].team
                         /\ row[s] = r /\ status[s] = "in_progress"
  /\ ReadUnderTeamLock(r) => /\ s \in Sub /\ Owner[s] = req[r].team
                             /\ status[s] \in {"in_progress", "expired"}
  /\ req[r].op = "status" /\ req[r].pc \in {"window", "expire"} => Owner[s] = req[r].team
  /\ req[r].op = "status" /\ req[r].pc = "expire" => req[r].seen = "in_progress"
  /\ req[r].op = "batch" /\ req[r].pc \in {"subMutex", "scoreRow"} =>
       status[s] \in Terminal
  /\ req[r].pc = "score" => s \in Sub /\ status[s] \in Terminal

(* What start has found - the team active, no other run in progress, room  *)
(* under the limit - is still so when it inserts.                          *)
CountOK(r) ==
  /\ req[r].pc \in {"active", "stale", "count", "insert"} =>
       teamStatus[req[r].team] = "active"
  /\ req[r].pc = "stale" => Active(req[r].team) \subseteq {req[r].sub}
  /\ req[r].pc \in {"count", "insert"} => Active(req[r].team) = {}
  /\ req[r].pc = "insert" => Cardinality(Completed(req[r].team)) < Limit

(* A team with a run in progress has room for its completion. *)
RoomInv == \A s \in Sub :
  status[s] = "in_progress" => Cardinality(Completed(Owner[s])) < Limit

LockInv  == \A r \in Req : LockOK(r)
ReadInv  == \A r \in Req : ReadOK(r)
CountInv == \A r \in Req : CountOK(r)

IInv == /\ TypeOK /\ LockInv /\ ReadInv /\ CountInv /\ RoomInv
        /\ OneActive /\ WithinLimit /\ ScoredIsTerminal

-----------------------------------------------------------------------------
(* What documents and messages of the code say. *)

(* The answer of finalize and submit_batch is final. *)
CompletedIsFinal ==
  [][\A s \in Sub : status[s] = "completed" => status'[s] = "completed"]_vars
=============================================================================
