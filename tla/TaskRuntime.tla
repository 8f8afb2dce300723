---------------------------- MODULE TaskRuntime ----------------------------
(***************************************************************************)
(* What one team does inside its runs: tasks are assigned, tools called,   *)
(* tasks answered one by one or as a batch, and the run is scored.         *)
(*                                                                         *)
(* A task has a canonical name <<0, t>> and, in the plan of run s, an      *)
(* ephemeral one <<s, t>>; handlers accept both and file assignments and   *)
(* results under different ones, so names are part of the state.           *)
(*                                                                         *)
(* Every handler that writes holds the team's lock, and the row lock of    *)
(* the submission, until its commit: it is one action, except where it     *)
(* commits or awaits halfway.  A tool call checks the limits in one step   *)
(* and commits its log in another; a batch commits, then scores.           *)
(* SubmissionLifecycle models the locks and transactions themselves.       *)
(***************************************************************************)
EXTENDS Enumerations

CONSTANTS
  NSubs,       \* runs the team can start, a bound
  NTasks,      \* size of the hidden task pool
  HiddenCount, \* the setting hidden_task_count
  Budget,      \* the setting tool_call_budget_per_task; 0 turns the check off
  RateLimit,   \* the setting rate_limit_tool_calls_per_min; 0 turns it off
  MaxAnswers,  \* answers in a batch, a bound
  Req,         \* tool calls and batches that can be in flight
  Timed,       \* whether time budgets run out in this instance
  None         \* no lock holder

ASSUME RuntimeAssumption ==
  /\ NSubs \in Nat \ {0} /\ NTasks \in Nat \ {0}
  /\ HiddenCount \in 1..NTasks
  /\ Budget \in Nat /\ RateLimit \in Nat /\ MaxAnswers \in Nat
  /\ Timed \in BOOLEAN
  /\ None \notin Req

Sub   == 1..NSubs
Task  == 1..NTasks
Name  == (0..NSubs) \X Task
NoName == <<0, 0>>

Canonical(n) == <<0, n[2]>>

(* The names that the task plan of run s knows. *)
Planned(s) == {n \in Name : n[1] \in {0, s} /\ n[2] <= HiddenCount}

Ending     == {"completed", "expired", "interrupted"}
Assignment == [name : Name, late : BOOLEAN]
Result     == [name : Name, alias : Name \cup {NoName},
               status : {"completed", "timed_out", "unstarted"}]

VARIABLES
  open,     \* the phase and the end time let submissions through
  status,   \* submissions.status; "absent" before the row is inserted
  assigned, \* task_assignments of each run, by id
  results,  \* submissions.per_task_results
  judged,   \* tasks the last scoring evaluated, not sealed at zero
  scored,   \* whether aggregate_score is set
  calls,    \* tool_call_logs of the team per task, over all its runs
  recent,   \* the team's tool_call_logs of the last minute
  holder,   \* the request that holds the team's lock
  call      \* the requests suspended halfway

runVars == <<status, assigned, results>>
logVars == <<calls, recent>>
vars    == <<open, runVars, judged, scored, logVars, holder, call>>

NoCall == [pc |-> "idle", sub |-> 1, name |-> NoName, fresh |-> FALSE, answers |-> <<>>]
Call   == [pc : {"idle", "execute", "score"}, sub : Sub, name : Name \cup {NoName},
           fresh : BOOLEAN, answers : Seq(Result)]

-----------------------------------------------------------------------------
RunningMutant == {s \in Sub : status[s] \in {"in_progress", "interrupted"}}
Running == {s \in Sub : status[s] = "in_progress"}

TeamLockFreeMutant == TRUE
TeamLockFree == holder = None

Matches(a, n) == a.name = n \/ Canonical(a.name) = n

(* SELECT ... ORDER BY id DESC LIMIT 1: the latest assignment, the latest  *)
(* that answers to a name.                                                 *)
Latest(s) == {i \in DOMAIN assigned[s] : i = Len(assigned[s])}
Named(s, n) == {i \in DOMAIN assigned[s] : Matches(assigned[s][i], n)}
LatestNamed(s, n) == {i \in Named(s, n) : \A j \in Named(s, n) : j <= i}

(* The names results are filed under, and whether an assignment has none. *)
Filed(s) == {results[s][i].name : i \in DOMAIN results[s]}
              \cup {results[s][i].alias : i \in DOMAIN results[s]}
Unsubmitted(s, a) == {a.name, Canonical(a.name)} \cap Filed(s) = {}

(* What a tool call without X-Task-ID finds.  The SELECT excludes names    *)
(* with NOT IN, and a timeout filed by a tool call puts a NULL into the    *)
(* list, so that no row qualifies any more.                                *)
FirstUnsubmitted(s) == {i \in DOMAIN assigned[s] :
  /\ NoName \notin Filed(s)
  /\ Unsubmitted(s, assigned[s][i])
  /\ \A j \in 1..(i - 1) : ~Unsubmitted(s, assigned[s][j])}

AssignedTasks(s) == {assigned[s][i].name[2] : i \in DOMAIN assigned[s]}

TimedOut(n, alias) == [name |-> n, alias |-> alias, status |-> "timed_out"]
Completed(n, alias) == [name |-> n, alias |-> alias, status |-> "completed"]

(* The results with the timeout of the latest task, if it is still open. *)
LatestOpen(s) == \E i \in Latest(s) : Unsubmitted(s, assigned[s][i])
ResultsWithTimeoutMutant(s) == LET a == assigned[s][Len(assigned[s])] IN
  IF LatestOpen(s) THEN <<TimedOut(Canonical(a.name), a.name)>> ELSE results[s]
ResultsWithTimeout(s) == LET a == assigned[s][Len(assigned[s])] IN
  IF LatestOpen(s) THEN Append(results[s], TimedOut(Canonical(a.name), a.name))
                   ELSE results[s]

File(s, r)    == results' = [results EXCEPT ![s] = Append(@, r)]
Assign(s, n)  == assigned' = [assigned EXCEPT ![s] = Append(@, [name |-> n, late |-> FALSE])]
Move(s, to) == status' = [status EXCEPT ![s] = to]

-----------------------------------------------------------------------------
Init ==
  /\ open = TRUE
  /\ status = [s \in Sub |-> "absent"]
  /\ assigned = [s \in Sub |-> <<>>]
  /\ results = [s \in Sub |-> <<>>]
  /\ judged = [s \in Sub |-> {}]
  /\ scored = [s \in Sub |-> FALSE]
  /\ calls = [t \in Task |-> 0]
  /\ recent = 0
  /\ holder = None
  /\ call = [r \in Req |-> NoCall]

-----------------------------------------------------------------------------
(* Time, administrators, crashes. *)

(* An assignment outlives time_budget_per_task_seconds. *)
BudgetRunsOut(s, i) ==
  /\ Timed
  /\ s \in Running /\ ~assigned[s][i].late
  /\ assigned' = [assigned EXCEPT ![s][i].late = TRUE]
  /\ UNCHANGED <<open, status, results, judged, scored, logVars, holder, call>>

(* The administrator raises the time budget: late assignments are in time. *)
RaiseTimeBudget ==
  /\ \E s \in Running : \E i \in DOMAIN assigned[s] : assigned[s][i].late
  /\ assigned' = [s \in Sub |-> IF s \in Running
       THEN [i \in DOMAIN assigned[s] |-> [assigned[s][i] EXCEPT !.late = FALSE]]
       ELSE assigned[s]]
  /\ UNCHANGED <<open, status, results, judged, scored, logVars, holder, call>>

(* The freeze, the end time, or an administrator taking either back. *)
MoveWindow == /\ open' = ~open
              /\ UNCHANGED <<runVars, judged, scored, logVars, holder, call>>

(* The oldest log of the rate limiter's minute falls out of it. *)
MinutePasses == /\ recent > 0
                /\ recent' = recent - 1
                /\ UNCHANGED <<open, runVars, judged, scored, calls, holder, call>>

(* A suspended request ends without its commit: the process dies, or an    *)
(* exception rolls the transaction back.                                   *)
Abandon(r) == /\ call[r].pc # "idle"
              /\ call' = [call EXCEPT ![r] = NoCall]
              /\ holder' = None
              /\ UNCHANGED <<open, runVars, judged, scored, logVars>>

-----------------------------------------------------------------------------
(* Handlers that run from lock to commit in one step. *)

(* start_submission commits first what closes a run older than 1800 s, and *)
(* inserts the new one in a second transaction under the same lock; a      *)
(* younger run in progress is refused.                                     *)
CloseStale(s) ==
  /\ TeamLockFree /\ open /\ s \in Running
  /\ Move(s, "interrupted")
  /\ UNCHANGED <<open, assigned, results, judged, scored, logVars, holder, call>>

StartSubmission(s) ==
  /\ TeamLockFree /\ open /\ Running = {}
  /\ status[s] = "absent" /\ \A p \in 1..(s - 1) : status[p] # "absent"
  /\ Move(s, "in_progress")
  /\ UNCHANGED <<open, assigned, results, judged, scored, logVars, holder, call>>

(* _check_competition_window of any handler, and of the status poll, on a  *)
(* run in progress: the refusal commits the expiry.                        *)
Expire(s) ==
  /\ TeamLockFree /\ ~open /\ s \in Running
  /\ Move(s, "expired")
  /\ UNCHANGED <<open, assigned, results, judged, scored, logVars, holder, call>>

(* start_next_task.  The timeout of the previous task is filed in the      *)
(* transaction that assigns the next one: when there is none left to       *)
(* assign the handler raises, and the timeout is not filed either.         *)
StartNextTask(s) ==
  /\ TeamLockFree /\ open /\ s \in Running
  /\ LatestOpen(s) => assigned[s][Len(assigned[s])].late
  /\ Len(assigned[s]) < HiddenCount
  /\ \E t \in Task \ AssignedTasks(s) :
       /\ \A u \in Task \ AssignedTasks(s) : t <= u
       /\ Assign(s, <<0, t>>)
  /\ results' = [results EXCEPT ![s] = ResultsWithTimeout(s)]
  /\ UNCHANGED <<open, status, judged, scored, logVars, holder, call>>

(* submit_task: the result is filed under the name the client used, and a  *)
(* duplicate is recognised by that name or by the canonical one.           *)
SubmitTask(s, n) ==
  /\ TeamLockFree /\ open /\ s \in Running
  /\ \E i \in LatestNamed(s, n) : LET a == assigned[s][i] IN
       /\ \A k \in DOMAIN results[s] :
            /\ results[s][k].name \notin {n, Canonical(a.name)}
            /\ results[s][k].alias # n
       /\ File(s, IF a.late THEN TimedOut(n, a.name) ELSE Completed(n, a.name))
  /\ UNCHANGED <<open, status, assigned, judged, scored, logVars, holder, call>>

(* finalize_submission: the task still open is filed as timed out, in time *)
(* or not.  Neither the window nor the score is looked at.                 *)
Finalize(s) ==
  /\ TeamLockFree /\ s \in Running
  /\ Move(s, "completed")
  /\ results' = [results EXCEPT ![s] = ResultsWithTimeout(s)]
  /\ UNCHANGED <<open, assigned, judged, scored, logVars, holder, call>>

Abort(s) == /\ TeamLockFree /\ s \in Running
            /\ Move(s, "interrupted")
            /\ UNCHANGED <<open, assigned, results, judged, scored, logVars, holder, call>>

-----------------------------------------------------------------------------
(* submit_batch. *)

(* The answers a batch creates assignments for: those of names that no     *)
(* assignment, old or of an earlier answer, answers to.                    *)
Fresh(s, names) == {k \in DOMAIN names :
  /\ Named(s, names[k]) = {}
  /\ \A j \in 1..(k - 1) : ~Matches([name |-> names[j]], names[k])}

(* A name the foreign key lets a batch answer: of the plan, or canonical.  *)
Answerable(s) == {n \in Name : n[1] = 0} \cup Planned(s)

(* All recorded results are replaced by the answers, each "completed"      *)
(* whatever the time budget.                                               *)
SubmitBatch(r, s, names) ==
  LET answers == [k \in DOMAIN names |-> Completed(Canonical(names[k]), names[k])] IN
  /\ TeamLockFree /\ call[r].pc = "idle" /\ open /\ s \in Running
  /\ \A k \in DOMAIN names : names[k] \in Answerable(s)
  /\ \E q \in Ordered(Fresh(s, names)) : assigned' = [assigned EXCEPT ![s] =
       @ \o [k \in DOMAIN q |-> [name |-> names[q[k]], late |-> FALSE]]]
  /\ results' = [results EXCEPT ![s] = answers]
  /\ Move(s, "completed")
  /\ holder' = r
  /\ call' = [call EXCEPT ![r] =
       [pc |-> "score", sub |-> s, name |-> NoName, fresh |-> FALSE, answers |-> answers]]
  /\ UNCHANGED <<open, judged, scored, logVars>>

-----------------------------------------------------------------------------
(* score_submission of run s from the results res its session has loaded. *)

(* The tasks in the denominator: the assigned ones, those with results,    *)
(* and unstarted ones of the pool up to hidden_task_count.                 *)
Touched(s, res) == AssignedTasks(s) \cup {t \in Task : \E i \in DOMAIN res : res[i].name = <<0, t>>}
Denominator(s, res) == LET known == Touched(s, res) IN {t \in Task :
  t \in known \/ Cardinality({u \in Task : u \in known \/ u < t}) < HiddenCount}

(* The last result filed under the canonical name of the task. *)
RecordsOf(res, t) == {i \in DOMAIN res :
  /\ res[i].name = <<0, t>>
  /\ \A j \in DOMAIN res : j > i => res[j].name # <<0, t>>}
Unstarted(t) == [name |-> <<0, t>>, alias |-> NoName, status |-> "unstarted"]

(* evaluate_task seals a task at zero when it has no record or timed out;  *)
(* any other record is evaluated, an "unstarted" one of an earlier scoring *)
(* as an empty answer.                                                     *)
JudgedMutant(s, res) == {t \in Denominator(s, res) : RecordsOf(res, t) # {}}
Judged(s, res) == {t \in Denominator(s, res) :
  \E i \in RecordsOf(res, t) : res[i].status # "timed_out"}

(* The records a scoring writes back replace per_task_results: a result    *)
(* under an ephemeral name is not among them.                              *)
RecordFor(res, t) == IF RecordsOf(res, t) = {} THEN Unstarted(t)
                     ELSE res[CHOOSE i \in RecordsOf(res, t) : TRUE]

Score(s, res) ==
  /\ judged' = [judged EXCEPT ![s] = Judged(s, res)]
  /\ \E q \in Ordered(Denominator(s, res)) :
       results' = [results EXCEPT ![s] = [k \in DOMAIN q |-> RecordFor(res, q[k])]]
  /\ scored' = [scored EXCEPT ![s] = TRUE]

(* The administrator scores a finished run, or scores it again by force. *)
AdminScore(s) ==
  /\ status[s] \in Ending
  /\ Score(s, results[s])
  /\ UNCHANGED <<open, status, assigned, logVars, holder, call>>

(* The batch scores the answers its session still holds, even if the       *)
(* administrator has scored the run since the commit.                      *)
BatchScore(r) ==
  /\ call[r].pc = "score"
  /\ Score(call[r].sub, call[r].answers)
  /\ holder' = None
  /\ call' = [call EXCEPT ![r] = NoCall]
  /\ UNCHANGED <<open, status, assigned, logVars>>

-----------------------------------------------------------------------------
(* run_tool. *)

(* check_limits counts the logs of the team on the task, whatever the run, *)
(* and those of the last minute.                                           *)
WithinLimitsMutant(t) == /\ Budget > 0 => calls[t] <= Budget
                         /\ RateLimit > 0 => recent < RateLimit
WithinLimits(t) == /\ Budget > 0 => calls[t] < Budget
                   /\ RateLimit > 0 => recent < RateLimit

(* get_active_assignment reads results under the canonical name only. *)
AnsweredMutant(s, n) == \E k \in DOMAIN results[s] : results[s][k].alias = n
Answered(s, n) == \E k \in DOMAIN results[s] : results[s][k].name = Canonical(n)

(* The call resolves its assignment, n being NoName when the client names  *)
(* none, and passes the limits.  It does not look at the window.           *)
ToolCheck(r, s, n) ==
  /\ TeamLockFree /\ call[r].pc = "idle" /\ s \in Running
  /\ \E i \in IF n = NoName THEN FirstUnsubmitted(s) ELSE LatestNamed(s, n) :
       LET a == assigned[s][i] IN
       /\ ~Answered(s, a.name) /\ ~a.late /\ WithinLimits(a.name[2])
       /\ call' = [call EXCEPT ![r] =
            [NoCall EXCEPT !.pc = "execute", !.sub = s, !.name = a.name]]
  /\ holder' = r
  /\ UNCHANGED <<open, runVars, judged, scored, logVars>>

(* A planned name nothing is assigned to yet gets an assignment, in the    *)
(* transaction of the call.                                                *)
ToolAssign(r, s, n) ==
  /\ TeamLockFree /\ call[r].pc = "idle" /\ s \in Running
  /\ n \in Planned(s) /\ Named(s, n) = {}
  /\ ~Answered(s, n) /\ WithinLimits(n[2])
  /\ call' = [call EXCEPT ![r] =
       [NoCall EXCEPT !.pc = "execute", !.sub = s, !.name = n, !.fresh = TRUE]]
  /\ holder' = r
  /\ UNCHANGED <<open, runVars, judged, scored, logVars>>

(* A call on a late assignment files the timeout and fails. *)
ToolTooLate(s, n) ==
  /\ TeamLockFree /\ s \in Running
  /\ \E i \in IF n = NoName THEN FirstUnsubmitted(s) ELSE LatestNamed(s, n) :
       LET a == assigned[s][i] IN
       /\ a.late /\ ~Answered(s, a.name)
       /\ File(s, TimedOut(Canonical(a.name), NoName))
  /\ UNCHANGED <<open, status, assigned, judged, scored, logVars, holder, call>>

(* The tool runs; its effect on the world, its log and the new assignment  *)
(* are committed together, also when the rules rejected the action.        *)
ToolCommit(r) == LET c == call[r] IN
  /\ c.pc = "execute"
  /\ IF c.fresh THEN Assign(c.sub, c.name) ELSE UNCHANGED assigned
  /\ calls' = [calls EXCEPT ![c.name[2]] = @ + 1]
  /\ recent' = recent + 1
  /\ holder' = None
  /\ call' = [call EXCEPT ![r] = NoCall]
  /\ UNCHANGED <<open, status, results, judged, scored>>

-----------------------------------------------------------------------------
Answers == UNION {[1..k -> Name] : k \in 0..MaxAnswers}

Environment ==
  \/ \E s \in Sub : \E i \in DOMAIN assigned[s] : BudgetRunsOut(s, i)
  \/ RaiseTimeBudget \/ MoveWindow \/ MinutePasses
  \/ \E r \in Req : Abandon(r)

Runs == \E s \in Sub :
  \/ CloseStale(s) \/ StartSubmission(s) \/ Expire(s) \/ Finalize(s) \/ Abort(s) \/ AdminScore(s)
  \/ StartNextTask(s) \/ \E n \in Name : SubmitTask(s, n)
  \/ \E r \in Req, names \in Answers : SubmitBatch(r, s, names)

Tools == \E s \in Sub, n \in Name \cup {NoName} :
  \/ ToolTooLate(s, n)
  \/ \E r \in Req : ToolCheck(r, s, n) \/ ToolAssign(r, s, n)

Next == Environment \/ Runs \/ Tools \/ \E r \in Req : BatchScore(r) \/ ToolCommit(r)

Spec == Init /\ [][Next]_vars

-----------------------------------------------------------------------------
TypeOK ==
  /\ open \in BOOLEAN
  /\ status \in [Sub -> {"absent", "in_progress"} \cup Ending]
  /\ assigned \in [Sub -> Seq(Assignment)]
  /\ results \in [Sub -> Seq(Result)]
  /\ judged \in [Sub -> SUBSET Task]
  /\ scored \in [Sub -> BOOLEAN]
  /\ calls \in [Task -> Nat]
  /\ recent \in Nat
  /\ holder \in Req \cup {None}
  /\ call \in [Req -> Call]

(* However tool calls of the team overlap, and over all its runs, no task  *)
(* gets more calls than tool_call_budget_per_task: the limiter counts logs *)
(* that other calls have yet to write.                                     *)
BudgetHeld == Budget > 0 => \A t \in Task : calls[t] <= Budget

(* No minute sees more of the team's calls than the rate limit. *)
RateHeld == RateLimit > 0 => recent <= RateLimit

(* A run never has two assignments under one name, so two worlds for one   *)
(* task: table and model know no unique constraint on them.                *)
DistinctNames == \A s \in Sub : \A i, j \in DOMAIN assigned[s] :
  assigned[s][i].name = assigned[s][j].name => i = j

(* A tool call that was let through still is when it commits: no answer,   *)
(* timeout or end of the run slips in between.                             *)
CallStillAllowed == \A r \in Req : call[r].pc = "execute" =>
  /\ call[r].sub \in Running
  /\ ~Answered(call[r].sub, call[r].name)
  /\ WithinLimits(call[r].name[2])

(* Clients that use only canonical names for a task, as start_next_task    *)
(* hands them out, get at most one result for it while the run is on.      *)
CanonicalOnly(s, t) ==
  /\ \A i \in DOMAIN assigned[s] : assigned[s][i].name[2] = t => assigned[s][i].name[1] = 0
  /\ \A k \in DOMAIN results[s] : results[s][k].name[2] = t => results[s][k].name[1] = 0
OneResultPerTask == \A s \in Running, t \in Task : CanonicalOnly(s, t) =>
  Cardinality({k \in DOMAIN results[s] : results[s][k].name[2] = t}) <= 1

(* A result outlives everything but a batch, which replaces all results,   *)
(* and, filed under an ephemeral name, a scoring.                          *)
BatchStep(s) == \E r \in Req : /\ call[r].pc = "idle"
                                /\ call'[r].pc = "score" /\ call'[r].sub = s
ResultKept == [][\A s \in Sub : \A k \in DOMAIN results[s] :
  \/ \E j \in DOMAIN results'[s] : /\ results'[s][j].name = results[s][k].name
                                    /\ results'[s][j].status = results[s][k].status
  \/ BatchStep(s)
  \/ results[s][k].name[1] # 0 /\ scored'[s]]_vars

(* The first scoring of a run evaluates exactly the tasks it answered under*)
(* their canonical name; the others are sealed at zero.                    *)
CompletedTasks(s) == {t \in Task : \E k \in DOMAIN results[s] :
  results[s][k].name = <<0, t>> /\ results[s][k].status = "completed"}
FirstScoreSeals == [][\A s \in Sub :
  ~scored[s] /\ scored'[s] => judged'[s] = CompletedTasks(s)]_vars

(* The runs of the team go through the state machine of SubmissionFSM; the *)
(* limit of runs plays no part here.                                       *)
FSM == INSTANCE SubmissionFSM WITH
  Team <- {"team"}, Sub <- Sub, Owner <- [s \in Sub |-> "team"], Limit <- NSubs,
  status <- status, scored <- scored
ImplementsFSM == FSM!FSMSpec

-----------------------------------------------------------------------------
(* The inductive invariant behind the safety properties. *)

LockInv == \A r \in Req : call[r].pc # "idle" => holder = r

(* A call that will create an assignment still finds none to use. *)
FreshInv == \A r \in Req : call[r].pc = "execute" =>
  /\ call[r].name \in Name
  /\ call[r].fresh => Named(call[r].sub, call[r].name) = {}

(* A batch that has yet to be scored has ended its run. *)
BatchInv == \A r \in Req : call[r].pc = "score" => status[call[r].sub] \in Ending

CallInv == /\ TypeOK /\ LockInv /\ FreshInv /\ BatchInv /\ CallStillAllowed
           /\ BudgetHeld /\ RateHeld /\ DistinctNames

(* Results filed under one name agree, a run in progress has at most one   *)
(* under each name, one that has not started has none, and only a scoring  *)
(* files tasks as unstarted.                                               *)
AgreeInv == \A s \in Sub :
  /\ status[s] = "in_progress" => \A i, j \in DOMAIN results[s] :
       results[s][i].name = results[s][j].name => i = j
  /\ \A i, j \in DOMAIN results[s] :
       results[s][i].name = results[s][j].name => results[s][i].status = results[s][j].status
  /\ status[s] = "absent" => results[s] = <<>>
  /\ ~scored[s] => \A k \in DOMAIN results[s] : results[s][k].status # "unstarted"

(* While a batch waits for its scoring the results of its run are its      *)
(* answers or, when the administrator was faster, what those are scored to.*)
NamesIn(res) == {res[i].name : i \in DOMAIN res}
Awaits(s, answers) ==
  /\ \A i \in DOMAIN answers : answers[i].status = "completed"
  /\ ~scored[s] => results[s] = answers
  /\ NamesIn(answers) \subseteq NamesIn(results[s])
  /\ NamesIn(results[s]) \subseteq {<<0, t>> : t \in Denominator(s, answers)}
  /\ \A k \in DOMAIN results[s] : results[s][k].status =
       IF results[s][k].name \in NamesIn(answers) THEN "completed" ELSE "unstarted"
PendingInv == \A r \in Req : call[r].pc = "score" => Awaits(call[r].sub, call[r].answers)

IInv == CallInv /\ AgreeInv /\ PendingInv

-----------------------------------------------------------------------------
(* What a message of the code says. *)

(* After a timeout "Start the next task to continue": a tool call finds    *)
(* the task that was started and is still in time.                         *)
NextTaskContinues == \A s \in Running :
  \A i \in Latest(s) : Unsubmitted(s, assigned[s][i]) => FirstUnsubmitted(s) # {}
=============================================================================
