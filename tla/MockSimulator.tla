---------------------------- MODULE MockSimulator ----------------------------
(***************************************************************************)
(* The starter kit's local stand-in for the arena, as one session of it    *)
(* sees it.  Each request runs on a thread of its own with a SQLite        *)
(* connection of its own and without locks; a step is a read or a commit.  *)
(* The legacy SupportOps tools, which the SDK does not offer, the pages of *)
(* the dashboard and dev_reset are left out.                               *)
(***************************************************************************)
EXTENDS Integers, Enumerations

CONSTANTS
  Thread,  \* the threads that serve requests
  NTasks,  \* tasks loaded from the data directory, in the order of their ids
  Reveal,  \* REVEAL_GROUND_TRUTH
  MaxSubs, MaxWorlds, MaxLogs, MaxEvals \* bounds of the exploration

ASSUME TasksAssumption == NTasks \in Nat \ {0}

VARIABLES
  subs,    \* table mock_submissions
  worlds,  \* table mock_task_assignments
  logs,    \* table mock_tool_call_logs
  evals,   \* table mock_task_evaluations: the rows of each task
  thread   \* the request each thread serves and the step it is at

tables == <<subs, worlds, logs, evals>>

Tasks == 1..NTasks
AllTasks == [t \in Tasks |-> t]

Reads == {"lookup_directory", "search_knowledge"}
Actions == {"quarantine_message", "escalate_to_tier2_soc"}

(* A request: its operation and what its path, header and body name; sub 0 *)
(* and task 0 are none.  A reply is kept while somebody waits to hear it.  *)
NoRequest == [op |-> "none", sub |-> 0, task |-> 0, tool |-> "none", cites |-> "none",
              answers |-> <<>>]
NoReply == [error |-> "none", sub |-> 0, task |-> 0]
Idle == [pc |-> "idle", req |-> NoRequest, sub |-> 0, row |-> 0, task |-> 0,
         world |-> <<>>, rejected |-> FALSE, reply |-> NoReply, heard |-> FALSE]

Exists(s) == s \in DOMAIN subs
Open == {s \in DOMAIN subs : subs[s].status = "in_progress"}
Latest(S) == CHOOSE x \in S : \A y \in S : y <= x
Rows(t) == {i \in DOMAIN worlds : t \in {0, worlds[i].task}}

At(r, pc) == thread[r].pc = pc
Goto(r, pc) == thread' = [thread EXCEPT ![r].pc = pc]
Reply(r, error, s, t) ==
  thread' = [thread EXCEPT ![r] =
    IF @.heard THEN [Idle EXCEPT !.pc = "done", !.reply = [error |-> error, sub |-> s, task |-> t]]
    ELSE Idle]
Ok(r) == Reply(r, "none", 0, 0)

Receive(r, req, heard) ==
  /\ At(r, "idle")
  /\ thread' = [thread EXCEPT ![r] = [Idle EXCEPT !.pc = req.op, !.req = req, !.heard = heard]]
  /\ UNCHANGED tables

(* A statement that waits too long for another writer's transaction raises *)
(* "database is locked", and nothing is committed.                         *)
Locked(r) ==
  /\ ~At(r, "idle") /\ ~At(r, "done")
  /\ Reply(r, "500", 0, 0)
  /\ UNCHANGED tables

-----------------------------------------------------------------------------
(* start_submission: the test for an open run and the insertion of the new *)
(* one, with a fresh world for each task, are apart.                       *)

StartCheck(r) ==
  /\ At(r, "start")
  /\ IF Open # {} THEN Reply(r, "ACTIVE_SUBMISSION_EXISTS", Latest(Open), 0)
     ELSE Goto(r, "insert")
  /\ UNCHANGED tables

FreshWorld(s, t) == [sub |-> s, task |-> t, world |-> <<>>]

StartInsert(r) ==
  LET s == Len(subs) + 1 IN
  /\ At(r, "insert") /\ Len(subs) < MaxSubs
  /\ subs' = Append(subs, [status |-> "in_progress", results |-> <<>>])
  /\ worlds' = worlds \o [t \in Tasks |-> FreshWorld(s, t)]
  /\ Reply(r, "none", s, 0)
  /\ UNCHANGED <<logs, evals>>

(* start_task: the open run, or the practice pool (0); its next task; the  *)
(* world of that task.                                                     *)

TaskFind(r) ==
  /\ At(r, "task")
  /\ thread' = [thread EXCEPT ![r].pc = "pick", ![r].sub = IF Open = {} THEN 0 ELSE Latest(Open)]
  /\ UNCHANGED tables

AssignedMutant(s) ==  \* mutant: only the practice pool's assignments count
  {worlds[i].task : i \in {j \in Rows(0) : worlds[j].sub = 0}}
Assigned(s) == {worlds[i].task : i \in {j \in Rows(0) : worlds[j].sub = s}}

TaskPick(r) ==
  LET left == Tasks \ Assigned(thread[r].sub) IN
  /\ At(r, "pick")
  /\ IF left = {} THEN Reply(r, "NO_MORE_TASKS", 0, 0)
     ELSE \E t \in left : /\ \A u \in left : t <= u
                          /\ thread' = [thread EXCEPT ![r].pc = "assign", ![r].task = t]
  /\ UNCHANGED tables

TaskAssign(r) ==
  /\ At(r, "assign") /\ Len(worlds) < MaxWorlds
  /\ worlds' = Append(worlds, FreshWorld(thread[r].sub, thread[r].task))
  /\ Reply(r, "none", 0, thread[r].task)
  /\ UNCHANGED <<subs, logs, evals>>

-----------------------------------------------------------------------------
(* The tool endpoints and submit_task look the world up alike: the latest  *)
(* of the task named or, when it has none, the session's latest.           *)

Lookup(r) ==
  LET q == thread[r].req
      named == Rows(q.task)
      found == IF named # {} THEN named ELSE Rows(0)
      row == Latest(found)
      step == IF q.op = "submit" THEN "record"
              ELSE IF q.tool \in Reads THEN "log" ELSE "decide"
  IN
  /\ At(r, "tool") \/ At(r, "submit")
  /\ IF found = {} THEN Reply(r, "NO_ACTIVE_TASK", 0, 0)
     ELSE IF q.op = "submit" /\ worlds[row].task # q.task THEN Reply(r, "TASK_ID_MISMATCH", 0, 0)
     ELSE IF q.op = "submit" /\ ~Reveal THEN Ok(r)
     ELSE thread' = [thread EXCEPT ![r].pc = step, ![r].row = row, ![r].task = worlds[row].task,
                                   ![r].sub = worlds[row].sub, ![r].world = worlds[row].world]
  /\ UNCHANGED tables

(* The id a logged response shows.  get_retrieved_evidence_ids reads the   *)
(* keys of search_knowledge and of the legacy tools, none of which a       *)
(* SentinelZero tool answers with.                                         *)
Shows(tool) ==
  CASE tool = "lookup_directory" -> "EMP"
    [] tool = "search_knowledge" -> "POL"
    [] OTHER -> "nothing"

Retrieved(t) ==
  {Shows(logs[i].tool) : i \in {j \in DOMAIN logs : logs[j].task = t /\ logs[j].tool = "search_knowledge"}}

Refused(r) ==
  LET q == thread[r].req IN
  q.tool = "escalate_to_tier2_soc" /\ q.cites \notin Retrieved(thread[r].task)

Decide(r) ==
  /\ At(r, "decide")
  /\ thread' = [thread EXCEPT ![r].pc = IF Refused(r) THEN "log" ELSE "world",
                              ![r].rejected = Refused(r)]
  /\ UNCHANGED tables

(* The world as it was read, with the action added, overwrites the row.    *)
WorldCommit(r) ==
  /\ At(r, "world") /\ Len(thread[r].world) < MaxLogs
  /\ worlds' = [worlds EXCEPT ![thread[r].row].world =
                  Append(thread[r].world, thread[r].req.tool)]
  /\ Goto(r, "log")
  /\ UNCHANGED <<subs, logs, evals>>

LogCommit(r) ==
  LET q == thread[r].req IN
  /\ At(r, "log") /\ Len(logs) < MaxLogs
  /\ logs' = Append(logs, [task |-> thread[r].task, tool |-> q.tool, cites |-> q.cites,
                           rejected |-> thread[r].rejected])
  /\ Ok(r)
  /\ UNCHANGED <<subs, worlds, evals>>

(* The evaluation and the result of the run, in one transaction.           *)
RecordMutant(r) ==  \* mutant: the results are written as they were when looked up
  LET s == thread[r].sub IN
  /\ At(r, "record") /\ \A t \in Tasks : evals[t] < MaxEvals
  /\ evals' = [evals EXCEPT ![thread[r].task] = @ + 1]
  /\ subs' = IF Exists(s) THEN [subs EXCEPT ![s].results = <<thread[r].task>>] ELSE subs
  /\ Reply(r, "none", 0, thread[r].task)
  /\ UNCHANGED <<worlds, logs>>

Record(r) ==
  LET s == thread[r].sub IN
  /\ At(r, "record") /\ \A t \in Tasks : evals[t] < MaxEvals
  /\ evals' = [evals EXCEPT ![thread[r].task] = @ + 1]
  /\ subs' = IF Exists(s) THEN [subs EXCEPT ![s].results = Append(@, thread[r].task)] ELSE subs
  /\ Reply(r, "none", 0, thread[r].task)
  /\ UNCHANGED <<worlds, logs>>

-----------------------------------------------------------------------------
(* submit_batch tests the status once and commits later; abort and         *)
(* finalize do not test it.                                                *)

BatchCheck(r) ==
  LET s == thread[r].req.sub IN
  /\ At(r, "batch")
  /\ IF s \in Open THEN Goto(r, "commit")
     ELSE Reply(r, IF Exists(s) THEN "SUBMISSION_CLOSED" ELSE "SUBMISSION_NOT_FOUND", 0, 0)
  /\ UNCHANGED tables

Places(q, t) == {i \in DOMAIN q : q[i] = t}
Known(answers) == Picked(answers, {i \in DOMAIN answers : answers[i] \in Tasks})

BatchCommitMutant(r) ==  \* mutant: the results are stored without their evaluations
  LET q == thread[r].req IN
  /\ At(r, "commit") /\ \A t \in Tasks : evals[t] < MaxEvals
  /\ subs' = IF Exists(q.sub)
             THEN [subs EXCEPT ![q.sub] = [status |-> "completed", results |-> Known(q.answers)]]
             ELSE subs
  /\ Ok(r)
  /\ UNCHANGED <<worlds, logs, evals>>

BatchCommit(r) ==
  LET q == thread[r].req IN
  /\ At(r, "commit") /\ \A t \in Tasks : evals[t] < MaxEvals
  /\ evals' = [t \in Tasks |-> evals[t] + Cardinality(Places(Known(q.answers), t))]
  /\ subs' = IF Exists(q.sub)
             THEN [subs EXCEPT ![q.sub] = [status |-> "completed", results |-> Known(q.answers)]]
             ELSE subs
  /\ Ok(r)
  /\ UNCHANGED <<worlds, logs>>

Close(r, op, status) ==
  LET s == thread[r].req.sub IN
  /\ At(r, op)
  /\ subs' = IF Exists(s) THEN [subs EXCEPT ![s].status = status] ELSE subs
  /\ IF op = "finalize" /\ ~Exists(s) THEN Reply(r, "SUBMISSION_NOT_FOUND", 0, 0) ELSE Ok(r)
  /\ UNCHANGED <<worlds, logs, evals>>

Abort(r) == Close(r, "abort", "interrupted")
Finalize(r) == Close(r, "finalize", "completed")

-----------------------------------------------------------------------------
Sub == [status : {"in_progress", "completed", "interrupted"}, results : Seq(Tasks)]
World == [sub : 0..Len(subs), task : Tasks, world : Seq(Actions)]
Log == [task : Tasks, tool : Reads \cup Actions, cites : {"none", "EMP", "POL"},
        rejected : BOOLEAN]

MockTypeOK ==
  /\ subs \in Seq(Sub) /\ worlds \in Seq(World)
  /\ logs \in Seq(Log) /\ evals \in [Tasks -> Nat]
  /\ \A r \in Thread : At(r, "idle") => thread[r] = Idle

(* A run has one world for each task, however starts of runs and starts of *)
(* tasks race: which world a tool call changes is no accident.             *)
WorldsOf(s, t) == {i \in Rows(t) : worlds[i].sub = s}
OneWorldPerTask == \A s \in DOMAIN subs, t \in Tasks : Cardinality(WorldsOf(s, t)) = 1

(* A result of a run is backed by an evaluation on the dashboard, each by  *)
(* one of its own.                                                         *)
Results(t) == UNION {{s} \X Places(subs[s].results, t) : s \in DOMAIN subs}
ResultsBacked == \A t \in Tasks : Cardinality(Results(t)) <= evals[t]

(* An escalation that cites an id shown for the task is accepted, as the   *)
(* arena does (domain/rules.py:66): refuted.                               *)
GroundedIsAccepted ==
  \A i \in DOMAIN logs :
    logs[i].tool = "escalate_to_tier2_soc" /\ logs[i].rejected =>
      \A j \in 1..(i - 1) : logs[j].task = logs[i].task => Shows(logs[j].tool) # logs[i].cites

-----------------------------------------------------------------------------
MockInit ==
  /\ subs = <<>> /\ worlds = <<>> /\ logs = <<>> /\ evals = [t \in Tasks |-> 0]
  /\ thread = [r \in Thread |-> Idle]

Serve(r) ==
  \/ StartCheck(r) \/ StartInsert(r)
  \/ TaskFind(r) \/ TaskPick(r) \/ TaskAssign(r)
  \/ Lookup(r) \/ Decide(r) \/ WorldCommit(r) \/ LogCommit(r) \/ Record(r)
  \/ BatchCheck(r) \/ BatchCommit(r) \/ Abort(r) \/ Finalize(r)
  \/ Locked(r)
=============================================================================
