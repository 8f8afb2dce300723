--------------------------- MODULE ParticipantRun ---------------------------
(***************************************************************************)
(* The participant's program main.py, in both modes, against the simulator *)
(* it is developed with.  A call may fail on the way or time out: the      *)
(* client then sees a TransportError while the thread that serves the      *)
(* request, if one does, goes on.  A second client of the same token may   *)
(* send requests meanwhile.                                                *)
(***************************************************************************)
EXTENDS MockSimulator

CONSTANTS
  Others,    \* the requests of the second client beside main.py
  Free,      \* its requests when main.py is not used
  NoThread

(* A request of the second client.  Its batch names the run, a submission  *)
(* and a tool call a task.                                                 *)
Request == {q \in [op : {"start", "task", "tool", "submit", "batch", "abort", "finalize"},
                   sub : Nat, task : Nat, tool : Reads \cup Actions \cup {"none"},
                   cites : {"none", "EMP", "POL"}, answers : Seq(Nat)] :
             q.op = "tool" => q.tool # "none"}
ASSUME ClientAssumption == Others \cup Free \subseteq Request /\ NoThread \notin Thread

VARIABLE
  main \* main.py: its step, mode, run, tasks and answers, and the thread it waits for

vars == <<subs, worlds, logs, evals, thread, main>>

NotRunning == [pc |-> "idle", mode |-> "practice", sub |-> 0, listed |-> FALSE, todo |-> <<>>,
               task |-> 0, answers |-> <<>>, wait |-> NoThread]

NotUsed == [NotRunning EXCEPT !.pc = "unused"]

Calls == {"start", "clear", "restart", "fetch", "submit", "batch", "abort", "giveup"}

(* What main.py asks for at a step.  The finalize of the task-by-task loop *)
(* is for a start that delivers no tasks, which an arena with tasks never  *)
(* answers.                                                                *)
Wanted ==
  CASE main.pc \in {"start", "restart"} -> [NoRequest EXCEPT !.op = "start"]
    [] main.pc = "fetch" -> [NoRequest EXCEPT !.op = "task"]
    [] main.pc = "submit" -> [NoRequest EXCEPT !.op = "submit", !.task = main.task]
    [] main.pc = "batch" ->
         [NoRequest EXCEPT !.op = "batch", !.sub = main.sub, !.answers = main.answers]
    [] OTHER -> [NoRequest EXCEPT !.op = "abort", !.sub = main.sub]

Ask ==
  /\ main.pc \in Calls /\ main.wait = NoThread
  /\ \E r \in Thread : Receive(r, Wanted, TRUE) /\ main' = [main EXCEPT !.wait = r]

(* The call of a step ends: with the reply, or without one whether or not  *)
(* the request arrived.                                                    *)
Answer == thread[main.wait].reply
Returned(pc) ==
  /\ main.pc = pc /\ main.wait # NoThread /\ At(main.wait, "done")
  /\ thread' = [thread EXCEPT ![main.wait] = Idle]
  /\ UNCHANGED tables
Returns(pc, error) == Returned(pc) /\ Answer.error = error
Raises(pc) == Returned(pc) /\ Answer.error # "none"
GivenUp ==
  /\ thread' = [r \in Thread |-> IF r # main.wait THEN thread[r]
                                 ELSE IF At(r, "done") THEN Idle
                                 ELSE [thread[r] EXCEPT !.heard = FALSE]]
  /\ UNCHANGED tables
Lost(pc) == main.pc = pc /\ GivenUp

Step(pc) == main' = [main EXCEPT !.pc = pc, !.wait = NoThread]
Stop == main' = NotRunning

-----------------------------------------------------------------------------
Launch(mode) ==
  /\ main.pc = "idle" /\ Len(subs) < MaxSubs
  /\ main' = [NotRunning EXCEPT !.pc = "start", !.mode = mode]
  /\ UNCHANGED <<tables, thread>>

Work(s) == main' = [main EXCEPT !.pc = "next", !.wait = NoThread, !.sub = s,
                                !.listed = TRUE, !.todo = AllTasks]

(* The run starts; an old one is aborted, whatever comes of it, and the    *)
(* start retried; on another refusal the tasks are fetched one by one.     *)
Started ==
  \/ Returns("start", "none") /\ Work(Answer.sub)
  \/ /\ Returns("start", "ACTIVE_SUBMISSION_EXISTS")
     /\ main' = [main EXCEPT !.pc = "clear", !.wait = NoThread, !.sub = Answer.sub]
  \/ Returns("start", "500") /\ Step("next")
  \/ Lost("start") /\ Stop

Cleared == (Returned("clear") \/ Lost("clear")) /\ Step("restart")

RestartedMutant ==  \* mutant: a refused start is retried for ever
  \/ Returns("restart", "none") /\ Work(Answer.sub)
  \/ Raises("restart") /\ Step("clear")
  \/ Lost("restart") /\ Stop

Restarted ==
  \/ Returns("restart", "none") /\ Work(Answer.sub)
  \/ (Raises("restart") \/ Lost("restart")) /\ Stop

Batching == main.mode = "submission" /\ main.listed

NextTask ==
  /\ main.pc = "next"
  /\ \/ main.todo # <<>> /\ main' = [main EXCEPT !.pc = "solve", !.task = Head(main.todo),
                                                 !.todo = Tail(main.todo)]
     \/ main.todo = <<>> /\ Batching /\ Step("batch")
     \/ main.todo = <<>> /\ main.listed /\ ~Batching /\ Stop
     \/ ~main.listed /\ Step("fetch")
     \/ main.mode = "practice" /\ main.task # 0 /\ Stop  \* --once, --max-tasks
  /\ UNCHANGED <<tables, thread>>

Fetched ==
  \/ /\ Returns("fetch", "none")
     /\ main' = [main EXCEPT !.pc = "solve", !.wait = NoThread, !.task = Answer.task]
  \/ (Raises("fetch") \/ Lost("fetch")) /\ Stop

(* agent.solve ends with an answer or an exception.  Its tool calls, whose *)
(* errors it may catch, are those of the second client: they change worlds *)
(* and logs, which no other request of main.py reads.                      *)
Solved ==
  /\ main.pc = "solve"
  /\ \/ Batching /\ main' = [main EXCEPT !.pc = "next", !.answers = Append(@, main.task), !.task = 0]
     \/ ~Batching /\ Step("submit")
  /\ UNCHANGED <<tables, thread>>

SolveRaisesMutant ==  \* mutant: a task whose agent raises is left out
  /\ main.pc = "solve"
  /\ IF Batching THEN Step("next") ELSE Stop
  /\ UNCHANGED <<tables, thread>>

SolveRaises ==
  /\ main.pc = "solve"
  /\ \/ Batching /\ Step("abort")
     \/ Batching /\ Step("giveup")  \* NotImplementedError
     \/ ~Batching /\ Stop
  /\ UNCHANGED <<tables, thread>>

Submitted ==
  \/ Returns("submit", "none") /\ Step("next")
  \/ (Raises("submit") \/ Lost("submit")) /\ Stop

Batched ==
  \/ Returns("batch", "none") /\ Stop
  \/ (Raises("batch") \/ Lost("batch")) /\ Step("abort")

(* The program ends, the run aborted or not.                               *)
Aborted == \E pc \in {"abort", "giveup"} : (Returned(pc) \/ Lost(pc)) /\ Stop

(* Interrupted from the keyboard: nothing is aborted.                      *)
Kill == main.pc \notin {"idle", "unused"} /\ Stop /\ GivenUp

-----------------------------------------------------------------------------
(* Either main.py is used, now and then, or the second client alone.       *)
Init == MockInit /\ main \in {NotRunning, NotUsed}

MainStep ==
  \/ Ask \/ Started \/ Cleared \/ Restarted \/ NextTask \/ Fetched
  \/ Solved \/ SolveRaises \/ Submitted \/ Batched \/ Aborted

Next ==
  \/ \E mode \in {"practice", "submission"} : Launch(mode)
  \/ MainStep \/ Kill
  \/ \E r \in Thread :
       \/ Serve(r) /\ UNCHANGED main
       \/ \E req \in IF main = NotUsed THEN Free ELSE Others : Receive(r, req, FALSE) /\ UNCHANGED main

Spec == Init /\ [][Next]_vars /\ WF_vars(MainStep)

-----------------------------------------------------------------------------
TypeOK ==
  /\ MockTypeOK
  /\ main.pc \in Calls \cup {"idle", "unused", "next", "solve"}
  /\ main.wait \in Thread => main.pc \in Calls

(* Results of a run are only added to, until a batch replaces them: that   *)
(* of main.py by results of all tasks.                                     *)
ResultsNeverLost ==
  [][\A s \in DOMAIN subs :
       \/ subs'[s].results = subs[s].results
       \/ \E t \in Tasks : subs'[s].results = Append(subs[s].results, t)
       \/ subs'[s] = [status |-> "completed", results |-> AllTasks]
       \/ \E q \in Others \cup Free : /\ q.op = "batch" /\ q.sub = s
                                     /\ subs'[s].results = Known(q.answers)]_subs

(* The inductive invariant: what the threads hold at each step, ...        *)
Steps == {"idle", "done", "start", "insert", "task", "pick", "assign", "tool", "submit", "log",
          "decide", "world", "record", "batch", "commit", "abort", "finalize"}
Errors == {"none", "500", "ACTIVE_SUBMISSION_EXISTS", "NO_MORE_TASKS", "NO_ACTIVE_TASK",
           "TASK_ID_MISMATCH", "SUBMISSION_CLOSED", "SUBMISSION_NOT_FOUND"}
Serving == [pc : Steps, req : Request \cup {NoRequest}, sub : 0..Len(subs), row : Nat,
            task : 0..NTasks, world : Seq(Actions), rejected : BOOLEAN,
            reply : [error : Errors, sub : Nat, task : 0..NTasks], heard : BOOLEAN]
Sound(th) ==
  /\ th \in Serving
  /\ th.pc = "idle" => th = Idle
  /\ th.pc \in {"tool", "submit"} => th.req.op = th.pc
  /\ th.pc \in {"log", "decide", "world", "record"} => th.row \in DOMAIN worlds /\ th.task # 0
  /\ th.pc \in {"log", "decide", "world"} => th.req.op = "tool"
  /\ th.pc \in {"decide", "world"} => th.req.tool \in Actions
  /\ th.pc = "assign" => th.sub = 0 /\ th.task # 0
  /\ th.pc \in {"batch", "commit"} =>
       th.req.op = "batch" /\ (th.req \in Others \cup Free \/ th.req.answers = AllTasks)
ThreadInv == thread \in [Thread -> Serving] /\ \A r \in Thread : Sound(thread[r])

(* ... and that main.py, when it submits a batch, has answered what it     *)
(* listed: answers, the task at hand and those left are always all tasks.  *)
Program == [pc : Calls \cup {"idle", "unused", "next", "solve"}, mode : {"practice", "submission"},
            sub : Nat, listed : BOOLEAN, todo : Seq(Tasks), task : 0..NTasks,
            answers : Seq(Tasks), wait : Thread \cup {NoThread}]
MainInv ==
  /\ main \in Program
  /\ main.pc \in {"start", "clear", "restart"} => main.answers = <<>>
  /\ main.pc \in {"start", "clear", "restart", "fetch"} => ~main.listed
  /\ main.pc = "batch" => Batching /\ main.todo = <<>>
  /\ main.pc = "submit" => ~Batching
  /\ main.pc \in {"next", "batch"} /\ Batching => main.answers \o main.todo = AllTasks
  /\ main.pc = "solve" /\ Batching => Append(main.answers, main.task) \o main.todo = AllTasks

IInv == /\ TypeOK /\ ThreadInv /\ MainInv /\ OneWorldPerTask /\ ResultsBacked
        /\ \A t \in Tasks : IsFiniteSet(Results(t))

(* main.py ends, however many calls are refused, lost or never answered    *)
(* and whatever the second client does: its calls time out, its loops run  *)
(* out of tasks, and the agent ends.                                       *)
MainEnds == main.pc # "unused" ~> main.pc = "idle"
=============================================================================
