----------------------- MODULE ParticipantRun_proofs -----------------------
(***************************************************************************)
(* Proofs about the simulator and main.py, for any threads, any number of  *)
(* tasks, any bounds and whatever well-formed requests a second client     *)
(* sends.  A step of a thread changes what that thread holds and at most   *)
(* adds to the tables the others have read (ServeStep); a step of main.py  *)
(* changes no table (MainOnly).                                            *)
(***************************************************************************)
EXTENDS ParticipantRun, Enumerations_proofs

(* The latest of some rows is one of them. *)
LEMMA LatestIsOne ==
  ASSUME NEW n \in Nat, NEW S \in SUBSET (1..n), S # {}
  PROVE  Latest(S) \in S
  <1>1. \E x \in S : \A y \in S : y <= x
    BY GreatestBelow
  <1> QED
    BY <1>1 DEF Latest

(* A thread without a request is sound. *)
LEMMA SoundIdle ==
  ASSUME subs \in Seq(Sub)
  PROVE  Sound(Idle) /\ Idle.pc = "idle"
  <1>1. Len(subs) \in Nat /\ <<>> \in Seq(Actions)
    OBVIOUS
  <1>2. NoReply \in [error : Errors, sub : Nat, task : 0..NTasks]
    BY TasksAssumption DEF NoReply, Errors
  <1>3. Idle \in Serving
    BY <1>1, <1>2, TasksAssumption DEF Idle, Serving, Steps
  <1> QED
    BY <1>3 DEF Sound, Idle

(* What a thread holds stays sound while the tables grow. *)
LEMMA SoundStays ==
  ASSUME subs \in Seq(Sub), subs' \in Seq(Sub)', Len(subs) <= Len(subs'),
         DOMAIN worlds \subseteq DOMAIN worlds', NEW th, Sound(th)
  PROVE  Sound(th)'
  <1>1. Len(subs) \in Nat /\ Len(subs') \in Nat
    BY DEF Sub
  <1>2. th \in Serving'
    BY <1>1 DEF Sound, Serving
  <1> QED
    BY <1>2 DEF Sound

(* The tables have the types of their columns. *)
Tables == /\ subs \in Seq(Sub) /\ worlds \in Seq(World)
          /\ logs \in Seq(Log) /\ evals \in [Tasks -> Nat]
Backed == ResultsBacked /\ \A t \in Tasks : IsFiniteSet(Results(t))

(* A step of one thread. *)
LEMMA ServeStep ==
  ASSUME IInv, NEW r \in Thread, NEW th, Sound(th)', thread' = [thread EXCEPT ![r] = th],
         UNCHANGED main, Tables', Len(subs) <= Len(subs'), DOMAIN worlds \subseteq DOMAIN worlds',
         OneWorldPerTask', Backed'
  PROVE  IInv'
  <1>1. subs \in Seq(Sub) /\ thread \in [Thread -> Serving] /\ \A q \in Thread : Sound(thread[q])
    BY DEF IInv, ThreadInv, TypeOK, MockTypeOK
  <1>2. subs' \in Seq(Sub)'
    BY DEF Tables
  <1>3. \A x : Sound(x) => Sound(x)'
    BY <1>1, <1>2, SoundStays
  <1>4. \A q \in Thread : thread'[q] = IF q = r THEN th ELSE thread[q]
    BY <1>1
  <1>5. \A q \in Thread : Sound(thread[q])'
    BY <1>1, <1>3, <1>4
  <1>6. \A x : Sound(x)' => x \in Serving' /\ (x.pc = "idle" => x = Idle)
    BY DEF Sound
  <1>7. thread' \in [Thread -> Serving']
    BY <1>1, <1>4, <1>5, <1>6
  <1>8. ThreadInv'
    BY <1>5, <1>7 DEF ThreadInv
  <1>9. MockTypeOK'
    BY <1>5, <1>6 DEF MockTypeOK, Tables, At
  <1>10. MainInv' /\ (TypeOK' \/ ~MockTypeOK')
    BY DEF IInv, MainInv, TypeOK, Batching
  <1> QED
    BY <1>8, <1>9, <1>10 DEF IInv, Backed

(* ... that reads, decides or replies. *)
LEMMA ReadStep ==
  ASSUME IInv, NEW r \in Thread, NEW th, Sound(th), thread' = [thread EXCEPT ![r] = th],
         UNCHANGED <<main, tables>>
  PROVE  IInv'
  <1>1. Tables /\ Backed /\ OneWorldPerTask
    BY DEF IInv, TypeOK, MockTypeOK, Tables, Backed
  <1>2. /\ Tables' /\ Backed' /\ OneWorldPerTask'
        /\ UNCHANGED <<subs, worlds>>
    BY <1>1 DEF tables, Tables, Sub, World, Backed, ResultsBacked, Results, OneWorldPerTask,
       WorldsOf, Rows
  <1>3. Sound(th)'
    BY <1>1, <1>2, SoundStays DEF Tables
  <1>4. Len(subs) <= Len(subs') /\ DOMAIN worlds \subseteq DOMAIN worlds'
    <2>1. Len(subs) \in Nat
      BY <1>1 DEF Tables
    <2> QED
      BY <1>2, <2>1
  <1> QED
    BY <1>2, <1>3, <1>4, ServeStep

(* What a reply leaves the thread with. *)
LEMMA ReplySound ==
  ASSUME subs \in Seq(Sub), NEW s \in Nat, NEW t \in 0..NTasks, NEW e \in Errors
  PROVE  Sound([Idle EXCEPT !.pc = "done", !.reply = [error |-> e, sub |-> s, task |-> t]])
  <1> DEFINE th == [Idle EXCEPT !.pc = "done", !.reply = [error |-> e, sub |-> s, task |-> t]]
  <1>1. Idle \in Serving
    BY SoundIdle DEF Sound
  <1>2. th \in Serving /\ th.pc = "done"
    BY <1>1 DEF Serving, Steps
  <1> QED
    BY <1>2 DEF Sound

(* A thread that answers without a change of the tables keeps the          *)
(* invariant.                                                              *)
LEMMA ReplyStep ==
  ASSUME IInv, NEW r \in Thread, NEW s \in Nat, NEW t \in 0..NTasks, NEW e \in Errors,
         Reply(r, e, s, t), UNCHANGED <<main, tables>>
  PROVE  IInv'
  <1> DEFINE done == [Idle EXCEPT !.pc = "done", !.reply = [error |-> e, sub |-> s, task |-> t]]
  <1>1. subs \in Seq(Sub) /\ thread \in [Thread -> Serving]
    BY DEF IInv, ThreadInv, TypeOK, MockTypeOK
  <1>2. Sound(done) /\ Sound(Idle)
    BY <1>1, SoundIdle, ReplySound
  <1> HIDE DEF done
  <1>3. \/ thread' = [thread EXCEPT ![r] = done]
        \/ thread' = [thread EXCEPT ![r] = Idle]
    BY <1>1 DEF Reply, done
  <1> QED
    BY <1>2, <1>3, ReadStep

-----------------------------------------------------------------------------
(* The steps of a thread that change no table.                             *)

(* What a thread holds of the request it receives is sound. *)
LEMMA ReceiveSound ==
  ASSUME subs \in Seq(Sub), NEW req \in Request, NEW heard \in BOOLEAN,
         req.op = "batch" => req \in Others \cup Free \/ req.answers = AllTasks
  PROVE  Sound([Idle EXCEPT !.pc = req.op, !.req = req, !.heard = heard])
  <1> DEFINE th == [Idle EXCEPT !.pc = req.op, !.req = req, !.heard = heard]
  <1>1. Idle \in Serving
    BY SoundIdle DEF Sound
  <1>2. req.op \in Steps /\ req.op \in {"start", "task", "tool", "submit", "batch", "abort", "finalize"}
    BY DEF Request, Steps
  <1>3. th \in Serving /\ th.pc = req.op /\ th.req = req
    BY <1>1, <1>2 DEF Serving
  <1> HIDE DEF th
  <1>4. Sound(th)
    BY <1>2, <1>3 DEF Sound
  <1> QED
    BY <1>4 DEF th

(* A thread that receives the request of another client keeps the          *)
(* invariant.                                                              *)
LEMMA ReceiveStep ==
  ASSUME IInv, NEW r \in Thread, NEW req \in Others \cup Free, Receive(r, req, FALSE), UNCHANGED main
  PROVE  IInv'
  <1>1. req \in Request /\ subs \in Seq(Sub)
    BY ClientAssumption DEF IInv, TypeOK, MockTypeOK
  <1>2. Sound([Idle EXCEPT !.pc = req.op, !.req = req, !.heard = FALSE])
    BY <1>1, ReceiveSound
  <1> QED
    BY <1>2, ReadStep DEF Receive

(* A step that only reads the tables changes what its thread holds. *)
LEMMA ReadsStep ==
  ASSUME IInv, NEW r \in Thread, UNCHANGED main,
         \/ StartCheck(r) \/ TaskFind(r) \/ TaskPick(r) \/ Decide(r) \/ BatchCheck(r) \/ Locked(r)
  PROVE  IInv'
  <1> DEFINE th == thread[r]
  <1>1. /\ subs \in Seq(Sub) /\ thread \in [Thread -> Serving] /\ Sound(th) /\ th \in Serving
        /\ Len(subs) \in Nat /\ DOMAIN subs = 1..Len(subs)
    BY DEF IInv, ThreadInv, TypeOK, MockTypeOK
  <1>2. 0 \in Nat /\ 0 \in 0..NTasks /\ 1..NTasks \subseteq 0..NTasks
    BY TasksAssumption
  <1>3. Open # {} => Latest(Open) \in DOMAIN subs
    BY <1>1, LatestIsOne DEF Open
  <1>4. CASE StartCheck(r)
    <2>1. CASE Open # {}
      <3>1. Reply(r, "ACTIVE_SUBMISSION_EXISTS", Latest(Open), 0) /\ Latest(Open) \in Nat
        BY <1>1, <1>3, <1>4, <2>1 DEF StartCheck
      <3> QED
        BY <1>2, <1>4, <3>1, ReplyStep DEF Errors, StartCheck
    <2>2. CASE Open = {}
      <3>1. thread' = [thread EXCEPT ![r] = [th EXCEPT !.pc = "insert"]]
        BY <1>4, <2>2 DEF StartCheck, Goto
      <3>2. [th EXCEPT !.pc = "insert"] \in Serving
        BY <1>1 DEF Serving, Steps
      <3>3. Sound([th EXCEPT !.pc = "insert"])
        BY <1>1, <3>2 DEF Sound, Serving
      <3> QED
        BY <1>4, <3>1, <3>3, ReadStep DEF StartCheck
    <2> QED
      BY <2>1, <2>2
  <1>5. CASE TaskFind(r)
    <2> DEFINE s == IF Open = {} THEN 0 ELSE Latest(Open)
               to == [th EXCEPT !.pc = "pick", !.sub = s]
    <2>1. s \in 0..Len(subs)
      BY <1>1, <1>3
    <2>2. to \in Serving /\ to.pc = "pick"
      BY <1>1, <2>1 DEF Serving, Steps
    <2>3. Sound(to)
      BY <2>2 DEF Sound
    <2>4. thread' = [thread EXCEPT ![r] = to] /\ UNCHANGED tables
      BY <1>1, <1>5 DEF TaskFind
    <2> HIDE DEF to
    <2> QED
      BY <2>3, <2>4, ReadStep
  <1>6. CASE TaskPick(r)
    <2> DEFINE left == Tasks \ Assigned(th.sub)
    <2>1. UNCHANGED tables
      BY <1>6 DEF TaskPick
    <2>2. CASE left = {}
      <3>1. Reply(r, "NO_MORE_TASKS", 0, 0)
        BY <1>6, <2>2 DEF TaskPick
      <3> QED
        BY <1>2, <2>1, <3>1, ReplyStep DEF Errors
    <2>3. CASE left # {}
      <3>1. PICK t \in left : thread' = [thread EXCEPT ![r].pc = "assign", ![r].task = t]
        BY <1>6, <2>3 DEF TaskPick
      <3> DEFINE to == [th EXCEPT !.pc = "assign", !.task = t]
      <3>2. t \in 0..NTasks /\ t # 0
        BY <1>2 DEF Tasks
      <3>3. to \in Serving /\ to.pc = "assign" /\ to.sub = th.sub /\ to.task = t
        BY <1>1, <3>2 DEF Serving, Steps
      <3>4. th.sub = 0
        <4> SUFFICES ASSUME th.sub \in DOMAIN subs PROVE FALSE
          BY <1>1 DEF Serving
        <4>1. Cardinality(WorldsOf(th.sub, t)) = 1
          BY DEF IInv, OneWorldPerTask
        <4>2. WorldsOf(th.sub, t) = {}
          BY <3>2 DEF WorldsOf, Rows, Assigned
        <4> QED
          BY <4>1, <4>2, FS_EmptySet
      <3>5. thread' = [thread EXCEPT ![r] = to]
        BY <1>1, <3>1
      <3> HIDE DEF to
      <3>6. Sound(to)
        BY <3>2, <3>3, <3>4 DEF Sound
      <3> QED
        BY <2>1, <3>5, <3>6, ReadStep
    <2> QED
      BY <2>2, <2>3
  <1>7. CASE Decide(r)
    <2>1. PICK pc \in {"log", "world"}, b \in BOOLEAN :
            thread' = [thread EXCEPT ![r].pc = pc, ![r].rejected = b]
      BY <1>7 DEF Decide, Refused
    <2> DEFINE to == [th EXCEPT !.pc = pc, !.rejected = b]
    <2>2. to \in Serving /\ to.pc = pc /\ to.row = th.row /\ to.task = th.task /\ to.req = th.req
      BY <1>1 DEF Serving, Steps
    <2>3. th.pc = "decide"
      BY <1>7 DEF Decide, At
    <2>4. thread' = [thread EXCEPT ![r] = to] /\ UNCHANGED tables
      BY <1>1, <1>7, <2>1 DEF Decide
    <2> HIDE DEF to
    <2>5. Sound(to)
      BY <1>1, <2>2, <2>3 DEF Sound
    <2> QED
      BY <2>4, <2>5, ReadStep
  <1>8. CASE BatchCheck(r)
    <2>1. UNCHANGED tables /\ th.pc = "batch"
      BY <1>8 DEF BatchCheck, At
    <2>2. CASE th.req.sub \in Open
      <3>1. thread' = [thread EXCEPT ![r] = [th EXCEPT !.pc = "commit"]]
        BY <1>8, <2>2 DEF BatchCheck, Goto
      <3>2. [th EXCEPT !.pc = "commit"] \in Serving
        BY <1>1 DEF Serving, Steps
      <3>3. Sound([th EXCEPT !.pc = "commit"])
        BY <1>1, <2>1, <3>2 DEF Sound, Serving
      <3> QED
        BY <2>1, <3>1, <3>3, ReadStep
    <2>3. CASE th.req.sub \notin Open
      <3>1. PICK e \in Errors : Reply(r, e, 0, 0)
        BY <1>8, <2>3 DEF BatchCheck, Errors
      <3> QED
        BY <1>2, <2>1, <3>1, ReplyStep
    <2> QED
      BY <2>2, <2>3
  <1>9. CASE Locked(r)
    BY <1>2, <1>9, ReplyStep DEF Locked, Errors
  <1> QED
    BY <1>4, <1>5, <1>6, <1>7, <1>8, <1>9

(* The lookup of the world of a request changes what its thread holds. *)
LEMMA LookupStep ==
  ASSUME IInv, NEW r \in Thread, UNCHANGED main, Lookup(r)
  PROVE  IInv'
  <1> DEFINE th == thread[r]
             q == th.req
             named == Rows(q.task)
             found == IF named # {} THEN named ELSE Rows(0)
             row == Latest(found)
  <1>1. /\ worlds \in Seq(World) /\ thread \in [Thread -> Serving] /\ Sound(th) /\ th \in Serving
        /\ Len(worlds) \in Nat /\ DOMAIN worlds = 1..Len(worlds)
    BY DEF IInv, ThreadInv, TypeOK, MockTypeOK
  <1>2. 0 \in Nat /\ 0 \in 0..NTasks /\ 1..NTasks \subseteq 0..NTasks
    BY TasksAssumption
  <1>3. UNCHANGED tables /\ (th.pc = "tool" \/ th.pc = "submit")
    BY DEF Lookup, At
  <1>4. CASE Ok(r) \/ Reply(r, "NO_ACTIVE_TASK", 0, 0) \/ Reply(r, "TASK_ID_MISMATCH", 0, 0)
    BY <1>2, <1>3, <1>4, ReplyStep DEF Errors, Ok
  <1>5. CASE ~(Ok(r) \/ Reply(r, "NO_ACTIVE_TASK", 0, 0) \/ Reply(r, "TASK_ID_MISMATCH", 0, 0))
    <2> DEFINE step == IF q.op = "submit" THEN "record" ELSE IF q.tool \in Reads THEN "log" ELSE "decide"
               to == [th EXCEPT !.pc = step, !.row = row, !.task = worlds[row].task,
                                !.sub = worlds[row].sub, !.world = worlds[row].world]
    <2>1. /\ found # {}
          /\ thread' = [thread EXCEPT ![r].pc = step, ![r].row = row, ![r].task = worlds[row].task,
                                      ![r].sub = worlds[row].sub, ![r].world = worlds[row].world]
      BY <1>5 DEF Lookup
    <2>2. row \in DOMAIN worlds
      <3>1. found \subseteq 1..Len(worlds)
        BY <1>1 DEF Rows
      <3> HIDE DEF found
      <3> QED
        BY <1>1, <2>1, <3>1, LatestIsOne
    <2> HIDE DEF row
    <2>3. worlds[row] \in World
      BY <1>1, <2>2
    <2>4. /\ worlds[row].task \in 0..NTasks /\ worlds[row].task # 0
          /\ worlds[row].sub \in 0..Len(subs) /\ worlds[row].world \in Seq(Actions) /\ row \in Nat
      BY <1>1, <1>2, <2>2, <2>3 DEF World, Tasks
    <2>5. step \in {"record", "log", "decide"}
      OBVIOUS
    <2>6. thread' = [thread EXCEPT ![r] = to]
      BY <1>1, <2>1
    <2>7. q.op = th.pc /\ (q.op = "tool" => q \in Request)
      BY <1>1, <1>3 DEF Sound, Serving, NoRequest
    <2>8. step = "decide" => q.tool \in Actions
      BY <1>3, <2>7 DEF Request
    <2>9. step \in {"log", "decide"} => q.op = "tool"
      BY <1>3, <2>7
    <2> HIDE DEF step
    <2>10. to \in Serving /\ to.pc = step /\ to.row = row /\ to.task = worlds[row].task /\ to.req = q
      BY <1>1, <2>4, <2>5 DEF Serving, Steps
    <2> HIDE DEF to, q
    <2>11. Sound(to)
      BY <2>2, <2>4, <2>5, <2>8, <2>9, <2>10 DEF Sound
    <2> QED
      BY <1>3, <2>6, <2>11, ReadStep
  <1> QED
    BY <1>4, <1>5

-----------------------------------------------------------------------------
(* The steps of a thread that write a table. *)

(* Such a step keeps the invariant if it leaves its thread sound. *)
LEMMA GrowStep ==
  ASSUME IInv, NEW r \in Thread, NEW th, Sound(th), thread' = [thread EXCEPT ![r] = th],
         UNCHANGED main, Tables', Len(subs) <= Len(subs'), DOMAIN worlds \subseteq DOMAIN worlds',
         OneWorldPerTask', Backed'
  PROVE  IInv'
  <1>1. subs \in Seq(Sub) /\ subs' \in Seq(Sub)'
    BY DEF IInv, TypeOK, MockTypeOK, Tables
  <1>2. Sound(th)'
    BY <1>1, SoundStays
  <1> QED
    BY <1>2, ServeStep

(* A thread that answers and adds to the tables keeps the invariant. *)
LEMMA ReplyGrows ==
  ASSUME IInv, NEW r \in Thread, NEW s \in Nat, NEW t \in 0..NTasks, NEW e \in Errors,
         Reply(r, e, s, t), UNCHANGED main, Tables', Len(subs) <= Len(subs'),
         DOMAIN worlds \subseteq DOMAIN worlds', OneWorldPerTask', Backed'
  PROVE  IInv'
  <1> DEFINE done == [Idle EXCEPT !.pc = "done", !.reply = [error |-> e, sub |-> s, task |-> t]]
  <1>1. subs \in Seq(Sub) /\ thread \in [Thread -> Serving]
    BY DEF IInv, ThreadInv, TypeOK, MockTypeOK
  <1>2. Sound(done) /\ Sound(Idle)
    BY <1>1, SoundIdle, ReplySound
  <1> HIDE DEF done
  <1>3. \/ thread' = [thread EXCEPT ![r] = done]
        \/ thread' = [thread EXCEPT ![r] = Idle]
    BY <1>1 DEF Reply, done
  <1> QED
    BY <1>2, <1>3, GrowStep

(* A step that keeps the rows of worlds of every run and task has one for  *)
(* each.                                                                   *)
LEMMA OneWorldStays ==
  ASSUME IInv, DOMAIN subs' = DOMAIN subs,
         \A s \in DOMAIN subs, t \in Tasks : WorldsOf(s, t)' = WorldsOf(s, t)
  PROVE  OneWorldPerTask'
  BY DEF IInv, OneWorldPerTask

(* Results stay backed when each task gets as many evaluations as results. *)
LEMMA BackedStays ==
  ASSUME IInv, evals' \in [Tasks -> Nat],
         \A t \in Tasks : \E D : /\ IsFiniteSet(D) /\ Results(t)' \subseteq Results(t) \cup D
                                /\ evals'[t] >= evals[t] + Cardinality(D)
  PROVE  Backed'
  <1> SUFFICES ASSUME NEW t \in Tasks
               PROVE  IsFiniteSet(Results(t)') /\ Cardinality(Results(t)') <= evals'[t]
    BY DEF Backed, ResultsBacked
  <1>1. /\ IsFiniteSet(Results(t)) /\ Cardinality(Results(t)) <= evals[t]
        /\ evals[t] \in Nat /\ evals'[t] \in Nat
    BY DEF IInv, ResultsBacked, TypeOK, MockTypeOK
  <1>2. PICK D : /\ IsFiniteSet(D) /\ Results(t)' \subseteq Results(t) \cup D
                 /\ evals'[t] >= evals[t] + Cardinality(D)
    OBVIOUS
  <1>3. /\ IsFiniteSet(Results(t) \cup D) /\ IsFiniteSet(Results(t) \cap D)
        /\ Cardinality(Results(t) \cup D)
             = Cardinality(Results(t)) + Cardinality(D) - Cardinality(Results(t) \cap D)
    BY <1>1, <1>2, FS_Union, FS_Intersection
  <1>4. /\ IsFiniteSet(Results(t)')
        /\ Cardinality(Results(t)') <= Cardinality(Results(t) \cup D)
    BY <1>2, <1>3, FS_Subset
  <1>5. /\ Cardinality(Results(t)) \in Nat /\ Cardinality(D) \in Nat
        /\ Cardinality(Results(t) \cap D) \in Nat /\ Cardinality(Results(t)') \in Nat
        /\ Cardinality(Results(t) \cup D) \in Nat
    BY <1>1, <1>2, <1>3, <1>4, FS_CardinalityType
  <1> QED
    BY <1>1, <1>2, <1>3, <1>4, <1>5

(* A step that adds no evaluation and moves no result keeps the            *)
(* evaluations backed.                                                     *)
LEMMA BackedKept ==
  ASSUME IInv, evals' = evals, \A t \in Tasks : Results(t)' \subseteq Results(t)
  PROVE  Backed'
  <1>1. evals \in [Tasks -> Nat]
    BY DEF IInv, TypeOK, MockTypeOK
  <1>2. IsFiniteSet({}) /\ Cardinality({}) = 0
    BY FS_EmptySet
  <1>3. \A t \in Tasks : /\ Results(t)' \subseteq Results(t) \cup {}
                         /\ evals'[t] >= evals[t] + Cardinality({})
    BY <1>1, <1>2
  <1> QED
    BY <1>1, <1>2, <1>3, BackedStays

(* The insert of a run keeps the invariant (start_submission). *)
LEMMA StartInsertStep ==
  ASSUME IInv, NEW r \in Thread, UNCHANGED main, StartInsert(r)
  PROVE  IInv'
  <1> DEFINE x == [status |-> "in_progress", results |-> <<>>]
  <1>1. /\ subs \in Seq(Sub) /\ worlds \in Seq(World) /\ logs \in Seq(Log)
        /\ evals \in [Tasks -> Nat] /\ NTasks \in Nat
    BY TasksAssumption DEF IInv, TypeOK, MockTypeOK
  <1>3. PICK n \in Nat, m \in Nat : n = Len(subs) /\ m = Len(worlds)
    BY <1>1
  <1> DEFINE W == [t \in Tasks |-> FreshWorld(n + 1, t)]
  <1>2. /\ subs' = Append(subs, x) /\ worlds' = worlds \o W /\ logs' = logs /\ evals' = evals
        /\ Reply(r, "none", n + 1, 0)
    BY <1>3 DEF StartInsert
  <1>4. /\ subs' \in Seq(Sub) /\ Len(subs') = n + 1 /\ DOMAIN subs' = 1..(n + 1)
        /\ subs'[n + 1] = x /\ \A i \in 1..n : subs'[i] = subs[i]
    <2>1. x \in Sub /\ Sub = Sub'
      BY DEF Sub
    <2> QED
      BY <1>1, <1>2, <1>3, <2>1
  <1>5. W \in Seq(World') /\ Len(W) = NTasks
    <2>1. \A t \in Tasks : FreshWorld(n + 1, t) \in World'
      <3>1. n + 1 \in 0..Len(subs') /\ <<>> \in Seq(Actions)
        BY <1>3, <1>4
      <3> QED
        BY <3>1 DEF FreshWorld, World
    <2> QED
      BY <1>1, <2>1 DEF Tasks
  <1>6. worlds \in Seq(World')
    <2>1. World \subseteq World'
      BY <1>3, <1>4 DEF World
    <2> QED
      BY <1>1, <2>1
  <1>7. /\ worlds' \in Seq(World') /\ DOMAIN worlds' = 1..(m + NTasks)
        /\ \A i \in 1..m : worlds'[i] = worlds[i]
        /\ \A i \in 1..(m + NTasks) : i \notin 1..m => i - m \in Tasks /\ worlds'[i] = W[i - m]
    BY <1>1, <1>2, <1>3, <1>5, <1>6 DEF Tasks
  <1>8. Tables'
    BY <1>1, <1>2, <1>4, <1>7 DEF Tables, Sub, Log
  <1>9. \A i \in 1..m : worlds[i].sub \in 0..n /\ worlds[i].task \in Tasks
    <2>1. \A i \in 1..m : worlds[i] \in World
      BY <1>1, <1>3
    <2> QED
      BY <1>3, <2>1 DEF World
  <1>17. /\ \A s, t, i : i \in WorldsOf(s, t)
                <=> i \in DOMAIN worlds /\ t \in {0, worlds[i].task} /\ worlds[i].sub = s
         /\ \A s, t, i : i \in WorldsOf(s, t)'
                <=> i \in DOMAIN worlds' /\ t \in {0, worlds'[i].task} /\ worlds'[i].sub = s
    BY DEF WorldsOf, Rows
  <1>10. \A s \in 1..n, t \in Tasks : WorldsOf(s, t)' = WorldsOf(s, t)
    <2> SUFFICES ASSUME NEW s \in 1..n, NEW t \in Tasks, NEW i
                 PROVE  i \in WorldsOf(s, t)' <=> i \in WorldsOf(s, t)
      OBVIOUS
    <2>1. DOMAIN worlds = 1..m /\ 1..m \subseteq 1..(m + NTasks) /\ s # n + 1
      BY <1>1, <1>3
    <2>2. CASE i \in 1..m
      BY <1>7, <1>17, <2>1, <2>2
    <2>3. CASE i \notin 1..m
      <3>1. ASSUME i \in DOMAIN worlds' PROVE worlds'[i].sub = n + 1
        <4>1. worlds'[i] = W[i - m] /\ i - m \in Tasks
          BY <1>7, <2>3, <3>1
        <4> QED
          BY <4>1 DEF FreshWorld
      <3> QED
        BY <1>17, <2>1, <2>3, <3>1
    <2> QED
      BY <2>2, <2>3
  <1>11. \A t \in Tasks : WorldsOf(n + 1, t)' = {m + t}
    <2> SUFFICES ASSUME NEW t \in Tasks, NEW i
                 PROVE  i \in WorldsOf(n + 1, t)' <=> i = m + t
      OBVIOUS
    <2>1. DOMAIN worlds = 1..m /\ 1..m \subseteq 1..(m + NTasks) /\ n + 1 \notin 0..n /\ t \in 1..NTasks
      BY <1>1, <1>3 DEF Tasks
    <2>2. CASE i \in 1..m
      <3>1. worlds'[i].sub # n + 1 /\ i # m + t
        BY <1>7, <1>9, <2>1, <2>2
      <3> QED
        BY <1>17, <3>1
    <2>3. CASE i \in 1..(m + NTasks) /\ i \notin 1..m
      <3>1. worlds'[i] = FreshWorld(n + 1, i - m) /\ i - m \in 1..NTasks
        BY <1>7, <2>3 DEF Tasks
      <3>2. i - m = t <=> i = m + t
        BY <1>3, <2>1, <2>3
      <3>3. worlds'[i].task = i - m /\ worlds'[i].sub = n + 1 /\ t # 0
        BY <2>1, <3>1 DEF FreshWorld
      <3> QED
        BY <1>7, <1>17, <2>1, <2>3, <3>2, <3>3
    <2>4. CASE i \notin 1..(m + NTasks)
      <3>1. i # m + t
        BY <1>1, <1>3, <2>1, <2>4
      <3> QED
        BY <1>7, <1>17, <2>4, <3>1
    <2> QED
      BY <2>1, <2>2, <2>3, <2>4
  <1>12. OneWorldPerTask'
    <2> SUFFICES ASSUME NEW s \in DOMAIN subs', NEW t \in Tasks
                 PROVE  Cardinality(WorldsOf(s, t)') = 1
      BY DEF OneWorldPerTask
    <2>1. DOMAIN subs = 1..n /\ (s \in 1..n \/ s = n + 1)
      BY <1>1, <1>3, <1>4
    <2>2. CASE s \in 1..n
      <3>1. Cardinality(WorldsOf(s, t)) = 1
        BY <2>1, <2>2 DEF IInv, OneWorldPerTask
      <3> QED
        BY <1>10, <2>2, <3>1
    <2>3. CASE s = n + 1
      <3>1. WorldsOf(s, t)' = {m + t}
        BY <1>11, <2>3
      <3>2. Cardinality({m + t}) = 1
        BY FS_Singleton
      <3> QED
        BY <3>1, <3>2
    <2> QED
      BY <2>1, <2>2, <2>3
  <1>13. \A t \in Tasks : Results(t)' \subseteq Results(t)
    <2> SUFFICES ASSUME NEW t \in Tasks, NEW s \in DOMAIN subs', NEW i \in Places(subs'[s].results, t)
                 PROVE  <<s, i>> \in Results(t)
      BY DEF Results, Places
    <2>1. DOMAIN subs = 1..n /\ (s \in 1..n \/ s = n + 1)
      BY <1>1, <1>3, <1>4
    <2>2. s # n + 1
      BY <1>4 DEF Places
    <2> QED
      BY <1>4, <2>1, <2>2 DEF Results
  <1>14. Backed'
    BY <1>2, <1>13, BackedKept
  <1>15. Len(subs) <= Len(subs') /\ DOMAIN worlds \subseteq DOMAIN worlds'
    BY <1>1, <1>3, <1>4, <1>7
  <1>16. n + 1 \in Nat /\ 0 \in 0..NTasks /\ "none" \in Errors
    BY <1>1, <1>3 DEF Errors
  <1> QED
    BY <1>2, <1>8, <1>12, <1>14, <1>15, <1>16, ReplyGrows

(* The assignment of a task adds its world and keeps the invariant         *)
(* (next_task).                                                            *)
LEMMA TaskAssignStep ==
  ASSUME IInv, NEW r \in Thread, UNCHANGED main, TaskAssign(r)
  PROVE  IInv'
  <1>1. /\ subs \in Seq(Sub) /\ worlds \in Seq(World) /\ logs \in Seq(Log)
        /\ evals \in [Tasks -> Nat] /\ thread[r] \in Serving /\ Sound(thread[r])
    BY DEF IInv, TypeOK, MockTypeOK, ThreadInv
  <1>2. PICK t \in 1..NTasks, m \in Nat : /\ t = thread[r].task /\ m = Len(worlds)
                                         /\ thread[r].sub = 0
    <2>1. thread[r].task \in 0..NTasks /\ thread[r].task # 0 /\ thread[r].sub = 0
      BY <1>1 DEF Sound, Serving, TaskAssign, At
    <2>2. thread[r].task \in 1..NTasks
      BY <2>1, TasksAssumption
    <2> QED
      BY <1>1, <2>1, <2>2
  <1>3. /\ worlds' = Append(worlds, FreshWorld(0, t)) /\ Reply(r, "none", 0, t)
        /\ UNCHANGED <<subs, logs, evals>>
    BY <1>2 DEF TaskAssign
  <1>4. FreshWorld(0, t) \in World /\ World' = World
    <2>1. <<>> \in Seq(Actions) /\ 0 \in 0..Len(subs)
      BY <1>1
    <2> QED
      BY <1>3, <2>1 DEF FreshWorld, World, Tasks
  <1>5. /\ worlds' \in Seq(World) /\ DOMAIN worlds = 1..m /\ DOMAIN worlds' = 1..(m + 1)
        /\ worlds'[m + 1] = FreshWorld(0, t) /\ \A i \in 1..m : worlds'[i] = worlds[i]
    BY <1>1, <1>2, <1>3, <1>4
  <1>6. Tables'
    BY <1>1, <1>3, <1>4, <1>5 DEF Tables, Sub, Log
  <1>7. /\ \A s, u, i : i \in WorldsOf(s, u)
               <=> i \in DOMAIN worlds /\ u \in {0, worlds[i].task} /\ worlds[i].sub = s
        /\ \A s, u, i : i \in WorldsOf(s, u)'
               <=> i \in DOMAIN worlds' /\ u \in {0, worlds'[i].task} /\ worlds'[i].sub = s
    BY DEF WorldsOf, Rows
  <1>8. OneWorldPerTask'
    <2>1. ASSUME NEW s \in DOMAIN subs, NEW u \in Tasks PROVE WorldsOf(s, u)' = WorldsOf(s, u)
      <3> SUFFICES ASSUME NEW i PROVE i \in WorldsOf(s, u)' <=> i \in WorldsOf(s, u)
        OBVIOUS
      <3>1. s # 0
        BY <1>1
      <3>2. CASE i \in 1..m
        BY <1>5, <1>7, <3>2
      <3>3. CASE i \notin 1..m
        <4>1. i \in 1..(m + 1) => worlds'[i].sub = 0
          BY <1>5, <3>3 DEF FreshWorld
        <4> QED
          BY <1>5, <1>7, <3>1, <3>3, <4>1
      <3> QED
        BY <3>2, <3>3
    <2> QED
      BY <1>3, <2>1, OneWorldStays
  <1>9. Backed'
    <2>1. \A u \in Tasks : Results(u)' \subseteq Results(u)
      BY <1>3 DEF Results, Places
    <2> QED
      BY <1>3, <2>1, BackedKept
  <1>10. Len(subs) <= Len(subs') /\ DOMAIN worlds \subseteq DOMAIN worlds'
    <2>1. Len(subs) \in Nat
      BY <1>1
    <2> QED
      BY <1>3, <1>5, <2>1
  <1>11. 0 \in Nat /\ t \in 0..NTasks /\ "none" \in Errors
    BY TasksAssumption DEF Errors
  <1> QED
    BY <1>3, <1>6, <1>8, <1>9, <1>10, <1>11, ReplyGrows

(* A write of a world leaves it the world of its run and its task. *)
LEMMA WorldCommitStep ==
  ASSUME IInv, NEW r \in Thread, UNCHANGED main, WorldCommit(r)
  PROVE  IInv'
  <1> DEFINE th == thread[r]
  <1>1. /\ subs \in Seq(Sub) /\ worlds \in Seq(World) /\ logs \in Seq(Log)
        /\ evals \in [Tasks -> Nat] /\ thread \in [Thread -> Serving] /\ th \in Serving /\ Sound(th)
    BY DEF IInv, TypeOK, MockTypeOK, ThreadInv
  <1>2. /\ th.pc = "world" /\ th.row \in DOMAIN worlds /\ th.task # 0 /\ th.req.op = "tool"
        /\ th.req.tool \in Actions /\ th.world \in Seq(Actions)
    BY <1>1 DEF WorldCommit, At, Sound, Serving
  <1>3. PICK k \in DOMAIN worlds, w \in Seq(Actions) : worlds' = [worlds EXCEPT ![k].world = w]
    <2>1. Append(th.world, th.req.tool) \in Seq(Actions)
      BY <1>2
    <2> QED
      BY <1>2, <2>1 DEF WorldCommit
  <1>4. UNCHANGED <<subs, logs, evals>> /\ thread' = [thread EXCEPT ![r] = [th EXCEPT !.pc = "log"]]
    BY DEF WorldCommit, Goto
  <1>5. [th EXCEPT !.pc = "log"] \in Serving
    BY <1>1 DEF Serving, Steps
  <1>6. Sound([th EXCEPT !.pc = "log"])
    BY <1>1, <1>2, <1>5 DEF Sound, Serving
  <1>7. /\ worlds' \in Seq(World) /\ DOMAIN worlds' = DOMAIN worlds
        /\ \A i \in DOMAIN worlds : worlds'[i].sub = worlds[i].sub /\ worlds'[i].task = worlds[i].task
    <2>1. \A i \in DOMAIN worlds : worlds[i] \in World
      BY <1>1
    <2>2. \A i \in DOMAIN worlds : worlds'[i] = IF i = k THEN [worlds[i] EXCEPT !.world = w] ELSE worlds[i]
      BY <1>1, <1>3
    <2>3. \A i \in DOMAIN worlds : /\ worlds'[i] \in World /\ worlds'[i].sub = worlds[i].sub
                                  /\ worlds'[i].task = worlds[i].task
      BY <2>1, <2>2 DEF World
    <2>4. worlds' \in Seq(World) /\ DOMAIN worlds' = DOMAIN worlds
      <3> DEFINE v == [worlds[k] EXCEPT !.world = w]
      <3>1. v \in World /\ worlds' = [worlds EXCEPT ![k] = v]
        BY <1>3, <2>1 DEF World
      <3> HIDE DEF v
      <3> QED
        BY <1>1, <3>1
    <2> QED
      BY <2>3, <2>4
  <1>8. Tables'
    BY <1>1, <1>4, <1>7 DEF Tables, Sub, World, Log
  <1>9. OneWorldPerTask'
    <2>1. \A s \in DOMAIN subs, u \in Tasks : WorldsOf(s, u)' = WorldsOf(s, u)
      BY <1>7 DEF WorldsOf, Rows
    <2> QED
      BY <1>4, <2>1, OneWorldStays
  <1>10. Backed'
    <2>1. \A u \in Tasks : Results(u)' \subseteq Results(u)
      BY <1>4 DEF Results, Places
    <2> QED
      BY <1>4, <2>1, BackedKept
  <1>11. Len(subs) <= Len(subs') /\ DOMAIN worlds \subseteq DOMAIN worlds'
    <2>1. Len(subs) \in Nat
      BY <1>1
    <2> QED
      BY <1>4, <1>7, <2>1
  <1> QED
    BY <1>4, <1>6, <1>8, <1>9, <1>10, <1>11, GrowStep

(* The commit of a tool call keeps the invariant (_log_tool_call). *)
LEMMA LogCommitStep ==
  ASSUME IInv, NEW r \in Thread, UNCHANGED main, LogCommit(r)
  PROVE  IInv'
  <1> DEFINE th == thread[r]  q == th.req
             l == [task |-> th.task, tool |-> q.tool, cites |-> q.cites, rejected |-> th.rejected]
  <1>1. /\ subs \in Seq(Sub) /\ worlds \in Seq(World) /\ logs \in Seq(Log)
        /\ evals \in [Tasks -> Nat] /\ th \in Serving /\ Sound(th) /\ NTasks \in Nat
    BY TasksAssumption DEF IInv, TypeOK, MockTypeOK, ThreadInv
  <1>2. /\ th.pc = "log" /\ th.task # 0 /\ q.op = "tool" /\ th.task \in 0..NTasks
        /\ th.rejected \in BOOLEAN /\ q \in Request
    BY <1>1 DEF LogCommit, At, Sound, Serving, NoRequest
  <1>3. l \in Log
    <2>1. th.task \in Tasks
      BY <1>1, <1>2 DEF Tasks
    <2>2. q.tool \in Reads \cup Actions /\ q.cites \in {"none", "EMP", "POL"}
      BY <1>2 DEF Request
    <2> QED
      BY <1>2, <2>1, <2>2 DEF Log
  <1>4. logs' = Append(logs, l) /\ Ok(r) /\ UNCHANGED <<subs, worlds, evals>>
    BY DEF LogCommit
  <1>5. Tables'
    <2>1. logs' \in Seq(Log)
      BY <1>1, <1>3, <1>4
    <2> QED
      BY <1>1, <1>4, <2>1 DEF Tables, Sub, World, Log
  <1>6. OneWorldPerTask'
    <2>1. \A s \in DOMAIN subs, u \in Tasks : WorldsOf(s, u)' = WorldsOf(s, u)
      BY <1>4 DEF WorldsOf, Rows
    <2> QED
      BY <1>4, <2>1, OneWorldStays
  <1>7. Backed'
    <2>1. \A u \in Tasks : Results(u)' \subseteq Results(u)
      BY <1>4 DEF Results, Places
    <2> QED
      BY <1>4, <2>1, BackedKept
  <1>8. Len(subs) <= Len(subs') /\ DOMAIN worlds \subseteq DOMAIN worlds'
    <2>1. Len(subs) \in Nat
      BY <1>1
    <2> QED
      BY <1>4, <2>1
  <1>9. 0 \in Nat /\ 0 \in 0..NTasks /\ "none" \in Errors /\ Reply(r, "none", 0, 0)
    BY <1>1, <1>4 DEF Errors, Ok
  <1> QED
    BY <1>5, <1>6, <1>7, <1>8, <1>9, ReplyGrows

(* A step that writes one run and counts evaluations, and replies. *)
LEMMA RunStep ==
  ASSUME IInv, NEW r \in Thread, NEW s \in Nat, NEW t \in 0..NTasks, NEW e \in Errors,
         Reply(r, e, s, t), UNCHANGED <<main, worlds, logs>>, evals' \in [Tasks -> Nat], Backed',
         \/ subs' = subs
         \/ \E k \in DOMAIN subs, v \in Sub : subs' = [subs EXCEPT ![k] = v]
  PROVE  IInv'
  <1>1. subs \in Seq(Sub) /\ worlds \in Seq(World) /\ logs \in Seq(Log)
    BY DEF IInv, TypeOK, MockTypeOK
  <1>2. subs' \in Seq(Sub) /\ Len(subs') = Len(subs) /\ DOMAIN subs' = DOMAIN subs /\ Len(subs) \in Nat
    <2>1. CASE subs' = subs
      BY <1>1, <2>1
    <2>2. ASSUME NEW k \in DOMAIN subs, NEW v \in Sub, subs' = [subs EXCEPT ![k] = v]
          PROVE  subs' \in Seq(Sub) /\ Len(subs') = Len(subs) /\ DOMAIN subs' = DOMAIN subs
      <3>1. k \in 1..Len(subs)
        BY <1>1
      <3> QED
        BY <1>1, <2>2, <3>1, ExceptSeq
    <2> QED
      BY <1>1, <2>1, <2>2
  <1>3. Tables'
    BY <1>1, <1>2 DEF Tables, Sub, World, Log
  <1>4. OneWorldPerTask'
    <2>1. \A x \in DOMAIN subs, u \in Tasks : WorldsOf(x, u)' = WorldsOf(x, u)
      BY DEF WorldsOf, Rows
    <2> QED
      BY <1>2, <2>1, OneWorldStays
  <1>5. Len(subs) <= Len(subs') /\ DOMAIN worlds \subseteq DOMAIN worlds'
    BY <1>2
  <1> QED
    BY <1>3, <1>4, <1>5, ReplyGrows

(* The places of a task in a list are its numbers of places. *)
LEMMA PlacesFinite ==
  ASSUME NEW q \in Seq(Tasks), NEW t
  PROVE  IsFiniteSet(Places(q, t)) /\ Cardinality(Places(q, t)) \in Nat
  <1>1. Places(q, t) \subseteq 1..Len(q) /\ Len(q) \in Nat
    BY DEF Places
  <1>2. IsFiniteSet(1..Len(q))
    BY <1>1, FS_Interval
  <1>3. IsFiniteSet(Places(q, t))
    BY <1>1, <1>2, FS_Subset
  <1> QED
    BY <1>3, FS_CardinalityType

(* What a batch stores are results of tasks. *)
LEMMA KnownType ==
  ASSUME NEW q \in Seq(Nat)
  PROVE  Known(q) \in Seq(Tasks)
  <1> DEFINE I == {i \in DOMAIN q : q[i] \in Tasks}
  <1>4. I \in SUBSET (DOMAIN q)
    OBVIOUS
  <1>1. /\ Picked(q, I) \in Seq(Nat)
        /\ {Picked(q, I)[k] : k \in DOMAIN Picked(q, I)} = {q[i] : i \in I}
    BY <1>4, PickedType
  <1>2. \A k \in DOMAIN Picked(q, I) : Picked(q, I)[k] \in Tasks
    BY <1>1
  <1> HIDE DEF I
  <1>3. Picked(q, I) \in Seq(Tasks)
    BY <1>1, <1>2
  <1> QED
    BY <1>3 DEF Known, I

(* The commit of one result keeps the invariant (submit_result). *)
LEMMA RecordStep ==
  ASSUME IInv, NEW r \in Thread, UNCHANGED main, Record(r)
  PROVE  IInv'
  <1>1. /\ subs \in Seq(Sub) /\ evals \in [Tasks -> Nat] /\ thread[r] \in Serving /\ Sound(thread[r])
    BY DEF IInv, TypeOK, MockTypeOK, ThreadInv
  <1>2. PICK t \in 1..NTasks, s \in Nat : t = thread[r].task /\ s = thread[r].sub
    <2>1. thread[r].task \in 0..NTasks /\ thread[r].task # 0 /\ thread[r].sub \in 0..Len(subs)
      BY <1>1 DEF Record, At, Sound, Serving
    <2>2. thread[r].task \in 1..NTasks /\ thread[r].sub \in Nat
      BY <1>1, <2>1, TasksAssumption
    <2> QED
      BY <2>2
  <1>3. /\ evals' = [evals EXCEPT ![t] = @ + 1] /\ UNCHANGED <<worlds, logs>> /\ Reply(r, "none", 0, t)
        /\ subs' = IF s \in DOMAIN subs THEN [subs EXCEPT ![s].results = Append(@, t)] ELSE subs
    BY <1>2 DEF Record, Exists
  <1>4. /\ t \in Tasks /\ evals' \in [Tasks -> Nat] /\ evals'[t] = evals[t] + 1
        /\ \A u \in Tasks : evals[u] \in Nat /\ evals'[u] \in Nat /\ (u # t => evals'[u] = evals[u])
    BY <1>1, <1>2, <1>3 DEF Tasks
  <1>5. CASE s \notin DOMAIN subs
    <2>1. \A u \in Tasks : /\ IsFiniteSet({}) /\ Results(u)' \subseteq Results(u) \cup {}
                           /\ evals'[u] >= evals[u] + Cardinality({})
      <3>1. subs' = subs /\ IsFiniteSet({}) /\ Cardinality({}) = 0
        BY <1>3, <1>5, FS_EmptySet
      <3>2. \A u \in Tasks : Results(u)' = Results(u)
        BY <3>1 DEF Results, Places
      <3>3. \A u \in Tasks : evals'[u] >= evals[u]
        BY <1>4
      <3> QED
        BY <1>4, <3>1, <3>2, <3>3
    <2>2. Backed'
      BY <1>4, <2>1, BackedStays
    <2>3. 0 \in Nat /\ t \in 0..NTasks /\ "none" \in Errors /\ subs' = subs
      BY <1>3, <1>5, TasksAssumption DEF Errors
    <2> QED
      BY <1>3, <1>4, <2>2, <2>3, RunStep
  <1>6. CASE s \in DOMAIN subs
    <2> DEFINE old == subs[s].results
               v == [subs[s] EXCEPT !.results = Append(old, t)]
    <2>1. /\ subs[s] \in Sub /\ old \in Seq(Tasks) /\ v \in Sub /\ v.results = Append(old, t)
          /\ Len(old) \in Nat /\ DOMAIN old = 1..Len(old)
      <3>1. subs[s] \in Sub
        BY <1>1, <1>6
      <3>2. old \in Seq(Tasks)
        BY <3>1 DEF Sub
      <3>3. Append(old, t) \in Seq(Tasks)
        BY <1>4, <3>2
      <3>4. v \in Sub /\ v.results = Append(old, t)
        <4> HIDE DEF old
        <4> QED
          BY <3>1, <3>3 DEF Sub
      <3> QED
        BY <3>1, <3>2, <3>4
    <2>2. PICK n \in Nat : n = Len(old)
      BY <2>1
    <2>3. /\ subs' = [subs EXCEPT ![s] = v] /\ DOMAIN subs' = DOMAIN subs
          /\ \A k \in DOMAIN subs : k # s => subs'[k] = subs[k]
          /\ subs'[s].results = Append(old, t)
      BY <1>1, <1>3, <1>6, <2>1
    <2>4. \A u : /\ Places(Append(old, t), t) = Places(old, t) \cup {n + 1}
                 /\ u # t => Places(Append(old, t), u) = Places(old, u)
      <3>1. /\ DOMAIN Append(old, t) = 1..(n + 1) /\ DOMAIN old = 1..n
            /\ Append(old, t)[n + 1] = t /\ \A i \in 1..n : Append(old, t)[i] = old[i]
        BY <2>1, <2>2
      <3> HIDE DEF old
      <3> QED
        BY <2>2, <3>1 DEF Places
    <2>5. Results(t)' \subseteq Results(t) \cup {<<s, n + 1>>}
      <3> SUFFICES ASSUME NEW k \in DOMAIN subs, NEW i \in Places(subs'[k].results, t)
                   PROVE  <<k, i>> \in Results(t) \cup {<<s, n + 1>>}
        BY <2>3 DEF Results, Places
      <3>1. CASE k # s
        BY <2>3, <3>1 DEF Results
      <3>2. CASE k = s
        <4>1. i \in Places(old, t) \/ i = n + 1
          BY <2>3, <2>4, <3>2
        <4>2. i \in Places(old, t) => <<s, i>> \in Results(t)
          BY <1>6 DEF Results
        <4> QED
          BY <3>2, <4>1, <4>2
      <3> QED
        BY <3>1, <3>2
    <2>6. ASSUME NEW u \in Tasks, u # t PROVE Results(u)' \subseteq Results(u)
      <3> SUFFICES ASSUME NEW k \in DOMAIN subs, NEW i \in Places(subs'[k].results, u)
                   PROVE  <<k, i>> \in Results(u)
        BY <2>3 DEF Results, Places
      <3>1. CASE k # s
        BY <2>3, <3>1 DEF Results
      <3>2. CASE k = s
        <4>1. i \in Places(old, u)
          BY <2>3, <2>4, <2>6, <3>2
        <4>2. <<s, i>> \in Results(u)
          BY <1>6, <4>1 DEF Results
        <4> QED
          BY <3>2, <4>2
      <3> QED
        BY <3>1, <3>2
    <2>7. Backed'
      <3>1. /\ IsFiniteSet({}) /\ Cardinality({}) = 0
            /\ IsFiniteSet({<<s, n + 1>>}) /\ Cardinality({<<s, n + 1>>}) = 1
        BY FS_EmptySet, FS_Singleton
      <3>2. \A u \in Tasks : \E D : /\ IsFiniteSet(D) /\ Results(u)' \subseteq Results(u) \cup D
                                    /\ evals'[u] >= evals[u] + Cardinality(D)
        <4> SUFFICES ASSUME NEW u \in Tasks
                     PROVE  \E D : /\ IsFiniteSet(D) /\ Results(u)' \subseteq Results(u) \cup D
                                  /\ evals'[u] >= evals[u] + Cardinality(D)
          OBVIOUS
        <4>1. CASE u = t
          <5>1. evals'[u] >= evals[u] + Cardinality({<<s, n + 1>>})
            BY <1>4, <3>1, <4>1
          <5>2. Results(u)' \subseteq Results(u) \cup {<<s, n + 1>>}
            BY <2>5, <4>1
          <5> QED
            BY <3>1, <5>1, <5>2
        <4>2. CASE u # t
          <5>1. evals'[u] >= evals[u] + Cardinality({})
            BY <1>4, <3>1, <4>2
          <5>2. Results(u)' \subseteq Results(u) \cup {}
            BY <2>6, <4>2
          <5> QED
            BY <3>1, <5>1, <5>2
        <4> QED
          BY <4>1, <4>2
      <3> QED
        BY <1>4, <3>2, BackedStays
    <2>8. 0 \in Nat /\ t \in 0..NTasks /\ "none" \in Errors
      BY TasksAssumption DEF Errors
    <2> HIDE DEF v
    <2> QED
      BY <1>3, <1>4, <1>6, <2>1, <2>3, <2>7, <2>8, RunStep
  <1> QED
    BY <1>5, <1>6

(* The commit of a batch keeps the invariant (submit_batch). *)
LEMMA BatchCommitStep ==
  ASSUME IInv, NEW r \in Thread, UNCHANGED main, BatchCommit(r)
  PROVE  IInv'
  <1>1. /\ subs \in Seq(Sub) /\ evals \in [Tasks -> Nat] /\ thread[r] \in Serving /\ Sound(thread[r])
    BY DEF IInv, TypeOK, MockTypeOK, ThreadInv
  <1>2. thread[r].req.op = "batch" /\ thread[r].req \in Request
    BY <1>1 DEF BatchCommit, At, Sound, Serving, NoRequest
  <1>3. PICK s \in Nat, K \in Seq(Tasks) : s = thread[r].req.sub /\ K = Known(thread[r].req.answers)
    <2>1. thread[r].req.sub \in Nat /\ thread[r].req.answers \in Seq(Nat)
      BY <1>2 DEF Request
    <2> QED
      BY <2>1, KnownType
  <1> DEFINE v == [status |-> "completed", results |-> K]
  <1>4. /\ evals' = [u \in Tasks |-> evals[u] + Cardinality(Places(K, u))]
        /\ subs' = IF s \in DOMAIN subs THEN [subs EXCEPT ![s] = v] ELSE subs
        /\ Reply(r, "none", 0, 0) /\ UNCHANGED <<worlds, logs>>
    BY <1>3 DEF BatchCommit, Exists, Ok
  <1>5. v \in Sub
    BY DEF Sub
  <1>6. \A u \in Tasks : IsFiniteSet(Places(K, u)) /\ Cardinality(Places(K, u)) \in Nat
    BY PlacesFinite
  <1>7. evals' \in [Tasks -> Nat]
    <2>1. \A u \in Tasks : evals[u] + Cardinality(Places(K, u)) \in Nat
      BY <1>1, <1>6
    <2> QED
      BY <1>4, <2>1
  <1>8. \A u \in Tasks : Results(u)' \subseteq Results(u) \cup ({s} \X Places(K, u))
    <2> SUFFICES ASSUME NEW u \in Tasks, NEW k \in DOMAIN subs', NEW i \in Places(subs'[k].results, u)
                 PROVE  <<k, i>> \in Results(u) \cup ({s} \X Places(K, u))
      BY DEF Results, Places
    <2>1. /\ DOMAIN subs' = DOMAIN subs
          /\ subs'[k] = IF k = s THEN v ELSE subs[k]
      BY <1>4
    <2> QED
      BY <2>1 DEF Results
  <1>9. Backed'
    <2> SUFFICES ASSUME NEW u \in Tasks
                 PROVE  \E D : /\ IsFiniteSet(D) /\ Results(u)' \subseteq Results(u) \cup D
                              /\ evals'[u] >= evals[u] + Cardinality(D)
      BY <1>7, BackedStays
    <2> DEFINE P == Places(K, u)
    <2>1. IsFiniteSet(P) /\ Cardinality(P) \in Nat /\ evals'[u] = evals[u] + Cardinality(P) /\ evals[u] \in Nat
      BY <1>1, <1>4, <1>6
    <2>2. Results(u)' \subseteq Results(u) \cup ({s} \X P)
      BY <1>8
    <2> HIDE DEF P
    <2>3. IsFiniteSet({s}) /\ Cardinality({s}) = 1
      BY FS_Singleton
    <2>4. IsFiniteSet({s} \X P) /\ Cardinality({s} \X P) = 1 * Cardinality(P)
      BY <2>1, <2>3, FS_Product
    <2>5. evals'[u] >= evals[u] + Cardinality({s} \X P)
      BY <2>1, <2>4
    <2> QED
      BY <2>2, <2>4, <2>5
  <1>10. 0 \in Nat /\ 0 \in 0..NTasks /\ "none" \in Errors
    BY TasksAssumption DEF Errors
  <1> HIDE DEF v
  <1> QED
    BY <1>4, <1>5, <1>7, <1>9, <1>10, RunStep

(* Abort and finalize keep the invariant. *)
LEMMA CloseStep ==
  ASSUME IInv, NEW r \in Thread, UNCHANGED main, Abort(r) \/ Finalize(r)
  PROVE  IInv'
  <1>1. /\ subs \in Seq(Sub) /\ evals \in [Tasks -> Nat]
    BY DEF IInv, TypeOK, MockTypeOK
  <1>2. PICK op \in {"abort", "finalize"}, status \in {"interrupted", "completed"} :
           Close(r, op, status)
    BY DEF Abort, Finalize
  <1>3. PICK s : s = thread[r].req.sub
    OBVIOUS
  <1> DEFINE v == [subs[s] EXCEPT !.status = status]
  <1>4. /\ subs' = IF s \in DOMAIN subs THEN [subs EXCEPT ![s] = v] ELSE subs
        /\ UNCHANGED <<worlds, logs, evals>>
    BY <1>2, <1>3 DEF Close, Exists
  <1>5. s \in DOMAIN subs => v \in Sub /\ v.results = subs[s].results
    <2>1. s \in DOMAIN subs => subs[s] \in Sub
      BY <1>1
    <2> QED
      BY <2>1 DEF Sub
  <1>6. PICK e \in Errors : Reply(r, e, 0, 0)
    BY <1>2 DEF Close, Ok, Errors
  <1> HIDE DEF v
  <1>7. \A u \in Tasks : Results(u)' \subseteq Results(u)
    <2> SUFFICES ASSUME NEW u \in Tasks, NEW k \in DOMAIN subs', NEW i \in Places(subs'[k].results, u)
                 PROVE  <<k, i>> \in Results(u)
      BY DEF Results, Places
    <2>1. DOMAIN subs' = DOMAIN subs /\ subs'[k].results = subs[k].results
      BY <1>4, <1>5
    <2> QED
      BY <2>1 DEF Results
  <1>8. Backed'
    BY <1>4, <1>7, BackedKept
  <1>9. 0 \in Nat /\ 0 \in 0..NTasks
    BY TasksAssumption
  <1> QED
    BY <1>1, <1>4, <1>5, <1>6, <1>8, <1>9, RunStep

(* Every step of a thread of the simulator keeps the invariant. *)
LEMMA ServesStep ==
  ASSUME IInv, NEW r \in Thread, UNCHANGED main, Serve(r)
  PROVE  IInv'
  BY ReadsStep, LookupStep, StartInsertStep, TaskAssignStep, WorldCommitStep, LogCommitStep,
     RecordStep, BatchCommitStep, CloseStep DEF Serve

-----------------------------------------------------------------------------
(* The steps of main.py change no table, and of the threads at most the    *)
(* one it waits for.                                                       *)
LEMMA MainOnly ==
  ASSUME IInv, UNCHANGED tables, MainInv', main'.wait \in Thread => main'.pc \in Calls,
         thread' \in [Thread -> Serving], \A r \in Thread : Sound(thread'[r])
  PROVE  IInv'
  <1>1. Tables /\ Backed /\ OneWorldPerTask
    BY DEF IInv, TypeOK, MockTypeOK, Tables, Backed
  <1>2. /\ Tables' /\ Backed' /\ OneWorldPerTask'
        /\ UNCHANGED <<subs, worlds>>
    BY <1>1 DEF tables, Tables, Sub, World, Backed, ResultsBacked, Results, OneWorldPerTask,
       WorldsOf, Rows
  <1>3. Serving' = Serving
    BY <1>2 DEF Serving
  <1>4. \A r \in Thread : Sound(thread[r])'
    <2>1. \A x : Sound(x) => Sound(x)'
      BY <1>2, <1>3 DEF Sound
    <2> QED
      BY <2>1
  <1>5. ThreadInv'
    BY <1>3, <1>4 DEF ThreadInv
  <1>6. \A r \in Thread : thread'[r].pc = "idle" => thread'[r] = Idle
    BY DEF Sound
  <1>7. MockTypeOK'
    BY <1>2, <1>6 DEF MockTypeOK, Tables, At
  <1>8. TypeOK'
    BY <1>7 DEF TypeOK, MainInv, Program
  <1> QED
    BY <1>2, <1>5, <1>8 DEF IInv, Backed

(* A step of main.py keeps the invariant when it keeps its own part of it. *)
LEMMA MainMoves ==
  ASSUME IInv, MainInv', main'.wait \in Thread => main'.pc \in Calls, UNCHANGED tables,
         UNCHANGED thread \/ (\E pc : Returned(pc)) \/ GivenUp
  PROVE  IInv'
  <1>1. /\ thread \in [Thread -> Serving] /\ \A r \in Thread : Sound(thread[r])
        /\ subs \in Seq(Sub)
    BY DEF IInv, ThreadInv, TypeOK, MockTypeOK
  <1>2. Sound(Idle) /\ Idle \in Serving
    BY <1>1, SoundIdle DEF Sound
  <1>3. \A th \in Serving : Sound(th) => Sound([th EXCEPT !.heard = FALSE])
    <2> SUFFICES ASSUME NEW th \in Serving, Sound(th) PROVE Sound([th EXCEPT !.heard = FALSE])
      OBVIOUS
    <2> DEFINE to == [th EXCEPT !.heard = FALSE]
    <2>1. to \in Serving /\ to.pc = th.pc /\ to.req = th.req /\ to.row = th.row /\ to.task = th.task
          /\ to.sub = th.sub
      BY DEF Serving
    <2>2. th = Idle => to = Idle
      <3>1. Idle.heard = FALSE
        BY DEF Idle
      <3>2. [Idle EXCEPT !.heard = Idle.heard] = Idle
        BY <1>2 DEF Serving
      <3> QED
        BY <3>1, <3>2
    <2> HIDE DEF to
    <2>3. Sound(to)
      BY <2>1, <2>2 DEF Sound
    <2> QED
      BY <2>3 DEF to
  <1>4. \A th : Sound(th) => th \in Serving
    BY DEF Sound
  <1>5. \A r \in Thread : Sound(thread'[r])
    <2>1. CASE UNCHANGED thread
      BY <1>1, <2>1
    <2>2. CASE \E pc : Returned(pc)
      <3>1. thread' = [thread EXCEPT ![main.wait] = Idle]
        BY <2>2 DEF Returned
      <3> QED
        BY <1>1, <1>2, <3>1
    <2>3. CASE GivenUp
      <3>1. \A r \in Thread : thread'[r] \in {thread[r], Idle, [thread[r] EXCEPT !.heard = FALSE]}
        BY <2>3 DEF GivenUp
      <3> QED
        BY <1>1, <1>2, <1>3, <1>4, <3>1
    <2> QED
      BY <2>1, <2>2, <2>3
  <1>6. thread' \in [Thread -> Serving]
    <2>1. \E f : thread' = [r \in Thread |-> f[r]]
      <3>1. CASE UNCHANGED thread
        BY <1>1, <3>1
      <3>2. CASE \E pc : Returned(pc)
        BY <1>1, <3>2 DEF Returned
      <3>3. CASE GivenUp
        <4>1. thread' = [r \in Thread |-> IF r # main.wait THEN thread[r]
                                 ELSE IF At(r, "done") THEN Idle
                                 ELSE [thread[r] EXCEPT !.heard = FALSE]]
          BY <3>3 DEF GivenUp
        <4>2. thread' = [r \in Thread |-> thread'[r]]
          BY <4>1
        <4> QED
          BY <4>2
      <3> QED
        BY <3>1, <3>2, <3>3
    <2> QED
      BY <1>4, <1>5, <2>1
  <1> QED
    BY <1>5, <1>6, MainOnly

(* The reply main.py waits for names a run and a task, or none. *)
LEMMA AnswerType ==
  ASSUME IInv, NEW pc \in Calls, Returned(pc)
  PROVE  Answer.sub \in Nat /\ Answer.task \in 0..NTasks
  <1>1. main.wait \in Thread
    BY DEF IInv, MainInv, Program, Returned
  <1>2. thread[main.wait] \in Serving
    BY <1>1 DEF IInv, ThreadInv
  <1> QED
    BY <1>2 DEF Serving, Answer

(* A sequence over a part of a set is one over the set. *)
LEMMA SeqOfSubset ==
  ASSUME NEW T, NEW S \in SUBSET T, NEW q \in Seq(S)
  PROVE  q \in Seq(T)
  <1>1. Len(q) \in Nat /\ q = [i \in 1..Len(q) |-> q[i]] /\ \A i \in 1..Len(q) : q[i] \in T
    OBVIOUS
  <1> QED
    BY <1>1

(* The request of main.py. *)
LEMMA AskStep ==
  ASSUME IInv, Ask
  PROVE  IInv'
  <1>1. PICK r \in Thread : Receive(r, Wanted, TRUE) /\ main' = [main EXCEPT !.wait = r]
    BY DEF Ask
  <1>2. main \in Program /\ main.pc \in Calls /\ main.wait = NoThread
    BY DEF IInv, MainInv, Ask
  <1>3. Seq(Tasks) \subseteq Seq(Nat) /\ 0..NTasks \subseteq Nat /\ <<>> \in Seq(Nat)
    <2>1. Tasks \subseteq Nat /\ 0..NTasks \subseteq Nat
      BY TasksAssumption DEF Tasks
    <2>2. \A q \in Seq(Tasks) : q \in Seq(Nat)
      BY <2>1, SeqOfSubset
    <2> QED
      BY <2>1, <2>2
  <1>4. Wanted \in Request /\ (Wanted.op = "batch" => Wanted.answers = AllTasks)
    <2>1. CASE main.pc \in {"start", "restart"}
      BY <1>3, <2>1 DEF Wanted, NoRequest, Request
    <2>2. CASE main.pc = "fetch"
      BY <1>3, <2>2 DEF Wanted, NoRequest, Request
    <2>3. CASE main.pc = "submit"
      <3>1. main.task \in Nat
        BY <1>2, <1>3 DEF Program
      <3> QED
        BY <1>3, <2>3, <3>1 DEF Wanted, NoRequest, Request
    <2>4. CASE main.pc = "batch"
      <3>1. main.answers \in Seq(Tasks) /\ main.sub \in Nat
        BY <1>2 DEF Program
      <3>2. main.answers = AllTasks
        <4>1. main.answers \o <<>> = AllTasks
          BY <2>4 DEF IInv, MainInv
        <4> QED
          BY <3>1, <4>1
      <3>3. Wanted = [NoRequest EXCEPT !.op = "batch", !.sub = main.sub, !.answers = main.answers]
        BY <2>4 DEF Wanted
      <3>4. Wanted.answers = main.answers /\ Wanted \in Request
        BY <1>3, <3>1, <3>3 DEF NoRequest, Request
      <3> QED
        BY <3>2, <3>4
    <2>5. CASE main.pc \in {"clear", "abort", "giveup"}
      <3>1. main.sub \in Nat
        BY <1>2 DEF Program
      <3> QED
        BY <1>3, <2>5, <3>1 DEF Wanted, NoRequest, Request
    <2> QED
      BY <1>2, <2>1, <2>2, <2>3, <2>4, <2>5 DEF Calls
  <1>5. /\ thread \in [Thread -> Serving] /\ \A q \in Thread : Sound(thread[q])
        /\ subs \in Seq(Sub) /\ Idle \in Serving /\ UNCHANGED tables
    BY <1>1, SoundIdle DEF IInv, ThreadInv, TypeOK, MockTypeOK, Sound, Receive
  <1>6. PICK th : /\ Sound(th) /\ thread' = [thread EXCEPT ![r] = th]
    <2>1. Sound([Idle EXCEPT !.pc = Wanted.op, !.req = Wanted, !.heard = TRUE])
      BY <1>4, <1>5, ReceiveSound
    <2> QED
      BY <1>1, <2>1 DEF Receive
  <1>7. \A q \in Thread : Sound(thread'[q]) /\ thread'[q] \in Serving
    BY <1>5, <1>6 DEF Sound
  <1>8. thread' \in [Thread -> Serving]
    BY <1>5, <1>6, <1>7
  <1>9. /\ main' \in Program /\ main'.pc = main.pc /\ main'.mode = main.mode /\ main'.listed = main.listed
        /\ main'.todo = main.todo /\ main'.task = main.task /\ main'.answers = main.answers
    BY <1>1, <1>2 DEF Program
  <1>10. MainInv'
    BY <1>9 DEF IInv, MainInv, Batching
  <1> QED
    BY <1>2, <1>5, <1>7, <1>8, <1>9, <1>10, MainOnly

(* The ways a step of main.py ends: the program is over, ... *)
LEMMA StopStep ==
  ASSUME IInv, Stop, UNCHANGED tables, UNCHANGED thread \/ (\E pc : Returned(pc)) \/ GivenUp
  PROVE  IInv'
  <1>1. <<>> \in Seq(Tasks) /\ 0 \in 0..NTasks
    BY TasksAssumption
  <1>2. main' \in Program /\ main'.pc = "idle" /\ main'.wait = NoThread
    BY <1>1 DEF Stop, NotRunning, Program
  <1>3. MainInv'
    BY <1>2 DEF MainInv
  <1> QED
    BY <1>2, <1>3, ClientAssumption, MainMoves

(* ... or it goes on at a next step, ... *)
LEMMA NextStep ==
  ASSUME IInv, NEW pc \in Calls \cup {"next"}, Step(pc), UNCHANGED tables,
         UNCHANGED thread \/ (\E p : Returned(p)) \/ GivenUp,
         pc \in {"start", "clear", "restart"} => main.answers = <<>>,
         pc \in {"start", "clear", "restart", "fetch"} => ~main.listed,
         pc = "batch" => Batching /\ main.todo = <<>>,
         pc = "submit" => ~Batching,
         pc \in {"next", "batch"} /\ Batching => main.answers \o main.todo = AllTasks
  PROVE  IInv'
  <1>1. main \in Program
    BY DEF IInv, MainInv
  <1>2. /\ main' \in Program /\ main'.pc = pc /\ main'.wait = NoThread
        /\ main'.mode = main.mode /\ main'.listed = main.listed /\ main'.todo = main.todo
        /\ main'.answers = main.answers
    BY <1>1 DEF Step, Program
  <1>3. pc # "solve"
    BY DEF Calls
  <1>4. MainInv'
    BY <1>2, <1>3 DEF MainInv, Batching
  <1> QED
    BY <1>2, <1>4, ClientAssumption, MainMoves

(* ... or it has the tasks of a new run to work on. *)
LEMMA WorkStep ==
  ASSUME IInv, NEW pc \in {"start", "restart"}, NEW error, Returns(pc, error), Work(Answer.sub)
  PROVE  IInv'
  <1>1. main \in Program /\ main.pc = pc /\ main.answers = <<>>
    BY DEF IInv, MainInv, Returns, Returned
  <1>2. Answer.sub \in Nat
    BY AnswerType DEF Returns, Calls
  <1>3. AllTasks \in Seq(Tasks)
    BY TasksAssumption DEF AllTasks, Tasks
  <1>4. /\ main' \in Program /\ main'.pc = "next" /\ main'.wait = NoThread
        /\ main'.todo = AllTasks /\ main'.answers = <<>>
    BY <1>1, <1>2, <1>3 DEF Work, Program
  <1>5. <<>> \o AllTasks = AllTasks
    BY <1>3
  <1>6. MainInv'
    BY <1>4, <1>5 DEF MainInv
  <1> QED
    BY <1>4, <1>6, ClientAssumption, MainMoves DEF Returns, Returned

(* main.py keeps the invariant when the run is started. *)
LEMMA StartedStep ==
  ASSUME IInv, Started
  PROVE  IInv'
  <1>1. CASE Returns("start", "none") /\ Work(Answer.sub)
    BY <1>1, WorkStep
  <1>2. CASE /\ Returns("start", "ACTIVE_SUBMISSION_EXISTS")
             /\ main' = [main EXCEPT !.pc = "clear", !.wait = NoThread, !.sub = Answer.sub]
    <2>1. main \in Program /\ main.answers = <<>> /\ ~main.listed
      BY <1>2 DEF IInv, MainInv, Returns, Returned
    <2>2. Answer.sub \in Nat /\ Returned("start") /\ UNCHANGED tables
      BY <1>2, AnswerType DEF Returns, Returned, Calls
    <2>3. /\ main' \in Program /\ main'.pc = "clear" /\ main'.wait = NoThread
          /\ main'.answers = <<>> /\ ~main'.listed
      BY <1>2, <2>1, <2>2 DEF Program, Calls
    <2>4. MainInv'
      BY <2>3 DEF MainInv
    <2> QED
      BY <2>2, <2>3, <2>4, ClientAssumption, MainMoves
  <1>3. CASE Returns("start", "500") /\ Step("next")
    <2>1. ~main.listed /\ Returned("start") /\ UNCHANGED tables
      BY <1>3 DEF IInv, MainInv, Returns, Returned
    <2> QED
      BY <1>3, <2>1, NextStep DEF Batching
  <1>4. CASE Lost("start") /\ Stop
    BY <1>4, StopStep DEF Lost, GivenUp
  <1> QED
    BY <1>1, <1>2, <1>3, <1>4 DEF Started

(* main.py keeps the invariant when the run is cleared and started again. *)
LEMMA RestartsStep ==
  ASSUME IInv, Cleared \/ Restarted
  PROVE  IInv'
  <1>1. CASE Cleared
    <2>1. main.answers = <<>> /\ ~main.listed
      BY <1>1 DEF IInv, MainInv, Cleared, Returned, Lost
    <2> QED
      BY <1>1, <2>1, NextStep DEF Cleared, Returned, Lost, GivenUp, Calls
  <1>2. CASE Returns("restart", "none") /\ Work(Answer.sub)
    BY <1>2, WorkStep
  <1>3. CASE (Raises("restart") \/ Lost("restart")) /\ Stop
    BY <1>3, StopStep DEF Raises, Returned, Lost, GivenUp
  <1> QED
    BY <1>1, <1>2, <1>3 DEF Restarted

(* The head of a list moved to the end of another changes nothing of the   *)
(* two in a row.                                                           *)
LEMMA HeadMoves ==
  ASSUME NEW S, NEW p \in Seq(S), NEW q \in Seq(S), q # <<>>
  PROVE  Append(p, Head(q)) \o Tail(q) = p \o q
  <1> DEFINE l == Append(p, Head(q)) \o Tail(q)
             r == p \o q
             m == Len(p)
             n == Len(q)
  <1>1. /\ m \in Nat /\ n \in Nat \ {0} /\ Head(q) = q[1] /\ Head(q) \in S
        /\ Tail(q) \in Seq(S) /\ Len(Tail(q)) = n - 1
        /\ \A i \in 1..(n - 1) : Tail(q)[i] = q[i + 1]
    OBVIOUS
  <1>2. /\ Append(p, Head(q)) \in Seq(S) /\ Len(Append(p, Head(q))) = m + 1
        /\ Append(p, Head(q))[m + 1] = q[1] /\ \A i \in 1..m : Append(p, Head(q))[i] = p[i]
    BY <1>1
  <1>3. /\ l \in Seq(S) /\ r \in Seq(S) /\ Len(l) = m + n /\ Len(r) = m + n
        /\ \A i \in 1..(m + n) : /\ l[i] = IF i <= m + 1 THEN Append(p, Head(q))[i] ELSE Tail(q)[i - (m + 1)]
                                /\ r[i] = IF i <= m THEN p[i] ELSE q[i - m]
    BY <1>1, <1>2
  <1>4. \A i \in 1..(m + n) : l[i] = r[i]
    <2> SUFFICES ASSUME NEW i \in 1..(m + n) PROVE l[i] = r[i]
      OBVIOUS
    <2> HIDE DEF l, r
    <2>1. CASE i <= m
      <3>1. i \in 1..m /\ i <= m + 1
        BY <1>1, <2>1
      <3>2. l[i] = Append(p, Head(q))[i] /\ r[i] = p[i]
        BY <1>3, <2>1, <3>1
      <3>3. Append(p, Head(q))[i] = p[i]
        BY <1>2, <3>1
      <3> QED
        BY <3>2, <3>3
    <2>2. CASE i = m + 1
      BY <1>1, <1>2, <1>3, <2>2
    <2>3. CASE i > m + 1
      <3>1. i - (m + 1) \in 1..(n - 1) /\ (i - (m + 1)) + 1 = i - m
        BY <1>1, <2>3
      <3>2. l[i] = Tail(q)[i - (m + 1)] /\ r[i] = q[i - m]
        BY <1>1, <1>3, <2>3
      <3>3. Tail(q)[i - (m + 1)] = q[(i - (m + 1)) + 1]
        BY <1>1, <3>1
      <3> QED
        BY <3>1, <3>2, <3>3
    <2> QED
      BY <1>1, <2>1, <2>2, <2>3
  <1> HIDE DEF l, r
  <1>5. l = r
    BY <1>3, <1>4, SeqEqual
  <1> QED
    BY <1>5 DEF l, r

(* The tasks answered, the one at hand and those left stay all tasks. *)
LEMMA NextTaskStep ==
  ASSUME IInv, NextTask
  PROVE  IInv'
  <1>1. main \in Program /\ main.pc = "next" /\ UNCHANGED <<tables, thread>>
    BY DEF NextTask, IInv, MainInv
  <1>2. /\ main.todo \in Seq(Tasks) /\ main.answers \in Seq(Tasks)
        /\ Batching => main.answers \o main.todo = AllTasks
    BY <1>1 DEF IInv, MainInv, Program
  <1>3. CASE main.todo # <<>> /\ main' = [main EXCEPT !.pc = "solve", !.task = Head(main.todo),
                                                     !.todo = Tail(main.todo)]
    <2>1. Head(main.todo) \in 0..NTasks /\ Tail(main.todo) \in Seq(Tasks)
      <3>1. Head(main.todo) \in Tasks /\ Tail(main.todo) \in Seq(Tasks)
        BY <1>2, <1>3
      <3> QED
        BY <3>1, TasksAssumption DEF Tasks
    <2>2. Append(main.answers, Head(main.todo)) \o Tail(main.todo) = main.answers \o main.todo
      BY <1>2, <1>3, HeadMoves
    <2>3. /\ main' \in Program /\ main'.pc = "solve" /\ main'.wait = main.wait
          /\ main'.mode = main.mode /\ main'.listed = main.listed /\ main'.answers = main.answers
          /\ main'.task = Head(main.todo) /\ main'.todo = Tail(main.todo)
      BY <1>1, <1>3, <2>1 DEF Program
    <2>4. MainInv'
      BY <1>2, <2>2, <2>3 DEF MainInv, Batching
    <2>5. main'.wait \notin Thread
      BY <1>1, <2>3 DEF IInv, TypeOK, Calls
    <2> QED
      BY <1>1, <2>4, <2>5, MainMoves
  <1>4. CASE main.todo = <<>> /\ Batching /\ Step("batch")
    BY <1>1, <1>2, <1>4, NextStep DEF Calls
  <1>5. CASE Stop
    BY <1>1, <1>5, StopStep
  <1>6. CASE ~main.listed /\ Step("fetch")
    BY <1>1, <1>6, NextStep DEF Calls
  <1> QED
    BY <1>3, <1>4, <1>5, <1>6 DEF NextTask

(* main.py keeps the invariant when it has fetched a task. *)
LEMMA FetchedStep ==
  ASSUME IInv, Fetched
  PROVE  IInv'
  <1>1. CASE /\ Returns("fetch", "none")
             /\ main' = [main EXCEPT !.pc = "solve", !.wait = NoThread, !.task = Answer.task]
    <2>1. main \in Program /\ ~main.listed /\ Returned("fetch") /\ UNCHANGED tables
      BY <1>1 DEF IInv, MainInv, Returns, Returned
    <2>2. Answer.task \in 0..NTasks
      BY <2>1, AnswerType DEF Calls
    <2>3. main' \in Program /\ main'.pc = "solve" /\ main'.wait = NoThread /\ ~main'.listed
      BY <1>1, <2>1, <2>2 DEF Program
    <2>4. MainInv'
      BY <2>3 DEF MainInv, Batching
    <2> QED
      BY <2>1, <2>3, <2>4, ClientAssumption, MainMoves
  <1>2. CASE (Raises("fetch") \/ Lost("fetch")) /\ Stop
    BY <1>2, StopStep DEF Raises, Returned, Lost, GivenUp
  <1> QED
    BY <1>1, <1>2 DEF Fetched

(* main.py keeps the invariant when a task is solved or its solver raises. *)
LEMMA SolvedStep ==
  ASSUME IInv, Solved \/ SolveRaises
  PROVE  IInv'
  <1>1. main \in Program /\ main.pc = "solve" /\ UNCHANGED <<tables, thread>>
    BY DEF Solved, SolveRaises, IInv, MainInv
  <1>2. CASE Batching /\ main' = [main EXCEPT !.pc = "next", !.answers = Append(@, main.task), !.task = 0]
    <2>1. /\ main.answers \in Seq(Tasks) /\ main.todo \in Seq(Tasks) /\ main.task \in 0..NTasks
          /\ Append(main.answers, main.task) \o main.todo = AllTasks
      BY <1>1, <1>2 DEF IInv, MainInv, Program
    <2>2. main.task \in Tasks
      <3> DEFINE k == Len(main.answers) + 1
                 q == Append(main.answers, main.task)
      <3>1. q \in Seq(0..NTasks) /\ main.todo \in Seq(0..NTasks)
        <4>1. Tasks \subseteq 0..NTasks
          BY TasksAssumption DEF Tasks
        <4>2. main.answers \in Seq(0..NTasks) /\ main.todo \in Seq(0..NTasks)
          BY <2>1, <4>1, SeqOfSubset
        <4> QED
          BY <2>1, <4>2
      <3>2. Len(q) = k /\ k \in Nat \ {0} /\ q[k] = main.task
        BY <2>1
      <3> HIDE DEF q, k
      <3>3. k \in DOMAIN (q \o main.todo) /\ (q \o main.todo)[k] = main.task
        BY <3>1, <3>2
      <3>4. k \in DOMAIN AllTasks /\ AllTasks[k] = main.task
        BY <2>1, <3>3 DEF q
      <3> QED
        BY <3>4 DEF AllTasks
    <2>3. Append(main.answers, main.task) \in Seq(Tasks) /\ 0 \in 0..NTasks
      BY <2>1, <2>2, TasksAssumption
    <2>4. /\ main' \in Program /\ main'.pc = "next" /\ main'.wait = main.wait
          /\ main'.todo = main.todo /\ main'.answers = Append(main.answers, main.task)
      BY <1>1, <1>2, <2>3 DEF Program
    <2>5. MainInv'
      BY <2>1, <2>4 DEF MainInv
    <2>6. main'.wait \notin Thread
      BY <1>1, <2>4 DEF IInv, TypeOK, Calls
    <2> QED
      BY <1>1, <2>5, <2>6, MainMoves
  <1>3. CASE ~Batching /\ Step("submit")
    BY <1>1, <1>3, NextStep DEF Calls
  <1>4. CASE Step("abort") \/ Step("giveup")
    BY <1>1, <1>4, NextStep DEF Calls
  <1>5. CASE Stop
    BY <1>1, <1>5, StopStep
  <1> QED
    BY <1>2, <1>3, <1>4, <1>5 DEF Solved, SolveRaises

(* main.py keeps the invariant when a result is answered, the batch ends,  *)
(* or it is killed.                                                        *)
LEMMA EndsStep ==
  ASSUME IInv, Submitted \/ Batched \/ Aborted \/ Kill
  PROVE  IInv'
  <1>1. CASE Returns("submit", "none") /\ Step("next")
    <2>1. ~Batching /\ Returned("submit") /\ UNCHANGED tables
      BY <1>1 DEF IInv, MainInv, Returns, Returned
    <2> QED
      BY <1>1, <2>1, NextStep
  <1>2. CASE Batched /\ Step("abort")
    BY <1>2, NextStep DEF Batched, Returns, Raises, Returned, Lost, GivenUp, Calls
  <1>3. CASE (Submitted \/ Batched \/ Aborted \/ Kill) /\ Stop
    BY <1>3, StopStep DEF Submitted, Batched, Aborted, Kill, Returns, Raises, Returned, Lost, GivenUp
  <1> QED
    BY <1>1, <1>2, <1>3 DEF Submitted, Batched, Aborted, Kill

(* The launch of main.py keeps the invariant. *)
LEMMA LaunchStep ==
  ASSUME IInv, NEW mode \in {"practice", "submission"}, Launch(mode)
  PROVE  IInv'
  <1>1. <<>> \in Seq(Tasks) /\ 0 \in 0..NTasks
    BY TasksAssumption
  <1>2. /\ main' \in Program /\ main'.pc = "start" /\ main'.wait = NoThread
        /\ main'.answers = <<>> /\ ~main'.listed
    BY <1>1 DEF Launch, NotRunning, Program, Calls
  <1>3. MainInv'
    BY <1>2 DEF MainInv
  <1> QED
    BY <1>2, <1>3, ClientAssumption, MainMoves DEF Launch

-----------------------------------------------------------------------------
(* The invariant holds at the start. *)
LEMMA InitHolds == Init => IInv
  <1> SUFFICES ASSUME Init PROVE IInv
    OBVIOUS
  <1>1. /\ subs = <<>> /\ worlds = <<>> /\ logs = <<>> /\ evals = [t \in Tasks |-> 0]
        /\ thread = [r \in Thread |-> Idle]
    BY DEF Init, MockInit
  <1>2. Tables
    BY <1>1 DEF Tables
  <1>3. Sound(Idle) /\ Idle \in Serving
    BY <1>2, SoundIdle DEF Tables, Sound
  <1>4. ThreadInv /\ MockTypeOK
    BY <1>1, <1>2, <1>3 DEF ThreadInv, MockTypeOK, Tables
  <1>5. <<>> \in Seq(Tasks) /\ 0 \in 0..NTasks
    BY TasksAssumption
  <1>6. main \in Program /\ main.pc \in {"idle", "unused"} /\ main.wait = NoThread
    <2>1. NotRunning \in Program /\ NotRunning.pc = "idle" /\ NotRunning.wait = NoThread
      BY <1>5 DEF NotRunning, Program
    <2>2. NotUsed \in Program /\ NotUsed.pc = "unused" /\ NotUsed.wait = NoThread
      BY <1>5, <2>1 DEF NotUsed, NotRunning, Program
    <2> QED
      BY <2>1, <2>2 DEF Init
  <1>7. MainInv
    BY <1>6 DEF MainInv, Calls
  <1>8. TypeOK
    BY <1>4, <1>6, ClientAssumption DEF TypeOK
  <1>9. OneWorldPerTask
    BY <1>1 DEF OneWorldPerTask
  <1>10. \A t \in Tasks : Results(t) = {} /\ evals[t] = 0
    BY <1>1 DEF Results
  <1>11. IsFiniteSet({}) /\ Cardinality({}) = 0
    BY FS_EmptySet
  <1>12. ResultsBacked /\ \A t \in Tasks : IsFiniteSet(Results(t))
    BY <1>10, <1>11 DEF ResultsBacked
  <1> QED
    BY <1>4, <1>7, <1>8, <1>9, <1>12 DEF IInv

(* Every step keeps the invariant. *)
LEMMA StepHolds ==
  ASSUME IInv, [Next]_vars
  PROVE  IInv'
  <1>1. CASE UNCHANGED vars
    <2>1. UNCHANGED <<tables, thread, main>>
      BY <1>1 DEF vars, tables
    <2>2. MainInv' /\ main'.wait = main.wait /\ main'.pc = main.pc
      BY <2>1 DEF IInv, MainInv, Batching
    <2> QED
      BY <2>1, <2>2, MainMoves DEF IInv, TypeOK
  <1>2. CASE Next
    BY <1>2, LaunchStep, AskStep, StartedStep, RestartsStep, NextTaskStep, FetchedStep, SolvedStep,
       EndsStep, ServesStep, ReceiveStep DEF Next, MainStep
  <1> QED
    BY <1>1, <1>2

(* The inductive invariant holds of every behaviour of the simulator with  *)
(* main.py and a second client.                                            *)
THEOREM InvariantHolds == Spec => []IInv
  <1>1. Init => IInv
    BY InitHolds
  <1>2. IInv /\ [Next]_vars => IInv'
    BY StepHolds
  <1> QED
    BY <1>1, <1>2, PTL DEF Spec

(* Tables, threads and main.py keep the types of their columns and fields. *)
THEOREM TypesHold == Spec => []TypeOK
  <1>1. IInv => TypeOK
    BY DEF IInv
  <1> QED
    BY <1>1, InvariantHolds, PTL

(* A run of the simulator has one world for each task, however starts of   *)
(* runs and of tasks race (server.py: start_submission, start_task).       *)
THEOREM OneWorldHolds == Spec => []OneWorldPerTask
  <1>1. IInv => OneWorldPerTask
    BY DEF IInv
  <1> QED
    BY <1>1, InvariantHolds, PTL

(* Every result of a run has an evaluation of its own on the dashboard     *)
(* (server.py: submit_task, submit_batch).                                 *)
THEOREM ResultsBackedHolds == Spec => []ResultsBacked
  <1>1. IInv => ResultsBacked
    BY DEF IInv
  <1> QED
    BY <1>1, InvariantHolds, PTL

-----------------------------------------------------------------------------
(* What one step does to the results of a run. *)
Kept(s) ==
  \/ subs'[s].results = subs[s].results
  \/ \E t \in Tasks : subs'[s].results = Append(subs[s].results, t)
  \/ subs'[s] = [status |-> "completed", results |-> AllTasks]
  \/ \E q \in Others \cup Free : q.op = "batch" /\ q.sub = s /\ subs'[s].results = Known(q.answers)

(* A step of a thread keeps the results of every run. *)
LEMMA ServeKeeps ==
  ASSUME IInv, NEW r \in Thread, Serve(r), NEW s \in DOMAIN subs
  PROVE  Kept(s)
  <1>1. subs \in Seq(Sub) /\ thread[r] \in Serving /\ Sound(thread[r]) /\ subs[s] \in Sub
    BY DEF IInv, TypeOK, MockTypeOK, ThreadInv
  <1>2. CASE UNCHANGED subs
    BY <1>2 DEF Kept
  <1>3. CASE StartInsert(r)
    <2>1. \A x : Append(subs, x)[s] = subs[s]
      BY <1>1
    <2> QED
      BY <1>3, <2>1 DEF StartInsert, Kept
  <1>4. CASE Record(r)
    <2>1. thread[r].task \in Tasks
      BY <1>1, <1>4, TasksAssumption DEF Record, At, Sound, Serving, Tasks
    <2> DEFINE v == Append(subs[s].results, thread[r].task)
    <2>2. subs'[s].results \in {subs[s].results, v}
      <3>1. CASE UNCHANGED subs
        BY <3>1
      <3>2. CASE subs' = [subs EXCEPT ![thread[r].sub].results = Append(@, thread[r].task)]
        <4>1. CASE s = thread[r].sub
          <5>1. subs'[s] = [subs[s] EXCEPT !.results = v]
            BY <1>1, <3>2, <4>1
          <5> HIDE DEF v
          <5> QED
            BY <1>1, <5>1 DEF Sub
        <4>2. CASE s # thread[r].sub
          BY <1>1, <3>2, <4>2
        <4> QED
          BY <4>1, <4>2
      <3> QED
        BY <1>4, <3>1, <3>2 DEF Record
    <2> QED
      BY <2>1, <2>2 DEF Kept
  <1>5. CASE BatchCommit(r)
    <2> DEFINE q == thread[r].req
               v == [status |-> "completed", results |-> Known(q.answers)]
    <2>1. q.op = "batch" /\ (q \in Others \cup Free \/ q.answers = AllTasks)
      BY <1>1, <1>5 DEF BatchCommit, At, Sound
    <2>2. Known(AllTasks) = AllTasks
      <3>1. AllTasks \in Seq(Tasks)
        BY TasksAssumption DEF AllTasks, Tasks
      <3>2. {i \in DOMAIN AllTasks : AllTasks[i] \in Tasks} = DOMAIN AllTasks
        BY DEF AllTasks
      <3> QED
        BY <3>1, <3>2, PickedAll DEF Known
    <2>3. UNCHANGED subs \/ subs' = [subs EXCEPT ![q.sub] = v]
      BY <1>5 DEF BatchCommit
    <2>4. CASE s = q.sub /\ subs' = [subs EXCEPT ![q.sub] = v]
      <3>1. subs'[s] = v
        BY <2>4
      <3>2. v.results = Known(q.answers)
        OBVIOUS
      <3>3. CASE q.answers = AllTasks
        BY <2>2, <3>1, <3>3 DEF Kept
      <3>4. CASE q \in Others \cup Free
        <4> HIDE DEF v
        <4> QED
          BY <2>1, <2>4, <3>1, <3>2, <3>4 DEF Kept
      <3> QED
        BY <2>1, <3>3, <3>4
    <2>5. CASE s # q.sub /\ subs' = [subs EXCEPT ![q.sub] = v]
      <3>1. subs'[s] = subs[s]
        BY <1>1, <2>5
      <3> QED
        BY <3>1 DEF Kept
    <2> QED
      BY <1>2, <2>3, <2>4, <2>5
  <1>6. CASE Abort(r) \/ Finalize(r)
    <2>1. PICK k, status : UNCHANGED subs \/ subs' = [subs EXCEPT ![k].status = status]
      BY <1>6 DEF Abort, Finalize, Close
    <2>2. subs'[s].results = subs[s].results
      <3>1. CASE UNCHANGED subs
        BY <3>1
      <3>2. CASE subs' = [subs EXCEPT ![k].status = status]
        <4>1. subs'[s] = IF s = k THEN [subs[s] EXCEPT !.status = status] ELSE subs[s]
          BY <1>1, <3>2
        <4> QED
          BY <1>1, <4>1 DEF Sub
      <3> QED
        BY <2>1, <3>1, <3>2
    <2> QED
      BY <2>2 DEF Kept
  <1> QED
    BY <1>2, <1>3, <1>4, <1>5, <1>6 DEF Serve, StartCheck, TaskFind, TaskPick, TaskAssign, Lookup,
       Decide, WorldCommit, LogCommit, BatchCheck, Locked, tables

(* Results of a run are only added to, until a batch replaces them: that   *)
(* of main.py by results of all tasks (server.py: submit_batch).           *)
THEOREM ResultsNeverLostHolds == Spec => ResultsNeverLost
  <1>1. ASSUME IInv, [Next]_vars, NEW s \in DOMAIN subs PROVE Kept(s)
    <2>1. CASE UNCHANGED subs
      BY <2>1 DEF Kept
    <2>2. CASE \E r \in Thread : Serve(r)
      BY <1>1, <2>2, ServeKeeps
    <2> QED
      BY <1>1, <2>1, <2>2 DEF Next, MainStep, Launch, Ask, Receive, Started, Cleared, Restarted, NextTask,
         Fetched, Solved, SolveRaises, Submitted, Batched, Aborted, Kill, Returns, Raises, Returned,
         Lost, GivenUp, tables, vars
  <1>2. IInv /\ [Next]_vars => [\A s \in DOMAIN subs : Kept(s)]_subs
    BY <1>1
  <1>3. IInv /\ [Next]_vars =>
          [\A s \in DOMAIN subs :
            \/ subs'[s].results = subs[s].results
            \/ \E t \in Tasks : subs'[s].results = Append(subs[s].results, t)
            \/ subs'[s] = [status |-> "completed", results |-> AllTasks]
            \/ \E q \in Others \cup Free : /\ q.op = "batch" /\ q.sub = s
                                          /\ subs'[s].results = Known(q.answers)]_subs
    BY <1>2 DEF Kept
  <1> QED
    BY <1>3, InvariantHolds, PTL DEF Spec, ResultsNeverLost
=============================================================================
