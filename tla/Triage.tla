------------------------------- MODULE Triage -------------------------------
(***************************************************************************)
(* One task of a team over its runs: the tools the participant calls, the  *)
(* mailbox world the actions change, and the score its answers would earn. *)
(* Every run has an assignment of its own, with a copy of the task's seed; *)
(* the escalation check reads the team's calls of all runs, the scoring    *)
(* those of the run.  The limits, timeouts and locks around a call are in  *)
(* TaskRuntime.                                                            *)
(***************************************************************************)
EXTENDS Evaluation

CONSTANTS
  Employees, Domains,   \* the identifiers lookup and inspection can show
  Messages, Threads,    \* identifiers the participant can name
  Calls,                \* the calls it makes: tool, arg, and the ids its reason cites
  ThreadOf,             \* the messages of each thread
  Truths,               \* the ground truths a task may have
  Answers,              \* what the participant may submit
  Padding,              \* sequences of names that are in no directory
  MaxRuns, MaxCalls     \* bounds of the exploration

VARIABLES truth, run, logs, world

vars == <<truth, run, logs, world>>

Id == Employees \cup Domains \cup Messages \cup Threads

Seed == [delivery |-> "none", actions |-> <<>>]

Effect == [t \in Action |->
  CASE t = "allow_and_deliver"     -> "delivered"
    [] t = "apply_warning_banner"  -> "warning_applied"
    [] t = "quarantine_message"    -> "quarantined"
    [] t = "escalate_to_tier2_soc" -> "escalated_to_soc"]

ReadOnly == {"lookup_directory", "get_approved_domains", "get_email_headers",
             "inspect_domain_reputation", "get_thread_history"}

(* The identifiers in the response of an accepted call.  The approved      *)
(* domains come as names; headers, threads and actions echo the identifier *)
(* asked for, whether it exists or not.                                    *)
Shown(c) ==
  CASE c.tool = "get_approved_domains" -> {}
    [] c.tool = "get_thread_history"   ->
         ({c.arg} \ {NoId}) \cup UNION {ThreadOf[t] : t \in Threads \cap {c.arg}}
    [] OTHER -> {c.arg} \ {NoId}

(* The identifiers of the tool responses as the escalation check reads     *)
(* them: its pattern stops at a second hyphen, which message and thread    *)
(* identifiers have (MSG-HIDDEN-007), so it keeps their prefix only.       *)
Stem(id) == CASE id \in Messages -> "MSG-HIDDEN" [] id \in Threads -> "THR-HIDDEN" [] OTHER -> id
Retrieved == {Stem(i) : i \in UNION {l.shows : l \in ToSet(logs)}}
Grounded(c) == {Stem(i) : i \in c.cites} \cap Retrieved # {}

Rejected(c) == c.tool = "escalate_to_tier2_soc" /\ ~Grounded(c)

LogOf(c) ==
  [run |-> run, tool |-> c.tool, arg |-> c.arg, cites |-> c.cites,
   byId |-> c.tool \notin {"lookup_directory", "get_approved_domains", "inspect_domain_reputation"},
   shows |-> IF Rejected(c) THEN {} ELSE Shown(c),
   rejected |-> Rejected(c)]

WorldAfter(c) ==
  IF c.tool \in Action /\ ~Rejected(c)
  THEN [delivery |-> Effect[c.tool], actions |-> Append(world.actions, c.tool)]
  ELSE world

OfRun(ls, r) == Picked(ls, {i \in DOMAIN ls : ls[i].run = r})
Now == OfRun(logs, run)

Score(answer) == Aggregate(answer, truth, Now)

-----------------------------------------------------------------------------
(* The run may have looked up some names that are in no directory already. *)
Strangers == UNION {ToSet(p) : p \in Padding}

(* What the participant may call and submit, and what a ground truth says. *)
Call == [tool : ReadOnly \cup Action, arg : Id \cup {NoId}, cites : SUBSET Id]
Summary == [sized : BOOLEAN, grounded : BOOLEAN, claims : SUBSET Decision, words : SUBSET Decision]
Answer == [decision : Decision \cup {"none"}, escalation : BOOLEAN, evidence : Seq(Id \cup Strangers),
           confidence : Int, summary : Summary]
Truth == [expected : Decision \cup {"none"}, required : SUBSET Id, mustEscalate : BOOLEAN,
          message : Messages, tool : Action \cup {"none"}, target : Id \cup {NoId}]

ASSUME TriageAssumption ==
  /\ IsFiniteSet(Id) /\ NoId \notin Id /\ ThreadOf \in [Threads -> SUBSET Messages]
  /\ Calls \subseteq Call
  /\ Truths \subseteq Truth /\ Answers \subseteq Answer
  /\ Padding \subseteq Seq(Strangers) /\ Strangers \cap (Id \cup {NoId}) = {}

Init ==
  /\ truth \in Truths
  /\ run = 1
  /\ \E p \in Padding :
       logs = [i \in DOMAIN p |-> [run |-> 1, tool |-> "lookup_directory", arg |-> p[i], cites |-> {},
                                   byId |-> FALSE, shows |-> {}, rejected |-> FALSE]]
  /\ world = Seed

CallTool(c) ==
  /\ Cardinality({i \in DOMAIN logs : logs[i].arg \notin Strangers}) < MaxCalls
  /\ logs' = Append(logs, LogOf(c))
  /\ world' = WorldAfter(c)
  /\ UNCHANGED <<truth, run>>

(* The seed is shared by the assignments instead of copied for each.  *)
AssignTaskMutant ==
  /\ run < MaxRuns
  /\ run' = run + 1
  /\ UNCHANGED <<truth, logs, world>>

(* The next run of the team assigns the task anew.  *)
AssignTask ==
  /\ run < MaxRuns
  /\ run' = run + 1
  /\ world' = Seed
  /\ UNCHANGED <<truth, logs>>

Next == AssignTask \/ \E c \in Calls : CallTool(c)

Spec == Init /\ [][Next]_vars

-----------------------------------------------------------------------------
(* The world of a run is what its log says: it holds the actions of the    *)
(* run that were not rejected, in their order, and its delivery status is  *)
(* the effect of the last of them.  A rejected escalation, a read and the  *)
(* runs before leave no trace (run_tool, apply_action_to_world).           *)
WorldFollowsLog ==
  LET done == Picked(logs, {i \in DOMAIN logs : /\ logs[i].run = run /\ ~logs[i].rejected
                                                /\ logs[i].tool \in Action})
  IN /\ world.actions = [i \in DOMAIN done |-> done[i].tool]
     /\ world.delivery = IF done = <<>> THEN "none" ELSE Effect[Last(done).tool]

(* The evidence score is the Dice coefficient of the citations and the     *)
(* required identifiers, only observed ones being right: the harmonic mean *)
(* of the code has no case, an empty side included, in which it differs    *)
(* from it (sz_score_evidence).                                            *)
EvidenceIsDice ==
  LET observed == Observed(Now, truth)
      right(cited) == Cardinality(cited \cap observed \cap truth.required)
      total(cited) == Cardinality(cited) + Cardinality(truth.required)
  IN \A cited \in SUBSET (truth.required \cup Messages) :
       Evidence(cited, truth.required, observed) =
         IF total(cited) = 0 THEN One ELSE (2 * right(cited) * One) \div total(cited)

(* Citing one more identifier that the run has not observed never raises   *)
(* the score of an answer, even when the ground truth requires it: the     *)
(* participant gains nothing by guessing (evidence and robustness).        *)
FabricationNeverPays ==
  \A a \in Answers, i \in Id \ Observed(Now, truth) :
    Score([a EXCEPT !.evidence = Append(@, i)]) <= Score(a)

(* All else equal, the expected decision scores at least as much as the    *)
(* similar one, and that at least as much as any other: the full policy    *)
(* alignment that sz_score_policy leaves to a dissimilar wrong decision    *)
(* never outweighs the partial task success of the similar one.            *)
DecisionsRank ==
  LET deciding(a, d) == [a EXCEPT !.decision = d, !.summary.words = {}, !.summary.claims = {}]
      e == truth.expected
  IN \A a \in {b \in Answers : b.decision = e}, d \in Decision \ {e} :
       /\ Score(deciding(a, d)) <= Score(deciding(a, e))
       /\ \A s \in Decision \ {d, e} : Similar(s, e) => Score(deciding(a, d)) <= Score(deciding(a, s))

(* Within a run no call makes the evidence of an answer worse: what the    *)
(* participant has once observed it may cite to the end.                   *)
EvidenceNeverLost ==
  [][run' = run => \A a \in Answers :
       LET evidence(ls) == Evidence(ToSet(a.evidence), truth.required, Observed(ls, truth))
       IN evidence(OfRun(logs', run)) >= evidence(Now)]_vars

(* Repeating a read of the run never raises the score of an answer: the    *)
(* repeated call adds nothing to the evidence and takes from the           *)
(* efficiency, below and above the six free calls alike.                   *)
Repeats(l) == l.tool \in ReadOnly /\ \E m \in ToSet(Now) : SameCall(l, m)
RepeatedReadNeverPays ==
  [][logs' # logs /\ Repeats(Last(logs')) => \A a \in Answers :
       Aggregate(a, truth, OfRun(logs', run)) <= Score(a)]_vars

(* The inductive invariant: the log is that of the runs so far, and shows  *)
(* for a read what the identifier asked for shows.                         *)
Log == [run : Nat, tool : ReadOnly \cup Action, arg : Id \cup Strangers \cup {NoId}, cites : SUBSET Id,
        byId : BOOLEAN, shows : SUBSET Id, rejected : BOOLEAN]
TypeOK ==
  /\ truth \in Truths /\ run \in Nat \ {0} /\ logs \in Seq(Log)
  /\ world \in [delivery : {"none"} \cup {Effect[t] : t \in Action}, actions : Seq(Action)]
LogsInv ==
  \A i \in DOMAIN logs :
    /\ logs[i].run <= run
    /\ logs[i].byId = (logs[i].tool \notin {"lookup_directory", "get_approved_domains",
                                            "inspect_domain_reputation"})
    /\ logs[i].tool \in ReadOnly => ~logs[i].rejected
    /\ logs[i].tool \in ReadOnly /\ logs[i].arg \notin Strangers => logs[i].shows = Shown(logs[i])
IInv == TypeOK /\ LogsInv /\ WorldFollowsLog

-----------------------------------------------------------------------------
(* Hypotheses of the theorems, each met by the instance checked. *)

(* The unit One is divisible by the numbers of identifiers it is shared    *)
(* between.                                                                *)
ExactShares == \A t \in Truths : Cardinality(t.required \cup Messages) <= 10

(* The weights under which decisions rank: task success weighs twice as    *)
(* much as the policy, and outweighs calibration twice and a fifth of the  *)
(* policy besides.                                                         *)
SuccessOutweighs ==
  /\ Weights["task_success"] >= 2 * Weights["policy"]
  /\ 5 * Weights["task_success"] >= 10 * Weights["calibration"] + Weights["policy"]

(* Every ground truth expects one of the four decisions. *)
TruthsDecided == \A t \in Truths : t.expected \in Decision
=============================================================================
