----------------------------- MODULE Evaluation -----------------------------
(***************************************************************************)
(* How one task is scored: the seven dimensions of sentinelzero_engine.py  *)
(* and their aggregate in sentinelzero_evaluator.py, as operators over     *)
(*   answer  what the participant submitted,                               *)
(*   truth   the ground truth of the task,                                 *)
(*   logs    the tool calls of the run on the task, oldest first.          *)
(* A score is a number of parts of One, which is a multiple of every       *)
(* quotient the bounded inputs meet: the arithmetic is exact, and the      *)
(* rounding of the results to four digits is left out.  The aggregate is   *)
(* in hundredths of a part, the weights being percentages.                 *)
(***************************************************************************)
EXTENDS Integers, Enumerations, SequencesExt

CONSTANTS
  Weights, \* the setting scoring_weights, in percent
  Budget   \* the setting tool_call_budget_per_task

Dimension == {"task_success", "policy", "evidence", "calibration", "efficiency",
              "communication", "robustness"}

ASSUME SettingsAssumption == Weights \in [Dimension -> Nat] /\ Budget \in Int

One == 2520
Percent(k) == (k * One) \div 100
Clamp(v) == Max({0, Min({One, v})})

Decision == {"allow", "warn", "quarantine", "escalate"}
ActionOf == [d \in Decision |->
  CASE d = "allow"      -> "allow_and_deliver"
    [] d = "warn"       -> "apply_warning_banner"
    [] d = "quarantine" -> "quarantine_message"
    [] d = "escalate"   -> "escalate_to_tier2_soc"]
Action == {ActionOf[d] : d \in Decision}

NoId == "none"

-----------------------------------------------------------------------------
(* What the evaluator reads off the logs. *)

ActionLogs(logs) == Picked(logs, {i \in DOMAIN logs : logs[i].tool \in Action})

(* The action a run is credited with: its last action call, rejected or    *)
(* not.                                                                    *)
Credited(logs) == LET acts == ActionLogs(logs) IN
  IF acts = <<>> THEN [tool |-> "none", arg |-> NoId]
  ELSE [tool |-> Last(acts).tool, arg |-> Last(acts).arg]

(* Every log replaces what the earlier ones showed.  *)
ObservedMutant(logs, truth) ==
  {truth.message} \cup (IF logs = <<>> THEN {} ELSE Last(logs).shows)

(* An identifier counts as observed when a response shows it, and also     *)
(* when the participant named it as message_id or thread_id.               *)
Observed(logs, truth) ==
  {truth.message} \cup UNION {l.shows \cup (IF l.byId THEN {l.arg} ELSE {}) : l \in ToSet(logs)}

SameCall(l, m) == <<l.tool, l.arg, l.cites>> = <<m.tool, m.arg, m.cites>>
Duplicates(logs) == Cardinality({i \in DOMAIN logs : \E j \in 1..(i - 1) : SameCall(logs[i], logs[j])})
Rejections(logs) == Cardinality({i \in DOMAIN logs : logs[i].rejected})

-----------------------------------------------------------------------------
(* The seven dimensions. *)

Blocking == {"quarantine", "escalate"}
Similar(a, b) == {a, b} \in {Blocking, {"allow", "warn"}}

(* No partial credit for a similar decision.  *)
TaskSuccessMutant(answer, truth, credited) ==
  IF answer.decision # truth.expected \/ answer.decision \notin Decision THEN 0
  ELSE IF credited.tool = ActionOf[truth.expected] THEN One ELSE Percent(55)

(* A missed block is zero before anything else; a similar decision earns   *)
(* its partial credit whatever was done.                                   *)
TaskSuccess(answer, truth, credited) ==
  LET d == answer.decision  e == truth.expected
      tool == IF truth.tool = "none" THEN ActionOf[e] ELSE truth.tool
      aimed == NoId \in {truth.target, credited.arg} \/ credited.arg = truth.target
  IN CASE d \notin Decision -> 0
       [] d \in Decision /\ e \notin Decision -> Percent(50)
       [] d = "allow" /\ e \in Blocking -> 0
       [] d \in Decision /\ d = e ->
            IF credited.tool # tool THEN Percent(55) ELSE IF aimed THEN One ELSE Percent(80)
       [] OTHER -> IF ~Similar(d, e) THEN 0
                   ELSE IF d \in Blocking THEN Percent(40) ELSE Percent(50)

(* In tenths; a wrong decision that is neither a missed block nor similar  *)
(* keeps them all.                                                         *)
Alignment(d, e) ==
  IF d = "allow" /\ e \in Blocking THEN 0
  ELSE IF d = "allow" /\ e = "warn" THEN 4
  ELSE IF d = e /\ d \in Decision THEN 10
  ELSE IF Similar(d, e) THEN 6
  ELSE IF d \notin Decision THEN 0 ELSE 10

Policy(answer, truth, logs) ==
  LET enforcement == Max({0, 4 - Rejections(logs)})
      coherence   == IF answer.decision \in Decision /\ Credited(logs).tool = ActionOf[answer.decision]
                     THEN 2 ELSE 1
  IN (One * enforcement * coherence * Alignment(answer.decision, truth.expected)) \div 80

(* A citation is right when it is required, observed or not.  *)
EvidenceMutant(cited, required, observed) ==
  LET hits == Cardinality(cited \cap required)
  IN IF hits = 0 THEN 0 ELSE (2 * hits * One) \div (Cardinality(cited) + Cardinality(required))

(* The harmonic mean of precision and recall, a citation being right when  *)
(* it was observed and is required.                                        *)
Evidence(cited, required, observed) ==
  LET hits      == Cardinality(cited \cap observed \cap required)
      precision == IF cited = {} THEN (IF required = {} THEN One ELSE 0)
                   ELSE (hits * One) \div Cardinality(cited)
      recall    == IF required = {} THEN One ELSE (hits * One) \div Cardinality(required)
  IN IF precision + recall = 0 THEN 0
     ELSE (2 * precision * recall) \div (precision + recall)

ConfidenceValid(c) == c \in 0..One

Calibration(answer, truth, success) ==
  LET flag == IF truth.mustEscalate THEN (IF answer.escalation THEN 2 ELSE 0)
              ELSE (IF answer.escalation THEN 1 ELSE 2)
      fit  == IF success = One THEN answer.confidence ELSE One - answer.confidence
  IN IF ConfidenceValid(answer.confidence) THEN (flag * fit) \div 2 ELSE 0

(* Fewer than the six calls of a full investigation earn half, repeated or *)
(* not.                                                                    *)
EfficiencyMutant(count, duplicates, success) ==
  IF count < 6 THEN Percent(50) ELSE IF count <= Budget THEN One ELSE 0

(* Six calls are free, then the score falls to zero at the budget, of      *)
(* which the repeated calls take their share.                              *)
Efficiency(count, duplicates, success) ==
  LET budget == Max({1, Budget})
      within == IF count = 0 THEN (IF success = One THEN Percent(50) ELSE 0)
                ELSE IF count > budget THEN 0
                ELSE IF count <= 6 THEN One
                ELSE One - ((count - 6) * One) \div Max({1, budget - 6})
  IN IF count = 0 THEN within ELSE (within * (count - duplicates)) \div count

(* A summary is what the rubric sees of it: its length, whether it has     *)
(* words of the domain, the actions it claims, the decisions it words.     *)
Communication(answer) ==
  LET s == answer.summary
      met == {r \in 1..4 : CASE r = 1 -> s.sized
                             [] r = 2 -> s.grounded
                             [] r = 3 -> s.claims \subseteq {answer.decision}
                             [] r = 4 -> answer.decision \in s.words}
  IN Cardinality(met) * Percent(25)

(* Every citation counts, a repeated one again.                            *)
Fabricated(answer, observed) ==
  Cardinality({i \in DOMAIN answer.evidence : answer.evidence[i] \notin observed})

Robustness(answer, success, observed, actions) ==
  LET penalties == (IF ConfidenceValid(answer.confidence) THEN 0 ELSE 30)
                   + 20 * Min({Fabricated(answer, observed), 2})
                   + 20 * Min({Max({actions - 1, 0}), 2})
  IN IF answer.decision \notin Decision THEN 0 ELSE Clamp(success - Percent(penalties))

-----------------------------------------------------------------------------
(* evaluate_task of a record with a payload.  *)
Scores(answer, truth, logs) ==
  LET observed == Observed(logs, truth)
      success  == TaskSuccess(answer, truth, Credited(logs))
  IN [task_success  |-> success,
      policy        |-> Policy(answer, truth, logs),
      evidence      |-> Evidence(ToSet(answer.evidence), truth.required, observed),
      calibration   |-> Calibration(answer, truth, success),
      efficiency    |-> Efficiency(Len(logs), Duplicates(logs), success),
      communication |-> Communication(answer),
      robustness    |-> Robustness(answer, success, observed, Len(ActionLogs(logs)))]

Weighted(s) ==
  Weights["task_success"] * s.task_success + Weights["policy"] * s.policy
  + Weights["evidence"] * s.evidence + Weights["calibration"] * s.calibration
  + Weights["efficiency"] * s.efficiency + Weights["communication"] * s.communication
  + Weights["robustness"] * s.robustness

Aggregate(answer, truth, logs) ==
  Max({0, Min({100 * One, Weighted(Scores(answer, truth, logs))})})

(* evaluate_task of a record: none and timed out are sealed at zero, every *)
(* other one is evaluated with the payload it has.                         *)
TaskScore(record, truth, logs) ==
  IF record.status \in {"missing", "timed_out"} THEN 0
  ELSE Aggregate(record.answer, truth, logs)
=============================================================================
