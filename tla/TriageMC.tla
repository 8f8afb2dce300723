------------------------------ MODULE TriageMC ------------------------------
(***************************************************************************)
(* A task with one employee, one domain, a thread of two messages and a    *)
(* message of another task, three ground truths of the hidden data set and *)
(* a family of answers.                                                    *)
(***************************************************************************)
EXTENDS Triage

DefaultWeights == [d \in Dimension |->
  CASE d = "task_success" -> 35 [] d \in {"policy", "evidence"} -> 15
    [] d = "robustness" -> 5 [] OTHER -> 10]

OneThread == [t \in Threads |-> {"m1", "m2"}]

TruthOf(expected, required, must) ==
  [expected |-> expected, required |-> required, mustEscalate |-> must, message |-> "m1",
   tool |-> ActionOf[expected], target |-> "m1"]
HiddenTruths ==
  {TruthOf("quarantine", {"m1", "t1", "d1"}, FALSE), TruthOf("allow", {"m1", "e1"}, FALSE),
   TruthOf("escalate", {"m1", "m2"}, TRUE)}

CallOf(tool, arg, cites) == [tool |-> tool, arg |-> arg, cites |-> cites]
SomeCalls ==
  {CallOf("lookup_directory", "e1", {}), CallOf("get_approved_domains", NoId, {}),
   CallOf("get_email_headers", "m3", {}), CallOf("inspect_domain_reputation", "d1", {}),
   CallOf("get_thread_history", "t1", {}), CallOf("allow_and_deliver", "m1", {}),
   CallOf("apply_warning_banner", "m1", {})}
  \cup {CallOf("quarantine_message", m, {}) : m \in {"m1", "m3"}}
  \cup {CallOf("escalate_to_tier2_soc", "m1", c) : c \in {{}, {"e1"}, {"m1"}}}

SomeStrangers == {<<>>, <<"x1", "x2", "x3", "x4">>}

Terse == [sized |-> FALSE, grounded |-> TRUE, claims |-> {}, words |-> {}]
Wordy == [sized |-> TRUE, grounded |-> TRUE, claims |-> {"quarantine"}, words |-> {"quarantine"}]
FewAnswers ==
  [decision : Decision \cup {"none"}, escalation : {TRUE}, evidence : {<<"m1", "e1">>},
   confidence : {(3 * One) \div 4}, summary : {Wordy}]
  \cup [decision : {"allow", "quarantine", "escalate"}, escalation : {FALSE}, evidence : {<<>>, <<"m3", "d1", "d1">>},
        confidence : {-1}, summary : {Terse}]

(* The hypotheses of the theorems hold of this instance. *)
ASSUME Hypotheses == ExactShares /\ SuccessOutweighs /\ TruthsDecided
=============================================================================
