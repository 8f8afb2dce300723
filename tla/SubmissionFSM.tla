---------------------------- MODULE SubmissionFSM ----------------------------
(***************************************************************************)
(* What the arena promises about submissions, with no request, lock or     *)
(* transaction in sight: the state machine of submissions.status, and when *)
(* a score may appear.  SubmissionLifecycle, with its requests and locks,  *)
(* and TaskRuntime, with what happens inside a run, are shown to implement *)
(* it.                                                                     *)
(***************************************************************************)
EXTENDS Naturals, FiniteSets

CONSTANTS Team, Sub, Owner, Limit

VARIABLES status, scored

fsmVars == <<status, scored>>

Finished == {"completed", "expired", "interrupted"}

FSMInit == /\ status = [s \in Sub |-> "absent"]
           /\ scored = [s \in Sub |-> FALSE]

Running(t) == {s \in Sub : Owner[s] = t /\ status[s] = "in_progress"}
Done(t)    == {s \in Sub : Owner[s] = t /\ status[s] = "completed"}

(* A team starts a run when it has none in progress and completed fewer    *)
(* than Limit.                                                             *)
Begin(s) == /\ status[s] = "absent"
            /\ Running(Owner[s]) = {}
            /\ Cardinality(Done(Owner[s])) < Limit
            /\ status' = [status EXCEPT ![s] = "in_progress"]
            /\ UNCHANGED scored

(* A run ends once: submitted or finalized, out of time, or given up. *)
End(s, how) == /\ status[s] = "in_progress"
               /\ status' = [status EXCEPT ![s] = how]
               /\ UNCHANGED scored

(* A late write from a stale read may still turn one ending into another,  *)
(* but never into a completion, and a completion only into an expiry.      *)
Overwrite(s, from, to) ==
  /\ <<from, to>> \in {<<"completed", "expired">>, <<"interrupted", "expired">>,
                       <<"expired", "interrupted">>}
  /\ status[s] = from
  /\ status' = [status EXCEPT ![s] = to]
  /\ UNCHANGED scored

(* Only a finished run is scored; a score stays. *)
GiveScore(s) == /\ status[s] \in Finished
                /\ scored' = [scored EXCEPT ![s] = TRUE]
                /\ UNCHANGED status

FSMNext == \E s \in Sub :
  \/ Begin(s) \/ GiveScore(s)
  \/ \E how \in Finished : End(s, how)
  \/ \E from, to \in Finished : Overwrite(s, from, to)

FSMSpec == FSMInit /\ [][FSMNext]_fsmVars
=============================================================================
