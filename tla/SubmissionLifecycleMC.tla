------------------------ MODULE SubmissionLifecycleMC ------------------------
(* Instances of SubmissionLifecycle for TLC. *)
EXTENDS SubmissionLifecycle, TLC

CONSTANTS t1, t2, s1, s2, r1, r2

OneTeam   == {t1}
TwoTeams  == {t1, t2}
TwoSubs   == {s1, s2}
TwoReqs   == {r1, r2}

AllOps       == ParticipantOps \cup AdminOps
ScoringOps   == {"start", "finalize", "batch", "score"}

(* Every submission belongs to t1; another team may name it. *)
OwnedByOne == [s \in Sub |-> t1]

Symmetry == Permutations(Sub) \cup Permutations(Req)
=============================================================================
