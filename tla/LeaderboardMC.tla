---------------------------- MODULE LeaderboardMC ----------------------------
(* Instances of Leaderboard for TLC. *)
EXTENDS Leaderboard, TLC

CONSTANTS t1, t2

TwoTeams == {t1, t2}

TwoScores == {<<0, 1>>, <<1, 0>>}
OneAhead == (t1 :> 2) @@ (t2 :> 1)
=============================================================================
