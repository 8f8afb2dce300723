----------------------------- MODULE Leaderboard -----------------------------
(***************************************************************************)
(* The live leaderboard.  A request lists the teams and then reads the     *)
(* runs of one team after another, while participants end runs and admins  *)
(* score them, score them again and change the status of teams.            *)
(***************************************************************************)
EXTENDS Integers, Sequences, FiniteSets, SequencesExt

CONSTANTS
  Team,
  MaxRuns, Never, \* bounds: runs of each team, and the moments at which they end
  Verdicts,       \* what scoring may find: aggregate, and rank of (task_success, policy)
  Statuses        \* the statuses the admins set

ASSUME BoundsAssumption == MaxRuns \in [Team -> Nat] /\ Never \in Nat \ {0}
ASSUME VerdictsAssumption == Verdicts \subseteq Nat \X Nat
ASSUME ChoicesAssumption == Statuses \subseteq {"active", "suspended", "disqualified"}

VARIABLES
  standing, \* status of each team
  runs,     \* table submissions: the runs of each team by attempt_number
  request,  \* the request: teams left to read, entries made
  board,    \* its answer, in the step that gives it
  touched,  \* history: teams whose status or scores changed since it began
  gone      \* history: teams disqualified ever since it began

vars == <<standing, runs, request, board, touched, gone>>

Modes == {"best", "latest"}

(* completed_at of a run that expired is NULL, which sorts last: Never.    *)
Taken(n) == \E t \in Team : \E i \in DOMAIN runs[t] : runs[t][i].at = n
Now == {n \in 1..(Never - 1) : \A m \in 1..(Never - 1) : m < n <=> Taken(m)}

NoScore == [scored |-> FALSE, agg |-> 0, tie |-> 0]
NewRun == [status |-> "in_progress", at |-> Never, score |-> NoScore]

-----------------------------------------------------------------------------
(* What the request reads. *)

Scored(t) == {i \in DOMAIN runs[t] : runs[t][i].score.scored}

(* The runs that may come first of a team's scored runs, in whatever       *)
(* status: by score, then by age; or by attempt.                           *)
PreferredMutant(t, mode) ==  \* mutant: the age decides before the score
  {i \in Scored(t) : \A j \in Scored(t) :
     IF mode = "latest" THEN j <= i ELSE runs[t][i].at <= runs[t][j].at}

Preferred(t, mode) ==
  {i \in Scored(t) : \A j \in Scored(t) :
     LET a == runs[t][i]  b == runs[t][j] IN
     IF mode = "latest" THEN j <= i
     ELSE \/ a.score.agg > b.score.agg
          \/ a.score.agg = b.score.agg /\ a.at <= b.at}

Blank(t) == [team |-> t, agg |-> 0, tie |-> 0, at |-> Never]
EntryOf(t, i) == [team |-> t, agg |-> runs[t][i].score.agg, tie |-> runs[t][i].score.tie,
                  at |-> runs[t][i].at]
Entries(t, mode) ==
  IF Scored(t) = {} THEN {Blank(t)} ELSE {EntryOf(t, i) : i \in Preferred(t, mode)}

(* The sort key: aggregate, task_success and policy, completed_at.         *)
Precedes(e, f) ==
  \/ e.agg > f.agg
  \/ e.agg = f.agg /\ e.tie > f.tie
  \/ e.agg = f.agg /\ e.tie = f.tie /\ e.at < f.at

Idle == [pc |-> "idle", mode |-> "best", todo |-> {}, entries |-> {}]
NoBoard == [mode |-> "none", rows |-> <<>>]
Begin(mode, listed) ==
  /\ request.pc = "idle"
  /\ request' = [pc |-> "read", mode |-> mode, todo |-> listed, entries |-> {}]
  /\ board' = NoBoard /\ touched' = {} /\ gone' = {t \in Team : standing[t] = "disqualified"}
  /\ UNCHANGED <<standing, runs>>

ListTeamsMutant(mode) == Begin(mode, Team)  \* mutant: whatever their status
ListTeams(mode) == Begin(mode, {t \in Team : standing[t] # "disqualified"})

ReadTeam(t) ==
  /\ request.pc = "read" /\ t \in request.todo
  /\ \E e \in Entries(t, request.mode) :
       request' = [request EXCEPT !.todo = @ \ {t}, !.entries = @ \cup {e}]
  /\ UNCHANGED <<standing, runs, board, touched, gone>>

(* The entries are sorted and numbered; the order of equals is any.        *)
Publish(answers) ==
  /\ request.pc = "read" /\ request.todo = {}
  /\ \E rows \in answers : board' = [mode |-> request.mode, rows |-> rows]
  /\ request' = Idle
  /\ UNCHANGED <<standing, runs, touched, gone>>
Unsorted == SetToSeqs(request.entries)
AnswerMutant == Publish(Unsorted)  \* mutant: numbered as they were read
Answer ==
  Publish({b \in Unsorted : \A i \in DOMAIN b, j \in DOMAIN b : i < j => ~Precedes(b[j], b[i])})

-----------------------------------------------------------------------------
(* What happens meanwhile. *)

Meanwhile(changed, back) ==
  /\ board' = NoBoard
  /\ touched' = IF request.pc = "read" THEN touched \cup changed ELSE {}
  /\ gone' = IF request.pc = "read" THEN gone \ back ELSE {}
  /\ UNCHANGED request

StartRun(t) ==
  /\ Len(runs[t]) < MaxRuns[t]
  /\ \A i \in DOMAIN runs[t] : runs[t][i].status # "in_progress"
  /\ runs' = [runs EXCEPT ![t] = Append(@, NewRun)]
  /\ Meanwhile({}, {}) /\ UNCHANGED standing

EndRun(t, status) ==
  \E i \in DOMAIN runs[t], at \in IF status = "expired" THEN {Never} ELSE Now :
    /\ runs[t][i].status = "in_progress"
    /\ runs' = [runs EXCEPT ![t][i].status = status, ![t][i].at = at]
    /\ Meanwhile({}, {}) /\ UNCHANGED standing

(* An ended run is scored; once scored only when that is forced.           *)
Written(v) == [scored |-> TRUE, agg |-> v[1], tie |-> v[2]]
ScoreRun(t, i, v) ==
  /\ runs[t][i].status # "in_progress" /\ runs[t][i].score # Written(v)
  /\ runs' = [runs EXCEPT ![t][i].score = Written(v)]
  /\ Meanwhile({t}, {}) /\ UNCHANGED standing

ChangeStatus(t, new) ==
  /\ standing' = [standing EXCEPT ![t] = new]
  /\ Meanwhile({t}, IF new = "disqualified" THEN {} ELSE {t}) /\ UNCHANGED runs

Init ==
  /\ standing = [t \in Team |-> "active"] /\ runs = [t \in Team |-> <<>>]
  /\ request = Idle /\ board = NoBoard /\ touched = {} /\ gone = {}

Next ==
  \/ \E mode \in Modes : ListTeams(mode)
  \/ Answer
  \/ \E t \in Team :
       \/ ReadTeam(t) \/ StartRun(t)
       \/ \E status \in {"completed", "expired", "interrupted"} : EndRun(t, status)
       \/ \E i \in DOMAIN runs[t], v \in Verdicts : ScoreRun(t, i, v)
       \/ \E new \in Statuses : ChangeStatus(t, new)

Spec == Init /\ [][Next]_vars

-----------------------------------------------------------------------------
(* get_team_aggregate_score, which no request calls: the runs that count   *)
(* towards a team's score, in its modes best and last.                     *)
Counting(t) == {i \in Scored(t) : runs[t][i].status \in {"completed", "expired"}}
TeamScore(t, mode) ==
  IF Counting(t) = {} THEN 0
  ELSE IF mode = "last" THEN runs[t][Max(Counting(t))].score.agg
  ELSE Max({runs[t][i].score.agg : i \in Counting(t)})

Entry == [team : Team, agg : Nat, tie : Nat, at : 1..Never]

Run == [status : {"in_progress", "completed", "expired", "interrupted"}, at : 1..Never,
        score : {Written(v) : v \in Verdicts} \cup {NoScore}]

TypeOK ==
  /\ standing \in [Team -> {"active", "suspended", "disqualified"}]
  /\ runs \in [Team -> Seq(Run)]
  /\ request \in [pc : {"idle", "read"}, mode : Modes, todo : SUBSET Team,
                   entries : SUBSET Entry]
  /\ board \in [mode : Modes \cup {"none"}, rows : Seq(Entry)]
  /\ touched \subseteq Team /\ gone \subseteq Team

Answered == board.mode \in Modes
Undisturbed == {t \in Team \ touched : standing[t] # "disqualified"}
RowsOf(t) == {i \in DOMAIN board.rows : board.rows[i].team = t}

(* However many scorings and status changes fall between the reads of a    *)
(* request, a team none of them concerned has one row of the answer, which *)
(* shows what the table holds for it, and the rows stand in the documented *)
(* order (ADMIN_GUIDE.md:74).                                              *)
UndisturbedRanked ==
  Answered =>
    /\ \A t \in Undisturbed :
         /\ Cardinality(RowsOf(t)) = 1
         /\ \A i \in RowsOf(t) : board.rows[i] \in Entries(t, board.mode)
    /\ \A i, j \in DOMAIN board.rows : i < j => ~Precedes(board.rows[j], board.rows[i])

(* "Disqualified teams are strictly excluded from the leaderboard"         *)
(* (ADMIN_GUIDE.md:79): from any answer that was asked for afterwards.     *)
DisqualifiedGone == \A i \in DOMAIN board.rows : board.rows[i].team \notin gone

(* Where no interrupted run was scored, the board and the score_aggregation*)
(* of the scoring service agree on the score of a team.                    *)
AgreesWithTeamScore ==
  Answered =>
    \A t \in Undisturbed :
      (\A i \in Scored(t) : runs[t][i].status # "interrupted") =>
        \A i \in RowsOf(t) :
          board.rows[i].agg = TeamScore(t, IF board.mode = "latest" THEN "last" ELSE "best")

(* The inductive invariant: what the request has made so far, and that an  *)
(* unfinished run has no score.                                            *)
ReadInv ==
  /\ \A e, f \in request.entries : e.team = f.team => e = f
  /\ \A e \in request.entries : e.team \notin request.todo \cup gone
  /\ \A t \in gone : standing[t] = "disqualified" /\ t \notin request.todo
  /\ IsFiniteSet(request.entries)
  /\ request.pc = "read" =>
       /\ board = NoBoard
       /\ \A t \in Undisturbed \ request.todo : request.entries \cap Entries(t, request.mode) # {}

UnfinishedUnscored ==
  \A t \in Team : \A i \in DOMAIN runs[t] :
    runs[t][i].status = "in_progress" => ~runs[t][i].score.scored

IInv == TypeOK /\ ReadInv /\ UnfinishedUnscored /\ UndisturbedRanked /\ DisqualifiedGone

(* In mode best a further attempt never costs a team its score: unless a   *)
(* score is replaced, what the team shows only grows.                      *)
AttemptsNeverHurt ==
  [][\A t \in Team :
       (\A i \in Scored(t) : runs'[t][i].score = runs[t][i].score) =>
         \A e \in Entries(t, "best") : \A f \in Entries(t, "best")' : f.agg >= e.agg]_runs
=============================================================================
