------------------------- MODULE Leaderboard_proofs -------------------------
(***************************************************************************)
(* Proofs about Leaderboard, for any set of teams, any numbers of runs and *)
(* any scores.  A request adds one entry per team it reads, so that an     *)
(* enumeration of its entries has one row per team; what happens meanwhile *)
(* to runs that have no score changes no entry (SameEntries).              *)
(***************************************************************************)
EXTENDS Leaderboard, FiniteSetTheorems, TLAPS

(* An enumeration lists every member of its set once. *)
LEMMA EnumerationOnto ==
  ASSUME NEW S, IsFiniteSet(S), NEW q \in SetToSeqs(S)
  PROVE  /\ q \in Seq(S) /\ DOMAIN q = 1..Cardinality(S)
         /\ \A i, j \in DOMAIN q : q[i] = q[j] => i = j
         /\ \A x \in S : \E i \in DOMAIN q : q[i] = x
  <1>1. /\ Cardinality(S) \in Nat /\ q \in [1..Cardinality(S) -> S]
        /\ \A i, j \in 1..Cardinality(S) : i # j => q[i] # q[j]
    BY FS_CardinalityType DEF SetToSeqs
  <1>2. IsFiniteSet(1..Cardinality(S)) /\ Cardinality(1..Cardinality(S)) = Cardinality(S)
    BY <1>1, FS_Interval
  <1>3. \A x \in S : \E i \in 1..Cardinality(S) : q[i] = x
    <2> SUFFICES ASSUME NEW x \in S, \A i \in 1..Cardinality(S) : q[i] # x PROVE FALSE
      OBVIOUS
    <2>1. q \in [1..Cardinality(S) -> S \ {x}]
      BY <1>1
    <2>2. IsFiniteSet(S \ {x}) /\ Cardinality(S \ {x}) = Cardinality(S) - 1
      BY FS_RemoveElement
    <2>3. Cardinality(S \ {x}) < Cardinality(1..Cardinality(S))
      BY <1>1, <1>2, <2>2
    <2> QED
      BY <1>1, <1>2, <2>1, <2>2, <2>3, FS_PigeonHole
  <1> QED
    BY <1>1, <1>3

(* Entries depend on a team's own scored runs only, and one exists where   *)
(* the table has the types it should.                                      *)
LEMMA EntryTeam ==
  ASSUME NEW t \in Team, NEW mode, NEW e \in Entries(t, mode)
  PROVE  e.team = t
  BY DEF Entries, EntryOf, Blank

(* An entry of the ranking is a record of a team. *)
LEMMA EntryType ==
  ASSUME TypeOK, NEW t \in Team, NEW mode, NEW e \in Entries(t, mode)
  PROVE  e \in Entry
  <1>1. CASE Scored(t) = {}
    BY <1>1, BoundsAssumption DEF Entries, Entry, Blank
  <1>2. CASE Scored(t) # {}
    <2>1. PICK i \in DOMAIN runs[t] : e = EntryOf(t, i)
      BY <1>2 DEF Entries, Preferred, Scored
    <2>2. runs[t][i] \in Run
      BY DEF TypeOK
    <2>3. /\ runs[t][i].at \in 1..Never /\ runs[t][i].score.agg \in Nat
          /\ runs[t][i].score.tie \in Nat
      BY <2>2, VerdictsAssumption DEF Run, Written, NoScore
    <2> QED
      BY <2>1, <2>3 DEF EntryOf, Entry
  <1> QED
    BY <1>1, <1>2

(* A step that adds only unscored runs and moves no scored one keeps the   *)
(* entries.                                                                *)
LEMMA SameEntries ==
  ASSUME NEW t \in Team, NEW mode,
         DOMAIN runs[t] \subseteq DOMAIN runs'[t],
         \A i \in DOMAIN runs[t] : runs'[t][i].score = runs[t][i].score,
         \A i \in Scored(t) : runs'[t][i] = runs[t][i],
         \A i \in DOMAIN runs'[t] \ DOMAIN runs[t] : ~runs'[t][i].score.scored
  PROVE  Entries(t, mode)' = Entries(t, mode)
  <1>1. Scored(t)' = Scored(t)
    BY DEF Scored
  <1>2. Preferred(t, mode)' = Preferred(t, mode)
    BY <1>1 DEF Preferred
  <1>3. \A i \in Preferred(t, mode) : EntryOf(t, i)' = EntryOf(t, i)
    BY DEF Preferred, EntryOf
  <1> QED
    BY <1>1, <1>2, <1>3 DEF Entries, Blank

-----------------------------------------------------------------------------
(* Invariance of IInv. *)

(* No request runs at the start. *)
LEMMA InitInvariant == Init => IInv
  <1> SUFFICES ASSUME Init PROVE IInv
    OBVIOUS
  <1>1. TypeOK /\ ~Answered
    BY DEF Init, TypeOK, Idle, NoBoard, Modes, Answered
  <1>2. IsFiniteSet(request.entries)
    BY FS_EmptySet DEF Init, Idle
  <1>3. ReadInv
    BY <1>2 DEF Init, ReadInv, Idle
  <1> QED
    BY <1>1, <1>3 DEF Init, IInv, UnfinishedUnscored, UndisturbedRanked, DisqualifiedGone, NoBoard

(* A step beside the request: it may change the teams in changed and bring *)
(* back those in back.                                                     *)
LEMMA MeanwhileStep ==
  ASSUME IInv, TypeOK', UnfinishedUnscored', NEW changed \in SUBSET Team, NEW back,
         Meanwhile(changed, back),
         \A t \in Team \ changed :
           /\ standing'[t] = standing[t]
           /\ \A mode \in Modes : Entries(t, mode)' = Entries(t, mode),
         \A t \in gone \ back : standing'[t] = "disqualified"
  PROVE  IInv'
  <1>1. board' = NoBoard /\ request' = request
    BY DEF Meanwhile
  <1>2. ~Answered' /\ DisqualifiedGone'
    BY <1>1 DEF Answered, Modes, NoBoard, DisqualifiedGone
  <1>3. ReadInv'
    <2>1. /\ \A t \in gone' : t \in gone /\ standing'[t] = "disqualified"
      BY DEF Meanwhile
    <2>2. ASSUME request.pc = "read", NEW t \in Undisturbed' \ request.todo
          PROVE  request.entries \cap Entries(t, request.mode)' # {}
      <3>1. t \in Undisturbed \ request.todo /\ t \in Team \ changed
        BY <2>2 DEF Undisturbed, Meanwhile
      <3>2. Entries(t, request.mode)' = Entries(t, request.mode)
        <4>1. \A mode \in Modes : Entries(t, mode)' = Entries(t, mode)
          BY <3>1
        <4>2. PICK m \in Modes : m = request.mode
          BY DEF IInv, TypeOK
        <4>3. Entries(t, m)' = Entries(t, m)
          BY <4>1
        <4> QED
          BY <1>1, <4>2, <4>3
      <3> QED
        BY <2>2, <3>1, <3>2 DEF IInv, ReadInv
    <2> QED
      BY <1>1, <2>1, <2>2 DEF IInv, ReadInv
  <1> QED
    BY <1>2, <1>3 DEF IInv, UndisturbedRanked

(* The start of a run keeps the invariant. *)
LEMMA StartStep ==
  ASSUME IInv, NEW t \in Team, StartRun(t)
  PROVE  IInv'
  <1>1. NewRun \in Run /\ ~NewRun.score.scored /\ runs[t] \in Seq(Run)
    BY BoundsAssumption DEF NewRun, Run, NoScore, IInv, TypeOK
  <1>2. /\ runs' \in [Team -> Seq(Run)] /\ \A u \in Team : u # t => runs'[u] = runs[u]
        /\ runs'[t] = Append(runs[t], NewRun)
    BY <1>1 DEF StartRun, IInv, TypeOK
  <1>3. \A u \in Team :
          /\ DOMAIN runs[u] \subseteq DOMAIN runs'[u]
          /\ \A i \in DOMAIN runs[u] : runs'[u][i] = runs[u][i]
          /\ \A i \in DOMAIN runs'[u] \ DOMAIN runs[u] : runs'[u][i] = NewRun
    <2>1. /\ Len(runs[t]) \in Nat /\ DOMAIN runs[t] = 1..Len(runs[t])
          /\ DOMAIN runs'[t] = 1..(Len(runs[t]) + 1) /\ runs'[t][Len(runs[t]) + 1] = NewRun
          /\ \A i \in DOMAIN runs[t] : runs'[t][i] = runs[t][i]
      BY <1>1, <1>2
    <2>2. \A i \in DOMAIN runs'[t] \ DOMAIN runs[t] : i = Len(runs[t]) + 1
      BY <2>1
    <2>3. DOMAIN runs[t] \subseteq DOMAIN runs'[t]
      BY <2>1
    <2>4. \A u \in Team : u # t => runs'[u] = runs[u]
      BY <1>2
    <2> QED
      BY <2>1, <2>2, <2>3, <2>4
  <1>4. TypeOK'
    BY <1>2 DEF StartRun, Meanwhile, NoBoard, Modes, IInv, TypeOK
  <1>5. UnfinishedUnscored'
    BY <1>1, <1>3 DEF IInv, UnfinishedUnscored
  <1>6. \A u \in Team : \A mode \in Modes : Entries(u, mode)' = Entries(u, mode)
    BY <1>1, <1>3, SameEntries DEF Scored
  <1>7. Meanwhile({}, {}) /\ UNCHANGED standing
    BY DEF StartRun
  <1> QED
    BY <1>4, <1>5, <1>6, <1>7, MeanwhileStep DEF IInv, ReadInv

(* The end of a run keeps the invariant. *)
LEMMA EndStep ==
  ASSUME IInv, NEW t \in Team, NEW status \in {"completed", "expired", "interrupted"},
         EndRun(t, status)
  PROVE  IInv'
  <1>1. PICK i \in DOMAIN runs[t], at \in IF status = "expired" THEN {Never} ELSE Now :
          /\ runs[t][i].status = "in_progress"
          /\ runs' = [runs EXCEPT ![t][i].status = status, ![t][i].at = at]
    BY DEF EndRun
  <1>2. at \in 1..Never /\ runs[t] \in Seq(Run) /\ runs[t][i] \in Run
    BY BoundsAssumption DEF Now, IInv, TypeOK
  <1> DEFINE ended == [runs[t][i] EXCEPT !.status = status, !.at = at]
  <1>3. ended \in Run /\ ended.score = runs[t][i].score /\ ended.status # "in_progress"
    BY <1>2 DEF Run
  <1>4. runs' = [runs EXCEPT ![t] = [runs[t] EXCEPT ![i] = ended]]
    BY <1>1, <1>2 DEF IInv, TypeOK, Run
  <1> HIDE DEF ended
  <1>5. [runs[t] EXCEPT ![i] = ended] \in Seq(Run)
    BY <1>2, <1>3
  <1>6. /\ runs' \in [Team -> Seq(Run)] /\ \A u \in Team : u # t => runs'[u] = runs[u]
        /\ runs'[t] = [runs[t] EXCEPT ![i] = ended]
    BY <1>4, <1>5 DEF IInv, TypeOK
  <1>7. \A u \in Team :
          /\ DOMAIN runs[u] = DOMAIN runs'[u]
          /\ \A j \in DOMAIN runs[u] : IF u = t /\ j = i THEN runs'[u][j] = ended
                                       ELSE runs'[u][j] = runs[u][j]
    BY <1>2, <1>6
  <1>8. TypeOK'
    BY <1>6 DEF EndRun, Meanwhile, NoBoard, Modes, IInv, TypeOK
  <1>9. UnfinishedUnscored'
    BY <1>3, <1>7 DEF IInv, UnfinishedUnscored
  <1>10. ~runs[t][i].score.scored
    BY <1>1 DEF IInv, UnfinishedUnscored
  <1>11. \A u \in Team : \A mode \in Modes : Entries(u, mode)' = Entries(u, mode)
    BY <1>3, <1>7, <1>10, SameEntries DEF Scored
  <1>12. Meanwhile({}, {}) /\ UNCHANGED standing
    BY DEF EndRun
  <1> QED
    BY <1>8, <1>9, <1>11, <1>12, MeanwhileStep DEF IInv, ReadInv

(* The scoring of a run keeps the invariant. *)
LEMMA ScoreStep ==
  ASSUME IInv, NEW t \in Team, NEW i \in DOMAIN runs[t], NEW v \in Verdicts, ScoreRun(t, i, v)
  PROVE  IInv'
  <1>1. runs[t] \in Seq(Run) /\ runs[t][i] \in Run
    BY DEF IInv, TypeOK
  <1> DEFINE scored == [runs[t][i] EXCEPT !.score = Written(v)]
  <1>2. scored \in Run /\ scored.status = runs[t][i].status
    BY <1>1 DEF Run
  <1>3. runs' = [runs EXCEPT ![t] = [runs[t] EXCEPT ![i] = scored]]
    BY <1>1 DEF ScoreRun, IInv, TypeOK, Run
  <1> HIDE DEF scored
  <1>4. [runs[t] EXCEPT ![i] = scored] \in Seq(Run)
    BY <1>1, <1>2
  <1>5. /\ runs' \in [Team -> Seq(Run)] /\ \A u \in Team : u # t => runs'[u] = runs[u]
        /\ runs'[t] = [runs[t] EXCEPT ![i] = scored]
    BY <1>3, <1>4 DEF IInv, TypeOK
  <1>6. /\ DOMAIN runs[t] = DOMAIN runs'[t] /\ runs'[t][i] = scored
        /\ \A j \in DOMAIN runs[t] : j # i => runs'[t][j] = runs[t][j]
    BY <1>1, <1>5
  <1>7. Meanwhile({t}, {}) /\ UNCHANGED standing /\ runs[t][i].status # "in_progress"
    BY DEF ScoreRun
  <1>8. TypeOK'
    BY <1>5, <1>7 DEF Meanwhile, NoBoard, Modes, IInv, TypeOK
  <1>9. UnfinishedUnscored'
    BY <1>2, <1>5, <1>6, <1>7 DEF IInv, UnfinishedUnscored
  <1>10. \A u \in Team \ {t} : \A mode \in Modes : Entries(u, mode)' = Entries(u, mode)
    BY <1>5, SameEntries
  <1> QED
    BY <1>7, <1>8, <1>9, <1>10, MeanwhileStep DEF IInv, ReadInv

(* The change of the status of a team keeps the invariant. *)
LEMMA StatusStep ==
  ASSUME IInv, NEW t \in Team, NEW new \in Statuses, ChangeStatus(t, new)
  PROVE  IInv'
  <1>1. TypeOK'
    BY ChoicesAssumption DEF ChangeStatus, Meanwhile, NoBoard, Modes, IInv, TypeOK
  <1>2. UnfinishedUnscored'
    BY DEF ChangeStatus, IInv, UnfinishedUnscored
  <1>3. \A u \in Team : \A mode \in Modes : Entries(u, mode)' = Entries(u, mode)
    BY SameEntries DEF ChangeStatus
  <1>4. standing' = [standing EXCEPT ![t] = new] /\ standing \in [Team -> {"active", "suspended", "disqualified"}]
    BY DEF ChangeStatus, IInv, TypeOK
  <1>5. Meanwhile({t}, IF new = "disqualified" THEN {} ELSE {t})
    BY DEF ChangeStatus
  <1>6. \A u \in gone \ (IF new = "disqualified" THEN {} ELSE {t}) : standing'[u] = "disqualified"
    BY <1>4 DEF IInv, ReadInv, TypeOK
  <1> QED
    BY <1>1, <1>2, <1>3, <1>4, <1>5, <1>6, MeanwhileStep

-----------------------------------------------------------------------------
(* The steps of the request. *)

(* The request lists the teams. *)
LEMMA ListStep ==
  ASSUME IInv, NEW mode \in Modes, ListTeams(mode)
  PROVE  IInv'
  <1>1. TypeOK'
    BY DEF ListTeams, Begin, NoBoard, Modes, IInv, TypeOK
  <1>2. IsFiniteSet(request'.entries)
    BY FS_EmptySet DEF ListTeams, Begin
  <1>3. ReadInv'
    BY <1>2 DEF ListTeams, Begin, ReadInv, Undisturbed
  <1> QED
    BY <1>1, <1>3 DEF ListTeams, Begin, IInv, UnfinishedUnscored, UndisturbedRanked, Answered,
       DisqualifiedGone, NoBoard, Modes

(* The read of a team keeps the invariant. *)
LEMMA ReadStep ==
  ASSUME IInv, NEW t \in Team, ReadTeam(t)
  PROVE  IInv'
  <1>1. PICK e \in Entries(t, request.mode) :
          request' = [request EXCEPT !.todo = @ \ {t}, !.entries = @ \cup {e}]
    BY DEF ReadTeam
  <1>2. e \in Entry /\ e.team = t
    BY EntryType, EntryTeam DEF IInv
  <1>3. /\ request.pc = "read" /\ t \in request.todo /\ board = NoBoard
        /\ UNCHANGED <<standing, runs, board, touched, gone>>
        /\ request'.pc = "read" /\ request'.mode = request.mode
        /\ request'.todo = request.todo \ {t} /\ request'.entries = request.entries \cup {e}
    BY <1>1 DEF ReadTeam, IInv, TypeOK, ReadInv
  <1>4. TypeOK'
    BY <1>1, <1>2, <1>3 DEF IInv, TypeOK
  <1>5. IsFiniteSet(request'.entries)
    BY <1>3, FS_AddElement DEF IInv, ReadInv
  <1>8. ReadInv'
    <2>1. ASSUME NEW u \in Undisturbed' \ request'.todo
          PROVE  request'.entries \cap Entries(u, request.mode) # {}
      <3>1. CASE u = t
        BY <1>1, <1>3, <3>1
      <3>2. CASE u # t
        BY <1>3, <2>1, <3>2 DEF IInv, ReadInv, Undisturbed
      <3> QED
        BY <3>1, <3>2
    <2>2. \A u \in Undisturbed' \ request'.todo : Entries(u, request.mode)' = Entries(u, request.mode)
      BY <1>3 DEF Entries, Preferred, Scored, EntryOf, Blank
    <2>3. \A f, g \in request'.entries : f.team = g.team => f = g
      BY <1>2, <1>3 DEF IInv, ReadInv
    <2>4. \A f \in request'.entries : f.team \notin request'.todo \cup gone'
      BY <1>2, <1>3 DEF IInv, ReadInv
    <2>5. \A u \in gone' : standing'[u] = "disqualified" /\ u \notin request'.todo
      BY <1>3 DEF IInv, ReadInv
    <2> QED
      BY <1>3, <1>5, <2>1, <2>2, <2>3, <2>4, <2>5 DEF ReadInv
  <1> QED
    BY <1>3, <1>4, <1>8 DEF IInv, UnfinishedUnscored, UndisturbedRanked, Answered,
       DisqualifiedGone, NoBoard, Modes

(* The answer of the ranking keeps the invariant. *)
LEMMA AnswerStep ==
  ASSUME IInv, Answer
  PROVE  IInv'
  <1>1. PICK q \in SetToSeqs(request.entries) :
          /\ \A i \in DOMAIN q, j \in DOMAIN q : i < j => ~Precedes(q[j], q[i])
          /\ board' = [mode |-> request.mode, rows |-> q]
    BY DEF Answer, Publish, Unsorted
  <1>2. /\ request.pc = "read" /\ request.todo = {} /\ request' = Idle
        /\ UNCHANGED <<standing, runs, touched, gone>>
    BY DEF Answer, Publish
  <1>3. IsFiniteSet(request.entries) /\ request.entries \subseteq Entry /\ request.mode \in Modes
    BY DEF IInv, ReadInv, TypeOK
  <1>4. /\ q \in Seq(request.entries) /\ DOMAIN q = 1..Cardinality(request.entries)
        /\ \A i, j \in DOMAIN q : q[i] = q[j] => i = j
        /\ \A x \in request.entries : \E i \in DOMAIN q : q[i] = x
        /\ \A i \in DOMAIN q : q[i] \in request.entries
    BY <1>3, EnumerationOnto
  <1>5. q \in Seq(Entry)
    BY <1>3, <1>4
  <1>6. TypeOK'
    BY <1>1, <1>2, <1>3, <1>5 DEF Idle, Modes, IInv, TypeOK
  <1>7. ReadInv'
    <2>1. IsFiniteSet(request'.entries)
      BY <1>2, FS_EmptySet DEF Idle
    <2> QED
      BY <1>2, <2>1 DEF Idle, IInv, ReadInv
  <1>8. DisqualifiedGone'
    BY <1>1, <1>2, <1>4 DEF IInv, ReadInv, DisqualifiedGone
  <1>9. ASSUME NEW t \in Undisturbed'
        PROVE  Cardinality(RowsOf(t)') = 1 /\ \A i \in RowsOf(t)' : q[i] \in Entries(t, request.mode)
    <2>1. t \in Undisturbed \ request.todo /\ t \in Team
      BY <1>2 DEF Undisturbed
    <2>2. PICK e \in request.entries \cap Entries(t, request.mode) : TRUE
      BY <1>2, <2>1 DEF IInv, ReadInv
    <2>3. e.team = t
      BY <2>1, <2>2, EntryTeam
    <2>4. PICK i \in DOMAIN q : q[i] = e
      BY <1>4, <2>2
    <2>5. RowsOf(t)' = {i}
      BY <1>1, <1>4, <2>2, <2>3, <2>4 DEF RowsOf, IInv, ReadInv
    <2>6. Cardinality({i}) = 1
      BY FS_Singleton
    <2> QED
      BY <2>2, <2>4, <2>5, <2>6
  <1>10. UndisturbedRanked'
    <2>1. \A t \in Undisturbed' : Entries(t, board.mode)' = Entries(t, request.mode)
      BY <1>1, <1>2 DEF Entries, Preferred, Scored, EntryOf, Blank
    <2> QED
      BY <1>1, <1>9, <2>1 DEF UndisturbedRanked
  <1>11. UnfinishedUnscored'
    BY <1>2 DEF IInv, UnfinishedUnscored
  <1> QED
    BY <1>6, <1>7, <1>8, <1>10, <1>11 DEF IInv

(* Every step keeps the invariant. *)
LEMMA StepInvariant == IInv /\ [Next]_vars => IInv'
  <1> SUFFICES ASSUME IInv, [Next]_vars PROVE IInv'
    OBVIOUS
  <1>1. CASE UNCHANGED vars
    <2>1. \A t \in Team : Entries(t, board.mode)' = Entries(t, board.mode)
      BY <1>1 DEF vars, Entries, Preferred, Scored, EntryOf, Blank
    <2>2. \A t \in Team : Entries(t, request.mode)' = Entries(t, request.mode)
      BY <1>1 DEF vars, Entries, Preferred, Scored, EntryOf, Blank
    <2>3. TypeOK' /\ UnfinishedUnscored' /\ DisqualifiedGone'
      BY <1>1 DEF vars, IInv, TypeOK, UnfinishedUnscored, DisqualifiedGone
    <2>4. ReadInv'
      BY <1>1, <2>2 DEF vars, IInv, ReadInv, Undisturbed
    <2>5. UndisturbedRanked'
      BY <1>1, <2>1 DEF vars, IInv, UndisturbedRanked, Undisturbed, Answered, RowsOf
    <2> QED
      BY <2>3, <2>4, <2>5 DEF IInv
  <1> QED
    BY <1>1, ListStep, AnswerStep, ReadStep, StartStep, EndStep, ScoreStep, StatusStep DEF Next

(* The inductive invariant. *)
THEOREM InvariantHolds == Spec => []IInv
  BY InitInvariant, StepInvariant, PTL DEF Spec

(* Whatever is scored and whoever is suspended while a request reads the   *)
(* teams, the teams left in peace are ranked as the table has them.        *)
THEOREM RankingRight == Spec => []UndisturbedRanked
  <1>1. IInv => UndisturbedRanked
    BY DEF IInv
  <1> QED
    BY <1>1, InvariantHolds, PTL

(* No disqualified team is in an answer that was asked for afterwards.     *)
THEOREM ExclusionHolds == Spec => []DisqualifiedGone
  <1>1. IInv => DisqualifiedGone
    BY DEF IInv
  <1> QED
    BY <1>1, InvariantHolds, PTL

-----------------------------------------------------------------------------
(* The board and get_team_aggregate_score. *)

(* Max of a set that has a greatest member is that member. *)
LEMMA GreatestIsMax ==
  ASSUME NEW S \in SUBSET Int, NEW x \in S, \A y \in S : x >= y
  PROVE  Max(S) = x
  <1> DEFINE m == CHOOSE z \in S : \A y \in S : z >= y
  <1>1. m \in S /\ \A y \in S : m >= y
    OBVIOUS
  <1>2. m = x
    <2>1. m \in Int /\ x \in Int /\ m >= x /\ x >= m
      BY <1>1
    <2> HIDE DEF m
    <2> QED
      BY <2>1
  <1> QED
    BY <1>2 DEF Max

(* The entry of a team none of whose scored runs was interrupted shows the *)
(* score that get_team_aggregate_score computes: all of these runs count.  *)
LEMMA EntryIsTeamScore ==
  ASSUME IInv, NEW t \in Team, NEW mode \in Modes, NEW e \in Entries(t, mode),
         \A i \in Scored(t) : runs[t][i].status # "interrupted"
  PROVE  e.agg = TeamScore(t, IF mode = "latest" THEN "last" ELSE "best")
  <1>1. \A i \in DOMAIN runs[t] : /\ runs[t][i] \in Run /\ i \in Int
                                 /\ runs[t][i].score.agg \in Int
    <2>1. \A i \in DOMAIN runs[t] : runs[t][i] \in Run /\ i \in Int
      BY DEF IInv, TypeOK
    <2> QED
      BY <2>1, VerdictsAssumption DEF Run, Written, NoScore
  <1>2. Counting(t) = Scored(t)
    <2>1. ASSUME NEW i \in Scored(t) PROVE runs[t][i].status \in {"completed", "expired"}
      <3>1. i \in DOMAIN runs[t] /\ runs[t][i].score.scored
        BY DEF Scored
      <3>2. runs[t][i].status # "in_progress"
        BY <3>1 DEF IInv, UnfinishedUnscored
      <3> QED
        BY <1>1, <3>1, <3>2 DEF Run
    <2> QED
      BY <2>1 DEF Counting
  <1>3. CASE Scored(t) = {}
    BY <1>2, <1>3 DEF Entries, Blank, TeamScore
  <1>4. CASE Scored(t) # {}
    <2>1. PICK i \in Preferred(t, mode) : e = EntryOf(t, i)
      BY <1>4 DEF Entries
    <2>2. i \in Scored(t) /\ e.agg = runs[t][i].score.agg
      BY <2>1 DEF Preferred, EntryOf
    <2>3. Scored(t) \subseteq DOMAIN runs[t]
      BY DEF Scored
    <2>4. CASE mode = "latest"
      <3>1. \A j \in Scored(t) : i >= j
        BY <1>1, <2>1, <2>3, <2>4 DEF Preferred
      <3>2. Max(Scored(t)) = i
        BY <1>1, <2>2, <2>3, <3>1, GreatestIsMax
      <3> QED
        BY <1>2, <1>4, <2>2, <2>4, <3>2 DEF TeamScore
    <2>5. CASE mode = "best"
      <3> DEFINE aggs == {runs[t][j].score.agg : j \in Scored(t)}
      <3>1. \A j \in Scored(t) : runs[t][i].score.agg >= runs[t][j].score.agg
        BY <1>1, <2>1, <2>2, <2>3, <2>5 DEF Preferred
      <3>2. aggs \in SUBSET Int /\ e.agg \in aggs /\ \A y \in aggs : e.agg >= y
        BY <1>1, <2>2, <2>3, <3>1
      <3>3. Max(aggs) = e.agg
        <4> HIDE DEF aggs
        <4> QED
          BY <3>2, GreatestIsMax
      <3> QED
        BY <1>2, <1>4, <2>5, <3>3 DEF TeamScore
    <2> QED
      BY <2>4, <2>5 DEF Modes
  <1> QED
    BY <1>3, <1>4

(* The leaderboard and the score aggregation, two implementations of the   *)
(* team score, agree on every team that was left in peace and none of      *)
(* whose scored runs was interrupted.                                      *)
THEOREM AggregationsAgree == Spec => []AgreesWithTeamScore
  <1>1. ASSUME IInv, Answered, NEW t \in Undisturbed,
               \A i \in Scored(t) : runs[t][i].status # "interrupted", NEW i \in RowsOf(t)
        PROVE  board.rows[i].agg = TeamScore(t, IF board.mode = "latest" THEN "last" ELSE "best")
    <2>1. board.rows[i] \in Entries(t, board.mode)
      BY <1>1 DEF IInv, UndisturbedRanked
    <2>2. t \in Team /\ board.mode \in Modes
      BY <1>1 DEF Undisturbed, Answered
    <2> QED
      BY <1>1, <2>1, <2>2, EntryIsTeamScore
  <1>2. IInv => AgreesWithTeamScore
    BY <1>1 DEF AgreesWithTeamScore
  <1> QED
    BY <1>2, InvariantHolds, PTL

-----------------------------------------------------------------------------
(* Attempts and the best score. *)

(* No run of a team disappears. *)
LEMMA RunsStay ==
  ASSUME TypeOK, [Next]_vars, NEW t \in Team
  PROVE  DOMAIN runs[t] \subseteq DOMAIN runs'[t]
  <1>1. runs \in [Team -> Seq(Run)] /\ runs[t] \in Seq(Run)
    BY DEF TypeOK
  <1>2. ASSUME NEW u \in Team, StartRun(u) PROVE DOMAIN runs[t] \subseteq DOMAIN runs'[t]
    <2>1. CASE t = u
      <3>1. runs'[t] = Append(runs[t], NewRun)
        BY <1>1, <1>2, <2>1 DEF StartRun
      <3>2. /\ Len(runs[t]) \in Nat /\ DOMAIN runs[t] = 1..Len(runs[t])
            /\ DOMAIN Append(runs[t], NewRun) = 1..(Len(runs[t]) + 1)
        BY <1>1
      <3> QED
        BY <3>1, <3>2
    <2>2. CASE t # u
      BY <1>1, <1>2, <2>2 DEF StartRun
    <2> QED
      BY <2>1, <2>2
  <1>3. ASSUME NEW u \in Team, NEW status, EndRun(u, status)
        PROVE  DOMAIN runs[t] \subseteq DOMAIN runs'[t]
    BY <1>1, <1>3 DEF EndRun
  <1>4. ASSUME NEW u \in Team, NEW i, NEW v, ScoreRun(u, i, v)
        PROVE  DOMAIN runs[t] \subseteq DOMAIN runs'[t]
    BY <1>1, <1>4 DEF ScoreRun
  <1>5. CASE UNCHANGED runs
    BY <1>5
  <1> QED
    BY <1>2, <1>3, <1>4, <1>5
    DEF Next, vars, ListTeams, Begin, Answer, Publish, ReadTeam, ChangeStatus

(* The best score of a team never falls while its scored runs keep their   *)
(* scores.                                                                 *)
LEMMA BestGrows ==
  ASSUME TypeOK, TypeOK', NEW t \in Team, DOMAIN runs[t] \subseteq DOMAIN runs'[t],
         \A i \in Scored(t) : runs'[t][i].score = runs[t][i].score,
         NEW e \in Entries(t, "best"), NEW f \in Entries(t, "best")'
  PROVE  f.agg >= e.agg
  <1>1. CASE Scored(t) = {}
    <2>1. e.agg = 0
      BY <1>1 DEF Entries, Blank
    <2>2. CASE Scored(t)' = {}
      BY <2>1, <2>2 DEF Entries, Blank
    <2>3. CASE Scored(t)' # {}
      <3>1. PICK j \in DOMAIN runs'[t] : f = EntryOf(t, j)'
        BY <2>3 DEF Entries, Preferred, Scored
      <3>2. runs'[t][j] \in Run
        BY DEF TypeOK
      <3>3. runs'[t][j].score.agg \in Nat
        BY <3>2, VerdictsAssumption DEF Run, Written, NoScore
      <3> QED
        BY <2>1, <3>1, <3>3 DEF EntryOf
    <2> QED
      BY <2>2, <2>3
  <1>2. CASE Scored(t) # {}
    <2>1. PICK i \in Scored(t) : e = EntryOf(t, i)
      BY <1>2 DEF Entries, Preferred
    <2>2. i \in Scored(t)'
      BY <2>1 DEF Scored
    <2>3. PICK j \in Preferred(t, "best")' : f = EntryOf(t, j)'
      BY <2>2 DEF Entries
    <2>4. i \in DOMAIN runs'[t] /\ j \in DOMAIN runs'[t]
      BY <2>2, <2>3 DEF Preferred, Scored
    <2>5. runs'[t][i] \in Run /\ runs'[t][j] \in Run
      BY <2>4 DEF TypeOK
    <2>6. runs'[t][i].score.agg \in Nat /\ runs'[t][j].score.agg \in Nat
      BY <2>5, VerdictsAssumption DEF Run, Written, NoScore
    <2>7. runs'[t][j].score.agg >= runs'[t][i].score.agg
      BY <2>2, <2>3, <2>6 DEF Preferred
    <2> QED
      BY <2>1, <2>3, <2>7 DEF EntryOf
  <1> QED
    BY <1>1, <1>2

(* Unless a score is replaced, what a team shows in mode best only grows.  *)
THEOREM NeverHurt == Spec => AttemptsNeverHurt
  <1>1. IInv /\ IInv' /\ [Next]_vars =>
          [\A t \in Team :
             (\A i \in Scored(t) : runs'[t][i].score = runs[t][i].score) =>
               \A e \in Entries(t, "best") : \A f \in Entries(t, "best")' : f.agg >= e.agg]_runs
    BY RunsStay, BestGrows DEF IInv
  <1> QED
    BY <1>1, InvariantHolds, PTL DEF Spec, AttemptsNeverHurt

=============================================================================
