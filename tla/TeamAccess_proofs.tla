------------------------- MODULE TeamAccess_proofs -------------------------
(***************************************************************************)
(* Proofs about TeamAccess, for any sets of requests, names and tokens.    *)
(* Everything follows from IInv.  The steps of an admin's request that     *)
(* commit nothing to the teams are one lemma (QuietStep); what a commit    *)
(* owes to the requests that wait for authentication is another            *)
(* (CommitWitnessed); each commit is then treated on its own.              *)
(***************************************************************************)
EXTENDS TeamAccess, TLAPS

(* An idle administrator is at a step. *)
LEMMA IdleIsStep == Idle \in AdminStep
  BY DEF Idle, AdminStep, Status, NoToken

(* After a row the request is idle or has another row to go.  *)
LEMMA RowDoneStep ==
  ASSUME TypeOK, NEW a \in Admins, adm[a].rows # <<>>, NEW f \in BOOLEAN, RowDone(a, f)
  PROVE  \E x \in AdminStep :
           /\ adm' = [adm EXCEPT ![a] = x]
           /\ x.id = 0 /\ x.pc \in {"idle", "name"}
           /\ x.pc = "name" => x.rows # <<>>
  <1>1. adm[a] \in AdminStep
    BY DEF TypeOK
  <1>2. adm[a].rows \in Seq(Names) /\ adm[a].broken \in BOOLEAN
    BY <1>1 DEF AdminStep
  <1>3. Tail(adm[a].rows) \in Seq(Names)
    BY <1>2
  <1>4. CASE Tail(adm[a].rows) = <<>>
    BY <1>4, IdleIsStep DEF RowDone, Idle
  <1>5. CASE Tail(adm[a].rows) # <<>>
    <2> DEFINE x == [Idle EXCEPT !.pc = "name", !.rows = Tail(adm[a].rows),
                                 !.broken = adm[a].broken \/ f]
    <2>1. x \in AdminStep
      BY <1>2, <1>3 DEF Idle, AdminStep, Status, NoToken
    <2>2. x.id = 0 /\ x.pc = "name" /\ x.rows # <<>>
      BY <1>5 DEF Idle
    <2>3. adm' = [adm EXCEPT ![a] = x]
      BY <1>5 DEF RowDone
    <2> QED
      BY <2>1, <2>2, <2>3
  <1> QED
    BY <1>4, <1>5

(* A step of request a to x that draws tokens at most and leaves the teams *)
(* alone.  What it locks was free, what it draws is new.                   *)
LEMMA QuietStep ==
  ASSUME IInv, NEW a \in Admins, NEW x \in AdminStep, adm' = [adm EXCEPT ![a] = x],
         KeepTeams, UNCHANGED <<revoked, audit, expired, cli>>,
         drawn \subseteq drawn', drawn' \subseteq Tokens, cache' \subseteq drawn',
         IF x.pc \in {"rename", "status", "token", "audit"}
           THEN x.id \in Ids /\ LockFree(x.id)
           ELSE x.id = 0,
         x.pc = "status" => x.old = teams[x.id].status,
         x.pc \in {"name", "number", "insert", "rename"} => x.rows # <<>>,
         x.pc = "insert" => x.number \in 1..(Len(teams) + 1),
         x.pc \in {"insert", "token"} => x.token \in drawn' \ drawn
  PROVE  IInv'
  <1>0. UNCHANGED <<teams, good, bad, revoked, audit, expired, cli>>
    BY DEF KeepTeams
  <1>1. TypeOK'
    BY <1>0 DEF IInv, TypeOK
  <1>2. Locked'
    BY <1>0 DEF IInv, TypeOK, Locked, Held, LockFree, Ids
  <1>3. TokensApart'
    BY <1>0 DEF IInv, TypeOK, TokensApart, Draws, Ids
  <1>4. Witnessed' /\ AuthSound' /\ NeverLockedOut'
    BY <1>0 DEF IInv, Witnessed, AuthSound, NeverLockedOut, Waiting, Valid
  <1>5. DisplaysSequential' /\ RevokedForGood' /\ StatusAuditChains'
    BY <1>0 DEF IInv, DisplaysSequential, RevokedForGood, StatusAuditChains, Follows, Ids
  <1> QED
    BY <1>1, <1>2, <1>3, <1>4, <1>5 DEF IInv

(* Whatever a commit makes of the teams, a waiting request has its witness.*)
LEMMA CommitWitnessed ==
  ASSUME IInv, NEW ts, Commit(ts), UNCHANGED <<cli, drawn, expired>>
  PROVE  Witnessed' /\ AuthSound' /\ NeverLockedOut'
  <1>1. Witnessed'
    BY DEF IInv, TypeOK, Witnessed, Commit, Waiting
  <1>2. AuthSound' /\ NeverLockedOut'
    BY DEF IInv, AuthSound, NeverLockedOut, Commit
  <1> QED
    BY <1>1, <1>2

(* An administrator that becomes idle keeps the invariant. *)
LEMMA IdleStep ==
  ASSUME IInv, NEW a \in Admins, adm' = [adm EXCEPT ![a] = Idle],
         KeepTeams, UNCHANGED <<revoked, audit, cache, drawn, expired, cli>>
  PROVE  IInv'
  <1>1. /\ Idle \in AdminStep /\ Idle.pc = "idle" /\ Idle.id = 0
        /\ drawn \subseteq Tokens /\ cache \subseteq drawn
    BY IdleIsStep DEF Idle, IInv, TypeOK
  <1> QED
    BY <1>1, QuietStep

(* A row of an import that ends without a change keeps the invariant. *)
LEMMA RowStep ==
  ASSUME IInv, NEW a \in Admins, adm[a].rows # <<>>, NEW f \in BOOLEAN, RowDone(a, f),
         KeepTeams, UNCHANGED <<revoked, audit, cache, drawn, expired, cli>>
  PROVE  IInv'
  <1>1. PICK x \in AdminStep :
           /\ adm' = [adm EXCEPT ![a] = x]
           /\ x.id = 0 /\ x.pc \in {"idle", "name"}
           /\ x.pc = "name" => x.rows # <<>>
    BY RowDoneStep DEF IInv
  <1>2. drawn \subseteq Tokens /\ cache \subseteq drawn
    BY DEF IInv, TypeOK
  <1> QED
    BY <1>1, <1>2, QuietStep

(* The steps of a request that commit nothing to the teams. *)
LEMMA PreparingStep ==
  ASSUME IInv, NEW a \in Admins
  PROVE  /\ \A rows \in Batches : Import(a, rows) => IInv'
         /\ CheckName(a) => IInv'
         /\ \A t \in Tokens : Number(a, t) => IInv'
         /\ \A id \in Ids, n \in Names : Rename(a, id, n) => IInv'
         /\ \A id \in Ids, s \in Choices : ChangeStatus(a, id, s) => IInv'
         /\ \A id \in Ids, t \in Tokens : Regenerate(a, id, t) => IInv'
         /\ AuditCommit(a) => IInv'
         /\ CommitFails(a) => IInv'
  <1>0. /\ drawn \subseteq Tokens /\ cache \subseteq drawn /\ adm[a] \in AdminStep
        /\ teams \in Seq(Team) /\ Len(teams) \in Nat /\ Ids = 1..Len(teams)
        /\ adm[a].pc \in {"name", "number", "insert", "rename"} => adm[a].rows # <<>>
        /\ adm[a].pc \in {"name", "number", "insert"} => adm[a].id = 0
    BY DEF IInv, TypeOK, Locked, Held, Ids
  <1>1. ASSUME NEW rows \in Batches, Import(a, rows) PROVE IInv'
    <2> DEFINE x == [Idle EXCEPT !.pc = "name", !.rows = rows]
    <2>1. rows \in Seq(Names)
      BY BatchesAssumption
    <2>2. x \in AdminStep
      BY <2>1 DEF Idle, AdminStep, Status, NoToken
    <2>3. x.pc = "name" /\ x.rows = rows /\ x.id = 0
      BY DEF Idle
    <2>4. adm' = [adm EXCEPT ![a] = x]
      BY <1>1 DEF Import
    <2> HIDE DEF x
    <2> QED
      BY <1>0, <1>1, <2>2, <2>3, <2>4, QuietStep DEF Import
  <1>2. ASSUME CheckName(a) PROVE IInv'
    <2>1. CASE RowDone(a, FALSE)
      BY <1>0, <1>2, <2>1, RowStep DEF CheckName
    <2>2. CASE ~RowDone(a, FALSE)
      <3> DEFINE x == [adm[a] EXCEPT !.pc = "number"]
      <3>1. x \in AdminStep
        BY <1>0 DEF AdminStep
      <3>2. x.pc = "number" /\ x.rows # <<>> /\ x.id = 0
        BY <1>0, <1>2 DEF CheckName, AdminStep
      <3>3. adm' = [adm EXCEPT ![a] = x]
        BY <1>2, <2>2 DEF CheckName
      <3> HIDE DEF x
      <3> QED
        BY <1>0, <1>2, <3>1, <3>2, <3>3, QuietStep DEF CheckName
    <2> QED
      BY <2>1, <2>2
  <1>3. ASSUME NEW t \in Tokens, Number(a, t) PROVE IInv'
    <2>1. PICK n \in Displays \cup {0} :
            /\ \A d \in Displays : d <= n
            /\ adm' = [adm EXCEPT ![a].pc = "insert", ![a].number = n + 1, ![a].token = t]
      BY <1>3 DEF Number
    <2>2. n \in 0..Len(teams)
      BY <1>0, <2>1 DEF IInv, DisplaysSequential, Displays
    <2> DEFINE x == [adm[a] EXCEPT !.pc = "insert", !.number = n + 1, !.token = t]
    <2>3. x \in AdminStep
      <3>1. n + 1 \in Nat
        BY <1>0, <2>2
      <3> QED
        BY <1>0, <3>1 DEF AdminStep
    <2>4. x.pc = "insert" /\ x.rows # <<>> /\ x.id = 0 /\ x.number = n + 1 /\ x.token = t
      BY <1>0, <1>3 DEF Number, AdminStep
    <2>5. adm' = [adm EXCEPT ![a] = x]
      BY <2>1
    <2>6. n + 1 \in 1..(Len(teams) + 1)
      BY <1>0, <2>2
    <2> HIDE DEF x
    <2> QED
      BY <1>0, <1>3, <2>3, <2>4, <2>5, <2>6, QuietStep DEF Number
  <1>4. ASSUME NEW id \in Ids, NEW n \in Names, Rename(a, id, n) PROVE IInv'
    <2> DEFINE x == [Idle EXCEPT !.pc = "rename", !.id = id, !.rows = <<n>>]
    <2>0. id \in Nat /\ <<n>> \in Seq(Names)
      BY <1>0
    <2>1. x \in AdminStep
      BY <2>0, IdleIsStep DEF AdminStep
    <2>2. x.pc = "rename" /\ x.id = id /\ x.rows # <<>>
      BY DEF Idle
    <2>3. adm' = [adm EXCEPT ![a] = x]
      BY <1>4 DEF Rename
    <2> HIDE DEF x
    <2> QED
      BY <1>0, <1>4, <2>1, <2>2, <2>3, QuietStep DEF Rename
  <1>5. ASSUME NEW id \in Ids, NEW s \in Choices, ChangeStatus(a, id, s) PROVE IInv'
    <2> DEFINE x == [Idle EXCEPT !.pc = "status", !.id = id, !.old = teams[id].status, !.new = s]
    <2>0. id \in Nat /\ s \in Status /\ teams[id].status \in Status
      <3>1. teams[id] \in Team
        BY <1>0
      <3> QED
        BY <1>0, <3>1, ChoicesAssumption DEF Status, Team
    <2>1. x \in AdminStep
      BY <2>0, IdleIsStep DEF AdminStep
    <2>2. x.pc = "status" /\ x.id = id /\ x.old = teams[id].status
      BY DEF Idle
    <2>3. adm' = [adm EXCEPT ![a] = x]
      BY <1>5 DEF ChangeStatus
    <2> HIDE DEF x
    <2> QED
      BY <1>0, <1>5, <2>1, <2>2, <2>3, QuietStep DEF ChangeStatus
  <1>6. ASSUME NEW id \in Ids, NEW t \in Tokens, Regenerate(a, id, t) PROVE IInv'
    <2> DEFINE x == [Idle EXCEPT !.pc = "token", !.id = id, !.token = t]
    <2>0. id \in Nat
      BY <1>0
    <2>1. x \in AdminStep
      BY <2>0, IdleIsStep DEF AdminStep
    <2>2. x.pc = "token" /\ x.id = id /\ x.token = t
      BY DEF Idle
    <2>3. adm' = [adm EXCEPT ![a] = x]
      BY <1>6 DEF Regenerate
    <2>4. teams[id].token \in drawn
      BY DEF IInv, TokensApart
    <2>5. /\ LockFree(id) /\ t \in Tokens \ drawn /\ drawn' = drawn \cup {t}
          /\ cache' = cache \cup {teams[id].token}
          /\ KeepTeams /\ UNCHANGED <<revoked, audit, expired, cli>>
      BY <1>6 DEF Regenerate
    <2> HIDE DEF x
    <2>6. cache' \subseteq drawn' /\ drawn' \subseteq Tokens /\ drawn \subseteq drawn'
      BY <1>0, <2>4, <2>5
    <2> QED
      BY <2>1, <2>2, <2>3, <2>5, <2>6, QuietStep
  <1>7. ASSUME AuditCommit(a) PROVE IInv'
    BY <1>7, IdleStep DEF AuditCommit
  <1>8. ASSUME CommitFails(a) PROVE IInv'
    BY <1>0, <1>8, IdleStep, RowStep DEF CommitFails
  <1> QED
    BY <1>1, <1>2, <1>3, <1>4, <1>5, <1>6, <1>7, <1>8

-----------------------------------------------------------------------------
(* The commits to the teams. *)

(* What a row of the teams is. *)
LEMMA TeamsType ==
  ASSUME IInv
  PROVE  /\ teams \in Seq(Team) /\ Len(teams) \in Nat /\ Ids = 1..Len(teams)
         /\ \A i \in Ids : teams[i] \in Team /\ teams[i].token \in Tokens /\ teams[i].display \in Nat
  <1>1. teams \in Seq(Team) /\ Len(teams) \in Nat /\ Ids = 1..Len(teams)
    BY DEF IInv, TypeOK, Ids
  <1>2. \A i \in Ids : teams[i] \in Team
    BY <1>1
  <1> QED
    BY <1>1, <1>2 DEF Team

(* The insert of a team keeps the invariant. *)
LEMMA InsertStep ==
  ASSUME IInv, NEW a \in Admins, Insert(a)
  PROVE  IInv'
  <1>0. /\ adm[a] \in AdminStep /\ adm[a].rows # <<>> /\ adm[a].id = 0
        /\ adm[a].pc = "insert" /\ adm[a].number \in 1..(Len(teams) + 1)
    BY DEF IInv, TypeOK, Locked, Held, Insert
  <1>1. CASE adm[a].number \in Displays
    BY <1>0, <1>1, RowStep DEF Insert
  <1>2. CASE adm[a].number \notin Displays
    <2> DEFINE new == [name |-> Head(adm[a].rows), display |-> adm[a].number,
                       status |-> "active", version |-> 1, token |-> adm[a].token]
    <2>1. /\ Commit(Append(teams, new)) /\ RowDone(a, FALSE)
          /\ UNCHANGED <<revoked, audit, cache, drawn, expired, cli>>
      BY <1>2 DEF Insert
    <2>2. PICK x \in AdminStep :
             /\ adm' = [adm EXCEPT ![a] = x]
             /\ x.id = 0 /\ x.pc \in {"idle", "name"}
             /\ x.pc = "name" => x.rows # <<>>
      BY <1>0, <2>1, RowDoneStep DEF IInv
    <2>3. new \in Team
      <3>1. adm[a].token \in Tokens /\ Head(adm[a].rows) \in Names /\ adm[a].number \in Nat
        BY <1>0 DEF IInv, TypeOK, TokensApart, Draws, AdminStep
      <3> QED
        BY <3>1 DEF Team, Status
    <2>4. /\ new.token = adm[a].token /\ new.display = adm[a].number
      OBVIOUS
    <2> HIDE DEF new
    <2>5. /\ teams' = Append(teams, new) /\ teams' \in Seq(Team)
          /\ Len(teams') = Len(teams) + 1 /\ Ids' = 1..(Len(teams) + 1)
          /\ teams'[Len(teams) + 1] = new
          /\ \A i \in Ids : i # Len(teams) + 1 /\ teams'[i] = teams[i]
      BY <2>1, <2>3, TeamsType DEF Commit, Ids
    <2>6. adm[a].number = Len(teams) + 1
      BY <1>0, <1>2, TeamsType DEF IInv, DisplaysSequential, Displays
    <2>7. TypeOK'
      <3>1. good' \subseteq Clients /\ bad' \subseteq Clients
        BY <2>1 DEF IInv, TypeOK, Commit
      <3> QED
        BY <2>1, <2>2, <2>5, <3>1 DEF IInv, TypeOK
    <2>8. Locked'
      BY <2>2, <2>5, TeamsType DEF IInv, TypeOK, Locked, Held
    <2>9. TokensApart'
      <3>1. adm[a].token \in drawn \ revoked /\ \A i \in Ids : teams[i].token # adm[a].token
        BY <1>0 DEF IInv, TokensApart, Draws
      <3> QED
        BY <1>0, <2>1, <2>2, <2>4, <2>5, <3>1, TeamsType DEF IInv, TypeOK, TokensApart, Draws
    <2>10. Witnessed' /\ AuthSound' /\ NeverLockedOut'
      BY <2>1, CommitWitnessed
    <2>11. DisplaysSequential'
      BY <2>4, <2>5, <2>6, TeamsType DEF IInv, DisplaysSequential
    <2>12. RevokedForGood'
      BY <1>0, <2>1, <2>4, <2>5, TeamsType DEF IInv, RevokedForGood, TokensApart, Draws
    <2>13. StatusAuditChains'
      BY <2>1, <2>5, TeamsType DEF IInv, StatusAuditChains, Follows
    <2> QED
      BY <2>7, <2>8, <2>9, <2>10, <2>11, <2>12, <2>13 DEF IInv
  <1> QED
    BY <1>1, <1>2

(* A commit under a team's lock: row id becomes team, the request goes on  *)
(* at x with or without the lock.                                          *)
LEMMA HeldCommit ==
  ASSUME IInv, NEW a \in Admins, NEW team \in Team, NEW x \in AdminStep,
         Held(a), Commit([teams EXCEPT ![adm[a].id] = team]),
         team.display = teams[adm[a].id].display,
         adm' = [adm EXCEPT ![a] = x],
         \/ x.pc = "idle" /\ x.id = 0
         \/ x.pc = "audit" /\ x.id = adm[a].id,
         UNCHANGED <<cache, drawn, expired, cli>>,
         revoked' \subseteq drawn
  PROVE  /\ Locked' /\ Witnessed' /\ AuthSound' /\ NeverLockedOut' /\ DisplaysSequential'
         /\ adm[a].id \in Ids /\ Ids' = Ids
         /\ teams' = [teams EXCEPT ![adm[a].id] = team]
         /\ audit' \in Seq([id : Nat, old : Status, new : Status]) => TypeOK'
  <1>1. adm[a].id \in Ids
    BY DEF IInv, Locked
  <1>2. /\ teams' = [teams EXCEPT ![adm[a].id] = team] /\ teams' \in Seq(Team)
        /\ Len(teams') = Len(teams) /\ Ids' = Ids
    BY <1>1, TeamsType DEF Commit, Ids
  <1>3. Locked'
    BY <1>1, <1>2, TeamsType DEF IInv, TypeOK, Locked, Held
  <1>4. Witnessed' /\ AuthSound' /\ NeverLockedOut'
    BY CommitWitnessed
  <1>5. DisplaysSequential'
    BY <1>1, <1>2 DEF IInv, DisplaysSequential
  <1>6. ASSUME audit' \in Seq([id : Nat, old : Status, new : Status]) PROVE TypeOK'
    <2>1. good' \subseteq Clients /\ bad' \subseteq Clients
      BY DEF IInv, TypeOK, Commit
    <2> QED
      BY <1>2, <1>6, <2>1 DEF IInv, TypeOK
  <1> QED
    BY <1>1, <1>2, <1>3, <1>4, <1>5, <1>6

(* The rename of a team keeps the invariant. *)
LEMMA RenameStep ==
  ASSUME IInv, NEW a \in Admins, RenameCommit(a)
  PROVE  IInv'
  <1> DEFINE team == [teams[adm[a].id] EXCEPT !.name = Head(adm[a].rows)]
  <1>1. /\ Held(a) /\ adm[a].id \in Ids /\ adm[a] \in AdminStep /\ adm[a].rows # <<>>
    BY DEF RenameCommit, Held, IInv, TypeOK, Locked
  <1>2. Head(adm[a].rows) \in Names
    BY <1>1 DEF AdminStep
  <1>3. /\ team \in Team /\ team.display = teams[adm[a].id].display
        /\ team.token = teams[adm[a].id].token /\ team.status = teams[adm[a].id].status
    BY <1>1, <1>2, TeamsType DEF Team
  <1>4. /\ Commit([teams EXCEPT ![adm[a].id] = team]) /\ adm' = [adm EXCEPT ![a] = Idle]
        /\ UNCHANGED <<revoked, audit, cache, drawn, expired, cli>>
    BY DEF RenameCommit
  <1>5. Idle \in AdminStep /\ Idle.pc = "idle" /\ Idle.id = 0 /\ revoked \subseteq drawn
    BY IdleIsStep DEF Idle, IInv, TypeOK
  <1> HIDE DEF team
  <1>6. /\ TypeOK' /\ Locked' /\ Witnessed' /\ AuthSound' /\ NeverLockedOut'
        /\ DisplaysSequential' /\ Ids' = Ids /\ teams' = [teams EXCEPT ![adm[a].id] = team]
    BY <1>1, <1>3, <1>4, <1>5, HeldCommit DEF IInv, TypeOK
  <1>7. \A i \in Ids : teams'[i].token = teams[i].token /\ teams'[i].status = teams[i].status
    BY <1>1, <1>3, <1>6, TeamsType
  <1>8. TokensApart'
    BY <1>4, <1>5, <1>6, <1>7 DEF IInv, TypeOK, TokensApart, Draws
  <1>9. RevokedForGood' /\ StatusAuditChains'
    BY <1>4, <1>6, <1>7 DEF IInv, RevokedForGood, StatusAuditChains, Follows
  <1> QED
    BY <1>6, <1>8, <1>9 DEF IInv

(* The change of the status of a team keeps the invariant. *)
LEMMA StatusStep ==
  ASSUME IInv, NEW a \in Admins, StatusCommit(a)
  PROVE  IInv'
  <1> DEFINE team == [teams[adm[a].id] EXCEPT !.status = adm[a].new]
             row == [id |-> adm[a].id, old |-> adm[a].old, new |-> adm[a].new]
  <1>1. /\ Held(a) /\ adm[a].id \in Ids /\ adm[a] \in AdminStep
        /\ adm[a].old = teams[adm[a].id].status
        /\ audit \in Seq([id : Nat, old : Status, new : Status])
    BY DEF StatusCommit, Held, IInv, TypeOK, Locked
  <1>2. /\ team \in Team /\ team.display = teams[adm[a].id].display
        /\ team.token = teams[adm[a].id].token /\ team.status = adm[a].new
    BY <1>1, TeamsType DEF Team, AdminStep
  <1>3. row \in [id : Nat, old : Status, new : Status]
    BY <1>1 DEF AdminStep
  <1>4. /\ row.id = adm[a].id /\ row.old = adm[a].old /\ row.new = adm[a].new
    OBVIOUS
  <1>5. /\ Commit([teams EXCEPT ![adm[a].id] = team]) /\ adm' = [adm EXCEPT ![a] = Idle]
        /\ audit' = Append(audit, row)
        /\ UNCHANGED <<revoked, cache, drawn, expired, cli>>
    BY DEF StatusCommit
  <1>6. Idle \in AdminStep /\ Idle.pc = "idle" /\ Idle.id = 0 /\ revoked \subseteq drawn
    BY IdleIsStep DEF Idle, IInv, TypeOK
  <1> HIDE DEF team, row
  <1>7. /\ audit' \in Seq([id : Nat, old : Status, new : Status])
        /\ Len(audit) \in Nat /\ DOMAIN audit = 1..Len(audit)
        /\ DOMAIN audit' = 1..(Len(audit) + 1) /\ audit'[Len(audit) + 1] = row
        /\ \A i \in DOMAIN audit : audit'[i] = audit[i]
    BY <1>1, <1>3, <1>5
  <1>8. /\ TypeOK' /\ Locked' /\ Witnessed' /\ AuthSound' /\ NeverLockedOut'
        /\ DisplaysSequential' /\ Ids' = Ids /\ teams' = [teams EXCEPT ![adm[a].id] = team]
    BY <1>1, <1>2, <1>5, <1>6, <1>7, HeldCommit
  <1>9. /\ \A i \in Ids : teams'[i].token = teams[i].token
        /\ \A i \in Ids : i # adm[a].id => teams'[i] = teams[i]
        /\ teams'[adm[a].id].status = adm[a].new
    BY <1>1, <1>2, <1>8, TeamsType
  <1>10. TokensApart'
    BY <1>5, <1>6, <1>8, <1>9 DEF IInv, TypeOK, TokensApart, Draws
  <1>11. RevokedForGood'
    BY <1>5, <1>8, <1>9 DEF IInv, RevokedForGood
  <1>12. StatusAuditChains'
    <2>0. PICK n \in Nat : n = Len(audit) + 1
      BY <1>7
    <2>3. /\ n \in DOMAIN audit' /\ audit'[n] = row
          /\ \A j \in DOMAIN audit' : j \in DOMAIN audit \/ j = n
          /\ \A j \in DOMAIN audit : j < n /\ j \in Nat
      BY <1>7, <2>0
    <2> SUFFICES ASSUME NEW i \in DOMAIN audit'
                 PROVE  /\ audit'[i].id \in Ids
                        /\ \A j \in DOMAIN audit' :
                             Follows(i, j)' /\ (\A k \in DOMAIN audit' : Follows(i, k)' => j <= k)
                               => audit'[j].old = audit'[i].new
                        /\ (\A j \in DOMAIN audit' : ~Follows(i, j)') =>
                              teams'[audit'[i].id].status = audit'[i].new
      BY <1>8 DEF StatusAuditChains
    <2>1. CASE i = n
      <3>1. \A j \in DOMAIN audit' : ~Follows(i, j)'
        BY <2>1, <2>3 DEF Follows
      <3> QED
        BY <1>1, <1>4, <1>9, <2>1, <2>3, <3>1
    <2>2. CASE i \in DOMAIN audit
      <3>0. \A j \in DOMAIN audit : Follows(i, j)' <=> Follows(i, j)
        BY <1>7, <2>2 DEF Follows
      <3>1. audit'[i].id \in Ids
        BY <1>7, <2>2 DEF IInv, StatusAuditChains
      <3>2. CASE audit[i].id # adm[a].id
        <4>1. ~Follows(i, n)'
          BY <1>4, <1>7, <2>2, <2>3, <3>2 DEF Follows
        <4> QED
          BY <1>7, <1>9, <2>2, <2>3, <3>0, <3>1, <3>2, <4>1, SMTT(20) DEF IInv, StatusAuditChains
      <3>3. CASE audit[i].id = adm[a].id
        <4>1. Follows(i, n)'
          BY <1>4, <1>7, <2>2, <2>3, <3>3 DEF Follows
        <4>2. ASSUME NEW j \in DOMAIN audit', Follows(i, j)',
                     \A k \in DOMAIN audit' : Follows(i, k)' => j <= k
              PROVE  audit'[j].old = audit'[i].new
          <5>1. CASE j \in DOMAIN audit
            BY <1>7, <2>2, <3>0, <4>2, <5>1 DEF IInv, StatusAuditChains
          <5>2. CASE j = n
            <6>1. \A k \in DOMAIN audit : ~Follows(i, k)
              BY <1>7, <2>3, <3>0, <4>2, <5>2
            <6>2. teams[audit[i].id].status = audit[i].new
              BY <2>2, <6>1 DEF IInv, StatusAuditChains
            <6> QED
              BY <1>1, <1>4, <1>7, <2>2, <2>3, <3>3, <5>2, <6>2
          <5> QED
            BY <2>3, <5>1, <5>2
        <4> QED
          BY <2>3, <3>1, <4>1, <4>2
      <3> QED
        BY <3>2, <3>3
    <2> QED
      BY <2>1, <2>2, <2>3
  <1> QED
    BY <1>8, <1>10, <1>11, <1>12 DEF IInv

(* A new token keeps the invariant. *)
LEMMA TokenStep ==
  ASSUME IInv, NEW a \in Admins, TokenCommit(a)
  PROVE  IInv'
  <1> DEFINE id == adm[a].id
             team == [teams[id] EXCEPT !.token = adm[a].token, !.version = @ + 1]
             x == [adm[a] EXCEPT !.pc = "audit"]
  <1>1. /\ Held(a) /\ id \in Ids /\ adm[a] \in AdminStep /\ Draws(a) /\ adm[a].pc = "token"
        /\ adm[a].token \in drawn \ revoked /\ adm[a].token \in Tokens
        /\ \A i \in Ids : teams[i].token # adm[a].token
        /\ \A b \in Admins : Draws(b) /\ adm[a].token = adm[b].token => a = b
    BY DEF TokenCommit, Held, Draws, IInv, TypeOK, Locked, TokensApart
  <1>2. /\ team \in Team /\ team.display = teams[id].display
        /\ team.token = adm[a].token /\ team.status = teams[id].status
    <2>1. teams[id] \in Team
      BY <1>1, TeamsType
    <2>2. teams[id].version + 1 \in Nat
      BY <2>1 DEF Team
    <2> QED
      BY <1>1, <2>1, <2>2 DEF Team
  <1>3. x \in AdminStep /\ x.pc = "audit" /\ x.id = id
    BY <1>1 DEF AdminStep
  <1>4. /\ Commit([teams EXCEPT ![id] = team]) /\ adm' = [adm EXCEPT ![a] = x]
        /\ revoked' = revoked \cup {teams[id].token}
        /\ UNCHANGED <<audit, cache, drawn, expired, cli>>
    BY DEF TokenCommit
  <1>5. teams[id].token \in drawn /\ revoked' \subseteq drawn
    BY <1>1, <1>4 DEF IInv, TypeOK, TokensApart
  <1> HIDE DEF team, x, id
  <1>6. /\ TypeOK' /\ Locked' /\ Witnessed' /\ AuthSound' /\ NeverLockedOut'
        /\ DisplaysSequential' /\ Ids' = Ids /\ teams' = [teams EXCEPT ![id] = team]
    BY <1>1, <1>2, <1>3, <1>4, <1>5, HeldCommit DEF IInv, TypeOK, id
  <1>7. /\ teams'[id].token = adm[a].token
        /\ \A i \in Ids : i # id => teams'[i] = teams[i]
        /\ \A i \in Ids : teams'[i].status = teams[i].status
    BY <1>1, <1>2, <1>6, TeamsType
  <1>8. TokensApart'
    <2>1. \A i \in Ids : teams'[i].token \in drawn
      BY <1>1, <1>7 DEF IInv, TokensApart
    <2>2. \A i, j \in Ids : teams'[i].token = teams'[j].token => i = j
      BY <1>1, <1>7 DEF IInv, TokensApart
    <2>3. \A b \in Admins : Draws(b)' => b # a /\ Draws(b) /\ adm'[b] = adm[b]
      BY <1>3, <1>4 DEF IInv, TypeOK, Draws
    <2>4. \A b \in Admins : Draws(b)' => adm'[b].token \in drawn \ revoked'
      BY <1>1, <1>4, <2>3 DEF IInv, TokensApart
    <2>5. \A b \in Admins, i \in Ids : Draws(b)' => teams'[i].token # adm'[b].token
      BY <1>1, <1>7, <2>3 DEF IInv, TokensApart
    <2>6. \A b, c \in Admins :
            Draws(b)' /\ Draws(c)' /\ adm'[b].token = adm'[c].token => b = c
      BY <2>3 DEF IInv, TokensApart
    <2> QED
      BY <1>4, <1>6, <2>1, <2>2, <2>4, <2>5, <2>6 DEF TokensApart
  <1>9. RevokedForGood'
    BY <1>1, <1>4, <1>6, <1>7 DEF IInv, RevokedForGood, TokensApart
  <1>10. StatusAuditChains'
    BY <1>4, <1>6, <1>7 DEF IInv, StatusAuditChains, Follows
  <1> QED
    BY <1>6, <1>8, <1>9, <1>10 DEF IInv

-----------------------------------------------------------------------------
(* The middleware, and the invariant as a whole. *)

(* Only the request of the participant and its witnesses change. *)
LEMMA ClientStep ==
  ASSUME IInv, UNCHANGED <<teams, revoked, audit, drawn, adm>>, TypeOK',
         Witnessed', AuthSound', NeverLockedOut'
  PROVE  IInv'
  <1>1. Locked' /\ TokensApart'
    BY DEF IInv, Locked, Held, TokensApart, Draws, Ids
  <1>2. DisplaysSequential' /\ RevokedForGood' /\ StatusAuditChains'
    BY DEF IInv, DisplaysSequential, RevokedForGood, StatusAuditChains, Follows, Ids
  <1> QED
    BY <1>1, <1>2 DEF IInv

(* A request is given an answer, for which it has the witness. *)
LEMMA AnswerStep ==
  ASSUME IInv, NEW c \in Clients, Waiting(c),
         NEW pc \in {"missed", "fallback", "accepted", "rejected"}, Answer(c, pc),
         KeepTeams, UNCHANGED <<revoked, audit, drawn, expired, adm>>,
         cache' \subseteq drawn,
         pc = "accepted" => c \in good,
         pc = "rejected" => c \in bad \/ cli[c].token \in expired,
         pc \in {"missed", "fallback"} => c \in bad
  PROVE  IInv'
  <1>0. UNCHANGED <<teams, good, bad>>
    BY DEF KeepTeams
  <1>1. TypeOK'
    BY <1>0 DEF IInv, TypeOK, Answer
  <1>2. /\ cli'[c].pc = pc /\ cli'[c].token = cli[c].token /\ cli[c].pc # "idle"
        /\ \A d \in Clients : d # c => cli'[d] = cli[d]
    BY DEF IInv, TypeOK, Answer, Waiting
  <1>3. Witnessed'
    BY <1>0, <1>2 DEF IInv, Witnessed, Waiting, Valid
  <1>4. AuthSound' /\ NeverLockedOut'
    BY <1>0, <1>2 DEF IInv, AuthSound, NeverLockedOut
  <1> QED
    BY <1>0, <1>1, <1>3, <1>4, ClientStep

(* The authentication of a client keeps the invariant. *)
LEMMA AuthenticateStep ==
  ASSUME IInv, NEW c \in Clients, Authenticate(c)
  PROVE  IInv'
  <1>0. /\ cache \subseteq drawn
        /\ Waiting(c) => c \in IF Valid(teams, cli[c].token) THEN good ELSE bad
        /\ cli[c].pc \in {"missed", "fallback"} => c \in bad
        /\ Waiting(c) => cli[c].token \in drawn
    BY DEF IInv, TypeOK, Witnessed, Waiting
  <1>1. ASSUME NEW t \in Tokens, Begin(c, t) PROVE IInv'
    <2>1. TypeOK'
      BY <1>1 DEF Begin, IInv, TypeOK
    <2>2. /\ cli'[c].pc = "primary" /\ cli'[c].token = t /\ t \in drawn
          /\ \A d \in Clients : d # c => cli'[d] = cli[d]
      BY <1>1 DEF Begin, IInv, TypeOK
    <2>3. Witnessed'
      BY <1>1, <2>2 DEF Begin, IInv, Witnessed, Waiting, Valid
    <2>4. AuthSound' /\ NeverLockedOut'
      BY <1>1, <2>2 DEF Begin, IInv, AuthSound, NeverLockedOut
    <2> QED
      BY <1>1, <2>1, <2>3, <2>4, ClientStep DEF Begin
  <1>2. ASSUME Primary(c) PROVE IInv'
    <2> DEFINE t == cli[c].token
               pc == IF t \in expired THEN "rejected"
                     ELSE IF {i \in Ids : teams[i].token = t} # {}
                          THEN IF Valid(teams, t) THEN "accepted" ELSE "rejected"
                     ELSE IF t \in cache THEN "rejected" ELSE "missed"
    <2>1. Waiting(c) /\ Answer(c, pc) /\ KeepTeams
          /\ UNCHANGED <<revoked, audit, cache, drawn, expired, adm>>
      BY <1>2 DEF Primary, Waiting
    <2>2. {i \in Ids : teams[i].token = t} = {} => ~Valid(teams, t)
      BY DEF Valid, Ids
    <2>3. /\ pc = "accepted" => c \in good
          /\ pc = "rejected" => c \in bad \/ cli[c].token \in expired
          /\ pc \in {"missed", "fallback"} => c \in bad
          /\ pc \in {"missed", "fallback", "accepted", "rejected"}
      BY <1>0, <2>1, <2>2
    <2> HIDE DEF pc
    <2> QED
      BY <1>0, <2>1, <2>3, AnswerStep
  <1>3. ASSUME Missed(c) PROVE IInv'
    <2>1. /\ Waiting(c) /\ c \in bad /\ cache' \subseteq drawn
          /\ \E pc \in {"rejected", "fallback"} : Answer(c, pc)
          /\ KeepTeams /\ UNCHANGED <<revoked, audit, drawn, expired, adm>>
      BY <1>0, <1>3 DEF Missed, Waiting
    <2> QED
      BY <2>1, AnswerStep
  <1>4. ASSUME Fallback(c) PROVE IInv'
    <2>1. Waiting(c) /\ c \in bad
      BY <1>0, <1>4 DEF Fallback, Waiting
    <2>2. CASE Valid(teams, cli[c].token)
      BY <1>0, <1>4, <2>1, <2>2, AnswerStep DEF Fallback
    <2>3. CASE ~Valid(teams, cli[c].token)
      BY <1>0, <1>4, <2>1, <2>3, AnswerStep DEF Fallback
    <2> QED
      BY <2>2, <2>3
  <1>5. ASSUME Leave(c) PROVE IInv'
    <2>1. TypeOK'
      BY <1>5 DEF Leave, NoRequest, IInv, TypeOK
    <2>2. /\ cli'[c].pc = "idle" /\ \A d \in Clients : d # c => cli'[d] = cli[d]
      BY <1>5 DEF Leave, NoRequest, IInv, TypeOK
    <2>3. Witnessed'
      BY <1>5, <2>2 DEF Leave, IInv, Witnessed, Waiting, Valid
    <2>4. AuthSound' /\ NeverLockedOut'
      BY <1>5, <2>2 DEF Leave, IInv, AuthSound, NeverLockedOut
    <2> QED
      BY <1>5, <2>1, <2>3, <2>4, ClientStep DEF Leave
  <1> QED
    BY <1>1, <1>2, <1>3, <1>4, <1>5 DEF Authenticate

(* The expiry of a token keeps the invariant. *)
LEMMA ExpireStep ==
  ASSUME IInv, NEW t \in Tokens, Expire(t)
  PROVE  IInv'
  <1>0. UNCHANGED <<teams, good, bad, revoked, audit, cache, drawn, adm, cli>>
        /\ expired' = expired \cup {t} /\ t \in drawn
    BY DEF Expire, KeepTeams
  <1>1. TypeOK'
    BY <1>0 DEF IInv, TypeOK
  <1>2. Witnessed' /\ AuthSound' /\ NeverLockedOut'
    BY <1>0 DEF IInv, Witnessed, Waiting, Valid, AuthSound, NeverLockedOut
  <1> QED
    BY <1>0, <1>1, <1>2, ClientStep

(* A crash keeps the invariant. *)
LEMMA CrashStep ==
  ASSUME IInv, Crash
  PROVE  IInv'
  <1>1. \A a \in Admins : adm'[a] = Idle
    BY DEF Crash
  <1>2. TypeOK'
    BY IdleIsStep DEF Crash, NoRequest, IInv, TypeOK
  <1>3. Locked' /\ TokensApart'
    BY <1>1 DEF Crash, Idle, IInv, Locked, Held, TokensApart, Draws, Ids
  <1>4. Witnessed' /\ AuthSound' /\ NeverLockedOut'
    BY DEF Crash, NoRequest, Witnessed, Waiting, AuthSound, NeverLockedOut
  <1>5. DisplaysSequential' /\ RevokedForGood' /\ StatusAuditChains'
    BY DEF Crash, IInv, DisplaysSequential, RevokedForGood, StatusAuditChains, Follows, Ids
  <1> QED
    BY <1>2, <1>3, <1>4, <1>5 DEF IInv

(* The invariant holds at the start. *)
LEMMA InitInvariant == Init => IInv
  <1> SUFFICES ASSUME Init PROVE IInv
    OBVIOUS
  <1>1. TypeOK
    BY IdleIsStep DEF Init, TypeOK, NoRequest
  <1>2. Locked /\ TokensApart
    BY DEF Init, Idle, Locked, Held, TokensApart, Draws, Ids
  <1>3. Witnessed /\ AuthSound /\ NeverLockedOut
    BY DEF Init, NoRequest, Witnessed, Waiting, AuthSound, NeverLockedOut
  <1>4. DisplaysSequential /\ RevokedForGood /\ StatusAuditChains
    BY DEF Init, DisplaysSequential, RevokedForGood, StatusAuditChains, Ids
  <1> QED
    BY <1>1, <1>2, <1>3, <1>4 DEF IInv

(* Every step keeps the invariant. *)
LEMMA StepInvariant == IInv /\ [Next]_vars => IInv'
  <1> SUFFICES ASSUME IInv, [Next]_vars PROVE IInv'
    OBVIOUS
  <1>1. ASSUME NEW a \in Admins, Administer(a) PROVE IInv'
    BY <1>1, PreparingStep, InsertStep, RenameStep, StatusStep, TokenStep DEF Administer
  <1>2. CASE UNCHANGED vars
    <2>1. TypeOK' /\ Witnessed' /\ AuthSound' /\ NeverLockedOut'
      BY <1>2 DEF vars, IInv, TypeOK, Witnessed, Waiting, Valid, AuthSound, NeverLockedOut
    <2> QED
      BY <1>2, <2>1, ClientStep DEF vars
  <1> QED
    BY <1>1, <1>2, AuthenticateStep, ExpireStep, CrashStep DEF Next

(* The inductive invariant. *)
THEOREM InvariantHolds == Spec => []IInv
  BY InitInvariant, StepInvariant, PTL DEF Spec

(* No request is let in on a token that was no active team's all the while *)
(* the middleware looked it up (auth_service.py:134).                      *)
THEOREM AuthenticationSound == Spec => []AuthSound
  <1>1. IInv => AuthSound
    BY DEF IInv
  <1> QED
    BY <1>1, InvariantHolds, PTL

(* No team is locked out by the cache of revoked hashes, nor by a          *)
(* regeneration that failed halfway (auth_service.py:111).                 *)
THEOREM TeamsKeepAccess == Spec => []NeverLockedOut
  <1>1. IInv => NeverLockedOut
    BY DEF IInv
  <1> QED
    BY <1>1, InvariantHolds, PTL

(* Registrations that race for a number leave no gap and no double.        *)
THEOREM NumbersSequential == Spec => []DisplaysSequential
  <1>1. IInv => DisplaysSequential
    BY DEF IInv
  <1> QED
    BY <1>1, InvariantHolds, PTL

(* A revoked token is never issued or stored again.                        *)
THEOREM RevocationFinal == Spec => []RevokedForGood
  <1>1. IInv => RevokedForGood
    BY DEF IInv
  <1> QED
    BY <1>1, InvariantHolds, PTL

(* The audit rows of a team account for every change of its status.        *)
THEOREM AuditComplete == Spec => []StatusAuditChains
  <1>1. IInv => StatusAuditChains
    BY DEF IInv
  <1> QED
    BY <1>1, InvariantHolds, PTL

=============================================================================
