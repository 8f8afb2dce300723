----------------------------- MODULE TeamAccess -----------------------------
(***************************************************************************)
(* The teams and their bearer tokens: the admin service creates, imports,  *)
(* renames, suspends and re-keys teams while the middleware authenticates  *)
(* the participants' requests.  One process serves all requests; a step is *)
(* what runs between two waits for the database, and a read sees the       *)
(* commits before it.                                                      *)
(***************************************************************************)
EXTENDS Integers, Sequences, FiniteSets

CONSTANTS
  Admins, Clients,  \* the admins' requests and the participants' requests
  Names,            \* team names
  Batches,          \* the name columns of the imports, as sequences of names
  Tokens,           \* what create_bearer_token may draw
  Choices,          \* the statuses the admins set
  JwtTokens,        \* those drawn while bearer_token_expiry_hours is set
  MaxTeams, MaxAudit \* bounds of the exploration

ASSUME BatchesAssumption == Batches \subseteq Seq(Names)
ASSUME TokensAssumption == JwtTokens \subseteq Tokens
ASSUME ChoicesAssumption == Choices \subseteq {"active", "suspended", "disqualified"}

VARIABLES
  teams,   \* table teams, in the order of creation
  revoked, \* table revoked_tokens
  audit,   \* table settings_audit_log, the rows about a team's status
  cache,   \* _REVOKED_HASHES_CACHE of the process
  drawn,   \* the tokens drawn so far: a draw never repeats one
  expired, \* the JWT tokens whose exp has passed
  adm,     \* the step each admin request is at
  cli,     \* the step each participant request is at
  good,    \* history: requests whose token was valid at some moment since they began
  bad      \* history: requests whose token was invalid at some such moment

vars == <<teams, revoked, audit, cache, drawn, expired, adm, cli, good, bad>>

Status == {"active", "suspended", "disqualified"}
NoToken == "none"

Ids == DOMAIN teams
Displays == {teams[i].display : i \in Ids}

Idle == [pc |-> "idle", id |-> 0, rows |-> <<>>, broken |-> FALSE, number |-> 0,
         token |-> NoToken, old |-> "active", new |-> "active"]
NoRequest == [pc |-> "idle", token |-> NoToken]

(* The in-process lock of a team, which rename, status and token requests  *)
(* hold from their first read to their last commit.                        *)
LockFreeMutant(id) == id \in Ids  \* mutant: no lock

LockFree(id) == \A a \in Admins : adm[a].id # id

Valid(ts, t) == \E i \in DOMAIN ts : ts[i].token = t /\ ts[i].status = "active"

Waiting(c) == cli[c].pc \in {"primary", "missed", "fallback"}

(* A commit to teams, and what the waiting requests live to see.  *)
Commit(ts) ==
  /\ teams' = ts
  /\ good' = good \cup {c \in Clients : Waiting(c) /\ Valid(ts, cli[c].token)}
  /\ bad' = bad \cup {c \in Clients : Waiting(c) /\ ~Valid(ts, cli[c].token)}
KeepTeams == UNCHANGED <<teams, good, bad>>

-----------------------------------------------------------------------------
(* create_team and bulk_import_teams: an import runs create_team on every  *)
(* row, in one session.                                                    *)

Import(a, rows) ==
  /\ adm[a].pc = "idle" /\ rows # <<>>
  /\ adm' = [adm EXCEPT ![a] = [Idle EXCEPT !.pc = "name", !.rows = rows]]
  /\ KeepTeams /\ UNCHANGED <<revoked, audit, cache, drawn, expired, cli>>

(* The row is done, whatever its outcome; a failed commit leaves the       *)
(* session broken for the rows that follow, nothing rolls it back.         *)
RowDone(a, failed) ==
  adm' = [adm EXCEPT ![a] =
    IF Tail(@.rows) = <<>> THEN Idle
    ELSE [Idle EXCEPT !.pc = "name", !.rows = Tail(adm[a].rows), !.broken = adm[a].broken \/ failed]]

NameTaken(n) == \E i \in Ids : teams[i].name = n

CheckName(a) ==
  /\ adm[a].pc = "name"
  /\ IF adm[a].broken \/ NameTaken(Head(adm[a].rows))
     THEN RowDone(a, FALSE)
     ELSE adm' = [adm EXCEPT ![a].pc = "number"]
  /\ KeepTeams /\ UNCHANGED <<revoked, audit, cache, drawn, expired, cli>>

(* register_team draws a token that no team has and takes the next         *)
(* display_id, both before the insertion.                                  *)
Number(a, t) ==
  /\ adm[a].pc = "number" /\ Len(teams) < MaxTeams
  /\ t \in Tokens \ drawn
  /\ \E n \in Displays \cup {0} :
       /\ \A d \in Displays : d <= n
       /\ adm' = [adm EXCEPT ![a].pc = "insert", ![a].number = n + 1, ![a].token = t]
  /\ drawn' = drawn \cup {t}
  /\ KeepTeams /\ UNCHANGED <<revoked, audit, cache, expired, cli>>

InsertMutant(a) ==  \* mutant: no constraint on display_id
  /\ adm[a].pc = "insert"
  /\ Commit(Append(teams, [name |-> Head(adm[a].rows), display |-> adm[a].number,
                           status |-> "active", version |-> 1, token |-> adm[a].token]))
  /\ RowDone(a, FALSE)
  /\ UNCHANGED <<revoked, audit, cache, drawn, expired, cli>>

(* The constraint on display_id refuses the insertion when another request *)
(* took the number in the meantime.                                        *)
Insert(a) ==
  /\ adm[a].pc = "insert"
  /\ IF adm[a].number \in Displays
     THEN RowDone(a, TRUE) /\ KeepTeams
     ELSE /\ Len(teams) < MaxTeams
          /\ Commit(Append(teams, [name |-> Head(adm[a].rows), display |-> adm[a].number,
                                   status |-> "active", version |-> 1, token |-> adm[a].token]))
          /\ RowDone(a, FALSE)
  /\ UNCHANGED <<revoked, audit, cache, drawn, expired, cli>>

-----------------------------------------------------------------------------
(* update_team, update_team_status and regenerate_team_token, each under   *)
(* the lock of the team.                                                   *)

Rename(a, id, n) ==
  /\ adm[a].pc = "idle" /\ LockFree(id)
  /\ n # teams[id].name /\ ~NameTaken(n)
  /\ adm' = [adm EXCEPT ![a] = [Idle EXCEPT !.pc = "rename", !.id = id, !.rows = <<n>>]]
  /\ KeepTeams /\ UNCHANGED <<revoked, audit, cache, drawn, expired, cli>>

RenameCommit(a) ==
  /\ adm[a].pc = "rename"
  /\ Commit([teams EXCEPT ![adm[a].id].name = Head(adm[a].rows)])
  /\ adm' = [adm EXCEPT ![a] = Idle]
  /\ UNCHANGED <<revoked, audit, cache, drawn, expired, cli>>

ChangeStatus(a, id, s) ==
  /\ adm[a].pc = "idle" /\ LockFree(id) /\ Len(audit) < MaxAudit
  /\ adm' = [adm EXCEPT ![a] = [Idle EXCEPT !.pc = "status", !.id = id,
                                            !.old = teams[id].status, !.new = s]]
  /\ KeepTeams /\ UNCHANGED <<revoked, audit, cache, drawn, expired, cli>>

StatusCommit(a) ==
  /\ adm[a].pc = "status"
  /\ Commit([teams EXCEPT ![adm[a].id].status = adm[a].new])
  /\ audit' = Append(audit, [id |-> adm[a].id, old |-> adm[a].old, new |-> adm[a].new])
  /\ adm' = [adm EXCEPT ![a] = Idle]
  /\ UNCHANGED <<revoked, cache, drawn, expired, cli>>

(* The old hash enters the cache before anything is committed.  *)
Regenerate(a, id, t) ==
  /\ adm[a].pc = "idle" /\ LockFree(id)
  /\ t \in Tokens \ drawn
  /\ cache' = cache \cup {teams[id].token}
  /\ drawn' = drawn \cup {t}
  /\ adm' = [adm EXCEPT ![a] = [Idle EXCEPT !.pc = "token", !.id = id, !.token = t]]
  /\ KeepTeams /\ UNCHANGED <<revoked, audit, expired, cli>>

TokenCommitMutant(a) ==  \* mutant: the hash read after the new one is set
  /\ adm[a].pc = "token"
  /\ revoked' = revoked \cup {adm[a].token}
  /\ Commit([teams EXCEPT ![adm[a].id].token = adm[a].token, ![adm[a].id].version = @ + 1])
  /\ adm' = [adm EXCEPT ![a].pc = "audit"]
  /\ UNCHANGED <<audit, cache, drawn, expired, cli>>

TokenCommit(a) ==
  /\ adm[a].pc = "token"
  /\ revoked' = revoked \cup {teams[adm[a].id].token}
  /\ Commit([teams EXCEPT ![adm[a].id].token = adm[a].token, ![adm[a].id].version = @ + 1])
  /\ adm' = [adm EXCEPT ![a].pc = "audit"]
  /\ UNCHANGED <<audit, cache, drawn, expired, cli>>

(* The audit row of the token, a commit of its own, is left out of audit;  *)
(* the lock is held until it is written.                                   *)
AuditCommit(a) ==
  /\ adm[a].pc = "audit"
  /\ adm' = [adm EXCEPT ![a] = Idle]
  /\ KeepTeams /\ UNCHANGED <<revoked, audit, cache, drawn, expired, cli>>

(* The database refuses or loses a commit: the request ends in an error.   *)
CommitFails(a) ==
  /\ \/ adm[a].pc = "insert" /\ RowDone(a, TRUE)
     \/ /\ adm[a].pc \in {"rename", "status", "token", "audit"}
        /\ adm' = [adm EXCEPT ![a] = Idle]
  /\ KeepTeams /\ UNCHANGED <<revoked, audit, cache, drawn, expired, cli>>

-----------------------------------------------------------------------------
(* authenticate_bearer_token, called by the middleware before the handler. *)
(* A request may carry any token ever drawn, also one whose commit failed. *)

Begin(c, t) ==
  /\ cli[c].pc = "idle" /\ t \in drawn
  /\ cli' = [cli EXCEPT ![c] = [pc |-> "primary", token |-> t]]
  /\ good' = IF Valid(teams, t) THEN good \cup {c} ELSE good
  /\ bad' = IF Valid(teams, t) THEN bad ELSE bad \cup {c}
  /\ UNCHANGED <<teams, revoked, audit, cache, drawn, expired, adm>>

Answer(c, pc) == cli' = [cli EXCEPT ![c].pc = pc]

PrimaryMutant(c) ==  \* mutant: the cache is asked first
  LET t == cli[c].token IN
  /\ cli[c].pc = "primary"
  /\ Answer(c, IF t \in expired \cup cache THEN "rejected"
               ELSE IF Valid(teams, t) THEN "accepted" ELSE "missed")
  /\ KeepTeams /\ UNCHANGED <<revoked, audit, cache, drawn, expired, adm>>

(* The signature and exp of a JWT, then the team by the hash; the cache is *)
(* asked only about a token no team has.                                   *)
Primary(c) ==
  LET t == cli[c].token
      holders == {i \in Ids : teams[i].token = t}
  IN
  /\ cli[c].pc = "primary"
  /\ Answer(c, IF t \in expired THEN "rejected"
               ELSE IF holders # {}
                    THEN IF Valid(teams, t) THEN "accepted" ELSE "rejected"
               ELSE IF t \in cache THEN "rejected" ELSE "missed")
  /\ KeepTeams /\ UNCHANGED <<revoked, audit, cache, drawn, expired, adm>>

(* The table of revoked hashes, which fills the cache.                     *)
Missed(c) ==
  LET t == cli[c].token IN
  /\ cli[c].pc = "missed"
  /\ IF t \in revoked
     THEN Answer(c, "rejected") /\ cache' = cache \cup {t}
     ELSE /\ Answer(c, IF t \in JwtTokens \ expired THEN "fallback" ELSE "rejected")
          /\ UNCHANGED cache
  /\ KeepTeams /\ UNCHANGED <<revoked, audit, drawn, expired, adm>>

FallbackMutant(c) ==  \* mutant: the hash is not compared
  /\ cli[c].pc = "fallback"
  /\ Answer(c, IF \E i \in Ids : teams[i].status = "active" THEN "accepted" ELSE "rejected")
  /\ KeepTeams /\ UNCHANGED <<revoked, audit, cache, drawn, expired, adm>>

(* The team the JWT names, whose version and hash must be the token's.     *)
Fallback(c) ==
  /\ cli[c].pc = "fallback"
  /\ Answer(c, IF Valid(teams, cli[c].token) THEN "accepted" ELSE "rejected")
  /\ KeepTeams /\ UNCHANGED <<revoked, audit, cache, drawn, expired, adm>>

(* The handler has run, or the error was sent.                             *)
Leave(c) ==
  /\ cli[c].pc \in {"accepted", "rejected"}
  /\ cli' = [cli EXCEPT ![c] = NoRequest]
  /\ good' = good \ {c} /\ bad' = bad \ {c}
  /\ UNCHANGED <<teams, revoked, audit, cache, drawn, expired, adm>>

Expire(t) ==
  /\ t \in JwtTokens \cap drawn /\ t \notin expired
  /\ expired' = expired \cup {t}
  /\ KeepTeams /\ UNCHANGED <<revoked, audit, cache, drawn, adm, cli>>

(* The process ends and starts again: its cache and its requests are gone. *)
Crash ==
  /\ cache' = {} /\ good' = {} /\ bad' = {}
  /\ adm' = [a \in Admins |-> Idle]
  /\ cli' = [c \in Clients |-> NoRequest]
  /\ UNCHANGED <<teams, revoked, audit, drawn, expired>>

-----------------------------------------------------------------------------
Init ==
  /\ teams = <<>> /\ audit = <<>>
  /\ revoked = {} /\ cache = {} /\ drawn = {} /\ expired = {}
  /\ good = {} /\ bad = {}
  /\ adm = [a \in Admins |-> Idle]
  /\ cli = [c \in Clients |-> NoRequest]

Administer(a) ==
  \/ \E rows \in Batches : Import(a, rows)
  \/ CheckName(a) \/ Insert(a)
  \/ \E t \in Tokens : Number(a, t)
  \/ \E id \in Ids :
       \/ \E n \in Names : Rename(a, id, n)
       \/ \E s \in Choices : ChangeStatus(a, id, s)
       \/ \E t \in Tokens : Regenerate(a, id, t)
  \/ RenameCommit(a) \/ StatusCommit(a) \/ TokenCommit(a) \/ AuditCommit(a)
  \/ CommitFails(a)

Authenticate(c) ==
  \/ \E t \in Tokens : Begin(c, t)
  \/ Primary(c) \/ Missed(c) \/ Fallback(c) \/ Leave(c)

Next ==
  \/ \E a \in Admins : Administer(a)
  \/ \E c \in Clients : Authenticate(c)
  \/ \E t \in Tokens : Expire(t)
  \/ Crash

Spec == Init /\ [][Next]_vars

-----------------------------------------------------------------------------
Team == [name : Names, display : Nat, status : Status, version : Nat, token : Tokens]
AdminStep == [pc : {"idle", "name", "number", "insert", "rename", "status", "token", "audit"},
              id : Nat, rows : Seq(Names), broken : BOOLEAN, number : Nat,
              token : Tokens \cup {NoToken}, old : Status, new : Status]

TypeOK ==
  /\ teams \in Seq(Team)
  /\ adm \in [Admins -> AdminStep]
  /\ cli \in [Clients -> [pc : {"idle", "primary", "missed", "fallback", "accepted", "rejected"},
                          token : Tokens \cup {NoToken}]]
  /\ revoked \subseteq drawn /\ drawn \subseteq Tokens
  /\ cache \subseteq drawn /\ expired \subseteq drawn
  /\ good \subseteq Clients /\ bad \subseteq Clients
  /\ audit \in Seq([id : Nat, old : Status, new : Status])

(* A request that was let in carried the token of an active team at some   *)
(* moment since it arrived: a token revoked, or a team suspended, before   *)
(* the request is refused (docs/ADMIN_GUIDE.md:55).                        *)
AuthSound == \A c \in Clients : cli[c].pc = "accepted" => c \in good

(* A request is refused only when its token expired or was at some moment  *)
(* no active team's: no entry of the cache, not even that of a             *)
(* regeneration whose commit failed, locks a team out.                     *)
NeverLockedOut ==
  \A c \in Clients :
    cli[c].pc = "rejected" => c \in bad \/ cli[c].token \in expired

(* However many registrations race for a number, the teams' display ids    *)
(* are distinct and without gaps (T-10001, T-10002, ...).                  *)
DisplaysSequential ==
  \A i \in Ids : teams[i].display = i

Follows(i, j) == i < j /\ audit[j].id = audit[i].id

(* The audit rows of a team's status form a chain that ends in the status  *)
(* it has: no change between two rows went unrecorded.                     *)
StatusAuditChains ==
  \A i \in DOMAIN audit :
    /\ audit[i].id \in Ids
    /\ \A j \in DOMAIN audit :
         Follows(i, j) /\ (\A k \in DOMAIN audit : Follows(i, k) => j <= k)
           => audit[j].old = audit[i].new
    /\ (\A j \in DOMAIN audit : ~Follows(i, j)) => teams[audit[i].id].status = audit[i].new

(* A revoked token is never a team's again.                                *)
RevokedForGood == \A i \in Ids : teams[i].token \notin revoked

(* The inductive invariant: a team's lock has one holder, who knows its    *)
(* status; a token drawn is one team's, one request's or nobody's; numbers *)
(* are taken behind the end of the table; and a waiting request has a      *)
(* witness for each answer it may still get.                               *)
Held(a) == adm[a].pc \in {"rename", "status", "token", "audit"}
Draws(a) == adm[a].pc \in {"insert", "token"}

Locked ==
  \A a \in Admins :
    /\ IF Held(a) THEN adm[a].id \in Ids ELSE adm[a].id = 0
    /\ \A b \in Admins : Held(a) /\ adm[a].id = adm[b].id => a = b
    /\ adm[a].pc = "status" => adm[a].old = teams[adm[a].id].status
    /\ adm[a].pc \in {"name", "number", "insert", "rename"} => adm[a].rows # <<>>
    /\ adm[a].pc = "insert" => adm[a].number \in 1..(Len(teams) + 1)

TokensApart ==
  /\ \A i \in Ids : teams[i].token \in drawn
  /\ \A i, j \in Ids : teams[i].token = teams[j].token => i = j
  /\ \A a \in Admins : Draws(a) =>
       /\ adm[a].token \in drawn \ revoked
       /\ \A i \in Ids : teams[i].token # adm[a].token
       /\ \A b \in Admins : Draws(b) /\ adm[a].token = adm[b].token => a = b

Witnessed ==
  \A c \in Clients :
    /\ cli[c].pc = "idle" => c \notin good \cup bad
    /\ cli[c].pc # "idle" => cli[c].token \in drawn
    /\ Waiting(c) => c \in IF Valid(teams, cli[c].token) THEN good ELSE bad
    /\ cli[c].pc \in {"missed", "fallback"} => c \in bad

IInv ==
  /\ TypeOK /\ Locked /\ TokensApart /\ Witnessed
  /\ AuthSound /\ NeverLockedOut /\ DisplaysSequential /\ RevokedForGood
  /\ StatusAuditChains
=============================================================================
