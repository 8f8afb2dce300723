--------------------------- MODULE SettingsCache ---------------------------
(***************************************************************************)
(* SettingsService: the settings table, its audit log, and the class-level *)
(* dictionary _cache that every handler reads instead of the table.  The   *)
(* service takes no lock: a request is suspended at each SELECT and at the *)
(* commit, and what it writes into the cache afterwards is what the        *)
(* database answered then.                                                 *)
(***************************************************************************)
EXTENDS Naturals, Sequences

CONSTANTS
  Key,        \* setting keys
  Ranked,     \* the keys whose value may only grow: competition_phase
  Value,      \* values a request may propose, as ranks
  Allowed,    \* Allowed[k]: the values validate_setting_value accepts for k
  Default,    \* settings_defaults.json; Absent for a custom key
  Req,        \* requests that can be in flight at the same time
  Writers,    \* those an admin may use to change a setting
  Ops,        \* the operations called in this instance
  MayFail,    \* whether the database may fail a commit or lose its answer
  Rows,       \* bound: no writer arrives for a key with so many audit rows
  Absent      \* no row, no cache entry, no default

AllOps == {"get", "get_all", "update", "transition"}

ASSUME SettingsAssumption ==
  /\ Value \subseteq Nat /\ Absent \notin Value
  /\ Ranked \subseteq Key
  /\ Allowed \in [Key -> SUBSET Value]
  /\ Default \in [Key -> Value \cup {Absent}]
  /\ \A k \in Key : Default[k] \in Allowed[k] \cup {Absent}
  /\ Writers \subseteq Req
  /\ Ops \subseteq AllOps
  /\ MayFail \in BOOLEAN
  /\ Rows \in Nat

Cell  == Value \cup {Absent}
Blank == [k \in Key |-> Absent]

VARIABLES
  up,     \* the API process serves requests
  table,  \* settings.value by key, committed
  audit,  \* the committed rows of settings_audit_log, by key
  cache,  \* SettingsService._cache
  req     \* the requests: control point, arguments and what they have read

vars == <<up, table, audit, cache, req>>

PC == {"idle", "look", "fetch", "fill", "old", "write", "publish", "select", "fillAll"}

Idle == [pc |-> "idle", op |-> "none", key |-> Absent, val |-> Absent, seen |-> Blank]

Request == [pc : PC, op : AllOps \cup {"none"}, key : Key \cup {Absent},
            val : Cell, seen : [Key -> Cell]]

AuditRow == [old : Cell, new : Value]

(* The value of k given its row c: the row, or the default of the file. *)
Known(k, c) == IF c = Absent THEN Default[k] ELSE c

(* Mutant: validate_phase_transition is not called. *)
AcceptedMutant(k, v, old) == v \in Allowed[k]

(* validate_setting_value: the rules of the key, and of a phase transition. *)
Accepted(k, v, old) ==
  /\ v \in Allowed[k]
  /\ k \in Ranked /\ old # Absent => old <= v

Logged(k, old, new) == [audit EXCEPT ![k] = Append(@, [old |-> old, new |-> new])]

Goto(r, pc) == req' = [req EXCEPT ![r].pc = pc]
Done(r)     == req' = [req EXCEPT ![r] = Idle]

-----------------------------------------------------------------------------
(* A get of a cached key answers at once and changes nothing. *)
Arrive(r, op, k, v) ==
  /\ up /\ req[r] = Idle /\ op \in Ops
  /\ op \in {"update", "transition"} => r \in Writers /\ Len(audit[k]) < Rows
  /\ op = "transition" => k \in Ranked
  /\ op = "get" => cache[k] = Absent
  /\ req' = [req EXCEPT ![r] = [Idle EXCEPT
       !.op = op, !.key = k, !.val = v,
       !.pc = CASE op = "get"        -> "fetch"
                [] op = "get_all"    -> "select"
                [] op = "update"     -> "look"
                [] op = "transition" -> "old"]]
  /\ UNCHANGED <<up, table, audit, cache>>

(* Mutant: set takes the old value from the cache. *)
DecideMutant(r, c) ==
  LET k == req[r].key IN
  IF Accepted(k, req[r].val, Known(k, cache[k]))
    THEN req' = [req EXCEPT ![r].pc = "write", ![r].seen[k] = cache[k]]
    ELSE Done(r)

(* The session keeps the row it loaded: the second SELECT of an update,    *)
(* inside set, gives the value of the first.                               *)
Decide(r, c) ==
  LET k == req[r].key IN
  IF Accepted(k, req[r].val, Known(k, c))
    THEN req' = [req EXCEPT ![r].pc = "write", ![r].seen[k] = c]
    ELSE Done(r)

(* AdminService.update_setting reads the row, or else asks get. *)
Look(r) ==
  LET k == req[r].key IN
  /\ req[r].pc = "look"
  /\ \/ table[k] # Absent /\ Decide(r, table[k])
     \/ table[k] = Absent /\ cache[k] # Absent /\ Goto(r, "old")
     \/ table[k] = Absent /\ cache[k] = Absent /\ Goto(r, "fetch")
  /\ UNCHANGED <<up, table, audit, cache>>

(* get on a cache miss: the SELECT, and then the entry it leaves. *)
Fetch(r) ==
  LET k == req[r].key IN
  /\ req[r].pc = "fetch"
  /\ \/ table[k] # Absent
        /\ req' = [req EXCEPT ![r].pc = "fill", ![r].seen[k] = table[k]]
     \/ table[k] = Absent /\ req[r].op = "get" /\ Done(r)
     \/ table[k] = Absent /\ req[r].op = "update" /\ Goto(r, "old")
  /\ UNCHANGED <<up, table, audit, cache>>

Fill(r) ==
  LET k == req[r].key IN
  /\ req[r].pc = "fill"
  /\ cache' = [cache EXCEPT ![k] = req[r].seen[k]]
  /\ IF req[r].op = "get" THEN Done(r) ELSE Goto(r, "old")
  /\ UNCHANGED <<up, table, audit>>

-----------------------------------------------------------------------------
(* set: the SELECT and the validation against what it returned. *)
ReadOld(r) ==
  /\ req[r].pc = "old"
  /\ Decide(r, table[req[r].key])
  /\ UNCHANGED <<up, table, audit, cache>>

(* Mutant: the audit row is a transaction of its own, which may fail. *)
StoredMutant(r) ==
  LET k == req[r].key  c == req[r].seen[k]  v == req[r].val IN
  /\ c = Absent => table[k] = Absent
  /\ table' = IF v = c THEN table ELSE [table EXCEPT ![k] = v]
  /\ audit' \in {audit, Logged(k, Known(k, c), v)}

(* The flush and commit of set.  SQLAlchemy sends an UPDATE of the column  *)
(* only when the new value differs from the one it loaded; an INSERT of a  *)
(* row that exists by now fails on the primary key.                        *)
Stored(r) ==
  LET k == req[r].key  c == req[r].seen[k]  v == req[r].val IN
  /\ c = Absent => table[k] = Absent
  /\ table' = IF v = c THEN table ELSE [table EXCEPT ![k] = v]
  /\ audit' = Logged(k, Known(k, c), v)

Write(r) ==
  /\ req[r].pc = "write"
  /\ Stored(r) /\ Goto(r, "publish")
  /\ UNCHANGED <<up, cache>>

(* Mutant: the cache is updated before the commit. *)
WriteFailsMutant(r) ==
  /\ req[r].pc = "write"
  /\ cache' = [cache EXCEPT ![req[r].key] = req[r].val]
  /\ \/ req[r].seen[req[r].key] = Absent /\ table[req[r].key] # Absent
     \/ MayFail
  /\ Done(r)
  /\ UNCHANGED <<up, table, audit>>

(* The transaction fails, or its commit succeeds and the answer is lost:   *)
(* the request ends in an error and the cache keeps what it had.           *)
WriteFails(r) ==
  /\ req[r].pc = "write"
  /\ \/ /\ req[r].seen[req[r].key] = Absent /\ table[req[r].key] # Absent
        /\ UNCHANGED <<table, audit>>
     \/ MayFail /\ UNCHANGED <<table, audit>>
     \/ MayFail /\ Stored(r)
  /\ Done(r)
  /\ UNCHANGED <<up, cache>>

(* Mutant: _cache.setdefault(key, validated_value). *)
PublishMutant(r) ==
  LET k == req[r].key IN
  /\ req[r].pc = "publish"
  /\ cache' = IF cache[k] = Absent THEN [cache EXCEPT ![k] = req[r].val] ELSE cache
  /\ Done(r)
  /\ UNCHANGED <<up, table, audit>>

(* After the commit: _cache[key] = validated_value.  The answer to a       *)
(* transition is then read with get, like any other request does.          *)
Publish(r) ==
  /\ req[r].pc = "publish"
  /\ cache' = [cache EXCEPT ![req[r].key] = req[r].val]
  /\ Done(r)
  /\ UNCHANGED <<up, table, audit>>

-----------------------------------------------------------------------------
(* get_all: one SELECT of the table, then every row goes into the cache. *)
Select(r) ==
  /\ req[r].pc = "select"
  /\ req' = [req EXCEPT ![r].pc = "fillAll", ![r].seen = table]
  /\ UNCHANGED <<up, table, audit, cache>>

FillAll(r) ==
  /\ req[r].pc = "fillAll"
  /\ cache' = [k \in Key |-> IF req[r].seen[k] = Absent THEN cache[k] ELSE req[r].seen[k]]
  /\ Done(r)
  /\ UNCHANGED <<up, table, audit>>

-----------------------------------------------------------------------------
(* The process starts with an empty cache and seeds the missing defaults   *)
(* before it serves: cache and table agree.  An error is swallowed; if it  *)
(* was the commit, the cache already has the defaults.                     *)
Seeded == [k \in Key |-> Known(k, table[k])]

BootSeed ==
  /\ ~up /\ up' = TRUE
  /\ table' = Seeded
  /\ cache' = Seeded
  /\ audit' = [k \in Key |-> IF table[k] = Absent /\ Default[k] # Absent
                 THEN Append(audit[k], [old |-> Absent, new |-> Default[k]])
                 ELSE audit[k]]
  /\ UNCHANGED req

BootUnread ==
  /\ MayFail
  /\ ~up /\ up' = TRUE
  /\ UNCHANGED <<table, audit, cache, req>>

BootUncommitted ==
  /\ MayFail
  /\ ~up /\ up' = TRUE
  /\ Seeded # table
  /\ cache' = Seeded
  /\ UNCHANGED <<table, audit, req>>

(* The process dies; the transactions in flight are rolled back. *)
Crash ==
  /\ up /\ up' = FALSE
  /\ cache' = Blank
  /\ req' = [r \in Req |-> Idle]
  /\ UNCHANGED <<table, audit>>

-----------------------------------------------------------------------------
Init ==
  /\ up = FALSE
  /\ table = Blank /\ cache = Blank
  /\ audit = [k \in Key |-> <<>>]
  /\ req = [r \in Req |-> Idle]

Step(r) == \/ Look(r) \/ Fetch(r) \/ Fill(r) \/ ReadOld(r) \/ Write(r) \/ WriteFails(r)
           \/ Publish(r) \/ Select(r) \/ FillAll(r)

Process == BootSeed \/ BootUnread \/ BootUncommitted \/ Crash

Next == \/ \E r \in Req, op \in Ops, k \in Key, v \in Value : Arrive(r, op, k, v)
        \/ \E r \in Req : Step(r)
        \/ Process

Spec == Init /\ [][Next]_vars

-----------------------------------------------------------------------------
TypeOK ==
  /\ up \in BOOLEAN
  /\ table \in [Key -> Cell]
  /\ audit \in [Key -> Seq(AuditRow)]
  /\ cache \in [Key -> Cell]
  /\ req \in [Req -> Request]

News(k) == {audit[k][i].new : i \in 1..Len(audit[k])}

(* Every value the table holds is on record in the audit log, whatever     *)
(* fails and however requests overlap.                                     *)
StoredIsAudited == \A k \in Key : table[k] # Absent => table[k] \in News(k)

(* The cache never shows a value that was not committed, except a default  *)
(* of the file: a rejected or failed set leaves no trace in it.            *)
CachedWasCommitted ==
  \A k \in Key : cache[k] # Absent => cache[k] \in News(k) \cup {Default[k]}

(* The phase in the table goes back only through a transition validated    *)
(* against a phase the table has since left: the check itself never lets   *)
(* a backward step pass.                                                   *)
BackOnlyByStaleRead ==
  [][\A k \in Ranked : table[k] # Absent /\ ~(table[k] <= table'[k]) =>
       \E r \in Req : /\ req[r].pc = "write" /\ req[r].key = k
                      /\ req[r].seen[k] # table[k]]_vars

(* The phase in the table never goes back. *)
PhaseForward ==
  [][\A k \in Ranked : table[k] # Absent => table'[k] # Absent /\ table[k] <= table'[k]]_vars

(* The last audit row of a key is where its current value comes from. *)
LastRowIsValue ==
  \A k \in Key : audit[k] # <<>> => audit[k][Len(audit[k])].new = table[k]

(* With one writer the audit log is the history of the value: each row     *)
(* starts from the value the row before it left, and the last one left the *)
(* current value.                                                          *)
AuditIsHistory ==
  /\ \A k \in Key : \A i \in 1..(Len(audit[k]) - 1) :
       audit[k][i + 1].old = audit[k][i].new
  /\ LastRowIsValue

(* When no request is in flight the cache gives the value of the table. *)
CacheCurrentWhenQuiet ==
  (\A r \in Req : req[r] = Idle) =>
     \A k \in Key : cache[k] # Absent => cache[k] = Known(k, table[k])

-----------------------------------------------------------------------------
(* The invariants behind these properties. *)
Recorded(k, c) == c # Absent => c \in News(k)

OpsAt(pc) == CASE pc = "idle"                  -> {"none"}
               [] pc \in {"select", "fillAll"} -> {"get_all"}
               [] pc \in {"fetch", "fill"}     -> {"get", "update"}
               [] pc = "look"                  -> {"update"}
               [] pc \in {"old", "write", "publish"} -> {"update", "transition"}

RequestInv == \A r \in Req :
  /\ req[r].op \in OpsAt(req[r].pc)
  /\ req[r].op \in {"update", "transition"} => r \in Writers
  /\ req[r].pc # "idle" => req[r].op \in Ops /\ req[r].key \in Key
  /\ req[r].pc = "fill" => req[r].seen[req[r].key] # Absent

ReadIsRecorded == \A r \in Req :
  /\ \A k \in Key : Recorded(k, req[r].seen[k])
  /\ req[r].pc = "publish" => req[r].val \in News(req[r].key)
  /\ req[r].pc = "write" =>
       Accepted(req[r].key, req[r].val, Known(req[r].key, req[r].seen[req[r].key]))

DownIsIdle == ~up => cache = Blank /\ \A r \in Req : req[r] = Idle

IInv == TypeOK /\ StoredIsAudited /\ CachedWasCommitted
        /\ RequestInv /\ ReadIsRecorded /\ DownIsIdle

(* With one writer at a time, what it read is what it replaces. *)
WriterReadCurrent == \A r \in Req :
  req[r].pc = "write" => req[r].seen[req[r].key] = table[req[r].key]
=============================================================================
