------------------------ MODULE SettingsCache_proofs ------------------------
(***************************************************************************)
(* What SettingsCache guarantees for all keys, values and requests, and    *)
(* what it guarantees only while one writer is at work.                    *)
(***************************************************************************)
EXTENDS SettingsCache, TLAPS

(* The empty table is one. *)
LEMMA BlankType == Blank \in [Key -> Cell]
BY DEF Blank, Cell

(* An idle request is a request. *)
LEMMA IdleType == Idle \in Request
BY BlankType DEF Idle, Request, PC, Cell

(* What is known of a key is a cell. *)
LEMMA KnownType ==
  ASSUME NEW k \in Key, NEW c \in Cell
  PROVE  Known(k, c) \in Cell
BY SettingsAssumption DEF Known, Cell

(* Moving one request on, or ending it, keeps the type of all. *)
LEMMA GotoType ==
  ASSUME TypeOK, NEW r \in Req, NEW pc \in PC, Goto(r, pc) \/ Done(r)
  PROVE  req' \in [Req -> Request]
<1>1. req[r] \in Request /\ req \in [Req -> Request]
  BY DEF TypeOK
<1>2. [req[r] EXCEPT !.pc = pc] \in Request
  BY <1>1 DEF Request
<1>3. QED
  BY <1>1, <1>2, IdleType DEF Goto, Done

(* A request that reads one key stays a request. *)
LEMMA ReadType ==
  ASSUME TypeOK, NEW r \in Req, NEW pc \in PC, NEW k \in Key, NEW c \in Cell,
         req' = [req EXCEPT ![r].pc = pc, ![r].seen[k] = c]
  PROVE  req' \in [Req -> Request]
<1>1. req[r] \in Request /\ req \in [Req -> Request]
  BY DEF TypeOK
<1>2. [req[r].seen EXCEPT ![k] = c] \in [Key -> Cell]
  BY <1>1 DEF Request
<1>3. [req[r] EXCEPT !.pc = pc, !.seen[k] = c] \in Request
  BY <1>1, <1>2 DEF Request
<1>4. QED
  BY <1>1, <1>3

(* A new audit row of k: nothing that was on record is lost, and the new   *)
(* value is on record.                                                     *)
LEMMA LoggedRow ==
  ASSUME audit \in [Key -> Seq(AuditRow)], NEW k \in Key,
         NEW old \in Cell, NEW v \in Value, audit' = Logged(k, old, v)
  PROVE  /\ audit' \in [Key -> Seq(AuditRow)]
         /\ \A j \in Key : News(j) \subseteq News(j)'
         /\ v \in News(k)'
<1> DEFINE row == [old |-> old, new |-> v]
<1>1. row \in AuditRow
  BY DEF AuditRow
<1>2. audit[k] \in Seq(AuditRow) /\ audit'[k] = Append(audit[k], row)
  BY DEF Logged
<1>3. /\ audit'[k] \in Seq(AuditRow) /\ Len(audit'[k]) = Len(audit[k]) + 1
      /\ \A i \in 1..Len(audit[k]) : audit'[k][i] = audit[k][i]
      /\ audit'[k][Len(audit[k]) + 1] = row
  BY <1>1, <1>2
<1>4. \A j \in Key : j # k => audit'[j] = audit[j]
  BY DEF Logged
<1>5. audit' \in [Key -> Seq(AuditRow)]
  BY <1>1, <1>2, <1>3 DEF Logged
<1>6. News(k) \subseteq News(k)' /\ v \in News(k)'
  BY <1>2, <1>3 DEF News
<1>7. \A j \in Key : News(j) \subseteq News(j)'
  <2>1. \A j \in Key : j # k => News(j)' = News(j)
    BY <1>4 DEF News
  <2>2. QED
    BY <1>6, <2>1
<1>8. QED
  BY <1>5, <1>6, <1>7

-----------------------------------------------------------------------------
(* What a step of a request may do to table and audit log. *)
Wrote(r) ==
  /\ req[r].pc = "write" /\ req[r].key \in Key /\ req[r].val \in Value
  /\ Accepted(req[r].key, req[r].val, Known(req[r].key, req[r].seen[req[r].key]))
  /\ Stored(r)
  /\ UNCHANGED up

(* Only the write of a request changes the table and the audit log. *)
LEMMA Storage ==
  ASSUME IInv, NEW r \in Req, Step(r)
  PROVE  /\ Wrote(r) \/ UNCHANGED <<up, table, audit>>
         /\ Write(r) => Wrote(r)
<1>1. CASE Write(r) \/ WriteFails(r)
  <2>1. req[r].pc = "write" /\ req[r] \in Request
    BY <1>1 DEF Write, WriteFails, IInv, TypeOK
  <2>2. /\ Accepted(req[r].key, req[r].val, Known(req[r].key, req[r].seen[req[r].key]))
        /\ req[r].key \in Key
    BY <2>1 DEF IInv, ReadIsRecorded, RequestInv
  <2>3. req[r].val \in Value
    BY <2>2, SettingsAssumption DEF Accepted
  <2>4. QED
    BY <1>1, <2>1, <2>2, <2>3 DEF Write, WriteFails, Wrote
<1>2. QED
  BY <1>1 DEF Step, Look, Fetch, Fill, ReadOld, Publish, Select, FillAll

(* A write keeps the types, loses no record, and is on record itself. *)
LEMMA WroteRecorded ==
  ASSUME IInv, NEW r \in Req, Wrote(r)
  PROVE  /\ table' \in [Key -> Cell] /\ audit' \in [Key -> Seq(AuditRow)]
         /\ \A k \in Key : News(k) \subseteq News(k)'
         /\ \A k \in Key, v \in Value :
              k = req[r].key /\ v = req[r].val => v \in News(k)'
         /\ StoredIsAudited'
<1>1. PICK k \in Key, v \in Value : k = req[r].key /\ v = req[r].val
  BY DEF Wrote
<1>2. req[r].seen[k] \in Cell /\ table \in [Key -> Cell] /\ v \in Cell
  BY <1>1 DEF IInv, TypeOK, Request, Cell
<1>3. audit' = Logged(k, Known(k, req[r].seen[k]), v)
  BY <1>1 DEF Wrote, Stored
<1>4. Known(k, req[r].seen[k]) \in Cell
  BY <1>1, <1>2, KnownType
<1>5. /\ audit' \in [Key -> Seq(AuditRow)]
      /\ \A j \in Key : News(j) \subseteq News(j)'
      /\ v \in News(k)'
  BY <1>3, <1>4, LoggedRow DEF IInv, TypeOK
<1>6. table' \in [Key -> Cell] /\ (table' = table \/ table' = [table EXCEPT ![k] = v])
  BY <1>1, <1>2 DEF Wrote, Stored
<1>7. StoredIsAudited'
  BY <1>2, <1>5, <1>6 DEF IInv, StoredIsAudited
<1>8. QED
  BY <1>1, <1>5, <1>6, <1>7

(* A step of a request keeps what is stored and what is audited alike. *)
LEMMA StepStores ==
  ASSUME IInv, NEW r \in Req, Step(r)
  PROVE  /\ up' \in BOOLEAN /\ up' = up
         /\ table' \in [Key -> Cell] /\ audit' \in [Key -> Seq(AuditRow)]
         /\ \A k \in Key : News(k) \subseteq News(k)'
         /\ StoredIsAudited'
<1>1. CASE Wrote(r)
  BY <1>1, WroteRecorded DEF Wrote, IInv, TypeOK
<1>2. CASE UNCHANGED <<up, table, audit>>
  BY <1>2 DEF IInv, TypeOK, News, StoredIsAudited
<1>3. QED
  BY <1>1, <1>2, Storage

-----------------------------------------------------------------------------
(* What a step may do to its request and to the cache. *)
RequestOK(r) ==
  /\ req[r].op \in OpsAt(req[r].pc)
  /\ req[r].op \in {"update", "transition"} => r \in Writers
  /\ req[r].pc # "idle" => req[r].op \in Ops /\ req[r].key \in Key
  /\ req[r].pc = "fill" => req[r].seen[req[r].key] # Absent

ReadOK(r) ==
  /\ \A k \in Key : Recorded(k, req[r].seen[k])
  /\ req[r].pc = "publish" => req[r].val \in News(req[r].key)
  /\ req[r].pc = "write" =>
       Accepted(req[r].key, req[r].val, Known(req[r].key, req[r].seen[req[r].key]))

(* The invariant, request by request. *)
LEMMA ByRequest == /\ RequestInv <=> \A r \in Req : RequestOK(r)
                   /\ ReadIsRecorded <=> \A r \in Req : ReadOK(r)
BY DEF RequestInv, ReadIsRecorded, RequestOK, ReadOK

(* An idle request satisfies its part of the invariant. *)
LEMMA IdleOK ==
  ASSUME NEW r \in Req, req'[r] = Idle
  PROVE  RequestOK(r)' /\ ReadOK(r)'
BY DEF Idle, RequestOK, ReadOK, OpsAt, Recorded, Blank

(* The request moves to pc and keeps what it has read. *)
Moved(r, pc) == req'[r] = [req[r] EXCEPT !.pc = pc]
(* The request moves to pc and has read the row c of its key. *)
Loaded(r, pc, c) ==
  req'[r] = [req[r] EXCEPT !.pc = pc, !.seen = [req[r].seen EXCEPT ![req[r].key] = c]]

(* How a step moves its request, and from which read. *)
LEMMA Movement ==
  ASSUME IInv, NEW r \in Req, Step(r)
  PROVE  LET k == req[r].key IN
    /\ req' \in [Req -> Request]
    /\ \A q \in Req : q # r => req'[q] = req[q]
    /\ \/ req'[r] = Idle
       \/ req[r].pc = "look" /\ Moved(r, "old")
       \/ req[r].pc = "look" /\ Moved(r, "fetch") /\ req[r].op = "update"
       \/ req[r].pc \in {"look", "old"} /\ Loaded(r, "write", table[k])
          /\ Accepted(k, req[r].val, Known(k, table[k]))
       \/ req[r].pc = "fetch" /\ Loaded(r, "fill", table[k]) /\ table[k] # Absent
       \/ req[r].pc \in {"fetch", "fill"} /\ Moved(r, "old") /\ req[r].op = "update"
       \/ req[r].pc = "write" /\ Wrote(r) /\ Moved(r, "publish")
       \/ req[r].pc = "select" /\ req'[r] = [req[r] EXCEPT !.pc = "fillAll", !.seen = table]
<1>0. /\ req[r] \in Request /\ req \in [Req -> Request] /\ table \in [Key -> Cell]
      /\ RequestOK(r)
  BY ByRequest DEF IInv, TypeOK
<1> DEFINE k == req[r].key
<1>a. ASSUME NEW pc \in PC, Goto(r, pc)
      PROVE  /\ req' \in [Req -> Request] /\ Moved(r, pc)
             /\ \A q \in Req : q # r => req'[q] = req[q]
  BY <1>0, <1>a, GotoType DEF Goto, Moved, IInv
<1>b. ASSUME Done(r)
      PROVE  /\ req' \in [Req -> Request] /\ req'[r] = Idle
             /\ \A q \in Req : q # r => req'[q] = req[q]
  BY <1>0, <1>b, IdleType DEF Done
<1>c. ASSUME NEW pc \in PC, k \in Key,
             req' = [req EXCEPT ![r].pc = pc, ![r].seen[k] = table[k]]
      PROVE  /\ req' \in [Req -> Request] /\ Loaded(r, pc, table[k])
             /\ \A q \in Req : q # r => req'[q] = req[q]
  BY <1>0, <1>c, ReadType DEF Loaded, IInv, Request
<1>d. {"old", "fetch", "fill", "write", "publish", "fillAll"} \subseteq PC
  BY DEF PC
<1>e. ASSUME k \in Key, Decide(r, table[k])
      PROVE  /\ req' \in [Req -> Request]
             /\ \A q \in Req : q # r => req'[q] = req[q]
             /\ \/ req'[r] = Idle
                \/ Loaded(r, "write", table[k]) /\ Accepted(k, req[r].val, Known(k, table[k]))
  BY <1>b, <1>c, <1>d, <1>e DEF Decide
<1>1. CASE Look(r)
  <2>1. k \in Key /\ req[r].op = "update" /\ req[r].pc = "look"
    BY <1>0, <1>1 DEF Look, RequestOK, OpsAt
  <2>2. CASE Decide(r, table[k])
    BY <2>1, <2>2, <1>e
  <2>3. CASE Goto(r, "old") \/ Goto(r, "fetch")
    BY <2>1, <2>3, <1>a, <1>d
  <2>4. QED
    BY <1>1, <2>2, <2>3 DEF Look
<1>2. CASE Fetch(r)
  <2>1. k \in Key
    BY <1>0, <1>2 DEF Fetch, RequestOK
  <2>2. QED
    BY <1>2, <2>1, <1>a, <1>b, <1>c, <1>d DEF Fetch
<1>3. CASE Fill(r)
  <2>1. req[r].op \in {"get", "update"}
    BY <1>0, <1>3 DEF Fill, RequestOK, OpsAt
  <2>2. QED
    BY <1>3, <2>1, <1>a, <1>b, <1>d DEF Fill
<1>4. CASE ReadOld(r)
  <2>1. k \in Key /\ req[r].pc = "old" /\ Decide(r, table[k])
    BY <1>0, <1>4 DEF ReadOld, RequestOK
  <2>2. QED
    BY <2>1, <1>e
<1>5. CASE Write(r)
  <2>1. Wrote(r)
    BY <1>5, Storage
  <2>2. QED
    BY <1>5, <2>1, <1>a, <1>d DEF Write
<1>6. CASE WriteFails(r) \/ Publish(r) \/ FillAll(r)
  BY <1>6, <1>b DEF WriteFails, Publish, FillAll
<1>7. CASE Select(r)
  <2>1. [req[r] EXCEPT !.pc = "fillAll", !.seen = table] \in Request
    BY <1>0, <1>d DEF Request
  <2>2. QED
    BY <1>0, <1>7, <2>1 DEF Select
<1>8. QED
  BY <1>1, <1>2, <1>3, <1>4, <1>5, <1>6, <1>7 DEF Step

(* A step keeps the part of its own request. *)
LEMMA OwnStep ==
  ASSUME IInv, NEW r \in Req, Step(r)
  PROVE  RequestOK(r)' /\ ReadOK(r)'
<1>0. /\ req[r] \in Request /\ RequestOK(r) /\ ReadOK(r) /\ StoredIsAudited
      /\ \A k \in Key : News(k) \subseteq News(k)'
  BY ByRequest, StepStores DEF IInv, TypeOK
<1>1. CASE req'[r] = Idle
  BY <1>1, IdleOK
<1>2. ASSUME NEW pc \in {"old", "fetch"}, Moved(r, pc), req[r].op = "update",
             req[r].pc # "idle"
      PROVE  RequestOK(r)' /\ ReadOK(r)'
  BY <1>0, <1>2 DEF Moved, Request, RequestOK, ReadOK, Recorded, OpsAt
<1>3. ASSUME req[r].pc \in {"look", "old"}, Loaded(r, "write", table[req[r].key]),
             Accepted(req[r].key, req[r].val, Known(req[r].key, table[req[r].key]))
      PROVE  RequestOK(r)' /\ ReadOK(r)'
  <2>1. PICK k \in Key : k = req[r].key
    BY <1>0, <1>3 DEF RequestOK
  <2>2. /\ req'[r].pc = "write" /\ req'[r].op = req[r].op /\ req'[r].key = k
        /\ req'[r].val = req[r].val
        /\ req'[r].seen = [req[r].seen EXCEPT ![k] = table[k]]
    BY <1>0, <1>3, <2>1 DEF Loaded, Request
  <2>3. req[r].op \in {"update", "transition"} /\ req[r].op \in Ops
    BY <1>0, <1>3 DEF RequestOK, OpsAt
  <2>4. RequestOK(r)'
    BY <1>0, <2>2, <2>3 DEF RequestOK, OpsAt
  <2>5. req[r].seen \in [Key -> Cell]
    BY <1>0 DEF Request
  <2>6. \A j \in Key : Recorded(j, req[r].seen[j])'
    BY <1>0, <2>1, <2>2, <2>5 DEF ReadOK, Recorded, StoredIsAudited
  <2>7. req'[r].seen[k] = table[k]
    BY <2>2, <2>5
  <2>8. QED
    BY <1>3, <2>1, <2>2, <2>4, <2>6, <2>7 DEF ReadOK
<1>4. ASSUME req[r].pc = "fetch", Loaded(r, "fill", table[req[r].key]),
             table[req[r].key] # Absent
      PROVE  RequestOK(r)' /\ ReadOK(r)'
  <2>1. PICK k \in Key : k = req[r].key
    BY <1>0, <1>4 DEF RequestOK
  <2>2. /\ req'[r].pc = "fill" /\ req'[r].op = req[r].op /\ req'[r].key = k
        /\ req'[r].seen = [req[r].seen EXCEPT ![k] = table[k]]
    BY <1>0, <1>4, <2>1 DEF Loaded, Request
  <2>3. req[r].seen \in [Key -> Cell]
    BY <1>0 DEF Request
  <2>4. req[r].op \in OpsAt("fill") /\ req[r].op \in Ops
    BY <1>0, <1>4 DEF RequestOK, OpsAt
  <2>5. RequestOK(r)'
    BY <1>0, <1>4, <2>1, <2>2, <2>3, <2>4 DEF RequestOK
  <2>6. QED
    BY <1>0, <2>1, <2>2, <2>3, <2>5 DEF ReadOK, Recorded, StoredIsAudited
<1>5. ASSUME req[r].pc = "write", Wrote(r), Moved(r, "publish")
      PROVE  RequestOK(r)' /\ ReadOK(r)'
  <2>1. PICK k \in Key : k = req[r].key
    BY <1>5 DEF Wrote
  <2>2. /\ req'[r].pc = "publish" /\ req'[r].op = req[r].op /\ req'[r].key = k
        /\ req'[r].val = req[r].val /\ req'[r].seen = req[r].seen
    BY <1>0, <1>5, <2>1 DEF Moved, Request
  <2>3. RequestOK(r)'
    BY <1>0, <1>5, <2>1, <2>2 DEF RequestOK, OpsAt
  <2>4. PICK v \in Value : v = req[r].val
    BY <1>5 DEF Wrote
  <2>5. v \in News(k)'
    BY <1>5, <2>1, <2>4, WroteRecorded
  <2>6. QED
    BY <1>0, <2>2, <2>3, <2>4, <2>5 DEF ReadOK, Recorded
<1>6. ASSUME req[r].pc = "select", req'[r] = [req[r] EXCEPT !.pc = "fillAll", !.seen = table]
      PROVE  RequestOK(r)' /\ ReadOK(r)'
  <2>1. /\ req'[r].pc = "fillAll" /\ req'[r].op = req[r].op /\ req'[r].key = req[r].key
        /\ req'[r].seen = table
    BY <1>0, <1>6 DEF Request
  <2>2. QED
    BY <1>0, <1>6, <2>1 DEF RequestOK, OpsAt, ReadOK, Recorded, StoredIsAudited
<1>7. req[r].pc = "look" => req[r].op = "update"
  BY <1>0 DEF RequestOK, OpsAt
<1>8. QED
  BY <1>1, <1>2, <1>3, <1>4, <1>5, <1>6, <1>7, Movement

(* What the other requests have read stays on record. *)
LEMMA OthersStep ==
  ASSUME IInv, NEW r \in Req, Step(r), NEW q \in Req, q # r
  PROVE  RequestOK(q)' /\ ReadOK(q)'
<1>1. /\ req[q] \in Request /\ RequestOK(q) /\ ReadOK(q) /\ req'[q] = req[q]
      /\ \A k \in Key : News(k) \subseteq News(k)'
  BY ByRequest, Movement, StepStores DEF IInv, TypeOK
<1>2. ReadOK(q)'
  <2>1. req[q].pc = "publish" => req[q].key \in Key
    BY <1>1 DEF RequestOK
  <2>2. QED
    BY <1>1, <2>1 DEF ReadOK, Recorded
<1>3. QED
  BY <1>1, <1>2 DEF RequestOK

(* What goes into the cache is on record. *)
LEMMA StepCaches ==
  ASSUME IInv, NEW r \in Req, Step(r)
  PROVE  cache' \in [Key -> Cell] /\ CachedWasCommitted'
<1>0. /\ req[r] \in Request /\ RequestOK(r) /\ ReadOK(r)
      /\ cache \in [Key -> Cell] /\ CachedWasCommitted
      /\ \A k \in Key : News(k) \subseteq News(k)'
  BY ByRequest, StepStores DEF IInv, TypeOK
<1>1. CASE UNCHANGED cache
  BY <1>0, <1>1 DEF CachedWasCommitted
<1>2. ASSUME NEW k \in Key, NEW c \in Cell, c # Absent => c \in News(k),
             cache' = [cache EXCEPT ![k] = c]
      PROVE  cache' \in [Key -> Cell] /\ CachedWasCommitted'
  BY <1>0, <1>2 DEF CachedWasCommitted
<1>3. CASE Fill(r)
  <2>1. req[r].key \in Key /\ req[r].seen[req[r].key] \in Cell
    BY <1>0, <1>3 DEF Fill, RequestOK, Request
  <2>2. QED
    BY <1>0, <1>2, <1>3, <2>1 DEF Fill, ReadOK, Recorded
<1>4. CASE Publish(r)
  <2>1. req[r].key \in Key /\ req[r].val \in Cell
    BY <1>0, <1>4 DEF Publish, RequestOK, Request
  <2>2. QED
    BY <1>0, <1>2, <1>4, <2>1 DEF Publish, ReadOK
<1>5. CASE FillAll(r)
  <2>1. req[r].seen \in [Key -> Cell]
    BY <1>0 DEF Request
  <2>2. QED
    BY <1>0, <1>5, <2>1 DEF FillAll, ReadOK, Recorded, CachedWasCommitted
<1>6. QED
  BY <1>1, <1>3, <1>4, <1>5 DEF Step, Look, Fetch, ReadOld, Write, WriteFails, Select

(* A step of a request keeps the invariant. *)
LEMMA StepInv ==
  ASSUME IInv, NEW r \in Req, Step(r)
  PROVE  IInv'
<1>1. TypeOK'
  BY StepStores, StepCaches, Movement DEF TypeOK
<1>2. \A q \in Req : RequestOK(q)' /\ ReadOK(q)'
  BY OwnStep, OthersStep
<1>3. RequestInv' /\ ReadIsRecorded'
  BY <1>2 DEF RequestInv, ReadIsRecorded, RequestOK, ReadOK
<1>4. up
  <2>1. req[r].pc # "idle"
    BY DEF Step, Look, Fetch, Fill, ReadOld, Write, WriteFails, Publish, Select, FillAll
  <2>2. QED
    BY <2>1 DEF IInv, DownIsIdle, Idle
<1>5. DownIsIdle'
  BY <1>4, StepStores DEF DownIsIdle
<1>6. QED
  BY <1>1, <1>3, <1>5, StepStores, StepCaches DEF IInv

(* A crash and a restart keep the invariant. *)
LEMMA ProcessInv == IInv /\ Process => IInv'
<1> SUFFICES ASSUME IInv, Process PROVE IInv'
  OBVIOUS
<1>0. TypeOK /\ StoredIsAudited /\ CachedWasCommitted
  BY DEF IInv
<1>1. Seeded \in [Key -> Cell]
  BY <1>0, KnownType DEF Seeded, TypeOK
<1>2. CASE BootSeed
  <2>1. up' \in BOOLEAN /\ UNCHANGED req /\ table' = Seeded /\ cache' = Seeded
    BY <1>2 DEF BootSeed
  <2>2. ASSUME NEW k \in Key
        PROVE  /\ audit'[k] \in Seq(AuditRow) /\ News(k) \subseteq News(k)'
               /\ Seeded[k] # Absent => Seeded[k] \in News(k)'
    <3>1. CASE table[k] = Absent /\ Default[k] # Absent
      <4>1. PICK row \in AuditRow : row = [old |-> Absent, new |-> Default[k]]
        BY <3>1, SettingsAssumption DEF AuditRow, Cell
      <4>2. audit[k] \in Seq(AuditRow) /\ audit'[k] = Append(audit[k], row)
        BY <1>0, <1>2, <3>1, <4>1 DEF TypeOK, BootSeed
      <4>3. /\ audit'[k] \in Seq(AuditRow) /\ Len(audit'[k]) = Len(audit[k]) + 1
            /\ \A i \in 1..Len(audit[k]) : audit'[k][i] = audit[k][i]
            /\ audit'[k][Len(audit[k]) + 1] = row
        BY <4>2
      <4>4. News(k) \subseteq News(k)' /\ row.new \in News(k)'
        BY <4>2, <4>3 DEF News
      <4>5. Seeded[k] = row.new
        BY <3>1, <4>1 DEF Seeded, Known
      <4>6. QED
        BY <4>3, <4>4, <4>5
    <3>2. CASE ~(table[k] = Absent /\ Default[k] # Absent)
      <4>1. audit'[k] = audit[k] /\ audit[k] \in Seq(AuditRow)
        BY <1>0, <1>2, <3>2 DEF BootSeed, TypeOK
      <4>2. Seeded[k] = table[k]
        BY <3>2 DEF Seeded, Known
      <4>3. QED
        BY <1>0, <4>1, <4>2 DEF News, StoredIsAudited
    <3>3. QED
      BY <3>1, <3>2
  <2>3. audit' \in [Key -> Seq(AuditRow)]
    BY <1>2, <2>2 DEF BootSeed
  <2>4. TypeOK'
    BY <1>0, <1>1, <2>1, <2>3 DEF TypeOK
  <2>5. StoredIsAudited' /\ CachedWasCommitted'
    BY <2>1, <2>2 DEF StoredIsAudited, CachedWasCommitted
  <2>6. RequestInv' /\ ReadIsRecorded'
    <3>1. \A r \in Req : req'[r] = Idle
      BY <1>2, <2>1 DEF BootSeed, IInv, DownIsIdle
    <3>2. QED
      BY <3>1, IdleOK DEF RequestInv, ReadIsRecorded, RequestOK, ReadOK
  <2>7. DownIsIdle'
    BY <1>2 DEF BootSeed, DownIsIdle
  <2>8. QED
    BY <2>4, <2>5, <2>6, <2>7 DEF IInv
<1>3. CASE BootUnread
  BY <1>3 DEF BootUnread, IInv, TypeOK, StoredIsAudited, CachedWasCommitted, RequestInv,
     ReadIsRecorded, Recorded, DownIsIdle, News
<1>4. CASE BootUncommitted
  <2>1. /\ up' = TRUE /\ UNCHANGED <<table, audit, req>> /\ cache' = Seeded
    BY <1>4 DEF BootUncommitted
  <2>2. TypeOK' /\ StoredIsAudited' /\ DownIsIdle'
    BY <1>0, <1>1, <2>1 DEF TypeOK, StoredIsAudited, DownIsIdle, News
  <2>3. \A k \in Key : Seeded[k] = table[k] \/ Seeded[k] = Default[k]
    BY DEF Seeded, Known
  <2>4. CachedWasCommitted'
    BY <1>0, <2>1, <2>3 DEF CachedWasCommitted, StoredIsAudited, News
  <2>5. RequestInv' /\ ReadIsRecorded'
    BY <2>1 DEF IInv, RequestInv, ReadIsRecorded, Recorded, News
  <2>6. QED
    BY <2>2, <2>4, <2>5 DEF IInv
<1>5. CASE Crash
  <2>1. /\ up' = FALSE /\ UNCHANGED <<table, audit>> /\ cache' = Blank
        /\ \A r \in Req : req'[r] = Idle
        /\ req' \in [Req -> Request]
    BY <1>5, IdleType DEF Crash
  <2>2. TypeOK' /\ StoredIsAudited' /\ DownIsIdle' /\ CachedWasCommitted'
    BY <1>0, <2>1, BlankType
       DEF TypeOK, StoredIsAudited, DownIsIdle, CachedWasCommitted, News, Blank
  <2>3. RequestInv' /\ ReadIsRecorded'
    BY <2>1, IdleOK DEF RequestInv, ReadIsRecorded, RequestOK, ReadOK
  <2>4. QED
    BY <2>2, <2>3 DEF IInv
<1>6. QED
  BY <1>2, <1>3, <1>4, <1>5 DEF Process

(* The arrival of a request keeps the invariant. *)
LEMMA ArriveInv ==
  ASSUME IInv, NEW r \in Req, NEW op \in Ops, NEW k \in Key, NEW v \in Value,
         Arrive(r, op, k, v)
  PROVE  IInv'
<1>p. PICK pc : pc = CASE op = "get" -> "fetch" [] op = "get_all" -> "select"
                       [] op = "update" -> "look" [] op = "transition" -> "old"
  OBVIOUS
<1>0. op \in AllOps /\ v \in Cell
  BY SettingsAssumption DEF Cell
<1>1. pc \in PC /\ op \in OpsAt(pc) /\ pc \notin {"idle", "fill", "publish", "write"}
  BY <1>0, <1>p DEF PC, OpsAt, AllOps
<1>2. PICK new : new = [Idle EXCEPT !.op = op, !.key = k, !.val = v, !.pc = pc]
  OBVIOUS
<1>3. new = [pc |-> pc, op |-> op, key |-> k, val |-> v, seen |-> Blank]
  BY <1>2 DEF Idle
<1>4. new \in Request
  BY <1>0, <1>1, <1>3, BlankType DEF Request
<1>5. req' = [req EXCEPT ![r] = new] /\ UNCHANGED <<up, table, audit, cache>> /\ up
      /\ (op \in {"update", "transition"} => r \in Writers)
  BY <1>2, <1>p DEF Arrive
<1>6. TypeOK' /\ StoredIsAudited' /\ CachedWasCommitted' /\ DownIsIdle'
  BY <1>4, <1>5 DEF IInv, TypeOK, StoredIsAudited, CachedWasCommitted, DownIsIdle, News
<1>7. RequestOK(r)' /\ ReadOK(r)'
  <2>1. /\ req'[r].pc = pc /\ req'[r].op = op /\ req'[r].key = k
        /\ req'[r].seen = Blank
    BY <1>3, <1>5 DEF IInv, TypeOK
  <2>2. RequestOK(r)'
    BY <1>1, <1>5, <2>1 DEF RequestOK
  <2>3. QED
    BY <1>1, <2>1, <2>2 DEF ReadOK, Recorded, Blank
<1>8. ASSUME NEW q \in Req, q # r PROVE RequestOK(q)' /\ ReadOK(q)'
  BY <1>5, <1>8, ByRequest DEF IInv, RequestOK, ReadOK, Recorded, News
<1>9. RequestInv' /\ ReadIsRecorded'
  BY <1>7, <1>8 DEF RequestInv, ReadIsRecorded, RequestOK, ReadOK
<1>10. QED
  BY <1>6, <1>9 DEF IInv

(* The invariant holds at the start. *)
LEMMA InitInv == Init => IInv
<1> SUFFICES ASSUME Init PROVE IInv
  OBVIOUS
<1>1. TypeOK
  <2>1. up \in BOOLEAN
    BY Zenon DEF Init
  <2>2. audit \in [Key -> Seq(AuditRow)]
    BY DEF Init
  <2>3. QED
    BY <2>1, <2>2, BlankType, IdleType DEF Init, TypeOK
<1>2. StoredIsAudited /\ CachedWasCommitted /\ DownIsIdle
  BY DEF Init, StoredIsAudited, CachedWasCommitted, DownIsIdle, Blank
<1>3. RequestInv /\ ReadIsRecorded
  BY DEF Init, RequestInv, ReadIsRecorded, Idle, OpsAt, Recorded, Blank
<1>4. QED
  BY <1>1, <1>2, <1>3 DEF IInv

(* Every step keeps the invariant. *)
LEMMA NextInv == IInv /\ [Next]_vars => IInv'
<1> SUFFICES ASSUME IInv, [Next]_vars PROVE IInv'
  OBVIOUS
<1>1. CASE UNCHANGED vars
  BY <1>1 DEF vars, IInv, TypeOK, StoredIsAudited, CachedWasCommitted, RequestInv,
     ReadIsRecorded, Recorded, DownIsIdle, News
<1>2. QED
  BY <1>1, ArriveInv, StepInv, ProcessInv DEF Next

(* The inductive invariant: types, which request may be where, and that    *)
(* whatever was read is on record in the audit log.                        *)
THEOREM InvariantHolds == Spec => []IInv
BY InitInv, NextInv, PTL DEF Spec

(* Every value of the table is on record in the audit log. *)
THEOREM StoredIsAuditedHolds == Spec => []StoredIsAudited
<1>1. IInv => StoredIsAudited
  BY DEF IInv
<1>2. QED
  BY <1>1, InvariantHolds, PTL

(* The cache never shows a value that was not committed. *)
THEOREM CachedWasCommittedHolds == Spec => []CachedWasCommitted
<1>1. IInv => CachedWasCommitted
  BY DEF IInv
<1>2. QED
  BY <1>1, InvariantHolds, PTL

-----------------------------------------------------------------------------
(* How the table changes, outside a write: only by the seeding of absent   *)
(* rows while no request is there.                                         *)
LEMMA TableChange ==
  ASSUME IInv, [Next]_vars
  PROVE  \/ \E r \in Req : Step(r) /\ Wrote(r)
         \/ UNCHANGED <<table, audit>>
         \/ BootSeed /\ \A r \in Req : req[r] = Idle
<1>1. ASSUME NEW r \in Req, Step(r)
      PROVE  Wrote(r) \/ UNCHANGED <<table, audit>>
  BY <1>1, Storage
<1>2. CASE Process
  BY <1>2 DEF Process, BootSeed, BootUnread, BootUncommitted, Crash, IInv, DownIsIdle
<1>3. QED
  BY <1>1, <1>2 DEF Next, Arrive, vars

(* The value a write leaves under its key; the others stay. *)
LEMMA WroteTable ==
  ASSUME IInv, NEW r \in Req, Wrote(r)
  PROVE  /\ table'[req[r].key] =
              IF req[r].val = req[r].seen[req[r].key] THEN table[req[r].key] ELSE req[r].val
         /\ \A k \in Key : k # req[r].key => table'[k] = table[k]
BY DEF Wrote, Stored, IInv, TypeOK

(* A ranked key that goes back was written by a request whose read is old. *)
LEMMA BackStep ==
  ASSUME IInv, [Next]_vars, NEW k \in Ranked, table[k] # Absent, ~(table[k] <= table'[k])
  PROVE  \E r \in Req : req[r].pc = "write" /\ req[r].key = k /\ req[r].seen[k] # table[k]
<1>1. k \in Key /\ table[k] \in Nat
  BY SettingsAssumption DEF IInv, TypeOK, Cell
<1>2. CASE UNCHANGED <<table, audit>>
  BY <1>1, <1>2
<1>3. CASE BootSeed
  BY <1>1, <1>3 DEF BootSeed, Seeded, Known
<1>4. ASSUME NEW r \in Req, Wrote(r)
      PROVE  req[r].pc = "write" /\ req[r].key = k /\ req[r].seen[k] # table[k]
  <2>1. req[r].key = k
    BY <1>1, <1>4, WroteTable
  <2>2. table'[k] = req[r].val
    BY <1>1, <1>4, <2>1, WroteTable
  <2>3. req[r].seen[k] = table[k] => table[k] <= req[r].val
    BY <1>4, <2>1 DEF Wrote, Accepted, Known
  <2>4. QED
    BY <1>4, <2>1, <2>2, <2>3 DEF Wrote
<1>5. QED
  BY <1>2, <1>3, <1>4, TableChange

(* The phase in the table goes back only through a transition validated    *)
(* against a phase the table has since left.                               *)
THEOREM BackOnlyByStaleReadHolds == Spec => BackOnlyByStaleRead
<1> DEFINE Keep == \A k \in Ranked : table[k] # Absent /\ ~(table[k] <= table'[k]) =>
       \E r \in Req : /\ req[r].pc = "write" /\ req[r].key = k
                      /\ req[r].seen[k] # table[k]
<1>1. IInv /\ [Next]_vars => [Keep]_vars
  BY BackStep
<1>2. QED
  BY <1>1, InvariantHolds, PTL DEF Spec, BackOnlyByStaleRead

-----------------------------------------------------------------------------
(* What holds as long as one request slot writes: one admin at a time. *)
OneWriter == \A v, w \in Writers : v = w

(* With one writer, every step keeps what the writer read current. *)
LEMMA WriterStep ==
  ASSUME OneWriter, IInv, WriterReadCurrent, [Next]_vars
  PROVE  WriterReadCurrent'
<1>1. SUFFICES ASSUME NEW q \in Req, req'[q].pc = "write"
               PROVE  (req[q].seen[req[q].key] = table[req[q].key])'
  BY DEF WriterReadCurrent
<1>2. RequestOK(q) /\ req[q] \in Request
  BY ByRequest DEF IInv, TypeOK
<1>3. ASSUME NEW r \in Req, Step(r), q # r
      PROVE  (req[q].seen[req[q].key] = table[req[q].key])'
  <2>1. req'[q] = req[q] /\ q \in Writers /\ req[q].key \in Key
    BY <1>1, <1>2, <1>3, Movement DEF RequestOK, OpsAt
  <2>2. ~Wrote(r)
    <3>1. Wrote(r) => r \in Writers
      BY ByRequest DEF Wrote, IInv, RequestOK, OpsAt
    <3>2. QED
      BY <1>3, <2>1, <3>1 DEF OneWriter
  <2>3. UNCHANGED table
    BY <1>3, <2>2, Storage
  <2>4. QED
    BY <1>1, <2>1, <2>3 DEF WriterReadCurrent
<1>4. CASE Step(q)
  <2>1. PICK k : k = req[q].key
    OBVIOUS
  <2>2. /\ req[q].pc \in {"look", "old"} /\ Loaded(q, "write", table[k])
    <3>1. \A pc : Moved(q, pc) => req'[q].pc = pc
      BY <1>2 DEF Moved, Request
    <3>2. \A pc, c : Loaded(q, pc, c) => req'[q].pc = pc
      BY <1>2 DEF Loaded, Request
    <3>3. req'[q] # Idle /\ req'[q] # [req[q] EXCEPT !.pc = "fillAll", !.seen = table]
      <4>1. Idle.pc = "idle"
        BY DEF Idle
      <4>2. [req[q] EXCEPT !.pc = "fillAll", !.seen = table].pc = "fillAll"
        BY <1>2 DEF Request
      <4>3. QED
        BY <1>1, <4>1, <4>2
    <3>4. ~Moved(q, "old") /\ ~Moved(q, "fetch") /\ ~Moved(q, "publish")
          /\ \A c : ~Loaded(q, "fill", c)
      BY <1>1, <3>1, <3>2
    <3>5. QED
      BY <1>4, <2>1, <3>3, <3>4, Movement
  <2>3. k \in Key /\ req[q].seen \in [Key -> Cell]
    BY <1>2, <2>1, <2>2 DEF RequestOK, Request
  <2>4. req'[q].key = k /\ req'[q].seen[k] = table[k]
    BY <1>2, <2>1, <2>2, <2>3 DEF Loaded, Request
  <2>5. UNCHANGED table
    BY <1>4, <2>2, Storage DEF Wrote
  <2>6. QED
    BY <2>4, <2>5
<1>5. CASE Process
  BY <1>1, <1>5 DEF Process, BootSeed, BootUnread, BootUncommitted, Crash, IInv,
     DownIsIdle, Idle
<1>6. ASSUME NEW r \in Req, NEW op \in Ops, NEW k \in Key, NEW v \in Value,
             Arrive(r, op, k, v)
      PROVE  (req[q].seen[req[q].key] = table[req[q].key])'
  <2>1. op \in AllOps /\ req \in [Req -> Request]
    BY SettingsAssumption DEF IInv, TypeOK
  <2>2. req'[r].pc # "write"
    BY <1>6, <2>1 DEF Arrive, Idle, AllOps
  <2>3. UNCHANGED table /\ (q # r => req'[q] = req[q])
    BY <1>6, <2>1 DEF Arrive
  <2>4. QED
    BY <1>1, <2>2, <2>3 DEF WriterReadCurrent
<1>7. CASE UNCHANGED vars
  BY <1>1, <1>7 DEF vars, WriterReadCurrent
<1>8. QED
  BY <1>3, <1>4, <1>5, <1>6, <1>7 DEF Next

(* With one writer, what the writer read is current. *)
LEMMA WriterReadCurrentHolds ==
  ASSUME OneWriter
  PROVE  Spec => []WriterReadCurrent
<1>1. Init => WriterReadCurrent
  BY DEF Init, Idle, WriterReadCurrent
<1>2. QED
  BY <1>1, WriterStep, InvariantHolds, PTL DEF Spec

(* With one writer the phase in the table never goes back. *)
THEOREM PhaseForwardHolds ==
  ASSUME OneWriter
  PROVE  Spec => PhaseForward
<1> DEFINE Keep == \A k \in Ranked : table[k] # Absent =>
                     table'[k] # Absent /\ table[k] <= table'[k]
<1>1. Spec => []WriterReadCurrent
  BY WriterReadCurrentHolds
<1>3. ASSUME IInv, WriterReadCurrent, [Next]_vars
      PROVE  Keep
  <2>1. SUFFICES ASSUME NEW k \in Ranked, table[k] # Absent
                 PROVE  table'[k] # Absent /\ table[k] <= table'[k]
    OBVIOUS
  <2>2. table[k] <= table'[k]
    BY <1>3, <2>1, BackStep DEF WriterReadCurrent
  <2>3. k \in Key
    BY SettingsAssumption
  <2>4. table'[k] # Absent
    <3>1. ASSUME NEW r \in Req, Wrote(r) PROVE table'[k] # Absent
      BY <1>3, <2>1, <2>3, <3>1, WroteTable, SettingsAssumption DEF Wrote
    <3>2. QED
      BY <1>3, <2>1, <2>3, <3>1, TableChange DEF BootSeed, Seeded, Known
  <2>5. QED
    BY <2>2, <2>4
<1>4. QED
  BY <1>1, <1>3, InvariantHolds, PTL DEF Spec, PhaseForward

HistoryOK(k) ==
  /\ \A i \in 1..(Len(audit[k]) - 1) : audit[k][i + 1].old = audit[k][i].new
  /\ audit[k] # <<>> => audit[k][Len(audit[k])].new = table[k]

(* AuditIsHistory, key by key. *)
LEMMA ByKey == AuditIsHistory <=> \A k \in Key : HistoryOK(k)
BY DEF AuditIsHistory, LastRowIsValue, HistoryOK

(* A row that starts from the current value continues the history. *)
LEMMA HistoryGrows ==
  ASSUME NEW k \in Key, audit[k] \in Seq(AuditRow), HistoryOK(k),
         NEW row \in AuditRow, audit'[k] = Append(audit[k], row),
         audit[k] # <<>> => row.old = table[k],
         table'[k] = row.new
  PROVE  HistoryOK(k)'
<1>1. /\ Len(audit'[k]) = Len(audit[k]) + 1 /\ Len(audit[k]) \in Nat
      /\ \A i \in 1..Len(audit[k]) : audit'[k][i] = audit[k][i]
      /\ audit'[k][Len(audit[k]) + 1] = row
  OBVIOUS
<1>2. audit[k] # <<>> => Len(audit[k]) \in 1..Len(audit[k])
  OBVIOUS
<1>3. ASSUME NEW i \in 1..(Len(audit'[k]) - 1)
      PROVE  audit'[k][i + 1].old = audit'[k][i].new
  <2>1. CASE i = Len(audit[k])
    BY <1>1, <1>2, <1>3, <2>1 DEF HistoryOK
  <2>2. CASE i # Len(audit[k])
    <3>1. i \in 1..(Len(audit[k]) - 1) /\ i \in 1..Len(audit[k]) /\ i + 1 \in 1..Len(audit[k])
      BY <1>1, <1>3, <2>2
    <3>2. QED
      BY <1>1, <3>1 DEF HistoryOK
  <2>3. QED
    BY <2>1, <2>2
<1>4. audit'[k][Len(audit'[k])].new = table'[k]
  BY <1>1
<1>5. QED
  BY <1>3, <1>4 DEF HistoryOK

(* With current reads, every step keeps the audit log a history. *)
LEMMA HistoryStep ==
  ASSUME IInv, WriterReadCurrent, AuditIsHistory, [Next]_vars
  PROVE  AuditIsHistory'
<1>0. /\ table \in [Key -> Cell] /\ audit \in [Key -> Seq(AuditRow)]
      /\ \A k \in Key : HistoryOK(k)
  BY ByKey DEF IInv, TypeOK
<1>1. CASE UNCHANGED <<table, audit>>
  BY <1>1 DEF AuditIsHistory, LastRowIsValue
<1>2. ASSUME NEW r \in Req, Wrote(r), NEW j \in Key
      PROVE  HistoryOK(j)'
  <2>1. PICK k \in Key, v \in Value : k = req[r].key /\ v = req[r].val
    BY <1>2 DEF Wrote
  <2>2. req[r].seen[k] = table[k]
    BY <1>2, <2>1 DEF WriterReadCurrent, Wrote
  <2>3. Known(k, table[k]) \in Cell
    BY <1>0, KnownType
  <2>4. PICK row \in AuditRow : row = [old |-> Known(k, table[k]), new |-> v]
    BY <2>3 DEF AuditRow
  <2>5. audit' = [audit EXCEPT ![k] = Append(@, row)]
    BY <1>2, <2>1, <2>2, <2>4 DEF Wrote, Stored, Logged
  <2>6. CASE j = k
    <3>1. table'[k] = v
      BY <1>2, <2>1, <2>2, WroteTable
    <3>2. audit[k] # <<>> => table[k] # Absent
      <4>1. audit[k] # <<>> => audit[k][Len(audit[k])] \in AuditRow
        BY <1>0
      <4>2. QED
        BY <1>0, <4>1, SettingsAssumption DEF HistoryOK, AuditRow
    <3>3. audit'[k] = Append(audit[k], row)
      BY <1>0, <2>5
    <3>4. audit[k] # <<>> => row.old = table[k]
      BY <2>4, <3>2 DEF Known
    <3>5. QED
      BY <1>0, <2>4, <2>6, <3>1, <3>3, <3>4, HistoryGrows
  <2>7. CASE j # k
    <3>1. audit'[j] = audit[j] /\ table'[j] = table[j]
      BY <1>0, <1>2, <2>1, <2>5, <2>7, WroteTable
    <3>2. QED
      BY <1>0, <3>1 DEF HistoryOK
  <2>8. QED
    BY <2>6, <2>7
<1>3. ASSUME BootSeed, NEW k \in Key
      PROVE  HistoryOK(k)'
  <2>1. CASE table[k] = Absent /\ Default[k] # Absent
    <3>1. PICK row \in AuditRow : row = [old |-> Absent, new |-> Default[k]]
      BY <2>1, SettingsAssumption DEF AuditRow, Cell
    <3>2. audit'[k] = Append(audit[k], row) /\ table'[k] = row.new
      BY <1>3, <2>1, <3>1 DEF BootSeed, Seeded, Known
    <3>3. audit[k] # <<>> => row.old = table[k]
      BY <2>1, <3>1
    <3>4. QED
      BY <1>0, <3>2, <3>3, HistoryGrows
  <2>2. CASE ~(table[k] = Absent /\ Default[k] # Absent)
    BY <1>0, <1>3, <2>2 DEF BootSeed, Seeded, Known, HistoryOK
  <2>3. QED
    BY <2>1, <2>2
<1>4. ASSUME \A k \in Key : HistoryOK(k)'
      PROVE  AuditIsHistory'
  BY <1>4 DEF AuditIsHistory, LastRowIsValue, HistoryOK
<1>5. QED
  BY <1>1, <1>2, <1>3, <1>4, TableChange

(* With one writer the audit log is the history of every value. *)
THEOREM AuditIsHistoryHolds ==
  ASSUME OneWriter
  PROVE  Spec => []AuditIsHistory
<1>1. Init => AuditIsHistory
  BY DEF Init, AuditIsHistory, LastRowIsValue
<1>2. QED
  BY <1>1, HistoryStep, WriterReadCurrentHolds, InvariantHolds, PTL DEF Spec

-----------------------------------------------------------------------------
(* One admin alone: no get, no get_all, and the database answers. *)
Alone == OneWriter /\ Ops \subseteq {"update", "transition"} /\ ~MayFail

(* What the writer is about to put into the cache is what the table has,   *)
(* and only the key it is about to publish is out of date.                 *)
AloneInv ==
  /\ \A r \in Req : /\ req[r].pc = "publish" => req[r].val = table[req[r].key]
                    /\ req[r].pc = "fill" => req[r].seen[req[r].key] = table[req[r].key]
  /\ \A k \in Key : \/ cache[k] = Absent \/ cache[k] = Known(k, table[k])
                    \/ \E r \in Req : req[r].pc = "publish" /\ req[r].key = k

(* With one admin alone, every step keeps its cache current. *)
LEMMA AloneStep ==
  ASSUME Alone, IInv, WriterReadCurrent, AloneInv, [Next]_vars
  PROVE  AloneInv'
<1>0. /\ table \in [Key -> Cell] /\ cache \in [Key -> Cell] /\ req \in [Req -> Request]
      /\ \A r \in Req : RequestOK(r)
  BY ByRequest DEF IInv, TypeOK
<1>1. ASSUME NEW r \in Req, req[r].pc # "idle" PROVE r \in Writers
  BY <1>0, <1>1 DEF Alone, RequestOK
<1>2. ASSUME NEW r \in Req, Step(r) PROVE AloneInv'
  <2>1. \A q \in Req : q # r => req'[q] = req[q] /\ req[q].pc = "idle"
    <3>1. req[r].pc # "idle"
      BY <1>2 DEF Step, Look, Fetch, Fill, ReadOld, Write, WriteFails, Publish, Select, FillAll
    <3>2. QED
      BY <1>1, <1>2, <3>1, Movement DEF Alone, OneWriter
  <2>2. PICK k : k = req[r].key
    OBVIOUS
  <2>3. req[r].pc # "idle" => k \in Key
    BY <1>0, <2>2 DEF RequestOK
  <2>a. ASSUME req[r].pc # "publish", NEW j \in Key
        PROVE  cache[j] = Absent \/ cache[j] = Known(j, table[j])
    BY <2>1, <2>a DEF AloneInv
  <2>4. CASE Write(r)
    <3>1. PICK v \in Value : v = req[r].val
      BY <2>4, <1>2, Storage DEF Wrote
    <3>2. k \in Key /\ req[r].seen[k] = table[k] /\ Wrote(r) /\ UNCHANGED cache
      BY <1>2, <2>2, <2>3, <2>4, Storage DEF Write, WriterReadCurrent
    <3>3. table'[k] = v /\ \A j \in Key : j # k => table'[j] = table[j]
      BY <2>2, <3>1, <3>2, WroteTable
    <3>4. req'[r].pc = "publish" /\ req'[r].key = k /\ req'[r].val = v
      BY <1>0, <2>2, <2>4, <3>1 DEF Write, Goto, IInv, TypeOK, Request
    <3>5. \A q \in Req : q # r => req'[q].pc = "idle"
      BY <2>1
    <3>6. \A j \in Key : j # k => cache[j] = Absent \/ cache[j] = Known(j, table[j])
      BY <2>4, <2>a DEF Write
    <3>7. QED
      BY <3>2, <3>3, <3>4, <3>5, <3>6 DEF AloneInv, Known
  <2>b. ASSUME UNCHANGED table, req'[r].pc # "publish",
               req'[r].pc = "fill" =>
                 req'[r].key = k /\ k \in Key /\ req'[r].seen[k] = table[k],
               \A j \in Key : cache'[j] = Absent \/ cache'[j] = Known(j, table[j])
        PROVE  AloneInv'
    BY <2>1, <2>b DEF AloneInv, Known
  <2>5. CASE Publish(r) \/ Fill(r)
    <3>1. req[r].pc \in {"publish", "fill"} /\ k \in Key /\ UNCHANGED table
      BY <2>3, <2>5 DEF Publish, Fill
    <3>2. cache' = [cache EXCEPT ![k] = table[k]]
      BY <2>2, <2>5 DEF Publish, Fill, AloneInv
    <3>3. req'[r].pc \in {"idle", "old"}
      BY <1>0, <2>5 DEF Publish, Fill, Goto, Done, Idle, IInv, TypeOK, Request
    <3>4. \A j \in Key : j # k => cache[j] = Absent \/ cache[j] = Known(j, table[j])
      BY <2>1, <2>2 DEF AloneInv
    <3>5. \A j \in Key : cache'[j] = Absent \/ cache'[j] = Known(j, table[j])
      BY <1>0, <3>1, <3>2, <3>4 DEF Known
    <3>6. QED
      BY <2>b, <3>1, <3>3, <3>5
  <2>6. CASE Look(r) \/ Fetch(r) \/ ReadOld(r) \/ WriteFails(r)
    <3>1. /\ req[r].pc # "publish" /\ k \in Key /\ UNCHANGED cache
          /\ req[r] \in Request
      BY <2>3, <2>6 DEF Look, Fetch, ReadOld, WriteFails, IInv, TypeOK
    <3>2. UNCHANGED table
      BY <2>6 DEF Look, Fetch, ReadOld, WriteFails, Alone
    <3>3. /\ req'[r].pc # "publish"
          /\ req'[r].pc = "fill" => req'[r].key = k /\ req'[r].seen[k] = table[k]
      <4>1. CASE Look(r) \/ ReadOld(r)
        BY <1>0, <2>2, <3>1, <4>1
           DEF Look, ReadOld, Decide, Goto, Done, Idle, Request
      <4>2. CASE Fetch(r)
        BY <1>0, <2>2, <3>1, <4>2 DEF Fetch, Goto, Done, Idle, Request
      <4>3. CASE WriteFails(r)
        BY <1>0, <4>3 DEF WriteFails, Done, Idle
      <4>4. QED
        BY <2>6, <4>1, <4>2, <4>3
    <3>4. QED
      BY <2>a, <2>b, <3>1, <3>2, <3>3
  <2>7. QED
    BY <1>0, <1>2, <2>4, <2>5, <2>6 DEF Step, Select, FillAll, RequestOK, OpsAt, Alone
<1>3. CASE Process
  <2>1. \A r \in Req : req'[r].pc = "idle"
    BY <1>3 DEF Process, BootSeed, BootUnread, BootUncommitted, Crash, IInv, DownIsIdle, Idle
  <2>2. \A k \in Key : cache'[k] = Absent \/ cache'[k] = Known(k, table'[k])
    <3>1. CASE BootSeed
      BY <3>1 DEF BootSeed, Seeded, Known
    <3>2. CASE Crash
      BY <3>2 DEF Crash, Blank
    <3>3. QED
      BY <1>3, <3>1, <3>2 DEF Process, BootUnread, BootUncommitted, Alone
  <2>3. QED
    BY <2>1, <2>2 DEF AloneInv
<1>4. ASSUME NEW r \in Req, NEW op \in Ops, NEW k \in Key, NEW v \in Value,
             Arrive(r, op, k, v)
      PROVE  AloneInv'
  <2>1. req[r].pc = "idle" /\ UNCHANGED <<table, cache>>
        /\ \A q \in Req : q # r => req'[q] = req[q]
    BY <1>0, <1>4 DEF Arrive, Idle
  <2>2. req'[r].pc \notin {"publish", "fill"}
    BY <1>0, <1>4 DEF Arrive, Idle, Alone
  <2>3. \A q \in Req : req'[q].pc \in {"publish", "fill"} => req'[q] = req[q]
    BY <2>1, <2>2
  <2>4. \A q \in Req : req[q].pc = "publish" => req'[q] = req[q]
    BY <2>1
  <2>5. QED
    BY <2>1, <2>3, <2>4 DEF AloneInv
<1>5. CASE UNCHANGED vars
  BY <1>5 DEF vars, AloneInv
<1>6. QED
  BY <1>2, <1>3, <1>4, <1>5 DEF Next

(* While one admin alone changes settings and the database answers, the    *)
(* cache and the table agree whenever no request is in flight.             *)
THEOREM CacheCurrentHolds ==
  ASSUME Alone
  PROVE  Spec => []CacheCurrentWhenQuiet
<1>1. Init => AloneInv
  BY DEF Init, AloneInv, Blank, Idle
<1>2. OneWriter
  BY DEF Alone
<1>3. Spec => []WriterReadCurrent
  BY <1>2, WriterReadCurrentHolds
<1>4. AloneInv => CacheCurrentWhenQuiet
  BY DEF AloneInv, CacheCurrentWhenQuiet, Idle
<1>5. IInv /\ WriterReadCurrent /\ AloneInv /\ [Next]_vars => AloneInv'
  BY AloneStep
<1>6. QED
  BY <1>1, <1>3, <1>4, <1>5, InvariantHolds, PTL DEF Spec
=============================================================================
