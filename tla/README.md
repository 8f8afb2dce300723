# TLA+ models of Agent Arena (SentinelZero)

Agent Arena is the API of a competition: teams start a *submission* (a run over
hidden tasks), call tools, answer, and are scored; admins steer the event. The
program is one FastAPI process over PostgreSQL; participants develop against a
simulator of it with the program of the starter kit. This directory models them,
checks the models with TLC and proves what matters most with TLAPS.

## 1. The system and its parts

| component | state | operations | what makes it correct |
|---|---|---|---|
| Submission service (`services/submission_service.py`) | `submissions`: status, attempt, results, plan; `task_assignments` | start, next task, submit task, submit batch, abort, finalize, status poll | one run in progress per team; the limit; a finished run stays finished; results are kept |
| Locks (`services/locks.py`, `with_for_update`) | asyncio locks per team and submission; row locks per transaction | acquire; release on leaving `async with`, on commit, on teardown of the session | no cyclic waiting; what was read under a lock still holds at the write |
| Tool service (`services/tool_service.py`, `domain/rules.py`) | the world of each assignment, `tool_call_logs` | find or create the assignment, five read tools, four actions, escalation check | no call after the answer; one assignment per name; world and log agree |
| Rate limiter (`services/rate_limiter.py`) | none, it counts logs | check_limits | budget and rate hold however calls overlap |
| Scoring service (`scoring/service.py`) | `aggregate_score`, records written over the results | score_submission, get_team_aggregate_score | no score before the end; unanswered tasks are sealed at zero |
| Evaluation engine (`scoring/sentinelzero_*.py`) | none | seven dimensions, their aggregate | no answer gains by guessing, repeating, or deciding wrongly |
| Settings service (`services/settings_service.py`) | `settings`, `settings_audit_log`, a class-level cache | get, get_all, set, seed_defaults | the cache shows committed values; the phase moves forward; the log explains the value |
| Authentication (`services/auth_service.py`, `api/middleware.py`) | `teams.bearer_token_hash`, `revoked_tokens`, a cache of revoked hashes | register, regenerate, authenticate | a revoked token is dead, a valid one is never refused |
| Team administration (`services/admin_service.py`) | `teams`, audit rows | create, import, rename, status, token | numbers without gaps, complete audit, a suspended team starts nothing |
| Leaderboard (`services/admin_service.py`) | none | get_leaderboard | order and ties follow the rules, whatever changes meanwhile |
| Starter kit client (`starter-kit/main.py`, `sdk/`) | its step, run and answers | start, abort and restart, fetch, solve, submit, batch | it ends; it leaves nothing inconsistent behind |
| Mock simulator (`starter-kit/mock_simulator/server.py`) | four SQLite tables | the same operations, without locks | the same contracts as the arena |
| Datasets, seeding, operations scripts, legacy engines, agent | - | sequential tools, external programs, unused code | not modelled (section 8) |

How they interact: the middleware authenticates each request in a session of its
own; the route then opens one session for the handler and closes it when the
request is torn down. Handlers call services, services read settings through the
cache, and share nothing else in memory but asyncio locks and caches. Every
`await` is a point where another request may run. The database runs READ
COMMITTED, sessions keep the objects they loaded (`expire_on_commit=False`), and
no unique constraint covers submissions or assignments. The simulator serves each
request on a thread with a SQLite connection of its own.

What is hard: handlers that commit in the middle and so give up row locks
(`start_submission` closing a stale run, `submit_batch` before scoring); handlers
that read without a lock and write later (status poll, abort, window test);
checks and commits apart (tool calls); tasks under two names, filed now under one
and now under the other; caches written apart from the table; answers assembled
from several reads (leaderboard, authentication); a client that gives a call up
while it is served. The list, line by line, is `hazards` in `PROJECT.json`.

## 2. Modules

| module | models | composed with |
|---|---|---|
| `SubmissionFSM` | the promise: the state machine of a submission and its score | implemented by the next two |
| `SubmissionLifecycle` | the submission, scoring and status requests over locks, rows and transactions | `SubmissionFSM` |
| `TaskRuntime` | what one team does inside its runs: assignments, results, tool calls, limits, scoring | `SubmissionFSM` |
| `Evaluation` | the scoring of one task, in exact arithmetic | - |
| `Triage` | one task over the runs of a team: tools, mailbox world, escalation check, score | extends `Evaluation` |
| `SettingsCache` | settings table, audit log, cache | - |
| `TeamAccess` | administration of teams against authentication | - |
| `Leaderboard` | a leaderboard request against runs, scorings and status changes | - |
| `MockSimulator` | the simulator's requests, one read or commit at a time | - |
| `ParticipantRun` | `main.py` and its client, with lost and late calls | extends `MockSimulator` |
| `Enumerations` | sorting and filtering a list, where the code does, without recursion | extended by `TaskRuntime`, `Evaluation`, `MockSimulator` |

`...MC` modules hold the instances TLC checks, `..._proofs` the theorems.
Definitions named `...Mutant` (and the variants of `LockSubmissionRow`) are wrong versions of the
definition below them; no specification uses them. Each property of a passing run
is violated when one of them takes the definition's place.

The submission service is modelled twice because its two difficulties hardly
meet. `SubmissionLifecycle` keeps every await, lock and transaction and abstracts
from tasks. Its result - all writers of a run hold the team's lock - is what lets
`TaskRuntime` take a handler in one step and keep the state between handlers:
names, timeouts, results, budgets. Both implement `SubmissionFSM`, which is what
the other components rely on.

## 3. How the modules correspond to the code

**SubmissionLifecycle.** `status`, `attempt`, `aged` and `scored` are columns of a
submission (`aged`: started more than 1800 s ago); `teamStatus` is `teams.status`,
"suspended" also standing for "disqualified"; `phase` and `ended` are the event
window (`closed` is frozen, evaluating or results_published). `mutex` maps each
team and submission to the request that holds its asyncio lock, `row` each row to
the transaction that locks it. `req[r].pc` is the await a request is suspended at:

| operation | path through `pc` |
|---|---|
| start_submission | mutex, window, teamRow, active, [stale,] count, insert |
| finalize_submission | mutex, subRow, write |
| submit_batch | mutex, subRow, window, write, subMutex, scoreRow, score |
| abort_submission | mutex, read, write |
| start_next_task, submit_task | mutex, activeRow, window, write |
| get_submission_status | read, window |
| score_submission (admin) | subMutex, scoreRow, score |
| update_team_status | mutex, teamWrite |

`expire` is the lazy expiry inside the window test, `teardown` the time between an
error and the end of the session, in which row locks are still held. A commit
frees row locks at once; leaving a handler by an exception frees the asyncio locks
first and the row locks in `Teardown`. A plain UPDATE waits for the row and
overwrites it. `submit_batch` scores from the object loaded before its commit.
`finalize` never looks at the window. A pool that is too small, an unknown task id
and an evaluation that raises are nondeterministic failures. `SubmissionFSM.Overwrite`
is part of the promise because the code does it: the poll may replace an ending by
"expired", an abort an expiry it did not see.

**TaskRuntime.** A task has a canonical name `<<0, t>>` and, in the plan of run
`s`, an ephemeral one `<<s, t>>`. `assigned`, `results` are the tables in their
order, `calls` and `recent` the logs the limiter counts. A tool call is two steps,
`ToolCheck` or `ToolAssign` (assignment found or to be created, answer, timeout,
limits) and `ToolCommit` (world, log, assignment), a batch `SubmitBatch` and
`BatchScore`; between them the call holds the team's lock (`holder`) and may be
abandoned. `judged` is the set of tasks the last scoring evaluated rather than
sealed at zero. What the tool does to the world is left to `Triage`.

**Evaluation, Triage.** Scores are integers in units of `1/One`; each dimension is
an operator named after its function. A summary is the set of features its rubric
tests. A log records what a call asked for (`arg`, echoed when `byId`), what its
response shows and whether it was rejected. `Stem` is the escalation check's
pattern, which stops at a second hyphen. `AssignTask` starts the team's next run.

**SettingsCache.** `table` and `audit` are committed, `cache` is the class-level
dictionary, `up` whether the process serves. Values are ranks. A request is
suspended at each SELECT and at the commit: get: fetch, fill; get_all: select,
fillAll; update_setting: look, [fetch, fill,] old, write, publish; a transition:
old, write, publish; the start: `BootSeed`, `BootUnread`, `BootUncommitted`. `set`
decides on the value its session loaded first; flush and commit are one step;
`WriteFails` is a lost race, a failed transaction or a lost answer to the commit.

**TeamAccess.** `teams` by creation, tokens as drawn (`create_bearer_token` never
repeats one); `good` and `bad` record which waiting requests have seen their token
valid or invalid. `Import` covers `create_team` (a batch of one) and
`bulk_import_teams`; a failed commit leaves the session `broken` for its later
rows. `Primary`, `Missed` and `Fallback` are the reads of
`authenticate_bearer_token`, in its order.

**Leaderboard.** `runs` by attempt, `at` the rank of `completed_at` (`Never` for
NULL, which sorts last), `score.tie` the rank of (task_success, policy). A request
lists the teams, reads one team per step, and answers; `touched` and `gone` record
what changed meanwhile.

**MockSimulator, ParticipantRun.** Each request on its thread is split at every
read and commit; SQLite may refuse a statement (`Locked`). `main.pc` is the step
of `main.py`; `Lost` is a `TransportError`, after which the serving thread goes on
unheard. `agent.solve` ends with an answer or an exception; its tool calls are
those of a second client with the same token.

## 4. Runs and bounds

| run | instance | shows |
|---|---|---|
| `lifecycle` | 2 teams, 2 submission ids, 2 requests of any operation, crashes, limit 1; 1.7 million states | one run at a time, the limit, completions lost to the poll only, no start while suspended, only the owner moves a run, refinement of `SubmissionFSM` |
| `answered` | 1 team, 2 requests, start, finalize, batch, score; fair | every request is answered: the locks are never awaited in a cycle |
| `settings` | 2 keys, 2 writers, failures, restarts, 2 audit rows | the log covers the table, the cache shows committed values, how the phase goes back |
| `settings_one_writer` | 1 key, 1 writer and 1 reader, 4 audit rows | the log is the history, the phase moves forward |
| `runtime` | 1 run, 2 tasks, 2 requests in flight, budget 1, rate 2, batches of up to 2; 0.6 million states | budget, no call on a closed task, one result per task, results kept, first scoring, refinement of `SubmissionFSM` |
| `triage` | 12 tool calls, up to 3 of them over 2 runs, after none or 4 others, 3 ground truths, 13 answers | world and log agree, what the score may never reward; that the hypotheses of the theorems hold of the default weights |
| `access` | 2 admin requests, 1 participant, 2 teams, 3 tokens, 1 of them a JWT, 2 audit rows; 5.4 million states | sound and complete authentication, sequential numbers, complete audit, final revocation |
| `ranking` | 2 teams with up to 2 and 1 runs, 2 scores, both modes; 1.1 million states | order, exclusion, agreement with the team's score, further attempts never hurt |
| `participant` | 2 threads, 2 tasks, 2 runs, 3 assignments, lost, late and refused calls | the invariant of threads and `main.py`, one world per task, results backed by evaluations and never lost, `main.py` ends |
| `poll_overwrites` | as `answered`, all operations | a poll writes "expired" over a completion |
| `next_task_continues` | as `runtime` | after a timeout filed by a tool call, unnamed calls find no task |
| `mock_grounded` | 2 threads, 1 task | the simulator rejects an escalation the arena accepts |

Why the bounds are enough. Two requests let every pair of operations meet at every
await; two submissions let one run end and the next begin. `runtime` has one run
because a second one multiplies the names of every task: two runs were
checked with one task, and with one hidden task of two, and the theorems cover any
number. Budget 1 and rate 2 are reached, and passed by the mutants, with two calls.
Three settled ranks are what a backward step of the phase needs. Three tool calls
after four others cross the six free calls of the efficiency rubric and reach
its budget. Three tokens give a registration and two regenerations; two audit rows a
chain. Three runs of two teams give ties between and within teams. `WithinLimit` is checked
with a limit of one, the theorem covers any. `CHECK_DEADLOCK` is off where the
bounded exploration ends (`triage`) or a thread waits for nothing
(`participant`).

Fairness. `answered`: strong fairness for steps that wait for a lock, since
`asyncio.Lock` wakes its waiters in order and PostgreSQL queues them, weak fairness
for the rest, since the event loop runs whatever is ready; clients, admins, time
and crashes are not fair. `participant`: weak fairness of `MainStep` only: the
program runs, each of its calls ends by its timeout, and `agent.solve` ends. The
simulator's threads are not assumed to answer.

## 5. Where the code disagrees with what it says

With a run (`findings` in `PROJECT.json`): `poll_overwrites`,
`next_task_continues`, `mock_grounded`.

Seen while modelling, in the guards and actions of the modules:

* A start that passed the window test inserts its run after a freeze
  (`submission_service.py:98`, 233; `OPERATOR_RUNBOOK.md:251`), and a freeze expires
  no run by itself (58; `OPERATOR_RUNBOOK.md:250`). A run starts in the registration
  phase (`OPERATOR_RUNBOOK.md:229`). `competition_start_at` and `competition_end_at`
  drive no transition, and tool calls never test the window.
* Scoring is refused for runs in progress only (`scoring/service.py:65`): an
  aborted run can be scored and shown, against `submission_service.py:753`.
* Two transitions validated against one phase may move it backwards
  (`settings_service.py:86`; `ADMIN_GUIDE.md:69`); a listing that read the table
  before a change may put the old value back into the cache (72; PRD 550).
* A second, forced scoring evaluates the "unstarted" records of the first as empty
  answers (`scoring/service.py:234`, against "Deterministic, idempotent" of line 34).
* A batch completes tasks that had timed out (706); an answer filed by `submit_task` under
  an ephemeral name is dropped by the scoring. `finalize` does not score.
* The tool budget counts the team's calls on a task over all its runs.
* `_infer_action_from_logs` credits a rejected escalation; the escalation check
  keeps only the prefix of message ids (`tool_service.py:253`), so that one message
  stands for any, and accepts what an earlier run has seen; an id merely
  requested counts as observed; a wrong decision that is not similar keeps full policy
  alignment; the branches for 0.30 and 0.35 of task success are never reached.
* The leaderboard ignores the setting `score_aggregation` and shows interrupted
  runs that were scored.
* Name check and insertion of a team are two transactions: two requests may create
  teams of one name.
* In the simulator a batch that passed its test completes a run that was aborted
  meanwhile (2649, 2729); abort and finalize do not test the status at all;
  two racing starts both open a run; a named task without an assignment falls back
  to another world; concurrent actions lose world updates; a log that fails leaves
  an action without trace.

## 6. Proofs

All theorems are about the specifications TLC checks, for every value of the
constants that satisfies the named assumptions of the module.

`SubmissionLifecycle_proofs` (`LifecycleAssumption`: finitely many submissions, any
teams, requests and limit). None of the safety invariants is inductive alone.
`IInv` adds `LockInv` - a request in the body of a team-locked operation holds that
lock; `ReadInv` - what it read under a lock is still so when it writes, or has only
expired meanwhile; `CountInv` - a start that found the team active, no run in
progress and room under the limit still finds all three at its insert; `RoomInv` -
a team with a run in progress has room for its completion. `StatusChange` lists
the four ways a step can change a status and the locks it then holds; `OthersKeep`
says that a step takes no lock from another request. From these, what the others
have read survives (`OthersRead`, `OthersCount`); `OwnLock` and `OwnStep` follow the
request that moves. The action properties and the refinement are read off
`StatusChange` and `ScoredChange`. `ScoredIsTerminal` and `NoRevival` are theorems
too; as consequences of the refinement they are no properties of the run.

`TaskRuntime_proofs` (`RuntimeAssumption`). `IInv` has three parts. `CallInv` is about
calls in flight: `LockInv` - whoever is in flight holds the team's lock; `FreshInv` - a
call about to create an assignment still finds none to use; `BatchInv` - a batch
still to be scored has ended its run. With the lock, no other step moves what a
call has checked, which gives `CallStillAllowed`; that the call is still within the
limits when it is logged gives `BudgetHeld` and `RateHeld`; `FreshInv` gives
`DistinctNames`. The refinement follows from which actions write `status` and `scored`.
`AgreeInv` is about the results of a run: in progress it has at most one under each
name, later those of one name agree, and only a scoring files a task as
"unstarted". It gives `OneResultPerTask`, since a client of canonical names has one
name per task, and `FirstScoreSeals`, since the record the scoring finds for a task
then does not depend on which of them it takes. `PendingInv` covers the batch
between its two commits, when the administrator may score first: the second
scoring then works on results the first has rewritten, and they are still the
batch's answers or sealed. Without it `ResultKept` fails at that step of the proof.

`SettingsCache_proofs` (`SettingsAssumption`). `IInv` adds that what a request
carries, read or about to be published, is on record (`ReadIsRecorded`), since a
cache entry is always copied from a request; it gives `StoredIsAudited`,
`CachedWasCommitted` and `BackOnlyByStaleRead`. Under `OneWriter` the value the
writer read is the one it replaces, which gives `PhaseForward` and `AuditIsHistory`.
Under `Alone` - one admin, a database that answers - cache and table agree when
nothing is in flight. `OneWriter` and `Alone` are hypotheses on the constants.

`TeamAccess_proofs`. `IInv` adds `Locked` - a team's lock has one holder, who knows
its status; `TokensApart` - a token drawn is one team's, one request's or nobody's,
and is not revoked before a team has it; `Witnessed` - a waiting request has a
witness for each answer it may still get. They give `AuthSound`, `NeverLockedOut`,
`DisplaysSequential`, `StatusAuditChains` and `RevokedForGood`.

`Leaderboard_proofs`. `IInv` adds `ReadInv` - the entries made so far show, for every
team nothing happened to, what the table holds - and that an unfinished run has no score.
They give `UndisturbedRanked` and `DisqualifiedGone`. `AgreesWithTeamScore` compares two
choices from a team's runs, the leaderboard's among terminal ones and the score
service's among completed ones: both are maximal in the same order once no
interrupted run has a score. `AttemptsNeverHurt` follows from the order in which
runs are preferred.

`ParticipantRun_proofs` (`ClientAssumption`: the second client sends well-formed
requests; `TasksAssumption`). `IInv` adds `ThreadInv` - what a thread holds at each step
of the request it serves: a world that exists, a task it has looked up, and for a
batch of `main.py` the answers to all tasks - and `MainInv` - answers, the task at hand and
those left are always all tasks, from the listing of a run to its batch. `ThreadInv` is
needed because threads hold what they read across commits of others; that tables
only grow keeps it (`SoundStays`). `MainInv` is what makes the batch that replaces the results
complete, without which `ResultsNeverLost` fails. `OneWorldPerTask` holds because a run gets all
its worlds in the commit that opens it, so that a start of a task never inserts one
for a run, only for the practice pool (a part of `ThreadInv`); there they may
multiply. `ResultsBacked` holds because results and evaluations are filed in one commit.

`Triage_proofs` (`SettingsAssumption`: the weights are natural numbers, the budget a
number; `TriageAssumption`). Logs and answers have any length, so that each score
is bounded by an argument of its own. Evidence is a harmonic mean of quotients
(`Quotient`, `Harmonic`), efficiency the part of a budget that unrepeated calls have
left (`Within`), robustness the task success less penalties; `AggregateGrows` says that an
answer that is not better in any dimension has no higher aggregate, whatever the
weights. `IInv` adds `LogsInv` - the log shows
of a read what it asked for, and no entry is of a later run - and `WorldFollowsLog` is part of it.
A step adds one entry at the end of the log, and `Picked` then keeps the entries of
the run (`PickedAppend`). From these follow `FabricationNeverPays`, `EvidenceNeverLost`
and `RepeatedReadNeverPays` for any weights and any budget.
Two theorems have a hypothesis, both stated in `Triage` and evaluated by the run.
`EvidenceIsDice` needs `ExactShares`: the model counts in units of 1/2520, which
numbers up to 10 divide; the code uses floating point and has no such bound. `DecisionsRank` needs
`SuccessOutweighs`, since the code leaves a dissimilar wrong decision its full policy
alignment: 35, 15 and 10, the default weights of task success, policy and calibration, satisfy it.
The weights are settings: with 20 for task success TLC finds a run in which a
dissimilar wrong decision scores more than the similar one.

`Enumerations_proofs` has what the others need of sorted and filtered lists: that the
order of a finite set of numbers is unique (`Ordered`), what a filter keeps (`Picked`), and
what it keeps when the list grows at its end.

## 7. Only model-checked

`RequestsAnswered` and `MainEnds`: liveness under fairness is out of the provers' reach. What
the runs that end in a violation refute is refuted by their counterexamples. Every
other property of a run is a theorem of section 6.

## 8. Not modelled

* Listings and details of the admin API (teams, logs, audit, health): they read and
  answer. `export_leaderboard_csv` formats the leaderboard.
* `scoring/engine.py` and `scoring/evaluator.py`, the engine of an earlier
  scenario, which `score_submission` never calls; `check_rate_limit`,
  `check_task_budget` and `score_all_completed_submissions`, which nothing calls.
* Aggregation mode "average", a mean; the count of runs a leaderboard entry shows.
* Scrubbing, hashing, formatting and logging; the text of summaries beyond the
  features of the rubric.
* The agent: it calls a language model; to the arena it is the participant, whose
  calls the models leave free.
* In the simulator: `dev_reset`, the status read, the dashboard's pages and the
  tools of the earlier scenario, which the SDK does not offer.
* Dataset generation and seeding (sequential, before the event); backup, restore and
  rehearsal scripts (wrappers of external programs, a load generator).
