# TLA+ models of fineract-ai-reports

The program answers questions about a Fineract database in natural language. A
client posts a message to a *session*; every question is a *job*, a row in
PostgreSQL worked on by a detached tokio task; the task asks back when it needs
to (a *clarification*), runs a *workflow* of approved queries and streams its
progress to the client; every material decision leaves an audit row. This
directory models the parts of the program whose correctness depends on the order
in which independent actors reach shared rows, checks them with TLC and proves
the safety invariants with TLAPS.

Paths below are relative to `src/crates/chat/src` unless they start with `src/`.

## 1. Inventory

| part | state | operations | talks to |
|---|---|---|---|
| job service and repository (`job/service`, `job/repository`) | `chat_jobs` row (status, result, workflow columns), `assistant_job_memory` (revisioned), messages, `chat_job_events` | create, respond, run of a turn, fail, workflow resume | spawns one task per accepted message; everything below |
| sessions (`conversation`) | `chat_sessions`, `assistant_session_memory` (revisioned) | create, archive, update after a job | written by every job of the session |
| events and stream (`job/service/events.rs`, `job/progress`, `api/handlers/job.rs`) | durable event log, Redis keys and channel, one handler per open stream | emit (insert, publish, set live state), open, subscribe, re-check, replay, forward, poll | tasks write, handlers read |
| assistant runtime (`assistant/execution/runtime`) | job memory (pending clarification, plan) | route a turn, plan or resolve a clarification, execute a capability | LLM providers, workflow runner |
| workflow (`assistant/workflow`) | `chat_workflow_node_runs`, `state_json.workflow_runtime` (ledger) | compile, verify, install, run in batches, pause, resume | data tools, job row |
| data access (`execution`, `assistant/execution/tool`, `assistant/llm/tool`, `policy`) | none of its own | authorise, guard the budget, run an approved query read-only | Fineract database |
| understanding, retrieval, presentation (`assistant/...`) | none across turns | classify, extract, rank, gate, rerank, render | LLM providers, knowledge index |
| knowledge catalog (`knowledge/catalog`, `knowledge/dataset`) | catalog in memory | load, validate, resolve a recipe, compose a statement | start-up, planning, execution |
| knowledge index (`knowledge/index`) | index versions in PostgreSQL | sync when stale, sync, search | start-up, rebuild handler, retrieval |
| LLM calls (`assistant/llm`) | retries of a call, trace rows | send, retry, fall back, decode | external provider, trace repository |
| management outbox (`management/outbox.rs`, `management/repository.rs`) | `management_audit_outbox`, `management_audit_events` | enqueue, claim, publish, record failure | business transactions; a polling loop per replica |
| audit telemetry (`audit`) | bounded channel, batch in memory | record, flush | fire and forget from the pipeline |
| management dashboards (`management`) | none | aggregate queries | administrators |
| auth, config, database (`src/crates/core/src`) | users, refresh tokens, API keys | log in, refresh, revoke, authenticate | every handler |

The only concurrent activities the program starts are the tasks of
`job/service/mod.rs` (create and respond), the outbox loop, the audit worker and
the provider's stream reader; with the HTTP handlers and the nodes of a workflow
batch (`join_all`) they are the actors of the models.

### What is hard here, and what correctness means

* **Jobs.** A reply is accepted as soon as the row says `waiting_for_user_input`;
  the task of the turn before may still be emitting events. The terminal writes
  carry no status guard, so only the protocol keeps two tasks of one job apart.
  Right means: one working task per job, the durable outcome is of the last turn,
  completed is final, memory is never overwritten unread, and a queued job is
  eventually settled.
* **Streams.** The log, the channel and the live-state key are written by three
  statements, and a handler reads three things. Right means: order, nothing lost
  from the log, and an end for every stream.
* **Workflows.** Sibling nodes run concurrently against one budget, one failure
  cancels the rest, a pause splits a run over two processes. Right means: the
  budget holds, no node runs twice, only the selected arm runs, the ledger is
  exact, and a run returns.
* **Outbox.** Replicas race for rows, and the failure of an attempt is recorded
  after its lock is gone. Right means: one event per row, publication final, and
  no row is starved.
* **Accounts.** Every request checks its session, its key and its scope in
  several round trips while others log out, revoke and create. Right means: a
  logout that was answered is final, a restricted key stays restricted, and
  replicas that start together make one administrator and one default key.
* **Index and catalog.** Replicas sync one index while the files are edited; a
  catalog is validated once and then planned, compiled and executed by code that
  never looks at the validator's rules again. Right means: the searches rank
  what the files hold, and what validates can be planned or asked for, compiles
  to a workflow that verifies, and yields a statement whose binds fit.
* **Dialogue.** What a turn does depends on the models, on the pending question
  of an earlier turn and on two independent readings of what is missing. Right
  means: no plan fails for a parameter nobody asks for, no report is answered
  that ignores a filter the user typed, and what an earlier turn left in job
  memory does not speak for this one.
* **Queues, limits and retries.** The audit channel, the lookup limit and the
  retry loop each have a bound. Right means: no event is lost silently or stored
  twice, the limit holds over racing requests, and one model call cannot keep a
  job for minutes.

`PROJECT.json` lists the hazards by source line with the properties that cover
them.

## 2. Modules

| module | models | role |
|---|---|---|
| `ChatJob` | job service and repository, job and session memory | core |
| `ChatJobMC` | symmetry set of its runs | model checking |
| `ChatJobProofs` | six theorems about `ChatJob` | proofs, extends `ChatJob` |
| `ConversationProofs` | the refinement of `Conversation` by `ChatJob` | proofs, extends `ChatJobProofs` |
| `JobStream` | `events.rs`, `progress`, the stream handler, Redis as an external channel | component |
| `JobStreamMC` | bounds of its run | model checking |
| `JobStreamProofs` | five theorems about `JobStream` | proofs, extends `JobStream` |
| `WorkflowGraphs` | the graphs the compiler emits | data of the runner |
| `WorkflowRunner` | `run.rs`, `state.rs`, `node_executor.rs`, `GuardedDataTools` | component |
| `WorkflowRunnerMC` | workflows of the runs | model checking |
| `WorkflowRunnerProofs` | eight theorems about `WorkflowRunner` | proofs, extends `WorkflowRunner` |
| `Conversation` | what a job promises its client | abstract specification, implemented by `ChatJob` |
| `Outbox` | outbox table, dispatcher loop | component |
| `OutboxProofs` | six theorems about `Outbox` | proofs, extends `Outbox` |
| `Auth` | `core/src/auth`, its handlers and extractors, `policy`'s principal | component |
| `AuthProofs` | four theorems about `Auth` | proofs, extends `Auth` |
| `AuditTrail` | the audit channel and its worker | component |
| `LlmCall` | a structured model call: retries, fallback, decoding, traces | component |
| `LookupLimit` | the Redis counter of identifier lookups | component |
| `KnowledgeIndex` | `knowledge/index`, its two callers | component |
| `ServiceProofs` | four theorems about the four modules above, two about all services together | proofs, extends `ServicesMC`, `AuthProofs`, `DialogueProofs` |
| `Catalog` | loading and validation of the knowledge files | operators |
| `Planning` | parameters, plan of a capability, recipe resolution, clarification planner | operators, extends `Catalog` |
| `Compile` | `compile_with_facts`, the dependency graph, `verify` | operators, extends `Planning` |
| `Statement` | bindings, request, placeholders, binds, row cap | operators, extends `Compile` |
| `CatalogServing` | the catalog a process serves while the files are edited | component, extends `Statement` |
| `Retrieval` | retrieval engine, sufficiency gate, reranker | operators, extends `Planning` |
| `Dialogue` | the turns of a job as decisions: route, reply, plan, ask, run | component, extends `Retrieval` and `Statement` |
| `DialogueProofs` | five theorems about `Dialogue`, the served catalog and the rows shown | proofs, extends `Dialogue`, `CatalogServing` |
| `DialogueMC` | a catalog of six capabilities, messages, scopes | model checking |
| `ServicesMC` | the services, one running at a time | model checking |

`ChatJob` sees a workflow only as "installed, finished, paused or stale";
`WorkflowRunner` is what happens inside. `JobStream` takes the turns of `ChatJob`
as given and looks at every event. `Dialogue` is what `ChatJob` leaves open in
`Route`: which outcome a turn has, and what it asks; the graphs `Compile` builds
are those `WorkflowGraphs` hands to the runner.

### ChatJob

`status`, `turns`, `result`, `workflow`, `memory`, `answered`, `events`,
`archived` and `session` are rows; `pc[j][t]` and `local[j][t]` are the task of
turn `t` of job `j`: every database round trip of `run_graph_skeleton_body` is a
step of its own, so tasks interleave between any two of them. `Create`,
`Respond` and `ResumeWorkflow` are the transactions of the handlers; `Spawn` is
the rest of the handler, because a client that goes away cancels it between the
two (`DropRequest`). `PipelineError` covers every `?` and every caught panic;
`Fail`, `FailAfterTerminal`, `EmitError` and `FailureUnrecorded` are
`run_graph_skeleton_recording_failure`. A clarification is named by the turn that
planned it, which is enough to tell a stale answer from a current one. What the
assistant decides (`Route`) is free: any outcome, any of the pending
clarifications the code can leave. An outcome is more than the status it is
stored as: a *declined* turn (`BlockedByPolicy`, `Unsupported`, `OutOfDomain`,
`ContextWindowExceeded`) completes its job like an answered one, but only
`TerminalState::Completed` puts the job into the session's `relevant_jobs`.

### JobStream

`stage[t]` and `task[t]` are the next statement of the stage forwarder and of
the pipeline, which `tokio::join!` runs beside each other. `log`, `liveState` and
`channel` are PostgreSQL, the Redis key and the messages on their way to the one
subscription; Redis keeps no history. The handler's states are those of the SSE
handler: snapshot, `subscribe`, `check` (the live-state re-check), then `live`,
`replay` or `poll`. The session may be archived while a stream is open
(`ArchiveSession`): the polled log then reads as empty, as it does when the lookup
fails. The stages and text chunks of a turn are one event each: the properties
only tell progress from terminal events. The log is in the order of the commits
(see the observations for the code's `created_at`), and the `workflow_*` events,
which end no stream, are left out.

### WorkflowGraphs and WorkflowRunner

The compiler emits three shapes for a capability (query; ask, then query; probe,
branch, then query or ask); `FanOutWorkflow` is the parallel shape of the
runner's own tests. `WorkflowRunner` keeps the durable rows (`row`, `attempts`,
`ledger`, `job`) apart from the runner's copy (`runs`, `consumed`), since a run
reads the rows once. `step[n]` is the program counter of `execute_node`; the
biased `select!` is `Polled` against `Cancel`. A query returns 0, 1 or 2 rows:
the branches distinguish none, one and many.

### Outbox

`status`, `attempts`, `wait`, `errored` are columns of the outbox row; `queue`
is the order of `next_attempt_at`; `events[r]` counts the final events of a row;
`disp` are the polling loops. A claim holds a row lock until its transaction
ends; what it writes is visible at the commit only. `PassAborts` is any failing
statement or restart inside a pass, `CommitUnheard` a commit that happened
although its caller got an error. `attempt_count` is saturated at a bound above
the largest exponent, beyond which the code does not tell values apart.

### Conversation

The contract of the three job endpoints: a message is accepted when the job is
new or waits, it is owed one outcome, the outcome shown is of the last message,
completed is final. `ChatJob` maps `shown` to the status column, `asked` to the
turns, `told` to the turn of the shown result and `owed` to "a task works".
`KeepsPromise` is `Conversation!Spec` under that mapping, fairness included. It
is checked for `WorkflowPauses = FALSE`: a resumed workflow is queued and never
run (violation 1), which is no step of the contract. A late failure of an
earlier task may mark a queued newer message failed and be replaced by that
message's own outcome: the contract has to allow it (`RecordFailure`, then
`Conclude`).

### Auth, AuditTrail, LlmCall, LookupLimit

In `Auth` a request is a process whose steps are its database and Redis round
trips, and a replica starts in four steps (look up, insert, count, create key).
Sessions, refresh tokens and access tokens are one value, named by the login;
Redis may not answer, a statement may fail, a replica may stop between steps.
`AuditTrail` has the pipeline (`Record`, which drops at capacity), the worker's
`select!` (`Receive`, `Tick`, `ReceiveNone`) and the insert, which may fail or
commit unheard. `LlmCall` keeps the code's milliseconds: 500 ms base delay,
8 s maximum, 45 s budget for each of the two retry loops, every jitter by its
extremes, answers quick or slow; `took` is the time of the call, `slept` what of
it was spent between attempts. In
`LookupLimit` INCR and EXPIRE are two steps, with the request cut off or the
answer lost in between.

### KnowledgeIndex

A replica's sync reads the files, looks for its hash, embeds and writes one
transaction; other replicas, edits and crashes come between. A version is named
by its documents (hashing is injective); the searches read the version whose
`synced_at`, the start of its last transaction, is the newest.

### Catalog, Planning, Compile, Statement, CatalogServing

`Catalog` has an operator per function of the loader and the validators, and
`validate` is their conjunction. `Planning` answers which parameters get a value
from the facts of a request and which inputs the clarification planner asks for;
`Compile` builds the nodes and arcs and has the twelve checks of `verify`;
`Statement` follows a planned value through the inputs a node declares to a bind
and counts binds against placeholders. Two details are left out: a literal value
in a recipe filter is taken to parse (`ValidFilterValue` checks the kinds of
parameters), and a limit never comes without its mode, since router and extractor
set both. `CatalogServing` judges the rows shown by what was *asked* for, before
`clamp_hard_caps`. An `Option` is a set of one or none, a
fact is a field with the form of its value. In `CatalogServing` an edit changes
one field of one file; a process starts only with a catalog that loads and
validates, and the properties quantify over everything a user may have said
about the catalog that is served.

### Retrieval, Dialogue

A turn is one step. Its action is the branch the code takes: the context window
is exceeded, a reply is decided without the router, or the router fails, finds a
reply, small talk or a report. Each runs to its terminal state: retrieval, gate
and reranker, plan or question, compile and run. What a model decides is any of
its possible answers, ids that were not retrieved included; scores are
hundredths, near or far. `last` is the outcome with its reason and the fields
that reached the statement; `pending` is the payload in job memory, `extracted`
the extraction on record there: `record_extraction_metadata` replaces it only by
one that found something, so gate, plan and questions may work with that of an
earlier turn or of the source prompt.

## 3. Runs

| run | bounds | shows |
|---|---|---|
| `ChatJobTurns` | 1 job, 3 turns, all five faults, no workflow pause | `OneTaskPerJob`, `OutcomeIsOfLastTurn`, `CompletedIsFinal`, `KeepsPromise` |
| `ChatJobOverlap` | 2 jobs (symmetric), 2 turns each, 3 messages, pauses | `NoLostMemory`, `CompletedJobsRemembered` |
| `ChatJobResume` | 1 job, 2 turns, pauses | **violated**: `QueuedSettles` |
| `JobStreamRuns` | 2 overlapping turns without faults, 1 turn with insert and Redis faults and archiving; Redis on or off | `SentInLogOrder`, `NothingAfterTerminal`, `LogHoldsTheEnd`, `HungOnlyInWindow`, `InTimeStreamEnds`, `PollingEnds` |
| `JobStreamHang` | 1 turn | **violated**: `StreamEnds` |
| `JobStreamStale` | 2 turns | **violated**: `EndsWithItsTurn` |
| `WorkflowRuns` | 3 compiled shapes, 2 fan-outs of three queries, all five faults | `WithinBudget`, `BegunOnce`, `ArmsExclusive`, `SettledWhenReturned`, `LedgerExact`, `RunEnds` |
| `WorkflowAnswered` | 3 compiled shapes, no fault | **violated**: `AnsweredCompletes` |
| `OutboxDispatch` | 2 replicas, 3 rows (one undecodable), 2 faults, backoff 1, 2, 3 s | `PublishedOnce`, `ClaimsApart`, `PublishedIsFinal`, `EventuallyPublished` |
| `Services` | one service at a time; its parts are listed below | 14 properties |
| `DialogueFilters` | two turns, six capabilities | **violated**: `AnswerNarrowed` |
| `DialogueStale` | the same | **violated**: `TypedFiltersHonoured` |

`Services` holds one model for each service; they share no state, so the
initial state chooses the one that runs and the states are the sum (about
249,000) and not the product:

| service | bounds | shows |
|---|---|---|
| auth | 2 requests of any kind, 2 replicas starting, 2 offices of which the tenant has 1, all faults | `LoggedOutStaysOut`, `RestrictedKeyRestricts`, `OneDefaultKey` |
| audit | 4 events, queue and batch of 2, all faults | `AuditAccounted`, `AuditSettles` |
| llm | 3 retries, answers of 0 or 14 s | `CallIsBounded` |
| limit | 5 lookups, limit 2 | `WithinLookupLimit` |
| index | 4 catalogs (one invalid, one empty), 2 replicas, 2 edits, 3 syncs, all faults | `IndexFollowsFiles` |
| catalog | every catalog two edits away from seven capabilities, up to two facts | `ServedPlansOrAsks`, `PlannedRuns`, `PlannedStatementsRun` |
| dialogue | 2 turns, six capabilities, a stale index, full and partial scopes | `InconsistentOnlyOnMetric`, `RetrievedHonoursFilters` |

* `LoggedOutStaysOut`: no request that begins after an answered logout is let
  in, with a token from before or from a refresh that raced it; Redis may have
  missed the revocation, the session row has not.
* `RestrictedKeyRestricts`: a key limited to offices never opens another one,
  although an empty list means "all" to the projection.
* `OneDefaultKey`: whatever replicas start together do, there is one default key.
* `AuditAccounted`, `AuditSettles`: every event is in one place, in order, stored
  at most once, and ends stored or counted as lost; the timer flushes what never
  fills a batch.
* `CallIsBounded`: over both loops of a call, with any mix of fast and slow
  failures, it sleeps at most two budgets, and its last request begins before they
  have run out. One budget per call, which a comment in `provider.rs` promises, it
  does not keep (see the observations).
* `WithinLookupLimit`: the limit holds per window, and a window has no end only if
  the lookup that opened it was cut off between its two commands.
* `IndexFollowsFiles`: after a sync of the files as they are, the searches rank
  exactly their documents, unless an edit landed while a sync was under way.
* `ServedPlansOrAsks`: in a catalog that validates, whatever the user said, a
  parameter without a value is one the clarification planner asks for.
* `PlannedRuns`: what is planned compiles to a workflow that passes the verifier
  the runtime never calls, up to two gaps of the validator, which the property
  names: a declared cost above the runtime's budget, and a probe whose backing
  capability lost its approval.
* `PlannedStatementsRun`: at every node of such a workflow the request is built,
  no required value is missing, the binds are those of the placeholders in number
  and type, a user who is shown fewer rows than there are and than he asked for is
  told so, and a full result is never called truncated; except for a recipe filter
  mapped from an optional parameter, which the compiled node does not declare, and
  for a request beyond the hard cap, which is cut silently (see the observations).
* `InconsistentOnlyOnMetric`: the plan and the planner of questions read
  different facts; they disagree (`planning_inconsistent`) on a metric only.
* `RetrievedHonoursFilters`: no stage after the sufficiency gate answers with, or
  offers, a capability that cannot bind a filter the user typed; except for one
  that an extraction of an earlier turn hides (violation 6).

Why the bounds are enough to meet the interesting cases: three turns let the
closing steps of two earlier tasks overlap a third; two jobs of a session are the
least that contend for session memory, and `MaxRelevant = 2` lets the list be
truncated; a second turn of a stream comes once the forwarder of the first is
done, while its text, terminal event and live state are still to be written
(`JobStreamMC`); the theorems have no such bound; three queries with parallelism two make a batch, a rest and a sibling
to cancel; two replicas, one undecodable row and two good ones are the least for
a lost race and a blocked queue, and a backoff cap of 3 is not a power of two, as
in the code (300). The backoff and batch constants are smaller than in the code
(1 s to 300 s, batches of 50); nothing depends on their size. Two requests are
the least that race in `Auth`, and with a session of before the second may log
out what the first uses; queue and batch of 2 with 4 events overflow the queue
and leave a partial batch; four answers of 14 s pass the deadline and three do
not, so a loop ends by its deadline and by its attempts (3 retries are the
default of the code); 5 lookups pass the
limit twice over. Two edits are needed to break and repair, or to combine two
gaps. Two turns let an answer meet its question; the recovery after a third
attempt at one question needs four and is outside the bound. Runs whose clients
or faults are bounded may stop, so they set `CHECK_DEADLOCK FALSE`; the outbox
never stops and is checked for deadlock.

**Fairness.** tokio polls a spawned task until it ends, and every await in a task
ends (queries and providers have timeouts): weak fairness of the task, forwarder,
handler, node and dispatcher steps. Clients, faults and archiving are never
fair. The audit worker is a spawned loop: weak fairness of its receive, tick, end
and insert steps (`AuditFairness`). In `Outbox` the faults of a behaviour are
finite (`MaxFaults`) and time passes.

**Violations found** (quoted in `PROJECT.json`, `findings`):

1. *A resumed workflow is never run.* A reply that carries a workflow identity
   sets the job to `queued` and returns without spawning a task; nothing polls
   for queued jobs.
2. *A stream can hang.* The terminal event is published before `live_state` is
   set. A handler that subscribes after the former and looks before the latter
   waits for a message that has been sent. `HungOnlyInWindow` shows that this is
   the only window.
3. *Without Redis a second-turn stream ends early.* Polling starts at the first
   event of the job and stops at the first terminal one, which is the
   clarification of the first turn.
4. *An answered selection cannot be executed.* After several candidates the query
   stays bound to a slot that is filled only when there is exactly one.
5. *An optional filter is lost.* The plan holds the office the user named; the
   compiled node declares only required parameters, and the executor fills only
   declared ones. A report with an optional office runs for all of them and
   completes.
6. *A stale extraction opens the gate.* A message that extracts nothing leaves the
   extraction of an earlier turn (or of the source prompt) on record. Its value
   comes before the one the router read from this message and does not occur in
   the words, so a filter the user typed is not "expressed": a capability that
   cannot bind it passes the gate, and one that can is bound to the old value.

## 4. Proofs

TLC checks the instances of section 3; the theorems hold for every set of jobs,
rows, replicas, requests and turns, every bound and every set of faults. Each
component has one inductive invariant, stated before its proof, checked by TLC
where it can be evaluated, and preserved action by action; the properties of the
runs follow from it.

| theorem | states | proved for |
|---|---|---|
| `TypeCorrect`, `MemoryNeverLost`, `CompletedRemembered` | `TypeOK`, `NoLostMemory`, `CompletedJobsRemembered` of `ChatJob` | all jobs, turns, faults |
| `OneTask`, `LastTurnOutcome`, `CompletedForever` | `OneTaskPerJob`, `OutcomeIsOfLastTurn`, `CompletedIsFinal` | the same, without workflow pauses |
| `ImplementsConversation` | `ChatJob` implements the safety part of `Conversation` | the same, without workflow pauses |
| `StreamTypeCorrect`, `StreamFollowsLog`, `TerminalIsLast`, `EndIsDurable`, `OneWindow` | `TypeOK`, `SentInLogOrder`, `NothingAfterTerminal`, `LogHoldsTheEnd`, `HungOnlyInWindow` of `JobStream` | all turns, faults |
| `WorkflowTypeCorrect`, `NoNodeBegunTwice`, `LedgerIsExact` | `TypeOK`, `BegunOnce`, `LedgerExact` of `WorkflowRunner` | all well-formed workflows, faults |
| `RunSettles`, `CompletedForGood` | a returned run leaves nothing running but interrupts; completed rows never change | the same |
| `RunSettlesAll`, `OneArm`, `BudgetKept` | `SettledWhenReturned`, `ArmsExclusive`, `WithinBudget` | workflows with `AsksAlone`, `DecidesOnSource`, `AsksFree` |
| `ClaimsStayApart`, `OneEventPerRow`, `PublicationFinal`, `OutboxTypeCorrect` | `ClaimsApart`, `PublishedOnce`, `PublishedIsFinal`, `TypeOK` of `Outbox` | all rows, dispatchers, faults |
| `ClaimsByDueTime`, `BackoffExact` | the queue lists the unpublished rows once, by due time; the cut exponent changes no delay | the same; every attempt count |
| `AuthTypeCorrect`, `LoggedOutForGood`, `KeyRestricts`, `OneKey` | `AuthTypeOK`, `LoggedOutStaysOut`, `RestrictedKeyRestricts`, `OneDefaultKey` | all requests, replicas, offices, faults |
| `LookupsLimited`, `CallStaysBounded`, `AuditNothingUnaccounted` | `WithinLookupLimit`, `CallIsBounded`, `AuditAccounted`, each with its type invariant | all limits, retries, capacities, batch sizes |
| `IndexFollows` | `IndexTypeOK` and `IndexFollowsFiles` | all catalogs, replicas, edits, syncs |
| `FiltersHonoured`, `OnlyScopeRuns` | `RetrievedHonoursFilters`; only a capability of the scope runs | all catalogs, indexes, messages, answers of the models |
| `InconsistentForMetric` | `DialogueTypeOK` and `InconsistentOnlyOnMetric` | all validated catalogs that keep to the conventions, indexes, messages, turns, answers of the models |
| `ServedAsks` | `CatalogTypeOK` and `ServedPlansOrAsks` | all shipped files that keep to the conventions, all edits |
| `WithheldRowsTold` | `RowsTold`: fewer rows than asked for are told of unless the hard cap cut the request, the part of `PlannedStatementsRun` about rows | all capabilities, caps, limits asked for, rows available |
| `ServicesTypeCorrect`, `ServicesKeepPromises` | `ServicesTypeOK`; every invariant proved of one service, of all services together | all constants of the services |

The arguments:

* **ChatJob.** `MemoryInv`: as long as the revision a task has read is the current
  one, what it read (`base`) is what is stored; a pause changes the pending
  clarification without a new revision, which is why the invariant speaks of
  `savedBy` and not of the whole row. `TurnsInv` says which turn may work in each
  status (only the last one, only while the job is queued or has just failed),
  that earlier turns are closing or over, and what a task past its save has
  stored; without it the unguarded terminal writes could overwrite anything. It
  needs `~WorkflowPauses`: a paused workflow publishes `waiting_for_user_input`
  while its task still has everything to save, so a reply starts a second task.
  `SessionsInv` follows the compare-and-swap of the session memory through the
  read, the save and the terminal write, and keeps what a turn that was answered
  (not one that was declined) has put into it until the list is full.
* **Conversation.** `TurnsInv` is what makes each step of a task a step of the
  contract: a terminal write settles the message that is owed because its task is
  of the last turn, and a late failure of an earlier task meets a job without a
  working task or one whose message stays owed. `ConversationProofs` maps each
  action to `Accept`, `Conclude`, `Lose` or `RecordFailure`,
  or a stutter.
* **JobStream.** Every event of a turn has a rank (status, stage, delta, end).
  `Written` and `Published` bound the rank by where forwarder and pipeline stand;
  `LogInv` says that the log is ordered below the former, `LiveInv` that what was
  sent followed by what the subscription holds is ordered below the latter, and
  that all of it is in the log. `WindowInv` is the case analysis of the race: a
  live stream either looked between publication and live state, or its end is
  still coming, or waits in its channel.
* **WorkflowRunner.** `WorkflowIInv` ties the program counter of a node to the
  status of its row (`StepInv`) and says that the runner's copy lags behind the
  rows for the nodes of the batch only, none of which had been begun (`CopyInv`).
  `LedgerInv` counts the completed nodes but those still to add their share;
  `BudgetInv` says that the batch fits beside what is consumed and that nothing
  completed overran; `DecisionInv` that a branch recorded what its source
  returned. Sums over finite sets of nodes are handled by lemmas of their own.
  Three properties need the shape of the graph, so the theorems assume it:
  `AsksFree` (an interrupt declares no query; its row is completed by the answer,
  outside the budget), `DecidesOnSource` (a branch decides on the node before
  it), `AsksAlone` (while a question can be asked, nothing else can run).
  `WorkflowRunnerMC` has TLC evaluate the three for all the graphs of the runs
  (`ShapesAssumption`). Without `AsksAlone` the property is false: when two
  interrupts, or an interrupt and a query that fails, share a batch, an interrupt
  stays `running`; `RunSettles` is what holds of every graph. `PathInv` carries
  `AsksAlone` from the graph to the batches: a node of the path to a question is
  begun after those before it, and any other node after the answer or once the
  path was not taken.
* **Outbox.** The first three theorems need one invariant: columns typed, a held
  row is unpublished and held once, and a row has an event exactly when it is
  published. The order of the queue is proved apart (`QueueInv`), because its
  lemmas are about removing a row and inserting it by its due time. For
  `BackoffExact` the recursive function `Doubled` is first shown to exist, by a
  least counterexample on the naturals.
* **Auth.** `BootInv`: only the replica that inserted the account seeds a key, and
  there is none before. `LogoutInv`: a session whose tokens a client may hold has
  both its rows, a logged-out one is live no more, and a late request gets no
  further than the statement that looks its session up. `KeysInv`: a key row names
  an office or all of them, and a request that has read it acts within its scope.
* **Services.** `LimitInv` keeps one admission for the lookup that opened the
  window, because its decision comes a round trip after its INCR; without that
  reserve the limit would be exceeded by one. `RetryInv`: each loop
  ends its waits within a budget of its own, and the second begins at most one
  budget and one request after the first. `AuditInv`: what a place (stored,
  inserting, batch, channel) holds is older than what the next ones hold.
  `IndexInv`: start times tell transactions apart, and unless an edit raced them
  the syncs under way write what the files hold and began after every other
  version, so that whichever commits last, the version of the files stays the
  newest; this holds while syncs are under way too.
* **Dialogue.** One lemma per way a turn can end. What is retrieved passes the
  sufficiency gate, the reranker only picks or offers among what is left, and
  every way to a run passes `guard_selected_capability`, an id a model invented
  included. `FiltersHonoured` allows one thing: a filter with an earlier value on
  record, while the message extracts nothing (violation 6). That every other typed
  filter reaches the gate is a lemma (`SeesTypedFilters`). `AskInv` is the invariant
  of `InconsistentForMetric`: at most one payload is pending, its attempts stay
  within the turns, the extraction on record names no entity as a constraint, and
  no step turns an entity of the intent into one. So the plan, which reads extraction and
  entities, misses nothing that the clarification planner, which reads
  constraints, takes for given; the reverse is harmless, because it asks again.
* **The served catalog.** `CatalogInv`: every edit leaves lists of lists and keeps
  the conventions, and what is served passed `validate`. For a capability of such
  a catalog either every required parameter of its query is in the request, or
  the first one that is not has an input the planner asks for. Two conventions are
  hypotheses, because `validate` does not check them: the inputs that
  `input_satisfied` knows by their id are what their id says
  (`InputsByConvention`), and, for `InconsistentForMetric`, a recipe filters by
  exact identifiers or required parameters only (`FiltersByRequired`; an absent
  optional one fails the plan and is never asked for). The shipped files keep to
  both.
* **The rows shown.** A statement fetches one row more than its cap; the proof
  has a case for no limit parameter, a planned limit within the cap, and one that
  is absent or beyond it. It is about the rows that were asked for: that of a
  request beyond the hard cap is cut silently is excepted.
* **The services together.** A step of the composition is a step of one service
  and a stutter of the others, and it starts as each of them does, so each
  theorem carries over; a process that serves no catalog has none
  (`CatalogOrNone`). The type invariants add what bounds the counters:
  `WithinCounted` (a lookup increments at most once, so the counter never passes
  the number of lookups) and `IndexBounded` (the clock and the syncs that have
  not begun their transaction together stay within `MaxSyncs`).

The assumptions on constants (`ChatJobAssumption`, `JobStreamAssumption`,
`WorkflowRunnerAssumption`, `RowsAssumption`, `BoundsAssumption`,
`AuthAssumption`, `LookupAssumption`, `LlmAssumption`, `AuditAssumption`,
`IndexAssumption`, `EditsBound`, `TurnsBound`, `RowsBound`) say that bounds are
numbers, that capacities and limits are not zero, that replicas and lookups are
finitely many and that workflows are well formed. `ShippedFiles` says that the
inputs a process starts from keep to their convention, `CatalogServed` that the
catalog of a dialogue is validated and keeps to both. TLC evaluates all of them in
the runs.

Only model-checked:

* Every liveness property (`QueuedSettles`, the fairness of `KeepsPromise`,
  `InTimeStreamEnds`, `PollingEnds`, `RunEnds`, `EventuallyPublished`,
  `AuditSettles`): fairness and `ENABLED` are beyond the prover.
* `PlannedRuns` and `PlannedStatementsRun`: the compiled workflow and the text of
  the statement are built by folding and flattening the lists of a capability, so
  what they hold for every catalog needs induction over data. Nor do they hold of
  every catalog that `validate` accepts: two probes of one capability make two
  entry nodes, a list of resolutions may name one the executor does not know, and
  a transient parameter no recipe uses is bound without a placeholder. TLC checks
  them for the catalogs the edits of the run reach, none of which has these; the
  rows shown are proved (`WithheldRowsTold`).

## 5. Observations without a run

Seen while modelling; each is in the source, none is a checked claim.

*Jobs, workflows, streams*

* `budget_consumed` is wiped by a pause and by a resume (`workflow/state.rs`);
  the runner recomputes its totals from the node rows, so the budget still holds.
* The `workflow_field_dropped` event kind is not in the CHECK constraint of
  `chat_job_events`.
* A second interrupt of one batch stays `running` for good.
* A node with several incoming edges starts when one of them is satisfied
  (`workflow/run.rs:489`). No capability compiles to a join of that kind: the
  planner that may propose one is not called.
* The event log is read by `created_at`, the start of the transaction that
  inserted the event: the status event of a slow reply may sort before events that
  are already sent, and a polling stream, which counts what it has sent, then sends
  one event twice and skips the other.
* `durable_poll_stream` takes an absent job for an empty log, and `get_for_user`
  finds no job of an archived session: a stream that polls one is kept alive for
  good, although its terminal event is stored (`handlers/job.rs:62`, against "never
  left waiting forever" in `run.rs:14`). `PollingEnds` is stated without archiving.
* `execution_summary.timed_out` is overwritten by the graph result.
* `GuardedDataTools` reports every error of the executor, a timeout too, as an
  exhausted query budget.

*Catalog, compiler, statements*

* `verify()` (V1 to V12) is called by tests and the unwired planning agent, not
  before a compiled workflow is executed.
* The validator accepts a required parameter with an empty list of bindings, a
  recipe filter mapped from an optional parameter, an input named "search" for
  another parameter, a `max_limit` above the runtime's 1000 rows, and a probe
  whose backing capability is not approved. The first two leave a report that
  cannot be planned or executed, the last fails to compile.
* A legacy capability without policies compiles to a workflow `verify` refuses
  (V11); two parameters that need a question or a probe would give two entry
  nodes; `client_relationship_by_id` probes for a client it already knows.
* `compose_dataset_binds` asks for the sensitive identifier for every shape of a
  dataset with an exact slot, selected or not; an `in` filter on a date, a
  decimal or a boolean validates and cannot be bound; binds skip parameters of
  transient inputs while placeholders count them.
* `clamp_hard_caps` (`tool/parameters.rs:102`) lowers the requested limit before
  execution, so `truncation_limit` sees a request within the cap and reports
  `truncated = false`, although `job/repository/mod.rs:45` says "True when the
  result was clamped by `hard_cap` / `global_max_rows`". A text may ask for up to
  100 rows; `client_random_sample` and `savings_overview` show 50 of them. `RowsTold`
  excepts such a request. Rows cut by the global cap are told of.
* A probe's node declares only `office_ids`, so a backing capability with a
  mapped filter would always fail.

*Dialogue*

* A client chosen from a list (`select_entity`) is executed as if its id were a
  capability (`runtime/mod.rs:225-247`); the user is asked for a report again.
* The continuation branch of `run_with_router` cannot be reached by a payload of
  the clarification planner, so a structured text answer is dropped and asked for
  again, against the comment in `clarification_response.rs`.
* A structured reply that selects an option of a `select_entity` payload is
  refused by validation. The option id a model chooses is not checked against the
  payload; the policy guard catches it.
* `execution.rs` takes the intent's reason for the prompt of a snapshot, so dates
  and limits of the first turn can be lost; it raises the attempt counter without
  a cap.
* A failed retrieval is answered as "unsupported".
* An error in the dates of an earlier message stays on record like its facts: a
  structured answer without text may be asked for its dates again.

*Services*

* An API-key lookup that fails is treated like an absent key by the chat
  extractor; a crash between the administrator's insert and its default key
  leaves no key, for good.
* A timeout of the provider is not retried, although `classify_status` knows
  timeouts.
* `RETRY_BUDGET` is the "Ceiling for all waiting inside one call" to a comment
  (`provider.rs:24`), but each of the two loops of a structured call sets its own
  deadline: with 6 or more retries allowed, failures on both sides of a 400 sleep
  longer than 45 s. With the default of 3 they sleep under 9 s. `Retry-After` is
  never set, and `embed()` has no loop of its own.
* A sync that is slower than an edit leaves an index older than the files;
  `sync()` lacks the guard against an empty catalog that `sync_if_stale` has; a
  rebuild of the index does not reload the catalog in memory.

## 6. Not modelled

* Text: prompts, wording, rendering of results, the patterns of deterministic
  extraction (tokens, dates, amounts). A message is what can be read from it.
* LLM providers, embeddings, Redis and Fineract itself: external; a call
  succeeds, fails or is slow.
* `context/canonical_state` beyond the revision check of its repository in
  `ChatJob`: its reducers are called by tests only.
* The classifier and the legacy intent rules behind the router: one free choice
  of `Route` in `ChatJob` and of the routed intents in `Dialogue`.
* Presentation builders, dashboards, DTOs and JSON handlers: read-only.
* Configuration, pools and start-up beyond bootstrap and the catalog: no state
  afterwards.
* Masking of fields and the text of SQL: no state, and no decision depends on
  them after validation.

## 7. Plan

The modelling order of the project was jobs, streams, workflows, outbox; then
accounts, audit, model calls and limits; index and catalog; planning, compiler
and statements; retrieval and dialogue; the contract of a job. What is left:

1. Proofs: that what `Compile` builds for a capability with one unresolved
   parameter has the three shapes of `WorkflowGraphs`, with `AsksAlone`,
   `AsksFree` and `DecidesOnSource`; what is within reach of
   `PlannedStatementsRun` besides its rows, check by check of `validate`.
2. Four turns of `Dialogue`, for the recovery after the third attempt at one
   question.
3. The merge of job and session memory (`assistant_memory.rs`) as data, and the
   expansion of iterations and comparisons in the compiler once a proposal names
   nodes.
