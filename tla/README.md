# A verification project for ai-codegen

TLA+ models of the pipeline that takes a task description to a merge request,
TLC configurations that check them, and theorems about them that TLAPS proves.
Paths are relative to the repository's root.

## 1. The system

| Component | State it keeps | Operations | What makes it correct |
|---|---|---|---|
| Pipeline tables (`src/pipeline/routes.py`) | none | route, registry, gate rule, rollback target of a work type | every rollback target is on the route; every gate rule sees the risk level it needs |
| Database (`src/db.py`, `alembic/versions`) | `pipeline_runs`, `pipeline_steps`, `checkpoints`, `artifacts`, `step_logs`, repositories, presets, prompts, settings, users | one statement per method; no transaction spans two of them | the invariants of the services that share it |
| Web API (`src/api/*.py`, `src/main.py`) | none between requests | file, cancel, delete and restart a run; approve and reject a checkpoint; repositories, presets, prompts, settings; the log stream | a handler that has read a row decides on what is still true; a signal is not lost |
| Orchestrator (`orchestrator/src/main.py`) | dict of active runs, pending futures, one `process_run` task per walked run | recovery, poll loop, result consumer, the walk | one walker per run; gates; bounded rollbacks; answers of the right job; every walk ends; recovery |
| Broker (`src/shared/rabbitmq.py`) | durable job and result queues, a cancel fanout | publish, deliver, acknowledge, redeliver, reject | at-least-once delivery of jobs |
| Worker (`worker/src/main.py`, `heartbeat.py`) | the job it holds, the agent process | `on_job`, `on_cancel`, heartbeat rows | one job at a time; every job answered |
| Stage executor (`worker/src/executor.py`, `src/pipeline/artifacts.py`, `git.py`, `src/shared/minio_client.py`) | clone of a run on a shared volume, `.factory/`, objects in MinIO, the pushed branch | clone, download inputs, run agent, commit, push, upload, record, clean up | a stage reads the artifacts of the current walk; nothing is released before its gate |
| Agent runner (`src/pipeline/agent.py`) | registry of processes by run | prompt, run, parse verdict, kill | a timeout or a kill ends the stage with a failure |
| Credentials (`src/shared/credentials.py`, `token_refresh.py`, `src/api/settings.py`) | settings rows, files in the home directory | restore, refresh, log in and out | a refresh does not overwrite newer credentials |
| Agent configuration (`src/presets.py`, `src/config.py`, `agents.yaml`, prompts) | presets, prompts, the snapshot in a run | merge of base, preset and prompt | a run keeps the configuration it was filed with |
| Pages, authentication, GitLab client, migrations | markup, a signed cookie, HTTP, schema | | outside this project |

The services do not call each other. The API writes `orchestrator_action` into
the row of a run (`start`, `resume`, `cancel`); the orchestrator polls for it
every two seconds, clears it and acts. A walker task takes one stage after the
other: it publishes a job, waits up to an hour for the result with the job's id,
and either goes back (a failed verdict), parks the run at a human gate, or goes
on. After a gate a *new* task continues from `current_step_idx`. All these
steps are separate statements: between any two of them a user, the poll loop,
a worker or a crash can come in.

What is hard, and where it bites, is listed line by line under `hazards` in
`PROJECT.json`: statuses and counters used after they were read, a single-slot
action column, the dict of active runs against the done callback, results of
earlier walks, recovery after a crash at any await, jobs that outlive their
walker, a clone shared by workers, checkpoints that stay open.

## 2. Modules

| Module | Contents |
|---|---|
| `PipelineRoutes` | the tables of `routes.py` and the verdicts `parse_verdict` can return |
| `RunControl` | rows, API handlers, poll loop, walkers, broker, workers; its properties |
| `PipelineWalk` | the abstract specification of a walk |
| `RunControlWalk` | the refinement mapping: `FollowsRoute` says that `RunControl` implements `PipelineWalk` |
| `RunControlClaims` | what documents and comments say of runs and the code does not do |
| `RunControlInvariant` | the inductive invariant `IInv` |
| `RunControlProofs` | preservation of `IInv`; the theorems on `RunControl` that need no more |
| `RunControlWalkProofs` | the refinement, proved |
| `RunControlGates` | the invariants of the gates, of what stages cost, and of what is marked running |
| `RunControlGatesProofs` | their preservation, and the properties that follow |
| `StageExecutor` | one run's stages on the shared clone, `.factory`, MinIO, the rows and the pushed branch |
| `StageExecutorClaims` | a comment of `executor.py` the code does not keep to |
| `StageExecutorInvariant`, `StageExecutorProofs` | its inductive invariant; the theorems |
| `JobDelivery` | a worker process between the broker and its agents, the cancel broadcast, heartbeats |
| `LogStream` | log rows, notifications and the event stream of a page |
| `Credentials` | logins, refreshes and restores of the agents' credentials; the two rows of GitLab |
| `AgentConfig` | the merge of `agents.yaml`, a preset and its snapshot in a run |
| `RepoAdmin` | connecting and disconnecting repositories, editing presets and filing runs at once |
| `RepoAdminProofs` | the theorems on `AgentConfig` and `RepoAdmin` |
| `CredentialsProofs`, `LogStreamProofs`, `JobDeliveryProofs` | inductive invariant and theorems of these modules |
| `MC...` | instances for TLC |

`RunControl` has the whole of a run's life in the orchestrator; the modules after
it look at one place more closely and keep of the others only what that place
sees. `StageExecutor` has a walker that follows the same routes with reviewers
who approve everything; `JobDelivery` has jobs that are just published;
`RepoAdmin` and `LogStream` have runs that are active or not. Definitions named
`Mutant...` are single-definition bugs that show that a property can fail; they
are used by no specification.

### RunControl and the code

A step of the model is what the code does between two awaits: at most one
statement of the database or one message, with the local decision before it.

* *Rows.* `status`, `action`, `stepIdx`, `rollbacks`, `risk` are the columns of
  `pipeline_runs`; `attempts[r][i]` is the latest `attempt` of the step rows of
  stage `i`; `checkpoints` is the table, with the stage instead of the agent's
  name. `Set` is `update_run`: it changes nothing when the row is gone. A foreign
  key refuses a step or a checkpoint of a deleted run, which ends the walker.
* *API.* A handler is cut after its reads (`Ask...`) and after each write; `request`
  says what it still has to write. `WebCrash` loses the rest. Filing a run stands
  for `POST /runs`, `/transform` and `/devops`, which insert and signal alike; the
  INSERT and the UPDATE of the work branch are one step, as nothing reads the
  branch before the signal.
* *Poll loop.* `Boot` and `RecoverRun` are the recovery; `FetchActions`,
  `ClearAction` and one of `StartRun`, `ResumeRun`, `DropAction`, `CancelRun` are
  an iteration. What was fetched is acted on even if the row says something else
  by then. `LoopError` is the `except`, which forgets the rest of the rows; the UPDATE of a
  resume may have taken effect when it comes.
* *Walker.* A frame's `pc` names the await it stands at: `Begin`, `Claim`, `Top`,
  `CreateStep`, `Publish`, `Register`, the wait, `RecordRisk` and `Reread`, then one
  of `RollBack`, `GiveUp`, `OpenCheckpoint`/`Park`, `Advance`; past the route `OpenMR`
  and `Complete`. `seen` is the local variable `run`. `DoneCallback` is a step of its
  own, as in asyncio. Locals that will be read again before any use are reset,
  which changes no behaviour.
* *Broker and workers.* FIFO queues; a worker that dies before the acknowledgement
  puts its job back at the head, with or without having answered; an exception
  in `on_job` rejects the job. `Expire` may come whether or not an answer is on
  its way.

Abstractions: a job is its id, run and stage; a result its job, whether the stage
succeeded, and the verdict. The status of a result is kept although the walker
ignores it, because a claim is about it. The verdicts an agent can have are those
`parse_verdict` reads out of the artifacts when they keep to the vocabulary of
the prompts; `verdict.upper()` is not represented. Whether a merge request is
opened (changes, branch, GitLab) is nondeterministic.

Assumptions: a cancelled task has ended before the next poll (two seconds
later); a repository is not removed while it has a run, as its foreign key has
no cascade, so the branch "repo not found" is only reached for a run that is
gone as well, where its update changes nothing; cancelling a stage in a worker
is one way of its outcome being a failure.

### Constants and bounds

`Budget[op]` bounds how often each of `BudgetOps` happens: the user operations
that could go on for ever (cancel/delete, restart), answers that come too late,
and each fault. Filing and deciding a checkpoint need no bound: ids are finite
and a checkpoint is decided while pending. `Tasks` bounds the tasks alive at one
time; the theorems hold for any number. Lost jobs time out without a budget.
One of each fault is enough for the cases the hazards name, each of which is a
single crash, cancel or restart at a bad moment; two walks of a run (hence two
generations of jobs) arise from one restart or crash.

### StageExecutor and the code

A frame is a call of `execute`, and its `pc` the await it stands at: `clone`,
`checkout`, `prepare` (the downloads and what is in `.factory` before the agent),
`source` and `import` of a transformation, `agent` (with `parse_verdict` behind it),
`commit`, `push`, `upload`, `record`, `cleanup`, `report`, `answer` or `fail`. The MinIO client
is synchronous, so a download or an upload of all files is one step.

* *Data.* The version of a file is the number of the agent execution that wrote
  it, and code is the set of executions whose changes it contains; `by` and
  `passes` say of each execution whose it was and whether it wrote a passing
  verdict. So a verdict, an object or a branch can be traced to the code it was
  made for.
* *Clone.* `head` is where HEAD is: no directory, one without a usable
  repository (a clone killed after its 120 s, or a copied source), the base branch or
  the work branch. `own` is a history begun by the import of the source, which
  removes `.git`; `dirty` is what is not committed; `locked` an `index.lock` a
  dying worker left, with which `git add` and `git commit` fail unnoticed. `code` is what
  `target_files` counts: the working tree has more than a README, `.git` and `.factory`. An agent
  may change code or only write its artifacts.
* *An earlier run.* `git add -A` commits `.factory` with the code, so the base branch of a
  repository can bring the files of an earlier run that was merged: `base` is that branch, and
  `Bases` what an instance lets it hold. `EarlierPass` is a passing verdict of such a run,
  `Earlier` any other file of it. A checkout changes the files in which the branches differ (`Switched`).
* *Answer.* `Report` stores the step, `Answer` publishes the result and acknowledges the job, and
  `DieAnswered` is a worker that dies between the two: an answered job is delivered again. The worker
  does nothing between publishing and acknowledging, and a job may stay in the queue as long as
  it likes, so this is one step.
* *Statements.* `DbFails` is a statement that raises where `execute` logs, records or reports:
  the stage fails where it is, what it has done stays. So does a warning of a failed source
  clone that cannot be logged, which leaves the source directory and no warning.
* *Shared by all workers*: `clone`, `factory`, `source` (the volume), `remote`,
  `minio`, `rows`. Two frames of one run are at work when a connection was lost
  (redelivery), a walk was abandoned or a worker crashed.
* *History*: `by`, `passes`, `completed`, `warned`.
* *One at a time*: `OneAtATime` says that no job is executed twice at once: none was
  delivered again while it executed, and no walk was begun beside the job of one
  that was abandoned. Crashes do not break it, since the dead worker executes
  nothing any more. `FilesAssumption` says that an instance tells the verdict files apart.

Left out: the upload of the diff, and the functions of `git.py` and `artifacts.py`
that only tests call; and an agent that runs on, unregistered, after an exception of `on_output`, and
goes on writing to the clone beside the next stage (`JobDelivery` has that agent; what is
stated of the clone takes agents to have ended).

### JobDelivery and the code

`frame[w][k]` are the `on_job` coroutines of a process; prefetch 1 allows one,
and each lost connection one more, since the robust connection consumes again
while the first coroutine goes on. They share `cur` (`executor._current_run_id`),
`registry` (`_running_processes`) and `beat` (the `Heartbeat` object), as the code
does. `PublishCancel` puts the run into the exclusive queue of each worker, and
`OnCancel` looks at `cur` and then at `registry`. A crash empties the process and
its exclusive queue, and requeues its message. `OutputFails` is an exception while the agent's
output is read or logged: the `finally` of `run_agent` unregisters the process and nothing
terminates it, so that it runs on (`astray`). `StopBeat` deletes the row of the heartbeat or, when the
DELETE fails, forgets it all the same; `unswept` is history and has such rows. `doomed` and `alone`
are history, too: the agent was running when its run was cancelled, and no other coroutine was there.

### LogStream and the code

`append_step_log` takes its id when the insert begins and shows its row when it
commits; the notification follows as a statement of its own. The generator's
`pc` is the await it stands at: `connect`, `fetch`, `status`, `flush`, `wait`.
`heard` is `notify_event`, which it clears when it goes to wait; if LISTEN
failed it only polls. `upto` is history: how many rows had committed when the
status was read.

### Credentials and the code

A token is known by the login it goes back to and the number of refreshes since.
The OAuth server is external and modelled as the code has to expect it: one
generation of a login is accepted, and a refresh makes it the next. `on_job`
restores the file if it differs from the setting, looks at the expiry, posts,
stores, and starts its agent, each a step. `raced` is history: a login or logout
was stored while a refresh was in flight. `StoreFails` is `set_setting` raising: the error is logged
and the token is lost.

The address and the token of GitLab are two rows, stored in the order of the form
(`settings.html`) and known by the number of the PUT that supplied them. `puts` are the
requests in flight: the page does not disable its form and the server serves requests side by
side, so any number of them interleave between the rows, and `crossed` remembers that two
did. Three things join a token with an address: the client of the web process (replaced at
the end of a PUT, built from the rows when the process starts), the orchestrator when it starts
and when it opens a merge request (token first, then address), and a walk, which puts the
newest token into the clone URL its repository was connected with. `repo` is such a repository,
with the client that supplied its URL.

### AgentConfig, RepoAdmin and the code

`AgentConfig` has `build_preset_snapshot`, `resolve_agent_config` and
`resolve_from_snapshot` as functions over arbitrary dictionaries. In `RepoAdmin` a
request is a record with its local variables, cut at each await: connecting looks,
asks GitLab, and inserts; filing reads the repository, the preset, and inserts;
disconnecting lists the runs, deletes them one by one, clears the sources, and deletes
the repository. Keys of the migrations refuse a statement, which ends the
request there: unique project, references to repository and source, and
`ON DELETE SET NULL` for a preset. A request that is never continued stands for a
web process that died. `read` in a run is history: the overrides of the preset
that were read when it was filed. A stopped run is active again when a user restarts it (`Restart`),
or without that (`GoOn`): a checkpoint that was left pending is approved and its walk resumed
(`checkpoints.py:17-22`, `orchestrator/src/main.py:298-299`), or a walker overwrites the
status of a cancelled run (`main.py:66`, `178`). `again` in a request is history: the runs it has still
to delete that became active again after it listed them.

Left out: sync and context (columns nothing here reads), names, prompts (they are
read at each job and are not in the snapshot).

### Bounds of these modules

Mishaps have budgets as in `RunControl`, with a bound on their sum where many
kinds are tried: `Executor` any two of fourteen, `Delivery` any two of six, `Repos`
any three edits, disconnects or reactivations. Two are what it takes to get two executions of a
run and then something that goes wrong between them; each single hazard is a pair
at most. In `Executor` a second delivery is the only mishap of its behaviour (`RedeliveryAlone`), as
all properties but types are stated of behaviours without it; `Bases` gives a bugfix a base branch without
files of an earlier run, with a passing verdict, or with a failed one beside a passing one of
`test_contract`, and a transformation an empty target. `LogStream` has two writers, since one writer's rows commit in order; and
three rows, the least with one before, one between and one behind the cursor.
`Credentials` has two logins (one to be replaced), two workers (one to be late), and three PUTs, the
least with one before, one that is cut short and one after. Its two halves share no variable and no
invariant speaks of both, so TLC moves one of them at a time (`OneHalf`).

## 3. Runs

| Run | Instance | Distinct states, time (2 workers) | Shows |
|---|---|---|---|
| `Recovery` | bugfix, a restart and an orchestrator crash, failing and passing checks | 1.5 M, 85 s | `AnswerMatchesStage`, `NoOrphanRun`, `RollbackBudget`, `IInv`, `RunningInv` |
| `Mishaps` | refactor, two workers, one each of cancel, worker crash, rejected job, walker error, loop error, web crash, late answer | 0.8 M, 50 s | `TypeOK`, `OneWalkerPerRun` |
| `Gates` | feature route (four gates, one by risk), cancel, worker crash, rejected job | 0.3 M, 70 s | `GatesHold`, `ReleasesApproved`, `AttemptsBounded`, `GateInv`, `CostInv`, `FollowsRoute` |
| `WalksEnd` | refactor with rollbacks, worker crash and lost job, fair | 20 k, 15 s | `WalksEnd`, `NewRunsAreTakenUp` |
| `Executor` | a bugfix on three base branches and a transformation, two workers, any two of fourteen mishaps | 0.9 M, 60 s | `WorkIsKept`, `VerdictIsOfThisCode`, `SourceIsImported`, `RowsBacked` |
| `Delivery` | jobs of two runs, two workers, any two of cancel, crash, lost connection, exception, failing output, failing DELETE; fair | 0.4 M, 160 s | `JobsAccounted`, `CancelReachesAgents`, `BeatsStandForJobs`, `JobsAreAnswered` |
| `Stream` | two writers, three rows, one page, two ends, a restart, a deletion; fair | 0.1 M, 27 s | `DoneIsComplete`, `RowsArrive`, `StreamsEnd` |
| `Credentials` | two workers, two logins, a logout, an expiry, a lost answer, a failing store, a crash; three PUTs at once, a failing write and a web crash | 40 k, 4 s | `StoredTokenUsable`, `LoginReachesJobs`, `TokenGoesWithItsUrl`, `WalkTokenIsFresh` |
| `Repos` | two users, projects, repositories, presets and runs; two edits, a disconnect and a reactivation | 2.6 M, 150 s | `RunsHaveTheirRepos`, `OneRepoPerProject`, `ActiveRunsSurvive`, `DisconnectCompletes`, `RunsAsResolved` |
| `SafetyReview` | devops, a restart; violation | | a run parked after its safety review is resumed by an approval of another gate (`routes.py:87`) |
| `ResumeLost` | refactor, no fault, fair; violation | | an approval is dropped while the walker is still in the dict (`orchestrator/src/main.py:3`) |
| `StaleInputs` | bugfix, one failed check; violation | | after a failed check the rewritten `patch-summary.md` is not uploaded, and `test_contract` reads the old one (`executor.py:64`) |

The passing runs of one module also check its `TypeOK`. `CHECK_DEADLOCK` is off in
`Executor`, `StaleInputs`, `Stream`, `Delivery` and `Repos`: a run that is walked to its
end, a page that is closed, jobs that are answered and ids that are used up are
where these systems stop. It is on elsewhere: the poll loop and the readers of
the settings never stop.

### Documented behaviour the code does not have, without a run

Each is visible in the model and was found by TLC while it was written, but is a
matter of one or two lines:

* `README.md:7` has a run fail with a stage; `process_run` (line 155) does not look
  at the status of a result, and walks on without a verdict.
* `README.md:7` also has a stage see only the artifacts granted to it; `.factory/` is
  shared by all stages.
* `README.md:33` restarts at the failed stage; `restart_run` (`runs.py:320`) begins at
  stage 0.
* `runs.py:304` restarts failed, cancelled and rejected runs; the guard (line 307)
  lets parked and completed ones through.
* `tests/test_orchestrator.py:61` has a cancelled run stay cancelled; `process_run`
  (line 178) overwrites the status.
* `agents.yaml:128` sets `max_concurrent_runs`; nothing reads it.

### What holds only in part

Found by TLC while the bounds were chosen:

* `GatesHold` and `ReleasesApproved` hold with one reviewer and each single fault but two: with a
  restart or an orchestrator crash a checkpoint that stayed pending can be
  approved for a later walk, and with two reviewers an approval can follow a
  rejection. `AttemptsBounded` likewise needs no restart, crash or second reviewer.
* `NoOrphanRun` does not hold with a cancel (the claim of a walker overwrites it,
  then the walker is killed), nor with an exception in a walker, nor with one of the poll loop after the
  UPDATE of a resume (`main.py:299`): the run stays `running`, and the API refuses to restart it.
  The run `Recovery` has none of the three.
* `AttemptsBounded` counts the step rows a walker opens; a job that is delivered again is
  executed again without a new one.
* `NewRunsAreTakenUp` is checked without restarts, cancels and errors of the loop: it is about the
  simple take-up of a filed run.
* No invariant says that stages of one run do not overlap: a job that was published
  outlives a cancel, a late answer or a crash, and meets the next walk.
  It does not hold with an error of the loop after the action was cleared, nor with a crash there.
* `WorkIsKept` excepts a worker that dies while git holds its lock, and two executions of
  a run at once. `VerdictIsOfThisCode` is of a first walk, and excepts by name the pass an earlier run left in the
  base branch: `.factory` is committed and merged, and a verification that writes no verdict
  passes on the old file. For `test_contract` it does
  not hold at all: after a rollback from `verification` its own old file lets it
  pass. `SourceIsImported` needs that no worker dies between clone and import, that the
  warning can be logged (no failing statement), and one execution at a time.
* `RowsBacked` needs one execution at a time, too. Without that it holds for any two
  mishaps, and the attempt to prove it led to a counterexample with four (two restarts,
  a failed checkout, a redelivery): a job that outlives the clone it was begun in takes
  what the next clone has of a file for its own work, and uploads it over the newer
  object a row already links to.
* `StoredTokenUsable` and `LoginReachesJobs` except a login or logout during a refresh;
  the former also lost answers, answers that cannot be stored, and dying workers. No code repairs these.
* `TokenGoesWithItsUrl` and `WalkTokenIsFresh` except PUTs that cross: the first stores its address and the
  second both rows before the first stores its token, and the token of one is used with the address
  of the other. A walk joins the newest token with the address in its repository's clone URL
  (`orchestrator/src/main.py:74`), however old that is, so that what holds of it is only that the token
  is no older than the URL (`WalkTokenIsFresh`).
* `CancelReachesAgents` is of a coroutine that was alone in its process, and of an agent that was
  running and registered: a cancel while the stage is prepared is missed, and so is one of an agent whose
  `on_output` raised. `BeatsStandForJobs` needs an unbroken connection, and excepts the rows
  whose DELETE failed.
* `DoneIsComplete` and `RowsArrive` except rows overtaken by a larger id, and deleted runs,
  whose page is never told.
* `ActiveRunsSurvive` excepts runs that stopped and became active again after the disconnect looked, `DisconnectCompletes` those
  filed after it listed the runs.

### Fairness

* `RunControl`: weak fairness of each handler in flight, of the poll loop, of each
  walker, of its timeout, of each worker and of the result consumer. Coroutines
  that are ready are run by the event loop, `wait_for` has a timeout of an hour,
  the poll loop sleeps two seconds and catches every exception, and `run_agent`
  ends an agent by its own timeout.
* `LogStream`: of each generator. The event loop runs it, and `wait_for` ends each
  wait after five seconds. Writers get none.
* `JobDelivery`: of deliveries and of each coroutine. It includes that an agent that
  was terminated, or has closed its output, exits: `process.wait()` has no timeout
  (`agent.py:324`), so this is an assumption on the agent, not on the code.

No user is assumed to do anything, and no fault is assumed to happen or not to
happen.

## 4. Proofs

| Module | Theorem | States |
|---|---|---|
| `RunControlProofs` | `InvHolds` | `Spec => []IInv` |
| | `TypeCorrect` | `Spec => []TypeOK` |
| | `OneWalker` | `Spec => []OneWalkerPerRun` |
| | `AnswersMatch` | `Spec => []AnswerMatchesStage` |
| | `RollbacksBounded` | `Spec => []RollbackBudget` |
| `RunControlWalkProofs` | `WalksFollowRoute` | `Spec => FollowsRoute`: `RunControl` implements `PipelineWalk` |
| `RunControlGatesProofs` | `GateInvariant` | `Spec => []GateInv`; of this and the next four: one reviewer, no restart, no orchestrator crash |
| | `GatesAreHeld` | `Spec => []GatesHold` |
| | `ReleasesAreApproved` | `Spec => []ReleasesApproved` |
| | `CostInvariant` | `Spec => []CostInv` |
| | `AttemptsAreBounded` | `Spec => []AttemptsBounded`; no more cancels and walker errors than `MAX_ROLLBACKS` |
| | `RunningInvariant` | `Spec => []RunningInv`; no cancel, no walker error, no loop error |
| | `NoRunIsOrphaned` | `Spec => []NoOrphanRun`; no cancel, no walker error, no loop error |
| `StageExecutorProofs` | `ExecutorInvariant` | `Spec => []IInv` |
| | `TypesHold` | `Spec => []TypeOK` |
| | `WorkKept` | `Spec => []WorkIsKept` |
| | `VerdictOfThisCode` | `Spec => []VerdictIsOfThisCode` |
| | `SourceImported` | `Spec => []SourceIsImported` |
| | `RowsAreBacked` | `Spec => []RowsBacked` |
| `JobDeliveryProofs` | `DeliveryInvariant` | the inductive invariant |
| | `DeliveryTypes` | `Spec => []TypeOK` |
| | `NoJobLost` | `Spec => []JobsAccounted` |
| | `CancelFindsAgents` | `Spec => []CancelReachesAgents` |
| | `NoBeatOutlives` | `Spec => []BeatsStandForJobs` |
| `LogStreamProofs` | `StreamInvariant` | the inductive invariant |
| | `StreamTypes` | `Spec => []TypeOK` |
| | `DoneComplete` | `Spec => []DoneIsComplete` |
| `CredentialsProofs` | `CredentialsInvariant` | the inductive invariant |
| | `CredentialsTyped` | `Spec => []TypeOK` |
| | `StoredUsable` | `Spec => []StoredTokenUsable` |
| | `LoginReaches` | `Spec => []LoginReachesJobs` |
| | `TokensGoWithUrls` | `Spec => []TokenGoesWithItsUrl` |
| | `WalkTokensAreFresh` | `Spec => []WalkTokenIsFresh` |
| `RepoAdminProofs` | `SnapshotResolves` | resolving from a snapshot is resolving from the preset |
| | `RepoInvariant` | `Spec => []IInv` |
| | `RepoTypes` | `Spec => []TypeOK` |
| | `ReposOfRuns` | `Spec => []RunsHaveTheirRepos` |
| | `OnePerProject` | `Spec => []OneRepoPerProject` |
| | `ActiveSurvive` | `Spec => []ActiveRunsSurvive` |
| | `DisconnectsComplete` | `Spec => []DisconnectCompletes` |
| | `RunsConfigured` | `Spec => []RunsAsResolved` |

### RunControl

For any sets of runs, users, tasks and workers, any work types and any budget.
The theorems rest on the named assumptions of `RunControl`: run ids are positive,
work types are those of the enum, the verdicts seen are verdicts, 0 is no task.

None of the four properties is inductive. `IInv` adds:

* `ActiveHoldsWalkers`: the dict holds the task of every walked run. It gives
  `OneWalkerPerRun`, and is kept because starts and resumes look at the dict with no
  await before the insertion, and the callback of a run's task is the only one that
  can pop it.
* `JobsIdentified`: copies of a job with one id are one job, and ids grow. A result
  is matched by its id, so this is why an answer fits the frame that waits for it.
* `FramesSound`: a walker that has published holds the job of its run and stage;
  one that has been answered holds an answer to it that the stage can give.
  This gives `AnswerMatchesStage`, and types the risk level the walker stores
  (the architecture mapper's verdict).
* `ResultsFit`: the results in the queue are such answers.
* `RollbackBudget`: inductive beside these, since the value written is a copy
  that was compared with the bound before it was incremented.

`RunControlProofs` has one lemma per group of variables, with one step per action;
lemmas on the tables (`RouteLength`, `TargetOnRoute`, `VerdictsTyped`) are cited by
name.

### The refinement

`RunControlWalk` maps a row to whether it is stored, `stepIdx` to the mark, and a
frame to the stage it is at and the verdict it has been answered with; a task that has not
read its run yet walks nothing. `WalksFollowRoute` uses `IInv` (an answer is one the
stage can give, two tasks do not walk one run) and `PlacesSound`: a walker that opens a
merge request is past the end of its route, and one that parks is at a gate. One
lemma per group of actions maps each step: most are stutters (`SameTables`), a
poll is `TakeUp`, the consumption of a result is `Report`, and the writes of
`current_step_idx` are `Pass`, `Park` or `StepBack`. `Leave` takes what ends a task.

### Gates, executions and running runs

What these properties say is about a run's turn, and takes hypotheses that TLC shows to
be needed (section 3).

`GateInv` (one reviewer, no restart, no orchestrator crash) says that the turn of a run
is in one place: with the request that will signal it, in its row or fetched by the
poll loop, with the reviewer as a pending checkpoint, or with its walker (`OneTurn`).
`GatesHold` alone is not inductive, since it says nothing of where a run is when no walker
is at work; `GatesBehind` says for each place that the gates before the row's
`stepIdx` are approved. A walker judges by a copy of the row, and `UpToDate` says that this copy is
the row, because nobody else moves a run that is walked. Two facts on the
tables complete the argument: a rollback passes over no gate, and the stage that
reports the risk lies before every stage whose gate depends on it, so that a
gate that was not asked for is not one in hindsight. `ReleasesApproved` follows because
the last stage of every route has a gate. With two reviewers or a second walk the argument
breaks where the code does: an approval signals a run that is elsewhere by then.

`CostInv` adds who pays for each execution of a stage. A stage that is begun was executed at
least once; beyond that, an execution of a stage without a gate is paid for by a rollback, and
one of a stage with a gate by a walker that was killed after it opened the
checkpoint and before it moved the row on: the reviewer's approval then starts the
stage again. A kill still to come is counted where it is (the budget,
a request, the row or the loop: `KillsAhead`), and this number only shrinks. So
`AttemptsBounded` needs no more kills than rollbacks allowed; with one more
TLC finds it violated, as the reviewer can approve the same gate after each of them.

`RunningInv` (no cancel, no exception in a walker or in the poll loop) adds to `NoOrphanRun` that a walker that
has ended left another status than `running`, and that no walker is alive before the
recovery. The step that matters is the callback that frees the task's slot. All three
hypotheses are needed: the claim of a walker overwrites a cancelled status before
the walker is killed, an exception leaves the row as it is, and a resume that fails after its UPDATE
marks a run that nothing walks. Restarts, crashes of the orchestrator
and all other faults are allowed, any number of times.

### StageExecutor

For any set of workers, any artifacts with the verdict files among them, any work types, any
base branches and any budget. The theorems have no hypotheses; the conditions of the properties are
part of them. `IInv` (`StageExecutorInvariant`) adds:

* `OneJob`: under `OneAtATime` a job is in the queue or with one worker, and it is the job of
  the stage the walk is at. So every step of a busy worker may take the others to
  be idle; this is what makes properties of the shared clone provable one
  worker at a time.
* `CodeKept`, for `WorkIsKept`: the changes of an execution are in the clone or the branch
  from its end to its report; a clone being made holds none; a commit leaves nothing uncommitted before a
  push; and before the last stage removes the clone all of it is pushed, or
  a warning written.
* `UploadsRise`, for `RowsBacked`: what a stage uploads was not in the clone before its agent,
  so the agent wrote it, with a number that no version anywhere had reached (`Dated`). Files of an
  earlier run are there before every agent, and so are never uploaded.
* `SourceKnown`, for `SourceIsImported`: how far the source of a transformation is at each
  await. A source directory makes every later stage skip the import, so it may be there only
  when the import was made, is about to be, or was warned about.
* `Judged`, for `VerdictIsOfThisCode`: up to the verification the clone holds no passing verdict
  file of this run but the one the verification has just written. It is kept because a rollback only
  comes from a failed verdict, and the branch in GitLab holds what the base branch holds of
  the verdict file before the last stage. If the base branch has an earlier run's pass, that can be what is
  judged, as the property says.

TLC checks `IInv` on the instance of `Executor`, too; the run checks the properties only.

### JobDelivery

For any jobs, workers and budget. `FramesSound` and `MessagesOnce` say that a message is in one place: in the
queue or unacknowledged with one worker, and held there by one coroutine; a delivery only comes to a
worker without one, and only a settlement takes a message from the broker. `JobsAccounted`
follows. `RegistrySound` and `AloneIsKnown` carry `CancelReachesAgents`: a registry entry is
an agent of its run, and for a coroutine that is alone in its process `cur` and
`registry` are its own, so that the broadcast finds it unless the agent is astray. `HeartbeatsSound` carries
`BeatsStandForJobs`: without a lost connection a process has one busy coroutine, the `Heartbeat` object
is that one's, and its row is deleted before the result is published, or is in `unswept`.

### LogStream and Credentials

`LogStream`: ids are handed out once (`IdsFresh`); a page has been sent, in order, all rows up
to its cursor but those overtaken (`SentInOrder`, `RowsBehindCursor`), and the cursor is the id of a
committed row (`CursorOfRow`). What was counted when the status was read is
therefore sent by the flush (`CountedRows`). The lemma `InOrderSorts` says that the operator the model has for `ORDER BY id` is one: it
returns every row of a finite set once, in the order of their ids.

`Credentials`: `OneSuccessor` says that the stored token is the one the server accepts, unless the
only worker that has refreshed it is about to store its successor; the others can only ask
with that or an older one, and are refused. `NoOlderLogin` bounds what the setting and the files of a
worker with a job can go back to. `AddressFirst` has the order of the two GitLab
rows until two PUTs cross: the one PUT in flight has a version no row has passed, writes the
address first, and a reader reads the token first, so that whatever is read
between the writes is an old token with a new address and never the reverse. `TokenForward` has
that the token's row is then never behind a client or a repository, which `WalkTokenIsFresh` follows from.

### AgentConfig and RepoAdmin

`SnapshotResolves` holds for every `agents.yaml` and every preset, with no type
assumed of a field, by `OverOnlyOverridden`, `OverNothing` and `EmptySnapshot`: a
snapshot keeps just the fields that may be overridden, and resolving looks at no
others.

`RepoAdmin`'s `IInv` is `TypeOK`, the properties but the last, and three facts on what is
in flight (a run may become active again at any time, and `ActiveRunsSurvive` is inductive because
`Revive` marks it in the requests that have listed it): `UnbornIsNew` (ids that were not handed out refer to nothing), `ListsKept`
(what a disconnect has listed: the runs to delete are among those listed, stored runs
of the repository that were listed are still to be deleted, and none are left when it
deletes the repository) and `SnapshotsKept` (a run or request carries the snapshot of
the overrides that were read for it). It holds for any sets of users, projects and ids; the
assumptions are those named in `RepoAdmin`, on ids, seeds, `agents.yaml` and the budget.
`RunsAsResolved` follows from `SnapshotsKept` by `SnapshotResolves`.

### Only model-checked

Liveness under fairness is out of the prover's reach: `WalksEnd`,
`NewRunsAreTakenUp`, `RowsArrive`, `StreamsEnd`, `JobsAreAnswered`. The three claims that do not hold
(`SafetyReviewBeforeExecution`, `ResumedRunsGoOn`, `ArtifactsGoToMinIO`) are refuted by TLC.
Every safety property of the passing runs is stated by a theorem, under the hypotheses
named above.

## 5. Not modelled

* Pages, styles and prompts: markup and prose, no state.
* Authentication: a signed cookie is checked by each request; nothing several
  actors change.
* The GitLab client: HTTP calls without state; what they decide (a project
  exists, a merge request is opened) is nondeterministic.
* Prompt assembly and the formatting of the agent's stream (`agent.py`): text.
* Read-only views of `runs.py` (diff, artifacts, markdown) and the upload of the diff:
  nothing is decided from them but whether a merge request is tried, which
  `OpenMR` leaves open.
* Sync and context of a repository, names, prompts, dashboard statistics, system
  metrics: columns no modelled handler reads.
* Loading of `agents.yaml`, migrations as history, containers: configuration. The
  columns and keys of the migrations are in the models that use them.

## 6. Plan

Done: the modules of section 2 and the theorems of section 4. To come, in this order:

1. `RunControl`: `AttemptsBounded` per walk, so that restarts and crashes need not be excluded.
2. `RunControl`: `GatesHold` with restarts, for checkpoints that were opened by the current walk.
3. `StageExecutor`: what remains of `RowsBacked` when executions overlap, with a bound on their number.
4. Action properties of `JobDelivery` and `LogStream` (an answer is published once per holder; a cursor
   never goes back), from the invariants that are proved.
