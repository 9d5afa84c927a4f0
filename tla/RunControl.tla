------------------------------ MODULE RunControl ------------------------------
(***************************************************************************)
(* How a pipeline run is driven: the rows of PostgreSQL the services share *)
(* (src/db.py), the handlers of the web API that change them               *)
(* (src/api/runs.py, src/api/checkpoints.py), the orchestrator's poll loop *)
(* and its walker tasks (orchestrator/src/main.py), and the job and result *)
(* queues of RabbitMQ with the workers at the other end.                   *)
(*                                                                         *)
(* A step of the model is what runs between two awaits: one statement of   *)
(* the database or one message of the broker, with the local code that     *)
(* decided it.  Everything else may happen between two such steps.         *)
(*                                                                         *)
(* Workers are seen from outside: a worker takes a job, answers it with    *)
(* any outcome the executor can produce, or dies with it.  A cancel        *)
(* broadcast kills an agent, which is one way for its outcome to be a      *)
(* failure; the broadcast itself is not represented here.                  *)
(***************************************************************************)
EXTENDS PipelineRoutes, FiniteSets

CONSTANTS Runs,        \* the ids the SERIAL column of pipeline_runs will hand out
          WorkTypeOf,  \* the work type each run is filed with
          Users,       \* reviewers, each with at most one HTTP request in flight
          Tasks,       \* slots for the asyncio tasks of the orchestrator
          Workers,
          SeenVerdicts, \* the verdicts agents give in an instance
          Budget       \* how often each of BudgetOps may happen (bounds the model)

\* What the budget bounds: the user operations that could be repeated for ever
\* ("cancel" stands for the cancel/delete handler), timeouts of jobs whose
\* answer was still to come, and the faults.
BudgetOps == {"cancel", "restart", "lateAnswer", "orchCrash", "workerCrash",
              "jobRejected", "walkerError", "loopError", "webCrash"}

ASSUME RunsAssumption == Runs \subseteq Nat \ {0}
ASSUME WorkTypeAssumption == WorkTypeOf \in [Runs -> WorkTypes]
ASSUME BudgetAssumption == Budget \in [BudgetOps -> Nat]
ASSUME VerdictsAssumption == SeenVerdicts \subseteq Verdicts
ASSUME TasksAssumption == 0 \notin Tasks

VARIABLES
    status, action, stepIdx, rollbacks, risk,  \* columns of pipeline_runs
    attempts,    \* pipeline_steps: the latest attempt of each stage of a run
    checkpoints, nextCp,                       \* the checkpoints table
    mrs,         \* runs for which GitLab has a merge request
    loop,        \* the orchestrator's main coroutine
    active,      \* its dict of run id -> task
    walker,      \* the frames of the process_run tasks
    jobQueue, resultQueue, nextJob,            \* RabbitMQ, and uuid4
    busy,        \* the job each worker has taken
    request,     \* the HTTP request each user has in flight
    left         \* what is left of the budget

row      == <<status, action, stepIdx, rollbacks, risk>>
db       == <<row, attempts, checkpoints, nextCp>>
orch     == <<loop, active, walker>>
broker   == <<jobQueue, resultQueue, nextJob>>
vars     == <<db, mrs, orch, broker, busy, request, left>>

-------------------------------------------------------------------------------
\* The rows of pipeline_runs.

NoAction == "none"
Actions  == {"start", "resume", "cancel"}

\* run_status, and "unborn"/"deleted" for an id with no row.
Stored   == {"pending", "running", "awaiting_checkpoint", "completed", "failed",
             "cancelled", "rejected"}
Statuses == Stored \cup {"unborn", "deleted"}

Exists(r) == status[r] \in Stored

WT(r)     == WorkTypeOf[r]
Last(r)   == RouteLen(WT(r)) - 1
StageIdx  == 0..7   \* no route is longer than the eight agents

\* One column of update_run: an UPDATE of a row that is gone changes nothing.
Set(column, r, v) == IF Exists(r) THEN [column EXCEPT ![r] = v] ELSE column

SetStatus(r, s)  == status' = Set(status, r, s)
SetAction(r, a)  == action' = Set(action, r, a)
SetIdx(r, i)     == stepIdx' = Set(stepIdx, r, i)

-------------------------------------------------------------------------------
\* Messages, frames and requests.

NoRun == 0

Job(id, r, i) == [id |-> id, run |-> r, idx |-> i]
NoJob == Job(0, NoRun, 0)

Outcome(ok, v) == [ok |-> ok, verdict |-> v]
NoOutcome == Outcome(FALSE, NoVerdict)

\* A ResultMessage: the job it answers and how the stage ended.
Result(j, o) == [job |-> j, outcome |-> o]

\* What JobExecutor.execute can return for a job: a failure carries no verdict.
Outcomes(j) ==
    {NoOutcome} \cup
    {Outcome(TRUE, v) :
        v \in SeenVerdicts \cap
                  ParsedVerdicts(AgentsRegistry(WT(j.run))[AgentAt(WT(j.run), j.idx)])}

\* A frame of process_run.  "seen" is the run row as last read into the local
\* variable run; "answer" is the result the future was resolved with.
Frame(r) == [run |-> r, pc |-> "start", idx |-> 0,
             seen |-> [rollbacks |-> 0, risk |-> "low"],
             job |-> NoJob, answer |-> Result(NoJob, NoOutcome)]
FreeSlot == [Frame(NoRun) EXCEPT !.pc = "free"]

\* A frame whose other locals are dead: they are read again before any use.
Between(pc, r, i) == [Frame(r) EXCEPT !.pc = pc, !.idx = i]
NoTask == 0

WalkerPCs == {"start", "claim", "top", "step", "publish", "register", "wait",
              "expired", "answered", "reread", "judge", "park", "merge",
              "complete", "done"}

\* The next step of an HTTP request, and the rows it is about.
RequestPCs == {"signalStart", "markCancelled", "deleteRow", "resetRow",
               "approve", "signalResume", "reject", "markRejected"}
Request(pc, r, c) == [pc |-> pc, run |-> r, cp |-> c]
Idle == Request("idle", NoRun, 0)

\* What the main coroutine has fetched for a run and not handled yet.
Todo(r, a) == [run |-> r, action |-> a]
LoopAt(pc, todo, cur) == [pc |-> pc, todo |-> todo, cur |-> cur]
Nothing == Todo(NoRun, NoAction)

Spend(op) == left[op] > 0 /\ left' = [left EXCEPT ![op] = @ - 1]

Init ==
    /\ status = [r \in Runs |-> "unborn"]
    /\ action = [r \in Runs |-> NoAction]
    /\ stepIdx = [r \in Runs |-> 0]
    /\ rollbacks = [r \in Runs |-> 0]
    /\ risk = [r \in Runs |-> "low"]
    /\ attempts = [r \in Runs |-> [i \in StageIdx |-> 0]]
    /\ checkpoints = {}
    /\ nextCp = 1
    /\ mrs = {}
    /\ loop = LoopAt("down", {}, Nothing)
    /\ active = [r \in Runs |-> NoTask]
    /\ walker = [t \in Tasks |-> FreeSlot]
    /\ jobQueue = <<>>
    /\ resultQueue = <<>>
    /\ nextJob = 1
    /\ busy = [w \in Workers |-> NoJob]
    /\ request = [u \in Users |-> Idle]
    /\ left = Budget

-------------------------------------------------------------------------------
(***************************************************************************)
(* The web API.  A handler is cut at its awaits: what it read decides      *)
(* which request is left in flight, and the writes follow one by one.      *)
(***************************************************************************)
Asks(u)      == request[u] = Idle
InFlight(u, pc) == request[u].pc = pc
Then(u, req) == request' = [request EXCEPT ![u] = req]
Answered(u)  == Then(u, Idle)

\* POST /runs: the row is inserted (the work branch with it), then signalled.
CreateRun(u, r) ==
    /\ Asks(u)
    /\ status[r] = "unborn" /\ \A q \in Runs : q < r => status[q] # "unborn"
    /\ status' = [status EXCEPT ![r] = "pending"]
    /\ Then(u, Request("signalStart", r, 0))
    /\ UNCHANGED <<action, stepIdx, rollbacks, risk, attempts, checkpoints, nextCp,
                   mrs, orch, broker, busy, left>>

SignalStart(u) ==
    /\ InFlight(u, "signalStart")
    /\ SetAction(request[u].run, "start")
    /\ Answered(u)
    /\ UNCHANGED <<status, stepIdx, rollbacks, risk, attempts, checkpoints, nextCp,
                   mrs, orch, broker, busy, left>>

\* DELETE /runs/r and POST /runs/r/cancel are one handler: a run that is being
\* worked on is cancelled, any other run is deleted.
AskCancel(u, r) ==
    /\ Asks(u)
    /\ status[r] \in {"running", "awaiting_checkpoint"}
    /\ Spend("cancel")
    /\ Then(u, Request("markCancelled", r, 0))
    /\ UNCHANGED <<db, mrs, orch, broker, busy>>

MarkCancelled(u) ==
    /\ InFlight(u, "markCancelled")
    /\ SetStatus(request[u].run, "cancelled")
    /\ SetAction(request[u].run, "cancel")
    /\ Answered(u)
    /\ UNCHANGED <<stepIdx, rollbacks, risk, attempts, checkpoints, nextCp,
                   mrs, orch, broker, busy, left>>

AskDelete(u, r) ==
    /\ Asks(u)
    /\ Exists(r) /\ status[r] \notin {"running", "awaiting_checkpoint"}
    /\ Spend("cancel")
    /\ Then(u, Request("deleteRow", r, 0))
    /\ UNCHANGED <<db, mrs, orch, broker, busy>>

\* The row goes, and steps and checkpoints with it (ON DELETE CASCADE).
DeleteRow(u) ==
    LET r == request[u].run IN
    /\ InFlight(u, "deleteRow")
    /\ status' = [status EXCEPT ![r] = "deleted"]
    /\ action' = [action EXCEPT ![r] = NoAction]
    /\ stepIdx' = [stepIdx EXCEPT ![r] = 0]
    /\ rollbacks' = [rollbacks EXCEPT ![r] = 0]
    /\ risk' = [risk EXCEPT ![r] = "low"]
    /\ attempts' = [attempts EXCEPT ![r] = [i \in StageIdx |-> 0]]
    /\ checkpoints' = {c \in checkpoints : c.run # r}
    /\ Answered(u)
    /\ UNCHANGED <<nextCp, mrs, orch, broker, busy, left>>

\* POST /runs/r/restart: reset, then signal.  The risk level and the
\* checkpoints of the earlier walk stay.
AskRestart(u, r) ==
    /\ Asks(u)
    /\ Exists(r) /\ status[r] \notin {"pending", "running"}
    /\ Spend("restart")
    /\ Then(u, Request("resetRow", r, 0))
    /\ UNCHANGED <<db, mrs, orch, broker, busy>>

ResetRow(u) ==
    LET r == request[u].run IN
    /\ InFlight(u, "resetRow")
    /\ SetStatus(r, "pending")
    /\ SetIdx(r, 0)
    /\ rollbacks' = Set(rollbacks, r, 0)
    /\ Then(u, Request("signalStart", r, 0))
    /\ UNCHANGED <<action, risk, attempts, checkpoints, nextCp,
                   mrs, orch, broker, busy, left>>

\* POST /runs/r/checkpoints/c/approve and .../reject: only the checkpoint is
\* looked at, never the run, and only before the first write.
AskApprove(u, c) ==
    /\ Asks(u)
    /\ c.status = "pending"
    /\ Then(u, Request("approve", c.run, c.id))
    /\ UNCHANGED <<db, mrs, orch, broker, busy, left>>

AskReject(u, c) ==
    /\ Asks(u)
    /\ c.status = "pending"
    /\ Then(u, Request("reject", c.run, c.id))
    /\ UNCHANGED <<db, mrs, orch, broker, busy, left>>

\* UPDATE checkpoints SET status = s WHERE id = k
Decide(k, s) == checkpoints' = {IF c.id = k THEN [c EXCEPT !.status = s] ELSE c :
                                    c \in checkpoints}

Approve(u) ==
    /\ InFlight(u, "approve")
    /\ Decide(request[u].cp, "approved")
    /\ Then(u, Request("signalResume", request[u].run, 0))
    /\ UNCHANGED <<row, attempts, nextCp, mrs, orch, broker, busy, left>>

SignalResume(u) ==
    /\ InFlight(u, "signalResume")
    /\ SetAction(request[u].run, "resume")
    /\ Answered(u)
    /\ UNCHANGED <<status, stepIdx, rollbacks, risk, attempts, checkpoints, nextCp,
                   mrs, orch, broker, busy, left>>

Reject(u) ==
    /\ InFlight(u, "reject")
    /\ Decide(request[u].cp, "rejected")
    /\ Then(u, Request("markRejected", request[u].run, 0))
    /\ UNCHANGED <<row, attempts, nextCp, mrs, orch, broker, busy, left>>

MarkRejected(u) ==
    /\ InFlight(u, "markRejected")
    /\ SetStatus(request[u].run, "rejected")
    /\ Answered(u)
    /\ UNCHANGED <<action, stepIdx, rollbacks, risk, attempts, checkpoints, nextCp,
                   mrs, orch, broker, busy, left>>

\* The web process dies between two statements of a handler.
WebCrash(u) ==
    /\ ~Asks(u)
    /\ Spend("webCrash")
    /\ Answered(u)
    /\ UNCHANGED <<db, mrs, orch, broker, busy>>

-------------------------------------------------------------------------------
(***************************************************************************)
(* The main coroutine of the orchestrator: recovery, then the poll loop.   *)
(***************************************************************************)
\* Rows are handled in the order of their ids.
NextTodo == CHOOSE d \in loop.todo : \A e \in loop.todo : d.run <= e.run

\* Mutant: the orchestrator starts without its recovery.
MutantBoot ==
    /\ loop.pc = "down"
    /\ loop' = LoopAt("recover", {}, Nothing)
    /\ UNCHANGED <<db, mrs, active, walker, broker, busy, request, left>>

\* list_runs_by_status("running"); the result consumer is started with it.
Boot ==
    /\ loop.pc = "down"
    /\ loop' = LoopAt("recover",
                      {Todo(r, "start") : r \in {q \in Runs : status[q] = "running"}},
                      Nothing)
    /\ UNCHANGED <<db, mrs, active, walker, broker, busy, request, left>>

RecoverRun ==
    LET d == NextTodo IN
    /\ loop.pc = "recover" /\ loop.todo # {}
    /\ SetAction(d.run, "start")
    /\ SetStatus(d.run, "pending")
    /\ SetIdx(d.run, 0)
    /\ loop' = LoopAt("recover", loop.todo \ {d}, Nothing)
    /\ UNCHANGED <<rollbacks, risk, attempts, checkpoints, nextCp, mrs, active, walker,
                   broker, busy, request, left>>

\* Mutant: runs that are still pending are not polled.
MutantFetchActions ==
    /\ loop.pc \in {"recover", "rows"} /\ loop.todo = {}
    /\ loop' = LoopAt("rows",
                      {Todo(r, action[r]) : r \in {q \in Runs : action[q] # NoAction
                                                               /\ status[q] # "pending"}},
                      Nothing)
    /\ UNCHANGED <<db, mrs, active, walker, broker, busy, request, left>>

\* get_runs_with_action, at the top of the loop.
FetchActions ==
    /\ loop.pc \in {"recover", "rows"} /\ loop.todo = {}
    /\ loop' = LoopAt("rows",
                      {Todo(r, action[r]) : r \in {q \in Runs : action[q] # NoAction}},
                      Nothing)
    /\ UNCHANGED <<db, mrs, active, walker, broker, busy, request, left>>

\* clear_orchestrator_action: whatever the row asks for by now is cleared, and
\* what was fetched is what is done.
ClearAction ==
    LET d == NextTodo IN
    /\ loop.pc = "rows" /\ loop.todo # {}
    /\ SetAction(d.run, NoAction)
    /\ loop' = LoopAt("act", loop.todo \ {d}, d)
    /\ UNCHANGED <<status, stepIdx, rollbacks, risk, attempts, checkpoints, nextCp, mrs,
                   active, walker, broker, busy, request, left>>

Handling(a) == loop.pc = "act" /\ loop.cur.action = a
Handled     == loop' = LoopAt("rows", loop.todo, Nothing)

\* create_task(process_run), in a free slot.
Spawn(r) ==
    \E t \in Tasks :
        /\ walker[t] = FreeSlot
        /\ walker' = [walker EXCEPT ![t] = Frame(r)]
        /\ active' = [active EXCEPT ![r] = t]

StartRun ==
    /\ Handling("start")
    /\ active[loop.cur.run] = NoTask
    /\ Spawn(loop.cur.run)
    /\ Handled
    /\ UNCHANGED <<db, mrs, broker, busy, request, left>>

\* Mutant: a resume does not look whether the run is active.
MutantResumeRun ==
    /\ Handling("resume")
    /\ SetStatus(loop.cur.run, "running")
    /\ Spawn(loop.cur.run)
    /\ Handled
    /\ UNCHANGED <<action, stepIdx, rollbacks, risk, attempts, checkpoints, nextCp, mrs,
                   broker, busy, request, left>>

ResumeRun ==
    /\ Handling("resume")
    /\ active[loop.cur.run] = NoTask
    /\ SetStatus(loop.cur.run, "running")
    /\ Spawn(loop.cur.run)
    /\ Handled
    /\ UNCHANGED <<action, stepIdx, rollbacks, risk, attempts, checkpoints, nextCp, mrs,
                   broker, busy, request, left>>

\* A run that is still in the dict: the action was cleared and nothing is done.
DropAction ==
    /\ Handling("start") \/ Handling("resume")
    /\ active[loop.cur.run] # NoTask
    /\ Handled
    /\ UNCHANGED <<db, mrs, active, walker, broker, busy, request, left>>

\* The cancel is broadcast, and the task of the run is popped and cancelled.
CancelRun ==
    LET r == loop.cur.run IN
    /\ Handling("cancel")
    /\ walker' = [t \in Tasks |-> IF t = active[r] THEN FreeSlot ELSE walker[t]]
    /\ active' = [active EXCEPT ![r] = NoTask]
    /\ Handled
    /\ UNCHANGED <<db, mrs, broker, busy, request, left>>

\* A statement or the broadcast raises, its effect done or not: the loop logs it
\* and forgets the rest of what it fetched, the action it cleared included.  A
\* resume that has set the status and no more leaves a run that nothing walks.
LoopError ==
    /\ loop.pc = "act" \/ (loop.pc = "rows" /\ loop.todo # {})
    /\ Spend("loopError")
    /\ \/ UNCHANGED status
       \/ /\ Handling("resume")
          /\ active[loop.cur.run] = NoTask
          /\ SetStatus(loop.cur.run, "running")
    /\ loop' = LoopAt("rows", {}, Nothing)
    /\ UNCHANGED <<action, stepIdx, rollbacks, risk, attempts, checkpoints, nextCp, mrs,
                   active, walker, broker, busy, request>>

OrchCrash ==
    /\ loop.pc # "down"
    /\ Spend("orchCrash")
    /\ loop' = LoopAt("down", {}, Nothing)
    /\ active' = [r \in Runs |-> NoTask]
    /\ walker' = [t \in Tasks |-> FreeSlot]
    /\ UNCHANGED <<db, mrs, broker, busy, request>>

-------------------------------------------------------------------------------
(***************************************************************************)
(* process_run: a task walks the route of its run, one job at a time.      *)
(***************************************************************************)
At(t, pc)  == walker[t].pc = pc
RunOf(t)   == walker[t].run
Goto(t, pc) == walker' = [walker EXCEPT ![t].pc = pc]
Continue(t, pc, i) == walker' = [walker EXCEPT ![t] = Between(pc, RunOf(t), i)]
Return(t)  == Continue(t, "done", 0)
Seen(r)    == [rollbacks |-> rollbacks[r], risk |-> risk[r]]

\* The walker's own state changes, and nothing in the database.
Locally == UNCHANGED <<db, mrs, loop, active, broker, busy, request, left>>

\* get_run, before the loop.
Begin(t) ==
    LET r == RunOf(t) IN
    /\ At(t, "start")
    /\ IF Exists(r) THEN Continue(t, "claim", stepIdx[r]) ELSE Return(t)
    /\ Locally

\* update_run(status="running"), whatever the status is by now.
Claim(t) ==
    /\ At(t, "claim")
    /\ SetStatus(RunOf(t), "running")
    /\ Goto(t, "top")
    /\ UNCHANGED <<action, stepIdx, rollbacks, risk, attempts, checkpoints, nextCp, mrs,
                   loop, active, broker, busy, request, left>>

\* Mutant: the loop stops one stage early.
MutantTop(t) ==
    LET r == RunOf(t) IN
    /\ At(t, "top")
    /\ IF walker[t].idx >= Last(r) THEN Goto(t, "merge")
       ELSE IF ~Exists(r) \/ status[r] = "cancelled" THEN Return(t)
       ELSE walker' = [walker EXCEPT ![t].pc = "step", ![t].seen = Seen(r)]
    /\ Locally

\* The loop test, and get_run at the top of the body.  A row that is gone is
\* None, and subscripting it ends the task.
Top(t) ==
    LET r == RunOf(t) IN
    /\ At(t, "top")
    /\ IF walker[t].idx > Last(r) THEN Goto(t, "merge")
       ELSE IF ~Exists(r) \/ status[r] = "cancelled" THEN Return(t)
       ELSE walker' = [walker EXCEPT ![t].pc = "step", ![t].seen = Seen(r)]
    /\ Locally

\* get_latest_step_for_agent and create_step: the foreign key refuses the step
\* of a deleted run, which ends the task.
CreateStep(t) ==
    LET r == RunOf(t) IN
    /\ At(t, "step")
    /\ IF Exists(r)
       THEN /\ attempts' = [attempts EXCEPT ![r][walker[t].idx] = @ + 1]
            /\ Goto(t, "publish")
       ELSE attempts' = attempts /\ Return(t)
    /\ UNCHANGED <<row, checkpoints, nextCp, mrs, loop, active, broker, busy, request, left>>

\* Mutant: the job is published under an id that was used before.
MutantPublish(t) ==
    LET j == Job(nextJob, RunOf(t), walker[t].idx) IN
    /\ At(t, "publish")
    /\ jobQueue' = Append(jobQueue, j)
    /\ walker' = [walker EXCEPT ![t].pc = "register", ![t].job = j]
    /\ UNCHANGED <<db, mrs, loop, active, resultQueue, nextJob, busy, request, left>>

\* publish_job with a fresh uuid4.
Publish(t) ==
    LET j == Job(nextJob, RunOf(t), walker[t].idx) IN
    /\ At(t, "publish")
    /\ jobQueue' = Append(jobQueue, j)
    /\ nextJob' = nextJob + 1
    /\ walker' = [walker EXCEPT ![t].pc = "register", ![t].job = j]
    /\ UNCHANGED <<db, mrs, loop, active, resultQueue, busy, request, left>>

\* The broker has confirmed: only now is the future in _pending_results.
Register(t) ==
    /\ At(t, "register")
    /\ Goto(t, "wait")
    /\ Locally

\* The job is queued, being worked on, or answered and not consumed yet.
AnswerToCome(j) ==
    \/ \E k \in DOMAIN jobQueue : jobQueue[k] = j
    \/ \E w \in Workers : busy[w] = j
    \/ \E k \in DOMAIN resultQueue : resultQueue[k].job = j

\* Mutant: the result is awaited without a timeout.
MutantExpire(t) == At(t, "wait") /\ FALSE /\ Locally

\* wait_for gives up after an hour, whether or not an answer is on its way; the
\* future is cancelled.
Expire(t) ==
    /\ At(t, "wait")
    /\ IF AnswerToCome(walker[t].job) THEN Spend("lateAnswer") ELSE left' = left
    /\ Goto(t, "expired")
    /\ UNCHANGED <<db, mrs, loop, active, broker, busy, request>>

FailExpired(t) ==
    /\ At(t, "expired")
    /\ SetStatus(RunOf(t), "failed")
    /\ Return(t)
    /\ UNCHANGED <<action, stepIdx, rollbacks, risk, attempts, checkpoints, nextCp, mrs,
                   loop, active, broker, busy, request, left>>

Verdict(t)  == walker[t].answer.outcome.verdict
AgentNum(t) == AgentAt(WT(RunOf(t)), walker[t].idx)
\* Mutant: a missing verdict is stored as the risk level.
MutantReportsRisk(t) ==
    AgentsRegistry(WT(RunOf(t)))[AgentNum(t)] = "architecture_mapper"

ReportsRisk(t) ==
    /\ AgentsRegistry(WT(RunOf(t)))[AgentNum(t)] = "architecture_mapper"
    /\ Verdict(t) # NoVerdict

\* The risk level the architecture mapper found is stored, and the row reread.
RecordRisk(t) ==
    /\ At(t, "answered") /\ ReportsRisk(t)
    /\ risk' = Set(risk, RunOf(t), Verdict(t))
    /\ Goto(t, "reread")
    /\ UNCHANGED <<status, action, stepIdx, rollbacks, attempts, checkpoints, nextCp, mrs,
                   loop, active, broker, busy, request, left>>

Reread(t) ==
    LET r == RunOf(t) IN
    /\ At(t, "reread")
    /\ IF Exists(r)
       THEN walker' = [walker EXCEPT ![t].pc = "judge", ![t].seen = Seen(r)]
       ELSE Return(t)
    /\ Locally

\* The result is in and its risk level stored: what follows depends on the
\* verdict alone; the status of the result is not looked at.
Judging(t)  == At(t, "judge") \/ (At(t, "answered") /\ ~ReportsRisk(t))
Failed(t)   == Verdict(t) \in FAIL_VERDICTS
\* Mutant: a failed check goes back one agent.
MutantTarget(t) ==
    IF RollbackTarget(AgentNum(t), WT(RunOf(t))) = NoTarget THEN NoTarget
    ELSE AgentNum(t) - 1

Target(t)   == RollbackTarget(AgentNum(t), WT(RunOf(t)))
\* Mutant: one rollback too many.
MutantCanRollBack(t) == Target(t) # NoTarget /\ walker[t].seen.rollbacks <= MAX_ROLLBACKS

CanRollBack(t) == Target(t) # NoTarget /\ walker[t].seen.rollbacks < MAX_ROLLBACKS
\* Mutant: the gate is decided on the default risk level.
MutantIsGate(t) == ShouldCheckpoint(AgentNum(t), WT(RunOf(t)), "low")

IsGate(t)   == ShouldCheckpoint(AgentNum(t), WT(RunOf(t)), walker[t].seen.risk)

\* Mutant: the rollback is not counted.
MutantRollBack(t) ==
    LET r == RunOf(t)
        i == FindStepIndex(WT(r), Target(t)) IN
    /\ Judging(t) /\ Failed(t) /\ CanRollBack(t)
    /\ SetIdx(r, i)
    /\ Continue(t, "top", i)
    /\ UNCHANGED <<status, action, rollbacks, risk, attempts, checkpoints, nextCp, mrs,
                   loop, active, broker, busy, request, left>>

RollBack(t) ==
    LET r == RunOf(t)
        i == FindStepIndex(WT(r), Target(t)) IN
    /\ Judging(t) /\ Failed(t) /\ CanRollBack(t)
    /\ SetIdx(r, i)
    /\ rollbacks' = Set(rollbacks, r, walker[t].seen.rollbacks + 1)
    /\ Continue(t, "top", i)
    /\ UNCHANGED <<status, action, risk, attempts, checkpoints, nextCp, mrs,
                   loop, active, broker, busy, request, left>>

GiveUp(t) ==
    /\ Judging(t) /\ Failed(t) /\ ~CanRollBack(t)
    /\ SetStatus(RunOf(t), "failed")
    /\ Return(t)
    /\ UNCHANGED <<action, stepIdx, rollbacks, risk, attempts, checkpoints, nextCp, mrs,
                   loop, active, broker, busy, request, left>>

\* create_checkpoint, which the foreign key refuses for a deleted run.
OpenCheckpoint(t) ==
    LET r == RunOf(t) IN
    /\ Judging(t) /\ ~Failed(t) /\ IsGate(t)
    /\ IF Exists(r)
       THEN /\ checkpoints' = checkpoints \cup
                 {[id |-> nextCp, run |-> r, idx |-> walker[t].idx, status |-> "pending"]}
            /\ nextCp' = nextCp + 1
            /\ Goto(t, "park")
       ELSE UNCHANGED <<checkpoints, nextCp>> /\ Return(t)
    /\ UNCHANGED <<row, attempts, mrs, loop, active, broker, busy, request, left>>

\* update_run(status="awaiting_checkpoint", current_step_idx=step_idx + 1)
Park(t) ==
    LET r == RunOf(t) IN
    /\ At(t, "park")
    /\ SetStatus(r, "awaiting_checkpoint")
    /\ SetIdx(r, walker[t].idx + 1)
    /\ Return(t)
    /\ UNCHANGED <<action, rollbacks, risk, attempts, checkpoints, nextCp, mrs,
                   loop, active, broker, busy, request, left>>

Advance(t) ==
    LET i == walker[t].idx + 1 IN
    /\ Judging(t) /\ ~Failed(t) /\ ~IsGate(t)
    /\ SetIdx(RunOf(t), i)
    /\ Continue(t, "top", i)
    /\ UNCHANGED <<status, action, rollbacks, risk, attempts, checkpoints, nextCp, mrs,
                   loop, active, broker, busy, request, left>>

\* The route is walked: a merge request is opened unless there is nothing to
\* merge or GitLab refuses.
OpenMR(t) ==
    /\ At(t, "merge")
    /\ mrs' \in {mrs, mrs \cup {RunOf(t)}}
    /\ Goto(t, "complete")
    /\ UNCHANGED <<db, loop, active, broker, busy, request, left>>

Complete(t) ==
    /\ At(t, "complete")
    /\ SetStatus(RunOf(t), "completed")
    /\ Return(t)
    /\ UNCHANGED <<action, stepIdx, rollbacks, risk, attempts, checkpoints, nextCp, mrs,
                   loop, active, broker, busy, request, left>>

\* A statement or the publication raises: nobody awaits the task, so the
\* exception ends it and the row stays as it is.
WalkerError(t) ==
    /\ walker[t].pc \notin {"free", "wait", "done"}
    /\ Spend("walkerError")
    /\ Return(t)
    /\ UNCHANGED <<db, mrs, loop, active, broker, busy, request>>

\* The done callback: active.pop(r, None), by run and not by task.
DoneCallback(t) ==
    /\ At(t, "done")
    /\ active' = [active EXCEPT ![RunOf(t)] = NoTask]
    /\ walker' = [walker EXCEPT ![t] = FreeSlot]
    /\ UNCHANGED <<db, mrs, loop, broker, busy, request, left>>

-------------------------------------------------------------------------------
(***************************************************************************)
(* RabbitMQ and the workers.                                               *)
(***************************************************************************)
TakeJob(w) ==
    /\ busy[w] = NoJob /\ jobQueue # <<>>
    /\ busy' = [busy EXCEPT ![w] = Head(jobQueue)]
    /\ jobQueue' = Tail(jobQueue)
    /\ UNCHANGED <<db, mrs, orch, resultQueue, nextJob, request, left>>

\* The stage ends, its result is published, the job is acknowledged.
FinishJob(w) ==
    /\ busy[w] # NoJob
    /\ \E o \in Outcomes(busy[w]) : resultQueue' = Append(resultQueue, Result(busy[w], o))
    /\ busy' = [busy EXCEPT ![w] = NoJob]
    /\ UNCHANGED <<db, mrs, orch, jobQueue, nextJob, request, left>>

\* The worker dies before the acknowledgement, the result out or not: the job
\* goes back to the head of its queue.
WorkerCrash(w) ==
    /\ busy[w] # NoJob
    /\ Spend("workerCrash")
    /\ \/ resultQueue' = resultQueue
       \/ \E o \in Outcomes(busy[w]) :
             resultQueue' = Append(resultQueue, Result(busy[w], o))
    /\ jobQueue' = <<busy[w]>> \o jobQueue
    /\ busy' = [busy EXCEPT ![w] = NoJob]
    /\ UNCHANGED <<db, mrs, orch, nextJob, request>>

\* on_job raises outside execute: message.process() rejects without requeueing.
RejectJob(w) ==
    /\ busy[w] # NoJob
    /\ Spend("jobRejected")
    /\ busy' = [busy EXCEPT ![w] = NoJob]
    /\ UNCHANGED <<db, mrs, orch, broker, request>>

\* Mutant: a result is matched by its run.
MutantConsumeResult ==
    LET m == Head(resultQueue) IN
    /\ loop.pc # "down" /\ resultQueue # <<>>
    /\ resultQueue' = Tail(resultQueue)
    /\ walker' = [t \in Tasks |->
                    IF At(t, "wait") /\ walker[t].run = m.job.run
                    THEN [walker[t] EXCEPT !.pc = "answered", !.answer = m]
                    ELSE walker[t]]
    /\ UNCHANGED <<db, mrs, loop, active, jobQueue, nextJob, busy, request, left>>

\* on_msg of result_consumer: the future registered under the job's id is
\* resolved; a result nobody waits for is acknowledged and forgotten.
ConsumeResult ==
    LET m == Head(resultQueue) IN
    /\ loop.pc # "down" /\ resultQueue # <<>>
    /\ resultQueue' = Tail(resultQueue)
    /\ walker' = [t \in Tasks |->
                    IF At(t, "wait") /\ walker[t].job.id = m.job.id
                    THEN [walker[t] EXCEPT !.pc = "answered", !.answer = m]
                    ELSE walker[t]]
    /\ UNCHANGED <<db, mrs, loop, active, jobQueue, nextJob, busy, request, left>>

-------------------------------------------------------------------------------
\* What a user starts, what a handler in flight goes on with, what the
\* orchestrator, its walkers and the workers do, and what fails.
UserAsks(u) ==
    \/ \E r \in Runs : CreateRun(u, r) \/ AskCancel(u, r) \/ AskDelete(u, r)
                                       \/ AskRestart(u, r)
    \/ \E c \in checkpoints : AskApprove(u, c) \/ AskReject(u, c)

Handler(u) == \/ SignalStart(u) \/ MarkCancelled(u) \/ DeleteRow(u) \/ ResetRow(u)
              \/ Approve(u) \/ SignalResume(u) \/ Reject(u) \/ MarkRejected(u)

MainLoop == \/ Boot \/ RecoverRun \/ FetchActions \/ ClearAction
            \/ StartRun \/ ResumeRun \/ DropAction \/ CancelRun

Walk(t) == \/ Begin(t) \/ Claim(t) \/ Top(t) \/ CreateStep(t) \/ Publish(t)
           \/ Register(t) \/ FailExpired(t) \/ RecordRisk(t) \/ Reread(t)
           \/ RollBack(t) \/ GiveUp(t) \/ OpenCheckpoint(t) \/ Park(t) \/ Advance(t)
           \/ OpenMR(t) \/ Complete(t) \/ DoneCallback(t)

Work(w) == TakeJob(w) \/ FinishJob(w)

Fault == \/ LoopError \/ OrchCrash
         \/ \E u \in Users : WebCrash(u)
         \/ \E t \in Tasks : WalkerError(t)
         \/ \E w \in Workers : WorkerCrash(w) \/ RejectJob(w)

Next == \/ \E u \in Users : UserAsks(u) \/ Handler(u)
        \/ MainLoop
        \/ \E t \in Tasks : Walk(t) \/ Expire(t)
        \/ \E w \in Workers : Work(w)
        \/ ConsumeResult
        \/ Fault

Spec == Init /\ [][Next]_vars

\* A handler in flight goes on, the event loop runs every coroutine that is
\* ready, the hour of wait_for passes, the broker delivers, and a stage ends
\* (run_agent has a timeout of its own).  Users need not do anything.
Fairness ==
    /\ \A u \in Users : WF_vars(Handler(u))
    /\ WF_vars(MainLoop)
    /\ \A t \in Tasks : WF_vars(Walk(t)) /\ WF_vars(Expire(t))
    /\ \A w \in Workers : WF_vars(Work(w))
    /\ WF_vars(ConsumeResult)

FairSpec == Spec /\ Fairness

-------------------------------------------------------------------------------
(***************************************************************************)
(* What holds of the rows, the walkers and the messages.                   *)
(***************************************************************************)
Jobs     == [id : Nat \ {0}, run : Runs, idx : StageIdx]
AllOutcomes == [ok : BOOLEAN, verdict : Verdicts]
Results  == [job : Jobs, outcome : AllOutcomes]
Seens    == [rollbacks : Nat, risk : RiskLevels]
Frames   == [run : Runs, pc : WalkerPCs, idx : Nat, seen : Seens,
             job : Jobs \cup {NoJob}, answer : Results \cup {Result(NoJob, NoOutcome)}]
Checkpoints == [id : Nat \ {0}, run : Runs, idx : StageIdx,
                status : {"pending", "approved", "rejected"}]
Todos    == [run : Runs, action : Actions]

RowsOK ==
    /\ status \in [Runs -> Statuses]
    /\ action \in [Runs -> Actions \cup {NoAction}]
    /\ stepIdx \in [Runs -> Nat]
    /\ rollbacks \in [Runs -> Nat]
    /\ risk \in [Runs -> RiskLevels]

TablesOK ==
    /\ attempts \in [Runs -> [StageIdx -> Nat]]
    /\ checkpoints \subseteq Checkpoints
    /\ nextCp \in Nat \ {0}
    /\ mrs \subseteq Runs

LoopOK ==
    /\ loop.pc \in {"down", "recover", "rows", "act"}
    /\ loop.todo \subseteq Todos
    /\ loop.cur \in Todos \cup {Nothing}
    /\ active \in [Runs -> Tasks \cup {NoTask}]

WalkersOK == walker \in [Tasks -> Frames \cup {FreeSlot}]

BrokerOK ==
    /\ jobQueue \in Seq(Jobs)
    /\ resultQueue \in Seq(Results)
    /\ nextJob \in Nat \ {0}
    /\ busy \in [Workers -> Jobs \cup {NoJob}]

RequestsOK ==
    /\ request \in [Users -> [pc : RequestPCs, run : Runs, cp : Nat] \cup {Idle}]
    /\ left \in [BudgetOps -> Nat]

\* Every variable has its type: the columns those of the schema, the messages
\* and the frames those of the code.
TypeOK == RowsOK /\ TablesOK /\ LoopOK /\ WalkersOK /\ BrokerOK /\ RequestsOK

Live(t) == walker[t] # FreeSlot

\* A run is walked by at most one task at a time: the start, resume and
\* recovery paths of the poll loop never put a second walker on a run, however
\* double approvals, restarts and crashes fall.
OneWalkerPerRun ==
    \A s, t \in Tasks : Live(s) /\ Live(t) /\ RunOf(s) = RunOf(t) => s = t

\* The rollback counter of a run never passes MAX_ROLLBACKS, although the
\* walker compares and increments a copy it read an hour ago.
RollbackBudget ==
    \A r \in Runs : rollbacks[r] <= MAX_ROLLBACKS

\* The verdict a walker acts on is that of the job it published for the stage
\* it is at: results of jobs an earlier walker published (before a crash, a
\* cancel or a timeout), of redelivered jobs and of other runs never drive it.
AnswerMatchesStage ==
    \A t \in Tasks : walker[t].pc \in {"answered", "reread", "judge", "park"} =>
        /\ walker[t].answer.job = walker[t].job
        /\ walker[t].job.run = RunOf(t)
        /\ walker[t].job.idx = walker[t].idx

\* A run is past a stage with a gate only when a checkpoint opened after that
\* stage was approved: no walker is ahead of its reviewer.
GatesHold ==
    \A t \in Tasks : Live(t) /\ Exists(RunOf(t)) => \A i \in StageIdx :
        i < walker[t].idx /\ ShouldCheckpoint(AgentAt(WT(RunOf(t)), i), WT(RunOf(t)),
                                              risk[RunOf(t)])
            => \E c \in checkpoints : c.run = RunOf(t) /\ c.idx = i /\ c.status = "approved"

\* What GitLab is asked to merge has passed the gate of the release stage.
ReleasesApproved ==
    \A r \in mrs : Exists(r) =>
        \E c \in checkpoints : c.run = r /\ c.idx = Last(r) /\ c.status = "approved"

\* Without a restart no stage of a run is executed more often than once and
\* then once per rollback: what an unattended run can cost is bounded.
AttemptsBounded ==
    \A r \in Runs : \A i \in StageIdx : attempts[r][i] <= 1 + MAX_ROLLBACKS

\* A run marked running has a walker, or will be recovered by the orchestrator
\* that is starting: it is not left for a restart that the API would refuse.
NoOrphanRun ==
    \A r \in Runs : status[r] = "running" =>
        \/ \E t \in Tasks : Live(t) /\ RunOf(t) = r
        \/ loop.pc = "down"
        \/ loop.pc = "recover" /\ Todo(r, "start") \in loop.todo

\* Every walk comes to an end, by a gate, a verdict, the end of the route or a
\* timeout, and leaves the dict of active runs.
WalksEnd == \A t \in Tasks : Live(t) ~> ~Live(t)

\* A run that was filed is taken up by the orchestrator (or its user deletes it).
NewRunsAreTakenUp ==
    \A r \in Runs : status[r] = "pending" /\ action[r] = "start" ~> status[r] # "pending"
===============================================================================
