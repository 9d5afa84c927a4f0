---------------------------- MODULE StageExecutor ----------------------------
(***************************************************************************)
(* What the stages of one run do to the places its work is kept in         *)
(* (worker/src/executor.py: JobExecutor.execute): the clone on the volume  *)
(* the workers share, the .factory directory in it, the objects of MinIO   *)
(* and the artifacts table, and the branch that is pushed in the end.      *)
(*                                                                         *)
(* A file is known by its version, the number of the agent execution that  *)
(* wrote it, and the code of the run by the set of executions whose        *)
(* changes it contains.  An earlier run may have left files of its own: a  *)
(* stage commits .factory with the rest, and the base branch can have it.  *)
(* The run is walked as RunControl walks it, with reviewers who approve    *)
(* everything.  A step is what runs between two awaits; the MinIO client   *)
(* is synchronous.                                                         *)
(***************************************************************************)
EXTENDS PipelineRoutes, Integers, FiniteSets

CONSTANTS Workers,
          WorkTypesSeen, \* work types of an instance
          Files,         \* the artifacts an instance tells apart
          Bases,         \* what the base branch may hold, for each work type
          Budget         \* how often each of Mishaps may happen, and all together

\* "total" bounds their sum.  "skips" is an agent that ends well without all of
\* its files, "dbFails" a statement that raises, "redelivered" a job that is
\* delivered again although it executes or was answered, "abandon" a walk that
\* ends by timeout or cancel while its job executes.
Mishaps == {"agentFails", "skips", "failVerdict", "cloneFails", "checkoutFails",
            "sourceFails", "pushFails", "minioDown", "dbFails", "crash", "dieCommitting",
            "redelivered", "abandon", "restart", "total"}

ASSUME WorkTypesSeenAssumption == WorkTypesSeen \subseteq WorkTypes
ASSUME MishapsAssumption == Budget \in [Mishaps -> Nat]

VARIABLES
    wt,        \* the work type of the run
    base,      \* the base branch of the target repository
    walk,      \* the walker: stage, rollbacks, the job it waits for, what it accepted
    queued,    \* jobs in the queue
    frame,     \* the call of execute in each worker
    clone,     \* runs/<run>: the git side of it
    factory,   \* runs/<run>/.factory
    source,    \* runs/<run>_source
    remote,    \* the work branch in GitLab; the base branch until there is one
    minio,     \* objects of the run
    rows,      \* the artifacts table
    by,        \* the agent of each execution, in order of their ends
    passes,    \* the executions that wrote a passing verdict
    completed, \* the executions reported as completed
    warned,    \* a step log has the warning of a failed push or source clone
    left       \* what is left of Budget

disk  == <<clone, factory, source>>
store == <<remote, minio, rows>>
agent == <<by, passes>>
vars  == <<wt, base, walk, queued, frame, disk, store, agent, completed, warned, left>>

Spend(op) == /\ left[op] > 0 /\ left["total"] > 0
             /\ left' = [left EXCEPT ![op] = @ - 1, !["total"] = @ - 1]
Unspent(ops) == \A op \in ops : left[op] = Budget[op]

\* No job is executed twice at once: none is delivered again while it executes,
\* and no walk begins anew beside the job of one that was abandoned.
OneAtATime == Unspent({"redelivered"}) /\ (Unspent({"abandon"}) \/ Unspent({"restart"}))

-------------------------------------------------------------------------------
\* AGENT_ARTIFACTS: the primary artifact of each agent.
AGENT_ARTIFACTS ==
    [orchestrator |-> "routing.yaml", spec_builder |-> "spec.md",
     architecture_mapper |-> "impact-map.md", implementation |-> "patch-summary.md",
     test_contract |-> "test-plan.md", verification |-> "evidence.md",
     security_policy |-> "policy-verdict.json", release_gatekeeper |-> "pr-summary.md",
     code_archeologist |-> "codebase-map.md",
     transformation_architect |-> "transformation-plan.md",
     feature_mapper |-> "feature-map.md", transform_implementer |-> "implementation-report.md",
     compatibility_checker |-> "compatibility-report.md",
     transform_release |-> "transform-summary.md",
     infra_analyst |-> "infra-analysis.md", change_planner |-> "change-plan.md",
     safety_reviewer |-> "safety-review.md", infra_executor |-> "execution-log.md",
     health_checker |-> "health-report.md", ops_reporter |-> "ops-report.md"]

\* AGENT_INPUTS: what is downloaded from MinIO before an agent runs.
AGENT_INPUTS ==
    [orchestrator |-> {}, spec_builder |-> {"routing.yaml"},
     architecture_mapper |-> {"spec.md", "scope.yaml"},
     implementation |-> {"spec.md", "impact-map.md"},
     test_contract |-> {"spec.md", "patch-summary.md"},
     verification |-> {"test-plan.md", "regression-matrix.md", "contract-verdict.json",
                       "spec.md"},
     security_policy |-> {},
     release_gatekeeper |-> {"verdict.json", "evidence.md", "policy-verdict.json", "spec.md"},
     code_archeologist |-> {},
     transformation_architect |-> {"codebase-map.md", "feature-inventory.md", "tech-debt.md"},
     feature_mapper |-> {"feature-inventory.md", "transformation-plan.md"},
     transform_implementer |-> {"transformation-plan.md", "feature-map.md",
                                "migration-order.md"},
     compatibility_checker |-> {"feature-map.md", "implementation-report.md"},
     transform_release |-> {"transformation-plan.md", "feature-map.md",
                            "compatibility-report.md"},
     infra_analyst |-> {}, change_planner |-> {"infra-analysis.md", "infra-inventory.md"},
     safety_reviewer |-> {"change-plan.md"},
     infra_executor |-> {"change-plan.md", "safety-review.md"},
     health_checker |-> {"execution-log.md", "change-plan.md"},
     ops_reporter |-> {"infra-analysis.md", "change-plan.md", "execution-log.md",
                       "health-report.md"}]

\* The file parse_verdict reads for the agents whose verdict can fail.
VERDICT_FILES == [test_contract |-> "contract-verdict.json", verification |-> "verdict.json"]
Judges(name) == name \in DOMAIN VERDICT_FILES

ASSUME FilesAssumption == \A n \in DOMAIN VERDICT_FILES : VERDICT_FILES[n] \in Files

\* The file execute writes itself when .factory is empty after the agent.
FallbackFile == "output.md"

\* The files of an earlier run: a passing verdict, and any other.
EarlierPass == -1
Earlier     == -2

ASSUME BasesAssumption ==
    Bases \in [WorkTypesSeen ->
                 SUBSET [work : {{}}, code : BOOLEAN,
                         tree : [Files \cup {FallbackFile} -> {0, EarlierPass, Earlier}]]]

Inputs(name)  == AGENT_INPUTS[name] \cap Files
Written(name) == ({AGENT_ARTIFACTS[name]}
                    \cup {VERDICT_FILES[n] : n \in DOMAIN VERDICT_FILES \cap {name}}) \cap Files

Last == RouteLen(wt) - 1
Name(i) == AgentsRegistry(wt)[AgentAt(wt, i)]

-------------------------------------------------------------------------------
NoFiles  == [f \in Files \cup {FallbackFile} |-> 0]
In(tree) == {f \in DOMAIN tree : tree[f] # 0}
Over(new, old) == [f \in DOMAIN old |-> IF new[f] # 0 THEN new[f] ELSE old[f]]

\* Where HEAD of the clone is: there is no directory, a directory without a
\* usable repository, the base branch (as a clone leaves it), or the work branch.
\* "dirty" is in the working tree only, "own" says the history was begun by the
\* import of the source, "locked" that a dead worker left .git/index.lock, "code"
\* that the working tree has more than a README besides .git and .factory.
NoClone == [head |-> "none", own |-> FALSE, locked |-> FALSE,
            dirty |-> {}, work |-> {}, tree |-> NoFiles, code |-> FALSE]

\* The imported source code, as a member of the set of executions.
Imported == 0

NoJob == [no |-> 0, idx |-> 0]
Idle  == [job |-> NoJob, pc |-> "idle", pre |-> {}, new |-> NoFiles, up |-> NoFiles,
          exec |-> 0, verdict |-> NoVerdict, of |-> 0]

At(w, pc)   == frame[w].pc = pc
AgentOf(w)  == Name(frame[w].job.idx)
IsFinal(w)  == frame[w].job.idx = Last
Goto(w, pc) == frame' = [frame EXCEPT ![w].pc = pc]
Leave(w)    == frame' = [frame EXCEPT ![w] = Idle]

Init ==
    /\ wt \in WorkTypesSeen
    /\ base \in Bases[wt]
    /\ walk = [pc |-> "ready", no |-> 0, idx |-> 0, rb |-> 0,
               judged |-> 0, passed |-> FALSE]
    /\ queued = {}
    /\ frame = [w \in Workers |-> Idle]
    /\ clone = NoClone /\ factory = NoFiles /\ source = "none"
    /\ remote = base
    /\ minio = NoFiles
    /\ rows = {}
    /\ by = <<>> /\ passes = {} /\ completed = {}
    /\ warned = FALSE
    /\ left = Budget

-------------------------------------------------------------------------------
(***************************************************************************)
(* The walk, and what happens to it and to its jobs.                       *)
(***************************************************************************)
Publish ==
    /\ walk.pc = "ready"
    /\ walk' = [walk EXCEPT !.pc = "waiting", !.no = @ + 1]
    /\ queued' = queued \cup {[no |-> walk.no + 1, idx |-> walk.idx]}
    /\ UNCHANGED <<wt, base, frame, disk, store, agent, completed, warned, left>>

\* The walker gets the answer to the job it waits for (any other is dropped) and
\* goes back, gives up, or goes on; a failed stage has no verdict.
Answered(j, verdict, of) ==
    LET n  == AgentAt(wt, walk.idx)
        to == RollbackTarget(n, wt)
        failed == verdict = "FAIL" /\ to # NoTarget
        next   == [walk EXCEPT !.pc = IF walk.idx = Last THEN "over" ELSE "ready",
                               !.idx = IF walk.idx = Last THEN @ ELSE @ + 1]
        onward == IF Name(walk.idx) # "verification" THEN next
                  ELSE [next EXCEPT !.judged = of, !.passed = verdict = "PASS"]
    IN  walk' = IF walk.pc # "waiting" \/ walk.no # j.no THEN walk
                ELSE IF ~failed THEN onward
                ELSE IF walk.rb >= MAX_ROLLBACKS THEN [walk EXCEPT !.pc = "over"]
                ELSE [walk EXCEPT !.pc = "ready", !.rb = @ + 1, !.idx = FindStepIndex(wt, to)]

\* The wait times out, or the run is cancelled: its job goes on.
Abandon ==
    /\ walk.pc = "waiting"
    /\ Spend("abandon")
    /\ walk' = [walk EXCEPT !.pc = "over"]
    /\ UNCHANGED <<wt, base, queued, frame, disk, store, agent, completed, warned>>

\* POST /runs/r/restart begins again at stage 0.  The directory it removes is
\* repos_dir/<run>, where no worker ever put anything.
Restart ==
    /\ walk.pc = "over"
    /\ Spend("restart")
    /\ walk' = [walk EXCEPT !.pc = "ready", !.idx = 0, !.rb = 0,
                             !.judged = 0, !.passed = FALSE]
    /\ UNCHANGED <<wt, base, queued, frame, disk, store, agent, completed, warned>>

-------------------------------------------------------------------------------
(***************************************************************************)
(* execute, cut at its awaits.                                             *)
(***************************************************************************)
Take(w) ==
    /\ At(w, "idle")
    /\ \E j \in queued : /\ queued' = queued \ {j}
                         /\ frame' = [frame EXCEPT ![w] = [Idle EXCEPT !.job = j, !.pc = "begin"]]
    /\ UNCHANGED <<wt, base, walk, disk, store, agent, completed, warned, left>>

\* repo_dir.exists(): a directory that is there is used as it is.
Begin(w) ==
    /\ At(w, "begin")
    /\ IF clone.head = "none" THEN clone' = [clone EXCEPT !.head = "partial"] /\ Goto(w, "clone")
       ELSE Goto(w, "prepare") /\ UNCHANGED clone
    /\ UNCHANGED <<wt, base, walk, queued, factory, source, store, agent, completed, warned, left>>

CloneRepo(w) ==
    /\ At(w, "clone") /\ clone.head # "none"
    /\ clone' = [clone EXCEPT !.head = "base", !.tree = base.tree, !.code = base.code]
    /\ factory' = Over(base.tree, factory)
    /\ Goto(w, "checkout")
    /\ UNCHANGED <<wt, base, walk, queued, source, store, agent, completed, warned, left>>

\* git removes the directory of a clone that failed; one that is killed after
\* 120 seconds leaves it.
CloneFails(w) ==
    /\ At(w, "clone")
    /\ Spend("cloneFails")
    /\ clone' \in {NoClone, clone}
    /\ Goto(w, "fail")
    /\ UNCHANGED <<wt, base, walk, queued, factory, source, store, agent, completed, warned>>

\* What git checkout makes of .factory: what the two branches differ in changes.
Switched(tree) == [f \in DOMAIN factory |->
                      IF tree[f] # clone.tree[f] THEN tree[f] ELSE factory[f]]

\* The work branch as it is in GitLab, or a new one from the base branch (which
\* has none of the run's work) when GitLab has none.
Checkout(w) ==
    /\ At(w, "checkout") /\ clone.head # "none"
    /\ clone' = [clone EXCEPT !.head = "work", !.work = remote.work, !.tree = remote.tree,
                              !.code = remote.code]
    /\ factory' = Switched(remote.tree)
    /\ Goto(w, "prepare")
    /\ UNCHANGED <<wt, base, walk, queued, source, store, agent, completed, warned, left>>

\* The first checkout fails although GitLab has the branch, and it is made anew
\* from the base branch; or the others fail, and the clone stays where it is.
CheckoutFails(w) ==
    /\ At(w, "checkout")
    /\ Spend("checkoutFails")
    /\ \/ clone' = [clone EXCEPT !.head = "work"] /\ Goto(w, "prepare")
       \/ UNCHANGED clone /\ Goto(w, "fail")
    /\ UNCHANGED <<wt, base, walk, queued, factory, source, store, agent, completed, warned>>

\* After the inputs are on disk: the source is cloned once, for transformations.
Prepared(w, tree) ==
    /\ factory' = tree
    /\ clone' = [clone EXCEPT !.head = IF @ = "none" THEN "partial" ELSE @]
    /\ LET sourcing == wt = "transformation" /\ source = "none" IN
       /\ source' = IF sourcing THEN "partial" ELSE source
       /\ frame' = [frame EXCEPT ![w].pc = IF sourcing THEN "source" ELSE "agent",
                                 ![w].pre = In(tree)]
    /\ UNCHANGED <<wt, base, walk, queued, store, agent, completed, warned>>

\* ensure_artifact_dir (which makes a missing directory), the downloads over
\* whatever is there, and the snapshot of the files that exist by then.
Prepare(w) ==
    /\ At(w, "prepare")
    /\ Prepared(w, [f \in DOMAIN factory |->
                        IF f \in Inputs(AgentOf(w)) /\ minio[f] # 0 THEN minio[f] ELSE factory[f]])
    /\ UNCHANGED left

\* MinIO does not answer: each failed download is a warning.
PrepareOffline(w) ==
    /\ At(w, "prepare")
    /\ Spend("minioDown")
    /\ Prepared(w, factory)

\* At most a README besides .git and .factory.
TargetEmpty == ~clone.code

CloneSource(w) ==
    /\ At(w, "source")
    /\ source' = "ready"
    /\ Goto(w, IF TargetEmpty THEN "import" ELSE "agent")
    /\ UNCHANGED <<wt, base, walk, queued, clone, factory, store, agent, completed, warned, left>>

\* cp -a, rm -rf .git, git init, commit, remote add, checkout -b.
ImportSource(w) ==
    /\ At(w, "import")
    /\ clone' = [clone EXCEPT !.head = "work", !.own = TRUE, !.locked = FALSE, !.tree = factory,
                              !.code = TRUE,
                              !.work = clone.work \cup clone.dirty \cup {Imported}, !.dirty = {}]
    /\ Goto(w, "agent")
    /\ UNCHANGED <<wt, base, walk, queued, factory, source, store, agent, completed, warned, left>>

\* What is left of a clone of the source, or of its import, that fails midway.
SourceLeft(w) ==
    IF At(w, "source") THEN source' \in {"none", "partial"} /\ UNCHANGED clone
    ELSE clone' \in {clone, [clone EXCEPT !.head = "partial"]} /\ UNCHANGED source

\* Mutant: the failure is only in the worker's own log.
MutantSourceFails(w) ==
    /\ At(w, "source") \/ At(w, "import")
    /\ Spend("sourceFails")
    /\ SourceLeft(w)
    /\ Goto(w, "agent")
    /\ UNCHANGED <<wt, base, walk, queued, factory, store, agent, completed, warned>>

\* Whatever fails is a warning in the step's log, and the stage goes on: without
\* the source, or in a clone whose .git is gone.
SourceFails(w) ==
    /\ At(w, "source") \/ At(w, "import")
    /\ Spend("sourceFails")
    /\ SourceLeft(w)
    /\ Goto(w, "agent")
    /\ warned' = TRUE
    /\ UNCHANGED <<wt, base, walk, queued, factory, store, agent, completed>>

\* Mutant: an agent without a verdict file has passed.
MutantVerdictOf(name, tree, good) ==
    IF ~Judges(name) THEN NoVerdict
    ELSE IF tree[VERDICT_FILES[name]] \in good \cup {EarlierPass, 0} THEN "PASS" ELSE "FAIL"

\* parse_verdict: the file that is there, whoever wrote it; none has failed.
VerdictOf(name, tree, good) ==
    IF ~Judges(name) THEN NoVerdict
    ELSE IF tree[VERDICT_FILES[name]] \in good \cup {EarlierPass} THEN "PASS" ELSE "FAIL"

\* The agent of the next execution has written the files S, and code or not.
Wrote(w, S) ==
    /\ clone.head # "none"
    /\ by' = Append(by, AgentOf(w))
    /\ clone' \in {[clone EXCEPT !.dirty = @ \cup {Len(by) + 1}, !.code = c] :
                      c \in {clone.code, TRUE}}
    /\ factory' = [f \in DOMAIN factory |-> IF f \in S THEN Len(by) + 1 ELSE factory[f]]

\* run_agent returns: the verdict is parsed, and the agent's text becomes an
\* artifact where .factory is empty.
Ran(w, S, good) ==
    LET name == AgentOf(w)
        own  == IF In(factory) \cup S = {} THEN {FallbackFile} ELSE S
        tree == [f \in DOMAIN factory |-> IF f \in own THEN Len(by) + 1 ELSE factory[f]]
    IN  /\ Wrote(w, own)
        /\ passes' = good
        /\ frame' = [frame EXCEPT
                       ![w].pc = "commit", ![w].exec = Len(by) + 1,
                       ![w].verdict = VerdictOf(name, tree, good),
                       ![w].of = IF Judges(name) THEN tree[VERDICT_FILES[name]] ELSE 0]
        /\ UNCHANGED <<wt, base, walk, queued, source, store, completed, warned>>

RunAgent(w) ==
    /\ At(w, "agent")
    /\ \/ Ran(w, Written(AgentOf(w)), passes \cup {Len(by) + 1}) /\ UNCHANGED left
       \/ Judges(AgentOf(w)) /\ Spend("failVerdict") /\ Ran(w, Written(AgentOf(w)), passes)

\* The agent exits with 0 and has left out files of its own.
SkipFiles(w) ==
    /\ At(w, "agent")
    /\ Spend("skips")
    /\ \E S \in SUBSET Written(AgentOf(w)) \ {Written(AgentOf(w))} :
          Ran(w, S, passes \cup {Len(by) + 1})

\* A timeout, a kill or an exit code: what it wrote by then stays in the clone.
AgentFails(w) ==
    /\ At(w, "agent")
    /\ Spend("agentFails")
    /\ \E S \in {{}, Written(AgentOf(w))} : Wrote(w, S)
    /\ passes' = passes \cup {Len(by) + 1}
    /\ Goto(w, "fail")
    /\ UNCHANGED <<wt, base, walk, queued, source, store, completed, warned>>

\* commit_all_changes: git add -A takes what other executions left, too.  Its
\* exit codes are not looked at, so that nothing is committed, and nothing said,
\* where there is no usable repository or a lock.
Commit(w) ==
    /\ At(w, "commit") /\ clone.head # "none"
    /\ clone' = IF clone.head = "partial" \/ clone.locked THEN clone
                ELSE [clone EXCEPT !.work = @ \cup clone.dirty, !.dirty = {}, !.tree = factory]
    /\ Goto(w, IF IsFinal(w) THEN "push" ELSE "upload")
    /\ UNCHANGED <<wt, base, walk, queued, factory, source, store, agent, completed, warned, left>>

\* The directory was removed by the last stage, executed elsewhere: the next
\* command in it raises.
DirGone(w) ==
    /\ frame[w].pc \in {"clone", "checkout", "agent", "commit"} /\ clone.head = "none"
    /\ Goto(w, "fail")
    /\ UNCHANGED <<wt, base, walk, queued, disk, store, agent, completed, warned, left>>

\* Mutant: a failed push is not written to the step's log.
MutantWarn == UNCHANGED warned

\* append_step_log("[WARNING] Git push failed: ...")
Warn == warned' = TRUE

\* The branch is there and its history continues the one in GitLab.
Pushable == /\ clone.head = "work"
            /\ remote.work \subseteq clone.work
            /\ clone.own => remote.work = {}

\* What a lock kept from being committed is not in the branch.
Push(w) ==
    /\ At(w, "push")
    /\ IF Pushable
       THEN /\ remote' \in {[work |-> clone.work, tree |-> clone.tree, code |-> c] :
                             c \in IF clone.dirty = {} THEN {clone.code}
                                   ELSE {clone.code, remote.code}}
            /\ clone' = [clone EXCEPT !.own = FALSE]
            /\ UNCHANGED warned
       ELSE Warn /\ UNCHANGED <<remote, clone>>
    /\ Goto(w, "upload")
    /\ UNCHANGED <<wt, base, walk, queued, factory, source, minio, rows, agent, completed, left>>

PushFails(w) ==
    /\ At(w, "push")
    /\ Spend("pushFails")
    /\ Warn
    /\ Goto(w, "upload")
    /\ UNCHANGED <<wt, base, walk, queued, disk, store, agent, completed>>

\* all_produced - pre_existing
NewFiles(w) == In(factory) \ frame[w].pre

\* Only files that were not there before the agent ran are uploaded.
Uploaded(w, S) ==
    /\ minio' = [f \in DOMAIN minio |-> IF f \in S THEN factory[f] ELSE minio[f]]
    /\ frame' = [frame EXCEPT
                   ![w].pc = "record",
                   ![w].new = [f \in DOMAIN minio |-> IF f \in NewFiles(w) THEN factory[f] ELSE 0],
                   ![w].up = [f \in DOMAIN minio |-> IF f \in S THEN factory[f] ELSE 0]]
    /\ UNCHANGED <<wt, base, walk, queued, disk, remote, rows, agent, completed, warned>>

Upload(w) ==
    /\ At(w, "upload")
    /\ Uploaded(w, NewFiles(w))
    /\ UNCHANGED left

\* Some uploads fail, with a warning of the worker's own.
UploadFails(w) ==
    /\ At(w, "upload")
    /\ Spend("minioDown")
    /\ \E S \in SUBSET NewFiles(w) \ {NewFiles(w)} : Uploaded(w, S)

\* Mutant: the row of a file has a URL although the upload has failed.
MutantUrl(w, f) == frame[w].new[f]

\* storage_url: the object it leads to, of the files that were uploaded; 0 is none.
Url(w, f) == frame[w].up[f]

Rows(w) == {[file |-> f, version |-> Url(w, f)] : f \in In(frame[w].new)}

\* create_artifact for each new file, with the URL of those uploaded.
Record(w) ==
    /\ At(w, "record")
    /\ rows' = rows \cup Rows(w)
    /\ Goto(w, IF IsFinal(w) THEN "cleanup" ELSE "report")
    /\ UNCHANGED <<wt, base, walk, queued, disk, remote, minio, agent, completed, warned, left>>

\* rmtree, of the clone and of the source.
Cleanup(w) ==
    /\ At(w, "cleanup")
    /\ clone' = NoClone /\ factory' = NoFiles /\ source' = "none"
    /\ Goto(w, "report")
    /\ UNCHANGED <<wt, base, walk, queued, store, agent, completed, warned, left>>

\* Mutant: executions are counted by their jobs.
MutantExecOf(w) == frame[w].job.no

ExecOf(w) == frame[w].exec

\* update_step(completed)
Report(w) ==
    /\ At(w, "report")
    /\ completed' = completed \cup {ExecOf(w)}
    /\ Goto(w, "answer")
    /\ UNCHANGED <<wt, base, walk, queued, disk, store, agent, warned, left>>

\* The ResultMessage; a stage that failed leaves the clone as it is.
Tell(w) == \/ At(w, "answer") /\ Answered(frame[w].job, frame[w].verdict, frame[w].of)
           \/ At(w, "fail") /\ Answered(frame[w].job, NoVerdict, 0)

\* The answer is published and the job acknowledged.
Answer(w) ==
    /\ Tell(w)
    /\ Leave(w)
    /\ UNCHANGED <<wt, base, queued, disk, store, agent, completed, warned, left>>

-------------------------------------------------------------------------------
\* The worker dies with its answer published and not acknowledged.  (The worker
\* does nothing in between, and a job may stay in the queue as long as it likes.)
DieAnswered(w) ==
    /\ Tell(w)
    /\ Spend("redelivered")
    /\ queued' = queued \cup {frame[w].job}
    /\ Leave(w)
    /\ UNCHANGED <<wt, base, disk, store, agent, completed, warned>>

\* A statement raises: when the stage begins, or where it logs what it is about
\* to do or could not do, records a row, or reports.  The stage fails where it is.
DbFails(w) ==
    /\ frame[w].pc \in {"begin", "source", "import", "agent", "push", "record", "report"}
    /\ Spend("dbFails")
    /\ IF At(w, "source") \/ At(w, "import") THEN SourceLeft(w) ELSE UNCHANGED <<clone, source>>
    /\ rows' \in IF At(w, "record") THEN {rows \cup S : S \in SUBSET Rows(w)} ELSE {rows}
    /\ Goto(w, "fail")
    /\ UNCHANGED <<wt, base, walk, queued, factory, remote, minio, agent, completed, warned>>

\* The worker dies at one of these awaits and the broker delivers the job again.
Crash(w) ==
    /\ ~At(w, "idle")
    /\ Spend("crash")
    /\ queued' = queued \cup {frame[w].job}
    /\ Leave(w)
    /\ UNCHANGED <<wt, base, walk, disk, store, agent, completed, warned>>

\* ... while git holds its lock.
DieCommitting(w) ==
    /\ At(w, "commit") /\ clone.head \in {"base", "work"}
    /\ Spend("dieCommitting")
    /\ clone' = [clone EXCEPT !.locked = TRUE]
    /\ queued' = queued \cup {frame[w].job}
    /\ Leave(w)
    /\ UNCHANGED <<wt, base, walk, factory, source, store, agent, completed, warned>>

\* The connection is lost: the job is delivered again while it executes.
Redeliver(w) ==
    /\ ~At(w, "idle")
    /\ Spend("redelivered")
    /\ queued' = queued \cup {frame[w].job}
    /\ UNCHANGED <<wt, base, walk, frame, disk, store, agent, completed, warned>>

Execute(w) ==
    \/ Take(w) \/ Begin(w) \/ CloneRepo(w) \/ Checkout(w) \/ Prepare(w) \/ CloneSource(w)
    \/ ImportSource(w) \/ RunAgent(w) \/ Commit(w) \/ DirGone(w) \/ Push(w) \/ Upload(w)
    \/ Record(w) \/ Cleanup(w) \/ Report(w) \/ Answer(w)

Mishap(w) ==
    \/ CloneFails(w) \/ CheckoutFails(w) \/ PrepareOffline(w) \/ SourceFails(w) \/ SkipFiles(w)
    \/ AgentFails(w) \/ PushFails(w) \/ UploadFails(w) \/ DbFails(w) \/ Crash(w)
    \/ DieCommitting(w) \/ DieAnswered(w) \/ Redeliver(w)

Next == \/ Publish \/ Abandon \/ Restart
        \/ \E w \in Workers : Execute(w) \/ Mishap(w)

Spec == Init /\ [][Next]_vars

-------------------------------------------------------------------------------
Versions == [Files \cup {FallbackFile} -> Int]
Branches == [work : SUBSET Nat, tree : Versions, code : BOOLEAN]
Walks    == [pc : {"ready", "waiting", "over"}, no : Nat, idx : 0..Last, rb : 0..MAX_ROLLBACKS,
             judged : Int, passed : BOOLEAN]
JobsOf   == [no : Nat, idx : 0..Last]
FramePCs == {"idle", "begin", "clone", "checkout", "prepare", "source", "import", "agent",
             "commit", "push", "upload", "record", "cleanup", "report", "answer", "fail"}
Frames   == [job : JobsOf, pc : FramePCs, pre : SUBSET DOMAIN NoFiles, new : Versions,
             up : Versions, exec : Nat, verdict : {NoVerdict, "PASS", "FAIL"}, of : Int]
Clones   == [head : {"none", "partial", "base", "work"}, own : BOOLEAN, locked : BOOLEAN,
             dirty : SUBSET Nat, work : SUBSET Nat, tree : Versions, code : BOOLEAN]

\* The disk, the stores and the frames keep their types.
TypeOK ==
    /\ wt \in WorkTypesSeen /\ base \in Bases[wt]
    /\ walk \in Walks
    /\ queued \subseteq JobsOf
    /\ frame \in [Workers -> Frames]
    /\ clone \in Clones
    /\ remote \in Branches
    /\ clone.dirty \cup clone.work \cup remote.work \subseteq 0..Len(by)
    /\ {factory, minio} \subseteq Versions
    /\ source \in {"none", "partial", "ready"}
    /\ rows \subseteq [file : DOMAIN NoFiles, version : Int]
    /\ by \in Seq(DOMAIN AGENT_ARTIFACTS)
    /\ passes \cup completed \subseteq 1..Len(by)
    /\ warned \in BOOLEAN
    /\ left \in [Mishaps -> Nat]

\* The code a stage reported as completed is never lost without a word: it is in
\* the clone or in the pushed branch, or a step log has the warning that a push
\* failed.  Neither clones that were cut short, nor crashes, nor restarts change
\* that; a lock left by a dead worker and two executions at once do.
WorkIsKept ==
    OneAtATime /\ Unspent({"dieCommitting"}) =>
        warned \/ completed \subseteq clone.work \cup clone.dirty \cup remote.work

\* In a first walk the verdict that lets a run past its verification is a pass an
\* agent wrote, and wrote after the last change of the implementation agent,
\* although parse_verdict takes whatever file an earlier attempt has left; or it
\* is the pass of an earlier run that came with the base branch, and no other.
VerdictIsOfThisCode ==
    Unspent({"restart", "redelivered"}) /\ walk.passed =>
        \/ walk.judged = EarlierPass /\ base.tree["verdict.json"] = EarlierPass
        \/ /\ walk.judged \in passes
           /\ \A e \in 1..Len(by) : by[e] = "implementation" => e < walk.judged

\* No transformation agent works on an empty target unless a step log says why,
\* as long as no worker dies between the clone of the source and its import, no
\* statement fails, and no job is executed twice at once.
SourceIsImported ==
    OneAtATime /\ Unspent({"crash", "dbFails"}) =>
        \A w \in Workers : wt = "transformation" /\ At(w, "agent") /\ ~warned => ~TargetEmpty

\* The URL in an artifact's row leads to an object at least as new as the row:
\* a file that other executions rewrite or download over does not go back behind
\* what has been recorded, over rollbacks, crashes and restarts.  A job that
\* outlives the clone it was begun in can upload what the next one has of it.
RowsBacked == OneAtATime => \A r \in rows : r.version <= minio[r.file]
===============================================================================
