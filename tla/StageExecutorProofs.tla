------------------------- MODULE StageExecutorProofs -------------------------
(***************************************************************************)
(* Theorems about StageExecutor, for any number of workers, any files and  *)
(* any budget of mishaps.  IInv is inductive; the invariants of            *)
(* StageExecutor follow from it.                                           *)
(***************************************************************************)
EXTENDS StageExecutorInvariant, TLAPS

-------------------------------------------------------------------------------
\* The stages of a run.

\* The agents of every route, by name.
LEMMA StageTable ==
    ASSUME TypeOK
    PROVE  \/ /\ wt \in {"bugfix", "hotfix", "refactor"} /\ Last = 5
              /\ Name(0) = "orchestrator"
              /\ Name(1) \in {"spec_builder", "architecture_mapper"}
              /\ Name(2) = "implementation" /\ Name(3) = "test_contract"
              /\ Name(4) = "verification" /\ Name(5) = "release_gatekeeper"
              /\ \A i \in 0..5 : AgentAt(wt, i) \in {5, 6} => i \in {3, 4}
              /\ AgentAt(wt, 2) = 4
           \/ /\ wt \in {"migration", "feature"} /\ Last = 7
              /\ Name(0) = "orchestrator" /\ Name(1) = "spec_builder"
              /\ Name(2) = "architecture_mapper" /\ Name(3) = "implementation"
              /\ Name(4) = "test_contract" /\ Name(5) = "verification"
              /\ Name(6) = "security_policy" /\ Name(7) = "release_gatekeeper"
              /\ \A i \in 0..7 : AgentAt(wt, i) = i + 1
           \/ /\ wt = "transformation" /\ Last = 5
              /\ Name(0) = "code_archeologist" /\ Name(1) = "transformation_architect"
              /\ Name(2) = "feature_mapper" /\ Name(3) = "transform_implementer"
              /\ Name(4) = "compatibility_checker" /\ Name(5) = "transform_release"
              /\ \A i \in 0..5 : AgentAt(wt, i) = i + 1
           \/ /\ wt = "devops" /\ Last = 5
              /\ Name(0) = "infra_analyst" /\ Name(1) = "change_planner"
              /\ Name(2) = "safety_reviewer" /\ Name(3) = "infra_executor"
              /\ Name(4) = "health_checker" /\ Name(5) = "ops_reporter"
              /\ \A i \in 0..5 : AgentAt(wt, i) = i + 1
  <1>1. wt \in WorkTypes
    BY WorkTypesSeenAssumption DEF TypeOK
  <1>2. CASE wt \in {"bugfix", "hotfix"}
    <2>1. GetRoute(wt) = <<1, 2, 4, 5, 6, 8>> /\ AgentsRegistry(wt) = AGENTS
      BY <1>2 DEF GetRoute, ROUTES, AgentsRegistry
    <2>2. /\ Last = 5
          /\ AgentAt(wt, 0) = 1 /\ AgentAt(wt, 1) = 2 /\ AgentAt(wt, 2) = 4 /\ AgentAt(wt, 3) = 5
          /\ AgentAt(wt, 4) = 6 /\ AgentAt(wt, 5) = 8
      BY <2>1 DEF Last, RouteLen, AgentAt
    <2> QED BY <1>2, <2>1, <2>2 DEF Name, AGENTS
  <1>3. CASE wt = "refactor"
    <2>1. GetRoute(wt) = <<1, 3, 4, 5, 6, 8>> /\ AgentsRegistry(wt) = AGENTS
      BY <1>3 DEF GetRoute, ROUTES, AgentsRegistry
    <2>2. /\ Last = 5
          /\ AgentAt(wt, 0) = 1 /\ AgentAt(wt, 1) = 3 /\ AgentAt(wt, 2) = 4 /\ AgentAt(wt, 3) = 5
          /\ AgentAt(wt, 4) = 6 /\ AgentAt(wt, 5) = 8
      BY <2>1 DEF Last, RouteLen, AgentAt
    <2> QED BY <1>3, <2>1, <2>2 DEF Name, AGENTS
  <1>4. CASE wt \in {"migration", "feature"}
    <2>1. GetRoute(wt) = <<1, 2, 3, 4, 5, 6, 7, 8>> /\ AgentsRegistry(wt) = AGENTS
      BY <1>4 DEF GetRoute, ROUTES, AgentsRegistry
    <2>2. /\ Last = 7
          /\ AgentAt(wt, 0) = 1 /\ AgentAt(wt, 1) = 2 /\ AgentAt(wt, 2) = 3 /\ AgentAt(wt, 3) = 4
          /\ AgentAt(wt, 4) = 5 /\ AgentAt(wt, 5) = 6 /\ AgentAt(wt, 6) = 7 /\ AgentAt(wt, 7) = 8
      BY <2>1 DEF Last, RouteLen, AgentAt
    <2> QED BY <1>4, <2>1, <2>2 DEF Name, AGENTS
  <1>5. CASE wt = "transformation"
    <2>1. GetRoute(wt) = <<1, 2, 3, 4, 5, 6>> /\ AgentsRegistry(wt) = TRANSFORM_AGENTS
      BY <1>5 DEF GetRoute, ROUTES, AgentsRegistry
    <2>2. /\ Last = 5
          /\ AgentAt(wt, 0) = 1 /\ AgentAt(wt, 1) = 2 /\ AgentAt(wt, 2) = 3 /\ AgentAt(wt, 3) = 4
          /\ AgentAt(wt, 4) = 5 /\ AgentAt(wt, 5) = 6
      BY <2>1 DEF Last, RouteLen, AgentAt
    <2> QED BY <1>5, <2>1, <2>2 DEF Name, TRANSFORM_AGENTS
  <1>6. CASE wt = "devops"
    <2>1. GetRoute(wt) = <<1, 2, 3, 4, 5, 6>> /\ AgentsRegistry(wt) = DEVOPS_AGENTS
      BY <1>6 DEF GetRoute, ROUTES, AgentsRegistry
    <2>2. /\ Last = 5
          /\ AgentAt(wt, 0) = 1 /\ AgentAt(wt, 1) = 2 /\ AgentAt(wt, 2) = 3 /\ AgentAt(wt, 3) = 4
          /\ AgentAt(wt, 4) = 5 /\ AgentAt(wt, 5) = 6
      BY <2>1 DEF Last, RouteLen, AgentAt
    <2> QED BY <1>6, <2>1, <2>2 DEF Name, DEVOPS_AGENTS
  <1> QED BY <1>1, <1>2, <1>3, <1>4, <1>5, <1>6 DEF WorkTypes

\* Every stage has an agent with an artifact and inputs of its own.
LEMMA StageNamed ==
    ASSUME TypeOK
    PROVE  /\ Last \in 5..7
           /\ \A i \in 0..Last : Name(i) \in DOMAIN AGENT_ARTIFACTS
  BY StageTable DEF AGENT_ARTIFACTS

\* The verification is one stage, after that of the implementation agent and
\* before the last.
LEMMA OneVerification ==
    ASSUME TypeOK, NEW i \in 0..Last
    PROVE  /\ Name(i) = "verification" => i < Last /\ ~ToVerify(i + 1)
           /\ Name(i) = "implementation" => ToVerify(i) /\ Name(i) # "verification"
           /\ ToVerify(i) => i < Last
           /\ i < Last /\ ToVerify(i + 1) => ToVerify(i) /\ Name(i) # "verification"
  <1>1. Last \in Nat
    BY StageNamed
  <1> QED BY <1>1, StageTable DEF ToVerify

\* A rollback goes back, to the implementation, from a stage before which the
\* verification is still to come, if the route has one.
LEMMA RollbackGoesBack ==
    ASSUME TypeOK, NEW i \in 0..Last,
           LET to == RollbackTarget(AgentAt(wt, i), wt) IN to # NoTarget
    PROVE  /\ FindStepIndex(wt, RollbackTarget(AgentAt(wt, i), wt)) \in 0..Last
           /\ i < Last
           /\ ToVerify(i) \/ \A k \in 0..Last : Name(k) # "verification"
  <1> DEFINE n == AgentAt(wt, i)
  <1>1. RollbackTarget(n, wt) = 4 /\ n \in {5, 6}
        /\ (wt \in {"transformation", "devops"} => n = 5)
    BY DEF RollbackTarget, NoTarget
  <1>2. \E k \in 0..Last : AgentAt(wt, k) = 4
    BY StageTable
  <1>3. FindStepIndex(wt, 4) \in 0..Last
    BY <1>2 DEF FindStepIndex, Last
  <1>4. i < Last
    BY <1>1, StageTable
  <1>5. CASE wt \in {"transformation", "devops"}
    <2>1. \A k \in 0..Last : Name(k) # "verification"
      BY <1>5, StageTable
    <2> QED BY <1>1, <1>3, <1>4, <2>1
  <1>6. CASE wt \notin {"transformation", "devops"}
    <2>1. ToVerify(i)
      BY <1>1, <1>6, StageTable DEF ToVerify
    <2> QED BY <1>1, <1>3, <1>4, <2>1
  <1> QED BY <1>5, <1>6

\* No stage but the verification writes the file of its verdict, and none before
\* it downloads one.
LEMMA VerdictFileOf ==
    ASSUME TypeOK, NEW i \in 0..Last
    PROVE  /\ VerdictFile \in Files
           /\ VerdictFile # FallbackFile
           /\ VerdictFile \in Written(Name(i)) => Name(i) = "verification"
           /\ VerdictFile \in Inputs(Name(i)) => ~ToVerify(i)
  <1>1. VerdictFile \in Files
    BY FilesAssumption DEF VERDICT_FILES, VerdictFile
  <1>2. VerdictFile \in Written(Name(i)) => Name(i) = "verification"
    <2>1. AGENT_ARTIFACTS[Name(i)] # VerdictFile
      BY StageTable DEF AGENT_ARTIFACTS, VerdictFile
    <2>2. Name(i) # "verification" =>
             VerdictFile \notin {VERDICT_FILES[n] : n \in DOMAIN VERDICT_FILES \cap {Name(i)}}
      BY DEF VERDICT_FILES, VerdictFile
    <2> QED BY <2>1, <2>2 DEF Written
  <1>3. VerdictFile \in Inputs(Name(i)) => ~ToVerify(i)
    <2>1. VerdictFile \in Inputs(Name(i)) => Name(i) = "release_gatekeeper"
      BY StageTable DEF Inputs, AGENT_INPUTS, VerdictFile
    <2>2. Name(i) = "release_gatekeeper" => i = Last
      BY StageTable
    <2> QED BY <2>1, <2>2, OneVerification
  <1> QED BY <1>1, <1>2, <1>3 DEF VerdictFile, FallbackFile

\* The work type of a run stays, and with it its stages.
LEMMA SameStages ==
    ASSUME wt' = wt
    PROVE  /\ Last' = Last
           /\ \A i : Name(i)' = Name(i)
           /\ \A i : ToVerify(i)' = ToVerify(i)
           /\ JobsOf' = JobsOf /\ Frames' = Frames /\ Walks' = Walks
  <1>1. Last' = Last /\ \A i : Name(i)' = Name(i)
    BY DEF Last, Name
  <1>2. JobsOf' = JobsOf
    BY <1>1 DEF JobsOf
  <1> QED BY <1>1, <1>2 DEF ToVerify, Frames, Walks

-------------------------------------------------------------------------------
\* What a step leaves alone.

\* The actions of one worker.
Step(w) == Execute(w) \/ Mishap(w)

LEMMA BudgetTyped == Budget \in [Mishaps -> Nat]
  BY MishapsAssumption

\* A mishap is paid for.
LEMMA Spending ==
    ASSUME left \in [Mishaps -> Nat], BudgetsShrink, NEW op \in Mishaps \ {"total"}, Spend(op)
    PROVE  /\ left' \in [Mishaps -> Nat]
           /\ \A p \in Mishaps : left'[p] <= left[p]
           /\ left'[op] # Budget[op]
  <1>1. "total" \in Mishaps
    BY DEF Mishaps
  <1>2. /\ left[op] \in Nat /\ left["total"] \in Nat /\ Budget[op] \in Nat
        /\ left[op] > 0 /\ left["total"] > 0
        /\ left' = [left EXCEPT ![op] = @ - 1, !["total"] = @ - 1]
    BY <1>1, BudgetTyped DEF Spend
  <1>3. left[op] <= Budget[op]
    BY DEF BudgetsShrink
  <1>4. \A p \in Mishaps : left[p] \in Nat
    OBVIOUS
  <1>5. left'[op] = left[op] - 1
    BY <1>1, <1>2
  <1>6. \A p \in Mishaps : left'[p] = IF p \in {op, "total"} THEN left[p] - 1 ELSE left[p]
    BY <1>1, <1>2
  <1>7. \A p \in Mishaps : left'[p] \in Nat /\ left'[p] <= left[p]
    BY <1>2, <1>4, <1>6
  <1>8. left' \in [Mishaps -> Nat]
    BY <1>2, <1>7
  <1>9. left'[op] # Budget[op]
    BY <1>2, <1>3, <1>5
  <1> QED BY <1>7, <1>8, <1>9

\* Every step keeps the work type and the base branch, and pays or keeps the budget.
LEMMA Paid ==
    ASSUME left \in [Mishaps -> Nat], BudgetsShrink, [Next]_vars
    PROVE  /\ wt' = wt /\ base' = base
           /\ left' = left \/ \E op \in Mishaps \ {"total"} : Spend(op)
  <1>1. CASE Next
    <2>1. CASE Publish \/ Abandon \/ Restart
      BY <2>1 DEF Publish, Abandon, Restart, Mishaps
    <2>2. ASSUME NEW w \in Workers, Execute(w)
          PROVE  wt' = wt /\ base' = base
                 /\ (left' = left \/ \E op \in Mishaps \ {"total"} : Spend(op))
      BY <2>2 DEF Execute, Take, Begin, CloneRepo, Checkout, Prepare, Prepared, CloneSource,
                  ImportSource, RunAgent, Ran, Commit, DirGone, Push, Upload, Uploaded, Record,
                  Cleanup, Report, Answer, Mishaps
    <2>3. ASSUME NEW w \in Workers, Mishap(w)
          PROVE  wt' = wt /\ base' = base
                 /\ (left' = left \/ \E op \in Mishaps \ {"total"} : Spend(op))
      BY <2>3 DEF Mishap, CloneFails, CheckoutFails, PrepareOffline, Prepared, SourceFails,
                  SkipFiles, AgentFails, Ran, PushFails, UploadFails, Uploaded, DbFails, Crash,
                  DieCommitting, DieAnswered, Redeliver, Mishaps
    <2> QED BY <1>1, <2>1, <2>2, <2>3 DEF Next
  <1>2. CASE UNCHANGED vars
    BY <1>2 DEF vars
  <1> QED BY <1>1, <1>2

\* What has not happened by now had not happened before.
LEMMA Unhappened ==
    ASSUME left \in [Mishaps -> Nat], BudgetsShrink, [Next]_vars
    PROVE  /\ left' \in [Mishaps -> Nat]
           /\ BudgetsShrink'
           /\ \A ops \in SUBSET Mishaps : Unspent(ops)' => Unspent(ops)
           /\ OneAtATime' => OneAtATime
  <1>1. left' \in [Mishaps -> Nat] /\ \A p \in Mishaps : left'[p] <= left[p]
    BY Paid, Spending
  <1>2. \A p \in Mishaps : left[p] \in Nat /\ left'[p] \in Nat /\ Budget[p] \in Nat
                           /\ left[p] <= Budget[p]
    BY <1>1, BudgetTyped DEF BudgetsShrink
  <1>3. BudgetsShrink'
    BY <1>1, <1>2 DEF BudgetsShrink
  <1>4. \A p \in Mishaps : left'[p] = Budget[p] => left[p] = Budget[p]
    BY <1>1, <1>2
  <1>5. \A ops \in SUBSET Mishaps : Unspent(ops)' => Unspent(ops)
    BY <1>4 DEF Unspent
  <1>6. {"redelivered"} \in SUBSET Mishaps /\ {"abandon"} \in SUBSET Mishaps
        /\ {"restart"} \in SUBSET Mishaps
    BY DEF Mishaps
  <1> QED BY <1>1, <1>3, <1>5, <1>6 DEF OneAtATime

-------------------------------------------------------------------------------
\* Types.

\* A version of no file, and of every file, is a number.
LEMMA VersionsTyped ==
    /\ NoFiles \in Versions
    /\ DOMAIN NoFiles = Files \cup {FallbackFile}
    /\ \A t \in Versions : DOMAIN t = DOMAIN NoFiles /\ \A f \in DOMAIN NoFiles : t[f] \in Int
    /\ \A t \in Versions : In(t) = {f \in DOMAIN NoFiles : t[f] # 0}
  BY DEF Versions, NoFiles, In

\* The base branch has none of the run's work, and only files of earlier runs.
LEMMA BaseFixed ==
    ASSUME wt \in WorkTypesSeen, base \in Bases[wt]
    PROVE  /\ base \in Branches /\ base.work = {} /\ base.code \in BOOLEAN
           /\ base.tree \in Versions
           /\ \A f \in DOMAIN NoFiles : base.tree[f] \in Int /\ base.tree[f] <= 0
  <1> DEFINE Trees == [Files \cup {FallbackFile} -> {0, EarlierPass, Earlier}]
  <1>1. base \in [work : {{}}, code : BOOLEAN, tree : Trees]
    BY BasesAssumption
  <1>2. base.tree \in Trees /\ base.work = {} /\ base.code \in BOOLEAN
    BY <1>1
  <1>3. base.tree \in Versions /\ \A f \in DOMAIN NoFiles : base.tree[f] \in {0, -1, -2}
    BY <1>2, VersionsTyped DEF Versions, EarlierPass, Earlier
  <1>4. base \in Branches
    BY <1>1, <1>2, <1>3 DEF Branches
  <1> QED BY <1>2, <1>3, <1>4

LEMMA BaseTyped ==
    ASSUME TypeOK
    PROVE  /\ base \in Branches /\ base.code \in BOOLEAN /\ base.tree \in Versions
           /\ \A f \in DOMAIN NoFiles : base.tree[f] \in Int /\ base.tree[f] <= 0
  BY BaseFixed DEF TypeOK

LEMMA IdleTyped ==
    ASSUME TypeOK
    PROVE  Idle \in Frames /\ Idle.pc = "idle" /\ NoJob \in JobsOf
  <1>1. NoJob \in JobsOf
    BY StageNamed DEF NoJob, JobsOf
  <1> QED BY <1>1, VersionsTyped DEF Idle, Frames, FramePCs

\* What the frame of a worker is.
LEMMA FrameTyped ==
    ASSUME TypeOK, NEW w \in Workers
    PROVE  /\ frame[w] \in Frames
           /\ frame[w].job \in JobsOf /\ frame[w].job.idx \in 0..Last
           /\ AgentOf(w) \in DOMAIN AGENT_ARTIFACTS
           /\ frame[w].pre \subseteq DOMAIN NoFiles
           /\ frame[w].new \in Versions /\ frame[w].up \in Versions
           /\ frame[w].exec \in Nat /\ frame[w].of \in Int
  <1>1. frame[w] \in Frames
    BY DEF TypeOK
  <1>2. frame[w].job \in JobsOf /\ frame[w].job.idx \in 0..Last
    BY <1>1 DEF Frames, JobsOf
  <1> QED BY <1>1, <1>2, StageNamed DEF AgentOf, Frames

\* A frame goes on.
LEMMA Going ==
    ASSUME TypeOK, NEW w \in Workers, NEW pc \in FramePCs, Goto(w, pc)
    PROVE  /\ frame' \in [Workers -> Frames]
           /\ frame'[w] = [frame[w] EXCEPT !.pc = pc]
           /\ frame'[w].pc = pc /\ frame'[w].job = frame[w].job
           /\ frame'[w].exec = frame[w].exec /\ frame'[w].pre = frame[w].pre
           /\ frame'[w].up = frame[w].up
           /\ frame'[w].verdict = frame[w].verdict /\ frame'[w].of = frame[w].of
           /\ \A v \in Workers \ {w} : frame'[v] = frame[v]
  BY DEF TypeOK, Goto, Frames

\* It goes on to an await before the end of its agent, or to its failure.
LEMMA GoingOut ==
    ASSUME TypeOK, NEW w \in Workers,
           NEW pc \in {"clone", "prepare", "checkout", "fail", "import", "agent"},
           Goto(w, pc)
    PROVE  frame'[w].pc \notin Ended
  <1>1. pc \in FramePCs
    BY DEF FramePCs
  <1>2. frame'[w].pc = pc
    BY <1>1, Going
  <1> QED BY <1>2 DEF Ended

\* A frame is left.
LEMMA Leaving ==
    ASSUME TypeOK, NEW w \in Workers, Leave(w)
    PROVE  /\ frame' \in [Workers -> Frames]
           /\ frame'[w] = Idle /\ frame'[w].pc = "idle"
           /\ \A v \in Workers \ {w} : frame'[v] = frame[v]
  BY IdleTyped DEF TypeOK, Leave

\* What an agent has written is the newest, and everything else is as it was.
LEMMA Writing ==
    ASSUME TypeOK, NEW w \in Workers, NEW S \in SUBSET DOMAIN NoFiles, Wrote(w, S)
    PROVE  /\ by' \in Seq(DOMAIN AGENT_ARTIFACTS) /\ Len(by) \in Nat /\ Len(by') = Len(by) + 1
           /\ by'[Len(by) + 1] = AgentOf(w)
           /\ \A e \in 1..Len(by) : by'[e] = by[e]
           /\ factory' \in Versions
           /\ \A f \in DOMAIN NoFiles :
                 factory'[f] = IF f \in S THEN Len(by) + 1 ELSE factory[f]
           /\ clone' \in Clones /\ clone.head # "none"
           /\ clone'.head = clone.head /\ clone'.own = clone.own
           /\ clone'.locked = clone.locked
           /\ clone'.work = clone.work /\ clone'.tree = clone.tree
           /\ clone'.dirty = clone.dirty \cup {Len(by) + 1}
           /\ clone.code => clone'.code
  <1>1. by \in Seq(DOMAIN AGENT_ARTIFACTS) /\ AgentOf(w) \in DOMAIN AGENT_ARTIFACTS
        /\ by' = Append(by, AgentOf(w)) /\ Len(by) \in Nat
    BY FrameTyped DEF TypeOK, Wrote
  <1>2. /\ by' \in Seq(DOMAIN AGENT_ARTIFACTS) /\ Len(by') = Len(by) + 1
        /\ by'[Len(by) + 1] = AgentOf(w) /\ \A e \in 1..Len(by) : by'[e] = by[e]
    BY <1>1
  <1>3. /\ factory' \in Versions
        /\ \A f \in DOMAIN NoFiles : factory'[f] = IF f \in S THEN Len(by) + 1 ELSE factory[f]
    <2>1. factory \in Versions /\ factory' = [f \in DOMAIN factory |-> IF f \in S THEN Len(by) + 1 ELSE factory[f]]
      BY DEF TypeOK, Wrote
    <2> QED BY <1>1, <2>1, VersionsTyped DEF Versions
  <1>4. /\ clone' \in Clones /\ clone.head # "none"
        /\ clone'.head = clone.head /\ clone'.own = clone.own
        /\ clone'.locked = clone.locked
        /\ clone'.work = clone.work /\ clone'.tree = clone.tree
        /\ clone'.dirty = clone.dirty \cup {Len(by) + 1}
        /\ clone.code => clone'.code
    <2>1. clone \in Clones /\ clone.head # "none"
          /\ \E c \in {clone.code, TRUE} :
                clone' = [clone EXCEPT !.dirty = @ \cup {Len(by) + 1}, !.code = c]
      BY DEF TypeOK, Wrote
    <2> PICK c \in {clone.code, TRUE} :
           clone' = [clone EXCEPT !.dirty = @ \cup {Len(by) + 1}, !.code = c]
      BY <2>1
    <2>2. clone.dirty \subseteq Nat
      BY <2>1 DEF Clones
    <2>3. clone.dirty \cup {Len(by) + 1} \in SUBSET Nat
      BY <1>1, <2>2
    <2>4. c \in BOOLEAN /\ \A d \in SUBSET Nat : [clone EXCEPT !.dirty = d, !.code = c] \in Clones
      BY <2>1 DEF Clones
    <2> QED BY <2>1, <2>3, <2>4 DEF Clones
  <1> QED BY <1>1, <1>2, <1>3, <1>4

\* An agent that ends well has written its files, or the one that execute writes.
LEMMA Running ==
    ASSUME TypeOK, NEW w \in Workers, NEW S \in SUBSET DOMAIN NoFiles, NEW good, Ran(w, S, good)
    PROVE  /\ \E T \in SUBSET (S \cup {FallbackFile}) :
                 T \in SUBSET DOMAIN NoFiles /\ Wrote(w, T)
           /\ passes' = good
           /\ frame' \in [Workers -> Frames]
           /\ frame'[w].pc = "commit" /\ frame'[w].exec = Len(by) + 1
           /\ frame'[w].job = frame[w].job /\ frame'[w].pre = frame[w].pre
           /\ frame'[w].verdict = VerdictOf(AgentOf(w), factory', good)
           /\ frame'[w].of = IF Judges(AgentOf(w)) THEN factory'[VERDICT_FILES[AgentOf(w)]] ELSE 0
           /\ \A v \in Workers \ {w} : frame'[v] = frame[v]
  <1> DEFINE name == AgentOf(w)
             own  == IF In(factory) \cup S = {} THEN {FallbackFile} ELSE S
             tree == [f \in DOMAIN factory |-> IF f \in own THEN Len(by) + 1 ELSE factory[f]]
             of   == IF Judges(name) THEN tree[VERDICT_FILES[name]] ELSE 0
  <1>1. /\ Wrote(w, own) /\ passes' = good
        /\ frame' = [frame EXCEPT ![w].pc = "commit", ![w].exec = Len(by) + 1,
                                  ![w].verdict = VerdictOf(name, tree, good), ![w].of = of]
    BY DEF Ran
  <1>2. own \in SUBSET (S \cup {FallbackFile}) /\ own \in SUBSET DOMAIN NoFiles
    BY VersionsTyped
  <1>3. tree = factory'
    BY <1>1 DEF Wrote
  <1>4. Len(by) \in Nat /\ Len(by) + 1 \in Nat /\ factory' \in Versions
    <2> HIDE DEF own
    <2>1. Len(by) \in Nat /\ factory' \in Versions
      BY <1>1, <1>2, Writing
    <2> QED BY <2>1
  <1>5. VerdictOf(name, tree, good) \in {NoVerdict, "PASS", "FAIL"}
    BY DEF VerdictOf
  <1>6. of \in Int
    <2>1. Judges(name) => VERDICT_FILES[name] \in DOMAIN NoFiles
      BY FilesAssumption, VersionsTyped DEF Judges
    <2> QED BY <1>3, <1>4, <2>1, VersionsTyped
  <1> HIDE DEF name, own, tree, of
  <1>7. /\ frame' \in [Workers -> Frames]
        /\ frame'[w].pc = "commit" /\ frame'[w].exec = Len(by) + 1
        /\ frame'[w].job = frame[w].job /\ frame'[w].pre = frame[w].pre
        /\ frame'[w].verdict = VerdictOf(name, tree, good)
        /\ frame'[w].of = of
        /\ \A v \in Workers \ {w} : frame'[v] = frame[v]
    <2> DEFINE verdict == VerdictOf(name, tree, good)
    <2> HIDE DEF verdict
    <2>1. frame \in [Workers -> Frames] /\ frame[w] \in Frames
      BY DEF TypeOK
    <2>2. /\ frame'[w] = [frame[w] EXCEPT !.pc = "commit", !.exec = Len(by) + 1,
                                          !.verdict = verdict, !.of = of]
          /\ DOMAIN frame' = Workers
          /\ \A v \in Workers \ {w} : frame'[v] = frame[v]
          /\ frame' = [v \in Workers |-> frame'[v]]
      BY <1>1, <2>1 DEF verdict
    <2>3. /\ frame'[w] \in Frames
          /\ frame'[w].pc = "commit" /\ frame'[w].exec = Len(by) + 1
          /\ frame'[w].job = frame[w].job /\ frame'[w].pre = frame[w].pre
          /\ frame'[w].verdict = verdict /\ frame'[w].of = of
      <3>1. "commit" \in FramePCs /\ verdict \in {NoVerdict, "PASS", "FAIL"}
        BY <1>5, <1>6 DEF FramePCs, verdict
      <3>2. frame'[w] \in Frames
        BY <1>4, <1>6, <2>1, <2>2, <3>1 DEF Frames
      <3> QED BY <2>1, <2>2, <3>2 DEF Frames
    <2>4. frame' \in [Workers -> Frames]
      BY <2>1, <2>2, <2>3
    <2> QED BY <2>2, <2>3, <2>4 DEF verdict
  <1>8. \E T \in SUBSET (S \cup {FallbackFile}) : T \in SUBSET DOMAIN NoFiles /\ Wrote(w, T)
    BY <1>1, <1>2
  <1> QED BY <1>1, <1>3, <1>7, <1>8 DEF name, of

\* The inputs of a stage are on disk, and the source is next where it has to be.
LEMMA Preparing ==
    ASSUME TypeOK, NEW w \in Workers, NEW tree \in Versions, Prepared(w, tree)
    PROVE  /\ factory' = tree
           /\ clone' \in Clones /\ clone'.head # "none"
           /\ clone' = [clone EXCEPT !.head = IF @ = "none" THEN "partial" ELSE @]
           /\ clone'.work = clone.work /\ clone'.dirty = clone.dirty /\ clone'.tree = clone.tree
           /\ clone'.own = clone.own /\ clone'.locked = clone.locked /\ clone'.code = clone.code
           /\ frame' \in [Workers -> Frames]
           /\ frame'[w].pc \in {"source", "agent"} /\ frame'[w].pre = In(tree)
           /\ frame'[w].job = frame[w].job
           /\ source' \in {"none", "partial", "ready"}
           /\ IF wt = "transformation" /\ source = "none"
              THEN source' = "partial" /\ frame'[w].pc = "source"
              ELSE source' = source /\ frame'[w].pc = "agent"
           /\ \A v \in Workers \ {w} : frame'[v] = frame[v]
  <1>1. In(tree) \in SUBSET DOMAIN NoFiles
    BY VersionsTyped
  <1> DEFINE sourcing == wt = "transformation" /\ source = "none"
             pc == IF sourcing THEN "source" ELSE "agent"
  <1>2. /\ frame' = [frame EXCEPT ![w].pc = pc, ![w].pre = In(tree)]
        /\ source' = IF sourcing THEN "partial" ELSE source
        /\ factory' = tree
        /\ clone' = [clone EXCEPT !.head = IF @ = "none" THEN "partial" ELSE @]
    BY DEF Prepared
  <1>3. pc \in {"source", "agent"} /\ pc \in FramePCs
    BY DEF FramePCs
  <1>4. /\ clone' \in Clones /\ clone'.head # "none"
        /\ clone'.work = clone.work /\ clone'.dirty = clone.dirty /\ clone'.tree = clone.tree
        /\ clone'.own = clone.own /\ clone'.locked = clone.locked /\ clone'.code = clone.code
    BY <1>2 DEF TypeOK, Clones
  <1>5. /\ frame' \in [Workers -> Frames]
        /\ frame'[w].pc = pc /\ frame'[w].pre = In(tree) /\ frame'[w].job = frame[w].job
        /\ \A v \in Workers \ {w} : frame'[v] = frame[v]
    <2> HIDE DEF pc
    <2>1. frame \in [Workers -> Frames] /\ frame[w] \in Frames
      BY DEF TypeOK
    <2>2. /\ frame'[w] = [frame[w] EXCEPT !.pc = pc, !.pre = In(tree)]
          /\ DOMAIN frame' = Workers
          /\ \A v \in Workers \ {w} : frame'[v] = frame[v]
          /\ frame' = [v \in Workers |-> frame'[v]]
      BY <1>2, <2>1
    <2>3. /\ frame'[w] \in Frames
          /\ frame'[w].pc = pc /\ frame'[w].pre = In(tree) /\ frame'[w].job = frame[w].job
      BY <1>1, <1>3, <2>1, <2>2 DEF Frames
    <2> QED BY <2>1, <2>2, <2>3
  <1>6. source \in {"none", "partial", "ready"}
    BY DEF TypeOK
  <1> QED BY <1>2, <1>3, <1>4, <1>5, <1>6

\* Files are uploaded as they are on disk.
LEMMA Uploading ==
    ASSUME TypeOK, NEW w \in Workers, NEW S \in SUBSET NewFiles(w), Uploaded(w, S)
    PROVE  /\ minio' \in Versions
           /\ \A f \in DOMAIN NoFiles : minio'[f] = IF f \in S THEN factory[f] ELSE minio[f]
           /\ S \subseteq In(factory) \ frame[w].pre
           /\ frame' \in [Workers -> Frames]
           /\ frame'[w].pc = "record" /\ frame'[w].job = frame[w].job
           /\ frame'[w].exec = frame[w].exec
           /\ frame'[w].verdict = frame[w].verdict /\ frame'[w].of = frame[w].of
           /\ \A f \in DOMAIN NoFiles : frame'[w].up[f] = IF f \in S THEN factory[f] ELSE 0
           /\ \A v \in Workers \ {w} : frame'[v] = frame[v]
  <1> DEFINE new == [f \in DOMAIN minio |-> IF f \in NewFiles(w) THEN factory[f] ELSE 0]
             up  == [f \in DOMAIN minio |-> IF f \in S THEN factory[f] ELSE 0]
  <1>1. /\ minio' = [f \in DOMAIN minio |-> IF f \in S THEN factory[f] ELSE minio[f]]
        /\ frame' = [frame EXCEPT ![w].pc = "record", ![w].new = new, ![w].up = up]
    BY DEF Uploaded
  <1>2. /\ minio \in Versions /\ factory \in Versions /\ DOMAIN minio = DOMAIN NoFiles
        /\ \A f \in DOMAIN NoFiles : minio[f] \in Int /\ factory[f] \in Int
    BY VersionsTyped DEF TypeOK
  <1>3. \A g \in [DOMAIN NoFiles -> Int] : g \in Versions
    BY VersionsTyped DEF Versions
  <1>4. new \in Versions /\ up \in Versions /\ minio' \in Versions
    <2>1. /\ new \in [DOMAIN NoFiles -> Int] /\ up \in [DOMAIN NoFiles -> Int]
          /\ minio' \in [DOMAIN NoFiles -> Int]
      <3>1. \A T : \A g \in [DOMAIN NoFiles -> Int] :
               [f \in DOMAIN NoFiles |-> IF f \in T THEN factory[f] ELSE g[f]]
                  \in [DOMAIN NoFiles -> Int]
        BY <1>2
      <3>2. \A T : [f \in DOMAIN NoFiles |-> IF f \in T THEN factory[f] ELSE 0]
                     \in [DOMAIN NoFiles -> Int]
        BY <1>2
      <3>3. minio \in [DOMAIN NoFiles -> Int]
        BY <1>2, VersionsTyped DEF Versions
      <3> QED BY <1>1, <1>2, <3>1, <3>2, <3>3
    <2> QED BY <1>3, <2>1
  <1>5. \A f \in DOMAIN NoFiles : up[f] = IF f \in S THEN factory[f] ELSE 0
    BY <1>2
  <1> HIDE DEF new, up
  <1>6. /\ frame' \in [Workers -> Frames]
        /\ frame'[w].pc = "record" /\ frame'[w].job = frame[w].job
        /\ frame'[w].exec = frame[w].exec
        /\ frame'[w].verdict = frame[w].verdict /\ frame'[w].of = frame[w].of
        /\ frame'[w].up = up
        /\ \A v \in Workers \ {w} : frame'[v] = frame[v]
    <2>1. frame \in [Workers -> Frames] /\ frame[w] \in Frames
      BY DEF TypeOK
    <2>2. /\ frame'[w] = [frame[w] EXCEPT !.pc = "record", !.new = new, !.up = up]
          /\ DOMAIN frame' = Workers
          /\ \A v \in Workers \ {w} : frame'[v] = frame[v]
          /\ frame' = [v \in Workers |-> frame'[v]]
      BY <1>1, <2>1
    <2>3. /\ frame'[w] \in Frames
          /\ frame'[w].pc = "record" /\ frame'[w].job = frame[w].job
          /\ frame'[w].exec = frame[w].exec
          /\ frame'[w].verdict = frame[w].verdict /\ frame'[w].of = frame[w].of
          /\ frame'[w].up = up
      <3>1. "record" \in FramePCs
        BY DEF FramePCs
      <3>2. frame'[w] \in Frames
        BY <1>4, <2>1, <2>2, <3>1 DEF Frames
      <3> QED BY <2>1, <2>2, <3>2 DEF Frames
    <2> QED BY <2>1, <2>2, <2>3
  <1> QED BY <1>1, <1>2, <1>4, <1>5, <1>6 DEF NewFiles

\* What the walk makes of an answer.
LEMMA Answering ==
    ASSUME TypeOK, NEW j, NEW verdict, NEW of \in Int, Answered(j, verdict, of)
    PROVE  /\ walk' \in Walks /\ walk'.no = walk.no
           /\ IF walk.pc # "waiting" \/ walk.no # j.no THEN walk' = walk
              ELSE /\ walk'.pc \in {"ready", "over"}
                   /\ \/ /\ walk'.idx = IF walk.idx = Last THEN walk.idx ELSE walk.idx + 1
                         /\ IF Name(walk.idx) = "verification"
                            THEN walk'.judged = of /\ walk'.passed = (verdict = "PASS")
                            ELSE walk'.judged = walk.judged /\ walk'.passed = walk.passed
                      \/ /\ walk'.idx = walk.idx
                         /\ walk'.judged = walk.judged /\ walk'.passed = walk.passed
                      \/ LET to == RollbackTarget(AgentAt(wt, walk.idx), wt) IN
                         /\ verdict = "FAIL" /\ to # NoTarget
                         /\ walk'.idx = FindStepIndex(wt, to)
                         /\ walk'.judged = walk.judged /\ walk'.passed = walk.passed
  <1> DEFINE to     == RollbackTarget(AgentAt(wt, walk.idx), wt)
             failed == verdict = "FAIL" /\ to # NoTarget
             next   == [walk EXCEPT !.pc = IF walk.idx = Last THEN "over" ELSE "ready",
                                    !.idx = IF walk.idx = Last THEN @ ELSE @ + 1]
  <1>1. /\ walk \in Walks /\ walk.idx \in 0..Last /\ walk.rb \in 0..MAX_ROLLBACKS /\ walk.no \in Nat
        /\ walk.judged \in Int /\ walk.passed \in BOOLEAN
    BY DEF TypeOK, Walks
  <1>2. MAX_ROLLBACKS = 3 /\ Last \in 5..7
    BY StageNamed DEF MAX_ROLLBACKS
  <1>3. CASE walk.pc # "waiting" \/ walk.no # j.no
    BY <1>1, <1>3 DEF Answered
  <1>4. CASE walk.pc = "waiting" /\ walk.no = j.no /\ ~failed
    <2>1. walk' = IF Name(walk.idx) # "verification" THEN next
                  ELSE [next EXCEPT !.judged = of, !.passed = verdict = "PASS"]
      BY <1>4 DEF Answered
    <2>2. next \in Walks /\ next.pc \in {"ready", "over"} /\ next.no = walk.no
          /\ next.idx = (IF walk.idx = Last THEN walk.idx ELSE walk.idx + 1)
          /\ next.judged = walk.judged /\ next.passed = walk.passed
      <3>1. \A pc \in {"ready", "over"}, i \in 0..Last :
              LET n == [walk EXCEPT !.pc = pc, !.idx = i] IN
              /\ n \in Walks /\ n.pc = pc /\ n.no = walk.no /\ n.idx = i
              /\ n.judged = walk.judged /\ n.passed = walk.passed
        BY <1>1 DEF Walks
      <3>2. CASE walk.idx = Last
        <4>1. next = [walk EXCEPT !.pc = "over", !.idx = walk.idx]
          BY <1>1, <3>2
        <4>2. LET n == [walk EXCEPT !.pc = "over", !.idx = walk.idx] IN
              /\ n \in Walks /\ n.pc = "over" /\ n.no = walk.no /\ n.idx = walk.idx
              /\ n.judged = walk.judged /\ n.passed = walk.passed
          BY <1>1, <3>1
        <4> HIDE DEF next
        <4> QED BY <3>2, <4>1, <4>2
      <3>3. CASE walk.idx # Last
        <4>1. next = [walk EXCEPT !.pc = "ready", !.idx = walk.idx + 1]
          BY <1>1, <3>3
        <4>2. LET n == [walk EXCEPT !.pc = "ready", !.idx = walk.idx + 1] IN
              /\ n \in Walks /\ n.pc = "ready" /\ n.no = walk.no /\ n.idx = walk.idx + 1
              /\ n.judged = walk.judged /\ n.passed = walk.passed
          <5>1. walk.idx + 1 \in 0..Last
            BY <1>1, <1>2, <3>3
          <5> QED BY <3>1, <5>1
        <4> HIDE DEF next
        <4> QED BY <3>3, <4>1, <4>2
      <3> QED BY <3>2, <3>3
    <2> HIDE DEF next
    <2>3. CASE Name(walk.idx) # "verification"
      BY <1>4, <2>1, <2>2, <2>3
    <2>4. CASE Name(walk.idx) = "verification"
      <3>1. walk' = [next EXCEPT !.judged = of, !.passed = verdict = "PASS"]
        BY <2>1, <2>4
      <3>2. /\ walk' \in Walks /\ walk'.no = next.no /\ walk'.pc = next.pc
            /\ walk'.idx = next.idx
            /\ walk'.judged = of /\ walk'.passed = (verdict = "PASS")
        BY <2>2, <3>1 DEF Walks
      <3> QED BY <1>4, <2>2, <2>4, <3>2
    <2> QED BY <2>3, <2>4
  <1>5. CASE walk.pc = "waiting" /\ walk.no = j.no /\ failed /\ walk.rb >= MAX_ROLLBACKS
    <2>1. walk' = [walk EXCEPT !.pc = "over"]
      BY <1>5 DEF Answered
    <2>2. /\ walk' \in Walks /\ walk'.no = walk.no /\ walk'.pc = "over" /\ walk'.idx = walk.idx
          /\ walk'.judged = walk.judged /\ walk'.passed = walk.passed
      BY <1>1, <2>1 DEF Walks
    <2> QED BY <1>5, <2>2
  <1>6. CASE walk.pc = "waiting" /\ walk.no = j.no /\ failed /\ ~(walk.rb >= MAX_ROLLBACKS)
    <2>1. walk' = [walk EXCEPT !.pc = "ready", !.rb = @ + 1, !.idx = FindStepIndex(wt, to)]
      BY <1>6 DEF Answered
    <2>2. FindStepIndex(wt, to) \in 0..Last
      BY <1>1, <1>6, RollbackGoesBack
    <2> HIDE DEF to
    <2>3. /\ walk' \in Walks /\ walk'.no = walk.no /\ walk'.pc = "ready"
          /\ walk'.idx = FindStepIndex(wt, to)
          /\ walk'.judged = walk.judged /\ walk'.passed = walk.passed
      <3>1. walk.rb + 1 \in 0..MAX_ROLLBACKS
        BY <1>1, <1>2, <1>6
      <3>2. \A b \in 0..MAX_ROLLBACKS, i \in 0..Last :
              LET n == [walk EXCEPT !.pc = "ready", !.rb = b, !.idx = i] IN
              /\ n \in Walks /\ n.pc = "ready" /\ n.no = walk.no /\ n.idx = i
              /\ n.judged = walk.judged /\ n.passed = walk.passed
        BY <1>1 DEF Walks
      <3>3. walk' = [walk EXCEPT !.pc = "ready", !.rb = walk.rb + 1, !.idx = FindStepIndex(wt, to)]
        BY <1>1, <2>1
      <3> QED BY <2>2, <3>1, <3>2, <3>3
    <2> QED BY <1>6, <2>3 DEF to
  <1> QED BY <1>3, <1>4, <1>5, <1>6

LEMMA NoCloneTyped ==
    /\ NoClone \in Clones /\ NoClone.head = "none" /\ ~NoClone.locked
    /\ NoClone.work = {} /\ NoClone.dirty = {} /\ NoClone.tree = NoFiles
    /\ \A f \in DOMAIN NoFiles : NoFiles[f] = 0
  BY VersionsTyped DEF NoClone, Clones, NoFiles

\* What a clone or an import of the source leaves that fails.
LEMMA SourceLeaving ==
    ASSUME TypeOK, NEW w \in Workers, SourceLeft(w)
    PROVE  /\ clone' \in Clones /\ clone'.head \in {clone.head, "partial"}
           /\ clone'.work = clone.work /\ clone'.dirty = clone.dirty /\ clone'.tree = clone.tree
           /\ clone'.locked = clone.locked /\ clone'.code = clone.code
           /\ source' \in {"none", "partial", "ready"}
  <1>1. clone' = clone \/ clone' = [clone EXCEPT !.head = "partial"]
    BY DEF SourceLeft
  <1>2. source' \in {"none", "partial", "ready"}
    BY DEF SourceLeft, TypeOK
  <1> QED BY <1>1, <1>2 DEF TypeOK, Clones

\* What a statement that raises leaves.
LEMMA DbFailing ==
    ASSUME TypeOK, NEW w \in Workers, DbFails(w)
    PROVE  /\ Goto(w, "fail") /\ "fail" \in FramePCs /\ Busy(w)
           /\ clone' \in Clones /\ clone'.head \in {clone.head, "partial"}
           /\ clone'.work = clone.work /\ clone'.dirty = clone.dirty /\ clone'.tree = clone.tree
           /\ clone'.locked = clone.locked /\ clone'.code = clone.code
           /\ source' \in {"none", "partial", "ready"}
           /\ rows' = rows \/ (At(w, "record") /\ rows' \subseteq rows \cup Rows(w))
           /\ UNCHANGED <<walk, queued, factory, remote, minio, agent, completed, warned>>
  <1>1. /\ Goto(w, "fail") /\ "fail" \in FramePCs /\ Busy(w)
        /\ UNCHANGED <<walk, queued, factory, remote, minio, agent, completed, warned>>
    BY DEF DbFails, FramePCs, Busy, At
  <1>2. rows' = rows \/ (At(w, "record") /\ rows' \subseteq rows \cup Rows(w))
    BY DEF DbFails
  <1>3. CASE SourceLeft(w)
    BY <1>1, <1>2, <1>3, SourceLeaving
  <1>4. CASE ~SourceLeft(w)
    <2>1. clone' = clone /\ source' = source
      BY <1>4 DEF DbFails
    <2> QED BY <1>1, <1>2, <2>1 DEF TypeOK, Clones
  <1> QED BY <1>3, <1>4

\* The rows of a stage are of its files.
LEMMA RowsTyped ==
    ASSUME TypeOK, NEW w \in Workers
    PROVE  Rows(w) \subseteq [file : DOMAIN NoFiles, version : Int]
  <1>1. Rows(w) = {[file |-> f, version |-> frame[w].up[f]] : f \in In(frame[w].new)}
    BY DEF Rows, Url
  <1>2. \A f \in In(frame[w].new) : f \in DOMAIN NoFiles /\ frame[w].up[f] \in Int
    BY FrameTyped, VersionsTyped
  <1> QED BY <1>1, <1>2

\* The disk, the stores and the frames keep their types, and every version in
\* them is that of an execution that has ended.
LEMMA TypesStep ==
    ASSUME TypeOK, BudgetsShrink, Dated, [Next]_vars
    PROVE  TypeOK' /\ Dated'
  <1> DEFINE Fs == DOMAIN NoFiles
             D(f) == 0..Len(by) \cup {base.tree[f]}
             E(f) == 0..Len(by') \cup {base.tree[f]}
  <1>1. /\ wt' = wt /\ base' = base /\ left' \in [Mishaps -> Nat]
        /\ Last' = Last /\ JobsOf' = JobsOf /\ Frames' = Frames /\ Walks' = Walks
    BY Paid, Unhappened, SameStages DEF TypeOK
  <1>2. /\ wt \in WorkTypesSeen /\ base \in Bases[wt] /\ walk \in Walks /\ queued \subseteq JobsOf
        /\ frame \in [Workers -> Frames] /\ clone \in Clones
        /\ remote \in Branches
        /\ factory \in Versions /\ minio \in Versions
        /\ source \in {"none", "partial", "ready"}
        /\ rows \subseteq [file : Fs, version : Int]
        /\ by \in Seq(DOMAIN AGENT_ARTIFACTS) /\ Len(by) \in Nat
        /\ passes \subseteq 1..Len(by) /\ completed \subseteq 1..Len(by) /\ warned \in BOOLEAN
    BY DEF TypeOK
  <1>3. /\ remote.tree \in Versions /\ clone.tree \in Versions
        /\ remote.work \subseteq 0..Len(by) /\ clone.work \subseteq 0..Len(by)
        /\ clone.dirty \subseteq 0..Len(by)
    BY DEF TypeOK, Clones, Branches
  <1>4. \A f \in Fs : /\ factory[f] \in D(f) /\ minio[f] \in D(f)
                      /\ clone.tree[f] \in D(f) /\ remote.tree[f] \in D(f)
    BY <1>2, <1>3, VersionsTyped DEF Dated
  <1>5. \A w \in Workers : frame[w].pc \in Ended => frame[w].exec \in 1..Len(by)
    BY DEF Dated
  <1>0. /\ base.tree \in Versions /\ base.code \in BOOLEAN
        /\ \A f \in Fs : base.tree[f] \in D(f)
    BY BaseTyped
  \* It is enough that every variable keeps its type.
  <1> DEFINE Typed ==
          /\ walk' \in Walks /\ queued' \subseteq JobsOf
          /\ frame' \in [Workers -> Frames] /\ clone' \in Clones
          /\ remote' \in Branches
          /\ factory' \in Versions /\ minio' \in Versions
          /\ source' \in {"none", "partial", "ready"}
          /\ rows' \subseteq [file : Fs, version : Int]
          /\ by' \in Seq(DOMAIN AGENT_ARTIFACTS)
          /\ passes' \subseteq 1..Len(by') /\ completed' \subseteq 1..Len(by') /\ warned' \in BOOLEAN
          /\ remote'.work \subseteq 0..Len(by') /\ clone'.work \subseteq 0..Len(by')
          /\ clone'.dirty \subseteq 0..Len(by')
          /\ \A f \in Fs : /\ factory'[f] \in E(f) /\ minio'[f] \in E(f)
                           /\ clone'.tree[f] \in E(f) /\ remote'.tree[f] \in E(f)
          /\ \A w \in Workers : frame'[w].pc \in Ended => frame'[w].exec \in 1..Len(by')
  <1>6. SUFFICES Typed
    BY <1>1, <1>2 DEF TypeOK, Dated
  <1>7. CASE UNCHANGED vars
    BY <1>2, <1>3, <1>4, <1>5, <1>7 DEF vars, disk, store, agent
  <1>8. CASE Publish
    <2>1. /\ walk' = [walk EXCEPT !.pc = "waiting", !.no = @ + 1]
          /\ queued' = queued \cup {[no |-> walk.no + 1, idx |-> walk.idx]}
          /\ UNCHANGED <<frame, disk, store, agent, completed, warned>>
      BY <1>8 DEF Publish
    <2>2. walk' \in Walks /\ [no |-> walk.no + 1, idx |-> walk.idx] \in JobsOf
      <3>1. walk.no + 1 \in Nat /\ walk.idx \in 0..Last
        BY <1>2 DEF Walks
      <3>2. \A n \in Nat : [walk EXCEPT !.pc = "waiting", !.no = n] \in Walks
        BY <1>2 DEF Walks
      <3>3. walk' = [walk EXCEPT !.pc = "waiting", !.no = walk.no + 1]
        BY <1>2, <2>1 DEF Walks
      <3> QED BY <3>1, <3>2, <3>3 DEF JobsOf
    <2> QED BY <1>2, <1>3, <1>4, <1>5, <2>1, <2>2 DEF disk, store, agent
  <1>9. CASE Abandon \/ Restart
    <2>1. /\ \/ walk' = [walk EXCEPT !.pc = "over"]
             \/ walk' = [walk EXCEPT !.pc = "ready", !.idx = 0, !.rb = 0,
                                     !.judged = 0, !.passed = FALSE]
          /\ UNCHANGED <<queued, frame, disk, store, agent, completed, warned>>
      BY <1>9 DEF Abandon, Restart
    <2>2. walk' \in Walks
      <3>1. 0 \in 0..Last /\ 0 \in 0..MAX_ROLLBACKS
        BY StageNamed DEF MAX_ROLLBACKS
      <3>2. /\ [walk EXCEPT !.pc = "over"] \in Walks
            /\ [walk EXCEPT !.pc = "ready", !.idx = 0, !.rb = 0, !.judged = 0,
                            !.passed = FALSE] \in Walks
        <4>1. [walk EXCEPT !.pc = "over"] \in Walks
          BY <1>2 DEF Walks
        <4>2. 0 \in Int /\ FALSE \in BOOLEAN
          OBVIOUS
        <4>3. [walk EXCEPT !.pc = "ready", !.idx = 0, !.rb = 0, !.judged = 0,
                           !.passed = FALSE] \in Walks
          BY <1>2, <3>1, <4>2 DEF Walks
        <4> QED BY <4>1, <4>3
      <3> QED BY <2>1, <3>1, <3>2
    <2> QED BY <1>2, <1>3, <1>4, <1>5, <2>1, <2>2 DEF disk, store, agent
  <1> SUFFICES ASSUME NEW w \in Workers, Step(w)
               PROVE  Typed
    BY <1>7, <1>8, <1>9 DEF Next, Step
  <1>20. frame[w].pc \in Ended => frame[w].exec \in 1..Len(by)
    BY <1>5
  <1>21. ASSUME NEW T \in SUBSET Fs, Wrote(w, T), frame' \in [Workers -> Frames],
                \A v \in Workers \ {w} : frame'[v] = frame[v],
                frame'[w].pc \in Ended => frame'[w].exec = Len(by) + 1,
                passes' \subseteq passes \cup {Len(by) + 1},
                UNCHANGED <<walk, queued, source, store, completed, warned>>
         PROVE  Typed
    <2>1. /\ by' \in Seq(DOMAIN AGENT_ARTIFACTS) /\ Len(by') = Len(by) + 1
          /\ factory' \in Versions /\ clone' \in Clones
          /\ \A f \in Fs : factory'[f] = IF f \in T THEN Len(by) + 1 ELSE factory[f]
          /\ clone'.work = clone.work /\ clone'.tree = clone.tree
          /\ clone'.dirty = clone.dirty \cup {Len(by) + 1}
      BY <1>21, Writing
    <2>2. 0..Len(by) \subseteq 0..Len(by') /\ 1..Len(by) \subseteq 1..Len(by')
          /\ Len(by) + 1 \in 0..Len(by') /\ Len(by) + 1 \in 1..Len(by')
      BY <1>2, <2>1
    <2>3. \A f \in Fs : factory'[f] \in E(f)
      BY <1>4, <2>1, <2>2
    <2>4. \A v \in Workers : frame'[v].pc \in Ended => frame'[v].exec \in 1..Len(by')
      BY <1>5, <1>21, <2>2
    <2>5. /\ passes' \subseteq 1..Len(by') /\ completed' \subseteq 1..Len(by')
          /\ remote'.work \subseteq 0..Len(by') /\ clone'.work \subseteq 0..Len(by')
          /\ clone'.dirty \subseteq 0..Len(by')
      BY <1>2, <1>3, <1>21, <2>1, <2>2 DEF store
    <2>6. \A f \in Fs : minio'[f] \in E(f) /\ clone'.tree[f] \in E(f)
                        /\ remote'.tree[f] \in E(f)
      BY <1>4, <1>21, <2>1, <2>2 DEF store
    <2> QED BY <1>2, <1>21, <2>1, <2>3, <2>4, <2>5, <2>6 DEF store
  <1>30. CASE Take(w)
    <2>1. PICK j \in queued : /\ queued' = queued \ {j}
                              /\ frame' = [frame EXCEPT ![w] = [Idle EXCEPT !.job = j, !.pc = "begin"]]
      BY <1>30 DEF Take
    <2>2. [Idle EXCEPT !.job = j, !.pc = "begin"] \in Frames
          /\ [Idle EXCEPT !.job = j, !.pc = "begin"].pc = "begin"
      BY <1>2, IdleTyped DEF Frames, FramePCs
    <2>3. /\ frame' \in [Workers -> Frames] /\ frame'[w].pc = "begin"
          /\ \A v \in Workers \ {w} : frame'[v] = frame[v]
      BY <1>2, <2>1, <2>2
    <2>4. UNCHANGED <<walk, disk, store, agent, completed, warned>>
      BY <1>30 DEF Take
    <2> QED BY <1>2, <1>3, <1>4, <1>5, <2>1, <2>3, <2>4 DEF disk, store, agent, Ended
  <1>31. CASE Begin(w)
    <2>1. \E pc \in {"clone", "prepare"} : Goto(w, pc)
      BY <1>31 DEF Begin, At
    <2>2. PICK pc \in {"clone", "prepare"} : Goto(w, pc)
      BY <2>1
    <2>3. pc \in FramePCs
      BY DEF FramePCs
    <2>4. /\ frame' \in [Workers -> Frames] /\ frame'[w].pc = pc
          /\ frame'[w].exec = frame[w].exec
          /\ \A v \in Workers \ {w} : frame'[v] = frame[v]
      BY <2>2, <2>3, Going
    <2>5. UNCHANGED <<walk, queued, factory, source, store, agent, completed, warned>>
      BY <1>31 DEF Begin
    <2>6. /\ clone' \in Clones /\ clone'.work \subseteq 0..Len(by) /\ clone'.dirty \subseteq 0..Len(by)
          /\ \A f \in Fs : clone'.tree[f] \in D(f)
      BY <1>31, <1>2, <1>3, <1>4, NoCloneTyped DEF Begin, Clones
    <2> QED BY <1>2, <1>3, <1>4, <1>5, <2>4, <2>5, <2>6 DEF disk, store, agent, Ended
  <1>32. CASE CloneRepo(w)
    <2>1. \E pc \in {"checkout"} : Goto(w, pc)
      BY <1>32 DEF CloneRepo, At
    <2>2. PICK pc \in {"checkout"} : Goto(w, pc)
      BY <2>1
    <2>3. pc \in FramePCs
      BY DEF FramePCs
    <2>4. /\ frame' \in [Workers -> Frames] /\ frame'[w].pc = pc
          /\ frame'[w].exec = frame[w].exec
          /\ \A v \in Workers \ {w} : frame'[v] = frame[v]
      BY <2>2, <2>3, Going
    <2>5. UNCHANGED <<walk, queued, source, store, agent, completed, warned>>
      BY <1>32 DEF CloneRepo
    <2>6. /\ clone' \in Clones /\ clone'.work \subseteq 0..Len(by) /\ clone'.dirty \subseteq 0..Len(by)
          /\ \A f \in Fs : clone'.tree[f] \in D(f)
      <3>1. clone' = [clone EXCEPT !.head = "base", !.tree = base.tree, !.code = base.code]
        BY <1>32 DEF CloneRepo
      <3> QED BY <1>0, <1>2, <1>3, <3>1 DEF Clones
    <2>7. factory' \in Versions /\ \A f \in Fs : factory'[f] \in D(f)
      <3>1. factory' = Over(base.tree, factory)
        BY <1>32 DEF CloneRepo
      <3> QED BY <1>0, <1>2, <1>4, <3>1, VersionsTyped DEF Over, Versions
    <2> QED BY <1>2, <1>3, <1>4, <1>5, <2>4, <2>5, <2>6, <2>7 DEF disk, store, agent, Ended
  <1>33. CASE Checkout(w)
    <2>1. \E pc \in {"prepare"} : Goto(w, pc)
      BY <1>33 DEF Checkout, At
    <2>2. PICK pc \in {"prepare"} : Goto(w, pc)
      BY <2>1
    <2>3. pc \in FramePCs
      BY DEF FramePCs
    <2>4. /\ frame' \in [Workers -> Frames] /\ frame'[w].pc = pc
          /\ frame'[w].exec = frame[w].exec
          /\ \A v \in Workers \ {w} : frame'[v] = frame[v]
      BY <2>2, <2>3, Going
    <2>5. UNCHANGED <<walk, queued, source, store, agent, completed, warned>>
      BY <1>33 DEF Checkout
    <2>6. /\ clone' \in Clones /\ clone'.work \subseteq 0..Len(by) /\ clone'.dirty \subseteq 0..Len(by)
          /\ \A f \in Fs : clone'.tree[f] \in D(f)
      <3>1. /\ clone' = [clone EXCEPT !.head = "work", !.work = remote.work, !.tree = remote.tree,
                                      !.code = remote.code]
            /\ remote.work \in SUBSET Nat /\ remote.code \in BOOLEAN
        BY <1>33, <1>2 DEF Checkout, Branches
      <3> QED BY <1>2, <1>3, <1>4, <3>1 DEF Clones
    <2>7. factory' \in Versions /\ \A f \in Fs : factory'[f] \in D(f)
      <3>1. factory' = Switched(remote.tree)
        BY <1>33 DEF Checkout
      <3> QED BY <1>2, <1>3, <1>4, <3>1, VersionsTyped DEF Switched, Versions
    <2> QED BY <1>2, <1>3, <1>4, <1>5, <2>4, <2>5, <2>6, <2>7 DEF disk, store, agent, Ended
  <1>34. CASE Prepare(w)
    <2> DEFINE tree == [f \in DOMAIN factory |->
                           IF f \in Inputs(AgentOf(w)) /\ minio[f] # 0 THEN minio[f] ELSE factory[f]]
    <2>1. tree \in Versions /\ \A f \in Fs : tree[f] \in D(f)
      BY <1>2, <1>4, VersionsTyped DEF Versions
    <2>2. Prepared(w, tree)
      BY <1>34 DEF Prepare
    <2> HIDE DEF tree
    <2>3. UNCHANGED <<walk, queued, store, agent, completed, warned>>
      BY <2>2 DEF Prepared
    <2>4. /\ factory' = tree /\ clone' \in Clones
          /\ clone'.work = clone.work /\ clone'.dirty = clone.dirty /\ clone'.tree = clone.tree
          /\ frame' \in [Workers -> Frames] /\ frame'[w].pc \in {"source", "agent"}
          /\ source' \in {"none", "partial", "ready"}
          /\ \A v \in Workers \ {w} : frame'[v] = frame[v]
      BY <2>1, <2>2, Preparing
    <2>5. \A v \in Workers : frame'[v].pc \in Ended => frame'[v].exec \in 1..Len(by)
      BY <1>5, <2>4 DEF Ended
    <2> QED BY <1>2, <1>3, <1>4, <2>1, <2>3, <2>4, <2>5 DEF store, agent
  <1>35. CASE CloneSource(w)
    <2>1. \E pc \in {"import", "agent"} : Goto(w, pc)
      BY <1>35 DEF CloneSource, At
    <2>2. PICK pc \in {"import", "agent"} : Goto(w, pc)
      BY <2>1
    <2>3. pc \in FramePCs
      BY DEF FramePCs
    <2>4. /\ frame' \in [Workers -> Frames] /\ frame'[w].pc = pc
          /\ frame'[w].exec = frame[w].exec
          /\ \A v \in Workers \ {w} : frame'[v] = frame[v]
      BY <2>2, <2>3, Going
    <2>5. UNCHANGED <<walk, queued, clone, factory, store, agent, completed, warned>>
      BY <1>35 DEF CloneSource
    <2>7. source' \in {"none", "partial", "ready"}
      BY <1>35, <1>2 DEF CloneSource
    <2> QED BY <1>2, <1>3, <1>4, <1>5, <2>4, <2>5, <2>7 DEF disk, store, agent, Ended
  <1>36. CASE ImportSource(w)
    <2>1. \E pc \in {"agent"} : Goto(w, pc)
      BY <1>36 DEF ImportSource, At
    <2>2. PICK pc \in {"agent"} : Goto(w, pc)
      BY <2>1
    <2>3. pc \in FramePCs
      BY DEF FramePCs
    <2>4. /\ frame' \in [Workers -> Frames] /\ frame'[w].pc = pc
          /\ frame'[w].exec = frame[w].exec
          /\ \A v \in Workers \ {w} : frame'[v] = frame[v]
      BY <2>2, <2>3, Going
    <2>5. UNCHANGED <<walk, queued, factory, source, store, agent, completed, warned>>
      BY <1>36 DEF ImportSource
    <2>6. clone' = [clone EXCEPT !.head = "work", !.own = TRUE, !.locked = FALSE, !.tree = factory,
                                 !.code = TRUE,
                                 !.work = clone.work \cup clone.dirty \cup {Imported}, !.dirty = {}]
      BY <1>36 DEF ImportSource
    <2> DEFINE code == clone.work \cup clone.dirty \cup {Imported}
    <2>7. code \in SUBSET Nat /\ code \subseteq 0..Len(by)
      BY <1>2, <1>3 DEF Clones, Imported
    <2>8. \A W \in SUBSET Nat :
            LET c == [clone EXCEPT !.head = "work", !.own = TRUE, !.locked = FALSE, !.tree = factory,
                                   !.code = TRUE, !.work = W, !.dirty = {}] IN
            c \in Clones /\ c.work = W /\ c.dirty = {} /\ c.tree = factory
      BY <1>2 DEF Clones
    <2>9. /\ clone' \in Clones /\ clone'.work \subseteq 0..Len(by) /\ clone'.dirty \subseteq 0..Len(by)
          /\ clone'.tree = factory
      <3>1. clone' = [clone EXCEPT !.head = "work", !.own = TRUE, !.locked = FALSE, !.tree = factory,
                                   !.code = TRUE, !.work = code, !.dirty = {}]
        BY <2>6
      <3> HIDE DEF code
      <3> QED BY <2>7, <2>8, <3>1
    <2> QED BY <1>2, <1>3, <1>4, <1>5, <2>4, <2>5, <2>9 DEF disk, store, agent, Ended
  <1>37. CASE RunAgent(w)
    <2>1. PICK S \in SUBSET Fs : \E good \in SUBSET (passes \cup {Len(by) + 1}) : Ran(w, S, good)
      <3>1. Written(AgentOf(w)) \subseteq Fs
        BY VersionsTyped DEF Written
      <3> QED BY <1>37, <3>1 DEF RunAgent
    <2>2. PICK good \in SUBSET (passes \cup {Len(by) + 1}) : Ran(w, S, good)
      BY <2>1
    <2>3. UNCHANGED <<walk, queued, source, store, completed, warned>>
      BY <2>2 DEF Ran
    <2> QED BY <1>21, <2>2, <2>3, Running
  <1>38. CASE Commit(w)
    <2>1. \E pc \in {"push", "upload"} : Goto(w, pc)
      BY <1>38 DEF Commit, At
    <2>2. PICK pc \in {"push", "upload"} : Goto(w, pc)
      BY <2>1
    <2>3. pc \in FramePCs
      BY DEF FramePCs
    <2>4. /\ frame' \in [Workers -> Frames] /\ frame'[w].pc = pc
          /\ frame'[w].exec = frame[w].exec
          /\ \A v \in Workers \ {w} : frame'[v] = frame[v]
      BY <2>2, <2>3, Going
    <2>5. UNCHANGED <<walk, queued, factory, source, store, agent, completed, warned>>
      BY <1>38 DEF Commit
    <2>6. /\ clone' \in Clones /\ clone'.work \subseteq 0..Len(by) /\ clone'.dirty \subseteq 0..Len(by)
          /\ \A f \in Fs : clone'.tree[f] \in D(f)
      <3>1. \/ clone' = clone
            \/ clone' = [clone EXCEPT !.work = @ \cup clone.dirty, !.dirty = {}, !.tree = factory]
        BY <1>38 DEF Commit
      <3>2. clone.work \cup clone.dirty \in SUBSET Nat
        BY <1>2 DEF Clones
      <3>3. [clone EXCEPT !.work = @ \cup clone.dirty, !.dirty = {}, !.tree = factory] \in Clones
        BY <1>2, <3>2 DEF Clones
      <3>4. LET c == [clone EXCEPT !.work = @ \cup clone.dirty, !.dirty = {}, !.tree = factory] IN
            c.work = clone.work \cup clone.dirty /\ c.dirty = {} /\ c.tree = factory
        BY <1>2 DEF Clones
      <3> QED BY <1>2, <1>3, <1>4, <3>1, <3>3, <3>4
    <2>9. frame[w].exec \in 1..Len(by)
      BY <1>20, <1>38 DEF Commit, At, Ended
    <2> QED BY <1>2, <1>3, <1>4, <1>5, <2>9, <2>4, <2>5, <2>6 DEF disk, store, agent, Ended
  <1>39. CASE DirGone(w)
    <2>1. \E pc \in {"fail"} : Goto(w, pc)
      BY <1>39 DEF DirGone, At
    <2>2. PICK pc \in {"fail"} : Goto(w, pc)
      BY <2>1
    <2>3. pc \in FramePCs
      BY DEF FramePCs
    <2>4. /\ frame' \in [Workers -> Frames] /\ frame'[w].pc = pc
          /\ frame'[w].exec = frame[w].exec
          /\ \A v \in Workers \ {w} : frame'[v] = frame[v]
      BY <2>2, <2>3, Going
    <2>5. UNCHANGED <<walk, queued, disk, store, agent, completed, warned>>
      BY <1>39 DEF DirGone
    <2> QED BY <1>2, <1>3, <1>4, <1>5, <2>4, <2>5 DEF disk, store, agent, Ended
  <1>40. CASE Push(w)
    <2>1. \E pc \in {"upload"} : Goto(w, pc)
      BY <1>40 DEF Push, At
    <2>2. PICK pc \in {"upload"} : Goto(w, pc)
      BY <2>1
    <2>3. pc \in FramePCs
      BY DEF FramePCs
    <2>4. /\ frame' \in [Workers -> Frames] /\ frame'[w].pc = pc
          /\ frame'[w].exec = frame[w].exec
          /\ \A v \in Workers \ {w} : frame'[v] = frame[v]
      BY <2>2, <2>3, Going
    <2>5. UNCHANGED <<walk, queued, factory, source, minio, rows, agent, completed>>
      BY <1>40 DEF Push
    <2>6. /\ clone' \in Clones /\ clone'.work \subseteq 0..Len(by) /\ clone'.dirty \subseteq 0..Len(by)
          /\ \A f \in Fs : clone'.tree[f] \in D(f)
      <3>1. clone' = clone \/ clone' = [clone EXCEPT !.own = FALSE]
        BY <1>40 DEF Push
      <3>2. LET c == [clone EXCEPT !.own = FALSE] IN
            c \in Clones /\ c.work = clone.work /\ c.dirty = clone.dirty /\ c.tree = clone.tree
        BY <1>2 DEF Clones
      <3> QED BY <1>2, <1>3, <1>4, <3>1, <3>2
    <2>7. /\ remote' \in Branches /\ remote'.work \subseteq 0..Len(by)
          /\ \A f \in Fs : remote'.tree[f] \in D(f)
      <3>1. remote' = remote \/ \E c \in {clone.code, remote.code} :
               remote' = [work |-> clone.work, tree |-> clone.tree, code |-> c]
        BY <1>40 DEF Push
      <3>2. clone.work \in SUBSET Nat /\ clone.code \in BOOLEAN /\ remote.code \in BOOLEAN
        BY <1>2 DEF Clones, Branches
      <3> QED BY <1>2, <1>3, <1>4, <3>1, <3>2 DEF Branches
    <2>8. warned' \in BOOLEAN
      BY <1>40, <1>2 DEF Push, Warn
    <2>9. frame[w].exec \in 1..Len(by)
      BY <1>20, <1>40 DEF Push, At, Ended
    <2> QED BY <1>2, <1>3, <1>4, <1>5, <2>9, <2>4, <2>5, <2>6, <2>7, <2>8 DEF disk, store, agent, Ended
  <1>41. CASE Upload(w)
    <2>1. PICK S \in SUBSET NewFiles(w) : Uploaded(w, S)
      BY <1>41 DEF Upload
    <2>2. UNCHANGED <<walk, queued, disk, remote, rows, agent, completed, warned>>
      BY <2>1 DEF Uploaded
    <2>9. frame[w].exec \in 1..Len(by)
      BY <1>20, <1>41 DEF Upload, At, Ended
    <2>3. /\ minio' \in Versions
          /\ \A f \in Fs : minio'[f] = IF f \in S THEN factory[f] ELSE minio[f]
          /\ frame' \in [Workers -> Frames] /\ frame'[w].exec = frame[w].exec
          /\ \A v \in Workers \ {w} : frame'[v] = frame[v]
      BY <2>1, Uploading
    <2> QED BY <1>2, <1>3, <1>4, <1>5, <2>2, <2>3, <2>9 DEF disk, agent, Ended
  <1>42. CASE Record(w)
    <2>1. \E pc \in {"cleanup", "report"} : Goto(w, pc)
      BY <1>42 DEF Record, At
    <2>2. PICK pc \in {"cleanup", "report"} : Goto(w, pc)
      BY <2>1
    <2>3. pc \in FramePCs
      BY DEF FramePCs
    <2>4. /\ frame' \in [Workers -> Frames] /\ frame'[w].pc = pc
          /\ frame'[w].exec = frame[w].exec
          /\ \A v \in Workers \ {w} : frame'[v] = frame[v]
      BY <2>2, <2>3, Going
    <2>5. UNCHANGED <<walk, queued, disk, remote, minio, agent, completed, warned>>
      BY <1>42 DEF Record
    <2>6. rows' \subseteq [file : Fs, version : Int]
      BY <1>42, <1>2, RowsTyped DEF Record
    <2>9. frame[w].exec \in 1..Len(by)
      BY <1>20, <1>42 DEF Record, At, Ended
    <2> QED BY <1>2, <1>3, <1>4, <1>5, <2>9, <2>4, <2>5, <2>6 DEF disk, store, agent, Ended
  <1>43. CASE Cleanup(w)
    <2>1. \E pc \in {"report"} : Goto(w, pc)
      BY <1>43 DEF Cleanup, At
    <2>2. PICK pc \in {"report"} : Goto(w, pc)
      BY <2>1
    <2>3. pc \in FramePCs
      BY DEF FramePCs
    <2>4. /\ frame' \in [Workers -> Frames] /\ frame'[w].pc = pc
          /\ frame'[w].exec = frame[w].exec
          /\ \A v \in Workers \ {w} : frame'[v] = frame[v]
      BY <2>2, <2>3, Going
    <2>5. UNCHANGED <<walk, queued, store, agent, completed, warned>>
      BY <1>43 DEF Cleanup
    <2>6. clone' = NoClone /\ factory' = NoFiles /\ source' = "none"
      BY <1>43 DEF Cleanup
    <2>7. \A f \in Fs : NoFiles[f] \in D(f)
      BY <1>2 DEF NoFiles
    <2>9. frame[w].exec \in 1..Len(by)
      BY <1>20, <1>43 DEF Cleanup, At, Ended
    <2> QED BY <1>2, <1>3, <1>4, <1>5, <2>9, <2>4, <2>5, <2>6, <2>7, NoCloneTyped, VersionsTyped DEF disk, store, agent, Ended
  <1>44. CASE Report(w)
    <2>1. Goto(w, "answer") /\ "answer" \in FramePCs
      BY <1>44 DEF Report, FramePCs
    <2>2. /\ frame' \in [Workers -> Frames] /\ frame'[w].exec = frame[w].exec
          /\ \A v \in Workers \ {w} : frame'[v] = frame[v]
      BY <2>1, Going
    <2>3. UNCHANGED <<walk, queued, disk, store, agent, warned>>
      BY <1>44 DEF Report
    <2>4. frame[w].exec \in 1..Len(by)
      BY <1>20, <1>44 DEF Report, At, Ended
    <2>5. completed' \subseteq 1..Len(by)
      BY <1>44, <1>2, <2>4 DEF Report, ExecOf
    <2> QED BY <1>2, <1>3, <1>4, <1>5, <2>2, <2>3, <2>4, <2>5 DEF disk, store, agent, Ended
  <1>45. CASE Answer(w) \/ DieAnswered(w)
    <2>1. \E verdict : \E of \in Int : Answered(frame[w].job, verdict, of)
      BY <1>45, FrameTyped DEF Answer, DieAnswered, Tell
    <2>2. walk' \in Walks
      BY <2>1, Answering
    <2>3. /\ Leave(w) /\ UNCHANGED <<disk, store, agent, completed, warned>>
          /\ queued' \subseteq JobsOf
      BY <1>45, <1>2, FrameTyped DEF Answer, DieAnswered
    <2> QED BY <1>2, <1>3, <1>4, <1>5, <2>2, <2>3, Leaving DEF disk, store, agent, Ended
  <1>46. CASE CloneFails(w)
    <2>1. \E pc \in {"fail"} : Goto(w, pc)
      BY <1>46 DEF CloneFails, At
    <2>2. PICK pc \in {"fail"} : Goto(w, pc)
      BY <2>1
    <2>3. pc \in FramePCs
      BY DEF FramePCs
    <2>4. /\ frame' \in [Workers -> Frames] /\ frame'[w].pc = pc
          /\ frame'[w].exec = frame[w].exec
          /\ \A v \in Workers \ {w} : frame'[v] = frame[v]
      BY <2>2, <2>3, Going
    <2>5. UNCHANGED <<walk, queued, factory, source, store, agent, completed, warned>>
      BY <1>46 DEF CloneFails
    <2>6. /\ clone' \in Clones /\ clone'.work \subseteq 0..Len(by) /\ clone'.dirty \subseteq 0..Len(by)
          /\ \A f \in Fs : clone'.tree[f] \in D(f)
      BY <1>46, <1>2, <1>3, <1>4, NoCloneTyped DEF CloneFails, Clones
    <2> QED BY <1>2, <1>3, <1>4, <1>5, <2>4, <2>5, <2>6 DEF disk, store, agent, Ended
  <1>47. CASE CheckoutFails(w)
    <2>1. \E pc \in {"prepare", "fail"} : Goto(w, pc)
      BY <1>47 DEF CheckoutFails, At
    <2>2. PICK pc \in {"prepare", "fail"} : Goto(w, pc)
      BY <2>1
    <2>3. pc \in FramePCs
      BY DEF FramePCs
    <2>4. /\ frame' \in [Workers -> Frames] /\ frame'[w].pc = pc
          /\ frame'[w].exec = frame[w].exec
          /\ \A v \in Workers \ {w} : frame'[v] = frame[v]
      BY <2>2, <2>3, Going
    <2>5. UNCHANGED <<walk, queued, factory, source, store, agent, completed, warned>>
      BY <1>47 DEF CheckoutFails
    <2>6. /\ clone' \in Clones /\ clone'.work \subseteq 0..Len(by) /\ clone'.dirty \subseteq 0..Len(by)
          /\ \A f \in Fs : clone'.tree[f] \in D(f)
      BY <1>47, <1>2, <1>3, <1>4, NoCloneTyped DEF CheckoutFails, Clones
    <2> QED BY <1>2, <1>3, <1>4, <1>5, <2>4, <2>5, <2>6 DEF disk, store, agent, Ended
  <1>48. CASE PrepareOffline(w)
    <2> DEFINE tree == factory
    <2>1. tree \in Versions /\ \A f \in Fs : tree[f] \in D(f)
      BY <1>2, <1>4, VersionsTyped DEF Versions
    <2>2. Prepared(w, tree)
      BY <1>48 DEF PrepareOffline
    <2> HIDE DEF tree
    <2>3. UNCHANGED <<walk, queued, store, agent, completed, warned>>
      BY <2>2 DEF Prepared
    <2>4. /\ factory' = tree /\ clone' \in Clones
          /\ clone'.work = clone.work /\ clone'.dirty = clone.dirty /\ clone'.tree = clone.tree
          /\ frame' \in [Workers -> Frames] /\ frame'[w].pc \in {"source", "agent"}
          /\ source' \in {"none", "partial", "ready"}
          /\ \A v \in Workers \ {w} : frame'[v] = frame[v]
      BY <2>1, <2>2, Preparing
    <2>5. \A v \in Workers : frame'[v].pc \in Ended => frame'[v].exec \in 1..Len(by)
      BY <1>5, <2>4 DEF Ended
    <2> QED BY <1>2, <1>3, <1>4, <2>1, <2>3, <2>4, <2>5 DEF store, agent
  <1>49. CASE SourceFails(w)
    <2>1. \E pc \in {"agent"} : Goto(w, pc)
      BY <1>49 DEF SourceFails, At
    <2>2. PICK pc \in {"agent"} : Goto(w, pc)
      BY <2>1
    <2>3. pc \in FramePCs
      BY DEF FramePCs
    <2>4. /\ frame' \in [Workers -> Frames] /\ frame'[w].pc = pc
          /\ frame'[w].exec = frame[w].exec
          /\ \A v \in Workers \ {w} : frame'[v] = frame[v]
      BY <2>2, <2>3, Going
    <2>5. UNCHANGED <<walk, queued, factory, store, agent, completed>>
      BY <1>49 DEF SourceFails
    <2>6. /\ clone' \in Clones /\ clone'.work \subseteq 0..Len(by) /\ clone'.dirty \subseteq 0..Len(by)
          /\ \A f \in Fs : clone'.tree[f] \in D(f)
      BY <1>49, <1>2, <1>3, <1>4, SourceLeaving DEF SourceFails
    <2>7. source' \in {"none", "partial", "ready"}
      BY <1>49, SourceLeaving DEF SourceFails
    <2>8. warned' = TRUE
      BY <1>49 DEF SourceFails
    <2> QED BY <1>2, <1>3, <1>4, <1>5, <2>4, <2>5, <2>6, <2>7, <2>8 DEF disk, store, agent, Ended
  <1>50. CASE SkipFiles(w)
    <2>1. PICK S \in SUBSET Fs : \E good \in SUBSET (passes \cup {Len(by) + 1}) : Ran(w, S, good)
      <3>1. Written(AgentOf(w)) \subseteq Fs
        BY VersionsTyped DEF Written
      <3> QED BY <1>50, <3>1 DEF SkipFiles
    <2>2. PICK good \in SUBSET (passes \cup {Len(by) + 1}) : Ran(w, S, good)
      BY <2>1
    <2>3. UNCHANGED <<walk, queued, source, store, completed, warned>>
      BY <2>2 DEF Ran
    <2> QED BY <1>21, <2>2, <2>3, Running
  <1>51. CASE AgentFails(w)
    <2>1. PICK S \in SUBSET Fs : Wrote(w, S)
      <3>1. Written(AgentOf(w)) \subseteq Fs
        BY VersionsTyped DEF Written
      <3> QED BY <1>51, <3>1 DEF AgentFails
    <2>2. /\ Goto(w, "fail") /\ "fail" \in FramePCs /\ passes' = passes \cup {Len(by) + 1}
          /\ UNCHANGED <<walk, queued, source, store, completed, warned>>
      BY <1>51 DEF AgentFails, FramePCs
    <2>3. /\ frame' \in [Workers -> Frames] /\ frame'[w].pc = "fail"
          /\ \A v \in Workers \ {w} : frame'[v] = frame[v]
      BY <2>2, Going
    <2> QED BY <1>21, <2>1, <2>2, <2>3 DEF Ended
  <1>52. CASE PushFails(w)
    <2>1. \E pc \in {"upload"} : Goto(w, pc)
      BY <1>52 DEF PushFails, At
    <2>2. PICK pc \in {"upload"} : Goto(w, pc)
      BY <2>1
    <2>3. pc \in FramePCs
      BY DEF FramePCs
    <2>4. /\ frame' \in [Workers -> Frames] /\ frame'[w].pc = pc
          /\ frame'[w].exec = frame[w].exec
          /\ \A v \in Workers \ {w} : frame'[v] = frame[v]
      BY <2>2, <2>3, Going
    <2>5. UNCHANGED <<walk, queued, disk, store, agent, completed>>
      BY <1>52 DEF PushFails
    <2>8. warned' \in BOOLEAN
      BY <1>52 DEF PushFails, Warn
    <2>9. frame[w].exec \in 1..Len(by)
      BY <1>20, <1>52 DEF PushFails, At, Ended
    <2> QED BY <1>2, <1>3, <1>4, <1>5, <2>9, <2>4, <2>5, <2>8 DEF disk, store, agent, Ended
  <1>53. CASE UploadFails(w)
    <2>1. PICK S \in SUBSET NewFiles(w) : Uploaded(w, S)
      BY <1>53 DEF UploadFails
    <2>2. UNCHANGED <<walk, queued, disk, remote, rows, agent, completed, warned>>
      BY <2>1 DEF Uploaded
    <2>9. frame[w].exec \in 1..Len(by)
      BY <1>20, <1>53 DEF UploadFails, At, Ended
    <2>3. /\ minio' \in Versions
          /\ \A f \in Fs : minio'[f] = IF f \in S THEN factory[f] ELSE minio[f]
          /\ frame' \in [Workers -> Frames] /\ frame'[w].exec = frame[w].exec
          /\ \A v \in Workers \ {w} : frame'[v] = frame[v]
      BY <2>1, Uploading
    <2> QED BY <1>2, <1>3, <1>4, <1>5, <2>2, <2>3, <2>9 DEF disk, agent, Ended
  <1>54. CASE Crash(w)
    <2>1. /\ Leave(w) /\ queued' = queued \cup {frame[w].job}
          /\ UNCHANGED <<walk, factory, source, store, agent, completed, warned>>
          /\ clone' = clone
      BY <1>54 DEF Crash, disk
    <2>2. /\ clone' \in Clones /\ clone'.work = clone.work /\ clone'.dirty = clone.dirty
          /\ clone'.tree = clone.tree
      BY <1>2, <2>1 DEF Clones
    <2> QED BY <1>2, <1>3, <1>4, <1>5, <2>1, <2>2, Leaving, FrameTyped DEF store, agent, Ended
  <1>55. CASE DieCommitting(w)
    <2>1. /\ Leave(w) /\ queued' = queued \cup {frame[w].job}
          /\ UNCHANGED <<walk, factory, source, store, agent, completed, warned>>
          /\ clone' = [clone EXCEPT !.locked = TRUE]
      BY <1>55 DEF DieCommitting, disk
    <2>2. /\ clone' \in Clones /\ clone'.work = clone.work /\ clone'.dirty = clone.dirty
          /\ clone'.tree = clone.tree
      BY <1>2, <2>1 DEF Clones
    <2> QED BY <1>2, <1>3, <1>4, <1>5, <2>1, <2>2, Leaving, FrameTyped DEF store, agent, Ended
  <1>56. CASE Redeliver(w)
    <2>1. /\ queued' = queued \cup {frame[w].job}
          /\ UNCHANGED <<walk, frame, disk, store, agent, completed, warned>>
      BY <1>56 DEF Redeliver
    <2> QED BY <1>2, <1>3, <1>4, <1>5, <2>1, FrameTyped DEF disk, store, agent
  <1>57. CASE DbFails(w)
    <2>1. rows' \subseteq [file : Fs, version : Int]
      BY <1>57, <1>2, DbFailing, RowsTyped
    <2>2. /\ frame' \in [Workers -> Frames] /\ frame'[w].pc = "fail"
          /\ \A v \in Workers \ {w} : frame'[v] = frame[v]
      BY <1>57, DbFailing, Going
    <2>3. /\ clone' \in Clones /\ source' \in {"none", "partial", "ready"}
          /\ clone'.work = clone.work /\ clone'.dirty = clone.dirty /\ clone'.tree = clone.tree
          /\ UNCHANGED <<walk, queued, factory, remote, minio, agent, completed, warned>>
      BY <1>57, DbFailing
    <2> QED BY <1>2, <1>3, <1>4, <1>5, <2>1, <2>2, <2>3 DEF agent, Ended
  <1> QED BY <1>30, <1>31, <1>32, <1>33, <1>34, <1>35, <1>36, <1>37, <1>38, <1>39, <1>40, <1>41, <1>42, <1>43,
              <1>44, <1>45, <1>46, <1>47, <1>48, <1>49, <1>50, <1>51, <1>52, <1>53, <1>54, <1>55, <1>56, <1>57
      DEF Step, Execute, Mishap

-------------------------------------------------------------------------------
\* One job at a time.

\* The steps in which a worker goes on with its job.
Continues(w) ==
    \/ Begin(w) \/ CloneRepo(w) \/ CloneFails(w) \/ Checkout(w) \/ CheckoutFails(w)
    \/ Prepare(w) \/ PrepareOffline(w) \/ CloneSource(w) \/ ImportSource(w) \/ SourceFails(w)
    \/ RunAgent(w) \/ SkipFiles(w) \/ AgentFails(w) \/ Commit(w) \/ DirGone(w) \/ Push(w)
    \/ PushFails(w) \/ Upload(w) \/ UploadFails(w) \/ Record(w) \/ Cleanup(w) \/ Report(w)
    \/ DbFails(w)

LEMMA Ongoing ==
    ASSUME TypeOK, NEW w \in Workers, Continues(w)
    PROVE  /\ Busy(w) /\ frame'[w].pc # "idle" /\ frame'[w].job = frame[w].job
           /\ \A v \in Workers \ {w} : frame'[v] = frame[v]
           /\ walk' = walk /\ queued' = queued
           /\ ~Report(w) => completed' = completed
  <1>1. ASSUME NEW pc \in FramePCs, Goto(w, pc)
        PROVE  frame'[w].pc = pc /\ frame'[w].job = frame[w].job
               /\ \A v \in Workers \ {w} : frame'[v] = frame[v]
    BY <1>1, Going
  <1>2. {"clone", "prepare", "checkout", "fail", "import", "agent", "push", "upload", "cleanup",
         "report", "answer"} \subseteq FramePCs
    BY DEF FramePCs
  <1>3. CASE Begin(w)
    BY <1>1, <1>2, <1>3 DEF Begin, Busy, At
  <1>4. CASE CloneRepo(w) \/ CloneFails(w)
    BY <1>1, <1>2, <1>4 DEF CloneRepo, CloneFails, Busy, At
  <1>5. CASE Checkout(w) \/ CheckoutFails(w)
    BY <1>1, <1>2, <1>5 DEF Checkout, CheckoutFails, Busy, At
  <1>6. CASE Prepare(w) \/ PrepareOffline(w)
    <2>1. PICK tree \in Versions : Prepared(w, tree)
      <3>1. factory \in Versions /\ [f \in DOMAIN factory |->
                IF f \in Inputs(AgentOf(w)) /\ minio[f] # 0 THEN minio[f] ELSE factory[f]] \in Versions
        BY VersionsTyped DEF TypeOK, Versions
      <3> QED BY <1>6, <3>1 DEF Prepare, PrepareOffline
    <2>2. walk' = walk /\ queued' = queued /\ completed' = completed /\ Busy(w)
      BY <1>6, <2>1 DEF Prepare, PrepareOffline, Prepared, Busy, At
    <2> QED BY <2>1, <2>2, Preparing
  <1>7. CASE CloneSource(w) \/ ImportSource(w) \/ SourceFails(w)
    <2>1. (At(w, "source") \/ At(w, "import")) /\ walk' = walk /\ queued' = queued
          /\ completed' = completed
      BY <1>7 DEF CloneSource, ImportSource, SourceFails
    <2>2. Goto(w, "import") \/ Goto(w, "agent")
      BY <1>7 DEF CloneSource, ImportSource, SourceFails
    <2> QED BY <1>1, <1>2, <2>1, <2>2 DEF Busy, At
  <1>8. CASE RunAgent(w) \/ SkipFiles(w)
    <2>1. PICK S \in SUBSET DOMAIN NoFiles : \E good : Ran(w, S, good)
      <3>1. Written(AgentOf(w)) \subseteq DOMAIN NoFiles
        BY VersionsTyped DEF Written
      <3> QED BY <1>8, <3>1 DEF RunAgent, SkipFiles
    <2>2. walk' = walk /\ queued' = queued /\ completed' = completed /\ Busy(w)
      BY <1>8, <2>1 DEF RunAgent, SkipFiles, Ran, Busy, At
    <2> QED BY <2>1, <2>2, Running
  <1>9. CASE AgentFails(w)
    BY <1>1, <1>2, <1>9 DEF AgentFails, Busy, At
  <1>10. CASE Commit(w) \/ DirGone(w)
    BY <1>1, <1>2, <1>10 DEF Commit, DirGone, Busy, At
  <1>11. CASE Push(w) \/ PushFails(w)
    BY <1>1, <1>2, <1>11 DEF Push, PushFails, Busy, At
  <1>12. CASE Upload(w) \/ UploadFails(w)
    <2>1. PICK S \in SUBSET NewFiles(w) : Uploaded(w, S)
      BY <1>12 DEF Upload, UploadFails
    <2>2. walk' = walk /\ queued' = queued /\ completed' = completed /\ Busy(w)
      BY <1>12, <2>1 DEF Upload, UploadFails, Uploaded, Busy, At
    <2> QED BY <2>1, <2>2, Uploading
  <1>13. CASE Record(w) \/ Cleanup(w)
    BY <1>1, <1>2, <1>13 DEF Record, Cleanup, Busy, At
  <1>14. CASE Report(w)
    BY <1>1, <1>2, <1>14 DEF Report, Busy, At
  <1>15. CASE DbFails(w)
    BY <1>1, <1>2, <1>15, DbFailing
  <1> QED BY <1>3, <1>4, <1>5, <1>6, <1>7, <1>8, <1>9, <1>10, <1>11, <1>12, <1>13, <1>14, <1>15
      DEF Continues

\* What a worker does, if not that.
LEMMA StepCases ==
    ASSUME NEW w \in Workers, Step(w)
    PROVE  \/ Continues(w) \/ Take(w) \/ Answer(w) \/ Crash(w) \/ DieCommitting(w)
           \/ DieAnswered(w) \/ Redeliver(w)
  BY DEF Step, Execute, Mishap, Continues

\* A mishap that has happened is not unspent.
LEMMA Happened ==
    ASSUME left \in [Mishaps -> Nat], BudgetsShrink
    PROVE  /\ \A op \in Mishaps \ {"total"} : Spend(op) => ~Unspent({op})'
           /\ \A w \in Workers : Redeliver(w) \/ DieAnswered(w) => ~OneAtATime'
           /\ Abandon => ~Unspent({"abandon"})'
           /\ Restart => ~Unspent({"restart"})'
  <1>1. \A op \in Mishaps \ {"total"} : Spend(op) => ~Unspent({op})'
    <2> SUFFICES ASSUME NEW op \in Mishaps \ {"total"}, Spend(op)
                 PROVE  ~Unspent({op})'
      OBVIOUS
    <2>1. left'[op] # Budget[op]
      BY Spending
    <2> QED BY <2>1 DEF Unspent
  <1>2. {"redelivered", "abandon", "restart"} \subseteq Mishaps \ {"total"}
    BY DEF Mishaps
  <1> QED BY <1>1, <1>2 DEF Redeliver, DieAnswered, Abandon, Restart, OneAtATime

LEMMA OneJobStep ==
    ASSUME TypeOK, BudgetsShrink, OneJob, [Next]_vars
    PROVE  OneJob'
  <1> SUFFICES ASSUME OneAtATime'
               PROVE  OneJob'
    BY DEF OneJob
  <1>1. left \in [Mishaps -> Nat]
    BY DEF TypeOK
  <1>2. OneAtATime /\ (Unspent({"abandon"})' => Unspent({"abandon"}))
    <2>1. {"abandon"} \in SUBSET Mishaps
      BY DEF Mishaps
    <2> QED BY <1>1, <2>1, Unhappened
  <1>3. /\ \A j \in queued : j = Current
        /\ \A w \in Workers : Busy(w) => frame[w].job = Current
        /\ \A v, w \in Workers : Busy(v) /\ Busy(w) => v = w
        /\ queued # {} => \A w \in Workers : ~Busy(w)
        /\ walk.pc = "ready" \/ (walk.pc = "over" /\ Unspent({"abandon"})) => NothingOut
    BY <1>2 DEF OneJob
  <1>4. walk \in Walks /\ frame \in [Workers -> Frames]
    BY DEF TypeOK
  <1>5. ASSUME walk' = walk, queued' = queued, NEW w \in Workers, Busy(w), frame'[w].pc # "idle",
               frame'[w].job = frame[w].job, \A v \in Workers \ {w} : frame'[v] = frame[v]
        PROVE  OneJob'
    BY <1>2, <1>3, <1>5 DEF OneJob, Busy, At, Current, NothingOut
  <1>6. ASSUME queued' = {}, \A v \in Workers : frame'[v].pc = "idle"
        PROVE  OneJob'
    BY <1>6 DEF OneJob, Busy, At, NothingOut
  <1>7. CASE UNCHANGED vars
    <2>1. walk' = walk /\ queued' = queued /\ frame' = frame
      BY <1>7 DEF vars
    <2> QED BY <1>2, <1>3, <2>1 DEF OneJob, Busy, At, Current, NothingOut
  <1>8. CASE Publish
    <2>1. /\ NothingOut /\ frame' = frame
          /\ walk' = [walk EXCEPT !.pc = "waiting", !.no = @ + 1]
          /\ queued' = queued \cup {[no |-> walk.no + 1, idx |-> walk.idx]}
      BY <1>3, <1>8 DEF Publish
    <2>2. walk'.pc = "waiting" /\ walk'.no = walk.no + 1 /\ walk'.idx = walk.idx
      BY <1>4, <2>1 DEF Walks
    <2> QED BY <2>1, <2>2 DEF OneJob, Busy, At, Current, NothingOut
  <1>9. CASE Abandon
    <2>1. ~Unspent({"abandon"})' /\ queued' = queued /\ frame' = frame
          /\ walk' = [walk EXCEPT !.pc = "over"]
      BY <1>1, <1>9, Happened DEF Abandon
    <2>2. walk'.pc = "over" /\ walk'.no = walk.no /\ walk'.idx = walk.idx
      BY <1>4, <2>1 DEF Walks
    <2> QED BY <1>3, <2>1, <2>2 DEF OneJob, Busy, At, Current
  <1>10. CASE Restart
    <2>1. ~Unspent({"restart"})' /\ walk.pc = "over" /\ queued' = queued /\ frame' = frame
      BY <1>1, <1>10, Happened DEF Restart
    <2>2. NothingOut
      BY <1>2, <1>3, <2>1 DEF OneAtATime
    <2> QED BY <1>6, <2>1, <2>2 DEF NothingOut, Busy, At
  <1>11. ASSUME NEW w \in Workers, Step(w)
         PROVE  OneJob'
    <2>1. CASE Continues(w)
      BY <1>5, <2>1, Ongoing
    <2>2. CASE Take(w)
      <3>1. PICK j \in queued : /\ queued' = queued \ {j}
                                /\ frame' = [frame EXCEPT ![w] = [Idle EXCEPT !.job = j, !.pc = "begin"]]
        BY <2>2 DEF Take
      <3>2. queued' = {} /\ j = Current /\ walk' = walk /\ \A v \in Workers : ~Busy(v)
        BY <1>3, <2>2, <3>1 DEF Take
      <3>3. frame'[w].job = j /\ \A v \in Workers \ {w} : frame'[v] = frame[v]
        BY <1>4, <3>1 DEF Idle
      <3>4. ~NothingOut
        BY <3>1 DEF NothingOut
      <3> QED BY <1>2, <1>3, <3>2, <3>3, <3>4 DEF OneJob, Busy, At, Current
    <2>3. CASE Answer(w)
      <3>1. Leave(w) /\ queued' = queued /\ Busy(w)
        BY <2>3 DEF Answer, Tell, Busy, At
      <3>2. queued = {} /\ \A v \in Workers \ {w} : ~Busy(v)
        BY <1>3, <3>1
      <3> QED BY <1>6, <3>1, <3>2, Leaving DEF Busy, At
    <2>4. CASE Crash(w) \/ DieCommitting(w)
      <3>1. Leave(w) /\ queued' = queued \cup {frame[w].job} /\ Busy(w) /\ walk' = walk
        BY <2>4 DEF Crash, DieCommitting, Busy, At
      <3>2. queued' = {Current} /\ \A v \in Workers \ {w} : ~Busy(v)
        BY <1>3, <3>1
      <3>3. ~NothingOut
        BY <3>1 DEF NothingOut
      <3> QED BY <1>2, <1>3, <3>1, <3>2, <3>3, Leaving DEF OneJob, Busy, At, Current
    <2>5. CASE Redeliver(w) \/ DieAnswered(w)
      BY <1>1, <2>5, Happened
    <2> QED BY <1>11, <2>1, <2>2, <2>3, <2>4, <2>5, StepCases
  <1> QED BY <1>7, <1>8, <1>9, <1>10, <1>11 DEF Next, Step

\* While one worker steps no other has a job.
LEMMA Alone ==
    ASSUME TypeOK, BudgetsShrink, OneJob, [Next]_vars, OneAtATime', NEW w \in Workers, Step(w)
    PROVE  /\ OneAtATime /\ ~Redeliver(w) /\ ~DieAnswered(w)
           /\ \A v \in Workers \ {w} : frame[v].pc = "idle" /\ frame'[v] = frame[v]
           /\ Busy(w) => frame[w].job = Current /\ AgentOf(w) = Name(walk.idx)
           /\ frame'[w].pc = "idle" \/ Continues(w) \/ Take(w)
  <1>1. left \in [Mishaps -> Nat]
    BY DEF TypeOK
  <1>2. OneAtATime
    BY <1>1, Unhappened
  <1>3. ~Redeliver(w) /\ ~DieAnswered(w)
    BY <1>1, Happened
  <1>4. /\ \A v \in Workers : Busy(v) => frame[v].job = Current
        /\ \A v \in Workers : Busy(v) /\ Busy(w) => v = w
        /\ queued # {} => \A v \in Workers : ~Busy(v)
    BY <1>2 DEF OneJob
  <1>5. Busy(w) => frame[w].job = Current /\ AgentOf(w) = Name(walk.idx)
    BY <1>4 DEF AgentOf, Current
  <1>6. CASE Take(w)
    <2>1. queued # {} /\ \A v \in Workers \ {w} : frame'[v] = frame[v]
      BY <1>6 DEF Take, TypeOK
    <2> QED BY <1>2, <1>3, <1>4, <1>5, <1>6, <2>1 DEF Busy, At
  <1>7. CASE Continues(w)
    BY <1>2, <1>3, <1>4, <1>5, <1>7, Ongoing DEF Busy, At
  <1>8. CASE Answer(w) \/ Crash(w) \/ DieCommitting(w)
    <2>1. Leave(w) /\ Busy(w)
      BY <1>8 DEF Answer, Tell, Crash, DieCommitting, Busy, At
    <2> QED BY <1>2, <1>3, <1>4, <1>5, <2>1, Leaving DEF Busy, At
  <1> QED BY <1>3, <1>6, <1>7, <1>8, StepCases

-------------------------------------------------------------------------------
\* The clone, and what is uploaded from it.

LEMMA CloneShapeStep ==
    ASSUME TypeOK, BudgetsShrink, CloneShape, [Next]_vars
    PROVE  CloneShape'
  <1>1. Last' = Last
    BY Paid, SameStages DEF TypeOK
  <1>2. clone \in Clones /\ frame \in [Workers -> Frames]
    BY DEF TypeOK
  <1>3. clone'.head = "none" => clone' = NoClone
    <2>1. CASE clone' = clone \/ clone' = NoClone
      BY <2>1 DEF CloneShape
    <2>2. ASSUME NEW h \in {"partial", "base", "work"}, clone'.head = h
          PROVE  clone'.head # "none"
      BY <2>2
    <2>3. ASSUME NEW w \in Workers, Step(w)
          PROVE  clone' = clone \/ clone' = NoClone \/ clone'.head # "none"
      <3>1. CASE Begin(w) \/ CloneRepo(w) \/ CloneFails(w) \/ Checkout(w) \/ CheckoutFails(w)
        BY <1>2, <3>1 DEF Begin, CloneRepo, CloneFails, Checkout, CheckoutFails, Clones
      <3>2. CASE Prepare(w) \/ PrepareOffline(w)
        BY <1>2, <3>2 DEF Prepare, PrepareOffline, Prepared, Clones
      <3>3. CASE CloneSource(w) \/ ImportSource(w) \/ SourceFails(w)
        BY <1>2, <3>3 DEF CloneSource, ImportSource, SourceFails, SourceLeft, Clones
      <3>4. CASE RunAgent(w) \/ SkipFiles(w) \/ AgentFails(w)
        BY <1>2, <3>4 DEF RunAgent, SkipFiles, AgentFails, Ran, Wrote, Clones
      <3>5. CASE Commit(w) \/ Push(w) \/ DieCommitting(w)
        BY <1>2, <3>5 DEF Commit, Push, DieCommitting, Pushable, Clones
      <3>6. CASE Cleanup(w)
        BY <3>6 DEF Cleanup
      <3>7. CASE DirGone(w) \/ PushFails(w) \/ Upload(w) \/ UploadFails(w) \/ Record(w)
        BY <3>7 DEF DirGone, PushFails, Upload, UploadFails, Uploaded, Record, disk
      <3>8. CASE Take(w) \/ Report(w) \/ Answer(w) \/ Crash(w) \/ DieAnswered(w) \/ Redeliver(w)
        BY <3>8 DEF Take, Report, Answer, Crash, DieAnswered, Redeliver, disk
      <3>9. CASE DbFails(w)
        <4>1. clone' = clone \/ clone' = [clone EXCEPT !.head = "partial"]
          BY <3>9 DEF DbFails, SourceLeft
        <4> QED BY <1>2, <4>1 DEF Clones
      <3> QED BY <2>3, <3>1, <3>2, <3>3, <3>4, <3>5, <3>6, <3>7, <3>8, <3>9, StepCases
              DEF Continues
    <2>4. CASE Publish \/ Abandon \/ Restart \/ UNCHANGED vars
      BY <2>1, <2>4 DEF Publish, Abandon, Restart, vars, disk
    <2> QED BY <2>1, <2>3, <2>4 DEF Next, Step
  <1>4. ASSUME NEW v \in Workers, frame'[v].pc \in {"push", "cleanup"}
        PROVE  frame'[v].job.idx = Last
    <2>1. CASE frame'[v] = frame[v]
      BY <1>4, <2>1 DEF CloneShape, At, IsFinal
    <2>2. ASSUME NEW w \in Workers, Step(w), frame'[v] # frame[v]
          PROVE  frame'[v].job.idx = Last
      <3>1. CASE Continues(w)
        <4>1. v = w /\ frame'[w].job = frame[w].job
          BY <2>2, <3>1, Ongoing
        <4>2. Commit(w) \/ Record(w)
          <5>1. ASSUME NEW pc \in FramePCs \ {"push", "cleanup"}, Goto(w, pc)
                PROVE  FALSE
            BY <1>4, <4>1, <5>1, Going
          <5>2. {"clone", "prepare", "checkout", "fail", "import", "agent", "upload",
                 "report", "answer"} \subseteq FramePCs \ {"push", "cleanup"}
            BY DEF FramePCs
          <5>3. ~(Begin(w) \/ CloneRepo(w) \/ CloneFails(w) \/ Checkout(w) \/ CheckoutFails(w))
            BY <5>1, <5>2 DEF Begin, CloneRepo, CloneFails, Checkout, CheckoutFails
          <5>4. ~(Prepare(w) \/ PrepareOffline(w))
            <6>1. factory \in Versions /\ [f \in DOMAIN factory |->
                    IF f \in Inputs(AgentOf(w)) /\ minio[f] # 0 THEN minio[f] ELSE factory[f]] \in Versions
              BY VersionsTyped DEF TypeOK, Versions
            <6> QED BY <1>4, <4>1, <6>1, Preparing DEF Prepare, PrepareOffline
          <5>5. ~(CloneSource(w) \/ ImportSource(w) \/ SourceFails(w))
            BY <5>1, <5>2 DEF CloneSource, ImportSource, SourceFails
          <5>6. ~(RunAgent(w) \/ SkipFiles(w))
            <6>1. Written(AgentOf(w)) \subseteq DOMAIN NoFiles
              BY VersionsTyped DEF Written
            <6> QED BY <1>4, <4>1, <6>1, Running DEF RunAgent, SkipFiles
          <5>7. ~(AgentFails(w) \/ DirGone(w) \/ Push(w) \/ PushFails(w) \/ Cleanup(w))
            BY <5>1, <5>2 DEF AgentFails, DirGone, Push, PushFails, Cleanup
          <5>9. ~(Report(w) \/ DbFails(w))
            BY <5>1, <5>2 DEF Report, DbFails
          <5>8. ~(Upload(w) \/ UploadFails(w))
            BY <1>4, <4>1, Uploading DEF Upload, UploadFails
          <5> QED BY <3>1, <5>3, <5>4, <5>5, <5>6, <5>7, <5>8, <5>9 DEF Continues
        <4>3. {"push", "upload", "cleanup", "report"} \subseteq FramePCs
          BY DEF FramePCs
        <4>4. IsFinal(w)
          BY <1>4, <4>1, <4>2, <4>3, Going DEF Commit, Record
        <4> QED BY <4>1, <4>4 DEF IsFinal
      <3>2. CASE Take(w)
        BY <1>2, <1>4, <2>2, <3>2 DEF Take, Idle
      <3>3. CASE Answer(w) \/ Crash(w) \/ DieCommitting(w) \/ DieAnswered(w)
        BY <1>4, <2>2, <3>3, Leaving DEF Answer, Crash, DieCommitting, DieAnswered
      <3>4. CASE Redeliver(w)
        BY <2>2, <3>4 DEF Redeliver
      <3> QED BY <2>2, <3>1, <3>2, <3>3, <3>4, StepCases
    <2>3. CASE Publish \/ Abandon \/ Restart \/ UNCHANGED vars
      BY <2>1, <2>3 DEF Publish, Abandon, Restart, vars
    <2> QED BY <2>1, <2>2, <2>3 DEF Next, Step
  <1> QED BY <1>1, <1>3, <1>4 DEF CloneShape, At, IsFinal

\* What a stage is about to upload was not in the clone when its agent began, so
\* that it is of this execution: nobody else has a job.
LEMMA UploadsStep ==
    ASSUME TypeOK, BudgetsShrink, OneJob, Dated, UploadsRise, [Next]_vars
    PROVE  UploadsRise'
  <1> DEFINE Fs == DOMAIN NoFiles
             Before == {"source", "import", "agent", "commit", "push", "upload"}
             Rising(v) ==
                  /\ frame'[v].pc \in Before =>
                        \A f \in In(factory') \ frame'[v].pre : factory'[f] >= minio'[f]
                  /\ frame'[v].pc = "record" => \A f \in Fs : frame'[v].up[f] <= minio'[f]
  <1> SUFFICES ASSUME OneAtATime'
               PROVE  (\A f \in Fs : minio'[f] >= 0) /\ \A v \in Workers : Rising(v)
    BY DEF UploadsRise, At
  <1>1. OneAtATime
    BY Unhappened DEF TypeOK
  <1>2. \A v \in Workers :
            /\ frame[v].pc \in Before =>
                  \A f \in In(factory) \ frame[v].pre : factory[f] >= minio[f]
            /\ frame[v].pc = "record" => \A f \in Fs : frame[v].up[f] <= minio[f]
    BY <1>1 DEF UploadsRise, At
  <1>3. /\ factory \in Versions /\ minio \in Versions /\ Len(by) \in Nat
        /\ \A f \in Fs : factory[f] \in Int /\ minio[f] \in Nat /\ minio[f] <= Len(by)
    <2>1. /\ factory \in Versions /\ minio \in Versions /\ Len(by) \in Nat
          /\ \A f \in Fs : factory[f] \in Int /\ minio[f] \in Int /\ minio[f] >= 0
      BY <1>1, VersionsTyped DEF TypeOK, UploadsRise
    <2>2. \A f \in Fs : minio[f] \in 0..Len(by) \cup {base.tree[f]} /\ base.tree[f] <= 0
      BY BaseTyped DEF Dated
    <2>3. \A f \in Fs : minio[f] <= Len(by)
      BY <2>1, <2>2
    <2> QED BY <2>1, <2>3
  <1>4. In(factory) \subseteq Fs
    BY <1>3, VersionsTyped
  <1>5. CASE Publish \/ Abandon \/ Restart \/ UNCHANGED vars
    <2>1. UNCHANGED <<frame, factory, minio>>
      BY <1>5 DEF Publish, Abandon, Restart, vars, disk, store
    <2> QED BY <1>2, <1>3, <2>1
  <1>6. ASSUME NEW w \in Workers, Step(w)
        PROVE  Rising(w)
    <2>1. ASSUME NEW pc \in FramePCs, Goto(w, pc), factory' = factory, minio' = minio,
                 frame[w].pc \in Before \/ pc \notin Before \cup {"record"}, pc # "record"
          PROVE  Rising(w)
      BY <1>2, <2>1, Going
    <2>2. {"clone", "prepare", "checkout", "fail", "import", "agent", "push", "upload", "cleanup",
           "report", "answer"} \subseteq FramePCs
      BY DEF FramePCs
    <2>3. CASE Begin(w) \/ CloneFails(w) \/ CheckoutFails(w)
      <3>1. \E pc \in {"clone", "prepare", "checkout", "fail"} : Goto(w, pc)
        BY <2>3 DEF Begin, CloneFails, CheckoutFails
      <3>2. factory' = factory /\ minio' = minio
        BY <2>3 DEF Begin, CloneFails, CheckoutFails, store
      <3> QED BY <2>1, <2>2, <3>1, <3>2
    <2>4. CASE CloneRepo(w) \/ Checkout(w) \/ Cleanup(w)
      <3>1. frame'[w].pc \in {"checkout", "prepare", "report"}
        BY <2>2, <2>4, Going DEF CloneRepo, Checkout, Cleanup
      <3> QED BY <3>1
    <2>5. CASE Prepare(w) \/ PrepareOffline(w)
      <3>1. PICK tree \in Versions : Prepared(w, tree)
        <4>1. factory \in Versions /\ [f \in DOMAIN factory |->
                 IF f \in Inputs(AgentOf(w)) /\ minio[f] # 0 THEN minio[f] ELSE factory[f]] \in Versions
          BY <1>3, VersionsTyped DEF Versions
        <4> QED BY <2>5, <4>1 DEF Prepare, PrepareOffline
      <3>2. factory' = tree /\ frame'[w].pre = In(tree) /\ frame'[w].pc # "record"
        BY <3>1, Preparing
      <3> QED BY <3>2
    <2>6. CASE CloneSource(w) \/ ImportSource(w) \/ SourceFails(w) \/ Commit(w)
      <3>1. \E pc \in {"import", "agent", "push", "upload"} : Goto(w, pc)
        BY <2>6 DEF CloneSource, ImportSource, SourceFails, Commit
      <3>2. factory' = factory /\ minio' = minio /\ frame[w].pc \in Before
        BY <2>6 DEF CloneSource, ImportSource, SourceFails, Commit, store, At
      <3> QED BY <2>1, <2>2, <3>1, <3>2
    <2>7. CASE RunAgent(w) \/ SkipFiles(w)
      <3>1. PICK S \in SUBSET Fs : \E good : Ran(w, S, good)
        <4>1. Written(AgentOf(w)) \subseteq Fs
          BY VersionsTyped DEF Written
        <4> QED BY <2>7, <4>1 DEF RunAgent, SkipFiles
      <3>2. minio' = minio /\ frame[w].pc = "agent"
        BY <2>7, <3>1 DEF RunAgent, SkipFiles, Ran, store, At
      <3>3. PICK T \in SUBSET Fs : Wrote(w, T) /\ frame'[w].pc = "commit" /\ frame'[w].pre = frame[w].pre
        BY <3>1, Running
      <3>4. /\ factory' \in Versions
            /\ \A f \in Fs : factory'[f] = IF f \in T THEN Len(by) + 1 ELSE factory[f]
        BY <3>3, Writing
      <3>5. ASSUME NEW f \in In(factory') \ frame'[w].pre
            PROVE  factory'[f] >= minio'[f]
        <4>1. f \in Fs /\ factory'[f] # 0
          BY <3>4, VersionsTyped
        <4>2. CASE f \in T
          BY <1>3, <3>2, <3>4, <4>1, <4>2
        <4>3. CASE f \notin T
          <5>1. factory'[f] = factory[f] /\ f \in In(factory) \ frame[w].pre
            BY <1>3, <3>3, <3>4, <4>1, <4>3, VersionsTyped
          <5> QED BY <1>2, <3>2, <5>1
        <4> QED BY <4>2, <4>3
      <3> QED BY <3>3, <3>5
    <2>8. CASE AgentFails(w) \/ DirGone(w) \/ DbFails(w) \/ Report(w)
      <3>1. frame'[w].pc \in {"fail", "answer"}
        BY <2>2, <2>8, Going DEF AgentFails, DirGone, DbFails, Report
      <3> QED BY <3>1
    <2>9. CASE Push(w) \/ PushFails(w)
      <3>1. Goto(w, "upload") /\ factory' = factory /\ minio' = minio /\ frame[w].pc = "push"
        BY <2>9 DEF Push, PushFails, disk, store, At
      <3> QED BY <2>1, <2>2, <3>1
    <2>10. CASE Upload(w) \/ UploadFails(w)
      <3>1. PICK S \in SUBSET NewFiles(w) : Uploaded(w, S)
        BY <2>10 DEF Upload, UploadFails
      <3>2. /\ frame'[w].pc = "record"
            /\ \A f \in Fs : frame'[w].up[f] = IF f \in S THEN factory[f] ELSE 0
            /\ \A f \in Fs : minio'[f] = IF f \in S THEN factory[f] ELSE minio[f]
        BY <3>1, Uploading
      <3> QED BY <1>3, <3>2
    <2>11. CASE Record(w)
      <3>1. frame'[w].pc \in {"cleanup", "report"}
        BY <2>2, <2>11, Going DEF Record
      <3> QED BY <3>1
    <2>12. CASE ~Continues(w)
      <3>1. frame'[w].pc = "idle" \/ Take(w)
        BY <1>6, <2>12, Alone
      <3>2. Take(w) => frame'[w].pc = "begin"
        BY DEF Take, TypeOK, Idle
      <3> QED BY <3>1, <3>2
    <2> QED BY <2>3, <2>4, <2>5, <2>6, <2>7, <2>8, <2>9, <2>10, <2>11, <2>12 DEF Continues
  <1>7. ASSUME NEW w \in Workers, Step(w), NEW v \in Workers \ {w}
        PROVE  frame'[v].pc = "idle"
    BY <1>7, Alone
  <1>8. ASSUME NEW w \in Workers, Step(w), NEW f \in Fs
        PROVE  minio'[f] >= 0
    <2>1. CASE Upload(w) \/ UploadFails(w)
      <3>1. PICK S \in SUBSET NewFiles(w) : Uploaded(w, S)
        BY <2>1 DEF Upload, UploadFails
      <3>2. /\ minio'[f] = IF f \in S THEN factory[f] ELSE minio[f]
            /\ S \subseteq In(factory) \ frame[w].pre /\ frame[w].pc = "upload"
        BY <2>1, <3>1, Uploading DEF Upload, UploadFails, At
      <3> QED BY <1>2, <1>3, <3>2
    <2>2. CASE ~(Upload(w) \/ UploadFails(w))
      <3>1. minio' = minio
        BY <1>8, <2>2 DEF Step, Execute, Mishap, Take, Begin, CloneRepo, Checkout, Prepare, Prepared,
              CloneSource, ImportSource, RunAgent, Ran, Commit, DirGone, Push, Record, Cleanup, Report,
              Answer, CloneFails, CheckoutFails, PrepareOffline, SourceFails, SkipFiles, AgentFails,
              PushFails, DbFails, Crash, DieCommitting, DieAnswered, Redeliver, store
      <3> QED BY <1>3, <3>1
    <2> QED BY <2>1, <2>2
  <1> QED BY <1>5, <1>6, <1>7, <1>8 DEF Next, Step

\* Rows point to objects, and objects only become newer.
LEMMA RowsStep ==
    ASSUME TypeOK, BudgetsShrink, OneJob, Dated, UploadsRise, RowsBacked, [Next]_vars
    PROVE  RowsBacked'
  <1> DEFINE Fs     == DOMAIN NoFiles
             Backed == \A r \in rows' : r.version <= minio'[r.file]
  <1> SUFFICES ASSUME OneAtATime'
               PROVE  Backed
    BY DEF RowsBacked
  <1>1. OneAtATime
    BY Unhappened DEF TypeOK
  <1>2. \A r \in rows : r.file \in Fs /\ r.version \in Int /\ r.version <= minio[r.file]
    BY <1>1 DEF RowsBacked, TypeOK
  <1>3. \A f \in Fs : factory[f] \in Int /\ minio[f] \in Int
    BY VersionsTyped DEF TypeOK
  <1>4. CASE rows' = rows /\ minio' = minio
    BY <1>2, <1>4
  <1>5. ASSUME NEW w \in Workers, Upload(w) \/ UploadFails(w)
        PROVE  Backed
    <2>1. PICK S \in SUBSET NewFiles(w) : Uploaded(w, S)
      BY <1>5 DEF Upload, UploadFails
    <2>2. /\ \A f \in Fs : minio'[f] = IF f \in S THEN factory[f] ELSE minio[f]
          /\ S \subseteq In(factory) \ frame[w].pre
          /\ rows' = rows /\ frame[w].pc = "upload"
      BY <1>5, <2>1, Uploading DEF Upload, UploadFails, Uploaded, At
    <2>3. \A f \in S : factory[f] >= minio[f]
      BY <1>1, <2>2 DEF UploadsRise
    <2>4. \A f \in Fs : minio[f] <= minio'[f] /\ minio'[f] \in Int
      BY <1>3, <2>2, <2>3
    <2> QED BY <1>2, <1>3, <2>2, <2>4
  <1>6. ASSUME NEW w \in Workers, Record(w) \/ DbFails(w)
        PROVE  Backed
    <2> SUFFICES ASSUME frame[w].pc = "record"
                 PROVE  Backed
      <3>1. frame[w].pc = "record" \/ (rows' = rows /\ minio' = minio)
        BY <1>6, DbFailing DEF Record, At
      <3> QED BY <1>4, <3>1
    <2>1. /\ minio' = minio
          /\ rows' \subseteq rows \cup {[file |-> f, version |-> frame[w].up[f]] : f \in In(frame[w].new)}
      BY <1>6, DbFailing DEF Record, Rows, Url
    <2>2. \A f \in In(frame[w].new) : frame[w].up[f] <= minio[f]
      <3>1. In(frame[w].new) \subseteq Fs
        BY FrameTyped, VersionsTyped
      <3> QED BY <1>1, <2>1, <3>1 DEF UploadsRise, At
    <2> QED BY <1>2, <2>1, <2>2
  <1>7. ASSUME NEW w \in Workers, Step(w),
               ~(Upload(w) \/ UploadFails(w) \/ Record(w) \/ DbFails(w))
        PROVE  rows' = rows /\ minio' = minio
    BY <1>7 DEF Step, Execute, Mishap, Take, Begin, CloneRepo, Checkout, Prepare, Prepared,
                CloneSource, ImportSource, RunAgent, Ran, Commit, DirGone, Push, Cleanup, Report,
                Answer, CloneFails, CheckoutFails, PrepareOffline, SourceFails, SkipFiles, AgentFails,
                PushFails, Crash, DieCommitting, DieAnswered, Redeliver, store
  <1>8. CASE Publish \/ Abandon \/ Restart \/ UNCHANGED vars
    BY <1>4, <1>8 DEF Publish, Abandon, Restart, vars, store
  <1> QED BY <1>4, <1>5, <1>6, <1>7, <1>8 DEF Next, Step

-------------------------------------------------------------------------------
\* The code of what was reported is kept.

LEMMA KeptStep ==
    ASSUME TypeOK, BudgetsShrink, OneJob, CloneShape, CodeKept, WorkIsKept, [Next]_vars
    PROVE  CodeKept' /\ WorkIsKept'
  <1> DEFINE Code      == clone.work \cup clone.dirty
             CodeNow   == clone'.work \cup clone'.dirty
             KeptNow   == CodeNow \cup remote'.work
             Fresh(v)  == frame'[v].pc \in {"clone", "checkout"} => CodeNow = {}
             Clean(v)  == frame'[v].pc = "push" /\ clone'.head = "work" => clone'.dirty = {}
             Safe(v)   == ~warned' /\ frame'[v].pc \in Ended => frame'[v].exec \in KeptNow
             Pushed(v) == ~warned' /\ (frame'[v].pc = "cleanup"
                                       \/ (frame'[v].job.idx = Last /\ frame'[v].pc \in {"upload", "record"}))
                            => CodeNow \subseteq remote'.work
             Sound(v)  == Fresh(v) /\ Clean(v) /\ Safe(v) /\ Pushed(v)
             Whole     == ~clone'.locked /\ (~warned' => completed' \subseteq KeptNow)
  <1>1. Last' = Last /\ left \in [Mishaps -> Nat] /\ warned \in BOOLEAN /\ clone \in Clones
        /\ remote.work \subseteq Nat
    BY Paid, SameStages DEF TypeOK, Branches
  <1> SUFFICES ASSUME OneAtATime', Unspent({"dieCommitting"})'
               PROVE  Whole /\ \A v \in Workers : Sound(v)
    BY <1>1 DEF CodeKept, WorkIsKept, At, IsFinal, Kept
  <1>2. OneAtATime /\ Unspent({"dieCommitting"})
    <2>1. {"dieCommitting"} \in SUBSET Mishaps
      BY DEF Mishaps
    <2> QED BY <1>1, <2>1, Unhappened
  <1>3. ~clone.locked /\ (~warned => completed \subseteq Code \cup remote.work)
    BY <1>2 DEF CodeKept, WorkIsKept
  <1>4. \A w \in Workers :
            /\ frame[w].pc \in {"clone", "checkout"} => Code = {}
            /\ frame[w].pc = "push" /\ clone.head = "work" => clone.dirty = {}
            /\ ~warned /\ frame[w].pc \in Ended => frame[w].exec \in Code \cup remote.work
            /\ ~warned /\ (frame[w].pc = "cleanup"
                           \/ (frame[w].job.idx = Last /\ frame[w].pc \in {"upload", "record"}))
                  => Code \subseteq remote.work
    BY <1>2 DEF CodeKept, At, IsFinal, Kept
  <1>5. clone.work \subseteq Nat /\ clone.dirty \subseteq Nat
    BY <1>1 DEF Clones
  <1>6. CASE Publish \/ Abandon \/ Restart \/ UNCHANGED vars
    <2>1. UNCHANGED <<frame, clone, remote, warned, completed>>
      BY <1>6 DEF Publish, Abandon, Restart, vars, disk, store
    <2> QED BY <1>3, <1>4, <2>1
  <1>7. ASSUME NEW w \in Workers, Step(w)
        PROVE  Whole /\ Sound(w)
    <2>1. Continues(w) => frame'[w].job = frame[w].job
      BY Ongoing
    \* A step that loses nothing and leads to where nothing is asked.
    <2>2. ASSUME NEW pc \in FramePCs \ (Ended \cup {"clone", "checkout"}), frame'[w].pc = pc,
                 ~clone'.locked, Code \cup remote.work \subseteq KeptNow,
                 completed' = completed, ~warned' => ~warned
          PROVE  Whole /\ Sound(w)
      <3>1. pc \notin {"clone", "checkout", "push", "upload", "record", "cleanup"} \cup Ended
        BY DEF Ended
      <3> QED BY <1>3, <2>2, <3>1
    <2>3. {"clone", "prepare", "checkout", "fail", "import", "agent", "push", "upload", "cleanup",
           "report", "answer"} \subseteq FramePCs
          /\ {"idle", "begin", "prepare", "fail", "source", "import", "agent"}
                \subseteq FramePCs \ (Ended \cup {"clone", "checkout"})
      BY DEF FramePCs, Ended
    <2>4. CASE Begin(w)
      <3>1. CASE clone.head = "none"
        <4>1. /\ clone = NoClone /\ clone' = [clone EXCEPT !.head = "partial"] /\ Goto(w, "clone")
              /\ UNCHANGED <<remote, warned, completed>>
          BY <2>4, <3>1 DEF Begin, CloneShape, store
        <4>2. clone'.work = {} /\ clone'.dirty = {} /\ ~clone'.locked /\ Code = {}
          BY <1>1, <4>1, NoCloneTyped DEF Clones
        <4>3. frame'[w].pc = "clone"
          BY <2>3, <4>1, Going
        <4> QED BY <1>3, <4>1, <4>2, <4>3 DEF Ended
      <3>2. CASE clone.head # "none"
        <4>1. Goto(w, "prepare") /\ UNCHANGED <<clone, remote, warned, completed>>
          BY <2>4, <3>2 DEF Begin, store
        <4> QED BY <1>3, <2>2, <2>3, <4>1, Going
      <3> QED BY <3>1, <3>2
    <2>5. CASE CloneRepo(w)
      <3>1. /\ clone' = [clone EXCEPT !.head = "base", !.tree = base.tree, !.code = base.code]
            /\ Goto(w, "checkout") /\ frame[w].pc = "clone"
            /\ UNCHANGED <<remote, warned, completed>>
        BY <2>5 DEF CloneRepo, store, At
      <3>2. clone'.work = clone.work /\ clone'.dirty = clone.dirty /\ clone'.locked = clone.locked
        BY <1>1, <3>1 DEF Clones
      <3>3. frame'[w].pc = "checkout"
        BY <2>3, <3>1, Going
      <3> QED BY <1>3, <1>4, <3>1, <3>2, <3>3 DEF Ended
    <2>6. CASE CloneFails(w)
      <3>1. /\ clone' \in {NoClone, clone} /\ Goto(w, "fail") /\ frame[w].pc = "clone"
            /\ UNCHANGED <<remote, warned, completed>>
        BY <2>6 DEF CloneFails, store, At
      <3>2. Code = {} /\ ~clone'.locked
        BY <1>3, <1>4, <3>1, NoCloneTyped
      <3>3. frame'[w].pc = "fail"
        BY <2>3, <3>1, Going
      <3> QED BY <2>2, <2>3, <3>1, <3>2, <3>3
    <2>7. CASE Checkout(w)
      <3>1. /\ clone' = [clone EXCEPT !.head = "work", !.work = remote.work, !.tree = remote.tree,
                                    !.code = remote.code]
            /\ Goto(w, "prepare") /\ frame[w].pc = "checkout"
            /\ UNCHANGED <<remote, warned, completed>>
        BY <2>7 DEF Checkout, store, At
      <3>2. Code = {} /\ clone'.locked = clone.locked
        BY <1>1, <1>4, <3>1 DEF Clones
      <3>3. frame'[w].pc = "prepare"
        BY <2>3, <3>1, Going
      <3> QED BY <1>3, <2>2, <2>3, <3>1, <3>2, <3>3
    <2>8. CASE CheckoutFails(w)
      <3>1. /\ clone' = clone \/ clone' = [clone EXCEPT !.head = "work"]
            /\ \E pc \in {"prepare", "fail"} : Goto(w, pc)
            /\ UNCHANGED <<remote, warned, completed>>
        BY <2>8 DEF CheckoutFails, store
      <3>2. clone'.work = clone.work /\ clone'.dirty = clone.dirty /\ clone'.locked = clone.locked
        BY <1>1, <3>1 DEF Clones
      <3>3. frame'[w].pc \in {"prepare", "fail"}
        <4>1. PICK pc \in {"prepare", "fail"} : Goto(w, pc)
          BY <3>1
        <4>2. pc \in FramePCs
          BY <2>3
        <4> QED BY <4>1, <4>2, Going
      <3> QED BY <1>3, <2>2, <2>3, <3>1, <3>2, <3>3
    <2>9. CASE Prepare(w) \/ PrepareOffline(w)
      <3>1. PICK tree \in Versions : Prepared(w, tree)
        <4>1. factory \in Versions /\ [f \in DOMAIN factory |->
                 IF f \in Inputs(AgentOf(w)) /\ minio[f] # 0 THEN minio[f] ELSE factory[f]] \in Versions
          BY VersionsTyped DEF TypeOK, Versions
        <4> QED BY <2>9, <4>1 DEF Prepare, PrepareOffline
      <3>2. UNCHANGED <<remote, warned, completed>>
        BY <3>1 DEF Prepared, store
      <3>3. /\ frame'[w].pc \in {"source", "agent"}
            /\ clone'.work = clone.work /\ clone'.dirty = clone.dirty /\ clone'.locked = clone.locked
        BY <3>1, Preparing
      <3> QED BY <1>3, <2>2, <2>3, <3>2, <3>3
    <2>10. CASE CloneSource(w)
      <3>1. /\ UNCHANGED <<clone, remote, warned, completed>>
            /\ \E pc \in {"import", "agent"} : Goto(w, pc)
        BY <2>10 DEF CloneSource, store
      <3>2. frame'[w].pc \in {"import", "agent"}
        <4>1. PICK pc \in {"import", "agent"} : Goto(w, pc)
          BY <3>1
        <4>2. pc \in FramePCs
          BY <2>3
        <4> QED BY <4>1, <4>2, Going
      <3> QED BY <1>3, <2>2, <2>3, <3>1, <3>2
    <2>11. CASE ImportSource(w)
      <3>1. /\ clone' = [clone EXCEPT !.head = "work", !.own = TRUE, !.locked = FALSE, !.tree = factory, !.code = TRUE,
                           !.work = clone.work \cup clone.dirty \cup {Imported}, !.dirty = {}]
            /\ Goto(w, "agent") /\ UNCHANGED <<remote, warned, completed>>
        BY <2>11 DEF ImportSource, store
      <3>2. ~clone'.locked /\ clone'.work = Code \cup {Imported}
        BY <1>1, <3>1 DEF Clones
      <3>3. frame'[w].pc = "agent"
        BY <2>3, <3>1, Going
      <3> QED BY <2>2, <2>3, <3>1, <3>2, <3>3
    <2>12. CASE SourceFails(w)
      <3>1. warned' = TRUE /\ Goto(w, "agent") /\ UNCHANGED <<remote, completed>>
        BY <2>12 DEF SourceFails, store
      <3>2. clone'.work = clone.work /\ clone'.dirty = clone.dirty /\ clone'.locked = clone.locked
        BY <2>12, SourceLeaving DEF SourceFails
      <3>3. frame'[w].pc = "agent"
        BY <2>3, <3>1, Going
      <3> QED BY <1>3, <2>2, <2>3, <3>1, <3>2, <3>3
    <2>13. CASE RunAgent(w) \/ SkipFiles(w)
      <3>1. PICK S \in SUBSET DOMAIN NoFiles : \E good : Ran(w, S, good)
        <4>1. Written(AgentOf(w)) \subseteq DOMAIN NoFiles
          BY VersionsTyped DEF Written
        <4> QED BY <2>13, <4>1 DEF RunAgent, SkipFiles
      <3>2. UNCHANGED <<remote, warned, completed>>
        BY <3>1 DEF Ran, store
      <3>3. PICK T \in SUBSET DOMAIN NoFiles : Wrote(w, T)
        BY <3>1, Running
      <3>4. frame'[w].pc = "commit" /\ frame'[w].exec = Len(by) + 1
        BY <3>1, Running
      <3>5. /\ clone'.work = clone.work /\ clone'.dirty = clone.dirty \cup {Len(by) + 1}
            /\ clone'.locked = clone.locked
        BY <3>3, Writing
      <3> QED BY <1>3, <3>2, <3>4, <3>5
    <2>14. CASE AgentFails(w)
      <3>1. PICK T \in SUBSET DOMAIN NoFiles : Wrote(w, T)
        <4>1. Written(AgentOf(w)) \subseteq DOMAIN NoFiles
          BY VersionsTyped DEF Written
        <4> QED BY <2>14, <4>1 DEF AgentFails
      <3>2. Goto(w, "fail") /\ UNCHANGED <<remote, warned, completed>>
        BY <2>14 DEF AgentFails, store
      <3>3. /\ clone'.work = clone.work /\ clone'.dirty = clone.dirty \cup {Len(by) + 1}
            /\ clone'.locked = clone.locked
        BY <3>1, Writing
      <3>4. frame'[w].pc = "fail"
        BY <2>3, <3>2, Going
      <3> QED BY <1>3, <2>2, <2>3, <3>2, <3>3, <3>4
    <2>15. CASE Commit(w)
      <3>1. /\ frame[w].pc = "commit" /\ UNCHANGED <<remote, warned, completed>>
            /\ Goto(w, IF IsFinal(w) THEN "push" ELSE "upload")
            /\ clone' = IF clone.head = "partial" \/ clone.locked THEN clone
                        ELSE [clone EXCEPT !.work = @ \cup clone.dirty, !.dirty = {}, !.tree = factory]
        BY <2>15 DEF Commit, store, At
      <3>2. /\ CodeNow = Code /\ clone'.locked = clone.locked /\ clone'.head = clone.head
            /\ clone.head = "work" => clone'.dirty = {}
        BY <1>1, <1>3, <3>1 DEF Clones
      <3>3. /\ frame'[w].pc = IF frame[w].job.idx = Last THEN "push" ELSE "upload"
            /\ frame'[w].exec = frame[w].exec /\ frame'[w].job = frame[w].job
        BY <2>3, <3>1, Going DEF IsFinal
      <3>4. frame[w].pc \in Ended
        BY <3>1 DEF Ended
      <3>5. Whole /\ Fresh(w) /\ Clean(w)
        BY <1>3, <3>1, <3>2, <3>3
      <3>6. Safe(w) /\ Pushed(w)
        BY <1>4, <3>1, <3>2, <3>3, <3>4
      <3> QED BY <3>5, <3>6
    <2>16. CASE DirGone(w)
      <3>1. Goto(w, "fail") /\ UNCHANGED <<clone, remote, warned, completed>>
        BY <2>16 DEF DirGone, disk, store
      <3> QED BY <1>3, <2>2, <2>3, <3>1, Going
    <2>17. CASE Push(w) \/ PushFails(w)
      <3>1. /\ frame[w].pc = "push" /\ completed' = completed /\ Goto(w, "upload")
            /\ \/ warned' = TRUE /\ UNCHANGED <<remote, clone>>
               \/ /\ clone.head = "work" /\ remote.work \subseteq clone.work
                  /\ remote'.work = clone.work
                  /\ clone' = [clone EXCEPT !.own = FALSE] /\ warned' = warned
        BY <2>17 DEF Push, PushFails, Pushable, Warn, disk, store, At
      <3>2. frame'[w].pc = "upload" /\ frame'[w].exec = frame[w].exec
        BY <2>3, <3>1, Going
      <3>3. CASE warned' = TRUE /\ UNCHANGED <<remote, clone>>
        BY <1>3, <3>1, <3>2, <3>3
      <3>4. CASE ~(warned' = TRUE /\ UNCHANGED <<remote, clone>>)
        <4>1. /\ clone.dirty = {} /\ remote'.work = clone.work
              /\ clone'.work = clone.work /\ clone'.dirty = clone.dirty
              /\ clone'.locked = clone.locked
          BY <1>1, <1>4, <3>1, <3>4 DEF Clones
        <4>2. frame[w].pc \in Ended
          BY <3>1 DEF Ended
        <4> QED BY <1>3, <1>4, <3>1, <3>2, <3>4, <4>1, <4>2
      <3> QED BY <3>3, <3>4
    <2>18. CASE Upload(w) \/ UploadFails(w)
      <3>1. PICK S \in SUBSET NewFiles(w) : Uploaded(w, S)
        BY <2>18 DEF Upload, UploadFails
      <3>2. UNCHANGED <<clone, remote, warned, completed>> /\ frame[w].pc = "upload"
        BY <2>18, <3>1 DEF Upload, UploadFails, Uploaded, disk, At
      <3>3. frame'[w].pc = "record" /\ frame'[w].exec = frame[w].exec
            /\ frame'[w].job = frame[w].job
        BY <3>1, Uploading
      <3> QED BY <1>3, <1>4, <3>2, <3>3 DEF Ended
    <2>19. CASE Record(w)
      <3>1. /\ UNCHANGED <<clone, remote, warned, completed>> /\ frame[w].pc = "record"
            /\ Goto(w, IF IsFinal(w) THEN "cleanup" ELSE "report")
        BY <2>19 DEF Record, disk, At
      <3>2. /\ frame'[w].pc = IF frame[w].job.idx = Last THEN "cleanup" ELSE "report"
            /\ frame'[w].exec = frame[w].exec
        BY <2>3, <3>1, Going DEF IsFinal
      <3> QED BY <1>3, <1>4, <3>1, <3>2 DEF Ended
    <2>20. CASE Cleanup(w)
      <3>1. /\ UNCHANGED <<remote, warned, completed>> /\ clone' = NoClone /\ frame[w].pc = "cleanup"
            /\ Goto(w, "report")
        BY <2>20 DEF Cleanup, store, At
      <3>2. frame'[w].pc = "report" /\ frame'[w].exec = frame[w].exec
        BY <2>3, <3>1, Going
      <3>3. frame[w].pc \in Ended
        BY <3>1 DEF Ended
      <3> QED BY <1>3, <1>4, <3>1, <3>2, <3>3, NoCloneTyped
    <2>21. CASE Take(w)
      <3>1. UNCHANGED <<clone, remote, warned, completed>> /\ frame'[w].pc = "begin"
        BY <2>21 DEF Take, TypeOK, Idle, disk, store
      <3> QED BY <1>3, <2>2, <2>3, <3>1
    <2>22. CASE Report(w)
      <3>1. UNCHANGED <<clone, remote, warned>> /\ Goto(w, "answer") /\ frame[w].pc = "report"
            /\ completed' = completed \cup {frame[w].exec}
        BY <2>22 DEF Report, ExecOf, disk, store, At
      <3>2. frame'[w].pc = "answer" /\ frame'[w].exec = frame[w].exec
        BY <2>3, <3>1, Going
      <3>3. frame[w].pc \in Ended
        BY <3>1 DEF Ended
      <3> QED BY <1>3, <1>4, <3>1, <3>2, <3>3 DEF Ended
    <2>23. CASE Answer(w) \/ Crash(w)
      <3>1. UNCHANGED <<clone, remote, warned, completed>> /\ Leave(w)
        BY <2>23 DEF Answer, Crash, disk, store
      <3>2. frame'[w].pc = "idle"
        BY <3>1, Leaving
      <3> QED BY <1>3, <2>2, <2>3, <3>1, <3>2
    <2>24. CASE DieCommitting(w)
      <3>1. "dieCommitting" \in Mishaps \ {"total"}
        BY DEF Mishaps
      <3> QED BY <1>1, <2>24, <3>1, Happened DEF DieCommitting
    <2>25. ~Redeliver(w) /\ ~DieAnswered(w)
      BY <1>7, Alone
    <2>26. CASE DbFails(w)
      <3>1. /\ clone'.work = clone.work /\ clone'.dirty = clone.dirty
            /\ clone'.locked = clone.locked /\ Goto(w, "fail")
            /\ UNCHANGED <<remote, warned, completed>>
        BY <2>26, DbFailing
      <3>2. frame'[w].pc = "fail"
        BY <2>3, <3>1, Going
      <3> QED BY <1>3, <2>2, <2>3, <3>1, <3>2
    <2> QED BY <1>7, <2>4, <2>5, <2>6, <2>7, <2>8, <2>9, <2>10, <2>11, <2>12, <2>13, <2>14, <2>15,
               <2>16, <2>17, <2>18, <2>19, <2>20, <2>21, <2>22, <2>23, <2>24, <2>25, <2>26,
               StepCases
            DEF Continues
  <1>8. ASSUME NEW w \in Workers, Step(w), NEW v \in Workers \ {w}
        PROVE  Sound(v)
    <2>1. frame'[v].pc = "idle"
      BY <1>8, Alone
    <2> QED BY <2>1 DEF Ended
  <1> QED BY <1>6, <1>7, <1>8 DEF Next, Step

-------------------------------------------------------------------------------
\* The source of a transformation is brought in.

LEMMA SourceStep ==
    ASSUME TypeOK, BudgetsShrink, OneJob, CloneShape, SourceKnown, [Next]_vars
    PROVE  SourceKnown'
  <1> DEFINE Empty    == ~clone.code
             EmptyNow == ~clone'.code
             Nowhere  == clone'.head = "none" => source' = "none"
             Known(v) ==
                /\ frame'[v].pc \in {"clone", "checkout"} => source' = "none"
                /\ source' = "partial" => warned' \/ frame'[v].pc = "source"
                /\ source' = "ready" => warned' \/ ~EmptyNow \/ frame'[v].pc = "import"
                /\ wt = "transformation" /\ frame'[v].pc = "agent" => source' # "none" \/ warned'
                /\ frame'[v].pc = "source" => clone'.head # "none"
                /\ frame'[v].pc = "import" => clone'.head # "none" /\ source' = "ready"
  <1>1. wt' = wt /\ left \in [Mishaps -> Nat] /\ clone \in Clones /\ warned \in BOOLEAN
        /\ source \in {"none", "partial", "ready"}
    BY Paid DEF TypeOK
  <1> SUFFICES ASSUME OneAtATime', Unspent({"crash", "dbFails"})'
               PROVE  SourceKnown'
    BY DEF SourceKnown
  <1>2. OneAtATime /\ Unspent({"crash", "dbFails"})
    <2>1. {"crash", "dbFails"} \in SUBSET Mishaps
      BY DEF Mishaps
    <2> QED BY <1>1, <2>1, Unhappened
  <1>3. /\ clone.head = "none" => source = "none"
        /\ \A v \in Workers : frame[v].pc \in {"clone", "checkout"} => source = "none"
        /\ source = "partial" => warned \/ \E v \in Workers : frame[v].pc = "source"
        /\ source = "ready" => warned \/ ~Empty \/ \E v \in Workers : frame[v].pc = "import"
        /\ \A v \in Workers :
              /\ wt = "transformation" /\ frame[v].pc = "agent" => source # "none" \/ warned
              /\ frame[v].pc = "source" => clone.head # "none"
              /\ frame[v].pc = "import" => clone.head # "none" /\ source = "ready"
    BY <1>2 DEF SourceKnown, At, TargetEmpty
  <1>4. CASE Publish \/ Abandon \/ Restart \/ UNCHANGED vars
    <2>1. UNCHANGED <<frame, clone, source, warned>>
      BY <1>4 DEF Publish, Abandon, Restart, vars, disk, store
    <2> QED BY <1>1, <1>3, <2>1 DEF SourceKnown, At, TargetEmpty
  <1>5. ASSUME NEW w \in Workers, Step(w)
        PROVE  SourceKnown'
    <2>1. \A v \in Workers \ {w} : frame[v].pc = "idle" /\ frame'[v].pc = "idle"
      BY <1>5, Alone
    <2>2. /\ frame[w].pc \in {"clone", "checkout"} => source = "none"
          /\ source = "partial" => warned \/ frame[w].pc = "source"
          /\ source = "ready" => warned \/ ~Empty \/ frame[w].pc = "import"
          /\ wt = "transformation" /\ frame[w].pc = "agent" => source # "none" \/ warned
          /\ frame[w].pc = "source" => clone.head # "none"
          /\ frame[w].pc = "import" => clone.head # "none" /\ source = "ready"
      BY <1>3, <2>1
    <2>3. SUFFICES Nowhere /\ Known(w)
      <3> SUFFICES ASSUME Nowhere, Known(w)
                   PROVE  SourceKnown'
        BY <2>3
      <3>1. \A v \in Workers : frame'[v].pc \in {"clone", "checkout", "agent", "source", "import"} => v = w
        BY <2>1
      <3> QED BY <1>1, <3>1 DEF SourceKnown, At, TargetEmpty
    <2>4. {"clone", "prepare", "checkout", "fail", "import", "agent", "push", "upload", "cleanup",
           "report", "answer"} \subseteq FramePCs
      BY DEF FramePCs
    \* A step away from the source, in a clone that does not become empty.
    <2>5. ASSUME source' = source, warned' = warned, ~Empty => ~EmptyNow,
                 clone'.head = "none" => clone.head = "none",
                 frame[w].pc \notin {"source", "import"},
                 frame'[w].pc \notin {"clone", "checkout", "agent", "source", "import"}
          PROVE  Nowhere /\ Known(w)
      BY <1>3, <2>2, <2>5
    <2>6. CASE Begin(w)
      <3>1. CASE clone.head = "none"
        <4>1. /\ source = "none" /\ clone' = [clone EXCEPT !.head = "partial"] /\ Goto(w, "clone")
              /\ UNCHANGED <<source, warned>>
          BY <1>3, <2>6, <3>1 DEF Begin
        <4>2. frame'[w].pc = "clone"
          BY <2>4, <4>1, Going
        <4> QED BY <4>1, <4>2
      <3>2. CASE clone.head # "none"
        <4>1. /\ Goto(w, "prepare") /\ UNCHANGED <<clone, source, warned>>
              /\ frame[w].pc = "begin"
          BY <2>6, <3>2 DEF Begin, At
        <4>2. frame'[w].pc = "prepare"
          BY <2>4, <4>1, Going
        <4> QED BY <2>5, <4>1, <4>2
      <3> QED BY <3>1, <3>2
    <2>7. CASE CloneRepo(w) \/ CloneFails(w)
      <3>1. /\ UNCHANGED <<source, warned>> /\ frame[w].pc = "clone"
            /\ Goto(w, "checkout") \/ Goto(w, "fail")
        BY <2>7 DEF CloneRepo, CloneFails, At
      <3>2. frame'[w].pc \in {"checkout", "fail"}
        BY <2>4, <3>1, Going
      <3>3. source = "none"
        BY <2>2, <3>1
      <3> QED BY <3>1, <3>2, <3>3
    <2>8. CASE Checkout(w) \/ CheckoutFails(w)
      <3>1. /\ UNCHANGED <<source, warned>> /\ frame[w].pc = "checkout"
            /\ Goto(w, "prepare") \/ Goto(w, "fail")
        BY <2>8 DEF Checkout, CheckoutFails, At
      <3>2. frame'[w].pc \in {"prepare", "fail"}
        BY <2>4, <3>1, Going
      <3>3. source = "none"
        BY <2>2, <3>1
      <3> QED BY <3>1, <3>2, <3>3
    <2>9. CASE Prepare(w) \/ PrepareOffline(w)
      <3>1. PICK tree \in Versions : Prepared(w, tree)
        <4>1. factory \in Versions /\ [f \in DOMAIN factory |->
                 IF f \in Inputs(AgentOf(w)) /\ minio[f] # 0 THEN minio[f] ELSE factory[f]] \in Versions
          BY VersionsTyped DEF TypeOK, Versions
        <4> QED BY <2>9, <4>1 DEF Prepare, PrepareOffline
      <3>2. warned' = warned /\ frame[w].pc = "prepare"
        BY <2>9, <3>1 DEF Prepare, PrepareOffline, Prepared, At
      <3>3. /\ clone'.head # "none" /\ clone'.code = clone.code
            /\ IF wt = "transformation" /\ source = "none"
               THEN source' = "partial" /\ frame'[w].pc = "source"
               ELSE source' = source /\ frame'[w].pc = "agent"
        BY <3>1, Preparing
      <3> QED BY <2>2, <3>2, <3>3
    <2>10. CASE CloneSource(w)
      <3>1. /\ UNCHANGED <<clone, warned>> /\ source' = "ready" /\ frame[w].pc = "source"
            /\ IF Empty THEN Goto(w, "import") ELSE Goto(w, "agent")
        BY <2>10 DEF CloneSource, At, TargetEmpty
      <3>2. frame'[w].pc = IF Empty THEN "import" ELSE "agent"
        BY <2>4, <3>1, Going
      <3> QED BY <2>2, <3>1, <3>2
    <2>11. CASE ImportSource(w)
      <3>1. /\ clone' = [clone EXCEPT !.head = "work", !.own = TRUE, !.locked = FALSE, !.tree = factory, !.code = TRUE,
                           !.work = clone.work \cup clone.dirty \cup {Imported}, !.dirty = {}]
            /\ Goto(w, "agent") /\ UNCHANGED <<source, warned>> /\ frame[w].pc = "import"
        BY <2>11 DEF ImportSource, At
      <3>2. ~EmptyNow /\ clone'.head = "work"
        BY <1>1, <3>1 DEF Clones
      <3>3. frame'[w].pc = "agent"
        BY <2>4, <3>1, Going
      <3> QED BY <2>2, <3>1, <3>2, <3>3
    <2>12. CASE SourceFails(w)
      <3>1. warned' = TRUE /\ Goto(w, "agent")
        BY <2>12 DEF SourceFails
      <3>2. frame'[w].pc = "agent"
        BY <2>4, <3>1, Going
      <3>3. clone'.head # "none"
        BY <2>2, <2>12, SourceLeaving DEF SourceFails, At
      <3> QED BY <3>1, <3>2, <3>3
    <2>13. CASE RunAgent(w) \/ SkipFiles(w)
      <3>1. PICK S \in SUBSET DOMAIN NoFiles : \E good : Ran(w, S, good)
        <4>1. Written(AgentOf(w)) \subseteq DOMAIN NoFiles
          BY VersionsTyped DEF Written
        <4> QED BY <2>13, <4>1 DEF RunAgent, SkipFiles
      <3>2. UNCHANGED <<source, warned>> /\ frame[w].pc = "agent"
        BY <2>13, <3>1 DEF RunAgent, SkipFiles, Ran, At
      <3>3. PICK T \in SUBSET DOMAIN NoFiles : Wrote(w, T)
        BY <3>1, Running
      <3>4. frame'[w].pc = "commit"
        BY <3>1, Running
      <3>5. (~Empty => ~EmptyNow) /\ clone'.head = clone.head
        BY <3>3, Writing
      <3> QED BY <2>5, <3>2, <3>4, <3>5
    <2>14. CASE AgentFails(w)
      <3>1. PICK T \in SUBSET DOMAIN NoFiles : Wrote(w, T)
        <4>1. Written(AgentOf(w)) \subseteq DOMAIN NoFiles
          BY VersionsTyped DEF Written
        <4> QED BY <2>14, <4>1 DEF AgentFails
      <3>2. Goto(w, "fail") /\ UNCHANGED <<source, warned>> /\ frame[w].pc = "agent"
        BY <2>14 DEF AgentFails, At
      <3>3. (~Empty => ~EmptyNow) /\ clone'.head = clone.head
        BY <3>1, Writing
      <3>4. frame'[w].pc = "fail"
        BY <2>4, <3>2, Going
      <3> QED BY <2>5, <3>2, <3>3, <3>4
    <2>15. CASE Commit(w)
      <3>1. /\ frame[w].pc = "commit" /\ UNCHANGED <<source, warned>>
            /\ Goto(w, "push") \/ Goto(w, "upload")
            /\ clone' = IF clone.head = "partial" \/ clone.locked THEN clone
                        ELSE [clone EXCEPT !.work = @ \cup clone.dirty, !.dirty = {}, !.tree = factory]
        BY <2>15 DEF Commit, At
      <3>2. clone'.head = clone.head /\ (~Empty => ~EmptyNow)
        BY <1>1, <3>1 DEF Clones
      <3>3. frame'[w].pc \in {"push", "upload"}
        BY <2>4, <3>1, Going
      <3> QED BY <2>5, <3>1, <3>2, <3>3
    <2>16. CASE DirGone(w)
      <3>1. Goto(w, "fail") /\ UNCHANGED <<clone, source, warned>>
            /\ frame[w].pc \notin {"source", "import"}
        BY <2>16 DEF DirGone, disk
      <3>2. frame'[w].pc = "fail"
        BY <2>4, <3>1, Going
      <3> QED BY <2>5, <3>1, <3>2
    <2>17. CASE Push(w) \/ PushFails(w)
      <3>1. /\ frame[w].pc = "push" /\ source' = source /\ Goto(w, "upload")
            /\ warned' = TRUE \/ warned' = warned
            /\ clone' = clone \/ clone' = [clone EXCEPT !.own = FALSE]
        BY <2>17 DEF Push, PushFails, Warn, disk, At
      <3>2. clone'.code = clone.code /\ clone'.head = clone.head
        BY <1>1, <3>1 DEF Clones
      <3>3. frame'[w].pc = "upload"
        BY <2>4, <3>1, Going
      <3> QED BY <1>3, <2>2, <3>1, <3>2, <3>3
    <2>18. CASE Upload(w) \/ UploadFails(w)
      <3>1. PICK S \in SUBSET NewFiles(w) : Uploaded(w, S)
        BY <2>18 DEF Upload, UploadFails
      <3>2. UNCHANGED <<clone, source, warned>> /\ frame[w].pc = "upload"
        BY <2>18, <3>1 DEF Upload, UploadFails, Uploaded, disk, At
      <3>3. frame'[w].pc = "record"
        BY <3>1, Uploading
      <3> QED BY <2>5, <3>2, <3>3
    <2>19. CASE Record(w)
      <3>1. /\ UNCHANGED <<clone, source, warned>> /\ frame[w].pc = "record"
            /\ Goto(w, "cleanup") \/ Goto(w, "report")
        BY <2>19 DEF Record, disk, At
      <3>2. frame'[w].pc \in {"cleanup", "report"}
        BY <2>4, <3>1, Going
      <3> QED BY <2>5, <3>1, <3>2
    <2>20. CASE Cleanup(w)
      <3>1. source' = "none" /\ Goto(w, "report")
        BY <2>20 DEF Cleanup
      <3>2. frame'[w].pc = "report"
        BY <2>4, <3>1, Going
      <3> QED BY <3>1, <3>2
    <2>21. CASE Take(w)
      <3>1. UNCHANGED <<clone, source, warned>> /\ frame[w].pc = "idle" /\ frame'[w].pc = "begin"
        BY <2>21 DEF Take, TypeOK, Idle, disk, At
      <3> QED BY <2>5, <3>1
    <2>22. CASE Report(w) \/ Answer(w)
      <3>1. /\ UNCHANGED <<clone, source, warned>> /\ frame[w].pc \in {"report", "answer", "fail"}
            /\ Goto(w, "answer") \/ Leave(w)
        BY <2>22 DEF Report, Answer, Tell, disk, At
      <3>2. frame'[w].pc \in {"answer", "idle"}
        BY <2>4, <3>1, Going, Leaving
      <3> QED BY <2>5, <3>1, <3>2
    <2>23. CASE DieCommitting(w)
      <3>1. UNCHANGED <<source, warned>> /\ Leave(w) /\ frame[w].pc = "commit"
            /\ clone' = [clone EXCEPT !.locked = TRUE]
        BY <2>23 DEF DieCommitting, At
      <3>2. frame'[w].pc = "idle"
        BY <3>1, Leaving
      <3>3. clone'.code = clone.code /\ clone'.head = clone.head
        BY <1>1, <3>1 DEF Clones
      <3> QED BY <2>5, <3>1, <3>2, <3>3
    <2>24. ~Crash(w) /\ ~DbFails(w)
      <3>1. /\ {"crash", "dbFails"} \subseteq Mishaps \ {"total"}
            /\ Unspent({"crash"})' /\ Unspent({"dbFails"})'
        BY DEF Mishaps, Unspent
      <3> QED BY <1>1, <3>1, Happened DEF Crash, DbFails
    <2>25. ~Redeliver(w) /\ ~DieAnswered(w)
      BY <1>5, Alone
    <2> QED BY <1>5, <2>6, <2>7, <2>8, <2>9, <2>10, <2>11, <2>12, <2>13, <2>14, <2>15, <2>16, <2>17,
               <2>18, <2>19, <2>20, <2>21, <2>22, <2>23, <2>24, <2>25, StepCases DEF Continues
  <1> QED BY <1>4, <1>5 DEF Next, Step

-------------------------------------------------------------------------------
\* The verdict that counts is of this code.

LEMMA JudgedStep ==
    ASSUME TypeOK, BudgetsShrink, OneJob, CloneShape, Dated, Judged, VerdictIsOfThisCode, [Next]_vars
    PROVE  Judged' /\ VerdictIsOfThisCode'
  <1> DEFINE V           == VerdictFile
             i           == walk.idx
             After(v)    == \A e \in 1..Len(by) : by[e] = "implementation" => e < v
             AfterNow(v) == \A e \in 1..Len(by') : by'[e] = "implementation" => e < v
             Inherited(v) == v = EarlierPass /\ base.tree[V] = EarlierPass
             Unpushed == walk'.idx < Last => remote'.tree[V] = base.tree[V]
             Coming   == ToVerify(walk'.idx) /\ factory'[V] \in passes' =>
                            Name(walk'.idx) = "verification" /\ AfterNow(factory'[V])
             Passed   == walk'.passed => ~ToVerify(walk'.idx)
             Fair(v)  == frame'[v].pc \in Ended /\ Name(frame'[v].job.idx) = "verification" =>
                            IF frame'[v].verdict = "PASS"
                            THEN Inherited(frame'[v].of)
                                   \/ (frame'[v].of \in passes' /\ AfterNow(frame'[v].of))
                            ELSE factory'[V] \notin passes'
             True     == walk'.passed => Inherited(walk'.judged)
                                            \/ (walk'.judged \in passes' /\ AfterNow(walk'.judged))
             Good(v)  == Unpushed /\ Coming /\ Passed /\ Fair(v) /\ True
  <1>1. wt' = wt /\ base' = base /\ left \in [Mishaps -> Nat] /\ walk \in Walks /\ i \in 0..Last /\ walk.judged \in Int
        /\ passes \subseteq 1..Len(by) /\ Len(by) \in Nat /\ factory \in Versions
        /\ remote.tree \in Versions /\ clone.tree \in Versions
    BY Paid DEF TypeOK, Walks, Branches, Clones
  <1> SUFFICES ASSUME Unspent({"restart", "redelivered"})'
               PROVE  Unpushed /\ Coming /\ Passed /\ True /\ \A v \in Workers : Fair(v)
    BY <1>1 DEF Judged, VerdictIsOfThisCode, AgentOf, AfterChanges, ToVerify, Name, Last, VerdictFile
  <1>2. Unspent({"restart", "redelivered"})
    <2>1. {"restart", "redelivered"} \in SUBSET Mishaps
      BY DEF Mishaps
    <2> QED BY <1>1, <2>1, Unhappened
  <1>3. OneAtATime' /\ ~Restart
    BY <1>1, Happened DEF OneAtATime, Unspent
  <1>4. /\ i < Last => remote.tree[V] = base.tree[V]
        /\ ToVerify(i) /\ factory[V] \in passes => Name(i) = "verification" /\ After(factory[V])
        /\ walk.passed => ~ToVerify(i)
        /\ \A v \in Workers : frame[v].pc \in Ended /\ AgentOf(v) = "verification" =>
              IF frame[v].verdict = "PASS"
              THEN Inherited(frame[v].of) \/ (frame[v].of \in passes /\ After(frame[v].of))
              ELSE factory[V] \notin passes
        /\ walk.passed => Inherited(walk.judged) \/ (walk.judged \in passes /\ After(walk.judged))
    BY <1>2 DEF Judged, VerdictIsOfThisCode, AfterChanges, VerdictFile
  <1>5. /\ V \in DOMAIN NoFiles /\ V # FallbackFile
        /\ \A S : V \in S => V \in S \cup {FallbackFile}
        /\ factory[V] \in 0..Len(by) \cup {base.tree[V]} /\ factory[V] \in Int
        /\ base.tree[V] \in Int /\ base.tree[V] \notin passes /\ 0 \notin passes
        /\ factory[V] # Len(by) + 1
    <2>1. V \in DOMAIN NoFiles /\ V # FallbackFile
      BY <1>1, VerdictFileOf, VersionsTyped
    <2>2. base.tree[V] \in Int /\ base.tree[V] <= 0
      BY <2>1, BaseTyped
    <2>3. factory[V] \in 0..Len(by) \cup {base.tree[V]}
      BY <2>1 DEF Dated
    <2> QED BY <1>1, <2>1, <2>2, <2>3
  <1>6. CASE Publish \/ Abandon \/ UNCHANGED vars
    <2>1. UNCHANGED <<frame, factory, remote, by, passes>>
          /\ walk'.idx = walk.idx /\ walk'.passed = walk.passed /\ walk'.judged = walk.judged
      BY <1>1, <1>6 DEF Publish, Abandon, vars, disk, store, agent, Walks
    <2> QED BY <1>4, <2>1 DEF AgentOf
  <1>7. ASSUME NEW w \in Workers, Step(w)
        PROVE  Good(w)
    <2>1. Busy(w) => frame[w].job = Current /\ AgentOf(w) = Name(i)
      BY <1>3, <1>7, Alone
    <2>2. frame[w].pc \in Ended /\ Name(frame[w].job.idx) = "verification" =>
             IF frame[w].verdict = "PASS"
             THEN Inherited(frame[w].of) \/ (frame[w].of \in passes /\ After(frame[w].of))
             ELSE factory[V] \notin passes
      BY <1>4 DEF AgentOf
    <2>3. Continues(w) => walk' = walk /\ frame'[w].job = frame[w].job
      BY Ongoing
    <2>4. {"clone", "prepare", "checkout", "fail", "import", "agent", "push", "upload", "cleanup",
           "report", "answer"} \subseteq FramePCs
      BY DEF FramePCs
    \* Steps that leave what is judged as it is.
    <2>5. ASSUME walk' = walk, by' = by, passes' = passes,
                 ToVerify(i) => factory'[V] = factory[V] \/ factory'[V] \notin passes,
                 i < Last => remote'.tree[V] = remote.tree[V], Fair(w)
          PROVE  Good(w)
      BY <1>4, <2>5
    <2>6. ASSUME UNCHANGED <<factory, remote, by, passes>>, walk' = walk,
                 \/ frame'[w].pc \notin Ended
                 \/ /\ frame[w].pc \in Ended /\ frame'[w].job = frame[w].job
                    /\ frame'[w].verdict = frame[w].verdict /\ frame'[w].of = frame[w].of
          PROVE  Good(w)
      BY <2>2, <2>5, <2>6
    <2>7. CASE Begin(w) \/ CloneFails(w) \/ CheckoutFails(w) \/ CloneSource(w)
               \/ ImportSource(w) \/ SourceFails(w) \/ DirGone(w)
      <3>1. PICK pc \in {"clone", "prepare", "checkout", "fail", "import", "agent"} : Goto(w, pc)
        BY <2>7 DEF Begin, CloneFails, CheckoutFails, CloneSource, ImportSource,
                    SourceFails, DirGone
      <3>2. frame'[w].pc \notin Ended
        BY <3>1, GoingOut
      <3>3. UNCHANGED <<factory, remote, by, passes>> /\ walk' = walk
        BY <2>7 DEF Begin, CloneFails, CheckoutFails, CloneSource, ImportSource,
                    SourceFails, DirGone, disk, store, agent
      <3> QED BY <2>6, <3>2, <3>3
    <2>8. CASE Commit(w) \/ PushFails(w) \/ Record(w) \/ Report(w)
      <3>1. PICK pc \in {"push", "upload", "cleanup", "report", "answer"} : Goto(w, pc)
        BY <2>8 DEF Commit, PushFails, Record, Report
      <3>2. /\ frame'[w].job = frame[w].job
            /\ frame'[w].verdict = frame[w].verdict /\ frame'[w].of = frame[w].of
        BY <2>4, <3>1, Going
      <3>3. UNCHANGED <<factory, remote, by, passes>> /\ walk' = walk /\ frame[w].pc \in Ended
        BY <2>8 DEF Commit, PushFails, Record, Report, disk, store, agent, At, Ended
      <3> QED BY <2>6, <3>2, <3>3
    <2>9. CASE Upload(w) \/ UploadFails(w)
      <3>1. PICK S \in SUBSET NewFiles(w) : Uploaded(w, S)
        BY <2>9 DEF Upload, UploadFails
      <3>2. UNCHANGED <<factory, remote, by, passes>> /\ walk' = walk /\ frame[w].pc \in Ended
        BY <2>9, <3>1 DEF Upload, UploadFails, Uploaded, disk, agent, At, Ended
      <3>3. /\ frame'[w].job = frame[w].job
            /\ frame'[w].verdict = frame[w].verdict /\ frame'[w].of = frame[w].of
        BY <3>1, Uploading
      <3> QED BY <2>6, <3>2, <3>3
    <2>10. CASE Checkout(w)
      <3>1. /\ factory' = Switched(remote.tree) /\ Goto(w, "prepare")
            /\ UNCHANGED <<remote, by, passes>> /\ walk' = walk
        BY <2>10 DEF Checkout, store, agent
      <3>2. ToVerify(i) => factory'[V] = factory[V] \/ factory'[V] \notin passes
        <4>1. ToVerify(i) => remote.tree[V] = base.tree[V]
          BY <1>1, <1>4, OneVerification
        <4>2. factory'[V] \in {remote.tree[V], factory[V]}
          BY <1>1, <1>5, <3>1, VersionsTyped DEF Switched
        <4> QED BY <1>5, <4>1, <4>2
      <3>3. frame'[w].pc \notin Ended
        BY <3>1, GoingOut
      <3> QED BY <2>5, <3>1, <3>2, <3>3
    <2>19. CASE CloneRepo(w)
      <3>1. /\ factory' = Over(base.tree, factory) /\ Goto(w, "checkout")
            /\ UNCHANGED <<remote, by, passes>> /\ walk' = walk
        BY <2>19 DEF CloneRepo, store, agent
      <3>2. factory'[V] \in {base.tree[V], factory[V]}
        BY <1>1, <1>5, <3>1, VersionsTyped DEF Over
      <3>3. frame'[w].pc \notin Ended
        BY <3>1, GoingOut
      <3> QED BY <1>5, <2>5, <3>1, <3>2, <3>3
    <2>20. CASE DbFails(w)
      <3>1. UNCHANGED <<factory, remote, by, passes>> /\ walk' = walk /\ Goto(w, "fail")
        BY <2>20, DbFailing DEF agent
      <3>2. frame'[w].pc \notin Ended
        BY <3>1, GoingOut
      <3> QED BY <2>6, <3>1, <3>2
    <2>11. CASE Prepare(w) \/ PrepareOffline(w)
      <3> DEFINE down == [f \in DOMAIN factory |->
                 IF f \in Inputs(AgentOf(w)) /\ minio[f] # 0 THEN minio[f] ELSE factory[f]]
      <3>1. factory \in Versions /\ down \in Versions
        BY VersionsTyped DEF TypeOK, Versions
      <3>2. PICK tree \in {factory, down} : Prepared(w, tree)
        BY <2>11 DEF Prepare, PrepareOffline
      <3>3. AgentOf(w) = Name(i)
        BY <2>1, <2>11 DEF Prepare, PrepareOffline, At, Busy
      <3>4. ToVerify(i) => tree[V] = factory[V]
        <4>1. ToVerify(i) => V \notin Inputs(AgentOf(w))
          BY <1>1, <3>3, VerdictFileOf
        <4>2. DOMAIN factory = DOMAIN NoFiles
          BY <1>1, VersionsTyped
        <4> QED BY <1>5, <4>1, <4>2
      <3>5. UNCHANGED <<remote, by, passes>> /\ walk' = walk
        BY <3>2 DEF Prepared, store, agent
      <3> HIDE DEF down
      <3>6. factory' = tree /\ frame'[w].pc \notin Ended
        BY <3>1, <3>2, Preparing DEF Ended
      <3> QED BY <2>5, <3>4, <3>5, <3>6
    <2>12. CASE RunAgent(w) \/ SkipFiles(w)
      <3>1. AgentOf(w) = Name(i) /\ Busy(w) /\ frame[w].job.idx = i
        BY <2>1, <2>12 DEF RunAgent, SkipFiles, At, Busy, Current
      <3>2. PICK S \in SUBSET Written(Name(i)), good \in {passes, passes \cup {Len(by) + 1}} :
               Ran(w, S, good)
        BY <2>12, <3>1 DEF RunAgent, SkipFiles
      <3>3. S \in SUBSET DOMAIN NoFiles
        BY VersionsTyped DEF Written
      <3>4. PICK T \in SUBSET (S \cup {FallbackFile}) : T \in SUBSET DOMAIN NoFiles /\ Wrote(w, T)
        BY <3>2, <3>3, Running
      <3>5. /\ passes' = good /\ frame'[w].pc = "commit" /\ frame'[w].job = frame[w].job
            /\ frame'[w].verdict = VerdictOf(Name(i), factory', good)
            /\ frame'[w].of = IF Judges(Name(i)) THEN factory'[VERDICT_FILES[Name(i)]] ELSE 0
        <4>1. /\ passes' = good /\ frame'[w].pc = "commit" /\ frame'[w].job = frame[w].job
              /\ frame'[w].verdict = VerdictOf(AgentOf(w), factory', good)
              /\ frame'[w].of = IF Judges(AgentOf(w)) THEN factory'[VERDICT_FILES[AgentOf(w)]] ELSE 0
          BY <3>2, <3>3, Running
        <4> QED BY <3>1, <4>1
      <3>6. /\ Len(by') = Len(by) + 1 /\ by'[Len(by) + 1] = Name(i)
            /\ \A e \in 1..Len(by) : by'[e] = by[e]
            /\ factory'[V] = IF V \in T THEN Len(by) + 1 ELSE factory[V]
        BY <1>5, <3>1, <3>4, Writing
      <3>7. V \in T => Name(i) = "verification"
        BY <1>1, <1>5, <3>2, <3>4, VerdictFileOf
      <3>8. walk' = walk /\ remote' = remote
        BY <3>2 DEF Ran, store
      <3>9. Name(i) # "implementation" => \A v : After(v) /\ v \in Int => AfterNow(v)
        BY <1>1, <3>6
      <3>10. Len(by) + 1 \in Nat /\ (Name(i) # "implementation" => AfterNow(Len(by) + 1))
        BY <1>1, <3>6
      <3>11. factory'[V] \in good => V \in T \/ factory[V] \in passes
        BY <1>5, <3>2, <3>6
      <3>12. ToVerify(i) /\ factory'[V] \in good =>
                Name(i) = "verification" /\ AfterNow(factory'[V])
        <4> SUFFICES ASSUME ToVerify(i), factory'[V] \in good
                     PROVE  Name(i) = "verification" /\ AfterNow(factory'[V])
          OBVIOUS
        <4>1. CASE V \in T
          BY <3>6, <3>7, <3>10, <4>1
        <4>2. CASE V \notin T
          <5>1. factory'[V] = factory[V] /\ factory[V] \in passes
            BY <3>6, <3>11, <4>2
          <5>2. Name(i) = "verification" /\ After(factory[V]) /\ factory[V] \in Int
            BY <1>4, <1>5, <5>1
          <5> QED BY <3>9, <5>1, <5>2
        <4> QED BY <4>1, <4>2
      <3>13. Name(i) = "verification" =>
                /\ ToVerify(i) /\ frame'[w].of = factory'[V]
                /\ (frame'[w].verdict = "PASS") <=> factory'[V] \in good \cup {EarlierPass}
        <4>1. Name(i) = "verification" => ToVerify(i)
          BY <1>1, StageNamed DEF ToVerify
        <4>2. Name(i) = "verification" => Judges(Name(i)) /\ VERDICT_FILES[Name(i)] = V
          BY DEF Judges, VERDICT_FILES, VerdictFile
        <4> QED BY <3>5, <4>1, <4>2 DEF VerdictOf
      <3>18. factory'[V] = EarlierPass => Inherited(factory'[V])
        BY <1>1, <1>5, <3>6 DEF EarlierPass
      <3>14. Fair(w)
        BY <3>1, <3>5, <3>12, <3>13, <3>18
      <3>15. Coming
        BY <3>5, <3>8, <3>12
      <3>16. Passed /\ Unpushed
        BY <1>4, <3>8
      <3>17. True
        <4> SUFFICES ASSUME walk.passed
                     PROVE  Inherited(walk.judged)
                              \/ (walk.judged \in passes' /\ AfterNow(walk.judged))
          BY <3>8
        <4>1. Name(i) # "implementation"
          BY <1>1, <1>4, OneVerification
        <4>2. Inherited(walk.judged)
                \/ (walk.judged \in passes /\ After(walk.judged) /\ walk.judged \in Int)
          BY <1>1, <1>4
        <4> QED BY <3>2, <3>5, <3>9, <4>1, <4>2
      <3> QED BY <3>14, <3>15, <3>16, <3>17
    <2>13. CASE AgentFails(w)
      <3>1. AgentOf(w) = Name(i) /\ passes' = passes \cup {Len(by) + 1} /\ Goto(w, "fail")
        BY <2>1, <2>13 DEF AgentFails, At, Busy
      <3>2. PICK T \in SUBSET Written(Name(i)) : Wrote(w, T)
        BY <2>13, <3>1 DEF AgentFails
      <3>3. T \in SUBSET DOMAIN NoFiles
        BY VersionsTyped DEF Written
      <3>4. frame'[w].pc \notin Ended
        BY <3>1, GoingOut
      <3>5. /\ Len(by') = Len(by) + 1 /\ by'[Len(by) + 1] = Name(i)
            /\ \A e \in 1..Len(by) : by'[e] = by[e]
            /\ factory'[V] = IF V \in T THEN Len(by) + 1 ELSE factory[V]
        BY <1>5, <3>1, <3>2, <3>3, Writing
      <3>6. V \in T => Name(i) = "verification"
        BY <1>1, <3>2, VerdictFileOf
      <3>7. walk' = walk /\ remote' = remote
        BY <2>13 DEF AgentFails, store
      <3>8. Name(i) # "implementation" =>
               AfterNow(Len(by) + 1) /\ \A v : After(v) /\ v \in Int => AfterNow(v)
        <4> SUFFICES ASSUME Name(i) # "implementation", NEW e \in 1..Len(by'),
                            by'[e] = "implementation"
                     PROVE  e < Len(by) + 1 /\ by[e] = "implementation" /\ e \in 1..Len(by)
          BY <1>1, <3>5
        <4> QED BY <1>1, <3>5
      <3>9. Coming
        <4> SUFFICES ASSUME ToVerify(i), factory'[V] \in passes'
                     PROVE  Name(i) = "verification" /\ AfterNow(factory'[V])
          BY <3>7
        <4>1. CASE V \in T
          BY <3>5, <3>6, <3>8, <4>1
        <4>2. CASE V \notin T
          <5>1. factory'[V] = factory[V] /\ factory[V] \in passes
            BY <1>5, <3>1, <3>5, <4>2
          <5>2. Name(i) = "verification" /\ After(factory[V]) /\ factory[V] \in Int
            BY <1>4, <1>5, <5>1
          <5> QED BY <3>8, <5>1, <5>2
        <4> QED BY <4>1, <4>2
      <3>10. True
        <4> SUFFICES ASSUME walk.passed
                     PROVE  Inherited(walk.judged)
                              \/ (walk.judged \in passes' /\ AfterNow(walk.judged))
          BY <3>7
        <4>1. Name(i) # "implementation"
          BY <1>1, <1>4, OneVerification
        <4>2. Inherited(walk.judged)
                \/ (walk.judged \in passes /\ After(walk.judged) /\ walk.judged \in Int)
          BY <1>1, <1>4
        <4> QED BY <3>1, <3>8, <4>1, <4>2
      <3> QED BY <1>4, <3>4, <3>7, <3>9, <3>10
    <2>14. CASE Push(w)
      <3>1. i = Last
        <4>1. IsFinal(w) /\ Busy(w)
          BY <2>14 DEF Push, CloneShape, At, Busy
        <4> QED BY <2>1, <4>1 DEF IsFinal, Current
      <3>2. Goto(w, "upload") /\ frame[w].pc \in Ended /\ UNCHANGED <<factory, by, passes>>
            /\ walk' = walk
        BY <2>14 DEF Push, At, Ended, agent
      <3>3. /\ frame'[w].job = frame[w].job
            /\ frame'[w].verdict = frame[w].verdict /\ frame'[w].of = frame[w].of
        BY <2>4, <3>2, Going
      <3>4. Fair(w)
        BY <2>2, <3>2, <3>3
      <3>5. ~(i < Last)
        BY <1>1, <3>1, StageNamed
      <3> QED BY <2>5, <3>2, <3>4, <3>5
    <2>15. CASE Cleanup(w)
      <3>1. /\ factory' = NoFiles /\ Goto(w, "report") /\ UNCHANGED <<remote, by, passes>>
            /\ walk' = walk /\ frame[w].pc \in Ended
        BY <2>15 DEF Cleanup, store, agent, At, Ended
      <3>2. /\ frame'[w].job = frame[w].job
            /\ frame'[w].verdict = frame[w].verdict /\ frame'[w].of = frame[w].of
        BY <2>4, <3>1, Going
      <3>3. factory'[V] = 0 /\ factory'[V] \notin passes
        BY <1>5, <3>1, NoCloneTyped
      <3> QED BY <1>4, <2>2, <3>1, <3>2, <3>3
    <2>16. CASE Take(w) \/ Crash(w) \/ DieCommitting(w)
      <3>1. UNCHANGED <<factory, remote, by, passes>> /\ walk' = walk
        BY <2>16 DEF Take, Crash, DieCommitting, disk, store, agent
      <3>2. frame'[w].pc \in {"idle", "begin"}
        <4>1. CASE Take(w)
          <5>1. PICK j : frame' = [frame EXCEPT ![w] = [Idle EXCEPT !.job = j, !.pc = "begin"]]
            BY <4>1 DEF Take
          <5> QED BY <5>1 DEF TypeOK, Idle
        <4>2. CASE Crash(w) \/ DieCommitting(w)
          BY <4>2, Leaving DEF Crash, DieCommitting
        <4> QED BY <2>16, <4>1, <4>2
      <3>3. frame'[w].pc \notin Ended
        BY <3>2 DEF Ended
      <3> QED BY <2>6, <3>1, <3>3
    <2>17. CASE Answer(w)
      <3>1. Leave(w) /\ Busy(w) /\ UNCHANGED <<factory, remote, by, passes>>
        BY <2>17 DEF Answer, Tell, disk, store, agent, At, Busy
      <3>2. frame'[w].pc \notin Ended /\ frame[w].job.no = walk.no /\ frame[w].job.idx = i
        BY <2>1, <3>1, Leaving DEF Ended, Current
      <3>3. PICK verdict, of :
               /\ Answered(frame[w].job, verdict, of) /\ of \in Int
               /\ \/ verdict = NoVerdict
                  \/ verdict = frame[w].verdict /\ of = frame[w].of /\ frame[w].pc = "answer"
        BY <2>17, FrameTyped DEF Answer, Tell, At
      <3>4. Name(i) = "verification" =>
               IF verdict = "PASS" THEN Inherited(of) \/ (of \in passes /\ After(of))
               ELSE verdict = "FAIL" => factory[V] \notin passes
        BY <2>2, <3>2, <3>3 DEF Ended, NoVerdict
      <3>5. CASE walk' = walk
        BY <2>6, <3>1, <3>2, <3>5
      <3>6. CASE walk' # walk
        <4>1. \/ /\ walk'.idx = IF i = Last THEN i ELSE i + 1
                 /\ IF Name(i) = "verification"
                    THEN walk'.judged = of /\ walk'.passed = (verdict = "PASS")
                    ELSE walk'.judged = walk.judged /\ walk'.passed = walk.passed
              \/ /\ walk'.idx = i
                 /\ walk'.judged = walk.judged /\ walk'.passed = walk.passed
              \/ LET to == RollbackTarget(AgentAt(wt, i), wt) IN
                 /\ verdict = "FAIL" /\ to # NoTarget
                 /\ walk'.idx = FindStepIndex(wt, to)
                 /\ walk'.judged = walk.judged /\ walk'.passed = walk.passed
          BY <3>3, <3>6, Answering
        <4>2. CASE walk'.idx = i /\ walk'.judged = walk.judged /\ walk'.passed = walk.passed
          BY <1>4, <3>1, <3>2, <4>2
        <4>3. CASE /\ walk'.idx = IF i = Last THEN i ELSE i + 1
                   /\ IF Name(i) = "verification"
                      THEN walk'.judged = of /\ walk'.passed = (verdict = "PASS")
                      ELSE walk'.judged = walk.judged /\ walk'.passed = walk.passed
          <5>1. Name(i) = "verification" => i < Last /\ ~ToVerify(i + 1)
            BY <1>1, OneVerification
          <5>2. Last \in Nat /\ i \in Nat
            BY <1>1, StageNamed
          <5>3. CASE i = Last
            BY <1>4, <3>1, <3>2, <4>3, <5>1, <5>2, <5>3
          <5>4. CASE i < Last /\ Name(i) = "verification"
            <6>1. walk'.idx = i + 1 /\ ~ToVerify(walk'.idx)
              BY <4>3, <5>1, <5>2, <5>4
            <6>2. True
              BY <3>1, <3>4, <4>3, <5>4
            <6>3. Unpushed
              BY <1>4, <3>1, <5>4
            <6> QED BY <3>2, <6>1, <6>2, <6>3
          <5>5. CASE i < Last /\ Name(i) # "verification"
            <6>1. walk'.idx = i + 1 /\ walk'.judged = walk.judged /\ walk'.passed = walk.passed
              BY <4>3, <5>2, <5>5
            <6>2. ToVerify(i + 1) => ToVerify(i)
              BY <1>1, <5>5, OneVerification
            <6>3. Coming
              BY <1>4, <3>1, <5>5, <6>1, <6>2
            <6>4. Passed /\ True /\ Unpushed
              BY <1>4, <3>1, <5>2, <5>5, <6>1, <6>2
            <6> QED BY <3>2, <6>3, <6>4
          <5> QED BY <1>1, <5>2, <5>3, <5>4, <5>5
        <4>4. CASE LET to == RollbackTarget(AgentAt(wt, i), wt) IN
                   /\ verdict = "FAIL" /\ to # NoTarget
                   /\ walk'.idx = FindStepIndex(wt, to)
                   /\ walk'.judged = walk.judged /\ walk'.passed = walk.passed
          <5>1. /\ walk'.idx \in 0..Last /\ i < Last
                /\ ToVerify(i) \/ \A k \in 0..Last : Name(k) # "verification"
            BY <1>1, <4>4, RollbackGoesBack
          <5>2. factory[V] \notin passes \/ ~ToVerify(i)
            BY <1>4, <3>4, <4>4
          <5>3. (\A k \in 0..Last : Name(k) # "verification") => ~ToVerify(walk'.idx)
            BY <5>1, StageNamed DEF ToVerify
          <5>4. Coming /\ Unpushed
            BY <1>4, <3>1, <5>1, <5>2, <5>3
          <5>5. Passed /\ True
            BY <1>4, <3>1, <4>4, <5>1, <5>3
          <5> QED BY <3>2, <5>4, <5>5
        <4> QED BY <4>1, <4>2, <4>3, <4>4
      <3> QED BY <3>5, <3>6
    <2>18. ~Redeliver(w) /\ ~DieAnswered(w)
      BY <1>3, <1>7, Alone
    <2> QED BY <1>7, <2>7, <2>8, <2>9, <2>10, <2>11, <2>12, <2>13, <2>14, <2>15, <2>16, <2>17, <2>18,
               <2>19, <2>20, StepCases DEF Continues
  <1>8. ASSUME NEW w \in Workers, Step(w), NEW v \in Workers \ {w}
        PROVE  Fair(v)
    <2>1. frame[v].pc = "idle" /\ frame'[v] = frame[v]
      BY <1>3, <1>8, Alone
    <2> QED BY <2>1 DEF Ended
  <1> QED BY <1>3, <1>6, <1>7, <1>8 DEF Next, Step

-------------------------------------------------------------------------------
\* The theorems.

LEMMA IInvInit == Init => IInv
  <1> SUFFICES ASSUME Init
               PROVE  IInv
    OBVIOUS
  <1>1. /\ wt \in WorkTypesSeen /\ queued = {} /\ frame = [w \in Workers |-> Idle]
        /\ walk = [pc |-> "ready", no |-> 0, idx |-> 0, rb |-> 0, judged |-> 0, passed |-> FALSE]
        /\ clone = NoClone /\ factory = NoFiles /\ source = "none"
        /\ base \in Bases[wt] /\ remote = base /\ minio = NoFiles /\ rows = {} /\ by = <<>>
        /\ passes = {} /\ completed = {} /\ warned = FALSE /\ left = Budget
    BY DEF Init
  <1>2. RouteLen(wt) \in 6..8
    <2>1. wt \in WorkTypes
      BY <1>1, WorkTypesSeenAssumption
    <2> QED BY <2>1 DEF WorkTypes, RouteLen, GetRoute, ROUTES
  <1>3. Last \in 5..7 /\ 0 \in 0..Last
    BY <1>2 DEF Last
  <1>4. Idle \in Frames /\ Idle.pc = "idle"
    BY <1>3, VersionsTyped DEF Idle, Frames, FramePCs, NoJob, JobsOf
  <1>5. walk \in Walks
    BY <1>1, <1>3 DEF Walks, MAX_ROLLBACKS
  <1>6. \A w \in Workers : frame[w].pc = "idle"
    BY <1>1, <1>4
  <1>7. TypeOK
    <2>1. frame \in [Workers -> Frames] /\ clone \in Clones /\ left \in [Mishaps -> Nat]
      BY <1>1, <1>4, NoCloneTyped, BudgetTyped
    <2>2. /\ remote \in Branches /\ remote.work = {}
          /\ {factory, minio} \subseteq Versions
      BY <1>1, BaseFixed, VersionsTyped
    <2>3. /\ clone.dirty \cup clone.work \cup remote.work = {} /\ passes \cup completed = {}
      BY <1>1, <2>2, NoCloneTyped
    <2>4. by \in Seq(DOMAIN AGENT_ARTIFACTS)
      BY <1>1
    <2> QED BY <1>1, <1>5, <2>1, <2>2, <2>3, <2>4 DEF TypeOK
  <1>8. BudgetsShrink
    BY <1>1, BudgetTyped DEF BudgetsShrink
  <1>9. OneJob
    BY <1>1, <1>6 DEF OneJob, Busy, At, NothingOut
  <1>10. CloneShape
    BY <1>1, <1>6 DEF CloneShape, At
  <1>11. Dated
    BY <1>1, <1>6, NoCloneTyped DEF Dated, Ended
  <1>12. UploadsRise /\ RowsBacked
    BY <1>1, <1>6, NoCloneTyped DEF UploadsRise, RowsBacked, At
  <1>13. CodeKept /\ WorkIsKept
    BY <1>1, <1>6, NoCloneTyped DEF CodeKept, WorkIsKept, At, Ended
  <1>14. SourceKnown
    BY <1>1, <1>6 DEF SourceKnown, At
  <1>15. Judged /\ VerdictIsOfThisCode
    <2>1. VerdictFile \in DOMAIN NoFiles
      BY FilesAssumption, VersionsTyped DEF VERDICT_FILES, VerdictFile
    <2> QED BY <1>1, <1>6, <2>1, NoCloneTyped DEF Judged, VerdictIsOfThisCode, Ended
  <1> QED BY <1>7, <1>8, <1>9, <1>10, <1>11, <1>12, <1>13, <1>14, <1>15 DEF IInv

LEMMA IInvStep == IInv /\ [Next]_vars => IInv'
  <1> SUFFICES ASSUME IInv, [Next]_vars
               PROVE  IInv'
    OBVIOUS
  <1>1. /\ TypeOK /\ BudgetsShrink /\ OneJob /\ CloneShape /\ Dated
        /\ UploadsRise /\ RowsBacked /\ CodeKept /\ WorkIsKept
        /\ SourceKnown /\ Judged /\ VerdictIsOfThisCode
    BY DEF IInv
  <1>2. TypeOK' /\ Dated'
    BY <1>1, TypesStep
  <1>3. BudgetsShrink'
    BY <1>1, Unhappened DEF TypeOK
  <1>4. OneJob' /\ CloneShape'
    BY <1>1, OneJobStep, CloneShapeStep
  <1>5. UploadsRise' /\ RowsBacked'
    BY <1>1, UploadsStep, RowsStep
  <1>6. CodeKept' /\ WorkIsKept'
    BY <1>1, KeptStep
  <1>7. SourceKnown'
    BY <1>1, SourceStep
  <1>8. Judged' /\ VerdictIsOfThisCode'
    BY <1>1, JudgedStep
  <1> QED BY <1>2, <1>3, <1>4, <1>5, <1>6, <1>7, <1>8 DEF IInv

\* IInv is an invariant of the executor: from the first state on, and over every
\* step of the walk and of any worker, whatever goes wrong.
THEOREM ExecutorInvariant == Spec => []IInv
  BY IInvInit, IInvStep, PTL DEF Spec

\* The disk, the stores and the frames keep their types: every stage on the way
\* has an agent with a primary artifact, and no code and no verdict is of an
\* execution that has not ended.
THEOREM TypesHold == Spec => []TypeOK
  <1>1. IInv => TypeOK
    BY DEF IInv
  <1> QED BY <1>1, ExecutorInvariant, PTL

\* commit_all_changes, the push and the rmtree of the last stage lose no code of a
\* completed stage without a warning, as long as no worker dies with the lock of
\* git and no job is executed twice at once.
THEOREM WorkKept == Spec => []WorkIsKept
  <1>1. IInv => WorkIsKept
    BY DEF IInv
  <1> QED BY <1>1, ExecutorInvariant, PTL

\* The passing verdict that ends the verification of a first walk is of the code
\* as the implementation agent has left it, whichever attempt parse_verdict reads,
\* or it is a pass that was in .factory of the base branch when the run began.
THEOREM VerdictOfThisCode == Spec => []VerdictIsOfThisCode
  <1>1. IInv => VerdictIsOfThisCode
    BY DEF IInv
  <1> QED BY <1>1, ExecutorInvariant, PTL

\* No transformation agent works on an empty target unless a step log says why, as
\* long as no worker dies between the clone of the source and its import, no
\* statement fails and no job is executed twice at once.
THEOREM SourceImported == Spec => []SourceIsImported
  <1>1. IInv => SourceIsImported
    <2> SUFFICES ASSUME IInv, OneAtATime, Unspent({"crash", "dbFails"}), NEW w \in Workers,
                        wt = "transformation", At(w, "agent"), ~warned
                 PROVE  ~TargetEmpty
      BY DEF SourceIsImported
    <2>1. source \in {"none", "partial", "ready"} /\ warned \in BOOLEAN
      BY DEF IInv, TypeOK
    <2>2. /\ source # "none"
          /\ source = "partial" => \E v \in Workers : At(v, "source")
          /\ source = "ready" => ~TargetEmpty \/ \E v \in Workers : At(v, "import")
      BY DEF IInv, SourceKnown
    <2>3. \A v \in Workers : Busy(v) => v = w
      BY DEF IInv, OneJob, Busy, At
    <2>4. ~(\E v \in Workers : At(v, "source") \/ At(v, "import"))
      BY <2>3 DEF Busy, At
    <2> QED BY <2>1, <2>2, <2>4
  <1> QED BY <1>1, ExecutorInvariant, PTL

\* The URL in an artifact's row leads to an object at least as new as the row, as
\* long as no job is executed twice at once.
THEOREM RowsAreBacked == Spec => []RowsBacked
  <1>1. IInv => RowsBacked
    BY DEF IInv
  <1> QED BY <1>1, ExecutorInvariant, PTL
================================================================================
