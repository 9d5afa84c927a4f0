--------------------------- MODULE RunControlProofs ---------------------------
(***************************************************************************)
(* Theorems about RunControl, for any number of runs, users, tasks and     *)
(* workers, any work types and any budget of faults.  IInv is inductive;   *)
(* the invariants of RunControl follow from it.                            *)
(***************************************************************************)
EXTENDS RunControlInvariant, SequenceTheorems, WellFoundedInduction, TLAPS

-------------------------------------------------------------------------------
\* The routes.

\* No route is empty or longer than the eight agents.
LEMMA RouteLength == \A wt \in WorkTypes : RouteLen(wt) \in 1..8
  BY DEF RouteLen, GetRoute, ROUTES, WorkTypes

\* The agent a rollback goes back to is on every route: list.index in
\* find_step_index never raises.
LEMMA TargetOnRoute ==
    ASSUME NEW wt \in WorkTypes, NEW n, RollbackTarget(n, wt) # NoTarget
    PROVE  FindStepIndex(wt, RollbackTarget(n, wt)) \in 0..(RouteLen(wt) - 1)
  <1>1. RollbackTarget(n, wt) = 4
    BY DEF RollbackTarget, NoTarget
  <1>2. \E i \in 0..(RouteLen(wt) - 1) : AgentAt(wt, i) = 4
    <2>1. CASE wt \in {"bugfix", "hotfix", "refactor"}
      <3>1. RouteLen(wt) = 6 /\ AgentAt(wt, 2) = 4
        BY <2>1 DEF RouteLen, GetRoute, ROUTES, AgentAt
      <3> QED BY <3>1
    <2>2. CASE wt \in {"migration", "feature", "transformation", "devops"}
      <3>1. RouteLen(wt) \in {6, 8} /\ AgentAt(wt, 3) = 4
        BY <2>2 DEF RouteLen, GetRoute, ROUTES, AgentAt
      <3> QED BY <3>1
    <2> QED BY <2>1, <2>2 DEF WorkTypes
  <1> QED BY <1>1, <1>2 DEF FindStepIndex

\* Whatever an agent's artifacts are parsed into is a verdict, and what the
\* architecture mapper's are, if anything, is a risk level.
LEMMA VerdictsTyped ==
    /\ \A a : ParsedVerdicts(a) \subseteq Verdicts
    /\ ParsedVerdicts("architecture_mapper") \ {NoVerdict} \subseteq RiskLevels
  <1>1. ASSUME NEW a \in DOMAIN VERDICTS
        PROVE  VERDICTS[a] \subseteq Verdicts
    <2>1. a \in {"orchestrator", "architecture_mapper", "test_contract", "verification",
                 "security_policy"}
      BY DEF VERDICTS
    <2>2. /\ VERDICTS["orchestrator"] = {NoVerdict, "a work type"}
          /\ VERDICTS["architecture_mapper"] = {NoVerdict} \cup RiskLevels
          /\ VERDICTS["test_contract"] = {"PASS", "FAIL"}
          /\ VERDICTS["verification"] = {"PASS", "PASS_WITH_RISK", "FAIL_SPEC", "FAIL_TEST"}
          /\ VERDICTS["security_policy"] = {"APPROVED", "BLOCKED", "REQUIRES_HUMAN"}
      BY DEF VERDICTS
    <2> QED BY <2>1, <2>2 DEF Verdicts
  <1>2. ParsedVerdicts("architecture_mapper") = {NoVerdict} \cup RiskLevels
    BY DEF ParsedVerdicts, VERDICTS
  <1>3. NoVerdict \in Verdicts
    BY DEF Verdicts
  <1> QED BY <1>1, <1>2, <1>3 DEF ParsedVerdicts

-------------------------------------------------------------------------------
\* Pieces the steps are built from.

\* What the loop takes next is among what it fetched.
LEMMA NextTodoTyped ==
    ASSUME LoopOK, loop.todo # {}
    PROVE  NextTodo \in loop.todo
  <1> DEFINE Ids   == {d.run : d \in loop.todo}
             Below == OpToRel(<, Nat)
  <1>1. Ids \subseteq Nat /\ Ids # {}
    <2>1. \A d \in loop.todo : d.run \in Nat
      BY RunsAssumption DEF LoopOK, Todos
    <2> QED BY <2>1
  <1>2. IsWellFoundedOn(Below, Nat) /\ \A m, n \in Nat : n < m => <<n, m>> \in Below
    BY NatLessThanWellFounded DEF OpToRel
  <1>3. \E m \in Ids : \A n \in Ids : m <= n
    <2> HIDE DEF Ids, Below
    <2>1. PICK m \in Ids : \A n \in Ids : ~(<<n, m>> \in Below)
      BY <1>1, <1>2, WFMin
    <2>2. ASSUME NEW n \in Ids
          PROVE  m <= n
      <3>1. m \in Nat /\ n \in Nat
        BY <1>1
      <3>2. ~(n < m)
        BY <1>2, <2>1, <3>1
      <3> QED BY <3>1, <3>2
    <2> QED BY <2>2
  <1>4. \E d \in loop.todo : \A e \in loop.todo : d.run <= e.run
    BY <1>3
  <1> QED BY <1>4 DEF NextTodo

\* A slot that is not free holds a frame of a run.
LEMMA FrameTyped ==
    ASSUME WalkersOK, NEW t \in Tasks, walker[t].pc # "free"
    PROVE  /\ walker[t] \in Frames
           /\ RunOf(t) \in Runs /\ WT(RunOf(t)) \in WorkTypes
           /\ walker[t].idx \in Nat
           /\ Live(t)
  <1>1. walker[t] \in Frames \cup {FreeSlot}
    BY DEF WalkersOK
  <1>2. FreeSlot.pc = "free"
    BY DEF FreeSlot, Frame
  <1>3. walker[t] \in Frames
    BY <1>1, <1>2
  <1>4. \A f \in Frames : f.run \in Runs /\ f.idx \in Nat
    BY DEF Frames
  <1> QED BY <1>2, <1>3, <1>4, WorkTypeAssumption DEF RunOf, WT, Live

\* A stage that is being walked is one of the eight.
LEMMA OnRouteTyped ==
    ASSUME IInv, NEW t \in Tasks, walker[t].pc \in OnStage
    PROVE  walker[t].idx \in StageIdx
  <1>1. WT(RunOf(t)) \in WorkTypes /\ walker[t].idx \in Nat
    BY FrameTyped DEF IInv, TypeOK, OnStage, Engaged, Answering
  <1>2. walker[t].idx <= RouteLen(WT(RunOf(t))) - 1
    BY DEF IInv, FramesSound, SoundFrame, Last, RunOf
  <1> QED BY <1>1, <1>2, RouteLength DEF StageIdx

\* A request in flight is about a run.
LEMMA RequestTyped ==
    ASSUME RequestsOK, NEW u \in Users, request[u].pc # "idle"
    PROVE  request[u] \in [pc : RequestPCs, run : Runs, cp : Nat]
  BY DEF RequestsOK, Idle, Request

\* The verdict an architecture mapper's answer carries is a risk level.
LEMMA RiskTyped ==
    ASSUME IInv, NEW t \in Tasks, At(t, "answered"), ReportsRisk(t)
    PROVE  Verdict(t) \in RiskLevels
  <1>1. /\ walker[t].answer.outcome \in Outcomes(walker[t].job)
        /\ walker[t].job.run = RunOf(t)
        /\ walker[t].job.idx = walker[t].idx
    BY DEF IInv, FramesSound, SoundFrame, Engaged, Answering, At, RunOf
  <1>2. AgentsRegistry(WT(RunOf(t)))[AgentNum(t)] = "architecture_mapper"
        /\ Verdict(t) # NoVerdict
    BY DEF ReportsRisk
  <1>3. \A o \in Outcomes(walker[t].job) :
            o.verdict = NoVerdict \/ o.verdict \in ParsedVerdicts("architecture_mapper")
    BY <1>1, <1>2 DEF Outcomes, Outcome, NoOutcome, AgentNum
  <1> QED BY <1>1, <1>2, <1>3, VerdictsTyped DEF Verdict

-------------------------------------------------------------------------------
\* The rows keep their types.
LEMMA RowsStep ==
    ASSUME IInv, [Next]_vars
    PROVE  RowsOK'
  <1> USE DEF row, db, orch, broker, SetStatus, SetAction, SetIdx
  <1>0. RowsOK /\ WalkersOK
    BY DEF IInv, TypeOK
  <1>1. ASSUME UNCHANGED row
        PROVE  RowsOK'
    BY <1>0, <1>1 DEF RowsOK
  <1>2. /\ Stored \subseteq Statuses /\ "deleted" \in Statuses
        /\ {"pending", "running", "awaiting_checkpoint", "completed", "failed",
            "cancelled", "rejected"} \subseteq Statuses
        /\ {"start", "resume", "cancel", NoAction} \subseteq Actions \cup {NoAction}
        /\ "low" \in RiskLevels
    BY DEF Stored, Statuses, Actions, RiskLevels
  <1>3. ASSUME NEW u \in Users, UserAsks(u)
        PROVE  RowsOK'
    BY <1>0, <1>2, <1>3 DEF RowsOK, UserAsks, CreateRun, AskCancel, AskDelete, AskRestart,
                            AskApprove, AskReject
  <1>4. ASSUME NEW u \in Users, Handler(u)
        PROVE  RowsOK'
    <2>1. CASE SignalStart(u) \/ SignalResume(u)
      BY <1>0, <1>2, <2>1 DEF RowsOK, Set, SignalStart, SignalResume
    <2>2. CASE MarkCancelled(u) \/ MarkRejected(u)
      BY <1>0, <1>2, <2>2 DEF RowsOK, Set, MarkCancelled, MarkRejected
    <2>3. CASE DeleteRow(u)
      BY <1>0, <1>2, <2>3 DEF RowsOK, DeleteRow
    <2>4. CASE ResetRow(u)
      BY <1>0, <1>2, <2>4 DEF RowsOK, Set, ResetRow
    <2>5. CASE Approve(u) \/ Reject(u)
      BY <1>1, <2>5 DEF Approve, Reject
    <2> QED BY <1>4, <2>1, <2>2, <2>3, <2>4, <2>5 DEF Handler
  <1>5. ASSUME MainLoop
        PROVE  RowsOK'
    <2>1. CASE RecoverRun \/ ClearAction \/ ResumeRun
      BY <1>0, <1>2, <2>1 DEF RowsOK, Set, RecoverRun, ClearAction, ResumeRun
    <2>2. CASE Boot \/ FetchActions \/ StartRun \/ DropAction \/ CancelRun
      BY <1>1, <2>2 DEF Boot, FetchActions, StartRun, DropAction, CancelRun
    <2> QED BY <1>5, <2>1, <2>2 DEF MainLoop
  <1>6. ASSUME NEW t \in Tasks, Walk(t)
        PROVE  RowsOK'
    <2>1. CASE Claim(t) \/ FailExpired(t) \/ GiveUp(t) \/ Complete(t)
      BY <1>0, <1>2, <2>1 DEF RowsOK, Set, Claim, FailExpired, GiveUp, Complete
    <2>2. CASE Park(t) \/ Advance(t)
      <3>1. walker[t].idx + 1 \in Nat
        BY <1>0, <2>2, FrameTyped DEF Park, Advance, At, Judging
      <3> QED BY <1>0, <1>2, <2>2, <3>1 DEF RowsOK, Set, Park, Advance
    <2>3. CASE RecordRisk(t)
      <3>1. Verdict(t) \in RiskLevels
        BY <2>3, RiskTyped DEF RecordRisk
      <3> QED BY <1>0, <2>3, <3>1 DEF RowsOK, Set, RecordRisk
    <2>4. CASE RollBack(t)
      <3> DEFINE i == FindStepIndex(WT(RunOf(t)), Target(t))
      <3>1. walker[t] \in Frames /\ WT(RunOf(t)) \in WorkTypes
        BY <1>0, <2>4, FrameTyped DEF RollBack, At, Judging
      <3>2. i \in Nat
        <4>1. i \in 0..(RouteLen(WT(RunOf(t))) - 1)
          BY <2>4, <3>1, TargetOnRoute DEF RollBack, CanRollBack, Target
        <4> QED BY <4>1
      <3>3. walker[t].seen.rollbacks + 1 \in Nat
        BY <3>1 DEF Frames, Seens
      <3> HIDE DEF i
      <3> QED BY <1>0, <2>4, <3>2, <3>3 DEF RowsOK, Set, RollBack, i
    <2>5. CASE \/ Begin(t) \/ Top(t) \/ CreateStep(t) \/ Publish(t) \/ Register(t)
               \/ Reread(t) \/ OpenCheckpoint(t) \/ OpenMR(t) \/ DoneCallback(t)
      BY <1>1, <2>5 DEF Begin, Top, CreateStep, Publish, Register, Reread, OpenCheckpoint,
                        OpenMR, DoneCallback, Locally
    <2> QED BY <1>6, <2>1, <2>2, <2>3, <2>4, <2>5 DEF Walk
  <1>7. ASSUME NEW t \in Tasks, Expire(t)
        PROVE  RowsOK'
    BY <1>1, <1>7 DEF Expire
  <1>8. ASSUME NEW w \in Workers, Work(w)
        PROVE  RowsOK'
    BY <1>1, <1>8 DEF Work, TakeJob, FinishJob
  <1>9. CASE ConsumeResult
    BY <1>1, <1>9 DEF ConsumeResult
  <1>10. CASE Fault
    <2>1. CASE LoopError
      BY <1>0, <1>1, <1>2, <2>1 DEF RowsOK, Set, LoopError
    <2> QED BY <1>1, <1>10, <2>1 DEF Fault, OrchCrash, WebCrash, WalkerError, WorkerCrash,
                                     RejectJob
  <1>11. CASE UNCHANGED vars
    BY <1>1, <1>11 DEF vars
  <1> QED BY <1>3, <1>4, <1>5, <1>6, <1>7, <1>8, <1>9, <1>10, <1>11 DEF Next

-------------------------------------------------------------------------------
\* The tables beside the rows keep their types.
LEMMA TablesStep ==
    ASSUME IInv, [Next]_vars
    PROVE  TablesOK'
  <1> USE DEF row, db, orch, broker
  <1>0. TablesOK /\ WalkersOK
    BY DEF IInv, TypeOK
  <1>1. ASSUME UNCHANGED <<attempts, checkpoints, nextCp, mrs>>
        PROVE  TablesOK'
    BY <1>0, <1>1 DEF TablesOK
  <1>2. ASSUME NEW u \in Users, UserAsks(u)
        PROVE  TablesOK'
    BY <1>1, <1>2 DEF UserAsks, CreateRun, AskCancel, AskDelete, AskRestart, AskApprove,
                      AskReject
  <1>3. ASSUME NEW u \in Users, Handler(u)
        PROVE  TablesOK'
    <2>1. CASE SignalStart(u) \/ SignalResume(u) \/ MarkCancelled(u) \/ MarkRejected(u)
               \/ ResetRow(u)
      BY <1>1, <2>1 DEF SignalStart, SignalResume, MarkCancelled, MarkRejected, ResetRow
    <2>2. CASE DeleteRow(u)
      BY <1>0, <2>2 DEF TablesOK, DeleteRow
    <2>3. CASE Approve(u) \/ Reject(u)
      <3>1. \A c \in checkpoints, s \in {"approved", "rejected"} :
                [c EXCEPT !.status = s] \in Checkpoints
        BY <1>0 DEF TablesOK, Checkpoints
      <3>2. PICK s \in {"approved", "rejected"} : Decide(request[u].cp, s)
        BY <2>3 DEF Approve, Reject
      <3>3. checkpoints' \subseteq Checkpoints
        BY <1>0, <3>1, <3>2 DEF TablesOK, Decide
      <3> QED BY <1>0, <2>3, <3>3 DEF TablesOK, Approve, Reject
    <2> QED BY <1>3, <2>1, <2>2, <2>3 DEF Handler
  <1>4. ASSUME MainLoop
        PROVE  TablesOK'
    BY <1>1, <1>4 DEF MainLoop, Boot, RecoverRun, FetchActions, ClearAction, StartRun,
                      ResumeRun, DropAction, CancelRun
  <1>5. ASSUME NEW t \in Tasks, Walk(t)
        PROVE  TablesOK'
    <2>1. CASE CreateStep(t)
      BY <1>0, <2>1 DEF TablesOK, CreateStep
    <2>2. CASE OpenCheckpoint(t)
      <3>1. RunOf(t) \in Runs /\ walker[t].idx \in StageIdx
        BY <1>0, <2>2, FrameTyped, OnRouteTyped DEF OpenCheckpoint, Judging, At, OnStage, Engaged, Answering
      <3> QED BY <1>0, <2>2, <3>1 DEF TablesOK, OpenCheckpoint, Checkpoints
    <2>3. CASE OpenMR(t)
      BY <1>0, <2>3, FrameTyped DEF TablesOK, OpenMR, At
    <2>4. CASE \/ Begin(t) \/ Claim(t) \/ Top(t) \/ Publish(t) \/ Register(t)
               \/ FailExpired(t) \/ RecordRisk(t) \/ Reread(t) \/ RollBack(t) \/ GiveUp(t)
               \/ Park(t) \/ Advance(t) \/ Complete(t) \/ DoneCallback(t)
      BY <1>1, <2>4 DEF Begin, Claim, Top, Publish, Register, FailExpired, RecordRisk,
                        Reread, RollBack, GiveUp, Park, Advance, Complete, DoneCallback,
                        Locally
    <2> QED BY <1>5, <2>1, <2>2, <2>3, <2>4 DEF Walk
  <1>6. ASSUME NEW t \in Tasks, Expire(t)
        PROVE  TablesOK'
    BY <1>1, <1>6 DEF Expire
  <1>7. ASSUME NEW w \in Workers, Work(w)
        PROVE  TablesOK'
    BY <1>1, <1>7 DEF Work, TakeJob, FinishJob
  <1>8. CASE ConsumeResult
    BY <1>1, <1>8 DEF ConsumeResult
  <1>9. CASE Fault
    BY <1>1, <1>9 DEF Fault, LoopError, OrchCrash, WebCrash, WalkerError, WorkerCrash,
                      RejectJob
  <1>10. CASE UNCHANGED vars
    BY <1>1, <1>10 DEF vars
  <1> QED BY <1>2, <1>3, <1>4, <1>5, <1>6, <1>7, <1>8, <1>9, <1>10 DEF Next

-------------------------------------------------------------------------------
\* The main coroutine and the dict of active runs keep their types.
LEMMA LoopStep ==
    ASSUME IInv, [Next]_vars
    PROVE  LoopOK'
  <1> USE DEF row, db, orch, broker
  <1>0. LoopOK /\ WalkersOK /\ RowsOK
    BY DEF IInv, TypeOK
  <1>1. ASSUME UNCHANGED <<loop, active>>
        PROVE  LoopOK'
    BY <1>0, <1>1 DEF LoopOK
  <1>2. ASSUME NEW u \in Users, UserAsks(u)
        PROVE  LoopOK'
    BY <1>1, <1>2 DEF UserAsks, CreateRun, AskCancel, AskDelete, AskRestart, AskApprove,
                      AskReject
  <1>3. ASSUME NEW u \in Users, Handler(u)
        PROVE  LoopOK'
    BY <1>1, <1>3 DEF Handler, SignalStart, SignalResume, MarkCancelled, MarkRejected,
                      ResetRow, DeleteRow, Approve, Reject
  <1>4. ASSUME MainLoop
        PROVE  LoopOK'
    <2>1. CASE Boot \/ FetchActions
      <3>1. \A r \in Runs : action[r] # NoAction => Todo(r, action[r]) \in Todos
        BY <1>0 DEF RowsOK, Todo, Todos
      <3>2. \A r \in Runs : Todo(r, "start") \in Todos
        BY DEF Todo, Todos, Actions
      <3> QED BY <1>0, <2>1, <3>1, <3>2 DEF LoopOK, Boot, FetchActions, LoopAt
    <2>2. CASE RecoverRun
      BY <1>0, <2>2 DEF LoopOK, RecoverRun, LoopAt
    <2>3. CASE ClearAction
      BY <1>0, <2>3, NextTodoTyped DEF LoopOK, ClearAction, LoopAt
    <2>4. CASE StartRun \/ ResumeRun
      BY <1>0, <2>4 DEF LoopOK, StartRun, ResumeRun, Spawn, Handled, LoopAt
    <2>5. CASE DropAction
      BY <1>0, <2>5 DEF LoopOK, DropAction, Handled, LoopAt
    <2>6. CASE CancelRun
      BY <1>0, <2>6 DEF LoopOK, CancelRun, Handled, LoopAt
    <2> QED BY <1>4, <2>1, <2>2, <2>3, <2>4, <2>5, <2>6 DEF MainLoop
  <1>5. ASSUME NEW t \in Tasks, Walk(t)
        PROVE  LoopOK'
    <2>1. CASE DoneCallback(t)
      BY <1>0, <2>1 DEF LoopOK, DoneCallback
    <2>2. CASE \/ Begin(t) \/ Claim(t) \/ Top(t) \/ CreateStep(t) \/ Publish(t)
               \/ Register(t) \/ FailExpired(t) \/ RecordRisk(t) \/ Reread(t)
               \/ RollBack(t) \/ GiveUp(t) \/ OpenCheckpoint(t) \/ Park(t) \/ Advance(t)
               \/ OpenMR(t) \/ Complete(t)
      BY <1>1, <2>2 DEF Begin, Claim, Top, CreateStep, Publish, Register, FailExpired,
                        RecordRisk, Reread, RollBack, GiveUp, OpenCheckpoint, Park, Advance,
                        OpenMR, Complete, Locally
    <2> QED BY <1>5, <2>1, <2>2 DEF Walk
  <1>6. ASSUME NEW t \in Tasks, Expire(t)
        PROVE  LoopOK'
    BY <1>1, <1>6 DEF Expire
  <1>7. ASSUME NEW w \in Workers, Work(w)
        PROVE  LoopOK'
    BY <1>1, <1>7 DEF Work, TakeJob, FinishJob
  <1>8. CASE ConsumeResult
    BY <1>1, <1>8 DEF ConsumeResult
  <1>9. CASE Fault
    <2>1. CASE LoopError \/ OrchCrash
      BY <1>0, <2>1 DEF LoopOK, LoopError, OrchCrash, LoopAt
    <2>2. CASE \/ \E u \in Users : WebCrash(u)
               \/ \E t \in Tasks : WalkerError(t)
               \/ \E w \in Workers : WorkerCrash(w) \/ RejectJob(w)
      BY <1>1, <2>2 DEF WebCrash, WalkerError, WorkerCrash, RejectJob
    <2> QED BY <1>9, <2>1, <2>2 DEF Fault
  <1>10. CASE UNCHANGED vars
    BY <1>1, <1>10 DEF vars
  <1> QED BY <1>2, <1>3, <1>4, <1>5, <1>6, <1>7, <1>8, <1>9, <1>10 DEF Next

-------------------------------------------------------------------------------
\* The frames of the walkers keep their types.

\* What a step of a walker leaves in its slot.
LEMMA FramesMade ==
    /\ FreeSlot \in Frames \cup {FreeSlot}
    /\ \A r \in Runs : Frame(r) \in Frames
    /\ \A r \in Runs, pc \in WalkerPCs, i \in Nat : Between(pc, r, i) \in Frames
    /\ \A f \in Frames, pc \in WalkerPCs : [f EXCEPT !.pc = pc] \in Frames
    /\ \A f \in Frames, pc \in WalkerPCs, s \in Seens :
            [f EXCEPT !.pc = pc, !.seen = s] \in Frames
    /\ \A f \in Frames, pc \in WalkerPCs, j \in Jobs :
            [f EXCEPT !.pc = pc, !.job = j] \in Frames
    /\ \A f \in Frames, pc \in WalkerPCs, m \in Results :
            [f EXCEPT !.pc = pc, !.answer = m] \in Frames
  <1>1. \A r \in Runs : Frame(r) \in Frames
    BY DEF Frame, Frames, WalkerPCs, Seens, RiskLevels
  <1>2. \A f \in Frames, pc \in WalkerPCs, i \in Nat :
            [f EXCEPT !.pc = pc, !.idx = i] \in Frames
    BY DEF Frames
  <1>3. \A r \in Runs, pc \in WalkerPCs, i \in Nat : Between(pc, r, i) \in Frames
    BY <1>1, <1>2 DEF Between
  <1>4. \A f \in Frames, pc \in WalkerPCs : [f EXCEPT !.pc = pc] \in Frames
    BY DEF Frames
  <1>5. \A f \in Frames, pc \in WalkerPCs, s \in Seens :
            [f EXCEPT !.pc = pc, !.seen = s] \in Frames
    BY DEF Frames
  <1>6. \A f \in Frames, pc \in WalkerPCs, j \in Jobs :
            [f EXCEPT !.pc = pc, !.job = j] \in Frames
    BY DEF Frames
  <1>7. \A f \in Frames, pc \in WalkerPCs, m \in Results :
            [f EXCEPT !.pc = pc, !.answer = m] \in Frames
    BY DEF Frames
  <1> QED BY <1>1, <1>3, <1>4, <1>5, <1>6, <1>7

\* A frame keeps the type of a frame, whichever step of it or of others is taken.
LEMMA WalkersStep ==
    ASSUME IInv, [Next]_vars
    PROVE  WalkersOK'
  <1> USE DEF row, db, orch, broker
  <1>0. WalkersOK /\ RowsOK /\ LoopOK /\ BrokerOK
    BY DEF IInv, TypeOK
  <1>1. ASSUME UNCHANGED walker
        PROVE  WalkersOK'
    BY <1>0, <1>1 DEF WalkersOK
  <1>2. ASSUME NEW t \in Tasks, NEW f \in Frames \cup {FreeSlot},
               walker' = [walker EXCEPT ![t] = f]
        PROVE  WalkersOK'
    BY <1>0, <1>2 DEF WalkersOK
  <1>3. WalkerPCs = {"start", "claim", "top", "step", "publish", "register", "wait",
                     "expired", "answered", "reread", "judge", "park", "merge",
                     "complete", "done"}
    BY DEF WalkerPCs
  <1>4. ASSUME NEW t \in Tasks, walker[t].pc # "free", NEW pc \in WalkerPCs, Goto(t, pc)
        PROVE  WalkersOK'
    <2>1. [walker[t] EXCEPT !.pc = pc] \in Frames
      BY <1>0, <1>4, FrameTyped, FramesMade
    <2>2. walker' = [walker EXCEPT ![t] = [walker[t] EXCEPT !.pc = pc]]
      BY <1>4 DEF Goto
    <2> QED BY <1>2, <2>1, <2>2
  <1>5. ASSUME NEW t \in Tasks, walker[t].pc # "free", NEW pc \in WalkerPCs,
               NEW i \in Nat, Continue(t, pc, i)
        PROVE  WalkersOK'
    BY <1>0, <1>2, <1>5, FrameTyped, FramesMade DEF Continue
  <1>6. ASSUME NEW t \in Tasks, walker[t].pc # "free", Return(t)
        PROVE  WalkersOK'
    BY <1>3, <1>5, <1>6 DEF Return
  <1>7. \A r \in Runs : Seen(r) \in Seens
    BY <1>0 DEF Seen, Seens, RowsOK
  <1>8. ASSUME NEW u \in Users, UserAsks(u) \/ Handler(u)
        PROVE  WalkersOK'
    BY <1>1, <1>8 DEF UserAsks, CreateRun, AskCancel, AskDelete, AskRestart, AskApprove,
                      AskReject, Handler, SignalStart, SignalResume, MarkCancelled,
                      MarkRejected, ResetRow, DeleteRow, Approve, Reject
  <1>9. ASSUME MainLoop
        PROVE  WalkersOK'
    <2>1. CASE StartRun \/ ResumeRun
      <3>1. loop.cur.run \in Runs
        BY <1>0, <2>1 DEF LoopOK, StartRun, ResumeRun, Handling, Nothing, Todo, Todos, NoAction
      <3>2. PICK t \in Tasks : walker' = [walker EXCEPT ![t] = Frame(loop.cur.run)]
        BY <2>1 DEF StartRun, ResumeRun, Spawn
      <3> QED BY <1>2, <3>1, <3>2, FramesMade
    <2>2. CASE CancelRun
      BY <1>0, <2>2 DEF WalkersOK, CancelRun
    <2>3. CASE Boot \/ RecoverRun \/ FetchActions \/ ClearAction \/ DropAction
      BY <1>1, <2>3 DEF Boot, RecoverRun, FetchActions, ClearAction, DropAction
    <2> QED BY <1>9, <2>1, <2>2, <2>3 DEF MainLoop
  <1>10. ASSUME NEW t \in Tasks, Walk(t)
         PROVE  WalkersOK'
    <2>1. CASE Begin(t)
      <3>1. RunOf(t) \in Runs /\ walker[t].pc # "free"
        BY <1>0, <2>1, FrameTyped DEF Begin, At
      <3>2. stepIdx[RunOf(t)] \in Nat
        BY <1>0, <3>1 DEF RowsOK
      <3> QED BY <1>3, <1>5, <1>6, <2>1, <3>1, <3>2 DEF Begin
    <2>2. CASE Claim(t) \/ Register(t) \/ RecordRisk(t) \/ OpenMR(t)
      BY <1>3, <1>4, <2>2 DEF Claim, Register, RecordRisk, OpenMR, At
    <2>3. CASE FailExpired(t) \/ GiveUp(t) \/ Park(t) \/ Complete(t)
      BY <1>6, <2>3 DEF FailExpired, GiveUp, Park, Complete, Judging, At
    <2>4. CASE Top(t) \/ Reread(t)
      <3>1. walker[t].pc # "free" /\ walker[t] \in Frames /\ Seen(RunOf(t)) \in Seens
        BY <1>0, <1>7, <2>4, FrameTyped DEF Top, Reread, At
      <3>2. \/ \E pc \in {"step", "judge"} :
                   walker' = [walker EXCEPT ![t].pc = pc, ![t].seen = Seen(RunOf(t))]
            \/ Goto(t, "merge")
            \/ Return(t)
        BY <2>4 DEF Top, Reread
      <3>3. ASSUME NEW pc \in {"step", "judge"},
                   walker' = [walker EXCEPT ![t].pc = pc, ![t].seen = Seen(RunOf(t))]
            PROVE  WalkersOK'
        <4>1. [walker[t] EXCEPT !.pc = pc, !.seen = Seen(RunOf(t))] \in Frames
          BY <1>3, <3>1, FramesMade
        <4>2. walker' = [walker EXCEPT ![t] =
                                [walker[t] EXCEPT !.pc = pc, !.seen = Seen(RunOf(t))]]
          BY <3>3
        <4> QED BY <1>2, <4>1, <4>2
      <3> QED BY <1>3, <1>4, <1>6, <3>1, <3>2, <3>3
    <2>5. CASE CreateStep(t) \/ OpenCheckpoint(t)
      BY <1>3, <1>4, <1>6, <2>5 DEF CreateStep, OpenCheckpoint, Judging, At
    <2>6. CASE Publish(t)
      <3> DEFINE j == Job(nextJob, RunOf(t), walker[t].idx)
      <3>1. walker[t] \in Frames /\ RunOf(t) \in Runs
        BY <1>0, <2>6, FrameTyped DEF Publish, At
      <3>2. j \in Jobs
        BY <1>0, <2>6, <3>1, OnRouteTyped DEF Publish, At, OnStage, BrokerOK, Job, Jobs
      <3>3. walker' = [walker EXCEPT ![t] = [walker[t] EXCEPT !.pc = "register", !.job = j]]
        BY <2>6 DEF Publish
      <3> HIDE DEF j
      <3>4. [walker[t] EXCEPT !.pc = "register", !.job = j] \in Frames
        BY <1>3, <3>1, <3>2, FramesMade
      <3> QED BY <1>2, <3>3, <3>4
    <2>7. CASE RollBack(t)
      <3>1. walker[t].pc # "free" /\ WT(RunOf(t)) \in WorkTypes
        BY <1>0, <2>7, FrameTyped DEF RollBack, At, Judging
      <3>2. FindStepIndex(WT(RunOf(t)), Target(t)) \in 0..(RouteLen(WT(RunOf(t))) - 1)
        BY <2>7, <3>1, TargetOnRoute DEF RollBack, CanRollBack, Target
      <3>3. FindStepIndex(WT(RunOf(t)), Target(t)) \in Nat
        BY <3>2
      <3> QED BY <1>3, <1>5, <2>7, <3>1, <3>3 DEF RollBack
    <2>8. CASE Advance(t)
      <3>1. walker[t].pc # "free" /\ walker[t].idx + 1 \in Nat
        BY <1>0, <2>8, FrameTyped DEF Advance, Judging, At
      <3> QED BY <1>3, <1>5, <2>8, <3>1 DEF Advance
    <2>9. CASE DoneCallback(t)
      BY <1>2, <2>9 DEF DoneCallback
    <2> QED BY <1>10, <2>1, <2>2, <2>3, <2>4, <2>5, <2>6, <2>7, <2>8, <2>9 DEF Walk
  <1>11. ASSUME NEW t \in Tasks, Expire(t)
         PROVE  WalkersOK'
    BY <1>3, <1>4, <1>11 DEF Expire, At
  <1>12. ASSUME NEW w \in Workers, Work(w)
         PROVE  WalkersOK'
    BY <1>1, <1>12 DEF Work, TakeJob, FinishJob
  <1>13. CASE ConsumeResult
    <2> DEFINE m == Head(resultQueue)
    <2>1. m \in Results
      BY <1>0, <1>13, HeadTailProperties DEF BrokerOK, ConsumeResult
    <2> HIDE DEF m
    <2>2. ASSUME NEW t \in Tasks, At(t, "wait")
          PROVE  [walker[t] EXCEPT !.pc = "answered", !.answer = m] \in Frames
      BY <1>0, <1>3, <2>1, <2>2, FrameTyped, FramesMade DEF At
    <2>3. walker' = [t \in Tasks |->
                        IF At(t, "wait") /\ walker[t].job.id = m.job.id
                        THEN [walker[t] EXCEPT !.pc = "answered", !.answer = m]
                        ELSE walker[t]]
      BY <1>13 DEF ConsumeResult, m
    <2> QED BY <1>0, <2>2, <2>3 DEF WalkersOK
  <1>14. CASE Fault
    <2>1. ASSUME NEW t \in Tasks, WalkerError(t)
          PROVE  WalkersOK'
      BY <1>6, <2>1 DEF WalkerError
    <2>2. CASE OrchCrash
      BY <2>2 DEF OrchCrash, WalkersOK
    <2>3. CASE \/ LoopError
               \/ \E u \in Users : WebCrash(u)
               \/ \E w \in Workers : WorkerCrash(w) \/ RejectJob(w)
      BY <1>1, <2>3 DEF LoopError, WebCrash, WorkerCrash, RejectJob
    <2> QED BY <1>14, <2>1, <2>2, <2>3 DEF Fault
  <1>15. CASE UNCHANGED vars
    BY <1>1, <1>15 DEF vars
  <1> QED BY <1>8, <1>9, <1>10, <1>11, <1>12, <1>13, <1>14, <1>15 DEF Next

-------------------------------------------------------------------------------
\* The broker and the workers keep their types.

\* What a worker answers has the type of a result.
LEMMA ResultTyped ==
    ASSUME NEW j \in Jobs, NEW o \in Outcomes(j)
    PROVE  Result(j, o) \in Results
  <1>1. \A v \in Verdicts, b \in BOOLEAN : Outcome(b, v) \in AllOutcomes
    BY DEF Outcome, AllOutcomes
  <1>2. NoOutcome \in AllOutcomes
    BY <1>1 DEF NoOutcome, Verdicts
  <1>3. o = NoOutcome \/ \E v \in SeenVerdicts : o = Outcome(TRUE, v)
    BY DEF Outcomes
  <1>4. o \in AllOutcomes
    BY <1>1, <1>2, <1>3, VerdictsAssumption
  <1> QED BY <1>4 DEF Result, Results

\* The queues, the jobs taken and the ids keep their types.
LEMMA BrokerStep ==
    ASSUME IInv, [Next]_vars
    PROVE  BrokerOK'
  <1> USE DEF row, db, orch, broker
  <1>0. WalkersOK /\ BrokerOK
    BY DEF IInv, TypeOK
  <1>1. ASSUME UNCHANGED <<broker, busy>>
        PROVE  BrokerOK'
    BY <1>0, <1>1 DEF BrokerOK
  <1>2. ASSUME NEW w \in Workers, busy[w] # NoJob
        PROVE  busy[w] \in Jobs
    BY <1>0, <1>2 DEF BrokerOK
  <1>3. ASSUME NEW u \in Users, UserAsks(u) \/ Handler(u)
        PROVE  BrokerOK'
    BY <1>1, <1>3 DEF UserAsks, CreateRun, AskCancel, AskDelete, AskRestart, AskApprove,
                      AskReject, Handler, SignalStart, SignalResume, MarkCancelled,
                      MarkRejected, ResetRow, DeleteRow, Approve, Reject
  <1>4. ASSUME MainLoop
        PROVE  BrokerOK'
    BY <1>1, <1>4 DEF MainLoop, Boot, RecoverRun, FetchActions, ClearAction, StartRun,
                      ResumeRun, DropAction, CancelRun
  <1>5. ASSUME NEW t \in Tasks, Walk(t)
        PROVE  BrokerOK'
    <2>1. CASE Publish(t)
      <3>1. Job(nextJob, RunOf(t), walker[t].idx) \in Jobs
        BY <1>0, <2>1, FrameTyped, OnRouteTyped DEF Publish, At, OnStage, BrokerOK, Job, Jobs
      <3> QED BY <1>0, <2>1, <3>1 DEF BrokerOK, Publish
    <2>2. CASE \/ Begin(t) \/ Claim(t) \/ Top(t) \/ CreateStep(t) \/ Register(t)
               \/ FailExpired(t) \/ RecordRisk(t) \/ Reread(t) \/ RollBack(t)
               \/ GiveUp(t) \/ OpenCheckpoint(t) \/ Park(t) \/ Advance(t)
               \/ OpenMR(t) \/ Complete(t) \/ DoneCallback(t)
      BY <1>1, <2>2 DEF Begin, Claim, Top, CreateStep, Register, FailExpired, RecordRisk,
                        Reread, RollBack, GiveUp, OpenCheckpoint, Park, Advance, OpenMR,
                        Complete, DoneCallback, Locally
    <2> QED BY <1>5, <2>1, <2>2 DEF Walk
  <1>6. ASSUME NEW t \in Tasks, Expire(t)
        PROVE  BrokerOK'
    BY <1>1, <1>6 DEF Expire
  <1>7. ASSUME NEW w \in Workers, TakeJob(w)
        PROVE  BrokerOK'
    <2>1. Head(jobQueue) \in Jobs /\ Tail(jobQueue) \in Seq(Jobs)
      BY <1>0, <1>7, HeadTailProperties DEF BrokerOK, TakeJob
    <2> QED BY <1>0, <1>7, <2>1 DEF BrokerOK, TakeJob
  <1>8. ASSUME NEW w \in Workers, FinishJob(w)
        PROVE  BrokerOK'
    BY <1>0, <1>2, <1>8, ResultTyped DEF BrokerOK, FinishJob
  <1>9. CASE ConsumeResult
    BY <1>0, <1>9, HeadTailProperties DEF BrokerOK, ConsumeResult
  <1>10. CASE Fault
    <2>1. ASSUME NEW w \in Workers, WorkerCrash(w)
          PROVE  BrokerOK'
      <3>1. busy[w] \in Jobs
        BY <1>2, <2>1 DEF WorkerCrash
      <3>2. resultQueue' \in Seq(Results)
        <4>1. \/ resultQueue' = resultQueue
              \/ \E o \in Outcomes(busy[w]) :
                    resultQueue' = Append(resultQueue, Result(busy[w], o))
          BY <2>1 DEF WorkerCrash
        <4>2. \A o \in Outcomes(busy[w]) : Result(busy[w], o) \in Results
          BY <3>1, ResultTyped
        <4> QED BY <1>0, <4>1, <4>2 DEF BrokerOK
      <3>3. <<busy[w]>> \o jobQueue \in Seq(Jobs)
        <4>1. <<busy[w]>> \in Seq(Jobs)
          BY <3>1
        <4> QED BY <1>0, <4>1, ConcatProperties DEF BrokerOK
      <3> QED BY <1>0, <2>1, <3>2, <3>3 DEF BrokerOK, WorkerCrash
    <2>2. ASSUME NEW w \in Workers, RejectJob(w)
          PROVE  BrokerOK'
      BY <1>0, <2>2 DEF BrokerOK, RejectJob
    <2>3. CASE \/ LoopError \/ OrchCrash
               \/ \E u \in Users : WebCrash(u)
               \/ \E t \in Tasks : WalkerError(t)
      BY <1>1, <2>3 DEF LoopError, OrchCrash, WebCrash, WalkerError
    <2> QED BY <1>10, <2>1, <2>2, <2>3 DEF Fault
  <1>11. CASE UNCHANGED vars
    BY <1>1, <1>11 DEF vars
  <1> QED BY <1>3, <1>4, <1>5, <1>6, <1>7, <1>8, <1>9, <1>10, <1>11 DEF Next, Work

-------------------------------------------------------------------------------
\* The requests in flight and the budget keep their types.
LEMMA RequestsStep ==
    ASSUME IInv, [Next]_vars
    PROVE  RequestsOK'
  <1> USE DEF row, db, orch, broker
  <1>0. RequestsOK /\ TablesOK
    BY DEF IInv, TypeOK
  <1>1. ASSUME UNCHANGED <<request, left>>
        PROVE  RequestsOK'
    BY <1>0, <1>1 DEF RequestsOK
  <1>2. ASSUME NEW op \in BudgetOps, Spend(op)
        PROVE  left' \in [BudgetOps -> Nat]
    BY <1>0, <1>2 DEF RequestsOK, Spend
  <1>3. BudgetOps = {"cancel", "restart", "lateAnswer", "orchCrash", "workerCrash",
                     "jobRejected", "walkerError", "loopError", "webCrash"}
    BY DEF BudgetOps
  <1>4. ASSUME NEW u \in Users, NEW pc \in RequestPCs, NEW r \in Runs, NEW c \in Nat,
               Then(u, Request(pc, r, c)), left' \in [BudgetOps -> Nat]
        PROVE  RequestsOK'
    BY <1>0, <1>4 DEF RequestsOK, Then, Request
  <1>5. ASSUME NEW u \in Users, Answered(u), left' \in [BudgetOps -> Nat]
        PROVE  RequestsOK'
    BY <1>0, <1>5 DEF RequestsOK, Answered, Then
  <1>6. RequestPCs = {"signalStart", "markCancelled", "deleteRow", "resetRow",
                      "approve", "signalResume", "reject", "markRejected"}
    BY DEF RequestPCs
  <1>7. left \in [BudgetOps -> Nat]
    BY <1>0 DEF RequestsOK
  <1>8. ASSUME NEW u \in Users, UserAsks(u)
        PROVE  RequestsOK'
    <2>1. ASSUME NEW r \in Runs, CreateRun(u, r)
          PROVE  RequestsOK'
      BY <1>4, <1>6, <1>7, <2>1 DEF CreateRun
    <2>2. ASSUME NEW r \in Runs, AskCancel(u, r) \/ AskDelete(u, r) \/ AskRestart(u, r)
          PROVE  RequestsOK'
      <3>1. left' \in [BudgetOps -> Nat]
        BY <1>2, <1>3, <2>2 DEF AskCancel, AskDelete, AskRestart
      <3> QED BY <1>4, <1>6, <2>2, <3>1 DEF AskCancel, AskDelete, AskRestart
    <2>3. ASSUME NEW c \in checkpoints, AskApprove(u, c) \/ AskReject(u, c)
          PROVE  RequestsOK'
      <3>1. c.run \in Runs /\ c.id \in Nat
        BY <1>0 DEF TablesOK, Checkpoints
      <3> QED BY <1>4, <1>6, <1>7, <2>3, <3>1 DEF AskApprove, AskReject
    <2> QED BY <1>8, <2>1, <2>2, <2>3 DEF UserAsks
  <1>9. ASSUME NEW u \in Users, Handler(u)
        PROVE  RequestsOK'
    <2>1. CASE SignalStart(u) \/ SignalResume(u) \/ MarkCancelled(u) \/ MarkRejected(u)
               \/ DeleteRow(u)
      BY <1>5, <1>7, <2>1 DEF SignalStart, SignalResume, MarkCancelled, MarkRejected,
                              DeleteRow
    <2>2. CASE ResetRow(u) \/ Approve(u) \/ Reject(u)
      <3>1. request[u].run \in Runs
        BY <1>0, <2>2, RequestTyped DEF ResetRow, Approve, Reject, InFlight
      <3> QED BY <1>4, <1>6, <1>7, <2>2, <3>1 DEF ResetRow, Approve, Reject
    <2> QED BY <1>9, <2>1, <2>2 DEF Handler
  <1>10. ASSUME MainLoop
         PROVE  RequestsOK'
    BY <1>1, <1>10 DEF MainLoop, Boot, RecoverRun, FetchActions, ClearAction, StartRun,
                       ResumeRun, DropAction, CancelRun
  <1>11. ASSUME NEW t \in Tasks, Walk(t)
         PROVE  RequestsOK'
    BY <1>1, <1>11 DEF Walk, Begin, Claim, Top, CreateStep, Publish, Register, FailExpired,
                       RecordRisk, Reread, RollBack, GiveUp, OpenCheckpoint, Park, Advance,
                       OpenMR, Complete, DoneCallback, Locally
  <1>12. ASSUME NEW t \in Tasks, Expire(t)
         PROVE  RequestsOK'
    <2>1. left' \in [BudgetOps -> Nat]
      BY <1>2, <1>3, <1>7, <1>12 DEF Expire
    <2> QED BY <1>0, <1>12, <2>1 DEF Expire, RequestsOK
  <1>13. ASSUME NEW w \in Workers, Work(w)
         PROVE  RequestsOK'
    BY <1>1, <1>13 DEF Work, TakeJob, FinishJob
  <1>14. CASE ConsumeResult
    BY <1>1, <1>14 DEF ConsumeResult
  <1>15. CASE Fault
    <2>1. ASSUME NEW u \in Users, WebCrash(u)
          PROVE  RequestsOK'
      BY <1>2, <1>3, <1>5, <2>1 DEF WebCrash
    <2>2. CASE \/ LoopError \/ OrchCrash
               \/ \E t \in Tasks : WalkerError(t)
               \/ \E w \in Workers : WorkerCrash(w) \/ RejectJob(w)
      <3>1. left' \in [BudgetOps -> Nat] /\ request' = request
        BY <1>2, <1>3, <2>2 DEF LoopError, OrchCrash, WalkerError, WorkerCrash, RejectJob
      <3> QED BY <1>0, <3>1 DEF RequestsOK
    <2> QED BY <1>15, <2>1, <2>2 DEF Fault
  <1>16. CASE UNCHANGED vars
    BY <1>1, <1>16 DEF vars
  <1> QED BY <1>8, <1>9, <1>10, <1>11, <1>12, <1>13, <1>14, <1>15, <1>16 DEF Next

-------------------------------------------------------------------------------
\* Before any row exists everything has its type.
LEMMA TypeInit == Init => TypeOK
  <1> SUFFICES ASSUME Init PROVE TypeOK
    OBVIOUS
  <1>1. RowsOK
    BY DEF Init, RowsOK, Statuses, RiskLevels
  <1>2. TablesOK
    BY DEF Init, TablesOK
  <1>3. LoopOK
    BY DEF Init, LoopOK, LoopAt
  <1>4. WalkersOK
    BY DEF Init, WalkersOK
  <1>5. BrokerOK
    BY EmptySeq DEF Init, BrokerOK
  <1>6. RequestsOK
    BY BudgetAssumption DEF Init, RequestsOK
  <1> QED BY <1>1, <1>2, <1>3, <1>4, <1>5, <1>6 DEF TypeOK

\* Every step keeps every type; the walker's steps need its frame to be sound,
\* for the stage it is at and for the risk level it stores.
LEMMA TypeStep ==
    ASSUME IInv, [Next]_vars
    PROVE  TypeOK'
  BY RowsStep, TablesStep, LoopStep, WalkersStep, BrokerStep, RequestsStep DEF TypeOK

-------------------------------------------------------------------------------
\* The rollback counter.

\* Only RollBack writes more than 0 into the counter, and it has compared the
\* copy it increments with MAX_ROLLBACKS.
LEMMA RollbackStep ==
    ASSUME IInv, [Next]_vars
    PROVE  RollbackBudget'
  <1> USE DEF row, db, orch, broker
  <1>0. RollbackBudget /\ TypeOK /\ TypeOK'
    BY TypeStep DEF IInv
  <1>1. ASSUME UNCHANGED rollbacks
        PROVE  RollbackBudget'
    BY <1>0, <1>1 DEF RollbackBudget
  <1>2. ASSUME NEW u \in Users, UserAsks(u)
        PROVE  RollbackBudget'
    BY <1>1, <1>2 DEF UserAsks, CreateRun, AskCancel, AskDelete, AskRestart, AskApprove,
                      AskReject
  <1>3. ASSUME NEW u \in Users, Handler(u)
        PROVE  RollbackBudget'
    <2>1. CASE DeleteRow(u) \/ ResetRow(u)
      BY <1>0, <2>1 DEF RollbackBudget, DeleteRow, ResetRow, Set, TypeOK, RowsOK, MAX_ROLLBACKS
    <2>2. CASE SignalStart(u) \/ MarkCancelled(u) \/ Approve(u) \/ SignalResume(u)
               \/ Reject(u) \/ MarkRejected(u)
      BY <1>1, <2>2 DEF SignalStart, MarkCancelled, Approve, SignalResume, Reject,
                        MarkRejected
    <2> QED BY <1>3, <2>1, <2>2 DEF Handler
  <1>4. ASSUME MainLoop
        PROVE  RollbackBudget'
    BY <1>1, <1>4 DEF MainLoop, Boot, RecoverRun, FetchActions, ClearAction, StartRun,
                      ResumeRun, DropAction, CancelRun
  <1>5. ASSUME NEW t \in Tasks, Walk(t)
        PROVE  RollbackBudget'
    <2>1. CASE RollBack(t)
      <3>1. walker[t].seen.rollbacks \in Nat
        BY <1>0, <2>1, FrameTyped DEF RollBack, At, Judging, TypeOK, Frames, Seens
      <3>2. walker[t].seen.rollbacks + 1 <= MAX_ROLLBACKS
        BY <2>1, <3>1 DEF RollBack, CanRollBack, MAX_ROLLBACKS
      <3> QED BY <1>0, <2>1, <3>2 DEF RollbackBudget, RollBack, Set, TypeOK, RowsOK
    <2>2. CASE \/ Begin(t) \/ Claim(t) \/ Top(t) \/ CreateStep(t) \/ Publish(t)
               \/ Register(t) \/ FailExpired(t) \/ RecordRisk(t) \/ Reread(t)
               \/ GiveUp(t) \/ OpenCheckpoint(t) \/ Park(t) \/ Advance(t)
               \/ OpenMR(t) \/ Complete(t) \/ DoneCallback(t)
      BY <1>1, <2>2 DEF Begin, Claim, Top, CreateStep, Publish, Register, FailExpired,
                        RecordRisk, Reread, GiveUp, OpenCheckpoint, Park, Advance, OpenMR,
                        Complete, DoneCallback, Locally
    <2> QED BY <1>5, <2>1, <2>2 DEF Walk
  <1>6. ASSUME NEW t \in Tasks, Expire(t)
        PROVE  RollbackBudget'
    BY <1>1, <1>6 DEF Expire
  <1>7. ASSUME NEW w \in Workers, Work(w)
        PROVE  RollbackBudget'
    BY <1>1, <1>7 DEF Work, TakeJob, FinishJob
  <1>8. CASE ConsumeResult
    BY <1>1, <1>8 DEF ConsumeResult
  <1>9. CASE Fault
    BY <1>1, <1>9 DEF Fault, LoopError, OrchCrash, WebCrash, WalkerError, WorkerCrash,
                      RejectJob
  <1>10. CASE UNCHANGED vars
    BY <1>1, <1>10 DEF vars
  <1> QED BY <1>2, <1>3, <1>4, <1>5, <1>6, <1>7, <1>8, <1>9, <1>10 DEF Next

-------------------------------------------------------------------------------
\* The dict of active runs.

\* The dict still holds the task of every walked run after a step: only the poll
\* loop and the done callback change it, and a walker that goes on keeps its run.
LEMMA ActiveStep ==
    ASSUME IInv, [Next]_vars
    PROVE  ActiveHoldsWalkers'
  <1> USE DEF row, db, orch, broker
  <1>0. ActiveHoldsWalkers /\ WalkersOK /\ LoopOK /\ WalkersOK'
    BY TypeStep DEF IInv, TypeOK
  <1>1. ASSUME \A t \in Tasks : Live(t)' => Live(t) /\ RunOf(t)' = RunOf(t),
               active' = active
        PROVE  ActiveHoldsWalkers'
    BY <1>0, <1>1 DEF ActiveHoldsWalkers
  <1>2. ASSUME UNCHANGED <<walker, active>>
        PROVE  ActiveHoldsWalkers'
    BY <1>1, <1>2 DEF Live, RunOf
  <1>3. ASSUME NEW t \in Tasks, NEW f, Live(t), f.run = RunOf(t),
               walker' = [walker EXCEPT ![t] = f], active' = active
        PROVE  ActiveHoldsWalkers'
    <2>1. ASSUME NEW s \in Tasks, Live(s)'
          PROVE  Live(s) /\ RunOf(s)' = RunOf(s)
      <3>1. CASE s = t
        BY <1>0, <1>3, <3>1 DEF WalkersOK, RunOf
      <3>2. CASE s # t
        BY <1>0, <1>3, <2>1, <3>2 DEF WalkersOK, RunOf, Live
      <3> QED BY <3>1, <3>2
    <2>2. \A s \in Tasks : Live(s)' => Live(s) /\ RunOf(s)' = RunOf(s)
      BY <2>1
    <2> QED BY <1>1, <1>3, <2>2
  <1>4. ASSUME NEW t \in Tasks, Live(t), NEW pc, Goto(t, pc), active' = active
        PROVE  ActiveHoldsWalkers'
    <2>1. walker[t] \in Frames
      BY <1>0, <1>4 DEF WalkersOK, Live
    <2>2. [walker[t] EXCEPT !.pc = pc].run = RunOf(t)
      BY <2>1 DEF Frames, RunOf
    <2>3. walker' = [walker EXCEPT ![t] = [walker[t] EXCEPT !.pc = pc]]
      BY <1>4 DEF Goto
    <2> QED BY <1>3, <1>4, <2>2, <2>3
  <1>5. ASSUME NEW t \in Tasks, Live(t), NEW pc, NEW i, Continue(t, pc, i), active' = active
        PROVE  ActiveHoldsWalkers'
    BY <1>3, <1>5 DEF Continue, Between, Frame
  <1>6. ASSUME NEW t \in Tasks, Live(t), Return(t), active' = active
        PROVE  ActiveHoldsWalkers'
    BY <1>5, <1>6 DEF Return
  <1>7. ASSUME NEW u \in Users, UserAsks(u) \/ Handler(u)
        PROVE  ActiveHoldsWalkers'
    BY <1>2, <1>7 DEF UserAsks, CreateRun, AskCancel, AskDelete, AskRestart, AskApprove,
                      AskReject, Handler, SignalStart, SignalResume, MarkCancelled,
                      MarkRejected, ResetRow, DeleteRow, Approve, Reject
  <1>8. ASSUME MainLoop
        PROVE  ActiveHoldsWalkers'
    <2>1. CASE StartRun \/ ResumeRun
      <3> DEFINE r == loop.cur.run
      <3>1. r \in Runs /\ active[r] = NoTask
        BY <1>0, <2>1 DEF LoopOK, StartRun, ResumeRun, Handling, Nothing, Todo, Todos, NoAction
      <3>2. PICK t \in Tasks : /\ walker[t] = FreeSlot
                               /\ walker' = [walker EXCEPT ![t] = Frame(r)]
                               /\ active' = [active EXCEPT ![r] = t]
        BY <2>1 DEF StartRun, ResumeRun, Spawn
      <3>3. \A s \in Tasks : Live(s) => RunOf(s) # r
        BY <1>0, <3>1, TasksAssumption DEF ActiveHoldsWalkers, NoTask
      <3> HIDE DEF r
      <3>4. ASSUME NEW s \in Tasks, Live(s)'
            PROVE  active'[RunOf(s)'] = s
        <4>1. CASE s = t
          BY <1>0, <3>1, <3>2, <4>1 DEF WalkersOK, LoopOK, RunOf, Frame
        <4>2. CASE s # t
          BY <1>0, <3>1, <3>2, <3>3, <3>4, <4>2
             DEF WalkersOK, LoopOK, RunOf, Live, ActiveHoldsWalkers
        <4> QED BY <4>1, <4>2
      <3> QED BY <3>4 DEF ActiveHoldsWalkers
    <2>2. CASE CancelRun
      <3> DEFINE r == loop.cur.run
      <3>1. /\ walker' = [t \in Tasks |-> IF t = active[r] THEN FreeSlot ELSE walker[t]]
            /\ active' = [active EXCEPT ![r] = NoTask]
        BY <2>2 DEF CancelRun
      <3> HIDE DEF r
      <3>2. ASSUME NEW s \in Tasks, Live(s)'
            PROVE  active'[RunOf(s)'] = s
        <4>1. s # active[r] /\ walker'[s] = walker[s] /\ Live(s)
          BY <3>1, <3>2 DEF Live
        <4>2. active[RunOf(s)] = s
          BY <1>0, <4>1 DEF ActiveHoldsWalkers
        <4> QED BY <1>0, <3>1, <4>1, <4>2 DEF LoopOK, RunOf
      <3> QED BY <3>2 DEF ActiveHoldsWalkers
    <2>3. CASE Boot \/ RecoverRun \/ FetchActions \/ ClearAction \/ DropAction
      BY <1>2, <2>3 DEF Boot, RecoverRun, FetchActions, ClearAction, DropAction
    <2> QED BY <1>8, <2>1, <2>2, <2>3 DEF MainLoop
  <1>9. ASSUME NEW t \in Tasks, Walk(t)
        PROVE  ActiveHoldsWalkers'
    <2>1. Live(t)
      BY <1>0, <1>9, FrameTyped
         DEF Walk, Begin, Claim, Top, CreateStep, Publish, Register, FailExpired,
             RecordRisk, Reread, RollBack, GiveUp, OpenCheckpoint, Park, Advance, OpenMR,
             Complete, DoneCallback, Judging, At
    <2>2. CASE Claim(t) \/ Register(t) \/ RecordRisk(t) \/ OpenMR(t)
      BY <1>4, <2>1, <2>2 DEF Claim, Register, RecordRisk, OpenMR, Locally
    <2>3. CASE FailExpired(t) \/ GiveUp(t) \/ Park(t) \/ Complete(t)
      BY <1>6, <2>1, <2>3 DEF FailExpired, GiveUp, Park, Complete
    <2>4. CASE Begin(t) \/ RollBack(t) \/ Advance(t)
      BY <1>5, <1>6, <2>1, <2>4 DEF Begin, RollBack, Advance, Locally
    <2>5. CASE CreateStep(t) \/ OpenCheckpoint(t)
      BY <1>4, <1>6, <2>1, <2>5 DEF CreateStep, OpenCheckpoint
    <2>6. CASE Top(t) \/ Reread(t) \/ Publish(t)
      <3>1. walker[t] \in Frames
        BY <1>0, <2>6, FrameTyped DEF Top, Reread, Publish, At
      <3>2. \A pc, x : /\ [walker[t] EXCEPT !.pc = pc, !.seen = x].run = RunOf(t)
                       /\ [walker[t] EXCEPT !.pc = pc, !.job = x].run = RunOf(t)
        BY <3>1 DEF Frames, RunOf
      <3>3. ASSUME NEW pc, NEW x, active' = active,
                   walker' = [walker EXCEPT ![t].pc = pc, ![t].seen = x]
            PROVE  ActiveHoldsWalkers'
        <4>1. walker' = [walker EXCEPT ![t] = [walker[t] EXCEPT !.pc = pc, !.seen = x]]
          BY <3>3
        <4> QED BY <1>3, <2>1, <3>2, <3>3, <4>1
      <3>4. ASSUME NEW pc, NEW x, active' = active,
                   walker' = [walker EXCEPT ![t].pc = pc, ![t].job = x]
            PROVE  ActiveHoldsWalkers'
        <4>1. walker' = [walker EXCEPT ![t] = [walker[t] EXCEPT !.pc = pc, !.job = x]]
          BY <3>4
        <4> QED BY <1>3, <2>1, <3>2, <3>4, <4>1
      <3>5. CASE Top(t) \/ Reread(t)
        BY <1>4, <1>6, <2>1, <3>3, <3>5 DEF Top, Reread, Locally
      <3>6. CASE Publish(t)
        BY <3>4, <3>6 DEF Publish
      <3> QED BY <2>6, <3>5, <3>6
    <2>7. CASE DoneCallback(t)
      <3>1. ASSUME NEW s \in Tasks, Live(s)'
            PROVE  active'[RunOf(s)'] = s
        <4>1. s # t /\ walker'[s] = walker[s] /\ Live(s)
          BY <1>0, <2>7, <3>1 DEF DoneCallback, Live, WalkersOK
        <4>2. active[RunOf(s)] = s /\ active[RunOf(t)] = t
          BY <1>0, <2>1, <4>1 DEF ActiveHoldsWalkers
        <4> QED BY <1>0, <2>7, <4>1, <4>2 DEF DoneCallback, LoopOK, RunOf
      <3> QED BY <3>1 DEF ActiveHoldsWalkers
    <2> QED BY <1>9, <2>2, <2>3, <2>4, <2>5, <2>6, <2>7 DEF Walk
  <1>10. ASSUME NEW t \in Tasks, Expire(t)
         PROVE  ActiveHoldsWalkers'
    BY <1>0, <1>4, <1>10, FrameTyped DEF Expire, At
  <1>11. ASSUME NEW w \in Workers, Work(w)
         PROVE  ActiveHoldsWalkers'
    BY <1>2, <1>11 DEF Work, TakeJob, FinishJob
  <1>12. CASE ConsumeResult
    <2>1. \A t \in Tasks : Live(t)' => Live(t) /\ RunOf(t)' = RunOf(t)
      <3> SUFFICES ASSUME NEW t \in Tasks, Live(t)'
                   PROVE  Live(t) /\ RunOf(t)' = RunOf(t)
        OBVIOUS
      <3>1. CASE At(t, "wait")
        <4>1. walker[t] \in Frames /\ Live(t)
          BY <1>0, <3>1, FrameTyped DEF At
        <4> QED BY <1>12, <4>1 DEF ConsumeResult, RunOf, Frames
      <3>2. CASE ~At(t, "wait")
        BY <1>12, <3>2 DEF ConsumeResult, Live, RunOf
      <3> QED BY <3>1, <3>2
    <2> QED BY <1>1, <1>12, <2>1 DEF ConsumeResult
  <1>13. CASE Fault
    <2>1. ASSUME NEW t \in Tasks, WalkerError(t)
          PROVE  ActiveHoldsWalkers'
      BY <1>0, <1>6, <2>1, FrameTyped DEF WalkerError
    <2>2. CASE OrchCrash
      BY <2>2 DEF OrchCrash, ActiveHoldsWalkers, Live
    <2>3. CASE \/ LoopError
               \/ \E u \in Users : WebCrash(u)
               \/ \E w \in Workers : WorkerCrash(w) \/ RejectJob(w)
      BY <1>2, <2>3 DEF LoopError, WebCrash, WorkerCrash, RejectJob
    <2> QED BY <1>13, <2>1, <2>2, <2>3 DEF Fault
  <1>14. CASE UNCHANGED vars
    BY <1>2, <1>14 DEF vars
  <1> QED BY <1>7, <1>8, <1>9, <1>10, <1>11, <1>12, <1>13, <1>14 DEF Next

-------------------------------------------------------------------------------
\* The frames of the walkers.

\* The frames a step leaves behind, by how it makes them.
LEMMA SoundFrames ==
    /\ SoundFrame(FreeSlot)
    /\ \A r, i : \A pc \in WalkerPCs \ OnStage : SoundFrame(Between(pc, r, i))
    /\ \A f \in Frames : \A pc \in WalkerPCs \ OnStage : SoundFrame([f EXCEPT !.pc = pc])
    /\ \A f \in Frames : \A pc \in Engaged \ Answering :
            SoundFrame(f) /\ f.pc \in Engaged => SoundFrame([f EXCEPT !.pc = pc])
    /\ \A f \in Frames : \A pc \in Answering :
            SoundFrame(f) /\ f.pc \in Answering => SoundFrame([f EXCEPT !.pc = pc])
  <1> USE DEF SoundFrame, OnStage, Engaged, Answering
  <1>1. SoundFrame(FreeSlot)
    BY DEF FreeSlot, Frame
  <1>2. \A r, i : \A pc \in WalkerPCs \ OnStage : SoundFrame(Between(pc, r, i))
    BY DEF Between, Frame
  <1>3. \A f \in Frames : \A pc \in WalkerPCs : LET g == [f EXCEPT !.pc = pc] IN
            g.pc = pc /\ g.run = f.run /\ g.idx = f.idx /\ g.job = f.job
            /\ g.answer = f.answer
    BY DEF Frames
  <1> QED BY <1>1, <1>2, <1>3 DEF WalkerPCs

\* The heads of the queues are known.
LEMMA HeadKnown ==
    ASSUME IInv, resultQueue # <<>>
    PROVE  /\ Head(resultQueue) \in Results
           /\ Head(resultQueue).job \in KnownJobs
           /\ Head(resultQueue).outcome \in Outcomes(Head(resultQueue).job)
  <1>1. resultQueue \in Seq(Results)
    BY DEF IInv, TypeOK, BrokerOK
  <1>2. 1 \in DOMAIN resultQueue /\ Head(resultQueue) = resultQueue[1]
    BY <1>1, LenProperties, EmptySeq
  <1> QED BY <1>1, <1>2, HeadTailProperties DEF KnownJobs, IInv, ResultsFit

\* A walker's job and answer are those of the stage it is at, after every step:
\* a result reaches a frame by the id of its job, which names the job.
LEMMA FramesStep ==
    ASSUME IInv, [Next]_vars
    PROVE  FramesSound'
  <1> USE DEF row, db, orch, broker
  <1>0. FramesSound /\ WalkersOK /\ BrokerOK
    BY DEF IInv, TypeOK
  <1>1. ASSUME UNCHANGED walker
        PROVE  FramesSound'
    BY <1>0, <1>1 DEF FramesSound, SoundFrame, Last, WT
  <1>2. ASSUME NEW t \in Tasks, NEW f, SoundFrame(f), walker' = [walker EXCEPT ![t] = f]
        PROVE  FramesSound'
    BY <1>0, <1>2 DEF FramesSound, WalkersOK
  <1>3. ASSUME NEW t \in Tasks, NEW pc, SoundFrame([walker[t] EXCEPT !.pc = pc]), Goto(t, pc)
        PROVE  FramesSound'
    <2>1. walker' = [walker EXCEPT ![t] = [walker[t] EXCEPT !.pc = pc]]
      BY <1>3 DEF Goto
    <2> QED BY <1>2, <1>3, <2>1
  <1>4. /\ {"start", "claim", "top", "merge", "complete", "done"} \subseteq WalkerPCs \ OnStage
        /\ {"register", "wait", "expired"} \subseteq Engaged \ Answering
    BY DEF WalkerPCs, OnStage, Engaged, Answering
  <1>5. ASSUME NEW t \in Tasks, NEW pc \in WalkerPCs \ OnStage, NEW i, Continue(t, pc, i)
        PROVE  FramesSound'
    BY <1>2, <1>5, SoundFrames DEF Continue
  <1>6. ASSUME NEW t \in Tasks, Return(t)
        PROVE  FramesSound'
    BY <1>4, <1>5, <1>6 DEF Return
  <1>7. ASSUME NEW u \in Users, UserAsks(u) \/ Handler(u)
        PROVE  FramesSound'
    BY <1>1, <1>7 DEF UserAsks, CreateRun, AskCancel, AskDelete, AskRestart, AskApprove,
                      AskReject, Handler, SignalStart, SignalResume, MarkCancelled,
                      MarkRejected, ResetRow, DeleteRow, Approve, Reject
  <1>8. ASSUME MainLoop
        PROVE  FramesSound'
    <2>1. CASE StartRun \/ ResumeRun
      <3>1. PICK t \in Tasks : walker' = [walker EXCEPT ![t] = Frame(loop.cur.run)]
        BY <2>1 DEF StartRun, ResumeRun, Spawn
      <3>2. SoundFrame(Frame(loop.cur.run))
        BY DEF SoundFrame, Frame, OnStage, Engaged, Answering
      <3> QED BY <1>2, <3>1, <3>2
    <2>2. CASE CancelRun
      BY <1>0, <2>2, SoundFrames DEF CancelRun, FramesSound
    <2>3. CASE Boot \/ RecoverRun \/ FetchActions \/ ClearAction \/ DropAction
      BY <1>1, <2>3 DEF Boot, RecoverRun, FetchActions, ClearAction, DropAction
    <2> QED BY <1>8, <2>1, <2>2, <2>3 DEF MainLoop
  <1>9. ASSUME NEW t \in Tasks, Walk(t)
        PROVE  FramesSound'
    <2>1. SoundFrame(walker[t])
      BY <1>0 DEF FramesSound
    <2>2. walker[t] \in Frames
      BY <1>0, <1>9, FrameTyped
         DEF Walk, Begin, Claim, Top, CreateStep, Publish, Register, FailExpired,
             RecordRisk, Reread, RollBack, GiveUp, OpenCheckpoint, Park, Advance, OpenMR,
             Complete, DoneCallback, Judging, At
    <2>3. CASE Begin(t) \/ RollBack(t) \/ Advance(t)
      BY <1>4, <1>5, <1>6, <2>3 DEF Begin, RollBack, Advance
    <2>4. CASE Claim(t) \/ OpenMR(t)
      BY <1>3, <1>4, <2>2, <2>4, SoundFrames DEF Claim, OpenMR
    <2>5. CASE FailExpired(t) \/ GiveUp(t) \/ Park(t) \/ Complete(t)
      BY <1>6, <2>5 DEF FailExpired, GiveUp, Park, Complete
    <2>6. CASE Top(t)
      <3>1. CASE walker[t].idx > Last(RunOf(t))
        BY <1>3, <1>4, <2>2, <2>6, <3>1, SoundFrames DEF Top
      <3>2. CASE walker[t].idx <= Last(RunOf(t))
                 /\ walker' = [walker EXCEPT ![t].pc = "step", ![t].seen = Seen(RunOf(t))]
        <4> DEFINE f == [walker[t] EXCEPT !.pc = "step", !.seen = Seen(RunOf(t))]
        <4>1. f.pc = "step" /\ f.idx = walker[t].idx /\ f.run = walker[t].run
          BY <2>2 DEF Frames
        <4>2. walker' = [walker EXCEPT ![t] = f]
          BY <3>2
        <4> HIDE DEF f
        <4>3. SoundFrame(f)
          BY <3>2, <4>1 DEF SoundFrame, Engaged, Answering, RunOf
        <4> QED BY <1>2, <4>2, <4>3
      <3>3. CASE Return(t)
        BY <1>6, <3>3
      <3>4. walker[t].idx \in Nat /\ Last(RunOf(t)) \in Int
        BY <1>0, <2>6, FrameTyped, RouteLength DEF Top, At, Last
      <3> QED BY <2>6, <3>1, <3>2, <3>3, <3>4 DEF Top
    <2>7. CASE CreateStep(t)
      <3>1. [walker[t] EXCEPT !.pc = "publish"].pc = "publish"
            /\ [walker[t] EXCEPT !.pc = "publish"].idx = walker[t].idx
            /\ [walker[t] EXCEPT !.pc = "publish"].run = walker[t].run
        BY <2>2 DEF Frames
      <3>2. walker[t].idx <= Last(walker[t].run)
        BY <2>1, <2>7 DEF CreateStep, At, SoundFrame, OnStage
      <3>3. SoundFrame([walker[t] EXCEPT !.pc = "publish"])
        BY <3>1, <3>2 DEF SoundFrame, Engaged, Answering
      <3> QED BY <1>3, <1>6, <2>7, <3>3 DEF CreateStep
    <2>8. CASE Publish(t)
      <3> DEFINE j == Job(nextJob, RunOf(t), walker[t].idx)
                 f == [walker[t] EXCEPT !.pc = "register", !.job = j]
      <3>1. j # NoJob /\ j.run = walker[t].run /\ j.idx = walker[t].idx
        BY <1>0 DEF Job, NoJob, BrokerOK, RunOf
      <3>2. walker' = [walker EXCEPT ![t] = f]
        BY <2>8 DEF Publish
      <3> HIDE DEF j
      <3>3. /\ f.pc = "register" /\ f.idx = walker[t].idx /\ f.run = walker[t].run
            /\ f.job = j
        BY <2>2 DEF Frames
      <3> HIDE DEF f
      <3>4. walker[t].idx <= Last(walker[t].run)
        BY <2>1, <2>8 DEF Publish, At, SoundFrame, OnStage
      <3>5. SoundFrame(f)
        BY <3>1, <3>3, <3>4 DEF SoundFrame, Answering
      <3> QED BY <1>2, <3>2, <3>5
    <2>9. CASE Register(t)
      BY <1>3, <1>4, <2>1, <2>2, <2>9, SoundFrames DEF Register, At
    <2>10. CASE RecordRisk(t)
      BY <1>3, <2>1, <2>2, <2>10, SoundFrames DEF RecordRisk, At, Answering
    <2>11. CASE Reread(t)
      <3>1. CASE walker' = [walker EXCEPT ![t].pc = "judge", ![t].seen = Seen(RunOf(t))]
        <4> DEFINE f == [walker[t] EXCEPT !.pc = "judge", !.seen = Seen(RunOf(t))]
        <4>1. /\ f.pc = "judge" /\ f.idx = walker[t].idx /\ f.run = walker[t].run
              /\ f.job = walker[t].job /\ f.answer = walker[t].answer
          BY <2>2 DEF Frames
        <4>2. walker' = [walker EXCEPT ![t] = f]
          BY <3>1
        <4> HIDE DEF f
        <4>3. SoundFrame(f)
          BY <2>1, <2>11, <4>1 DEF SoundFrame, OnStage, Engaged, Answering, Reread, At
        <4> QED BY <1>2, <4>2, <4>3
      <3> QED BY <1>6, <2>11, <3>1 DEF Reread
    <2>12. CASE OpenCheckpoint(t)
      <3>1. SoundFrame([walker[t] EXCEPT !.pc = "park"])
        BY <2>1, <2>2, <2>12, SoundFrames DEF OpenCheckpoint, Judging, At, Answering
      <3> QED BY <1>3, <1>6, <2>12, <3>1 DEF OpenCheckpoint
    <2>13. CASE DoneCallback(t)
      BY <1>2, <2>13, SoundFrames DEF DoneCallback
    <2> QED BY <1>9, <2>3, <2>4, <2>5, <2>6, <2>7, <2>8, <2>9, <2>10, <2>11, <2>12, <2>13
            DEF Walk
  <1>10. ASSUME NEW t \in Tasks, Expire(t)
         PROVE  FramesSound'
    <2>1. walker[t] \in Frames /\ SoundFrame(walker[t]) /\ walker[t].pc = "wait"
      BY <1>0, <1>10, FrameTyped DEF Expire, At, FramesSound
    <2> QED BY <1>3, <1>4, <1>10, <2>1, SoundFrames DEF Expire
  <1>11. ASSUME NEW w \in Workers, Work(w)
         PROVE  FramesSound'
    BY <1>1, <1>11 DEF Work, TakeJob, FinishJob
  <1>12. CASE ConsumeResult
    <2> DEFINE m == Head(resultQueue)
    <2>1. m \in Results /\ m.job \in KnownJobs /\ m.outcome \in Outcomes(m.job)
      BY <1>12, HeadKnown DEF ConsumeResult
    <2>2. walker' = [t \in Tasks |->
                        IF At(t, "wait") /\ walker[t].job.id = m.job.id
                        THEN [walker[t] EXCEPT !.pc = "answered", !.answer = m]
                        ELSE walker[t]]
      BY <1>12 DEF ConsumeResult
    <2> HIDE DEF m
    <2>3. ASSUME NEW t \in Tasks, At(t, "wait"), walker[t].job.id = m.job.id
          PROVE  SoundFrame([walker[t] EXCEPT !.pc = "answered", !.answer = m])
      <3> DEFINE f == [walker[t] EXCEPT !.pc = "answered", !.answer = m]
      <3>1. walker[t] \in Frames /\ SoundFrame(walker[t]) /\ walker[t].pc = "wait"
        BY <1>0, <2>3, FrameTyped DEF At, FramesSound
      <3>2. /\ f.pc = "answered" /\ f.idx = walker[t].idx /\ f.run = walker[t].run
            /\ f.job = walker[t].job /\ f.answer = m
        BY <3>1 DEF Frames
      <3>3. walker[t].job = m.job
        BY <2>1, <2>3 DEF IInv, JobsIdentified, KnownJobs
      <3> HIDE DEF f
      <3>4. SoundFrame(f)
        BY <2>1, <3>1, <3>2, <3>3 DEF SoundFrame, OnStage, Engaged, Answering
      <3> QED BY <3>4 DEF f
    <2> QED BY <1>0, <2>2, <2>3 DEF FramesSound
  <1>13. CASE Fault
    <2>1. ASSUME NEW t \in Tasks, WalkerError(t)
          PROVE  FramesSound'
      BY <1>6, <2>1 DEF WalkerError
    <2>2. CASE OrchCrash
      BY <2>2, SoundFrames DEF OrchCrash, FramesSound
    <2>3. CASE \/ LoopError
               \/ \E u \in Users : WebCrash(u)
               \/ \E w \in Workers : WorkerCrash(w) \/ RejectJob(w)
      BY <1>1, <2>3 DEF LoopError, WebCrash, WorkerCrash, RejectJob
    <2> QED BY <1>13, <2>1, <2>2, <2>3 DEF Fault
  <1>14. CASE UNCHANGED vars
    BY <1>1, <1>14 DEF vars
  <1> QED BY <1>7, <1>8, <1>9, <1>10, <1>11, <1>12, <1>13, <1>14 DEF Next

-------------------------------------------------------------------------------
\* The queues.

\* What a queue holds after it was appended to, taken from or pushed back to.
LEMMA QueueElements ==
    ASSUME NEW S, NEW q \in Seq(S)
    PROVE  /\ \A x \in S : \A k \in DOMAIN Append(q, x) :
                    Append(q, x)[k] = x \/ \E i \in DOMAIN q : Append(q, x)[k] = q[i]
           /\ \A x \in S : \A k \in DOMAIN (<<x>> \o q) :
                    (<<x>> \o q)[k] = x \/ \E i \in DOMAIN q : (<<x>> \o q)[k] = q[i]
           /\ q # <<>> => /\ \E i \in DOMAIN q : Head(q) = q[i]
                          /\ \A k \in DOMAIN Tail(q) : \E i \in DOMAIN q : Tail(q)[k] = q[i]
  <1>1. ASSUME NEW x \in S, NEW k \in DOMAIN Append(q, x)
        PROVE  Append(q, x)[k] = x \/ \E i \in DOMAIN q : Append(q, x)[k] = q[i]
    BY <1>1
  <1>2. ASSUME NEW x \in S, NEW k \in DOMAIN (<<x>> \o q)
        PROVE  (<<x>> \o q)[k] = x \/ \E i \in DOMAIN q : (<<x>> \o q)[k] = q[i]
    BY <1>2
  <1>3. ASSUME q # <<>>
        PROVE  /\ \E i \in DOMAIN q : Head(q) = q[i]
               /\ \A k \in DOMAIN Tail(q) : \E i \in DOMAIN q : Tail(q)[k] = q[i]
    BY <1>3, HeadTailProperties
  <1> QED BY <1>1, <1>2, <1>3

\* Only workers put results in the queue, and only such as their job can have.
LEMMA ResultsStep ==
    ASSUME IInv, [Next]_vars
    PROVE  ResultsFit'
  <1> USE DEF row, db, orch, broker
  <1>0. ResultsFit /\ BrokerOK
    BY DEF IInv, TypeOK
  <1>1. \A j : Outcomes(j)' = Outcomes(j)
    BY DEF Outcomes, WT
  <1>2. ASSUME UNCHANGED resultQueue
        PROVE  ResultsFit'
    BY <1>0, <1>1, <1>2 DEF ResultsFit
  <1>3. ASSUME NEW w \in Workers, busy[w] # NoJob, NEW o \in Outcomes(busy[w]),
               resultQueue' = Append(resultQueue, Result(busy[w], o))
        PROVE  ResultsFit'
    <2>1. Result(busy[w], o) \in Results
      BY <1>0, <1>3, ResultTyped DEF BrokerOK
    <2>2. Result(busy[w], o).outcome \in Outcomes(Result(busy[w], o).job)
      BY DEF Result
    <2>3. ASSUME NEW k \in DOMAIN resultQueue'
          PROVE  \/ resultQueue'[k] = Result(busy[w], o)
                 \/ \E i \in DOMAIN resultQueue : resultQueue'[k] = resultQueue[i]
      BY <1>0, <1>3, <2>1, <2>3, QueueElements DEF BrokerOK
    <2> QED BY <1>0, <1>1, <2>2, <2>3 DEF ResultsFit
  <1>4. ASSUME resultQueue # <<>>, resultQueue' = Tail(resultQueue)
        PROVE  ResultsFit'
    <2>1. \A k \in DOMAIN resultQueue' :
                \E i \in DOMAIN resultQueue : resultQueue'[k] = resultQueue[i]
      BY <1>0, <1>4, QueueElements DEF BrokerOK
    <2> QED BY <1>0, <1>1, <2>1 DEF ResultsFit
  <1>5. ASSUME NEW u \in Users, UserAsks(u) \/ Handler(u)
        PROVE  ResultsFit'
    BY <1>2, <1>5 DEF UserAsks, CreateRun, AskCancel, AskDelete, AskRestart, AskApprove,
                      AskReject, Handler, SignalStart, SignalResume, MarkCancelled,
                      MarkRejected, ResetRow, DeleteRow, Approve, Reject
  <1>6. ASSUME MainLoop
        PROVE  ResultsFit'
    BY <1>2, <1>6 DEF MainLoop, Boot, RecoverRun, FetchActions, ClearAction, StartRun,
                      ResumeRun, DropAction, CancelRun
  <1>7. ASSUME NEW t \in Tasks, Walk(t) \/ Expire(t)
        PROVE  ResultsFit'
    BY <1>2, <1>7 DEF Walk, Begin, Claim, Top, CreateStep, Publish, Register, FailExpired,
                      RecordRisk, Reread, RollBack, GiveUp, OpenCheckpoint, Park, Advance,
                      OpenMR, Complete, DoneCallback, Locally, Expire
  <1>8. ASSUME NEW w \in Workers, Work(w)
        PROVE  ResultsFit'
    BY <1>2, <1>3, <1>8 DEF Work, TakeJob, FinishJob
  <1>9. CASE ConsumeResult
    BY <1>4, <1>9 DEF ConsumeResult
  <1>10. CASE Fault
    BY <1>2, <1>3, <1>10 DEF Fault, LoopError, OrchCrash, WebCrash, WalkerError,
                             WorkerCrash, RejectJob
  <1>11. CASE UNCHANGED vars
    BY <1>2, <1>11 DEF vars
  <1> QED BY <1>5, <1>6, <1>7, <1>8, <1>9, <1>10, <1>11 DEF Next

-------------------------------------------------------------------------------
\* The ids of the jobs.

\* Every job that is known has its type.
LEMMA KnownTyped == ASSUME TypeOK PROVE KnownJobs \subseteq Jobs \cup {NoJob}
  <1>1. \A k \in DOMAIN jobQueue : jobQueue[k] \in Jobs
    BY DEF TypeOK, BrokerOK
  <1>2. \A k \in DOMAIN resultQueue : resultQueue[k].job \in Jobs
    <2>1. \A k \in DOMAIN resultQueue : resultQueue[k] \in Results
      BY DEF TypeOK, BrokerOK
    <2> QED BY <2>1 DEF Results
  <1>3. \A w \in Workers : busy[w] \in Jobs \cup {NoJob}
    BY DEF TypeOK, BrokerOK
  <1>4. \A t \in Tasks : walker[t].job \in Jobs \cup {NoJob}
    BY DEF TypeOK, WalkersOK, Frames, FreeSlot, Frame
  <1> QED BY <1>1, <1>2, <1>3, <1>4 DEF KnownJobs

\* Copies of jobs are made by redelivery and by answers; a new id is given once.
LEMMA JobsStep ==
    ASSUME IInv, [Next]_vars
    PROVE  JobsIdentified'
  <1> USE DEF row, db, orch, broker
  <1>0. /\ JobsIdentified /\ WalkersOK /\ BrokerOK
        /\ KnownJobs \subseteq Jobs \cup {NoJob}
    BY KnownTyped DEF IInv, TypeOK
  <1>1. ASSUME UNCHANGED nextJob, KnownJobs' \subseteq KnownJobs \cup {NoJob}
        PROVE  JobsIdentified'
    <2>1. NoJob.id = 0 /\ (\A j \in Jobs : j.id > 0) /\ nextJob > 0
      BY <1>0 DEF NoJob, Job, Jobs, BrokerOK
    <2> QED BY <1>0, <1>1, <2>1 DEF JobsIdentified
  <1>2. ASSUME UNCHANGED nextJob,
               \A k \in DOMAIN jobQueue' : jobQueue'[k] \in KnownJobs,
               \A k \in DOMAIN resultQueue' : resultQueue'[k].job \in KnownJobs,
               \A w \in Workers : busy'[w] \in KnownJobs \cup {NoJob},
               \A t \in Tasks : walker'[t].job \in KnownJobs \cup {NoJob}
        PROVE  JobsIdentified'
    BY <1>1, <1>2 DEF KnownJobs
  <1>3. /\ \A k \in DOMAIN jobQueue : jobQueue[k] \in KnownJobs
        /\ \A k \in DOMAIN resultQueue : resultQueue[k].job \in KnownJobs
        /\ \A w \in Workers : busy[w] \in KnownJobs
        /\ \A t \in Tasks : walker[t].job \in KnownJobs
    BY DEF KnownJobs
  <1>4. ASSUME UNCHANGED <<broker, busy>>,
               \A t \in Tasks : walker'[t].job \in {walker[t].job, NoJob}
        PROVE  JobsIdentified'
    BY <1>2, <1>3, <1>4
  <1>5. ASSUME UNCHANGED <<broker, busy, walker>>
        PROVE  JobsIdentified'
    BY <1>4, <1>5
  <1>6. ASSUME UNCHANGED <<broker, busy>>, NEW t \in Tasks, NEW f,
               f.job = walker[t].job \/ f.job = NoJob, walker' = [walker EXCEPT ![t] = f]
        PROVE  JobsIdentified'
    BY <1>0, <1>4, <1>6 DEF WalkersOK
  <1>7. ASSUME UNCHANGED <<broker, busy>>, NEW t \in Tasks, NEW pc, NEW i, Continue(t, pc, i)
        PROVE  JobsIdentified'
    BY <1>6, <1>7 DEF Continue, Between, Frame
  <1>8. ASSUME UNCHANGED <<broker, busy>>, NEW t \in Tasks, Return(t)
        PROVE  JobsIdentified'
    BY <1>7, <1>8 DEF Return
  <1>9. ASSUME UNCHANGED <<broker, busy>>, NEW t \in Tasks, walker[t] \in Frames, NEW pc,
               Goto(t, pc)
        PROVE  JobsIdentified'
    <2>1. walker' = [walker EXCEPT ![t] = [walker[t] EXCEPT !.pc = pc]]
      BY <1>9 DEF Goto
    <2>2. [walker[t] EXCEPT !.pc = pc].job = walker[t].job
      BY <1>9 DEF Frames
    <2> QED BY <1>6, <1>9, <2>1, <2>2
  <1>10. ASSUME NEW u \in Users, UserAsks(u) \/ Handler(u)
         PROVE  JobsIdentified'
    BY <1>5, <1>10 DEF UserAsks, CreateRun, AskCancel, AskDelete, AskRestart, AskApprove,
                       AskReject, Handler, SignalStart, SignalResume, MarkCancelled,
                       MarkRejected, ResetRow, DeleteRow, Approve, Reject
  <1>11. ASSUME MainLoop
         PROVE  JobsIdentified'
    <2>1. CASE StartRun \/ ResumeRun
      <3>1. PICK t \in Tasks : walker' = [walker EXCEPT ![t] = Frame(loop.cur.run)]
        BY <2>1 DEF StartRun, ResumeRun, Spawn
      <3>2. Frame(loop.cur.run).job = NoJob
        BY DEF Frame
      <3> QED BY <1>6, <2>1, <3>1, <3>2 DEF StartRun, ResumeRun
    <2>2. CASE CancelRun
      BY <1>4, <2>2 DEF CancelRun, FreeSlot, Frame
    <2>3. CASE Boot \/ RecoverRun \/ FetchActions \/ ClearAction \/ DropAction
      BY <1>5, <2>3 DEF Boot, RecoverRun, FetchActions, ClearAction, DropAction
    <2> QED BY <1>11, <2>1, <2>2, <2>3 DEF MainLoop
  <1>12. ASSUME NEW t \in Tasks, Walk(t) \/ Expire(t)
         PROVE  JobsIdentified'
    <2>1. walker[t] \in Frames
      BY <1>0, <1>12, FrameTyped
         DEF Walk, Begin, Claim, Top, CreateStep, Publish, Register, FailExpired,
             RecordRisk, Reread, RollBack, GiveUp, OpenCheckpoint, Park, Advance, OpenMR,
             Complete, DoneCallback, Judging, At, Expire
    <2>2. CASE Publish(t)
      <3> DEFINE j == Job(nextJob, RunOf(t), walker[t].idx)
      <3>1. j.id = nextJob
        BY DEF Job
      <3>2. /\ jobQueue' = Append(jobQueue, j) /\ nextJob' = nextJob + 1
            /\ walker' = [walker EXCEPT ![t].pc = "register", ![t].job = j]
            /\ UNCHANGED <<resultQueue, busy>>
        BY <2>2 DEF Publish
      <3>3. j \in Jobs
        BY <1>0, <2>1, <2>2, FrameTyped, OnRouteTyped
           DEF Publish, At, OnStage, BrokerOK, Job, Jobs
      <3> HIDE DEF j
      <3>4. \A k \in DOMAIN jobQueue' :
                jobQueue'[k] = j \/ \E i \in DOMAIN jobQueue : jobQueue'[k] = jobQueue[i]
        BY <1>0, <3>2, <3>3, QueueElements DEF BrokerOK
      <3>5. \A s \in Tasks : walker'[s].job \in {walker[s].job, j}
        BY <1>0, <3>2 DEF WalkersOK, Frames
      <3>6. KnownJobs' \subseteq KnownJobs \cup {j}
        <4>1. \A k \in DOMAIN jobQueue' : jobQueue'[k] \in KnownJobs \cup {j}
          BY <1>3, <3>4
        <4>2. \A s \in Tasks : walker'[s].job \in KnownJobs \cup {j}
          BY <1>3, <3>5
        <4>3. /\ \A k \in DOMAIN resultQueue' : resultQueue'[k].job \in KnownJobs
              /\ \A w \in Workers : busy'[w] \in KnownJobs
          BY <1>3, <3>2
        <4> QED BY <4>1, <4>2, <4>3 DEF KnownJobs
      <3>7. nextJob \in Nat /\ \A k \in KnownJobs : k.id \in Nat /\ k.id < nextJob
        BY <1>0 DEF JobsIdentified, BrokerOK, Jobs, NoJob, Job
      <3> QED BY <1>0, <3>1, <3>2, <3>6, <3>7 DEF JobsIdentified
    <2>3. CASE Top(t) \/ Reread(t)
      <3>1. ASSUME NEW pc, UNCHANGED <<broker, busy>>,
                   walker' = [walker EXCEPT ![t].pc = pc, ![t].seen = Seen(RunOf(t))]
            PROVE  JobsIdentified'
        <4>1. walker' = [walker EXCEPT ![t] =
                                [walker[t] EXCEPT !.pc = pc, !.seen = Seen(RunOf(t))]]
          BY <3>1
        <4>2. [walker[t] EXCEPT !.pc = pc, !.seen = Seen(RunOf(t))].job = walker[t].job
          BY <2>1 DEF Frames
        <4> QED BY <1>6, <3>1, <4>1, <4>2
      <3> QED BY <1>8, <1>9, <2>1, <2>3, <3>1 DEF Top, Reread, Locally
    <2>4. CASE Begin(t) \/ RollBack(t) \/ Advance(t)
      BY <1>7, <1>8, <2>4 DEF Begin, RollBack, Advance, Locally
    <2>5. CASE Claim(t) \/ Register(t) \/ RecordRisk(t) \/ OpenMR(t) \/ Expire(t)
      BY <1>9, <2>1, <2>5 DEF Claim, Register, RecordRisk, OpenMR, Expire, Locally
    <2>6. CASE FailExpired(t) \/ GiveUp(t) \/ Park(t) \/ Complete(t)
      BY <1>8, <2>6 DEF FailExpired, GiveUp, Park, Complete
    <2>7. CASE CreateStep(t) \/ OpenCheckpoint(t)
      BY <1>8, <1>9, <2>1, <2>7 DEF CreateStep, OpenCheckpoint
    <2>8. CASE DoneCallback(t)
      <3>1. FreeSlot.job = NoJob
        BY DEF FreeSlot, Frame
      <3> QED BY <1>6, <2>8, <3>1 DEF DoneCallback
    <2> QED BY <1>12, <2>2, <2>3, <2>4, <2>5, <2>6, <2>7, <2>8 DEF Walk
  <1>13. ASSUME NEW w \in Workers, TakeJob(w)
         PROVE  JobsIdentified'
    <2>1. /\ Head(jobQueue) \in KnownJobs
          /\ \A k \in DOMAIN jobQueue' : jobQueue'[k] \in KnownJobs
      BY <1>0, <1>3, <1>13, QueueElements DEF BrokerOK, TakeJob
    <2> QED BY <1>0, <1>2, <1>3, <1>13, <2>1 DEF BrokerOK, TakeJob
  <1>14. ASSUME NEW w \in Workers, busy[w] # NoJob, NEW o \in Outcomes(busy[w]),
                resultQueue' = Append(resultQueue, Result(busy[w], o))
         PROVE  \A k \in DOMAIN resultQueue' : resultQueue'[k].job \in KnownJobs
    <2>1. Result(busy[w], o) \in Results /\ Result(busy[w], o).job = busy[w]
      BY <1>0, <1>14, ResultTyped DEF BrokerOK, Result
    <2>2. \A k \in DOMAIN resultQueue' :
              \/ resultQueue'[k] = Result(busy[w], o)
              \/ \E i \in DOMAIN resultQueue : resultQueue'[k] = resultQueue[i]
      BY <1>0, <1>14, <2>1, QueueElements DEF BrokerOK
    <2> QED BY <1>3, <2>1, <2>2
  <1>15. ASSUME NEW w \in Workers, FinishJob(w)
         PROVE  JobsIdentified'
    <2>1. \A k \in DOMAIN resultQueue' : resultQueue'[k].job \in KnownJobs
      BY <1>14, <1>15 DEF FinishJob
    <2> QED BY <1>0, <1>2, <1>3, <1>15, <2>1 DEF BrokerOK, FinishJob
  <1>16. CASE ConsumeResult
    <2>1. \A k \in DOMAIN resultQueue' : resultQueue'[k].job \in KnownJobs
      <3>1. \A k \in DOMAIN resultQueue' :
                \E i \in DOMAIN resultQueue : resultQueue'[k] = resultQueue[i]
        <4>1. resultQueue # <<>> /\ resultQueue' = Tail(resultQueue)
          BY <1>16 DEF ConsumeResult
        <4>2. resultQueue \in Seq(Results)
          BY <1>0 DEF BrokerOK
        <4> QED BY <4>1, <4>2, QueueElements
      <3> QED BY <1>3, <3>1
    <2>2. ASSUME NEW t \in Tasks
          PROVE  walker'[t].job = walker[t].job
      <3>1. CASE At(t, "wait")
        <4>1. walker[t] \in Frames
          BY <1>0, <3>1, FrameTyped DEF At
        <4> QED BY <1>16, <4>1 DEF ConsumeResult, Frames
      <3>2. CASE ~At(t, "wait")
        BY <1>16, <3>2 DEF ConsumeResult
      <3> QED BY <3>1, <3>2
    <2> QED BY <1>2, <1>3, <1>16, <2>1, <2>2 DEF ConsumeResult
  <1>17. CASE Fault
    <2>1. ASSUME NEW w \in Workers, WorkerCrash(w)
          PROVE  JobsIdentified'
      <3>1. \A k \in DOMAIN resultQueue' : resultQueue'[k].job \in KnownJobs
        BY <1>3, <1>14, <2>1 DEF WorkerCrash
      <3>2. busy[w] \in Jobs /\ jobQueue' = <<busy[w]>> \o jobQueue
        BY <1>0, <2>1 DEF WorkerCrash, BrokerOK
      <3>3. \A k \in DOMAIN jobQueue' : jobQueue'[k] \in KnownJobs
        BY <1>0, <1>3, <3>2, QueueElements DEF BrokerOK
      <3> QED BY <1>0, <1>2, <1>3, <2>1, <3>1, <3>3 DEF BrokerOK, WorkerCrash
    <2>2. ASSUME NEW w \in Workers, RejectJob(w)
          PROVE  JobsIdentified'
      BY <1>0, <1>2, <1>3, <2>2 DEF BrokerOK, RejectJob
    <2>3. ASSUME NEW t \in Tasks, WalkerError(t)
          PROVE  JobsIdentified'
      BY <1>8, <2>3 DEF WalkerError
    <2>4. CASE OrchCrash
      BY <1>4, <2>4 DEF OrchCrash, FreeSlot, Frame
    <2>5. CASE LoopError \/ \E u \in Users : WebCrash(u)
      BY <1>5, <2>5 DEF LoopError, WebCrash
    <2> QED BY <1>17, <2>1, <2>2, <2>3, <2>4, <2>5 DEF Fault
  <1>18. CASE UNCHANGED vars
    BY <1>5, <1>18 DEF vars
  <1> QED BY <1>10, <1>11, <1>12, <1>13, <1>15, <1>16, <1>17, <1>18 DEF Next, Work

-------------------------------------------------------------------------------
\* The invariant and what follows from it.

\* The services start with no run, no task and no message.
LEMMA InvInit == Init => IInv
  <1> SUFFICES ASSUME Init PROVE IInv
    OBVIOUS
  <1>1. TypeOK
    BY TypeInit
  <1>2. KnownJobs \subseteq {NoJob}
    BY DEF Init, KnownJobs, FreeSlot, Frame
  <1>3. JobsIdentified
    BY <1>2 DEF JobsIdentified, Init, NoJob, Job
  <1>4. ActiveHoldsWalkers
    BY DEF ActiveHoldsWalkers, Init, Live
  <1>5. FramesSound
    BY SoundFrames DEF FramesSound, Init
  <1>6. ResultsFit
    BY DEF ResultsFit, Init
  <1>7. RollbackBudget
    BY DEF RollbackBudget, Init, MAX_ROLLBACKS
  <1> QED BY <1>1, <1>3, <1>4, <1>5, <1>6, <1>7 DEF IInv

\* IInv holds in every state the services can reach, whatever they are asked,
\* whatever fails and however often.
THEOREM InvHolds == Spec => []IInv
  <1>1. ASSUME IInv, [Next]_vars
        PROVE  IInv'
    BY <1>1, TypeStep, JobsStep, ActiveStep, FramesStep, ResultsStep, RollbackStep DEF IInv
  <1> QED BY <1>1, InvInit, PTL DEF Spec

\* Every column, message and frame has its type; in particular what the walker
\* stores as a run's risk level is one, whatever results reach it.
THEOREM TypeCorrect == Spec => []TypeOK
  <1>1. IInv => TypeOK
    BY DEF IInv
  <1> QED BY <1>1, InvHolds, PTL

\* No run is ever walked by two tasks of the orchestrator.
THEOREM OneWalker == Spec => []OneWalkerPerRun
  <1>1. IInv => OneWalkerPerRun
    BY DEF IInv, ActiveHoldsWalkers, OneWalkerPerRun
  <1> QED BY <1>1, InvHolds, PTL

\* A walker only acts on the result of the job it published for the stage it is
\* at.
THEOREM AnswersMatch == Spec => []AnswerMatchesStage
  <1>1. IInv => AnswerMatchesStage
    BY DEF IInv, FramesSound, SoundFrame, Engaged, Answering, AnswerMatchesStage, RunOf
  <1> QED BY <1>1, InvHolds, PTL

\* The rollback counter of a run never passes MAX_ROLLBACKS.
THEOREM RollbacksBounded == Spec => []RollbackBudget
  <1>1. IInv => RollbackBudget
    BY DEF IInv
  <1> QED BY <1>1, InvHolds, PTL
===============================================================================
