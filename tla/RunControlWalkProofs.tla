------------------------- MODULE RunControlWalkProofs -------------------------
(***************************************************************************)
(* RunControl implements PipelineWalk, for any number of runs, users,      *)
(* tasks and workers and any budget of faults: initial states map to the   *)
(* initial state, every step to a step or a stutter.                       *)
(***************************************************************************)
EXTENDS RunControlWalk, RunControlProofs

\* The tables PipelineWalk sees are those of PipelineRoutes.
LEMMA SameTables ==
    /\ \A wt, i : Walk_!AgentAt(wt, i) = AgentAt(wt, i)
    /\ \A wt : Walk_!RouteLen(wt) = RouteLen(wt)
    /\ \A wt : Walk_!AgentsRegistry(wt) = AgentsRegistry(wt)
    /\ \A a : Walk_!ParsedVerdicts(a) = ParsedVerdicts(a)
    /\ \A n, wt, k : Walk_!ShouldCheckpoint(n, wt, k) <=> ShouldCheckpoint(n, wt, k)
    /\ \A n, wt : Walk_!RollbackTarget(n, wt) = RollbackTarget(n, wt)
    /\ \A wt, n : Walk_!FindStepIndex(wt, n) = FindStepIndex(wt, n)
    /\ Walk_!FAIL_VERDICTS = FAIL_VERDICTS /\ Walk_!NoTarget = NoTarget
    /\ Walk_!NoVerdict = NoVerdict /\ Walk_!RiskLevels = RiskLevels
  <1>1. \A wt : Walk_!GetRoute(wt) = GetRoute(wt)
    BY DEF Walk_!GetRoute, GetRoute, Walk_!ROUTES, ROUTES
  <1>2. /\ \A wt, i : Walk_!AgentAt(wt, i) = AgentAt(wt, i)
        /\ \A wt : Walk_!RouteLen(wt) = RouteLen(wt)
    BY <1>1 DEF Walk_!AgentAt, AgentAt, Walk_!RouteLen, RouteLen
  <1>3. \A wt : Walk_!AgentsRegistry(wt) = AgentsRegistry(wt)
    BY DEF Walk_!AgentsRegistry, AgentsRegistry, Walk_!AGENTS, AGENTS,
           Walk_!TRANSFORM_AGENTS, TRANSFORM_AGENTS, Walk_!DEVOPS_AGENTS, DEVOPS_AGENTS
  <1>4. Walk_!NoVerdict = NoVerdict /\ Walk_!RiskLevels = RiskLevels
        /\ Walk_!FAIL_VERDICTS = FAIL_VERDICTS /\ Walk_!NoTarget = NoTarget
    BY DEF Walk_!NoVerdict, NoVerdict, Walk_!RiskLevels, RiskLevels,
           Walk_!FAIL_VERDICTS, FAIL_VERDICTS, Walk_!NoTarget, NoTarget
  <1>5. \A a : Walk_!ParsedVerdicts(a) = ParsedVerdicts(a)
    <2>1. Walk_!VERDICTS = VERDICTS
      BY <1>4 DEF Walk_!VERDICTS, VERDICTS
    <2> QED BY <1>4, <2>1 DEF Walk_!ParsedVerdicts, ParsedVerdicts
  <1>6. \A n, wt, k : Walk_!ShouldCheckpoint(n, wt, k) <=> ShouldCheckpoint(n, wt, k)
    BY DEF Walk_!ShouldCheckpoint, ShouldCheckpoint, Walk_!Gates, Gates
  <1>7. \A n, wt : Walk_!RollbackTarget(n, wt) = RollbackTarget(n, wt)
    BY DEF Walk_!RollbackTarget, RollbackTarget, Walk_!NoTarget, NoTarget
  <1>8. \A wt, n : Walk_!FindStepIndex(wt, n) = FindStepIndex(wt, n)
    BY <1>2 DEF Walk_!FindStepIndex, FindStepIndex
  <1> QED BY <1>2, <1>3, <1>4, <1>5, <1>6, <1>7, <1>8

-------------------------------------------------------------------------------
\* What PipelineWalk sees of a state.
Rows  == [r \in Runs |-> RowOf(r)]
Walks == [t \in Tasks |-> WalkOf(walker[t])]

\* A frame that changes moves its walker and no other.
LEMMA FrameMoves ==
    ASSUME WalkersOK, NEW t \in Tasks, NEW f, walker' = [walker EXCEPT ![t] = f]
    PROVE  Walks' = [Walks EXCEPT ![t] = WalkOf(f)]
  BY DEF Walks, WalkersOK

\* A step that leaves the status of a stored run a stored one keeps the row.
LEMMA RowKept ==
    ASSUME RowsOK, NEW r \in Runs, NEW s \in Stored, SetStatus(r, s)
    PROVE  Rows' = Rows
  BY DEF RowsOK, SetStatus, Set, Exists, Stored, Rows, RowOf

\* A column of a stored run is written, that of another one is not.
LEMMA MarkMoves ==
    ASSUME RowsOK, NEW r \in Runs, NEW i, SetIdx(r, i)
    PROVE  Walk_!Marked(r, i)
  BY DEF RowsOK, Statuses, SetIdx, Set, Exists, Stored, Walk_!Marked, RowOf

\* Where a task is, by its program counter.
LEMMA AwayOrWalking ==
    ASSUME WalkersOK, NEW t \in Tasks
    PROVE  /\ Walk_!Away(t) <=> walker[t].pc \in {"free", "start", "done"}
           /\ walker[t].pc \notin {"free", "start", "done"} =>
                 /\ Walks[t].run = RunOf(t) /\ Walks[t].idx = walker[t].idx
                 /\ Walks[t].verdict = IF walker[t].pc \in Answering THEN Verdict(t)
                                        ELSE "unanswered"
  <1>1. CASE walker[t].pc \in {"free", "start", "done"}
    BY <1>1 DEF Walk_!Away, Walk_!Nowhere, Walk_!At, Walk_!Unanswered, WalkOf, NoRun
  <1>2. CASE walker[t].pc \notin {"free", "start", "done"}
    <2>1. RunOf(t) # 0
      BY <1>2, FrameTyped, RunsAssumption
    <2> QED BY <1>2, <2>1 DEF Walk_!Away, Walk_!Nowhere, Walk_!At, WalkOf, RunOf, Walks, Verdict
  <1> QED BY <1>1, <1>2

-------------------------------------------------------------------------------
\* How the steps of RunControl look to PipelineWalk.
Implements == Walk_!Next \/ UNCHANGED Walk_!vars

\* Nothing PipelineWalk sees has changed.
LEMMA Stutter ==
    ASSUME Rows' = Rows, stepIdx' = stepIdx, Walks' = Walks, mrs' = mrs
    PROVE  Implements
  BY DEF Implements, Walk_!vars, Rows, Walks

LEMMA NothingSeen ==
    ASSUME UNCHANGED <<status, stepIdx, mrs, walker>>
    PROVE  Implements
  BY Stutter DEF Rows, RowOf, Walks

\* A frame that stays where it is on the route.
LEMMA FrameStays ==
    ASSUME WalkersOK, NEW t \in Tasks, NEW f, walker' = [walker EXCEPT ![t] = f],
           WalkOf(f) = WalkOf(walker[t]), Rows' = Rows, stepIdx' = stepIdx, mrs' = mrs
    PROVE  Implements
  <1>1. Walks' = [Walks EXCEPT ![t] = Walks[t]]
    BY FrameMoves DEF Walks
  <1>2. Walks' = Walks
    BY <1>1 DEF Walks
  <1> QED BY <1>2, Stutter

\* Walkers that leave their runs.
LEMMA WalkersLeave ==
    ASSUME NEW gone \in SUBSET Tasks, Rows' = Rows, stepIdx' = stepIdx, mrs' = mrs,
           Walks' = [t \in Tasks |-> IF t \in gone THEN WalkOf(FreeSlot) ELSE Walks[t]]
    PROVE  Implements
  <1>1. WalkOf(FreeSlot) = Walk_!Nowhere
    BY DEF WalkOf, FreeSlot, Frame, NoRun, Walk_!Nowhere, Walk_!At, Walk_!Unanswered
  <1>2. Walk_!Leave(gone)
    BY <1>1 DEF Walk_!Leave, Rows, Walks
  <1> QED BY <1>2 DEF Implements, Walk_!Next

LEMMA FrameLeaves ==
    ASSUME WalkersOK, NEW t \in Tasks, NEW f, walker' = [walker EXCEPT ![t] = f],
           f.pc \in {"free", "start", "done"}, Rows' = Rows, stepIdx' = stepIdx, mrs' = mrs
    PROVE  Implements
  <1>1. WalkOf(f) = WalkOf(FreeSlot)
    BY DEF WalkOf, FreeSlot, Frame
  <1>2. Walks = [s \in Tasks |-> Walks[s]]
    BY DEF Walks
  <1>3. Walks' = [Walks EXCEPT ![t] = WalkOf(f)]
    BY FrameMoves
  <1>4. Walks' = [s \in Tasks |-> IF s \in {t} THEN WalkOf(FreeSlot) ELSE Walks[s]]
    BY <1>1, <1>2, <1>3
  <1> QED BY <1>4, WalkersLeave

LEMMA WalkerReturns ==
    ASSUME WalkersOK, NEW t \in Tasks, Return(t), Rows' = Rows, stepIdx' = stepIdx, mrs' = mrs
    PROVE  Implements
  <1>1. Between("done", RunOf(t), 0).pc = "done"
    BY DEF Between, Frame
  <1> QED BY <1>1, FrameLeaves DEF Return, Continue

\* A walker whose program counter moves between places PipelineWalk does not
\* tell apart.
LEMMA WalkerGoes ==
    ASSUME WalkersOK, NEW t \in Tasks, NEW pc, Goto(t, pc),
           \/ walker[t].pc \in {"claim", "top", "step", "publish", "register", "wait",
                               "expired", "merge"}
              /\ pc \notin {"free", "start", "done"} \cup Answering
           \/ walker[t].pc \in Answering /\ pc \in Answering,
           Rows' = Rows, stepIdx' = stepIdx, mrs' = mrs
    PROVE  Implements
  <1>1. walker[t] \in Frames
    BY FrameTyped DEF Answering
  <1> DEFINE f == [walker[t] EXCEPT !.pc = pc]
  <1>2. f.pc = pc /\ f.run = walker[t].run /\ f.idx = walker[t].idx /\ f.answer = walker[t].answer
    BY <1>1 DEF Frames
  <1> HIDE DEF f
  <1>3. WalkOf(f) = WalkOf(walker[t])
    BY <1>2 DEF WalkOf, Answering
  <1>4. walker' = [walker EXCEPT ![t] = f]
    BY DEF Goto, f
  <1> QED BY <1>3, <1>4, FrameStays

-------------------------------------------------------------------------------
\* A merge request is only opened past the end of the route, and a run only
\* parked where its stage has a gate at the risk the walker has read.
PlaceSound(f) ==
    /\ f.pc = "merge" => f.idx > Last(f.run)
    /\ f.pc = "park" =>
          /\ ShouldCheckpoint(AgentAt(WT(f.run), f.idx), WT(f.run), f.seen.risk)
          /\ f.answer.outcome.verdict \notin FAIL_VERDICTS

PlacesSound == \A t \in Tasks : PlaceSound(walker[t])

LEMMA PlacesStep == ASSUME IInv, PlacesSound, [Next]_vars PROVE PlacesSound'
  <1> USE DEF row, db, orch, broker
  <1>0. WalkersOK
    BY DEF IInv, TypeOK
  <1>1. ASSUME walker' = walker
        PROVE  PlacesSound'
    BY <1>1 DEF PlacesSound, PlaceSound, Last, WT
  <1>2. ASSUME NEW t \in Tasks, NEW f, walker' = [walker EXCEPT ![t] = f], f.pc \notin {"merge", "park"}
        PROVE  PlacesSound'
    BY <1>0, <1>2 DEF PlacesSound, PlaceSound, Last, WT, WalkersOK
  <1>3. ASSUME NEW t \in Tasks, NEW pc, Goto(t, pc), pc \notin {"merge", "park"}
        PROVE  PlacesSound'
    <2>1. [walker[t] EXCEPT !.pc = pc].pc = pc
      BY <1>0 DEF WalkersOK, Frames, FreeSlot, Frame
    <2> QED BY <1>2, <1>3, <2>1 DEF Goto
  <1>4. ASSUME NEW t \in Tasks, NEW pc, NEW i, Continue(t, pc, i), pc \notin {"merge", "park"}
        PROVE  PlacesSound'
    <2>1. Between(pc, RunOf(t), i).pc = pc
      BY DEF Between, Frame
    <2> QED BY <1>2, <1>4, <2>1 DEF Continue
  <1>5. ASSUME NEW t \in Tasks, Return(t)
        PROVE  PlacesSound'
    BY <1>4, <1>5 DEF Return
  <1>6. ASSUME NEW u \in Users, UserAsks(u) \/ Handler(u)
        PROVE  PlacesSound'
    BY <1>1, <1>6 DEF UserAsks, CreateRun, AskCancel, AskDelete, AskRestart, AskApprove,
                      AskReject, Handler, SignalStart, SignalResume, MarkCancelled,
                      MarkRejected, ResetRow, DeleteRow, Approve, Reject
  <1>7. ASSUME MainLoop
        PROVE  PlacesSound'
    <2>1. CASE StartRun \/ ResumeRun
      <3>1. PICK t \in Tasks : walker' = [walker EXCEPT ![t] = Frame(loop.cur.run)]
        BY <2>1 DEF StartRun, ResumeRun, Spawn
      <3>2. Frame(loop.cur.run).pc \notin {"merge", "park"}
        BY DEF Frame
      <3> QED BY <1>2, <3>1, <3>2
    <2>2. CASE CancelRun
      <3>1. FreeSlot.pc \notin {"merge", "park"}
        BY DEF FreeSlot, Frame
      <3> QED BY <1>0, <2>2, <3>1 DEF CancelRun, PlacesSound, PlaceSound, Last, WT, WalkersOK
    <2>3. CASE Boot \/ RecoverRun \/ FetchActions \/ ClearAction \/ DropAction
      BY <1>1, <2>3 DEF Boot, RecoverRun, FetchActions, ClearAction, DropAction
    <2> QED BY <1>7, <2>1, <2>2, <2>3 DEF MainLoop
  <1>8. ASSUME NEW t \in Tasks, Walk(t) \/ Expire(t)
        PROVE  PlacesSound'
    <2>1. CASE Top(t)
      <3> DEFINE f == walker[t]
      <3>1. f \in Frames
        BY <1>0, <2>1, FrameTyped DEF Top, At
      <3>2. CASE f.idx > Last(RunOf(t))
        <4>1. [f EXCEPT !.pc = "merge"].run = f.run /\ [f EXCEPT !.pc = "merge"].idx = f.idx
          BY <3>1 DEF Frames
        <4>2. walker' = [walker EXCEPT ![t] = [f EXCEPT !.pc = "merge"]]
          BY <2>1, <3>2 DEF Top, Goto
        <4> HIDE DEF f
        <4>3. f.idx > Last(f.run)
          BY <3>2 DEF f, RunOf
        <4> QED BY <1>0, <4>1, <4>2, <4>3 DEF PlacesSound, PlaceSound, Last, WT, WalkersOK
      <3>3. CASE ~(f.idx > Last(RunOf(t)))
        <4>1. [f EXCEPT !.pc = "step", !.seen = Seen(RunOf(t))].pc = "step"
          BY <3>1 DEF Frames
        <4>2. CASE walker' = [walker EXCEPT ![t] = [f EXCEPT !.pc = "step",
                                                             !.seen = Seen(RunOf(t))]]
          BY <1>2, <4>1, <4>2
        <4> QED BY <1>5, <2>1, <3>3, <4>2 DEF Top
      <3> QED BY <3>2, <3>3
    <2>2. CASE Publish(t)
      <3>1. walker[t] \in Frames
        BY <1>0, <2>2, FrameTyped DEF Publish, At
      <3>2. [walker[t] EXCEPT !.pc = "register",
                              !.job = Job(nextJob, RunOf(t), walker[t].idx)].pc = "register"
        BY <3>1 DEF Frames
      <3> QED BY <1>2, <2>2, <3>2 DEF Publish
    <2>3. CASE Reread(t)
      <3>1. walker[t] \in Frames
        BY <1>0, <2>3, FrameTyped DEF Reread, At
      <3>2. [walker[t] EXCEPT !.pc = "judge", !.seen = Seen(RunOf(t))].pc = "judge"
        BY <3>1 DEF Frames
      <3>3. CASE walker' = [walker EXCEPT ![t] = [walker[t] EXCEPT !.pc = "judge",
                                                             !.seen = Seen(RunOf(t))]]
        BY <1>2, <3>2, <3>3
      <3> QED BY <1>5, <2>3, <3>3 DEF Reread
    <2>4. CASE DoneCallback(t)
      <3>1. FreeSlot.pc \notin {"merge", "park"}
        BY DEF FreeSlot, Frame
      <3> QED BY <1>2, <2>4, <3>1 DEF DoneCallback
    <2>5. CASE \/ Begin(t) \/ RollBack(t) \/ GiveUp(t) \/ Park(t) \/ Advance(t)
               \/ Complete(t) \/ FailExpired(t)
      BY <1>4, <1>5, <2>5 DEF Begin, RollBack, GiveUp, Park, Advance, Complete, FailExpired
    <2>6. CASE \/ Claim(t) \/ CreateStep(t) \/ Register(t) \/ RecordRisk(t)
               \/ OpenMR(t) \/ Expire(t)
      BY <1>3, <1>5, <2>6 DEF Claim, CreateStep, Register, RecordRisk, OpenMR, Expire
    <2>7. CASE OpenCheckpoint(t) /\ Goto(t, "park")
      <3> DEFINE f == walker[t]
                 g == [f EXCEPT !.pc = "park"]
      <3>1. f \in Frames
        BY <1>0, <2>7, FrameTyped DEF OpenCheckpoint, Judging, At
      <3>2. g.pc = "park" /\ g.run = f.run /\ g.idx = f.idx /\ g.seen = f.seen
            /\ g.answer = f.answer
        BY <3>1 DEF Frames
      <3>3. walker' = [walker EXCEPT ![t] = g]
        BY <2>7 DEF Goto
      <3>4. PlaceSound(g)
        BY <2>7, <3>2 DEF PlaceSound, OpenCheckpoint, IsGate, AgentNum, Failed, Verdict, RunOf
      <3> HIDE DEF g
      <3> QED BY <1>0, <3>3, <3>4 DEF PlacesSound, PlaceSound, Last, WT, WalkersOK
    <2>8. CASE OpenCheckpoint(t) /\ ~Goto(t, "park")
      BY <1>5, <2>8 DEF OpenCheckpoint
    <2> QED BY <1>8, <2>1, <2>2, <2>3, <2>4, <2>5, <2>6, <2>7, <2>8 DEF Walk
  <1>9. ASSUME NEW w \in Workers, Work(w)
        PROVE  PlacesSound'
    BY <1>1, <1>9 DEF Work, TakeJob, FinishJob
  <1>10. CASE ConsumeResult
    <2> DEFINE m == Head(resultQueue)
    <2>1. \A t \in Tasks : At(t, "wait") =>
             [walker[t] EXCEPT !.pc = "answered", !.answer = m].pc = "answered"
      BY <1>0, FrameTyped DEF At, Frames
    <2>2. \A t \in Tasks : walker'[t].pc \in {"merge", "park"} => walker'[t] = walker[t]
      BY <1>10, <2>1 DEF ConsumeResult
    <2> QED BY <1>0, <2>2 DEF PlacesSound, PlaceSound, Last, WT, WalkersOK
  <1>11. CASE Fault
    <2>1. CASE OrchCrash
      <3>1. FreeSlot.pc \notin {"merge", "park"}
        BY DEF FreeSlot, Frame
      <3> QED BY <2>1, <3>1 DEF OrchCrash, PlacesSound, PlaceSound
    <2>2. ASSUME NEW t \in Tasks, WalkerError(t)
          PROVE  PlacesSound'
      BY <1>5, <2>2 DEF WalkerError
    <2>3. CASE \/ LoopError \/ \E u \in Users : WebCrash(u)
               \/ \E w \in Workers : WorkerCrash(w) \/ RejectJob(w)
      BY <1>1, <2>3 DEF LoopError, WebCrash, WorkerCrash, RejectJob
    <2> QED BY <1>11, <2>1, <2>2, <2>3 DEF Fault
  <1>12. CASE UNCHANGED vars
    BY <1>1, <1>12 DEF vars
  <1> QED BY <1>6, <1>7, <1>8, <1>9, <1>10, <1>11, <1>12 DEF Next

-------------------------------------------------------------------------------
\* The steps, one group of actors after the other.

LEMMA ApiImplements ==
    ASSUME IInv, NEW u \in Users, UserAsks(u) \/ Handler(u)
    PROVE  Implements
  <1> USE DEF row, db, orch, broker
  <1>0. TypeOK /\ RowsOK /\ RequestsOK
    BY DEF IInv, TypeOK
  <1>1. ASSUME NEW r \in Runs, CreateRun(u, r)
        PROVE  Implements
    <2>1. Walk_!File(r)
      BY <1>0, <1>1 DEF CreateRun, Walk_!File, RowsOK, RowOf
    <2> QED BY <2>1 DEF Implements, Walk_!Next
  <1>2. CASE SignalStart(u) \/ SignalResume(u) \/ Approve(u) \/ Reject(u)
    BY <1>2, NothingSeen DEF SignalStart, SignalResume, Approve, Reject
  <1>3. CASE MarkCancelled(u) \/ MarkRejected(u)
    <2>1. request[u].run \in Runs
      BY <1>0, <1>3, RequestTyped DEF MarkCancelled, MarkRejected, InFlight
    <2>2. Rows' = Rows
      BY <1>0, <1>3, <2>1, RowKept DEF MarkCancelled, MarkRejected, Stored
    <2> QED BY <1>3, <2>2, Stutter DEF MarkCancelled, MarkRejected, Walks
  <1>4. CASE DeleteRow(u)
    <2>1. request[u].run \in Runs
      BY <1>0, <1>4, RequestTyped DEF DeleteRow, InFlight
    <2>2. Walk_!Delete(request[u].run)
      BY <1>0, <1>4, <2>1 DEF DeleteRow, Walk_!Delete, RowsOK, RowOf
    <2> QED BY <2>1, <2>2 DEF Implements, Walk_!Next
  <1>5. CASE ResetRow(u)
    <2>1. request[u].run \in Runs
      BY <1>0, <1>5, RequestTyped DEF ResetRow, InFlight
    <2>2. Rows' = Rows
      BY <1>0, <1>5, <2>1, RowKept DEF ResetRow, Stored
    <2>3. Walk_!Marked(request[u].run, 0)
      BY <1>0, <1>5, <2>1, MarkMoves DEF ResetRow
    <2>4. Walk_!SendBack(request[u].run)
      BY <1>5, <2>2, <2>3 DEF ResetRow, Walk_!SendBack, Rows
    <2> QED BY <2>1, <2>4 DEF Implements, Walk_!Next
  <1>6. ASSUME UNCHANGED <<db, mrs, walker>>
        PROVE  Implements
    BY <1>6, NothingSeen
  <1> QED BY <1>1, <1>2, <1>3, <1>4, <1>5, <1>6
          DEF UserAsks, Handler, AskCancel, AskDelete, AskRestart, AskApprove, AskReject

LEMMA LoopImplements == ASSUME IInv, MainLoop PROVE Implements
  <1> USE DEF row, db, orch, broker
  <1>0. RowsOK /\ LoopOK /\ WalkersOK
    BY DEF IInv, TypeOK
  <1>1. CASE Boot \/ FetchActions \/ ClearAction \/ DropAction
    BY <1>1, NothingSeen DEF Boot, FetchActions, ClearAction, DropAction
  <1>2. CASE RecoverRun
    <2> DEFINE r == NextTodo.run
    <2>1. r \in Runs
      BY <1>0, <1>2, NextTodoTyped DEF RecoverRun, LoopOK, Todos
    <2> HIDE DEF r
    <2>2. SetStatus(r, "pending") /\ SetIdx(r, 0) /\ mrs' = mrs /\ walker' = walker
      BY <1>2 DEF RecoverRun, r
    <2>3. Rows' = Rows
      BY <1>0, <2>1, <2>2, RowKept DEF Stored
    <2>4. Walk_!Marked(r, 0)
      BY <1>0, <2>1, <2>2, MarkMoves
    <2>5. Walk_!SendBack(r)
      BY <2>2, <2>3, <2>4 DEF Walk_!SendBack, Rows
    <2> QED BY <2>1, <2>5 DEF Implements, Walk_!Next
  <1>3. CASE StartRun \/ ResumeRun
    <2> DEFINE r == loop.cur.run
    <2>1. PICK t \in Tasks : walker[t] = FreeSlot /\ walker' = [walker EXCEPT ![t] = Frame(r)]
      BY <1>3 DEF StartRun, ResumeRun, Spawn
    <2>2. WalkOf(Frame(r)) = WalkOf(walker[t])
      BY <2>1 DEF WalkOf, Frame, FreeSlot
    <2>3. r \in Runs
      BY <1>0, <1>3 DEF LoopOK, Handling, StartRun, ResumeRun, Nothing, Todo, Todos, NoAction
    <2>4. Rows' = Rows /\ stepIdx' = stepIdx /\ mrs' = mrs
      <3>1. CASE StartRun
        BY <3>1 DEF StartRun, Rows, RowOf
      <3>2. CASE ResumeRun
        BY <1>0, <2>3, <3>2, RowKept DEF ResumeRun, Stored
      <3> QED BY <1>3, <3>1, <3>2
    <2> QED BY <1>0, <2>1, <2>2, <2>4, FrameStays
  <1>4. CASE CancelRun
    <2> DEFINE gone == {t \in Tasks : t = active[loop.cur.run]}
    <2>1. Walks' = [t \in Tasks |-> IF t \in gone THEN WalkOf(FreeSlot) ELSE Walks[t]]
      BY <1>4 DEF CancelRun, Walks
    <2>2. Rows' = Rows /\ stepIdx' = stepIdx /\ mrs' = mrs
      BY <1>4 DEF CancelRun, Rows, RowOf
    <2> QED BY <2>1, <2>2, WalkersLeave
  <1> QED BY <1>1, <1>2, <1>3, <1>4 DEF MainLoop

\* A walker that has its run walks it alone.
LEMMA WalksAlone ==
    ASSUME IInv, NEW t \in Tasks, At(t, "start"), NEW s \in Tasks
    PROVE  Walks[s].run # RunOf(t)
  <1>0. WalkersOK
    BY DEF IInv, TypeOK
  <1>1. Live(t) /\ RunOf(t) \in Runs /\ RunOf(t) # 0
    BY <1>0, FrameTyped, RunsAssumption DEF At
  <1>2. CASE walker[s].pc \in {"free", "start", "done"}
    BY <1>1, <1>2 DEF Walks, WalkOf, NoRun
  <1>3. CASE walker[s].pc \notin {"free", "start", "done"}
    <2>1. Live(s) /\ s # t
      BY <1>0, <1>3, FrameTyped DEF At
    <2>2. RunOf(s) # RunOf(t)
      BY <1>1, <2>1 DEF IInv, ActiveHoldsWalkers
    <2> QED BY <1>3, <2>2 DEF Walks, WalkOf, RunOf
  <1> QED BY <1>2, <1>3

\* A walker with an answer has reported the verdict on its stage.
LEMMA AnsweredReports ==
    ASSUME IInv, NEW t \in Tasks, walker[t].pc \in Answering
    PROVE  /\ Walk_!Reported(t)
           /\ Walks[t].run = RunOf(t) /\ Walks[t].idx = walker[t].idx
           /\ Walk_!Stage(t) = AgentNum(t) /\ Walk_!WT(t) = WT(RunOf(t))
           /\ Walk_!Failed(t) <=> Failed(t)
           /\ RunOf(t) \in Runs
  <1>0. WalkersOK /\ walker[t].pc \notin {"free", "start", "done"}
    BY DEF IInv, TypeOK, Answering
  <1>1. /\ ~Walk_!Away(t) /\ Walks[t].verdict = Verdict(t)
        /\ Walks[t].run = RunOf(t) /\ Walks[t].idx = walker[t].idx
    BY <1>0, AwayOrWalking
  <1>2. Verdict(t) \in Verdicts
    <2>1. walker[t] \in Frames
      BY <1>0, FrameTyped
    <2>2. walker[t].answer \in Results \cup {Result(NoJob, NoOutcome)}
      BY <2>1 DEF Frames
    <2>3. Result(NoJob, NoOutcome).outcome.verdict \in Verdicts
      BY DEF Result, NoOutcome, Outcome, Verdicts, NoVerdict
    <2>4. \A a \in Results : a.outcome.verdict \in Verdicts
      BY DEF Results, AllOutcomes
    <2> QED BY <2>2, <2>3, <2>4 DEF Verdict
  <1>3. Walk_!Reported(t)
    BY <1>1, <1>2 DEF Walk_!Reported, Walk_!Unanswered, Walks, Verdicts, NoVerdict, RiskLevels
  <1>4. Walk_!WT(t) = WT(RunOf(t))
    BY <1>1 DEF Walk_!WT, WT, Walks
  <1>5. Walk_!Stage(t) = AgentNum(t)
    BY <1>1, <1>4, SameTables DEF Walk_!Stage, AgentNum, Walks
  <1>6. Walk_!Failed(t) <=> Failed(t)
    BY <1>1, SameTables DEF Walk_!Failed, Failed, Walks
  <1>7. RunOf(t) \in Runs
    BY <1>0, FrameTyped
  <1> QED BY <1>1, <1>3, <1>4, <1>5, <1>6, <1>7

\* A frame that is put somewhere on the route, without an answer.
LEMMA ContinueMoves ==
    ASSUME WalkersOK, NEW t \in Tasks, NEW pc \in {"claim", "top"}, NEW i, Continue(t, pc, i)
    PROVE  Walk_!Moved(t, Walk_!At(RunOf(t), i, Walk_!Unanswered))
  <1>1. WalkOf(Between(pc, RunOf(t), i)) = Walk_!At(RunOf(t), i, Walk_!Unanswered)
    BY DEF WalkOf, Between, Frame, Walk_!At, Walk_!Unanswered, Answering
  <1>2. Walks' = [Walks EXCEPT ![t] = Walk_!At(RunOf(t), i, Walk_!Unanswered)]
    BY <1>1, FrameMoves DEF Continue
  <1> QED BY <1>2 DEF Walk_!Moved, Walks

LEMMA BeginImplements == ASSUME IInv, NEW t \in Tasks, Begin(t) PROVE Implements
  <1> DEFINE r == RunOf(t)
  <1>0. WalkersOK /\ RowsOK /\ r \in Runs /\ At(t, "start")
    BY FrameTyped DEF IInv, TypeOK, Begin, At
  <1>1. UNCHANGED <<status, stepIdx, mrs>>
    BY DEF Begin, Locally, db, row
  <1>2. Rows' = Rows
    BY <1>1 DEF Rows, RowOf
  <1>3. CASE Exists(r)
    <2>1. Walk_!Moved(t, Walk_!At(r, stepIdx[r], Walk_!Unanswered))
      BY <1>0, <1>3, ContinueMoves DEF Begin
    <2>2. Walk_!Away(t)
      BY <1>0, AwayOrWalking DEF At
    <2>3. \A s \in Tasks : Walks[s].run # r
      BY <1>0, WalksAlone
    <2>4. RowOf(r) = "stored"
      BY <1>3 DEF Exists, Stored, RowOf
    <2>5. Walk_!TakeUp(t, r)
      BY <1>0, <1>1, <1>2, <2>1, <2>2, <2>3, <2>4 DEF Walk_!TakeUp, Rows, Walks
    <2> QED BY <1>0, <2>5 DEF Implements, Walk_!Next
  <1>4. CASE ~Exists(r)
    BY <1>0, <1>1, <1>2, <1>4, WalkerReturns DEF Begin
  <1> QED BY <1>3, <1>4

LEMMA JudgingAnswered ==
    ASSUME NEW t \in Tasks, Judging(t) \/ At(t, "park")
    PROVE  walker[t].pc \in Answering
  BY DEF Judging, At, Answering

LEMMA RollBackImplements == ASSUME IInv, NEW t \in Tasks, RollBack(t) PROVE Implements
  <1> DEFINE r == RunOf(t)
             i == FindStepIndex(WT(r), Target(t))
  <1>0. WalkersOK /\ RowsOK /\ Judging(t)
    BY DEF IInv, TypeOK, RollBack
  <1>1. /\ Walk_!Reported(t) /\ Walk_!Failed(t) /\ r \in Runs
        /\ Walk_!Stage(t) = AgentNum(t) /\ Walk_!WT(t) = WT(r) /\ Walks[t].run = r
    BY <1>0, AnsweredReports, JudgingAnswered DEF RollBack
  <1>2. Walk_!RollbackTarget(Walk_!Stage(t), Walk_!WT(t)) = Target(t)
        /\ Target(t) # Walk_!NoTarget
        /\ Walk_!FindStepIndex(Walk_!WT(t), Target(t)) = i
    BY <1>1, SameTables DEF Target, RollBack, CanRollBack
  <1>3. Rows' = Rows /\ mrs' = mrs
    BY DEF RollBack, Rows, RowOf
  <1>4. SetIdx(r, i) /\ Continue(t, "top", i)
    BY DEF RollBack
  <1> HIDE DEF i
  <1>5. Walk_!Marked(r, i)
    BY <1>0, <1>1, <1>4, MarkMoves
  <1>6. Walk_!Moved(t, Walk_!At(r, i, Walk_!Unanswered))
    BY <1>0, <1>4, ContinueMoves
  <1>7. Walk_!StepBack(t)
    BY <1>1, <1>2, <1>3, <1>5, <1>6 DEF Walk_!StepBack, Rows, Walks
  <1> QED BY <1>7 DEF Implements, Walk_!Next

LEMMA GateRisk ==
    ASSUME IInv, NEW t \in Tasks, walker[t].pc \in Answering
    PROVE  walker[t].seen.risk \in Walk_!RiskLevels
           /\ (IsGate(t) <=> Walk_!ShouldCheckpoint(Walk_!Stage(t), Walk_!WT(t),
                                                     walker[t].seen.risk))
  <1>1. walker[t] \in Frames
    BY FrameTyped DEF IInv, TypeOK, Answering
  <1>2. walker[t].seen.risk \in RiskLevels
    BY <1>1 DEF Frames, Seens
  <1> QED BY <1>2, AnsweredReports, SameTables DEF IsGate

LEMMA AdvanceImplements == ASSUME IInv, NEW t \in Tasks, Advance(t) PROVE Implements
  <1> DEFINE r == RunOf(t)
             i == walker[t].idx + 1
  <1>0. WalkersOK /\ RowsOK /\ walker[t].pc \in Answering
    BY JudgingAnswered DEF IInv, TypeOK, Advance
  <1>1. /\ Walk_!Reported(t) /\ ~Walk_!Failed(t) /\ r \in Runs
        /\ Walks[t].run = r /\ Walks[t].idx = walker[t].idx
    BY <1>0, AnsweredReports DEF Advance
  <1>2. \E k \in Walk_!RiskLevels : ~Walk_!ShouldCheckpoint(Walk_!Stage(t), Walk_!WT(t), k)
    BY <1>0, GateRisk DEF Advance
  <1>3. Rows' = Rows /\ mrs' = mrs
    BY DEF Advance, Rows, RowOf
  <1>4. SetIdx(r, i) /\ Continue(t, "top", i)
    BY DEF Advance
  <1>5. Walk_!Marked(r, i)
    BY <1>0, <1>1, <1>4, MarkMoves
  <1>6. Walk_!Moved(t, Walk_!At(r, i, Walk_!Unanswered))
    BY <1>0, <1>4, ContinueMoves
  <1>7. Walk_!Pass(t)
    BY <1>1, <1>2, <1>3, <1>5, <1>6 DEF Walk_!Pass, Rows, Walks
  <1> QED BY <1>7 DEF Implements, Walk_!Next

LEMMA ParkImplements == ASSUME IInv, PlacesSound, NEW t \in Tasks, Park(t) PROVE Implements
  <1> DEFINE r == RunOf(t)
             i == walker[t].idx + 1
  <1>0. WalkersOK /\ RowsOK /\ walker[t].pc = "park" /\ walker[t].pc \in Answering
    BY JudgingAnswered DEF IInv, TypeOK, Park, At
  <1>1. IsGate(t) /\ ~Failed(t)
    BY <1>0 DEF PlacesSound, PlaceSound, IsGate, AgentNum, Failed, Verdict, RunOf
  <1>2. /\ Walk_!Reported(t) /\ ~Walk_!Failed(t) /\ r \in Runs
        /\ Walks[t].run = r /\ Walks[t].idx = walker[t].idx
    BY <1>0, <1>1, AnsweredReports
  <1>3. \E k \in Walk_!RiskLevels : Walk_!ShouldCheckpoint(Walk_!Stage(t), Walk_!WT(t), k)
    BY <1>0, <1>1, GateRisk
  <1>4. Rows' = Rows /\ mrs' = mrs
    BY <1>0, <1>2, RowKept DEF Park, Stored
  <1>5. Walk_!Marked(r, i)
    BY <1>0, <1>2, MarkMoves DEF Park
  <1>6. Walk_!Moved(t, Walk_!Nowhere)
    <2>1. WalkOf(Between("done", r, 0)) = Walk_!Nowhere
      BY DEF WalkOf, Between, Frame, NoRun, Walk_!Nowhere, Walk_!At, Walk_!Unanswered
    <2>2. Walks' = [Walks EXCEPT ![t] = Walk_!Nowhere]
      BY <1>0, <2>1, FrameMoves DEF Park, Return, Continue
    <2> QED BY <2>2 DEF Walk_!Moved, Walks
  <1>7. Walk_!Park(t)
    BY <1>2, <1>3, <1>4, <1>5, <1>6 DEF Walk_!Park, Rows, Walks
  <1> QED BY <1>7 DEF Implements, Walk_!Next

LEMMA OpenMRImplements == ASSUME IInv, PlacesSound, NEW t \in Tasks, OpenMR(t) PROVE Implements
  <1>0. WalkersOK /\ walker[t].pc = "merge" /\ RunOf(t) \in Runs
    BY FrameTyped DEF IInv, TypeOK, OpenMR, At
  <1>1. Rows' = Rows /\ stepIdx' = stepIdx
    BY DEF OpenMR, db, row, Rows, RowOf
  <1>2. CASE mrs' = mrs
    BY <1>0, <1>1, <1>2, WalkerGoes DEF OpenMR, Answering
  <1>3. CASE mrs' = mrs \cup {RunOf(t)}
    <2>1. /\ ~Walk_!Away(t) /\ Walks[t].run = RunOf(t) /\ Walks[t].idx = walker[t].idx
          /\ Walks[t].verdict = Walk_!Unanswered
      BY <1>0, AwayOrWalking DEF Answering, Walk_!Unanswered
    <2>2. walker[t].idx > Last(RunOf(t)) /\ walker[t].idx \in Nat /\ WT(RunOf(t)) \in WorkTypes
      BY <1>0, FrameTyped DEF PlacesSound, PlaceSound, RunOf
    <2>3. ~Walk_!OnRoute(t)
      <3>1. Walk_!RouteLen(Walk_!WT(t)) = RouteLen(WT(RunOf(t)))
        BY <2>1, SameTables DEF Walk_!WT, WT, Walks
      <3>2. RouteLen(WT(RunOf(t))) \in 1..8
        BY <2>2, RouteLength
      <3>3. ~(walker[t].idx < RouteLen(WT(RunOf(t))))
        BY <2>2, <3>2 DEF Last
      <3> QED BY <2>1, <3>1, <3>3 DEF Walk_!OnRoute, Walks
    <2>4. Walks' = Walks
      <3> DEFINE f == [walker[t] EXCEPT !.pc = "complete"]
      <3>1. walker[t] \in Frames
        BY <1>0, FrameTyped
      <3>2. f.pc = "complete" /\ f.run = walker[t].run /\ f.idx = walker[t].idx
        BY <3>1 DEF Frames
      <3>3. walker' = [walker EXCEPT ![t] = f]
        BY DEF OpenMR, Goto
      <3> HIDE DEF f
      <3>4. WalkOf(f) = WalkOf(walker[t])
        BY <1>0, <3>2 DEF WalkOf, Answering
      <3>5. Walks' = [Walks EXCEPT ![t] = Walks[t]]
        BY <1>0, <3>3, <3>4, FrameMoves DEF Walks
      <3> QED BY <3>5 DEF Walks
    <2>5. Walk_!Release(t)
      BY <1>1, <1>3, <2>1, <2>3, <2>4 DEF Walk_!Release, Walk_!Waiting, Rows, Walks
    <2> QED BY <2>5 DEF Implements, Walk_!Next
  <1> QED BY <1>2, <1>3 DEF OpenMR

LEMMA WalkerImplements ==
    ASSUME IInv, PlacesSound, NEW t \in Tasks, Walk(t) \/ Expire(t)
    PROVE  Implements
  <1> USE DEF row, db, orch, broker
  <1>0. WalkersOK /\ RowsOK
    BY DEF IInv, TypeOK
  <1>1. ASSUME UNCHANGED status
        PROVE  Rows' = Rows
    BY <1>1 DEF Rows, RowOf
  <1>2. ASSUME walker[t].pc # "free"
        PROVE  RunOf(t) \in Runs
    BY <1>0, <1>2, FrameTyped
  <1>3. CASE Begin(t) \/ RollBack(t) \/ Advance(t) \/ Park(t) \/ OpenMR(t)
    BY <1>3, BeginImplements, RollBackImplements, AdvanceImplements, ParkImplements,
       OpenMRImplements
  <1>4. CASE Claim(t)
    <2>1. Rows' = Rows
      BY <1>0, <1>2, <1>4, RowKept DEF Claim, At, Stored
    <2> QED BY <1>0, <1>4, <2>1, WalkerGoes DEF Claim, At, Answering
  <1>5. CASE FailExpired(t) \/ GiveUp(t) \/ Complete(t)
    <2>1. Rows' = Rows
      BY <1>0, <1>2, <1>5, RowKept DEF FailExpired, GiveUp, Complete, Judging, At, Stored
    <2> QED BY <1>0, <1>5, <2>1, WalkerReturns DEF FailExpired, GiveUp, Complete
  <1>6. CASE Register(t) \/ Expire(t) \/ RecordRisk(t)
    BY <1>0, <1>1, <1>6, WalkerGoes
       DEF Register, Expire, RecordRisk, At, Answering, Locally
  <1>7. CASE CreateStep(t) \/ OpenCheckpoint(t)
    <2>1. Rows' = Rows /\ stepIdx' = stepIdx /\ mrs' = mrs
      BY <1>1, <1>7 DEF CreateStep, OpenCheckpoint
    <2>2. CASE Return(t)
      BY <1>0, <2>1, <2>2, WalkerReturns
    <2>3. CASE CreateStep(t) /\ Goto(t, "publish")
      BY <1>0, <2>1, <2>3, WalkerGoes DEF CreateStep, At, Answering
    <2>4. CASE OpenCheckpoint(t) /\ Goto(t, "park")
      BY <1>0, <2>1, <2>4, WalkerGoes, JudgingAnswered DEF OpenCheckpoint, Answering
    <2> QED BY <1>7, <2>2, <2>3, <2>4 DEF CreateStep, OpenCheckpoint
  <1>8. CASE Publish(t)
    <2> DEFINE f == [walker[t] EXCEPT !.pc = "register",
                                      !.job = Job(nextJob, RunOf(t), walker[t].idx)]
    <2>1. walker[t] \in Frames
      BY <1>0, <1>8, FrameTyped DEF Publish, At
    <2>2. f.pc = "register" /\ f.run = walker[t].run /\ f.idx = walker[t].idx
      BY <2>1 DEF Frames
    <2>3. walker' = [walker EXCEPT ![t] = f]
      BY <1>8 DEF Publish
    <2> HIDE DEF f
    <2>4. WalkOf(f) = WalkOf(walker[t])
      BY <1>8, <2>2 DEF WalkOf, Answering, Publish, At
    <2> QED BY <1>0, <1>1, <1>8, <2>3, <2>4, FrameStays DEF Publish
  <1>9. CASE Top(t) \/ Reread(t)
    <2> DEFINE pc == IF Top(t) THEN "step" ELSE "judge"
               f == [walker[t] EXCEPT !.pc = pc, !.seen = Seen(RunOf(t))]
    <2>1. walker[t] \in Frames
      BY <1>0, <1>9, FrameTyped DEF Top, Reread, At
    <2>2. f.pc = pc /\ f.run = walker[t].run /\ f.idx = walker[t].idx
          /\ f.answer = walker[t].answer
      BY <2>1 DEF Frames
    <2> HIDE DEF f
    <2>3. WalkOf(f) = WalkOf(walker[t])
      BY <1>9, <2>2 DEF WalkOf, Answering, Top, Reread, At
    <2>4. Rows' = Rows /\ stepIdx' = stepIdx /\ mrs' = mrs
      BY <1>1, <1>9 DEF Top, Reread, Locally
    <2>5. CASE walker' = [walker EXCEPT ![t] = f]
      BY <1>0, <2>3, <2>4, <2>5, FrameStays
    <2>6. CASE Return(t)
      BY <1>0, <2>4, <2>6, WalkerReturns
    <2>7. CASE Top(t) /\ Goto(t, "merge")
      BY <1>0, <2>4, <2>7, WalkerGoes DEF Top, At, Answering
    <2>8. Return(t) \/ (Top(t) /\ Goto(t, "merge")) \/ walker' = [walker EXCEPT ![t] = f]
      BY <1>9 DEF Top, Reread, At, f
    <2> QED BY <2>5, <2>6, <2>7, <2>8
  <1>10. CASE DoneCallback(t)
    <2>1. WalkOf(FreeSlot) = WalkOf(walker[t])
      BY <1>10 DEF DoneCallback, At, WalkOf, FreeSlot, Frame
    <2> QED BY <1>0, <1>1, <1>10, <2>1, FrameStays DEF DoneCallback
  <1> QED BY <1>3, <1>4, <1>5, <1>6, <1>7, <1>8, <1>9, <1>10 DEF Walk

\* The result that resolves a future is the report of that walker's stage.
LEMMA ConsumeImplements == ASSUME IInv, ConsumeResult PROVE Implements
  <1> USE DEF row, db, orch, broker
  <1> DEFINE m == Head(resultQueue)
  <1>0. WalkersOK /\ JobsIdentified /\ FramesSound /\ resultQueue # <<>>
    BY DEF IInv, TypeOK, ConsumeResult
  <1>1. Rows' = Rows /\ stepIdx' = stepIdx /\ mrs' = mrs
    BY DEF ConsumeResult, Rows, RowOf
  <1>2. walker' = [t \in Tasks |-> IF At(t, "wait") /\ walker[t].job.id = m.job.id
                                   THEN [walker[t] EXCEPT !.pc = "answered", !.answer = m]
                                   ELSE walker[t]]
    BY DEF ConsumeResult
  <1>3. m.job \in KnownJobs /\ m.outcome \in Outcomes(m.job)
    BY <1>0, HeadKnown
  <1> HIDE DEF m
  <1>4. CASE \A t \in Tasks : ~(At(t, "wait") /\ walker[t].job.id = m.job.id)
    <2>1. Walks' = Walks
      BY <1>2, <1>4 DEF Walks
    <2> QED BY <1>1, <2>1, Stutter
  <1>5. ASSUME NEW t \in Tasks, At(t, "wait"), walker[t].job.id = m.job.id
        PROVE  Implements
    <2>1. /\ walker[t] \in Frames /\ Live(t) /\ RunOf(t) \in Runs
          /\ WT(RunOf(t)) \in WorkTypes /\ walker[t].idx \in Nat
      BY <1>0, <1>5, FrameTyped DEF At
    <2>2. walker[t].job = m.job
      BY <1>0, <1>3, <1>5 DEF JobsIdentified, KnownJobs
    <2>3. /\ walker[t].job.run = RunOf(t) /\ walker[t].job.idx = walker[t].idx
          /\ walker[t].idx <= Last(RunOf(t))
      BY <1>0, <1>5 DEF FramesSound, SoundFrame, Engaged, OnStage, At, RunOf
    <2>4. ASSUME NEW s \in Tasks, At(s, "wait"), walker[s].job.id = m.job.id
          PROVE  s = t
      <3>1. walker[s].job = m.job
        BY <1>0, <1>3, <2>4 DEF JobsIdentified, KnownJobs
      <3>2. Live(s) /\ walker[s].job.run = RunOf(s)
        BY <1>0, <2>4, FrameTyped DEF FramesSound, SoundFrame, Engaged, At, RunOf
      <3> QED BY <2>1, <2>2, <2>3, <3>1, <3>2 DEF IInv, ActiveHoldsWalkers
    <2> DEFINE f == [walker[t] EXCEPT !.pc = "answered", !.answer = m]
    <2>5. f.pc = "answered" /\ f.run = walker[t].run /\ f.idx = walker[t].idx /\ f.answer = m
      BY <2>1 DEF Frames
    <2>6. walker' = [walker EXCEPT ![t] = f]
      BY <1>0, <1>2, <1>5, <2>4 DEF WalkersOK
    <2> HIDE DEF f
    <2>7. WalkOf(f) = Walk_!At(RunOf(t), walker[t].idx, m.outcome.verdict)
      BY <2>5 DEF WalkOf, Answering, Walk_!At, RunOf
    <2>8. Walks' = [Walks EXCEPT ![t] = Walk_!At(RunOf(t), walker[t].idx, m.outcome.verdict)]
      BY <1>0, <2>6, <2>7, FrameMoves
    <2>9. /\ ~Walk_!Away(t) /\ Walks[t].run = RunOf(t) /\ Walks[t].idx = walker[t].idx
          /\ Walks[t].verdict = Walk_!Unanswered
      BY <1>0, <1>5, AwayOrWalking DEF Answering, Walk_!Unanswered, At
    <2>10. Walk_!WT(t) = WT(RunOf(t))
      BY <2>9 DEF Walk_!WT, WT, Walks
    <2>11. Walk_!OnRoute(t)
      <3>1. RouteLen(WT(RunOf(t))) \in 1..8
        BY <2>1, RouteLength
      <3>2. walker[t].idx < RouteLen(WT(RunOf(t)))
        BY <2>1, <2>3, <3>1 DEF Last
      <3> QED BY <2>9, <2>10, <3>2, SameTables DEF Walk_!OnRoute, Walks
    <2>12. m.outcome.verdict
              \in ParsedVerdicts(AgentsRegistry(WT(RunOf(t)))[AgentNum(t)]) \cup {NoVerdict}
      <3>1. m.outcome \in Outcomes(walker[t].job)
        BY <1>3, <2>2
      <3> QED BY <2>3, <3>1 DEF Outcomes, Outcome, NoOutcome, AgentNum
    <2>13. Walk_!Stage(t) = AgentNum(t)
      BY <2>9, <2>10, SameTables DEF Walk_!Stage, AgentNum, Walks
    <2>14. m.outcome.verdict
              \in Walk_!ParsedVerdicts(Walk_!AgentsRegistry(Walk_!WT(t))[Walk_!Stage(t)])
                     \cup {Walk_!NoVerdict}
      BY <2>10, <2>12, <2>13, SameTables
    <2>15. Walk_!Moved(t, Walk_!At(Walks[t].run, Walks[t].idx, m.outcome.verdict))
      BY <2>8, <2>9 DEF Walk_!Moved, Walks
    <2>16. Walk_!Report(t)
      BY <1>1, <2>9, <2>11, <2>14, <2>15 DEF Walk_!Report, Walk_!Waiting, Rows, Walks
    <2> QED BY <2>16 DEF Implements, Walk_!Next
  <1> QED BY <1>4, <1>5

LEMMA RestImplements ==
    ASSUME IInv, Fault \/ (\E w \in Workers : Work(w)) \/ UNCHANGED vars
    PROVE  Implements
  <1> USE DEF row, db, orch, broker
  <1>1. CASE OrchCrash
    <2>1. Walks' = [t \in Tasks |-> IF t \in Tasks THEN WalkOf(FreeSlot) ELSE Walks[t]]
      BY <1>1 DEF OrchCrash, Walks
    <2> QED BY <1>1, <2>1, WalkersLeave DEF OrchCrash, Rows, RowOf
  <1>2. ASSUME NEW t \in Tasks, WalkerError(t)
        PROVE  Implements
    BY <1>2, WalkerReturns DEF WalkerError, Rows, RowOf, IInv, TypeOK
  <1>3. CASE LoopError
    <2>1. CASE UNCHANGED status
      BY <1>3, <2>1, NothingSeen DEF LoopError
    <2>2. CASE Handling("resume") /\ SetStatus(loop.cur.run, "running")
      <3>1. LoopOK /\ RowsOK
        BY DEF IInv, TypeOK
      <3>2. loop.cur.run \in Runs
        BY <2>2, <3>1 DEF LoopOK, Handling, Nothing, Todo, Todos, NoAction
      <3>3. Rows' = Rows
        BY <2>2, <3>1, <3>2, RowKept DEF Stored
      <3> QED BY <1>3, <3>3, Stutter DEF LoopError, Walks
    <2> QED BY <1>3, <2>1, <2>2 DEF LoopError
  <1>4. CASE \/ \E u \in Users : WebCrash(u)
             \/ \E w \in Workers : WorkerCrash(w) \/ RejectJob(w) \/ Work(w)
    BY <1>4, NothingSeen DEF WebCrash, WorkerCrash, RejectJob, Work, TakeJob, FinishJob
  <1>5. CASE UNCHANGED vars
    BY <1>5, NothingSeen DEF vars
  <1> QED BY <1>1, <1>2, <1>3, <1>4, <1>5 DEF Fault

-------------------------------------------------------------------------------
LEMMA WalkInit == Init => Walk_!Init
  <1> SUFFICES ASSUME Init PROVE Walk_!Init
    OBVIOUS
  <1>1. \A r \in Runs : RowOf(r) = "unborn"
    BY DEF Init, RowOf
  <1>2. \A t \in Tasks : WalkOf(walker[t]) = Walk_!Nowhere
    BY DEF Init, WalkOf, FreeSlot, Frame, NoRun, Walk_!Nowhere, Walk_!At, Walk_!Unanswered
  <1> QED BY <1>1, <1>2 DEF Walk_!Init, Init

\* Every behaviour of the orchestrator, its database, its queues and its users
\* is one of PipelineWalk: no walk leaves its route.
THEOREM WalksFollowRoute == Spec => FollowsRoute
  <1>1. Init => Walk_!Init
    BY WalkInit
  <1>2. Init => PlacesSound
    BY DEF Init, PlacesSound, PlaceSound, FreeSlot, Frame
  <1>3. IInv /\ PlacesSound /\ [Next]_vars => PlacesSound'
    BY PlacesStep
  <1>4. IInv /\ PlacesSound /\ [Next]_vars => [Walk_!Next]_(Walk_!vars)
    <2> SUFFICES ASSUME IInv, PlacesSound, [Next]_vars PROVE Implements
      BY DEF Implements
    <2> QED BY ApiImplements, LoopImplements, WalkerImplements, ConsumeImplements,
               RestImplements DEF Next
  <1> QED BY <1>1, <1>2, <1>3, <1>4, InvHolds, PTL DEF Spec, FollowsRoute, Walk_!Spec
===============================================================================
