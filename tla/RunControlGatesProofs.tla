------------------------- MODULE RunControlGatesProofs -------------------------
(***************************************************************************)
(* Theorems about the gates of RunControl, for any number of runs, tasks   *)
(* and workers: what one reviewer, any cancels and any faults but a crash  *)
(* of the orchestrator can not bring about.  GateInv is inductive under    *)
(* the assumptions the theorems name.                                      *)
(***************************************************************************)
EXTENDS RunControlGates, RunControlProofs

-------------------------------------------------------------------------------
\* What a step can change of one run.

\* A frame whose run is named is that of a task, and the run is one.
LEMMA LiveFrame ==
    ASSUME WalkersOK, NEW t \in Tasks, NEW r \in Runs, walker[t].run = r
    PROVE  walker[t] \in Frames
  <1>1. FreeSlot.run = NoRun
    BY DEF FreeSlot, Frame
  <1>2. NoRun \notin Runs
    BY RunsAssumption DEF NoRun
  <1> QED BY <1>1, <1>2 DEF WalkersOK

\* A row appears by being filed; every other statement writes rows that are there.
LEMMA Born ==
    ASSUME IInv, [Next]_vars, NEW r \in Runs, Exists(r)'
    PROVE  Exists(r) \/ \E u \in Users : CreateRun(u, r)
  <1> USE DEF row, db, orch, broker
  <1>0. status \in [Runs -> Statuses]
    BY DEF IInv, TypeOK, RowsOK
  <1>1. ASSUME UNCHANGED status
        PROVE  Exists(r)
    BY <1>1 DEF Exists
  <1>2. ASSUME NEW q, NEW s, SetStatus(q, s)
        PROVE  Exists(r)
    BY <1>0, <1>2 DEF Exists, SetStatus, Set
  <1>3. ASSUME NEW u \in Users, UserAsks(u)
        PROVE  Exists(r) \/ \E v \in Users : CreateRun(v, r)
    <2>1. ASSUME NEW q \in Runs, CreateRun(u, q)
          PROVE  Exists(r) \/ CreateRun(u, r)
      BY <1>0, <2>1 DEF CreateRun, Exists
    <2> QED BY <1>1, <1>3, <2>1
            DEF UserAsks, AskCancel, AskDelete, AskRestart, AskApprove, AskReject
  <1>4. ASSUME NEW u \in Users, Handler(u)
        PROVE  Exists(r)
    <2>1. CASE DeleteRow(u)
      BY <1>0, <2>1 DEF DeleteRow, Exists, Stored
    <2> QED BY <1>1, <1>2, <1>4, <2>1
            DEF Handler, SignalStart, SignalResume, MarkCancelled, MarkRejected, ResetRow,
                Approve, Reject
  <1>5. ASSUME MainLoop
        PROVE  Exists(r)
    BY <1>1, <1>2, <1>5 DEF MainLoop, Boot, RecoverRun, FetchActions, ClearAction, StartRun,
                            ResumeRun, DropAction, CancelRun
  <1>6. ASSUME NEW t \in Tasks, Walk(t) \/ Expire(t)
        PROVE  Exists(r)
    BY <1>1, <1>2, <1>6
       DEF Walk, Begin, Claim, Top, CreateStep, Publish, Register, FailExpired, RecordRisk,
           Reread, RollBack, GiveUp, OpenCheckpoint, Park, Advance, OpenMR, Complete,
           DoneCallback, Locally, Expire
  <1>7. CASE ConsumeResult \/ Fault \/ (\E w \in Workers : Work(w)) \/ UNCHANGED vars
    BY <1>1, <1>2, <1>7 DEF ConsumeResult, Fault, LoopError, OrchCrash, WebCrash, WalkerError,
                            WorkerCrash, RejectJob, Work, TakeJob, FinishJob, vars
  <1> QED BY <1>3, <1>4, <1>5, <1>6, <1>7 DEF Next

\* The columns a walker works by are written by that walker, unless the row goes.
LEMMA RowMoves ==
    ASSUME IInv, WalkedOnce, [Next]_vars, NEW r \in Runs, Exists(r), Exists(r)'
    PROVE  \/ UNCHANGED <<stepIdx[r], rollbacks[r], risk[r]>>
           \/ \E t \in Tasks : RunOf(t) = r /\ (RollBack(t) \/ Park(t) \/ Advance(t) \/ RecordRisk(t))
  <1> USE DEF row, db, orch, broker
  <1>0. RowsOK /\ LoopOK /\ RequestsOK /\ WalkersOK
    BY DEF IInv, TypeOK
  <1>1. ASSUME UNCHANGED <<stepIdx, rollbacks, risk>>
        PROVE  UNCHANGED <<stepIdx[r], rollbacks[r], risk[r]>>
    BY <1>1
  <1>2. ASSUME NEW u \in Users, UserAsks(u)
        PROVE  UNCHANGED <<stepIdx[r], rollbacks[r], risk[r]>>
    BY <1>1, <1>2 DEF UserAsks, CreateRun, AskCancel, AskDelete, AskRestart, AskApprove,
                      AskReject
  <1>3. ASSUME NEW u \in Users, Handler(u)
        PROVE  UNCHANGED <<stepIdx[r], rollbacks[r], risk[r]>>
    <2>1. CASE DeleteRow(u)
      <3>1. request[u].run \in Runs
        BY <1>0, <2>1, RequestTyped DEF DeleteRow, InFlight
      <3>2. r # request[u].run
        BY <1>0, <2>1, <3>1 DEF DeleteRow, Exists, RowsOK, Stored
      <3> QED BY <1>0, <2>1, <3>2 DEF DeleteRow, RowsOK
    <2>2. ~ResetRow(u)
      BY DEF WalkedOnce, ResetRow, InFlight
    <2> QED BY <1>1, <1>3, <2>1, <2>2
            DEF Handler, SignalStart, SignalResume, MarkCancelled, MarkRejected, Approve, Reject
  <1>4. ASSUME MainLoop
        PROVE  UNCHANGED <<stepIdx[r], rollbacks[r], risk[r]>>
    <2>1. ~RecoverRun
      BY DEF WalkedOnce, RecoverRun
    <2> QED BY <1>1, <1>4, <2>1 DEF MainLoop, Boot, FetchActions, ClearAction, StartRun,
                                    ResumeRun, DropAction, CancelRun
  <1>5. ASSUME NEW t \in Tasks, Walk(t) \/ Expire(t)
        PROVE  \/ UNCHANGED <<stepIdx[r], rollbacks[r], risk[r]>>
               \/ RunOf(t) = r /\ (RollBack(t) \/ Park(t) \/ Advance(t) \/ RecordRisk(t))
    <2>1. CASE RollBack(t) \/ Park(t) \/ Advance(t) \/ RecordRisk(t)
      <3>1. CASE RunOf(t) # r
        BY <1>0, <2>1, <3>1 DEF RollBack, Park, Advance, RecordRisk, SetIdx, Set, RowsOK
      <3> QED BY <2>1, <3>1
    <2> QED BY <1>1, <1>5, <2>1
            DEF Walk, Begin, Claim, Top, CreateStep, Publish, Register, FailExpired, Reread,
                GiveUp, OpenCheckpoint, OpenMR, Complete, DoneCallback, Locally, Expire
  <1>6. CASE ConsumeResult \/ Fault \/ (\E w \in Workers : Work(w)) \/ UNCHANGED vars
    BY <1>1, <1>6 DEF ConsumeResult, Fault, LoopError, OrchCrash, WebCrash, WalkerError,
                      WorkerCrash, RejectJob, Work, TakeJob, FinishJob, vars
  <1> QED BY <1>2, <1>3, <1>4, <1>5, <1>6 DEF Next

\* A step of a task moves its own frame, which keeps its run or is freed.
LEMMA OwnFrame ==
    ASSUME WalkersOK, NEW t \in Tasks, Walk(t) \/ Expire(t) \/ WalkerError(t)
    PROVE  /\ walker[t] \in Frames
           /\ \A s \in Tasks \ {t} : walker'[s] = walker[s]
           /\ walker'[t] = FreeSlot \/ walker'[t].run = walker[t].run
  <1>1. walker[t] \in Frames
    BY FrameTyped
       DEF Walk, Begin, Claim, Top, CreateStep, Publish, Register, FailExpired,
           RecordRisk, Reread, RollBack, GiveUp, OpenCheckpoint, Park, Advance, OpenMR,
           Complete, DoneCallback, Judging, At, Expire, WalkerError
  <1> DEFINE Own == /\ \A s \in Tasks \ {t} : walker'[s] = walker[s]
                    /\ walker'[t] = FreeSlot \/ walker'[t].run = walker[t].run
  <1>2. ASSUME NEW pc, Goto(t, pc)
        PROVE  Own
    BY <1>1, <1>2 DEF Goto, WalkersOK, Frames
  <1>3. ASSUME NEW pc, NEW i, Continue(t, pc, i)
        PROVE  Own
    BY <1>3 DEF Continue, WalkersOK, Between, Frame, RunOf
  <1>4. ASSUME Return(t)
        PROVE  Own
    BY <1>3, <1>4 DEF Return
  <1>5. ASSUME NEW pc, NEW x, \/ walker' = [walker EXCEPT ![t].pc = pc, ![t].seen = x]
                              \/ walker' = [walker EXCEPT ![t].pc = pc, ![t].job = x]
        PROVE  Own
    BY <1>1, <1>5 DEF WalkersOK, Frames
  <1>6. ASSUME DoneCallback(t)
        PROVE  Own
    BY <1>6 DEF DoneCallback, WalkersOK
  <1> HIDE DEF Own
  <1>7. Own
    <2>1. CASE Begin(t) \/ RollBack(t) \/ Advance(t)
      BY <1>3, <1>4, <2>1 DEF Begin, RollBack, Advance
    <2>2. CASE Claim(t) \/ Register(t) \/ RecordRisk(t) \/ OpenMR(t) \/ Expire(t)
      BY <1>2, <2>2 DEF Claim, Register, RecordRisk, OpenMR, Expire
    <2>3. CASE FailExpired(t) \/ GiveUp(t) \/ Park(t) \/ Complete(t) \/ WalkerError(t)
      BY <1>4, <2>3 DEF FailExpired, GiveUp, Park, Complete, WalkerError
    <2>4. CASE CreateStep(t) \/ OpenCheckpoint(t)
      BY <1>2, <1>4, <2>4 DEF CreateStep, OpenCheckpoint
    <2>5. CASE Top(t) \/ Reread(t) \/ Publish(t)
      BY <1>2, <1>4, <1>5, <2>5 DEF Top, Reread, Publish
    <2> QED BY <1>6, <2>1, <2>2, <2>3, <2>4, <2>5 DEF Walk
  <1> QED BY <1>1, <1>7 DEF Own

\* A frame that is told the end of its stage keeps everything else.
LEMMA ToldFrame ==
    ASSUME WalkersOK, ConsumeResult, NEW t \in Tasks
    PROVE  \/ walker'[t] = walker[t]
           \/ /\ walker[t].pc = "wait" /\ walker'[t].pc = "answered"
              /\ walker'[t].run = walker[t].run /\ walker'[t].idx = walker[t].idx
              /\ walker'[t].seen = walker[t].seen
  <1>1. CASE At(t, "wait")
    <2>1. walker[t] \in Frames
      BY <1>1, FrameTyped DEF At
    <2> QED BY <1>1, <2>1 DEF ConsumeResult, Frames, At
  <1>2. CASE ~At(t, "wait")
    BY <1>2 DEF ConsumeResult
  <1> QED BY <1>1, <1>2

\* The turn of a run comes to no place it was not at.
Settled(r) ==
    /\ Walked(r)' => Walked(r)
    /\ Signalling(r)' => Signalling(r)
    /\ Signalled(r)' => Signalled(r)
    /\ Taken(r)' => Taken(r)
    /\ PendingOf(r)' \subseteq PendingOf(r)

\* The steps that take it to another one.
TurnOn(r) ==
    \/ \E u \in Users : /\ request[u].run = r
                        /\ SignalStart(u) \/ SignalResume(u) \/ Approve(u)
    \/ ClearAction /\ NextTodo.run = r
    \/ (StartRun \/ ResumeRun) /\ loop.cur.run = r
    \/ \E t \in Tasks : OpenCheckpoint(t) /\ RunOf(t) = r

\* Whatever else happens, the turn of a run stays where it is or is lost.
LEMMA TurnStays ==
    ASSUME IInv, WalkedOnce, [Next]_vars, NEW r \in Runs, Exists(r), ~TurnOn(r)
    PROVE  Settled(r)
  <1> USE DEF row, db, orch, broker
  <1>0. RowsOK /\ LoopOK /\ RequestsOK /\ WalkersOK /\ TablesOK
    BY DEF IInv, TypeOK
  <1>1. UNCHANGED walker => (Walked(r)' => Walked(r))
    BY DEF Walked
  <1>2. UNCHANGED request => (Signalling(r)' => Signalling(r))
    BY DEF Signalling
  <1>3. UNCHANGED <<action, loop>> => (Signalled(r)' => Signalled(r)) /\ (Taken(r)' => Taken(r))
    BY DEF Signalled, Taken
  <1>4. UNCHANGED checkpoints => PendingOf(r)' \subseteq PendingOf(r)
    BY DEF PendingOf
  <1>5. ASSUME NEW u \in Users, UserAsks(u)
        PROVE  Settled(r)
    <2>1. Signalling(r)' => Signalling(r)
      <3>1. ASSUME NEW pc, NEW q, NEW k, Then(u, Request(pc, q, k)),
                   pc \notin {"signalStart", "signalResume"} \/ q # r
            PROVE  Signalling(r)' => Signalling(r)
        BY <1>0, <3>1 DEF Then, Signalling, Request, RequestsOK
      <3>2. ASSUME NEW q \in Runs, CreateRun(u, q)
            PROVE  q # r
        BY <3>2 DEF CreateRun, Exists, Stored
      <3> QED BY <1>5, <3>1, <3>2
              DEF UserAsks, CreateRun, AskCancel, AskDelete, AskRestart, AskApprove, AskReject
    <2> QED BY <1>1, <1>3, <1>4, <1>5, <2>1
            DEF UserAsks, CreateRun, AskCancel, AskDelete, AskRestart, AskApprove, AskReject,
                Settled
  <1>6. ASSUME NEW u \in Users, Handler(u)
        PROVE  Settled(r)
    <2>1. request[u] \in [pc : RequestPCs, run : Runs, cp : Nat]
      BY <1>0, <1>6, RequestTyped DEF Handler, SignalStart, SignalResume, MarkCancelled,
            MarkRejected, ResetRow, DeleteRow, Approve, Reject, InFlight
    <2>2. ASSUME NEW pc, NEW k, Then(u, Request(pc, request[u].run, k)),
                 pc \notin {"signalStart", "signalResume"} \/ request[u].run # r
          PROVE  Signalling(r)' => Signalling(r)
      BY <1>0, <2>2 DEF Then, Signalling, Request, RequestsOK
    <2>3. ASSUME Answered(u)
          PROVE  Signalling(r)' => Signalling(r)
      BY <1>0, <2>3 DEF Answered, Then, Signalling, Idle, Request, RequestsOK
    <2>4. ASSUME NEW q, NEW a, SetAction(q, a), UNCHANGED loop, q # r \/ a \notin Signals
          PROVE  (Signalled(r)' => Signalled(r)) /\ (Taken(r)' => Taken(r))
      BY <1>0, <2>4 DEF SetAction, Set, Signalled, Taken, RowsOK
    <2>5. ASSUME NEW k, NEW s \in {"approved", "rejected"}, Decide(k, s)
          PROVE  PendingOf(r)' \subseteq PendingOf(r)
      <3>1. ASSUME NEW c \in PendingOf(r)'
            PROVE  c \in PendingOf(r)
        <4>1. PICK d \in checkpoints : c = IF d.id = k THEN [d EXCEPT !.status = s] ELSE d
          BY <2>5, <3>1 DEF Decide, PendingOf
        <4>2. d \in Checkpoints /\ c.status = "pending" /\ c.run = r
          BY <1>0, <3>1 DEF TablesOK, PendingOf
        <4>3. d.id # k
          BY <4>1, <4>2 DEF Checkpoints
        <4> QED BY <3>1, <4>1, <4>3 DEF PendingOf
      <3> QED BY <3>1
    <2>6. CASE SignalStart(u) \/ SignalResume(u)
      <3>1. request[u].run # r
        BY <2>6 DEF TurnOn
      <3> QED BY <1>1, <1>4, <2>3, <2>4, <2>6, <3>1 DEF SignalStart, SignalResume, Settled
    <2>7. CASE MarkCancelled(u)
      BY <1>1, <1>4, <2>3, <2>4, <2>7 DEF MarkCancelled, Settled, Signals
    <2>8. CASE DeleteRow(u)
      <3>1. PendingOf(r)' \subseteq PendingOf(r)
        BY <2>8 DEF DeleteRow, PendingOf
      <3>2. (Signalled(r)' => Signalled(r)) /\ (Taken(r)' => Taken(r))
        BY <1>0, <2>8 DEF DeleteRow, Signalled, Taken, Signals, NoAction, RowsOK
      <3> QED BY <1>1, <2>3, <2>8, <3>1, <3>2 DEF DeleteRow, Settled
    <2>9. ~ResetRow(u)
      BY DEF WalkedOnce, ResetRow, InFlight
    <2>10. CASE Approve(u)
      <3>1. request[u].run # r
        BY <2>10 DEF TurnOn
      <3> QED BY <1>1, <1>3, <2>2, <2>5, <2>10, <3>1 DEF Approve, Settled
    <2>11. CASE Reject(u)
      BY <1>1, <1>3, <2>2, <2>5, <2>11 DEF Reject, Settled
    <2>12. CASE MarkRejected(u)
      BY <1>1, <1>3, <1>4, <2>3, <2>12 DEF MarkRejected, Settled
    <2> QED BY <1>6, <2>6, <2>7, <2>8, <2>9, <2>10, <2>11, <2>12 DEF Handler
  <1>7. ASSUME MainLoop
        PROVE  Settled(r)
    <2>1. CASE Boot
      <3>1. loop.todo = {} /\ loop.pc = "down" /\ \A q \in Runs : status[q] # "running"
        BY <2>1 DEF WalkedOnce, Boot
      <3>2. loop' = LoopAt("recover", {}, Nothing)
        BY <2>1, <3>1 DEF Boot
      <3>3. (Signalled(r)' => Signalled(r)) /\ ~Taken(r)'
        BY <2>1, <3>1, <3>2 DEF Signalled, Taken, LoopAt, Boot
      <3> QED BY <1>1, <1>2, <1>4, <2>1, <3>3 DEF Boot, Settled
    <2>2. ~RecoverRun
      BY DEF WalkedOnce, RecoverRun
    <2>3. CASE FetchActions
      <3>1. loop' = LoopAt("rows", {Todo(q, action[q]) : q \in {p \in Runs : action[p] # NoAction}},
                           Nothing)
        BY <2>3 DEF FetchActions
      <3>2. \A a : Todo(r, a) \in loop'.todo => a = action[r]
        BY <3>1 DEF LoopAt, Todo
      <3>3. (Signalled(r)' => Signalled(r)) /\ ~Taken(r)'
        BY <2>3, <3>1, <3>2 DEF Signalled, Taken, LoopAt, FetchActions
      <3> QED BY <1>1, <1>2, <1>4, <2>3, <3>3 DEF FetchActions, Settled
    <2>4. CASE ClearAction
      <3>1. NextTodo.run # r
        BY <2>4 DEF TurnOn
      <3>2. loop' = LoopAt("act", loop.todo \ {NextTodo}, NextTodo)
            /\ SetAction(NextTodo.run, NoAction)
        BY <2>4 DEF ClearAction
      <3>3. loop'.todo \subseteq loop.todo /\ loop'.cur.run # r
        BY <3>1, <3>2 DEF LoopAt
      <3>4. action'[r] = action[r]
        BY <1>0, <3>1, <3>2 DEF SetAction, Set, RowsOK
      <3>5. (Signalled(r)' => Signalled(r)) /\ ~Taken(r)'
        BY <3>3, <3>4 DEF Signalled, Taken
      <3> QED BY <1>1, <1>2, <1>4, <2>4, <3>5 DEF ClearAction, Settled
    <2>5. ASSUME Handled
          PROVE  loop'.todo = loop.todo /\ loop'.pc = "rows"
      BY <2>5 DEF Handled, LoopAt
    <2>6. CASE StartRun \/ ResumeRun
      <3>1. loop.cur.run # r
        BY <2>6 DEF TurnOn
      <3>2. PICK t \in Tasks : /\ walker[t] = FreeSlot
                               /\ walker' = [walker EXCEPT ![t] = Frame(loop.cur.run)]
        BY <2>6 DEF StartRun, ResumeRun, Spawn
      <3>3. Walked(r)' => Walked(r)
        BY <1>0, <3>1, <3>2 DEF Walked, Frame, WalkersOK
      <3>4. (Signalled(r)' => Signalled(r)) /\ ~Taken(r)'
        BY <2>5, <2>6 DEF StartRun, ResumeRun, Signalled, Taken
      <3> QED BY <1>2, <1>4, <2>6, <3>3, <3>4 DEF StartRun, ResumeRun, Settled
    <2>7. CASE DropAction
      <3>1. (Signalled(r)' => Signalled(r)) /\ ~Taken(r)'
        BY <2>5, <2>7 DEF DropAction, Signalled, Taken
      <3> QED BY <1>1, <1>2, <1>4, <2>7, <3>1 DEF DropAction, Settled
    <2>8. CASE CancelRun
      <3>1. (Signalled(r)' => Signalled(r)) /\ ~Taken(r)'
        BY <2>5, <2>8 DEF CancelRun, Signalled, Taken
      <3>2. Walked(r)' => Walked(r)
        BY <2>8 DEF CancelRun, Walked, FreeSlot, Frame, Moving, WalkerPCs
      <3> QED BY <1>2, <1>4, <2>8, <3>1, <3>2 DEF CancelRun, Settled
    <2> QED BY <1>7, <2>1, <2>2, <2>3, <2>4, <2>6, <2>7, <2>8 DEF MainLoop
  <1>8. ASSUME NEW t \in Tasks, Walk(t) \/ Expire(t) \/ WalkerError(t)
        PROVE  Settled(r)
    <2>1. Walked(r)' => Walked(r)
      <3> SUFFICES ASSUME NEW s \in Tasks, walker'[s].run = r, walker'[s].pc \in Moving
                   PROVE  walker[s].run = r /\ walker[s].pc \in Moving
        BY DEF Walked
      <3>1. CASE s # t
        BY <1>0, <1>8, <3>1, OwnFrame
      <3>2. CASE s = t
        <4>1. walker[t] \in Frames /\ (walker'[t] = FreeSlot \/ walker'[t].run = walker[t].run)
          BY <1>0, <1>8, OwnFrame
        <4>2. walker'[t] # FreeSlot
          BY <3>2 DEF FreeSlot, Frame, Moving, WalkerPCs
        <4>3. walker[t].pc \notin {"park", "done"}
          <5>1. ASSUME NEW pc, NEW i, Continue(t, pc, i)
                PROVE  walker'[t].pc = pc
            BY <1>0, <5>1 DEF Continue, WalkersOK, Between, Frame
          <5>2. ~Return(t)
            BY <3>2, <5>1 DEF Return, Moving
          <5>3. ~Park(t) /\ ~DoneCallback(t) /\ ~WalkerError(t)
            BY <1>0, <4>2, <5>2 DEF Park, DoneCallback, WalkersOK, WalkerError
          <5> QED BY <1>8, <5>3
                  DEF Walk, Begin, Claim, Top, CreateStep, Publish, Register, FailExpired,
                      RecordRisk, Reread, RollBack, GiveUp, OpenCheckpoint, Advance, OpenMR,
                      Complete, Judging, At, Expire
        <4>4. walker[t].pc \in WalkerPCs
          BY <4>1 DEF Frames
        <4> QED BY <3>2, <4>1, <4>2, <4>3, <4>4 DEF Moving
      <3> QED BY <3>1, <3>2
    <2>2. PendingOf(r)' \subseteq PendingOf(r)
      <3>1. CASE OpenCheckpoint(t)
        <4>1. RunOf(t) # r
          BY <3>1 DEF TurnOn
        <4> QED BY <3>1, <4>1 DEF OpenCheckpoint, PendingOf
      <3> QED BY <1>4, <1>8, <3>1
              DEF Walk, Begin, Claim, Top, CreateStep, Publish, Register, FailExpired,
                  RecordRisk, Reread, RollBack, GiveUp, Park, Advance, OpenMR,
                  Complete, DoneCallback, Locally, Expire, WalkerError
    <2>3. UNCHANGED <<request, action, loop>>
      BY <1>8 DEF Walk, Begin, Claim, Top, CreateStep, Publish, Register, FailExpired,
                  RecordRisk, Reread, RollBack, GiveUp, OpenCheckpoint, Park, Advance, OpenMR,
                  Complete, DoneCallback, Locally, Expire, WalkerError
    <2> QED BY <1>2, <1>3, <2>1, <2>2, <2>3 DEF Settled
  <1>9. CASE ConsumeResult
    <2>1. Walked(r)' => Walked(r)
      BY <1>0, <1>9, ToldFrame DEF Walked, Moving, WalkerPCs
    <2> QED BY <1>2, <1>3, <1>4, <1>9, <2>1 DEF ConsumeResult, Settled
  <1>10. CASE Fault
    <2>1. CASE LoopError
      <3>1. (Signalled(r)' => Signalled(r)) /\ ~Taken(r)'
        BY <2>1 DEF LoopError, LoopAt, Signalled, Taken
      <3> QED BY <1>1, <1>2, <1>4, <2>1, <3>1 DEF LoopError, Settled
    <2>2. ~OrchCrash
      BY DEF WalkedOnce, OrchCrash, Spend
    <2>3. ASSUME NEW u \in Users, WebCrash(u)
          PROVE  Settled(r)
      <3>1. Signalling(r)' => Signalling(r)
        BY <1>0, <2>3 DEF WebCrash, Answered, Then, Signalling, Idle, Request, RequestsOK
      <3> QED BY <1>1, <1>3, <1>4, <2>3, <3>1 DEF WebCrash, Settled
    <2>4. ASSUME NEW w \in Workers, WorkerCrash(w) \/ RejectJob(w)
          PROVE  Settled(r)
      BY <1>1, <1>2, <1>3, <1>4, <2>4 DEF WorkerCrash, RejectJob, Settled
    <2> QED BY <1>8, <1>10, <2>1, <2>2, <2>3, <2>4 DEF Fault
  <1>11. CASE (\E w \in Workers : Work(w)) \/ UNCHANGED vars
    BY <1>1, <1>2, <1>3, <1>4, <1>11 DEF Work, TakeJob, FinishJob, vars, Settled
  <1> QED BY <1>5, <1>6, <1>7, <1>8, <1>9, <1>10, <1>11 DEF Next

-------------------------------------------------------------------------------
\* Where the turn is.

\* A run has one task at most.
LEMMA Alone ==
    ASSUME IInv, NEW s \in Tasks, NEW t \in Tasks, NEW r \in Runs,
           walker[s].run = r, walker[t].run = r
    PROVE  s = t
  <1>1. Live(s) /\ Live(t)
    BY RunsAssumption DEF Live, FreeSlot, Frame, NoRun
  <1> QED BY <1>1 DEF IInv, ActiveHoldsWalkers, RunOf

\* The turn of a run is taken from the place it was at to one other place.
LEMMA OneTurnStep ==
    ASSUME IInv, GateInv, OneReviewer, [Next]_vars, NEW r \in Runs, Exists(r)'
    PROVE  OneTurn(r)'
  <1> USE DEF row, db, orch, broker
  <1>0. RowsOK /\ LoopOK /\ RequestsOK /\ WalkersOK /\ TablesOK /\ WalkedOnce /\ Addressed
    BY DEF IInv, TypeOK, GateInv
  <1>1. CASE ~Exists(r)
    <2>1. PICK u \in Users : CreateRun(u, r)
      BY <1>1, Born
    <2>2. Unheard(r)
      BY <2>1 DEF CreateRun, GateInv
    <2>3. ~Walked(r)' /\ PendingOf(r)' = {} /\ ~Taken(r)'
      BY <2>1, <2>2 DEF CreateRun, Unheard, Walked, PendingOf, Taken
    <2>4. ~Signalled(r)'
      BY <2>1, <2>2 DEF CreateRun, Unheard, Signalled, Signals, NoAction, Todo
    <2> QED BY <2>3, <2>4 DEF OneTurn, Asked
  <1>2. ASSUME Exists(r), Settled(r)
        PROVE  OneTurn(r)'
    BY <1>2 DEF GateInv, GatesKept, OneTurn, Settled, Asked
  <1>3. ASSUME Exists(r), NEW u \in Users, request[u].run = r, SignalStart(u) \/ SignalResume(u)
        PROVE  OneTurn(r)'
    <2>1. Signalling(r)
      BY <1>3 DEF Signalling, SignalStart, SignalResume, InFlight
    <2>2. ~Walked(r) /\ PendingOf(r) = {} /\ ~Taken(r)
      BY <1>3, <2>1 DEF GateInv, GatesKept, OneTurn, Asked
    <2>3. ~Walked(r)' /\ PendingOf(r)' = {} /\ ~Taken(r)'
      BY <1>3, <2>2 DEF SignalStart, SignalResume, Walked, PendingOf, Taken
    <2>4. ~Signalling(r)'
      BY <1>0, <1>3 DEF SignalStart, SignalResume, Answered, Then, Signalling, Idle, Request,
                        RequestsOK, OneReviewer
    <2> QED BY <2>3, <2>4 DEF OneTurn, Asked
  <1>4. ASSUME Exists(r), NEW u \in Users, request[u].run = r, Approve(u)
        PROVE  OneTurn(r)'
    <2>1. PICK c \in PendingOf(r) : c.id = request[u].cp
      BY <1>0, <1>4 DEF Addressed, Approve, InFlight
    <2>2. ~Walked(r) /\ ~Asked(r) /\ \A d \in PendingOf(r) : d = c
      BY <1>4, <2>1 DEF GateInv, GatesKept, OneTurn
    <2>3. PendingOf(r)' = {}
      <3>1. ASSUME NEW e \in PendingOf(r)'
            PROVE  FALSE
        <4>1. PICK d \in checkpoints :
                  e = IF d.id = request[u].cp THEN [d EXCEPT !.status = "approved"] ELSE d
          BY <1>4, <3>1 DEF Approve, Decide, PendingOf
        <4>2. d \in Checkpoints /\ e.status = "pending" /\ e.run = r
          BY <1>0, <3>1 DEF TablesOK, PendingOf
        <4>3. d.id # request[u].cp /\ e = d
          BY <4>1, <4>2 DEF Checkpoints
        <4> QED BY <2>1, <2>2, <4>2, <4>3 DEF PendingOf
      <3> QED BY <3>1
    <2>4. ~Walked(r)' /\ ~Signalled(r)' /\ ~Taken(r)'
      BY <1>4, <2>2 DEF Approve, Walked, Asked, Signalled, Taken
    <2> QED BY <2>3, <2>4 DEF OneTurn
  <1>5. ASSUME Exists(r), ClearAction, NextTodo.run = r
        PROVE  OneTurn(r)'
    <2>1. /\ loop' = LoopAt("act", loop.todo \ {NextTodo}, NextTodo)
          /\ SetAction(r, NoAction) /\ NextTodo \in loop.todo
      BY <1>0, <1>5, NextTodoTyped DEF ClearAction
    <2>2. ~Signalled(r)'
      <3>1. action'[r] = NoAction
        BY <1>0, <1>5, <2>1 DEF SetAction, Set, RowsOK
      <3>2. \A d \in loop'.todo : d.run # r
        BY <1>0, <1>5, <2>1 DEF Addressed, LoopAt
      <3> QED BY <3>1, <3>2 DEF Signalled, Signals, NoAction, Todo
    <2>3. Taken(r)' => Signalled(r)
      <3>1. SUFFICES ASSUME NextTodo.action \in Signals
                     PROVE  Signalled(r)
        BY <2>1 DEF Taken, LoopAt
      <3>2. NextTodo = Todo(r, NextTodo.action)
        BY <1>0, <1>5, <2>1 DEF LoopOK, Todos, Todo
      <3> QED BY <2>1, <3>1, <3>2 DEF Signalled
    <2>4. /\ Walked(r)' => Walked(r)
          /\ Signalling(r)' => Signalling(r)
          /\ PendingOf(r)' = PendingOf(r)
      BY <1>5 DEF ClearAction, Walked, Signalling, PendingOf
    <2> QED BY <1>5, <2>2, <2>3, <2>4 DEF GateInv, GatesKept, OneTurn, Asked
  <1>6. ASSUME Exists(r), StartRun \/ ResumeRun, loop.cur.run = r
        PROVE  OneTurn(r)'
    <2>1. Taken(r)
      BY <1>6 DEF StartRun, ResumeRun, Handling, Taken, Signals
    <2>2. PendingOf(r) = {} /\ ~Signalling(r) /\ ~Signalled(r)
      BY <1>6, <2>1 DEF GateInv, GatesKept, OneTurn, Asked
    <2>3. PendingOf(r)' = {} /\ ~Signalling(r)'
      BY <1>6, <2>2 DEF StartRun, ResumeRun, PendingOf, Signalling
    <2>4. ~Signalled(r)' /\ ~Taken(r)'
      BY <1>6, <2>2 DEF StartRun, ResumeRun, Handled, LoopAt, Signalled, Taken
    <2> QED BY <2>3, <2>4 DEF OneTurn, Asked
  <1>7. ASSUME Exists(r), NEW t \in Tasks, OpenCheckpoint(t), RunOf(t) = r
        PROVE  OneTurn(r)'
    <2>1. Walked(r)
      BY <1>7 DEF OpenCheckpoint, Judging, At, RunOf, Walked, Moving, WalkerPCs
    <2>2. PendingOf(r) = {} /\ ~Asked(r)
      BY <1>7, <2>1 DEF GateInv, GatesKept, OneTurn
    <2>3. ~Asked(r)'
      BY <1>7, <2>2 DEF OpenCheckpoint, Asked, Signalling, Signalled, Taken
    <2>4. walker' = [walker EXCEPT ![t].pc = "park"]
      BY <1>7 DEF OpenCheckpoint, Goto
    <2>5. ~Walked(r)'
      <3>1. SUFFICES ASSUME NEW s \in Tasks, walker'[s].run = r, walker'[s].pc \in Moving
                     PROVE  FALSE
        BY DEF Walked
      <3>2. walker[t] \in Frames
        BY <1>0, <1>7, LiveFrame DEF RunOf
      <3>3. walker'[t].pc = "park"
        BY <1>0, <2>4, <3>2 DEF Frames, WalkersOK
      <3>4. s # t
        BY <3>1, <3>3 DEF Moving
      <3>5. walker[s].run = r
        BY <1>0, <2>4, <3>1, <3>4 DEF WalkersOK
      <3> QED BY <1>7, <3>4, <3>5, Alone DEF RunOf
    <2>6. \A c, d \in PendingOf(r)' : c = d
      BY <1>7, <2>2 DEF OpenCheckpoint, PendingOf
    <2> QED BY <2>3, <2>5, <2>6 DEF OneTurn, Asked
  <1> QED BY <1>0, <1>1, <1>2, <1>3, <1>4, <1>5, <1>6, <1>7, TurnStays DEF TurnOn

\* What is spent is gone.
LEMMA LeftShrinks ==
    ASSUME IInv, [Next]_vars, NEW op \in BudgetOps
    PROVE  left'[op] <= left[op]
  <1> USE DEF row, db, orch, broker
  <1>0. left \in [BudgetOps -> Nat]
    BY DEF IInv, TypeOK, RequestsOK
  <1>1. ASSUME UNCHANGED left
        PROVE  left'[op] <= left[op]
    BY <1>0, <1>1
  <1>2. ASSUME NEW x, Spend(x)
        PROVE  left'[op] <= left[op]
    BY <1>0, <1>2 DEF Spend
  <1>3. ASSUME NEW u \in Users, UserAsks(u) \/ Handler(u)
        PROVE  left'[op] <= left[op]
    BY <1>1, <1>2, <1>3
       DEF UserAsks, CreateRun, AskCancel, AskDelete, AskRestart, AskApprove, AskReject,
           Handler, SignalStart, SignalResume, MarkCancelled, MarkRejected, ResetRow,
           DeleteRow, Approve, Reject
  <1>4. ASSUME MainLoop
        PROVE  left'[op] <= left[op]
    BY <1>1, <1>4 DEF MainLoop, Boot, RecoverRun, FetchActions, ClearAction, StartRun,
                      ResumeRun, DropAction, CancelRun
  <1>5. ASSUME NEW t \in Tasks, Walk(t) \/ Expire(t)
        PROVE  left'[op] <= left[op]
    BY <1>1, <1>2, <1>5
       DEF Walk, Begin, Claim, Top, CreateStep, Publish, Register, FailExpired, RecordRisk,
           Reread, RollBack, GiveUp, OpenCheckpoint, Park, Advance, OpenMR, Complete,
           DoneCallback, Locally, Expire
  <1>6. CASE ConsumeResult \/ Fault \/ (\E w \in Workers : Work(w)) \/ UNCHANGED vars
    BY <1>1, <1>2, <1>6 DEF ConsumeResult, Fault, LoopError, OrchCrash, WebCrash, WalkerError,
                      WorkerCrash, RejectJob, Work, TakeJob, FinishJob, vars
  <1> QED BY <1>3, <1>4, <1>5, <1>6 DEF Next

\* Without restarts and crashes no run is walked from its start again.
LEMMA WalkedOnceStep ==
    ASSUME IInv, WalkedOnce, [Next]_vars
    PROVE  WalkedOnce'
  <1> USE DEF row, db, orch, broker
  <1>0. RowsOK /\ LoopOK /\ RequestsOK /\ WalkersOK /\ WalkersOK'
    BY TypeStep DEF IInv, TypeOK
  <1>1. left'["restart"] = 0 /\ left'["orchCrash"] = 0
    <2>1. left' \in [BudgetOps -> Nat] /\ "restart" \in BudgetOps /\ "orchCrash" \in BudgetOps
      BY TypeStep DEF TypeOK, RequestsOK, BudgetOps
    <2> QED BY <2>1, LeftShrinks DEF WalkedOnce
  <1> DEFINE NoReset == \A u \in Users : request'[u].pc # "resetRow"
             Up      == /\ loop'.pc \in {"down", "recover"} =>
                              loop'.todo = {} /\ \A t \in Tasks : walker'[t] = FreeSlot
                        /\ loop'.pc = "down" => \A r \in Runs : status'[r] # "running"
  <1>2. UNCHANGED request => NoReset
    BY DEF WalkedOnce
  <1>3. UNCHANGED <<loop, walker, status>> => Up
    BY DEF WalkedOnce
  <1>4. ASSUME loop.pc \notin {"down", "recover"}, loop' = loop
        PROVE  Up
    BY <1>4
  <1>5. \A pc, x, y : LoopAt(pc, x, y).pc = pc /\ LoopAt(pc, x, y).todo = x
    BY DEF LoopAt
  <1>6. ASSUME NEW q, NEW s, SetStatus(q, s), s # "running", UNCHANGED <<loop, walker>>
        PROVE  Up
    BY <1>0, <1>6 DEF SetStatus, Set, WalkedOnce, RowsOK
  <1>7. ASSUME NEW u \in Users, UserAsks(u)
        PROVE  NoReset /\ Up
    <2>1. ~\E r \in Runs : AskRestart(u, r)
      BY DEF AskRestart, Spend, WalkedOnce
    <2>2. ASSUME NEW pc, NEW q, NEW k, Then(u, Request(pc, q, k)), pc # "resetRow"
          PROVE  NoReset
      BY <1>0, <2>2 DEF Then, Request, RequestsOK, WalkedOnce
    <2>3. ASSUME NEW q \in Runs, CreateRun(u, q)
          PROVE  Up
      BY <1>0, <2>3 DEF CreateRun, WalkedOnce, RowsOK
    <2> HIDE DEF NoReset, Up
    <2> QED BY <1>3, <1>7, <2>1, <2>2, <2>3
            DEF UserAsks, CreateRun, AskCancel, AskDelete, AskApprove, AskReject
  <1>8. ASSUME NEW u \in Users, Handler(u)
        PROVE  NoReset /\ Up
    <2>1. ~ResetRow(u)
      BY DEF ResetRow, InFlight, WalkedOnce
    <2>2. ASSUME NEW pc, NEW q, NEW k, Then(u, Request(pc, q, k)), pc # "resetRow"
          PROVE  NoReset
      BY <1>0, <2>2 DEF Then, Request, RequestsOK, WalkedOnce
    <2>3. Answered(u) => NoReset
      BY <2>2 DEF Answered, Idle
    <2>4. ASSUME DeleteRow(u)
          PROVE  Up
      BY <1>0, <2>4 DEF DeleteRow, WalkedOnce, RowsOK
    <2> HIDE DEF NoReset, Up
    <2> QED BY <1>3, <1>6, <1>8, <2>1, <2>2, <2>3, <2>4
            DEF Handler, SignalStart, SignalResume, MarkCancelled, MarkRejected, DeleteRow,
                Approve, Reject
  <1>9. ASSUME MainLoop
        PROVE  Up
    <2>1. CASE Boot
      BY <1>0, <1>5, <2>1 DEF Boot, WalkedOnce
    <2>2. CASE FetchActions \/ ClearAction \/ StartRun \/ ResumeRun \/ DropAction \/ CancelRun
      BY <1>5, <2>2 DEF FetchActions, ClearAction, StartRun, ResumeRun, DropAction, CancelRun,
                        Handled
    <2>3. ~RecoverRun
      BY DEF RecoverRun, WalkedOnce
    <2> QED BY <1>9, <2>1, <2>2, <2>3 DEF MainLoop
  <1>10. ASSUME NEW t \in Tasks, Walk(t) \/ Expire(t) \/ WalkerError(t)
         PROVE  Up
    <2>1. walker[t] # FreeSlot
      BY <1>0, <1>10, OwnFrame, RunsAssumption DEF Frames, FreeSlot, Frame, NoRun
    <2>2. UNCHANGED loop
      BY <1>10 DEF Walk, Begin, Claim, Top, CreateStep, Publish, Register, FailExpired,
                   RecordRisk, Reread, RollBack, GiveUp, OpenCheckpoint, Park, Advance, OpenMR,
                   Complete, DoneCallback, Locally, Expire, WalkerError
    <2> QED BY <1>4, <2>1, <2>2 DEF WalkedOnce
  <1>11. ASSUME ConsumeResult
         PROVE  Up
    <2>1. \A t \in Tasks : walker[t] = FreeSlot => walker'[t] = FreeSlot
      BY <1>11 DEF ConsumeResult, At, FreeSlot, Frame
    <2> QED BY <1>11, <2>1 DEF ConsumeResult, WalkedOnce
  <1>12. ASSUME Fault
         PROVE  NoReset /\ Up
    <2>1. ~OrchCrash
      BY DEF OrchCrash, Spend, WalkedOnce
    <2>2. ASSUME LoopError
          PROVE  Up
      BY <1>5, <2>2 DEF LoopError
    <2>3. ASSUME NEW u \in Users, WebCrash(u)
          PROVE  NoReset
      BY <1>0, <2>3 DEF WebCrash, Answered, Then, Idle, Request, RequestsOK, WalkedOnce
    <2> HIDE DEF NoReset, Up
    <2>4. Up
      BY <1>3, <1>10, <1>12, <2>1, <2>2 DEF Fault, WebCrash, WorkerCrash, RejectJob
    <2>5. NoReset
      BY <1>2, <1>12, <2>1, <2>3
         DEF Fault, LoopError, WalkerError, WorkerCrash, RejectJob
    <2> QED BY <2>4, <2>5
  <1> HIDE DEF NoReset, Up
  <1>13. NoReset
    <2>1. ASSUME MainLoop \/ ConsumeResult \/ (\E w \in Workers : Work(w)) \/ UNCHANGED vars
          PROVE  UNCHANGED request
      BY <2>1 DEF MainLoop, Boot, RecoverRun, FetchActions, ClearAction, StartRun,
                  ResumeRun, DropAction, CancelRun, ConsumeResult, Work, TakeJob, FinishJob, vars
    <2>2. ASSUME NEW t \in Tasks, Walk(t) \/ Expire(t)
          PROVE  UNCHANGED request
      BY <2>2 DEF Walk, Begin, Claim, Top, CreateStep, Publish, Register, FailExpired,
                   RecordRisk, Reread, RollBack, GiveUp, OpenCheckpoint, Park, Advance, OpenMR,
                   Complete, DoneCallback, Locally, Expire
    <2> QED BY <1>2, <1>7, <1>8, <1>12, <2>1, <2>2 DEF Next
  <1>14. Up
    <2>1. ASSUME (\E w \in Workers : Work(w)) \/ UNCHANGED vars
          PROVE  UNCHANGED <<loop, walker, status>>
      BY <2>1 DEF Work, TakeJob, FinishJob, vars
    <2> QED BY <1>3, <1>7, <1>8, <1>9, <1>10, <1>11, <1>12, <2>1 DEF Next
  <1> QED BY <1>1, <1>13, <1>14 DEF WalkedOnce, NoReset, Up

\* Checkpoints keep their names, and a decision its checkpoint: nobody else
\* decides meanwhile.
LEMMA AddressedStep ==
    ASSUME IInv, GateInv, OneReviewer, [Next]_vars
    PROVE  Addressed'
  <1> USE DEF row, db, orch, broker
  <1>0. RowsOK /\ LoopOK /\ RequestsOK /\ WalkersOK /\ TablesOK /\ WalkedOnce /\ Addressed
    BY DEF IInv, TypeOK, GateInv
  <1> DEFINE Named   == /\ \A c \in checkpoints' : c.id < nextCp'
                        /\ \A c, d \in checkpoints' : c.id = d.id => c = d
             Deciding == \A u \in Users : request'[u].pc \in {"approve", "reject"} =>
                            \E c \in checkpoints' : /\ c.run = request'[u].run
                                                    /\ c.status = "pending"
                                                    /\ c.id = request'[u].cp
             Once    == \A d, e \in loop'.todo : d.run = e.run => d = e
  <1>1. UNCHANGED <<checkpoints, nextCp>> => Named
    BY <1>0 DEF Addressed
  <1>2. UNCHANGED <<checkpoints, request>> => Deciding
    BY <1>0 DEF Addressed, PendingOf
  <1>3. UNCHANGED loop => Once
    BY <1>0 DEF Addressed
  <1>4. ASSUME NEW u \in Users, NEW x, Then(u, x), x.pc \notin {"approve", "reject"}
        PROVE  Deciding
    BY <1>0, <1>4 DEF Then, RequestsOK, OneReviewer
  <1>5. \A pc, q, k : Request(pc, q, k).pc = pc /\ Request(pc, q, k).run = q
                      /\ Request(pc, q, k).cp = k
    BY DEF Request
  <1>6. ASSUME NEW u \in Users, Answered(u)
        PROVE  Deciding
    BY <1>4, <1>5, <1>6 DEF Answered, Idle
  <1>7. ASSUME NEW u \in Users, UserAsks(u)
        PROVE  Named /\ Deciding /\ Once
    <2>1. ASSUME NEW c \in checkpoints, AskApprove(u, c) \/ AskReject(u, c)
          PROVE  Deciding
      <3>1. PICK pc : Then(u, Request(pc, c.run, c.id))
        BY <2>1 DEF AskApprove, AskReject
      <3>2. c \in checkpoints' /\ c.status = "pending" /\ \A v \in Users : v = u
        BY <2>1 DEF AskApprove, AskReject, OneReviewer
      <3>3. request'[u].run = c.run /\ request'[u].cp = c.id
        BY <1>0, <1>5, <3>1 DEF Then, RequestsOK
      <3> QED BY <3>2, <3>3
    <2> HIDE DEF Named, Deciding, Once
    <2> QED BY <1>1, <1>3, <1>4, <1>5, <1>7, <2>1
            DEF UserAsks, CreateRun, AskCancel, AskDelete, AskRestart, AskApprove, AskReject
  <1>8. ASSUME NEW u \in Users, Handler(u)
        PROVE  Named /\ Deciding /\ Once
    <2>1. ASSUME NEW k, NEW s, Decide(k, s), nextCp' = nextCp
          PROVE  Named
      <3>1. \A c \in checkpoints' : \E d \in checkpoints :
                c.id = d.id /\ c = IF d.id = k THEN [d EXCEPT !.status = s] ELSE d
        BY <1>0, <2>1 DEF Decide, TablesOK, Checkpoints
      <3> QED BY <1>0, <2>1, <3>1 DEF Addressed
    <2>2. ASSUME DeleteRow(u)
          PROVE  Named
      BY <1>0, <2>2 DEF DeleteRow, Addressed
    <2> HIDE DEF Named, Deciding, Once
    <2> QED BY <1>1, <1>3, <1>4, <1>5, <1>6, <1>8, <2>1, <2>2
            DEF Handler, SignalStart, SignalResume, MarkCancelled, MarkRejected, ResetRow,
                DeleteRow, Approve, Reject
  <1>9. ASSUME MainLoop
        PROVE  Named /\ Deciding /\ Once
    <2>1. \A pc, x, y : LoopAt(pc, x, y).todo = x
      BY DEF LoopAt
    <2>2. ASSUME loop'.todo \subseteq loop.todo
          PROVE  Once
      BY <1>0, <2>2 DEF Addressed
    <2>3. \A q, a : Todo(q, a).run = q
      BY DEF Todo
    <2>4. ASSUME Boot \/ FetchActions
          PROVE  Once
      BY <2>1, <2>3, <2>4 DEF Boot, FetchActions
    <2> HIDE DEF Named, Deciding, Once
    <2> QED BY <1>1, <1>2, <1>9, <2>1, <2>2, <2>4
            DEF MainLoop, Boot, RecoverRun, FetchActions, ClearAction, StartRun,
                ResumeRun, DropAction, CancelRun, Handled
  <1>10. ASSUME NEW t \in Tasks, Walk(t) \/ Expire(t)
         PROVE  Named /\ Deciding /\ Once
    <2>1. ASSUME OpenCheckpoint(t)
          PROVE  Named /\ Deciding
      <3>1. CASE UNCHANGED <<checkpoints, nextCp>>
        BY <1>1, <1>2, <2>1, <3>1 DEF OpenCheckpoint
      <3>2. CASE /\ checkpoints' = checkpoints \cup
                       {[id |-> nextCp, run |-> RunOf(t), idx |-> walker[t].idx,
                         status |-> "pending"]}
                 /\ nextCp' = nextCp + 1
        <4>1. nextCp \in Nat /\ \A c \in checkpoints : c.id \in Nat
          BY <1>0 DEF TablesOK, Checkpoints
        <4>2. Named
          BY <1>0, <3>2, <4>1 DEF Addressed
        <4>3. request' = request /\ checkpoints \subseteq checkpoints'
          BY <2>1, <3>2 DEF OpenCheckpoint
        <4>4. Deciding
          BY <1>0, <4>3 DEF Addressed, PendingOf
        <4> QED BY <4>2, <4>4
      <3> QED BY <2>1, <3>1, <3>2 DEF OpenCheckpoint
    <2> HIDE DEF Named, Deciding, Once
    <2> QED BY <1>1, <1>2, <1>3, <1>10, <2>1
            DEF Walk, Begin, Claim, Top, CreateStep, Publish, Register, FailExpired, RecordRisk,
                Reread, RollBack, GiveUp, OpenCheckpoint, Park, Advance, OpenMR, Complete,
                DoneCallback, Locally, Expire
  <1>11. ASSUME Fault
         PROVE  Named /\ Deciding /\ Once
    <2>1. LoopError \/ OrchCrash => Once
      BY DEF LoopError, OrchCrash, LoopAt
    <2> HIDE DEF Named, Deciding, Once
    <2> QED BY <1>1, <1>2, <1>3, <1>6, <1>11, <2>1
            DEF Fault, LoopError, OrchCrash, WebCrash, WalkerError, WorkerCrash, RejectJob
  <1> HIDE DEF Named, Deciding, Once
  <1>12. ASSUME ConsumeResult \/ (\E w \in Workers : Work(w)) \/ UNCHANGED vars
         PROVE  Named /\ Deciding /\ Once
    BY <1>1, <1>2, <1>3, <1>12 DEF ConsumeResult, Work, TakeJob, FinishJob, vars
  <1>13. Named /\ Deciding /\ Once
    BY <1>7, <1>8, <1>9, <1>10, <1>11, <1>12 DEF Next
  <1> QED BY <1>13 DEF Addressed, Named, Deciding, Once, PendingOf

\* An id nobody has heard of stays unheard of until it is given.
LEMMA UnheardStep ==
    ASSUME IInv, GateInv, [Next]_vars, NEW r \in Runs, status'[r] = "unborn"
    PROVE  Unheard(r)'
  <1> USE DEF row, db, orch, broker
  <1>0. RowsOK /\ LoopOK /\ RequestsOK /\ WalkersOK /\ TablesOK /\ WalkedOnce
        /\ LoopOK'
    BY TypeStep DEF IInv, TypeOK, GateInv
  <1>1. status[r] = "unborn"
    <2>1. ASSUME UNCHANGED status
          PROVE  status[r] = "unborn"
      BY <2>1
    <2>2. ASSUME NEW q, NEW s, SetStatus(q, s), s # "unborn"
          PROVE  status[r] = "unborn"
      BY <1>0, <2>2 DEF SetStatus, Set, RowsOK
    <2>3. ASSUME NEW u \in Users, UserAsks(u) \/ Handler(u)
          PROVE  status[r] = "unborn"
      <3>1. CASE DeleteRow(u)
        BY <1>0, <3>1 DEF DeleteRow, RowsOK
      <3>2. ASSUME NEW q \in Runs, CreateRun(u, q)
            PROVE  status[r] = "unborn"
        BY <1>0, <3>2 DEF CreateRun, RowsOK
      <3> QED BY <2>1, <2>2, <2>3, <3>1, <3>2
              DEF UserAsks, AskCancel, AskDelete, AskRestart, AskApprove, AskReject,
                  Handler, SignalStart, SignalResume, MarkCancelled, MarkRejected, ResetRow,
                  Approve, Reject
    <2>4. ASSUME MainLoop
          PROVE  status[r] = "unborn"
      BY <2>1, <2>2, <2>4 DEF MainLoop, Boot, RecoverRun, FetchActions, ClearAction, StartRun,
                              ResumeRun, DropAction, CancelRun
    <2>5. ASSUME NEW t \in Tasks, Walk(t) \/ Expire(t)
          PROVE  status[r] = "unborn"
      BY <2>1, <2>2, <2>5
         DEF Walk, Begin, Claim, Top, CreateStep, Publish, Register, FailExpired, RecordRisk,
             Reread, RollBack, GiveUp, OpenCheckpoint, Park, Advance, OpenMR, Complete,
             DoneCallback, Locally, Expire
    <2>6. CASE ConsumeResult \/ Fault \/ (\E w \in Workers : Work(w)) \/ UNCHANGED vars
      BY <2>1, <2>2, <2>6 DEF ConsumeResult, Fault, LoopError, OrchCrash, WebCrash, WalkerError,
                              WorkerCrash, RejectJob, Work, TakeJob, FinishJob, vars
    <2> QED BY <2>3, <2>4, <2>5, <2>6 DEF Next
  <1>2. Unheard(r) /\ ~Exists(r)
    BY <1>1 DEF GateInv, Exists, Stored
  <1> DEFINE Row  == action'[r] = NoAction /\ stepIdx'[r] = 0 /\ rollbacks'[r] = 0
             MR   == r \notin mrs'
             Req  == \A u \in Users : request'[u].run # r
             Lp   == (\A d \in loop'.todo : d.run # r) /\ loop'.cur.run # r
             Cps  == \A c \in checkpoints' : c.run # r
             Wkr  == \A t \in Tasks : walker'[t].run # r
  <1>3. /\ UNCHANGED <<action, stepIdx, rollbacks>> => Row
        /\ UNCHANGED mrs => MR
        /\ UNCHANGED request => Req
        /\ UNCHANGED loop => Lp
        /\ UNCHANGED checkpoints => Cps
        /\ UNCHANGED walker => Wkr
    BY <1>2 DEF Unheard
  <1>4. Row
    <2>1. ASSUME NEW q, NEW v, UNCHANGED <<stepIdx, rollbacks>>, SetAction(q, v)
          PROVE  Row
      BY <1>0, <1>2, <2>1 DEF SetAction, Set, RowsOK, Unheard
    <2>2. ASSUME NEW q, NEW v, UNCHANGED <<action, rollbacks>>, SetIdx(q, v)
          PROVE  Row
      BY <1>0, <1>2, <2>2 DEF SetIdx, Set, RowsOK, Unheard
    <2>3. ASSUME NEW q, NEW v, NEW n, UNCHANGED action, SetIdx(q, v),
                 rollbacks' = Set(rollbacks, q, n)
          PROVE  Row
      BY <1>0, <1>2, <2>3 DEF SetIdx, Set, RowsOK, Unheard
    <2>4. ASSUME NEW u \in Users, UserAsks(u)
          PROVE  Row
      BY <1>3, <2>4 DEF UserAsks, CreateRun, AskCancel, AskDelete, AskRestart, AskApprove,
                        AskReject
    <2>5. ASSUME NEW u \in Users, Handler(u)
          PROVE  Row
      <3>1. CASE DeleteRow(u)
        BY <1>0, <1>2, <3>1 DEF DeleteRow, RowsOK, Unheard
      <3> HIDE DEF Row
      <3> QED BY <1>3, <2>1, <2>3, <2>5, <3>1
              DEF Handler, SignalStart, SignalResume, MarkCancelled, MarkRejected, ResetRow,
                  Approve, Reject
    <2>6. ASSUME MainLoop
          PROVE  Row
      <3>1. ~RecoverRun
        BY <1>0 DEF RecoverRun, WalkedOnce
      <3> HIDE DEF Row
      <3> QED BY <1>3, <2>1, <2>6, <3>1
              DEF MainLoop, Boot, FetchActions, ClearAction, StartRun, ResumeRun,
                  DropAction, CancelRun
    <2>7. ASSUME NEW t \in Tasks, Walk(t) \/ Expire(t)
          PROVE  Row
      <3> HIDE DEF Row
      <3> QED BY <1>3, <2>2, <2>3, <2>7
         DEF Walk, Begin, Claim, Top, CreateStep, Publish, Register, FailExpired, RecordRisk,
             Reread, RollBack, GiveUp, OpenCheckpoint, Park, Advance, OpenMR, Complete,
             DoneCallback, Locally, Expire
    <2> HIDE DEF Row
    <2>8. CASE ConsumeResult \/ Fault \/ (\E w \in Workers : Work(w)) \/ UNCHANGED vars
      BY <1>3, <2>8 DEF ConsumeResult, Fault, LoopError, OrchCrash, WebCrash, WalkerError,
                        WorkerCrash, RejectJob, Work, TakeJob, FinishJob, vars
    <2> QED BY <2>4, <2>5, <2>6, <2>7, <2>8 DEF Next
  <1>5. Req
    <2>1. ASSUME NEW u \in Users, NEW pc, NEW q, NEW k, Then(u, Request(pc, q, k)), q # r
          PROVE  Req
      BY <1>0, <1>2, <2>1 DEF Then, Request, RequestsOK, Unheard
    <2>2. ASSUME NEW u \in Users, Answered(u)
          PROVE  Req
      <3>1. NoRun # r
        BY RunsAssumption DEF NoRun
      <3> QED BY <2>1, <2>2, <3>1 DEF Answered, Idle
    <2>3. ASSUME NEW u \in Users, UserAsks(u)
          PROVE  Req
      <3>1. ASSUME NEW q \in Runs, CreateRun(u, q)
            PROVE  q # r
        BY <1>0, <3>1 DEF CreateRun, RowsOK
      <3>2. ASSUME NEW c \in checkpoints
            PROVE  c.run # r
        BY <1>2, <3>2 DEF Unheard
      <3>3. ASSUME NEW q \in Runs, AskCancel(u, q) \/ AskDelete(u, q) \/ AskRestart(u, q)
            PROVE  q # r
        BY <1>1, <1>2, <3>3 DEF AskCancel, AskDelete, AskRestart
      <3> HIDE DEF Req
      <3> QED BY <2>1, <2>3, <3>1, <3>2, <3>3
              DEF UserAsks, CreateRun, AskCancel, AskDelete, AskRestart, AskApprove, AskReject
    <2>4. ASSUME NEW u \in Users, Handler(u)
          PROVE  Req
      <3>1. request[u].run # r
        BY <1>2 DEF Unheard
      <3> HIDE DEF Req
      <3> QED BY <2>1, <2>2, <2>4, <3>1
              DEF Handler, SignalStart, SignalResume, MarkCancelled, MarkRejected, ResetRow,
                  DeleteRow, Approve, Reject
    <2> HIDE DEF Req
    <2>5. ASSUME MainLoop
          PROVE  Req
      BY <1>3, <2>5 DEF MainLoop, Boot, RecoverRun, FetchActions, ClearAction, StartRun,
                        ResumeRun, DropAction, CancelRun
    <2>6. ASSUME NEW t \in Tasks, Walk(t) \/ Expire(t)
          PROVE  Req
      BY <1>3, <2>6
         DEF Walk, Begin, Claim, Top, CreateStep, Publish, Register, FailExpired, RecordRisk,
             Reread, RollBack, GiveUp, OpenCheckpoint, Park, Advance, OpenMR, Complete,
             DoneCallback, Locally, Expire
    <2>7. CASE ConsumeResult \/ Fault \/ (\E w \in Workers : Work(w)) \/ UNCHANGED vars
      BY <1>3, <2>2, <2>7 DEF ConsumeResult, Fault, LoopError, OrchCrash, WebCrash, WalkerError,
                        WorkerCrash, RejectJob, Work, TakeJob, FinishJob, vars
    <2> QED BY <2>3, <2>4, <2>5, <2>6, <2>7 DEF Next
  <1>6. Lp
    <2>1. \A pc, x, y : LoopAt(pc, x, y).todo = x /\ LoopAt(pc, x, y).cur = y
      BY DEF LoopAt
    <2>2. Nothing.run # r /\ \A q, a : Todo(q, a).run = q
      BY RunsAssumption DEF Nothing, Todo, NoRun
    <2>3. ASSUME MainLoop
          PROVE  Lp
      <3>1. CASE Boot \/ FetchActions
        BY <1>1, <1>2, <2>1, <2>2, <3>1 DEF Boot, FetchActions, Unheard
      <3>2. CASE ClearAction
        BY <1>0, <1>2, <2>1, <3>2, NextTodoTyped DEF ClearAction, Unheard
      <3>3. CASE RecoverRun \/ StartRun \/ ResumeRun \/ DropAction \/ CancelRun
        BY <1>2, <2>1, <2>2, <3>3 DEF RecoverRun, StartRun, ResumeRun, DropAction, CancelRun,
                                      Handled, Unheard
      <3> QED BY <2>3, <3>1, <3>2, <3>3 DEF MainLoop
    <2>4. ASSUME LoopError \/ OrchCrash
          PROVE  Lp
      BY <2>1, <2>2, <2>4 DEF LoopError, OrchCrash
    <2> HIDE DEF Lp
    <2>5. ASSUME NEW u \in Users, UserAsks(u) \/ Handler(u)
          PROVE  Lp
      BY <1>3, <2>5
       DEF UserAsks, CreateRun, AskCancel, AskDelete, AskRestart, AskApprove, AskReject,
           Handler, SignalStart, SignalResume, MarkCancelled, MarkRejected, ResetRow,
           DeleteRow, Approve, Reject
    <2>6. ASSUME NEW t \in Tasks, Walk(t) \/ Expire(t)
          PROVE  Lp
      BY <1>3, <2>6
         DEF Walk, Begin, Claim, Top, CreateStep, Publish, Register, FailExpired, RecordRisk,
             Reread, RollBack, GiveUp, OpenCheckpoint, Park, Advance, OpenMR, Complete,
             DoneCallback, Locally, Expire
    <2>7. CASE ConsumeResult \/ Fault \/ (\E w \in Workers : Work(w)) \/ UNCHANGED vars
      BY <1>3, <2>4, <2>7 DEF ConsumeResult, Fault, WebCrash, WalkerError,
                        WorkerCrash, RejectJob, Work, TakeJob, FinishJob, vars
    <2> QED BY <2>3, <2>5, <2>6, <2>7 DEF Next
  <1>7. MR /\ Cps /\ Wkr
    <2>1. ASSUME NEW t \in Tasks, Walk(t) \/ Expire(t) \/ WalkerError(t)
          PROVE  MR /\ Cps /\ Wkr
      <3>1. RunOf(t) # r
        BY <1>2 DEF Unheard, RunOf
      <3>2. Wkr
        <4>1. FreeSlot.run # r
          BY RunsAssumption DEF FreeSlot, Frame, NoRun
        <4> QED BY <1>0, <1>2, <2>1, <4>1, OwnFrame DEF Unheard
      <3>3. OpenMR(t) => MR
        BY <1>2, <3>1 DEF OpenMR, Unheard
      <3>4. OpenCheckpoint(t) => Cps
        BY <1>2, <3>1 DEF OpenCheckpoint, Unheard
      <3> HIDE DEF MR, Cps, Wkr
      <3>5. MR /\ Cps
        BY <1>3, <2>1, <3>3, <3>4
         DEF Walk, Begin, Claim, Top, CreateStep, Publish, Register, FailExpired, RecordRisk,
             Reread, RollBack, GiveUp, OpenCheckpoint, Park, Advance, OpenMR, Complete,
             DoneCallback, Locally, Expire, WalkerError
      <3> QED BY <3>2, <3>5
    <2>2. ASSUME NEW u \in Users, UserAsks(u) \/ Handler(u)
          PROVE  MR /\ Cps /\ Wkr
      <3>1. ASSUME NEW k, NEW s, Decide(k, s)
            PROVE  Cps
        <4>1. \A c \in checkpoints' : \E d \in checkpoints : c.run = d.run
          BY <1>0, <3>1 DEF Decide, TablesOK, Checkpoints
        <4> QED BY <1>2, <4>1 DEF Unheard
      <3>2. DeleteRow(u) => Cps
        BY <1>2 DEF DeleteRow, Unheard
      <3> HIDE DEF MR, Cps, Wkr
      <3> QED BY <1>3, <2>2, <3>1, <3>2
       DEF UserAsks, CreateRun, AskCancel, AskDelete, AskRestart, AskApprove, AskReject,
           Handler, SignalStart, SignalResume, MarkCancelled, MarkRejected, ResetRow,
           DeleteRow, Approve, Reject
    <2>3. ASSUME MainLoop
          PROVE  MR /\ Cps /\ Wkr
      <3>1. ASSUME StartRun \/ ResumeRun
            PROVE  Wkr
        <4>1. loop.cur.run # r
          BY <1>2 DEF Unheard
        <4>2. PICK t \in Tasks : walker' = [walker EXCEPT ![t] = Frame(loop.cur.run)]
          BY <3>1 DEF StartRun, ResumeRun, Spawn
        <4> QED BY <1>0, <1>2, <4>1, <4>2 DEF Unheard, Frame, WalkersOK
      <3>2. CancelRun => Wkr
        BY <1>2, RunsAssumption DEF CancelRun, Unheard, FreeSlot, Frame, NoRun
      <3> HIDE DEF MR, Cps, Wkr
      <3> QED BY <1>3, <2>3, <3>1, <3>2
              DEF MainLoop, Boot, RecoverRun, FetchActions, ClearAction, StartRun,
                  ResumeRun, DropAction, CancelRun
    <2>4. ASSUME ConsumeResult
          PROVE  MR /\ Cps /\ Wkr
      <3>1. Wkr
        BY <1>0, <1>2, <2>4, ToldFrame DEF Unheard
      <3> HIDE DEF MR, Cps, Wkr
      <3> QED BY <1>3, <2>4, <3>1 DEF ConsumeResult
    <2>5. ASSUME OrchCrash
          PROVE  Wkr
      BY <2>5, RunsAssumption DEF OrchCrash, FreeSlot, Frame, NoRun
    <2> HIDE DEF MR, Cps, Wkr
    <2>6. CASE Fault \/ (\E w \in Workers : Work(w)) \/ UNCHANGED vars
      BY <1>3, <2>1, <2>5, <2>6 DEF Fault, LoopError, OrchCrash, WebCrash,
                        WorkerCrash, RejectJob, Work, TakeJob, FinishJob, vars
    <2> QED BY <2>1, <2>2, <2>3, <2>4, <2>6 DEF Next
  <1> QED BY <1>4, <1>5, <1>6, <1>7 DEF Unheard

-------------------------------------------------------------------------------
\* Where the walkers are.

\* What can become of a slot.
LEMMA SlotMoves ==
    ASSUME IInv, [Next]_vars, NEW t \in Tasks
    PROVE  \/ walker'[t] = walker[t] \/ walker'[t] = FreeSlot
           \/ Walk(t) \/ Expire(t) \/ WalkerError(t)
           \/ ConsumeResult
           \/ (StartRun \/ ResumeRun) /\ walker'[t] = Frame(loop.cur.run)
  <1> USE DEF row, db, orch, broker
  <1>0. WalkersOK
    BY DEF IInv, TypeOK
  <1>1. ASSUME NEW u \in Users, UserAsks(u) \/ Handler(u)
        PROVE  UNCHANGED walker
    BY <1>1 DEF UserAsks, CreateRun, AskCancel, AskDelete, AskRestart, AskApprove, AskReject,
                Handler, SignalStart, SignalResume, MarkCancelled, MarkRejected, ResetRow,
                DeleteRow, Approve, Reject
  <1>2. CASE MainLoop
    <2>1. CASE StartRun \/ ResumeRun
      <3>1. PICK s \in Tasks : walker' = [walker EXCEPT ![s] = Frame(loop.cur.run)]
        BY <2>1 DEF StartRun, ResumeRun, Spawn
      <3> QED BY <1>0, <2>1, <3>1 DEF WalkersOK
    <2> QED BY <1>2, <2>1 DEF MainLoop, Boot, RecoverRun, FetchActions, ClearAction, DropAction,
                              CancelRun
  <1>3. ASSUME NEW s \in Tasks, Walk(s) \/ Expire(s) \/ WalkerError(s)
        PROVE  s = t \/ walker'[t] = walker[t]
    BY <1>0, <1>3, OwnFrame
  <1>4. CASE Fault
    BY <1>3, <1>4 DEF Fault, LoopError, OrchCrash, WebCrash, WorkerCrash, RejectJob
  <1>5. CASE (\E w \in Workers : Work(w)) \/ UNCHANGED vars
    BY <1>5 DEF Work, TakeJob, FinishJob, vars
  <1> QED BY <1>1, <1>2, <1>3, <1>4, <1>5 DEF Next

\* A walker reads its row before it works by it, and moves with it.
LEMMA UpToDateStep ==
    ASSUME IInv, GateInv, [Next]_vars, NEW r \in Runs, Exists(r)'
    PROVE  UpToDate(r)'
  <1> USE DEF row, db, orch, broker
  <1>0. RowsOK /\ LoopOK /\ WalkersOK /\ WalkedOnce
    BY DEF IInv, TypeOK, GateInv
  <1> SUFFICES ASSUME NEW t \in Tasks, walker'[t].run = r
               PROVE  /\ walker'[t].pc \in {"start", "done"} => walker'[t].idx = 0
                      /\ walker'[t].pc = "merge" => walker'[t].idx > Last(r)
                      /\ walker'[t].pc \in WalkerPCs \ {"start", "done"} =>
                            stepIdx'[r] = walker'[t].idx
                      /\ walker'[t].pc \in OnStage \ {"reread", "park"} =>
                            walker'[t].seen = Seen(r)'
    BY DEF UpToDate, Last, WT
  <1>1. FreeSlot.run # r
    BY RunsAssumption DEF FreeSlot, Frame, NoRun
  <1>2. CASE ~Exists(r)
    <2>1. PICK u \in Users : CreateRun(u, r)
      BY <1>2, Born
    <2>2. Unheard(r) /\ walker' = walker
      BY <2>1 DEF CreateRun, GateInv
    <2> QED BY <2>2 DEF Unheard
  <1>3. CASE (StartRun \/ ResumeRun) /\ walker'[t] = Frame(loop.cur.run)
    BY <1>3 DEF Frame, OnStage, Engaged, Answering
  <1>4. ASSUME Exists(r), walker[t].run = r
        PROVE  UpToDate(r)
    BY <1>4 DEF GateInv, GatesKept
  <1>5. CASE Exists(r) /\ (Walk(t) \/ Expire(t) \/ WalkerError(t))
    <2>1. walker[t] \in Frames /\ walker[t].run = r
      BY <1>0, <1>1, <1>5, OwnFrame
    <2>2. UpToDate(r) /\ RunOf(t) = r
      BY <1>4, <1>5, <2>1 DEF RunOf
    <2>3. ASSUME NEW pc, Goto(t, pc)
          PROVE  walker'[t].pc = pc /\ walker'[t].idx = walker[t].idx
                 /\ walker'[t].seen = walker[t].seen
      BY <1>0, <2>1, <2>3 DEF Goto, WalkersOK, Frames
    <2>4. ASSUME NEW pc, NEW i, Continue(t, pc, i)
          PROVE  walker'[t].pc = pc /\ walker'[t].idx = i
      BY <1>0, <2>4 DEF Continue, Between, Frame, WalkersOK
    <2>5. CASE Return(t)
      BY <2>4, <2>5 DEF Return, OnStage, Engaged, Answering
    <2>6. CASE Begin(t)
      BY <2>4, <2>5, <2>6, <2>2 DEF Begin, Locally, OnStage, Engaged, Answering
    <2>7. CASE Claim(t) \/ OpenMR(t)
      BY <2>1, <2>2, <2>3, <2>7
         DEF Claim, OpenMR, At, UpToDate, OnStage, Engaged, Answering, WalkerPCs
    <2>8. CASE Register(t) \/ Expire(t)
      BY <2>1, <2>2, <2>3, <2>8
         DEF Register, Expire, Locally, At, UpToDate, OnStage, Engaged, Answering, WalkerPCs, Seen
    <2>9. CASE RecordRisk(t)
      BY <2>1, <2>2, <2>3, <2>9
         DEF RecordRisk, At, UpToDate, OnStage, Engaged, Answering, WalkerPCs
    <2>10. CASE CreateStep(t)
      BY <2>1, <2>2, <2>3, <2>5, <2>10
         DEF CreateStep, At, UpToDate, OnStage, Engaged, Answering, WalkerPCs, Seen
    <2>11. CASE OpenCheckpoint(t)
      BY <2>1, <2>2, <2>3, <2>5, <2>11
         DEF OpenCheckpoint, Judging, At, UpToDate, OnStage, Engaged, Answering, WalkerPCs
    <2>12. CASE FailExpired(t) \/ GiveUp(t) \/ Park(t) \/ Complete(t) \/ WalkerError(t)
      BY <2>5, <2>12 DEF FailExpired, GiveUp, Park, Complete, WalkerError
    <2>13. CASE RollBack(t) \/ Advance(t)
      <3>1. PICK i : Continue(t, "top", i) /\ SetIdx(r, i)
        BY <2>2, <2>13 DEF RollBack, Advance
      <3>2. stepIdx'[r] = i
        BY <1>0, <1>5, <3>1 DEF SetIdx, Set, RowsOK
      <3> QED BY <2>4, <3>1, <3>2 DEF OnStage, Engaged, Answering
    <2>14. ASSUME NEW pc, walker' = [walker EXCEPT ![t].pc = pc, ![t].seen = Seen(r)]
           PROVE  walker'[t].pc = pc /\ walker'[t].idx = walker[t].idx
                  /\ walker'[t].seen = Seen(r)
      BY <1>0, <2>1, <2>14 DEF WalkersOK, Frames
    <2>15. CASE Top(t)
      <3>1. UNCHANGED <<stepIdx, rollbacks, risk>> /\ stepIdx[r] = walker[t].idx
        BY <2>2, <2>15, <2>1 DEF Top, Locally, At, UpToDate, WalkerPCs
      <3> QED BY <2>2, <2>3, <2>5, <2>14, <2>15, <3>1
              DEF Top, Seen, OnStage, Engaged, Answering
    <2>16. CASE Reread(t)
      <3>1. UNCHANGED <<stepIdx, rollbacks, risk>> /\ stepIdx[r] = walker[t].idx
        BY <2>2, <2>16, <2>1 DEF Reread, Locally, At, UpToDate, WalkerPCs
      <3> QED BY <2>2, <2>5, <2>14, <2>16, <3>1 DEF Reread, Seen
    <2>17. CASE Publish(t)
      <3>1. walker'[t].pc = "register" /\ walker'[t].idx = walker[t].idx
            /\ walker'[t].seen = walker[t].seen
        BY <1>0, <2>1, <2>17 DEF Publish, WalkersOK, Frames
      <3> QED BY <2>1, <2>2, <2>17, <3>1
              DEF Publish, At, UpToDate, OnStage, Engaged, Answering, WalkerPCs, Seen
    <2>18. ~DoneCallback(t)
      BY <1>0, <1>1 DEF DoneCallback, WalkersOK
    <2> QED BY <1>5, <2>6, <2>7, <2>8, <2>9, <2>10, <2>11, <2>12, <2>13, <2>15, <2>16, <2>17,
               <2>18 DEF Walk
  <1>6. CASE /\ Exists(r) /\ ~(Walk(t) \/ Expire(t) \/ WalkerError(t))
             /\ walker'[t] = walker[t] \/ ConsumeResult
    <2>1. \/ walker'[t] = walker[t]
          \/ /\ walker[t].pc = "wait" /\ walker'[t].pc = "answered"
             /\ walker'[t].run = walker[t].run /\ walker'[t].idx = walker[t].idx
             /\ walker'[t].seen = walker[t].seen
      BY <1>0, <1>6, ToldFrame
    <2>2. walker[t].run = r
      BY <2>1
    <2>3. UNCHANGED <<stepIdx[r], rollbacks[r], risk[r]>>
      <3>1. ASSUME NEW s \in Tasks, RunOf(s) = r,
                   RollBack(s) \/ Park(s) \/ Advance(s) \/ RecordRisk(s)
            PROVE  FALSE
        <4>1. s = t
          BY <2>2, <3>1, Alone DEF RunOf
        <4> QED BY <1>6, <3>1, <4>1 DEF Walk
      <3> QED BY <1>0, <1>6, <3>1, RowMoves
    <2> QED BY <1>4, <1>6, <2>1, <2>2, <2>3
            DEF UpToDate, Seen, OnStage, Engaged, Answering, WalkerPCs
  <1> QED BY <1>1, <1>2, <1>3, <1>5, <1>6, SlotMoves

-------------------------------------------------------------------------------
\* The routes.

LEMMA RouteTable ==
    ASSUME NEW wt \in WorkTypes
    PROVE  /\ wt \in {"bugfix", "hotfix"} =>
                /\ RouteLen(wt) = 6
                /\ AgentAt(wt, 0) = 1 /\ AgentAt(wt, 1) = 2 /\ AgentAt(wt, 2) = 4
                /\ AgentAt(wt, 3) = 5 /\ AgentAt(wt, 4) = 6 /\ AgentAt(wt, 5) = 8
           /\ wt = "refactor" =>
                /\ RouteLen(wt) = 6
                /\ AgentAt(wt, 0) = 1 /\ AgentAt(wt, 1) = 3 /\ AgentAt(wt, 2) = 4
                /\ AgentAt(wt, 3) = 5 /\ AgentAt(wt, 4) = 6 /\ AgentAt(wt, 5) = 8
           /\ wt \in {"migration", "feature"} =>
                RouteLen(wt) = 8 /\ \A i \in 0..7 : AgentAt(wt, i) = i + 1
           /\ wt \in {"transformation", "devops"} =>
                RouteLen(wt) = 6 /\ \A i \in 0..5 : AgentAt(wt, i) = i + 1
  <1>1. CASE wt \in {"bugfix", "hotfix"}
    BY <1>1 DEF RouteLen, GetRoute, ROUTES, AgentAt
  <1>2. CASE wt = "refactor"
    BY <1>2 DEF RouteLen, GetRoute, ROUTES, AgentAt
  <1>3. CASE wt \in {"migration", "feature"}
    <2>1. GetRoute(wt) = <<1, 2, 3, 4, 5, 6, 7, 8>>
      BY <1>3 DEF GetRoute, ROUTES
    <2> QED BY <1>3, <2>1 DEF RouteLen, AgentAt
  <1>4. CASE wt \in {"transformation", "devops"}
    <2>1. GetRoute(wt) = <<1, 2, 3, 4, 5, 6>>
      BY <1>4 DEF GetRoute, ROUTES
    <2> QED BY <1>4, <2>1 DEF RouteLen, AgentAt
  <1> QED BY <1>1, <1>2, <1>3, <1>4 DEF WorkTypes

\* A rollback goes back, and over no stage that can have a gate.
LEMMA RollbackOverNoGate ==
    ASSUME NEW wt \in WorkTypes, NEW i \in 0..(RouteLen(wt) - 1),
           RollbackTarget(AgentAt(wt, i), wt) # NoTarget
    PROVE  LET j == FindStepIndex(wt, RollbackTarget(AgentAt(wt, i), wt)) IN
           /\ j \in Nat /\ j <= i
           /\ \A k \in StageIdx : j <= k /\ k <= i =>
                  ~ShouldCheckpoint(AgentAt(wt, k), wt, "high")
  <1> DEFINE j == FindStepIndex(wt, 4)
  <1>1. RollbackTarget(AgentAt(wt, i), wt) = 4
    BY DEF RollbackTarget, NoTarget
  <1>2. /\ wt \in {"transformation", "devops"} => AgentAt(wt, i) = 5
        /\ wt \notin {"transformation", "devops"} => AgentAt(wt, i) \in {5, 6}
    BY DEF RollbackTarget, NoTarget
  <1>3. CASE wt \in {"bugfix", "hotfix", "refactor"}
    <2>1. /\ RouteLen(wt) = 6 /\ AgentAt(wt, 2) = 4
          /\ AgentAt(wt, 3) = 5 /\ AgentAt(wt, 4) = 6 /\ AgentAt(wt, 5) = 8
          /\ AgentAt(wt, 0) = 1 /\ AgentAt(wt, 1) \in {2, 3}
      BY <1>3, RouteTable
    <2>2. j = 2
      <3>1. \A k \in 0..5 : k # 2 => AgentAt(wt, k) # 4
        BY <2>1
      <3> QED BY <2>1, <3>1 DEF FindStepIndex
    <2>3. i \in {3, 4}
      BY <1>2, <1>3, <2>1
    <2>4. \A k \in {2, 3, 4} : ~ShouldCheckpoint(AgentAt(wt, k), wt, "high")
      BY <1>3, <2>1 DEF ShouldCheckpoint, Gates
    <2> HIDE DEF j
    <2> QED BY <1>1, <2>2, <2>3, <2>4 DEF j, StageIdx
  <1>4. CASE wt \in {"migration", "feature"}
    <2>1. RouteLen(wt) = 8 /\ \A k \in 0..7 : AgentAt(wt, k) = k + 1
      BY <1>4, RouteTable
    <2>2. j = 3
      BY <2>1 DEF FindStepIndex
    <2>3. i \in {4, 5}
      BY <1>2, <1>4, <2>1
    <2>4. \A k \in {3, 4, 5} : ~ShouldCheckpoint(AgentAt(wt, k), wt, "high")
      BY <1>4, <2>1 DEF ShouldCheckpoint, Gates
    <2> HIDE DEF j
    <2> QED BY <1>1, <2>2, <2>3, <2>4 DEF j, StageIdx
  <1>5. CASE wt \in {"transformation", "devops"}
    <2>1. RouteLen(wt) = 6 /\ \A k \in 0..5 : AgentAt(wt, k) = k + 1
      BY <1>5, RouteTable
    <2>2. j = 3
      BY <2>1 DEF FindStepIndex
    <2>3. i = 4
      BY <1>2, <1>5, <2>1
    <2>4. \A k \in {3, 4} : ~ShouldCheckpoint(AgentAt(wt, k), wt, "high")
      BY <1>5, <2>1 DEF ShouldCheckpoint, Gates
    <2> HIDE DEF j
    <2> QED BY <1>1, <2>2, <2>3, <2>4 DEF j, StageIdx
  <1> QED BY <1>3, <1>4, <1>5 DEF WorkTypes

\* The gates before the stage that reports the risk do not depend on it.
LEMMA RiskComesFirst ==
    ASSUME NEW wt \in WorkTypes, NEW i \in 0..(RouteLen(wt) - 1),
           AgentsRegistry(wt)[AgentAt(wt, i)] = "architecture_mapper",
           NEW k \in StageIdx, k < i, NEW x, NEW y
    PROVE  ShouldCheckpoint(AgentAt(wt, k), wt, x) => ShouldCheckpoint(AgentAt(wt, k), wt, y)
  <1>1. wt \notin {"transformation", "devops"} /\ AgentAt(wt, i) = 3
    <2>1. AgentAt(wt, i) \in 1..8
      <3>1. CASE wt \in {"bugfix", "hotfix", "refactor"}
        BY <3>1, RouteTable
      <3>2. CASE wt \in {"migration", "feature", "transformation", "devops"}
        BY <3>2, RouteTable
      <3> QED BY <3>1, <3>2 DEF WorkTypes
    <2>2. wt \in {"transformation", "devops"} => AgentAt(wt, i) \in 1..6
      BY RouteTable
    <2>3. CASE wt = "transformation"
      BY <2>2, <2>3 DEF AgentsRegistry, TRANSFORM_AGENTS
    <2>4. CASE wt = "devops"
      BY <2>2, <2>4 DEF AgentsRegistry, DEVOPS_AGENTS
    <2>5. CASE wt \notin {"transformation", "devops"}
      BY <2>1, <2>5 DEF AgentsRegistry, AGENTS
    <2> QED BY <2>3, <2>4, <2>5
  <1>2. AgentAt(wt, k) \in {1, 2}
    <2>1. CASE wt \in {"bugfix", "hotfix"}
      BY <1>1, <2>1, RouteTable DEF StageIdx
    <2>2. CASE wt = "refactor"
      BY <1>1, <2>2, RouteTable DEF StageIdx
    <2>3. CASE wt \in {"migration", "feature"}
      BY <1>1, <2>3, RouteTable DEF StageIdx
    <2> QED BY <1>1, <2>1, <2>2, <2>3 DEF WorkTypes
  <1> QED BY <1>1, <1>2 DEF ShouldCheckpoint, Gates

\* The last stage has a gate whatever the risk; and the risk only adds gates.
LEMMA LastHasGate ==
    ASSUME NEW wt \in WorkTypes, NEW x
    PROVE  /\ RouteLen(wt) - 1 \in StageIdx
           /\ ShouldCheckpoint(AgentAt(wt, RouteLen(wt) - 1), wt, x)
           /\ \A n : ShouldCheckpoint(n, wt, x) => ShouldCheckpoint(n, wt, "high")
  <1>1. RouteLen(wt) - 1 \in StageIdx
    BY RouteLength DEF StageIdx
  <1>2. ShouldCheckpoint(AgentAt(wt, RouteLen(wt) - 1), wt, x)
    <2>1. CASE wt \in {"bugfix", "hotfix", "refactor"}
      BY <2>1, RouteTable DEF ShouldCheckpoint, Gates
    <2>2. CASE wt \in {"migration", "feature"}
      BY <2>2, RouteTable DEF ShouldCheckpoint, Gates
    <2>3. CASE wt \in {"transformation", "devops"}
      BY <2>3, RouteTable DEF ShouldCheckpoint, Gates
    <2> QED BY <2>1, <2>2, <2>3 DEF WorkTypes
  <1>3. \A n : ShouldCheckpoint(n, wt, x) => ShouldCheckpoint(n, wt, "high")
    BY DEF ShouldCheckpoint, Gates
  <1> QED BY <1>1, <1>2, <1>3

-------------------------------------------------------------------------------
\* The gates behind a run.

\* An approval is for good: a decision is only written to a pending checkpoint.
LEMMA ApprovedStays ==
    ASSUME IInv, GateInv, [Next]_vars, NEW r \in Runs, Exists(r)', NEW i, Approved(r, i)
    PROVE  Approved(r, i)'
  <1> USE DEF row, db, orch, broker
  <1>0. TablesOK /\ RowsOK /\ RequestsOK /\ Addressed
    BY DEF IInv, TypeOK, GateInv
  <1>1. PICK c \in checkpoints : c.run = r /\ c.idx = i /\ c.status = "approved"
    BY DEF Approved
  <1>2. ASSUME c \in checkpoints'
        PROVE  Approved(r, i)'
    BY <1>1, <1>2 DEF Approved
  <1>3. ASSUME NEW u \in Users, Approve(u) \/ Reject(u)
        PROVE  c \in checkpoints'
    <2>1. PICK d \in PendingOf(request[u].run) : d.id = request[u].cp
      BY <1>0, <1>3 DEF Addressed, Approve, Reject, InFlight
    <2>2. c.id # request[u].cp
      BY <1>0, <1>1, <2>1 DEF Addressed, PendingOf
    <2> QED BY <1>3, <2>2 DEF Approve, Reject, Decide
  <1>4. ASSUME NEW u \in Users, DeleteRow(u)
        PROVE  c \in checkpoints'
    <2>1. request[u].run # r
      BY <1>0, <1>4 DEF DeleteRow, Exists, Stored, RowsOK
    <2> QED BY <1>1, <1>4, <2>1 DEF DeleteRow
  <1>5. ASSUME NEW u \in Users, UserAsks(u) \/ Handler(u)
        PROVE  c \in checkpoints'
    BY <1>3, <1>4, <1>5
       DEF UserAsks, CreateRun, AskCancel, AskDelete, AskRestart, AskApprove, AskReject,
           Handler, SignalStart, SignalResume, MarkCancelled, MarkRejected, ResetRow
  <1>6. ASSUME MainLoop
        PROVE  c \in checkpoints'
    BY <1>6 DEF MainLoop, Boot, RecoverRun, FetchActions, ClearAction, StartRun, ResumeRun,
                DropAction, CancelRun
  <1>7. ASSUME NEW t \in Tasks, Walk(t) \/ Expire(t)
        PROVE  c \in checkpoints'
    BY <1>7 DEF Walk, Begin, Claim, Top, CreateStep, Publish, Register, FailExpired, RecordRisk,
                Reread, RollBack, GiveUp, OpenCheckpoint, Park, Advance, OpenMR, Complete,
                DoneCallback, Locally, Expire
  <1>8. CASE ConsumeResult \/ Fault \/ (\E w \in Workers : Work(w)) \/ UNCHANGED vars
    BY <1>2, <1>8 DEF ConsumeResult, Fault, LoopError, OrchCrash, WebCrash, WalkerError,
                      WorkerCrash, RejectJob, Work, TakeJob, FinishJob, vars
  <1> QED BY <1>2, <1>5, <1>6, <1>7, <1>8 DEF Next

\* A walker parks where it has opened a checkpoint.
LEMMA ParkedBy ==
    ASSUME WalkersOK, NEW t \in Tasks, Walk(t) \/ Expire(t) \/ WalkerError(t),
           walker'[t].pc = "park"
    PROVE  OpenCheckpoint(t)
  <1>1. walker[t] \in Frames
    BY OwnFrame
  <1>2. ASSUME NEW pc, Goto(t, pc)
        PROVE  walker'[t].pc = pc
    BY <1>1, <1>2 DEF Goto, WalkersOK, Frames
  <1>3. ASSUME NEW pc, NEW i, Continue(t, pc, i)
        PROVE  walker'[t].pc = pc
    BY <1>3 DEF Continue, Between, Frame, WalkersOK
  <1>4. ASSUME NEW pc, NEW x, \/ walker' = [walker EXCEPT ![t].pc = pc, ![t].seen = x]
                              \/ walker' = [walker EXCEPT ![t].pc = pc, ![t].job = x]
        PROVE  walker'[t].pc = pc
    BY <1>1, <1>4 DEF WalkersOK, Frames
  <1>5. ~DoneCallback(t)
    BY DEF DoneCallback, WalkersOK, FreeSlot, Frame
  <1>6. ~Return(t)
    BY <1>3 DEF Return
  <1>7. ~(Begin(t) \/ RollBack(t) \/ Advance(t))
    BY <1>3, <1>6 DEF Begin, RollBack, Advance
  <1>8. ~(Claim(t) \/ Register(t) \/ RecordRisk(t) \/ OpenMR(t) \/ Expire(t) \/ CreateStep(t))
    BY <1>2, <1>6 DEF Claim, Register, RecordRisk, OpenMR, Expire, CreateStep
  <1>9. ~(FailExpired(t) \/ GiveUp(t) \/ Park(t) \/ Complete(t) \/ WalkerError(t))
    BY <1>6 DEF FailExpired, GiveUp, Park, Complete, WalkerError
  <1>10. ~(Top(t) \/ Reread(t) \/ Publish(t))
    BY <1>2, <1>4, <1>6 DEF Top, Reread, Publish
  <1> QED BY <1>5, <1>7, <1>8, <1>9, <1>10 DEF Walk

\* The stages a task judges are on the route of its run.
LEMMA JudgedStage ==
    ASSUME IInv, NEW t \in Tasks, walker[t].pc \in OnStage
    PROVE  /\ RunOf(t) \in Runs /\ WT(RunOf(t)) \in WorkTypes
           /\ walker[t].idx \in StageIdx
           /\ walker[t].idx \in 0..(RouteLen(WT(RunOf(t))) - 1)
  <1>1. walker[t].idx \in StageIdx
    BY OnRouteTyped
  <1>2. /\ RunOf(t) \in Runs /\ WT(RunOf(t)) \in WorkTypes
    BY FrameTyped DEF IInv, TypeOK, OnStage, Engaged, Answering
  <1>3. walker[t].idx <= Last(RunOf(t))
    BY DEF IInv, FramesSound, SoundFrame, RunOf
  <1> QED BY <1>1, <1>2, <1>3, RouteLength DEF Last, StageIdx

\* A run passes a gate with the approval of its checkpoint, and comes back only
\* before gates that are approved.
LEMMA GatesBehindStep ==
    ASSUME IInv, GateInv, OneReviewer, [Next]_vars, NEW r \in Runs, Exists(r)'
    PROVE  GatesBehind(r)'
  <1> USE DEF row, db, orch, broker
  <1>0. RowsOK /\ LoopOK /\ RequestsOK /\ WalkersOK /\ TablesOK /\ WalkedOnce /\ Addressed
    BY DEF IInv, TypeOK, GateInv
  <1> DEFINE P(m) == \A i \in StageIdx :
                i < m /\ ShouldCheckpoint(AgentAt(WT(r), i), WT(r), risk'[r]) => Approved(r, i)'
             A == Walked(r)' \/ Asked(r)' => P(stepIdx'[r])
             B == \A c \in PendingOf(r)' : stepIdx'[r] \in {c.idx, c.idx + 1} /\ P(c.idx)
             C == \A t \in Tasks : walker'[t].run = r /\ walker'[t].pc = "park" =>
                     /\ P(stepIdx'[r])
                     /\ Asked(r)' => P(stepIdx'[r] + 1)
                     /\ \A c \in PendingOf(r)' : c.idx = stepIdx'[r]
  <1>1. A /\ B /\ C => GatesBehind(r)'
    BY DEF GatesBehind, Passed, WT
  <1>2. CASE ~Exists(r)
    <2>1. PICK u \in Users : CreateRun(u, r)
      BY <1>2, Born
    <2>2. Unheard(r)
      BY <2>1 DEF CreateRun, GateInv
    <2>3. PendingOf(r)' = {} /\ stepIdx'[r] = 0 /\ \A t \in Tasks : walker'[t].run # r
      BY <2>1, <2>2 DEF CreateRun, Unheard, PendingOf
    <2>4. P(0)
      BY DEF StageIdx
    <2> QED BY <1>1, <2>3, <2>4
  <1> SUFFICES ASSUME Exists(r)
               PROVE  GatesBehind(r)'
    BY <1>2
  <1>3. OneTurn(r) /\ UpToDate(r) /\ GatesBehind(r)
    BY DEF GateInv, GatesKept
  <1>4. ASSUME NEW n, Passed(r, n), risk'[r] = risk[r]
        PROVE  P(n)
    BY <1>4, ApprovedStays DEF Passed
  <1>5. ASSUME NEW m \in Int, NEW n \in Int, P(n), m <= n
        PROVE  P(m)
    BY <1>5 DEF StageIdx
  <1>6. stepIdx[r] \in Nat /\ risk[r] \in RiskLevels /\ WT(r) \in WorkTypes
    BY <1>0, WorkTypeAssumption DEF RowsOK, WT
  <1>7. ASSUME NEW t \in Tasks, RunOf(t) = r,
               RollBack(t) \/ Advance(t) \/ RecordRisk(t)
        PROVE  GatesBehind(r)'
    <2>1. walker[t].pc \in OnStage \ {"reread", "park"}
      BY <1>7 DEF RollBack, Advance, RecordRisk, Judging, At, OnStage, Engaged, Answering
    <2>2. walker[t].idx = stepIdx[r] /\ walker[t].seen = Seen(r)
      BY <1>3, <1>7, <2>1 DEF UpToDate, RunOf, OnStage, Engaged, Answering, WalkerPCs
    <2>3. Walked(r)
      BY <1>7, <2>1 DEF Walked, RunOf, Moving, OnStage, Engaged, Answering, WalkerPCs
    <2>4. PendingOf(r) = {} /\ Passed(r, stepIdx[r])
      BY <1>3, <2>3 DEF OneTurn, GatesBehind
    <2>5. PendingOf(r)' = {}
      BY <1>7, <2>4 DEF RollBack, Advance, RecordRisk, PendingOf
    <2>6. \A s \in Tasks : ~(walker'[s].run = r /\ walker'[s].pc = "park")
      <3> SUFFICES ASSUME NEW s \in Tasks, walker'[s].run = r, walker'[s].pc = "park"
                   PROVE  FALSE
        OBVIOUS
      <3>1. CASE s = t
        <4>1. OpenCheckpoint(t)
          BY <1>0, <1>7, <3>1, ParkedBy DEF Walk
        <4>2. nextCp' # nextCp \/ Return(t)
          BY <1>0, <4>1 DEF OpenCheckpoint, TablesOK
        <4>3. ~Return(t)
          BY <1>0, <3>1 DEF Return, Continue, Between, Frame, WalkersOK
        <4> QED BY <1>7, <4>2, <4>3 DEF RollBack, Advance, RecordRisk
      <3>2. CASE s # t
        <4>1. walker'[s] = walker[s]
          BY <1>0, <1>7, <3>2, OwnFrame DEF Walk
        <4> QED BY <1>7, <3>2, <4>1, Alone DEF RunOf
      <3> QED BY <3>1, <3>2
    <2>7. walker[t].idx \in StageIdx /\ walker[t].idx \in 0..(RouteLen(WT(r)) - 1)
      BY <1>7, <2>1, JudgedStage
    <2>8. CASE Advance(t)
      <3>1. stepIdx'[r] = stepIdx[r] + 1 /\ risk'[r] = risk[r]
        BY <1>0, <1>7, <2>2, <2>8 DEF Advance, SetIdx, Set, RowsOK
      <3>2. ~ShouldCheckpoint(AgentAt(WT(r), stepIdx[r]), WT(r), risk[r])
        BY <1>7, <2>2, <2>8 DEF Advance, IsGate, AgentNum, Seen
      <3>3. P(stepIdx[r])
        BY <1>4, <2>4, <3>1
      <3>4. P(stepIdx[r] + 1)
        BY <1>6, <3>1, <3>2, <3>3 DEF StageIdx
      <3> QED BY <1>1, <2>5, <2>6, <3>1, <3>4
    <2>9. CASE RollBack(t)
      <3>1. risk'[r] = risk[r]
        BY <2>9 DEF RollBack
      <3>2. P(stepIdx[r])
        BY <1>4, <2>4, <3>1
      <3>3. stepIdx'[r] \in Nat /\ stepIdx'[r] <= stepIdx[r]
        <4>1. stepIdx'[r] = FindStepIndex(WT(r), Target(t))
          BY <1>0, <1>7, <2>9 DEF RollBack, SetIdx, Set, RowsOK
        <4>2. Target(t) = RollbackTarget(AgentAt(WT(r), walker[t].idx), WT(r))
              /\ Target(t) # NoTarget
          BY <1>7, <2>9 DEF RollBack, CanRollBack, Target, AgentNum
        <4> QED BY <1>6, <2>2, <2>7, <4>1, <4>2, RollbackOverNoGate
      <3>4. P(stepIdx'[r])
        BY <1>5, <1>6, <3>2, <3>3
      <3> QED BY <1>1, <2>5, <2>6, <3>4
    <2>10. CASE RecordRisk(t)
      <3>1. stepIdx'[r] = stepIdx[r]
        BY <2>10 DEF RecordRisk
      <3>2. AgentsRegistry(WT(r))[AgentAt(WT(r), stepIdx[r])] = "architecture_mapper"
        BY <1>7, <2>2, <2>10 DEF RecordRisk, ReportsRisk, AgentNum
      <3>3. ASSUME NEW i \in StageIdx, i < stepIdx[r],
                   ShouldCheckpoint(AgentAt(WT(r), i), WT(r), risk'[r])
            PROVE  Approved(r, i)'
        <4>1. ShouldCheckpoint(AgentAt(WT(r), i), WT(r), risk[r])
          BY <1>6, <2>2, <2>7, <3>2, <3>3, RiskComesFirst
        <4> QED BY <2>4, <3>3, <4>1, ApprovedStays DEF Passed
      <3> QED BY <1>1, <2>5, <2>6, <3>1, <3>3
    <2> QED BY <1>7, <2>8, <2>9, <2>10
  <1>8. ASSUME NEW t \in Tasks, RunOf(t) = r, Park(t)
        PROVE  GatesBehind(r)'
    <2>1. walker[t].run = r /\ walker[t].pc = "park"
      BY <1>8 DEF Park, At, RunOf
    <2>2. /\ Asked(r) => Passed(r, stepIdx[r] + 1)
          /\ \A c \in PendingOf(r) : c.idx = stepIdx[r] /\ Passed(r, c.idx)
      BY <1>3, <2>1 DEF GatesBehind
    <2>3. stepIdx'[r] = stepIdx[r] + 1 /\ risk'[r] = risk[r]
      <3>1. walker[t].idx = stepIdx[r]
        BY <1>3, <2>1 DEF UpToDate, WalkerPCs
      <3> QED BY <1>0, <1>8, <3>1 DEF Park, SetIdx, Set, RowsOK
    <2>4. PendingOf(r)' = PendingOf(r) /\ (Asked(r)' => Asked(r))
      BY <1>8 DEF Park, PendingOf, Asked, Signalling, Signalled, Taken
    <2>5. \A s \in Tasks : walker'[s].run = r => walker'[s].pc = "done"
      <3> SUFFICES ASSUME NEW s \in Tasks, walker'[s].run = r
                   PROVE  walker'[s].pc = "done"
        OBVIOUS
      <3>1. CASE s = t
        BY <1>0, <1>8, <3>1 DEF Park, Return, Continue, Between, Frame, WalkersOK
      <3>2. CASE s # t
        <4>1. walker'[s] = walker[s]
          BY <1>0, <1>8, <3>2, OwnFrame DEF Walk
        <4> QED BY <2>1, <3>2, <4>1, Alone
      <3> QED BY <3>1, <3>2
    <2>6. ~Walked(r)'
      BY <2>5 DEF Walked, Moving
    <2> HIDE DEF P
    <2>7. A
      BY <1>4, <2>2, <2>3, <2>4, <2>6
    <2>8. B
      <3>1. \A c \in PendingOf(r) : Passed(r, c.idx)
        BY <2>2
      <3>2. \A c \in PendingOf(r) : P(c.idx)
        BY <1>4, <2>3, <3>1
      <3> QED BY <2>2, <2>3, <2>4, <3>2
    <2>9. C
      BY <2>5
    <2> QED BY <1>1, <2>7, <2>8, <2>9
  <1>9. ASSUME UNCHANGED <<stepIdx[r], risk[r]>>,
               Walked(r)' \/ Asked(r)' => Walked(r) \/ Asked(r),
               Asked(r)' => Asked(r), PendingOf(r)' \subseteq PendingOf(r),
               \A t \in Tasks : walker'[t].run = r /\ walker'[t].pc = "park" =>
                                    walker'[t] = walker[t]
        PROVE  GatesBehind(r)'
    <2> HIDE DEF P
    <2>1. A
      BY <1>3, <1>4, <1>9 DEF GatesBehind
    <2>2. B
      <3>1. \A c \in PendingOf(r) : P(c.idx)
        BY <1>3, <1>4, <1>9 DEF GatesBehind
      <3> QED BY <1>3, <1>9, <3>1 DEF GatesBehind
    <2>3. C
      <3> SUFFICES ASSUME NEW t \in Tasks, walker'[t].run = r, walker'[t].pc = "park"
                   PROVE  /\ P(stepIdx'[r])
                          /\ Asked(r)' => P(stepIdx'[r] + 1)
                          /\ \A c \in PendingOf(r)' : c.idx = stepIdx'[r]
        OBVIOUS
      <3>1. /\ Passed(r, stepIdx[r])
            /\ Asked(r) => Passed(r, stepIdx[r] + 1)
            /\ \A c \in PendingOf(r) : c.idx = stepIdx[r]
        BY <1>3, <1>9 DEF GatesBehind
      <3> QED BY <1>4, <1>9, <3>1
    <2> QED BY <1>1, <2>1, <2>2, <2>3
  <1>10. ASSUME NEW t \in Tasks, walker'[t].run = r, walker'[t].pc = "park",
                ~\E s \in Tasks : OpenCheckpoint(s) /\ RunOf(s) = r
         PROVE  walker'[t] = walker[t]
    <2>1. ASSUME Walk(t) \/ Expire(t) \/ WalkerError(t)
          PROVE  FALSE
      <3>1. OpenCheckpoint(t)
        BY <1>0, <1>10, <2>1, ParkedBy
      <3>2. RunOf(t) = r
        BY <1>0, <1>10, <2>1, OwnFrame, RunsAssumption DEF RunOf, FreeSlot, Frame, NoRun
      <3> QED BY <1>10, <3>1, <3>2
    <2>2. FreeSlot.pc # "park" /\ \A q : Frame(q).pc # "park"
      BY DEF FreeSlot, Frame
    <2> QED BY <1>0, <1>10, <2>1, <2>2, SlotMoves, ToldFrame
  <1>11. ASSUME NEW u \in Users, request[u].run = r, Approve(u), UNCHANGED <<stepIdx[r], risk[r]>>
         PROVE  GatesBehind(r)'
    <2>1. PICK c \in PendingOf(r) : c.id = request[u].cp
      BY <1>0, <1>11 DEF Addressed, Approve, InFlight
    <2>2. /\ stepIdx[r] \in {c.idx, c.idx + 1} /\ Passed(r, c.idx) /\ c.idx \in StageIdx
          /\ c.run = r
      BY <1>0, <1>3, <2>1 DEF GatesBehind, PendingOf, TablesOK, Checkpoints
    <2>3. Approved(r, c.idx)'
      <3>1. [c EXCEPT !.status = "approved"] \in checkpoints'
        BY <1>11, <2>1 DEF Approve, Decide, PendingOf
      <3>2. c \in Checkpoints
        BY <1>0, <2>1 DEF PendingOf, TablesOK
      <3>3. [c EXCEPT !.status = "approved"].run = r
            /\ [c EXCEPT !.status = "approved"].idx = c.idx
            /\ [c EXCEPT !.status = "approved"].status = "approved"
        BY <2>2, <3>2 DEF Checkpoints
      <3> QED BY <3>1, <3>3 DEF Approved
    <2>4. P(c.idx + 1)
      <3>1. P(c.idx)
        BY <1>4, <1>11, <2>2
      <3> QED BY <2>2, <2>3, <3>1 DEF StageIdx
    <2>5. OneTurn(r)'
      BY OneTurnStep
    <2>6. Signalling(r)'
      BY <1>0, <1>11 DEF Approve, Then, Request, RequestsOK, Signalling
    <2>7. PendingOf(r)' = {}
      BY <2>5, <2>6 DEF OneTurn, Asked
    <2>8. P(stepIdx'[r])
      BY <1>5, <1>11, <2>2, <2>4 DEF StageIdx
    <2>9. ASSUME NEW t \in Tasks, walker'[t].run = r, walker'[t].pc = "park"
          PROVE  P(stepIdx'[r] + 1)
      <3>1. walker' = walker
        BY <1>11 DEF Approve
      <3>2. c.idx = stepIdx[r]
        BY <1>3, <2>1, <2>9, <3>1 DEF GatesBehind
      <3> QED BY <1>11, <2>4, <3>2
    <2> HIDE DEF P
    <2> QED BY <1>1, <2>7, <2>8, <2>9
  <1>12. ASSUME NEW t \in Tasks, OpenCheckpoint(t), RunOf(t) = r, UNCHANGED <<stepIdx[r], risk[r]>>
         PROVE  GatesBehind(r)'
    <2>1. walker[t].pc \in OnStage \ {"reread", "park"}
      BY <1>12 DEF OpenCheckpoint, Judging, At, OnStage, Engaged, Answering
    <2>2. walker[t].idx = stepIdx[r]
      BY <1>3, <1>12, <2>1 DEF UpToDate, RunOf, OnStage, Engaged, Answering, WalkerPCs
    <2>3. Walked(r)
      BY <1>12, <2>1 DEF Walked, RunOf, Moving, OnStage, Engaged, Answering, WalkerPCs
    <2>4. PendingOf(r) = {} /\ ~Asked(r) /\ Passed(r, stepIdx[r])
      BY <1>3, <2>3 DEF OneTurn, GatesBehind
    <2>5. ~Asked(r)'
      BY <1>12, <2>4 DEF OpenCheckpoint, Asked, Signalling, Signalled, Taken
    <2>6. \A c \in PendingOf(r)' : c.idx = stepIdx'[r]
      BY <1>12, <2>2, <2>4 DEF OpenCheckpoint, PendingOf
    <2>7. P(stepIdx'[r])
      BY <1>4, <1>12, <2>4
    <2> HIDE DEF P
    <2>8. A
      BY <2>7
    <2>9. B
      BY <2>6, <2>7
    <2>10. C
      BY <2>5, <2>6, <2>7
    <2> QED BY <1>1, <2>8, <2>9, <2>10
  <1>13. CASE UNCHANGED <<stepIdx[r], risk[r]>>
              /\ ~\E s \in Tasks : OpenCheckpoint(s) /\ RunOf(s) = r
    <2>1. CASE ~TurnOn(r)
      <3>1. Settled(r)
        BY <1>0, <2>1, TurnStays
      <3> QED BY <1>9, <1>10, <1>13, <3>1 DEF Settled, Asked
    <2>2. ASSUME NEW u \in Users, request[u].run = r, SignalStart(u) \/ SignalResume(u)
          PROVE  GatesBehind(r)'
      <3>1. Asked(r)
        BY <2>2 DEF Asked, Signalling, SignalStart, SignalResume, InFlight
      <3>2. PendingOf(r)' = PendingOf(r)
        BY <2>2 DEF SignalStart, SignalResume, PendingOf
      <3> QED BY <1>9, <1>10, <1>13, <3>1, <3>2
    <2>3. CASE ClearAction /\ NextTodo.run = r
      <3>1. Taken(r)' => Signalled(r)
        <4>1. loop' = LoopAt("act", loop.todo \ {NextTodo}, NextTodo) /\ NextTodo \in loop.todo
          BY <1>0, <2>3, NextTodoTyped DEF ClearAction
        <4>2. SUFFICES ASSUME NextTodo.action \in Signals
                       PROVE  Signalled(r)
          BY <4>1 DEF Taken, LoopAt
        <4>3. NextTodo = Todo(r, NextTodo.action)
          BY <1>0, <2>3, <4>1 DEF LoopOK, Todos, Todo
        <4> QED BY <4>1, <4>2, <4>3 DEF Signalled
      <3>2. Signalled(r)' => Signalled(r)
        BY <1>0, <2>3 DEF ClearAction, LoopAt, Signalled, SetAction, Set, RowsOK, Signals, NoAction
      <3>3. (Signalling(r)' => Signalling(r)) /\ (Walked(r)' => Walked(r))
            /\ PendingOf(r)' = PendingOf(r)
        BY <2>3 DEF ClearAction, Signalling, Walked, PendingOf
      <3> QED BY <1>9, <1>10, <1>13, <3>1, <3>2, <3>3 DEF Asked
    <2>4. CASE (StartRun \/ ResumeRun) /\ loop.cur.run = r
      <3>1. Asked(r)
        BY <2>4 DEF StartRun, ResumeRun, Handling, Asked, Taken, Signals
      <3>2. PendingOf(r)' = PendingOf(r)
        BY <2>4 DEF StartRun, ResumeRun, PendingOf
      <3> QED BY <1>9, <1>10, <1>13, <3>1, <3>2
    <2>5. ASSUME NEW u \in Users, request[u].run = r, Approve(u)
          PROVE  GatesBehind(r)'
      BY <1>11, <1>13, <2>5
    <2> QED BY <1>13, <2>1, <2>2, <2>3, <2>4, <2>5 DEF TurnOn
  <1> QED BY <1>0, <1>7, <1>8, <1>12, <1>13, RowMoves

\* A run is released past the gate of its last stage.
LEMMA ReleaseStep ==
    ASSUME IInv, GateInv, [Next]_vars, NEW r \in Runs, Exists(r)'
    PROVE  ReleaseApproved(r)'
  <1> USE DEF row, db, orch, broker
  <1>0. WalkersOK /\ RowsOK
    BY DEF IInv, TypeOK
  <1>1. Last(r)' = Last(r)
    BY DEF Last, WT
  <1>2. ASSUME r \in mrs, Exists(r)
        PROVE  ReleaseApproved(r)'
    <2>1. Approved(r, Last(r))
      BY <1>2 DEF GateInv, GatesKept, ReleaseApproved
    <2> QED BY <1>1, <2>1, ApprovedStays DEF ReleaseApproved
  <1>3. ASSUME ~Exists(r)
        PROVE  ReleaseApproved(r)'
    <2>1. PICK u \in Users : CreateRun(u, r)
      BY <1>3, Born
    <2>2. r \notin mrs'
      BY <2>1 DEF CreateRun, GateInv, Unheard
    <2> QED BY <2>2 DEF ReleaseApproved
  <1>4. ASSUME NEW t \in Tasks, OpenMR(t), RunOf(t) = r, Exists(r)
        PROVE  ReleaseApproved(r)'
    <2>1. walker[t].run = r /\ walker[t].pc = "merge"
      BY <1>4 DEF OpenMR, At, RunOf
    <2>2. walker[t].idx > Last(r) /\ stepIdx[r] = walker[t].idx
      BY <1>4, <2>1 DEF GateInv, GatesKept, UpToDate, WalkerPCs
    <2>3. Passed(r, stepIdx[r])
      BY <1>4, <2>1 DEF GateInv, GatesKept, GatesBehind, Walked, Moving, WalkerPCs
    <2>4. stepIdx[r] \in Nat /\ WT(r) \in WorkTypes
      BY <1>0, WorkTypeAssumption DEF RowsOK, WT
    <2>5. /\ Last(r) \in StageIdx
          /\ ShouldCheckpoint(AgentAt(WT(r), Last(r)), WT(r), risk[r])
      BY <2>4, LastHasGate DEF Last
    <2>6. Last(r) < stepIdx[r]
      BY <2>2, <2>4, <2>5 DEF StageIdx
    <2>7. Approved(r, Last(r))
      BY <2>3, <2>5, <2>6 DEF Passed
    <2> QED BY <1>1, <2>7, ApprovedStays DEF ReleaseApproved
  <1>5. ASSUME r \in mrs', r \notin mrs
        PROVE  \E t \in Tasks : OpenMR(t) /\ RunOf(t) = r
    <2>1. ASSUME NEW u \in Users, UserAsks(u) \/ Handler(u)
          PROVE  FALSE
      BY <1>5, <2>1
         DEF UserAsks, CreateRun, AskCancel, AskDelete, AskRestart, AskApprove, AskReject,
             Handler, SignalStart, SignalResume, MarkCancelled, MarkRejected, ResetRow,
             DeleteRow, Approve, Reject
    <2>2. ~MainLoop
      BY <1>5 DEF MainLoop, Boot, RecoverRun, FetchActions, ClearAction, StartRun, ResumeRun,
                  DropAction, CancelRun
    <2>3. ASSUME NEW t \in Tasks, Walk(t) \/ Expire(t)
          PROVE  OpenMR(t) /\ RunOf(t) = r
      BY <1>5, <2>3 DEF Walk, Begin, Claim, Top, CreateStep, Publish, Register, FailExpired,
                        RecordRisk, Reread, RollBack, GiveUp, OpenCheckpoint, Park, Advance,
                        OpenMR, Complete, DoneCallback, Locally, Expire
    <2>4. ~(ConsumeResult \/ Fault \/ (\E w \in Workers : Work(w)) \/ UNCHANGED vars)
      BY <1>5 DEF ConsumeResult, Fault, LoopError, OrchCrash, WebCrash, WalkerError,
                  WorkerCrash, RejectJob, Work, TakeJob, FinishJob, vars
    <2> QED BY <2>1, <2>2, <2>3, <2>4 DEF Next
  <1> QED BY <1>2, <1>3, <1>4, <1>5 DEF ReleaseApproved

-------------------------------------------------------------------------------
LEMMA GateInit ==
    ASSUME Init, NoSecondWalk
    PROVE  GateInv
  <1>1. WalkedOnce
    BY DEF Init, NoSecondWalk, WalkedOnce, LoopAt, Idle, Request
  <1>2. Addressed
    BY DEF Init, Addressed, LoopAt, Idle, Request
  <1>3. \A r \in Runs : ~Exists(r)
    BY DEF Init, Exists, Stored
  <1>4. ASSUME NEW r \in Runs
        PROVE  Unheard(r)
    <2>1. NoRun # r
      BY RunsAssumption DEF NoRun
    <2> QED BY <2>1 DEF Init, Unheard, LoopAt, Nothing, Todo, Idle, Request, FreeSlot, Frame
  <1> QED BY <1>1, <1>2, <1>3, <1>4 DEF GateInv

LEMMA GateStep ==
    ASSUME IInv, GateInv, OneReviewer, [Next]_vars
    PROVE  GateInv'
  <1>1. WalkedOnce'
    BY WalkedOnceStep DEF GateInv
  <1>2. Addressed'
    BY AddressedStep
  <1>3. ASSUME NEW r \in Runs, Exists(r)'
        PROVE  GatesKept(r)'
    <2>1. OneTurn(r)'
      BY <1>3, OneTurnStep
    <2>2. UpToDate(r)'
      BY <1>3, UpToDateStep
    <2>3. GatesBehind(r)'
      BY <1>3, GatesBehindStep
    <2>4. ReleaseApproved(r)'
      BY <1>3, ReleaseStep
    <2> QED BY <2>1, <2>2, <2>3, <2>4 DEF GatesKept
  <1>4. ASSUME NEW r \in Runs, status'[r] = "unborn"
        PROVE  Unheard(r)'
    BY <1>4, UnheardStep
  <1> QED BY <1>1, <1>2, <1>3, <1>4 DEF GateInv

\* With one reviewer, and while no run is walked a second time, every step of
\* the services, with any cancels, deletions, timeouts and faults of walkers,
\* workers, web handlers and the poll loop, preserves GateInv.
THEOREM GateInvariant ==
    ASSUME OneReviewer, NoSecondWalk
    PROVE  Spec => []GateInv
  <1>1. Init => GateInv
    BY GateInit
  <1>2. IInv /\ GateInv /\ [Next]_vars => GateInv'
    BY GateStep
  <1> QED BY <1>1, <1>2, InvHolds, PTL DEF Spec

\* Then no walker is past a stage with a gate whose checkpoint nobody approved.
THEOREM GatesAreHeld ==
    ASSUME OneReviewer, NoSecondWalk
    PROVE  Spec => []GatesHold
  <1>1. IInv /\ GateInv => GatesHold
    <2> SUFFICES ASSUME IInv, GateInv, NEW t \in Tasks, Live(t), Exists(RunOf(t)),
                        NEW i \in StageIdx, i < walker[t].idx,
                        ShouldCheckpoint(AgentAt(WT(RunOf(t)), i), WT(RunOf(t)), risk[RunOf(t)])
                 PROVE  Approved(RunOf(t), i)
      BY DEF GatesHold, Approved
    <2> DEFINE r == RunOf(t)
    <2>1. walker[t] \in Frames
      BY DEF IInv, TypeOK, WalkersOK, Live
    <2>2. r \in Runs /\ walker[t].pc \in WalkerPCs /\ walker[t].run = r
      BY <2>1 DEF Frames, RunOf
    <2>3. GatesKept(r)
      BY <2>2 DEF GateInv
    <2>4. walker[t].pc \notin {"start", "done"}
      BY <2>2, <2>3 DEF GatesKept, UpToDate, StageIdx
    <2>5. stepIdx[r] = walker[t].idx
      BY <2>2, <2>3, <2>4 DEF GatesKept, UpToDate
    <2>6. Passed(r, stepIdx[r])
      BY <2>2, <2>3, <2>4 DEF GatesKept, GatesBehind, Walked, Moving
    <2> QED BY <2>5, <2>6 DEF Passed
  <1> QED BY <1>1, InvHolds, GateInvariant, PTL

\* And no merge request is opened before the gate of the last stage is passed.
THEOREM ReleasesAreApproved ==
    ASSUME OneReviewer, NoSecondWalk
    PROVE  Spec => []ReleasesApproved
  <1>1. IInv /\ GateInv => ReleasesApproved
    BY DEF IInv, TypeOK, TablesOK, GateInv, GatesKept, ReleaseApproved, Approved, ReleasesApproved
  <1> QED BY <1>1, InvHolds, GateInvariant, PTL

-------------------------------------------------------------------------------
\* What the stages of a run cost.

\* What ends a walker, or moves it.
LEMMA SlotFate ==
    ASSUME IInv, [Next]_vars, NEW t \in Tasks, walker[t] # FreeSlot
    PROVE  \/ walker'[t] = walker[t]
           \/ Walk(t) \/ Expire(t) \/ WalkerError(t)
           \/ ConsumeResult \/ OrchCrash
           \/ CancelRun /\ t = active[loop.cur.run]
  <1> USE DEF row, db, orch, broker
  <1>0. WalkersOK
    BY DEF IInv, TypeOK
  <1>1. ASSUME NEW u \in Users, UserAsks(u) \/ Handler(u)
        PROVE  UNCHANGED walker
    BY <1>1 DEF UserAsks, CreateRun, AskCancel, AskDelete, AskRestart, AskApprove, AskReject,
                Handler, SignalStart, SignalResume, MarkCancelled, MarkRejected, ResetRow,
                DeleteRow, Approve, Reject
  <1>2. CASE MainLoop
    <2>1. CASE StartRun \/ ResumeRun
      <3>1. PICK s \in Tasks : /\ walker[s] = FreeSlot
                               /\ walker' = [walker EXCEPT ![s] = Frame(loop.cur.run)]
        BY <2>1 DEF StartRun, ResumeRun, Spawn
      <3> QED BY <1>0, <3>1 DEF WalkersOK
    <2>2. CASE CancelRun
      BY <2>2 DEF CancelRun
    <2> QED BY <1>2, <2>1, <2>2 DEF MainLoop, Boot, RecoverRun, FetchActions, ClearAction,
                                    DropAction
  <1>3. ASSUME NEW s \in Tasks, Walk(s) \/ Expire(s) \/ WalkerError(s)
        PROVE  s = t \/ walker'[t] = walker[t]
    BY <1>0, <1>3, OwnFrame
  <1>4. CASE Fault
    BY <1>3, <1>4 DEF Fault, LoopError, WebCrash, WorkerCrash, RejectJob
  <1>5. CASE (\E w \in Workers : Work(w)) \/ UNCHANGED vars
    BY <1>5 DEF Work, TakeJob, FinishJob, vars
  <1> QED BY <1>1, <1>2, <1>3, <1>4, <1>5 DEF Next

\* A turn is not made from nothing, but by filing the run.
LEMMA TurnGoesOn ==
    ASSUME IInv, GateInv, [Next]_vars, NEW r \in Runs, Exists(r), InTurn(r)'
    PROVE  InTurn(r)
  <1>0. LoopOK /\ WalkedOnce /\ Addressed
    BY DEF IInv, TypeOK, GateInv
  <1>1. CASE ~TurnOn(r)
    BY <1>0, <1>1, TurnStays DEF Settled, InTurn, Asked
  <1>2. ASSUME NEW u \in Users, request[u].run = r, SignalStart(u) \/ SignalResume(u)
        PROVE  InTurn(r)
    BY <1>2 DEF Signalling, SignalStart, SignalResume, InFlight, InTurn, Asked
  <1>3. ASSUME NEW u \in Users, request[u].run = r, Approve(u)
        PROVE  InTurn(r)
    BY <1>0, <1>3 DEF Addressed, Approve, InFlight, InTurn
  <1>4. CASE ClearAction /\ NextTodo.run = r
    <2>1. loop' = LoopAt("act", loop.todo \ {NextTodo}, NextTodo) /\ NextTodo \in loop.todo
      BY <1>0, <1>4, NextTodoTyped DEF ClearAction
    <2>2. NextTodo = Todo(r, NextTodo.action)
      BY <1>0, <1>4, <2>1 DEF LoopOK, Todos, Todo
    <2>3. Taken(r)' => Signalled(r)
      BY <2>1, <2>2 DEF Taken, Signalled, LoopAt
    <2>4. Signalled(r)' => Signalled(r)
      BY <1>0, <1>4 DEF ClearAction, LoopAt, Signalled, SetAction, Set, IInv, TypeOK, RowsOK,
                        Signals, NoAction
    <2>5. (Signalling(r)' => Signalling(r)) /\ (Walked(r)' => Walked(r))
          /\ PendingOf(r)' = PendingOf(r)
      BY <1>4 DEF ClearAction, Signalling, Walked, PendingOf, db, broker
    <2> QED BY <2>3, <2>4, <2>5 DEF InTurn, Asked
  <1>5. CASE (StartRun \/ ResumeRun) /\ loop.cur.run = r
    BY <1>5 DEF StartRun, ResumeRun, Handling, Asked, Taken, Signals, InTurn
  <1>6. ASSUME NEW t \in Tasks, OpenCheckpoint(t), RunOf(t) = r
        PROVE  InTurn(r)
    BY <1>6 DEF OpenCheckpoint, Judging, At, RunOf, Walked, Moving, WalkerPCs, InTurn
  <1> QED BY <1>1, <1>2, <1>3, <1>4, <1>5, <1>6 DEF TurnOn

\* A row goes by being deleted.
LEMMA RowGoes ==
    ASSUME IInv, [Next]_vars, NEW r \in Runs, Exists(r), ~Exists(r)'
    PROVE  \E u \in Users : DeleteRow(u) /\ request[u].run = r
  <1> USE DEF row, db, orch, broker
  <1>0. RowsOK
    BY DEF IInv, TypeOK
  <1>1. ~UNCHANGED status
    BY DEF Exists
  <1>2. ASSUME NEW q, NEW s \in Stored, SetStatus(q, s)
        PROVE  FALSE
    BY <1>0, <1>2 DEF Exists, SetStatus, Set, RowsOK
  <1>3. ASSUME NEW u \in Users, UserAsks(u)
        PROVE  FALSE
    <2>1. ASSUME NEW q \in Runs, CreateRun(u, q)
          PROVE  FALSE
      BY <1>0, <2>1 DEF CreateRun, Exists, RowsOK, Stored
    <2> QED BY <1>1, <1>3, <2>1
            DEF UserAsks, AskCancel, AskDelete, AskRestart, AskApprove, AskReject
  <1>4. ASSUME NEW u \in Users, Handler(u)
        PROVE  DeleteRow(u) /\ request[u].run = r
    <2>1. CASE DeleteRow(u)
      BY <1>0, <2>1 DEF DeleteRow, Exists, RowsOK
    <2> QED BY <1>1, <1>2, <1>4, <2>1
            DEF Handler, SignalStart, SignalResume, MarkCancelled, MarkRejected, ResetRow,
                Approve, Reject, Stored
  <1>5. ~MainLoop
    BY <1>1, <1>2 DEF MainLoop, Boot, RecoverRun, FetchActions, ClearAction, StartRun,
                      ResumeRun, DropAction, CancelRun, Stored
  <1>6. ASSUME NEW t \in Tasks, Walk(t) \/ Expire(t)
        PROVE  FALSE
    BY <1>1, <1>2, <1>6
       DEF Walk, Begin, Claim, Top, CreateStep, Publish, Register, FailExpired, RecordRisk,
           Reread, RollBack, GiveUp, OpenCheckpoint, Park, Advance, OpenMR, Complete,
           DoneCallback, Locally, Expire, Stored
  <1>7. ~(ConsumeResult \/ Fault \/ (\E w \in Workers : Work(w)) \/ UNCHANGED vars)
    BY <1>1, <1>2 DEF ConsumeResult, Fault, LoopError, OrchCrash, WebCrash, WalkerError,
                      WorkerCrash, RejectJob, Work, TakeJob, FinishJob, vars, Stored
  <1> QED BY <1>3, <1>4, <1>5, <1>6, <1>7 DEF Next

\* An attempt is counted by the walker that makes it.
LEMMA AttemptsMove ==
    ASSUME IInv, [Next]_vars, NEW r \in Runs
    PROVE  \/ attempts'[r] = attempts[r]
           \/ \E t \in Tasks : CreateStep(t) /\ RunOf(t) = r /\ Exists(r)
           \/ \E u \in Users : DeleteRow(u) /\ request[u].run = r
  <1> USE DEF row, db, orch, broker
  <1>0. attempts \in [Runs -> [StageIdx -> Nat]]
    BY DEF IInv, TypeOK, TablesOK
  <1>1. ASSUME UNCHANGED attempts
        PROVE  attempts'[r] = attempts[r]
    BY <1>1
  <1>2. ASSUME NEW u \in Users, UserAsks(u) \/ Handler(u)
        PROVE  attempts'[r] = attempts[r] \/ (DeleteRow(u) /\ request[u].run = r)
    <2>1. CASE DeleteRow(u)
      BY <1>0, <2>1 DEF DeleteRow
    <2> QED BY <1>1, <1>2, <2>1
         DEF UserAsks, CreateRun, AskCancel, AskDelete, AskRestart, AskApprove, AskReject,
             Handler, SignalStart, SignalResume, MarkCancelled, MarkRejected, ResetRow,
             Approve, Reject
  <1>3. ASSUME MainLoop
        PROVE  attempts'[r] = attempts[r]
    BY <1>1, <1>3 DEF MainLoop, Boot, RecoverRun, FetchActions, ClearAction, StartRun,
                      ResumeRun, DropAction, CancelRun
  <1>4. ASSUME NEW t \in Tasks, Walk(t) \/ Expire(t)
        PROVE  attempts'[r] = attempts[r] \/ (CreateStep(t) /\ RunOf(t) = r /\ Exists(r))
    <2>1. CASE CreateStep(t)
      BY <1>0, <2>1 DEF CreateStep
    <2> QED BY <1>1, <1>4, <2>1
       DEF Walk, Begin, Claim, Top, Publish, Register, FailExpired, RecordRisk,
           Reread, RollBack, GiveUp, OpenCheckpoint, Park, Advance, OpenMR, Complete,
           DoneCallback, Locally, Expire
  <1>5. CASE ConsumeResult \/ Fault \/ (\E w \in Workers : Work(w)) \/ UNCHANGED vars
    BY <1>1, <1>5 DEF ConsumeResult, Fault, LoopError, OrchCrash, WebCrash, WalkerError,
                      WorkerCrash, RejectJob, Work, TakeJob, FinishJob, vars
  <1> QED BY <1>2, <1>3, <1>4, <1>5 DEF Next

LEMMA KillsTyped ==
    ASSUME TypeOK, NEW r \in Runs
    PROVE  KillsAhead(r) \in Nat
  <1>1. \A b : Count(b) \in Nat
    BY DEF Count
  <1>2. left["cancel"] \in Nat /\ left["walkerError"] \in Nat
    BY DEF TypeOK, RequestsOK, BudgetOps
  <1> DEFINE x == Count(\E u \in Users : request[u].run = r /\ request[u].pc = "markCancelled")
             y == Count(action[r] = "cancel" \/ Todo(r, "cancel") \in loop.todo)
             z == Count(loop.pc = "act" /\ loop.cur = Todo(r, "cancel"))
  <1>3. x \in Nat /\ y \in Nat /\ z \in Nat
    BY <1>1
  <1>4. KillsAhead(r) = left["cancel"] + left["walkerError"] + x + y + z
    BY DEF KillsAhead
  <1> HIDE DEF x, y, z
  <1> QED BY <1>2, <1>3, <1>4

\* A kill goes from the budget to the request, to the row, to the loop, and is
\* counted at one place at a time.
LEMMA KillsShrink ==
    ASSUME IInv, GateInv, OneReviewer, [Next]_vars, NEW r \in Runs, Exists(r)
    PROVE  KillsAhead(r)' \in Nat /\ KillsAhead(r)' <= KillsAhead(r)
  <1> USE DEF row, db, orch, broker
  <1>0. RowsOK /\ LoopOK /\ RequestsOK /\ WalkedOnce /\ Addressed /\ RequestsOK'
    BY TypeStep DEF IInv, TypeOK, GateInv
  <1> DEFINE P1 == \E u \in Users : request[u].run = r /\ request[u].pc = "markCancelled"
             P2 == action[r] = "cancel" \/ Todo(r, "cancel") \in loop.todo
             P3 == loop.pc = "act" /\ loop.cur = Todo(r, "cancel")
             a  == left["cancel"]
             b  == left["walkerError"]
  <1>1. /\ KillsAhead(r) = a + b + Count(P1) + Count(P2) + Count(P3)
        /\ KillsAhead(r)' = a' + b' + Count(P1') + Count(P2') + Count(P3')
    BY DEF KillsAhead, Count
  <1>2. a \in Nat /\ b \in Nat /\ a' \in Nat /\ b' \in Nat
    BY <1>0 DEF RequestsOK, BudgetOps
  <1>3. a' <= a /\ b' <= b
    BY LeftShrinks DEF BudgetOps
  <1>4. \A x : Count(x) \in {0, 1} /\ (Count(x) = 1 <=> x)
    BY DEF Count
  <1>5. UNCHANGED request => (P1' => P1)
    OBVIOUS
  <1>6. UNCHANGED <<action, loop>> => (P2' => P2) /\ (P3' => P3)
    OBVIOUS
  <1> DEFINE Kept == (P1' => P1) /\ (P2' => P2) /\ (P3' => P3)
             Goal == KillsAhead(r)' <= KillsAhead(r)
  <1> HIDE DEF P1, P2, P3, a, b
  <1>7. Kept => Goal
    BY <1>1, <1>2, <1>3, <1>4
  <1>8. ASSUME a' = a - 1, P2' => P2, P3' => P3
        PROVE  Goal
    BY <1>1, <1>2, <1>3, <1>4, <1>8
  <1>9. ASSUME P1, ~P1', P3' => P3
        PROVE  Goal
    <2>1. Count(P1) = 1 /\ Count(P1') = 0 /\ Count(P3') <= Count(P3)
          /\ Count(P2) \in {0, 1} /\ Count(P2') \in {0, 1} /\ Count(P3) \in {0, 1}
          /\ Count(P3') \in {0, 1}
      BY <1>9 DEF Count
    <2> QED BY <1>1, <1>2, <1>3, <2>1
  <1>10. ASSUME P1' => P1, P3' => P2, ~P2'
         PROVE  Goal
    BY <1>1, <1>2, <1>3, <1>4, <1>10
  <1> HIDE DEF Goal
  <1>11. ASSUME NEW u \in Users, UserAsks(u)
         PROVE  Goal
    <2>1. ASSUME NEW q \in Runs, AskCancel(u, q)
          PROVE  Goal
      <3>1. a' = a - 1
        BY <1>0, <2>1 DEF AskCancel, Spend, a, RequestsOK, BudgetOps
      <3>2. UNCHANGED <<action, loop>>
        BY <2>1 DEF AskCancel
      <3> QED BY <1>6, <1>8, <3>1, <3>2
    <2>2. ASSUME NEW pc, NEW q, NEW k, Then(u, Request(pc, q, k)), pc # "markCancelled"
          PROVE  P1' => P1
      BY <1>0, <2>2 DEF Then, Request, RequestsOK, P1
    <2> HIDE DEF Kept
    <2>3. ASSUME P1' => P1, UNCHANGED <<action, loop>>
          PROVE  Goal
      BY <1>6, <1>7, <2>3 DEF Kept
    <2> QED BY <1>11, <2>1, <2>2, <2>3
            DEF UserAsks, CreateRun, AskDelete, AskRestart, AskApprove, AskReject
  <1>12. ASSUME NEW u \in Users, Handler(u)
         PROVE  Goal
    <2>1. ASSUME NEW pc, NEW q, NEW k, Then(u, Request(pc, q, k)), pc # "markCancelled"
          PROVE  P1' => P1
      BY <1>0, <2>1 DEF Then, Request, RequestsOK, P1
    <2>2. Answered(u) => (P1' => P1)
      BY <2>1 DEF Answered, Idle
    <2>3. ASSUME NEW q, NEW v, SetAction(q, v), UNCHANGED loop, q # r \/ v # "cancel"
          PROVE  (P2' => P2) /\ (P3' => P3)
      BY <1>0, <2>3 DEF SetAction, Set, P2, P3, RowsOK
    <2>4. CASE MarkCancelled(u)
      <3>1. CASE request[u].run = r
        <4>1. P1 /\ ~P1'
          BY <1>0, <2>4, <3>1 DEF MarkCancelled, InFlight, P1, Answered, Then, Idle, Request,
                                  RequestsOK, OneReviewer
        <4>2. P3' => P3
          BY <2>4 DEF MarkCancelled, P3
        <4> QED BY <1>9, <4>1, <4>2
      <3>2. CASE request[u].run # r
        BY <1>7, <2>2, <2>3, <2>4, <3>2 DEF MarkCancelled
      <3> QED BY <3>1, <3>2
    <2>5. CASE DeleteRow(u)
      <3>1. (P2' => P2) /\ (P3' => P3)
        BY <1>0, <2>5 DEF DeleteRow, P2, P3, RowsOK, NoAction
      <3> QED BY <1>7, <2>2, <2>5, <3>1 DEF DeleteRow
    <2>6. CASE SignalStart(u) \/ SignalResume(u)
      BY <1>7, <2>2, <2>3, <2>6 DEF SignalStart, SignalResume
    <2>7. CASE Approve(u) \/ Reject(u) \/ MarkRejected(u) \/ ResetRow(u)
      <3>1. UNCHANGED <<action, loop>> /\ (P1' => P1)
        BY <2>1, <2>2, <2>7 DEF Approve, Reject, MarkRejected, ResetRow
      <3> QED BY <1>6, <1>7, <3>1
    <2> QED BY <1>12, <2>4, <2>5, <2>6, <2>7 DEF Handler
  <1>13. ASSUME MainLoop
         PROVE  Goal
    <2>1. UNCHANGED request
      BY <1>13 DEF MainLoop, Boot, RecoverRun, FetchActions, ClearAction, StartRun, ResumeRun,
                   DropAction, CancelRun
    <2>2. CASE Boot
      <3>1. loop' = LoopAt("recover", {Todo(q, "start") : q \in {p \in Runs : status[p] = "running"}},
                           Nothing) /\ UNCHANGED action
        BY <2>2 DEF Boot
      <3>2. (P2' => P2) /\ ~P3'
        BY <3>1 DEF LoopAt, P2, P3, Todo
      <3> QED BY <1>5, <1>7, <2>1, <3>2
    <2>3. ~RecoverRun
      BY <1>0 DEF WalkedOnce, RecoverRun
    <2>4. CASE FetchActions
      <3>1. loop' = LoopAt("rows", {Todo(q, action[q]) : q \in {p \in Runs : action[p] # NoAction}},
                           Nothing) /\ UNCHANGED action
        BY <2>4 DEF FetchActions
      <3>2. (P2' => P2) /\ ~P3'
        BY <3>1 DEF LoopAt, P2, P3, Todo
      <3> QED BY <1>5, <1>7, <2>1, <3>2
    <2>5. CASE ClearAction
      <3>1. /\ loop' = LoopAt("act", loop.todo \ {NextTodo}, NextTodo)
            /\ SetAction(NextTodo.run, NoAction) /\ NextTodo \in loop.todo
        BY <1>0, <2>5, NextTodoTyped DEF ClearAction
      <3>2. CASE NextTodo.run = r
        <4>1. action'[r] = NoAction
          BY <1>0, <3>1, <3>2 DEF SetAction, Set, RowsOK
        <4>2. \A d \in loop'.todo : d.run # r
          BY <1>0, <3>1, <3>2 DEF Addressed, LoopAt
        <4>3. ~P2'
          BY <4>1, <4>2 DEF P2, NoAction, Todo
        <4>4. P3' => P2
          BY <3>1 DEF LoopAt, P2, P3
        <4> QED BY <1>5, <1>10, <2>1, <4>3, <4>4
      <3>3. CASE NextTodo.run # r
        <4>1. (P2' => P2) /\ ~P3'
          BY <1>0, <3>1, <3>3 DEF SetAction, Set, RowsOK, LoopAt, P2, P3, Todo
        <4> QED BY <1>5, <1>7, <2>1, <4>1
      <3> QED BY <3>2, <3>3
    <2>6. CASE StartRun \/ ResumeRun \/ DropAction \/ CancelRun
      <3>1. UNCHANGED action /\ loop' = LoopAt("rows", loop.todo, Nothing)
        BY <2>6 DEF StartRun, ResumeRun, DropAction, CancelRun, Handled
      <3>2. (P2' => P2) /\ ~P3'
        BY <3>1 DEF LoopAt, P2, P3
      <3> QED BY <1>5, <1>7, <2>1, <3>2
    <2> QED BY <1>13, <2>2, <2>3, <2>4, <2>5, <2>6 DEF MainLoop
  <1>14. ASSUME NEW t \in Tasks, Walk(t) \/ Expire(t) \/ WalkerError(t)
         PROVE  Goal
    <2>1. UNCHANGED <<request, action, loop>>
      BY <1>14 DEF Walk, Begin, Claim, Top, CreateStep, Publish, Register, FailExpired,
                   RecordRisk, Reread, RollBack, GiveUp, OpenCheckpoint, Park, Advance, OpenMR,
                   Complete, DoneCallback, Locally, Expire, WalkerError
    <2> QED BY <1>5, <1>6, <1>7, <2>1
  <1>15. ASSUME Fault
         PROVE  Goal
    <2>1. ASSUME LoopError
          PROVE  Goal
      <3>1. UNCHANGED <<request, action>> /\ loop' = LoopAt("rows", {}, Nothing)
        BY <2>1 DEF LoopError
      <3>2. (P2' => P2) /\ ~P3'
        BY <3>1 DEF LoopAt, P2, P3
      <3> QED BY <1>5, <1>7, <3>1, <3>2
    <2>2. ~OrchCrash
      BY <1>0 DEF OrchCrash, Spend, WalkedOnce
    <2>3. ASSUME NEW u \in Users, WebCrash(u)
          PROVE  Goal
      <3>1. P1' => P1
        BY <1>0, <2>3 DEF WebCrash, Answered, Then, Idle, Request, RequestsOK, P1
      <3>2. UNCHANGED <<action, loop>>
        BY <2>3 DEF WebCrash
      <3> QED BY <1>6, <1>7, <3>1, <3>2
    <2>4. ASSUME NEW w \in Workers, WorkerCrash(w) \/ RejectJob(w)
          PROVE  Goal
      <3>1. UNCHANGED <<request, action, loop>>
        BY <2>4 DEF WorkerCrash, RejectJob
      <3> QED BY <1>5, <1>6, <1>7, <3>1
    <2> QED BY <1>14, <1>15, <2>1, <2>2, <2>3, <2>4 DEF Fault
  <1>16. ASSUME ConsumeResult \/ (\E w \in Workers : Work(w)) \/ UNCHANGED vars
         PROVE  Goal
    <2>1. UNCHANGED <<request, action, loop>>
      BY <1>16 DEF ConsumeResult, Work, TakeJob, FinishJob, vars
    <2> QED BY <1>5, <1>6, <1>7, <2>1
  <1>17. Goal
    BY <1>11, <1>12, <1>13, <1>14, <1>15, <1>16 DEF Next
  <1>18. KillsAhead(r)' \in Nat
    <2>1. Count(P1') \in Nat /\ Count(P2') \in Nat /\ Count(P3') \in Nat
      BY DEF Count
    <2> QED BY <1>1, <1>2, <2>1
  <1> QED BY <1>17, <1>18 DEF Goal

\* The kill of a walker that has parked is spent.
LEMMA KillSpent ==
    ASSUME TypeOK, NEW r \in Runs,
           \/ \E t \in Tasks : WalkerError(t)
           \/ CancelRun /\ loop.cur.run = r
    PROVE  KillsAhead(r)' <= KillsAhead(r) - 1
  <1> USE DEF row, db, orch, broker
  <1>0. RequestsOK /\ LoopOK
    BY DEF TypeOK
  <1> DEFINE P1 == \E u \in Users : request[u].run = r /\ request[u].pc = "markCancelled"
             P2 == action[r] = "cancel" \/ Todo(r, "cancel") \in loop.todo
             P3 == loop.pc = "act" /\ loop.cur = Todo(r, "cancel")
             a  == left["cancel"]
             b  == left["walkerError"]
  <1>1. /\ KillsAhead(r) = a + b + Count(P1) + Count(P2) + Count(P3)
        /\ KillsAhead(r)' = a' + b' + Count(P1') + Count(P2') + Count(P3')
    BY DEF KillsAhead, Count
  <1>2. a \in Nat /\ b \in Nat
    BY <1>0 DEF RequestsOK, BudgetOps
  <1>3. \A x : Count(x) \in {0, 1} /\ (Count(x) = 1 <=> x)
    BY DEF Count
  <1>4. CASE \E t \in Tasks : WalkerError(t)
    <2>1. UNCHANGED <<request, action, loop>> /\ Spend("walkerError")
      BY <1>4 DEF WalkerError
    <2>2. b' = b - 1 /\ a' = a
      BY <1>0, <2>1 DEF Spend, RequestsOK, BudgetOps
    <2>3. (P1' <=> P1) /\ (P2' <=> P2) /\ (P3' <=> P3)
      BY <2>1
    <2> HIDE DEF P1, P2, P3, a, b
    <2> QED BY <1>1, <1>2, <1>3, <2>2, <2>3
  <1>5. CASE CancelRun /\ loop.cur.run = r
    <2>1. UNCHANGED <<request, action, left>> /\ loop' = LoopAt("rows", loop.todo, Nothing)
      BY <1>5 DEF CancelRun, Handled
    <2>2. loop.cur = Todo(r, "cancel")
      BY <1>0, <1>5, RunsAssumption
         DEF CancelRun, Handling, LoopOK, Todos, Todo, Nothing, NoRun
    <2>3. (P1' <=> P1) /\ (P2' <=> P2) /\ P3 /\ ~P3'
      BY <1>5, <2>1, <2>2 DEF LoopAt, CancelRun, Handling
    <2>4. a' = a /\ b' = b
      BY <2>1
    <2> HIDE DEF P1, P2, P3, a, b
    <2>5. Count(P1') = Count(P1) /\ Count(P2') = Count(P2) /\ Count(P3) = 1 /\ Count(P3') = 0
      BY <2>3 DEF Count
    <2> QED BY <1>1, <1>2, <1>3, <2>4, <2>5
  <1> QED BY <1>4, <1>5

\* A stage that is begun stays begun, unless the run is sent back, or its walker
\* is killed between the checkpoint and the row.
LEMMA BegunGoesOn ==
    ASSUME IInv, GateInv, CostInv, [Next]_vars, NEW r \in Runs, Exists(r), Exists(r)',
           NEW i \in StageIdx, Begun(r, i), ~Begun(r, i)', InTurn(r)'
    PROVE  \/ \E t \in Tasks : /\ RunOf(t) = r /\ RollBack(t) /\ stepIdx'[r] <= i
                               /\ walker[t].pc \in OnStage /\ i <= walker[t].idx
           \/ \E t \in Tasks : /\ RunOf(t) = r /\ walker[t].pc = "park" /\ walker[t].idx = i
                               /\ WalkerError(t) \/ (CancelRun /\ loop.cur.run = r)
  <1> USE DEF row, db, orch, broker
  <1>0. WalkersOK /\ RowsOK /\ WalkedOnce /\ UpToDate(r) /\ OneTurn(r) /\ LoopOK
    BY DEF IInv, TypeOK, GateInv, GatesKept
  <1>1. stepIdx[r] \in Nat /\ i \in Nat
    BY <1>0 DEF RowsOK, StageIdx
  <1>2. ASSUME NEW t \in Tasks, RunOf(t) = r, Park(t) \/ Advance(t)
        PROVE  FALSE
    <2>1. walker[t].idx = stepIdx[r]
      BY <1>0, <1>2 DEF Park, Advance, Judging, At, UpToDate, RunOf, WalkerPCs
    <2>2. stepIdx'[r] = stepIdx[r] + 1
      BY <1>0, <1>2, <2>1 DEF Park, Advance, SetIdx, Set, RowsOK
    <2>3. i < stepIdx'[r]
      BY <1>1, <2>2 DEF Begun
    <2> QED BY <2>3 DEF Begun
  <1>3. ASSUME NEW t \in Tasks, RunOf(t) = r, RollBack(t)
        PROVE  /\ stepIdx'[r] <= i /\ walker[t].pc \in OnStage /\ i <= walker[t].idx
    <2>1. walker[t].pc \in OnStage
      BY <1>3 DEF RollBack, Judging, At, OnStage, Engaged, Answering
    <2>2. walker[t].idx = stepIdx[r]
      BY <1>0, <1>3 DEF RollBack, Judging, At, UpToDate, RunOf, WalkerPCs
    <2>3. i <= walker[t].idx
      BY <1>1, <2>2 DEF Begun
    <2>4. stepIdx'[r] \in Nat
      BY <1>0, TypeStep DEF IInv, TypeOK, RowsOK
    <2>5. stepIdx'[r] <= i
      BY <1>1, <2>4 DEF Begun
    <2> QED BY <2>1, <2>3, <2>5
  <1>4. CASE ~\E t \in Tasks : RunOf(t) = r /\ (RollBack(t) \/ Park(t) \/ Advance(t))
    <2>1. stepIdx'[r] = stepIdx[r]
      <3>1. ASSUME NEW t \in Tasks, RecordRisk(t)
            PROVE  stepIdx'[r] = stepIdx[r]
        BY <3>1 DEF RecordRisk
      <3> QED BY <1>0, <1>4, <3>1, RowMoves
    <2>2. i = stepIdx[r]
      BY <1>1, <2>1 DEF Begun
    <2>3. PICK t \in Tasks : walker[t].run = r /\ walker[t].pc \in OnStage \ {"step"}
      BY <1>1, <2>2 DEF Begun
    <2>4. ~(walker'[t].run = r /\ walker'[t].pc \in OnStage \ {"step"})
      BY <2>1, <2>2 DEF Begun
    <2>5. walker[t] \in Frames /\ walker[t].pc \in WalkerPCs /\ RunOf(t) = r
          /\ walker[t].pc \notin {"start", "done"}
      BY <1>0, <2>3, LiveFrame DEF RunOf, Frames, OnStage, Engaged, Answering
    <2>6. walker[t].idx = i
      BY <1>0, <2>2, <2>3, <2>5 DEF UpToDate
    <2>7. walker[t] # FreeSlot
      BY <2>3, RunsAssumption DEF FreeSlot, Frame, NoRun
    <2>8. ASSUME walker[t].pc # "park", UNCHANGED <<checkpoints, action, loop, request>>,
                 walker'[t].pc \notin Moving,
                 \A s \in Tasks \ {t} : walker'[s] = walker[s] \/ walker'[s] = FreeSlot
          PROVE  FALSE
      <3>1. Walked(r)
        BY <2>3, <2>5, <2>8 DEF Walked, Moving
      <3>2. PendingOf(r)' = {} /\ ~Asked(r)'
        BY <1>0, <2>8, <3>1 DEF OneTurn, PendingOf, Asked, Signalling, Signalled, Taken
      <3>3. ~Walked(r)'
        <4>1. SUFFICES ASSUME NEW s \in Tasks, walker'[s].run = r, walker'[s].pc \in Moving
                       PROVE  FALSE
          BY DEF Walked
        <4>2. s # t
          BY <2>8, <4>1
        <4>3. walker'[s] = walker[s]
          BY <2>8, <4>1, <4>2, RunsAssumption DEF FreeSlot, Frame, NoRun
        <4> QED BY <2>3, <4>1, <4>2, <4>3, Alone
      <3> QED BY <3>2, <3>3 DEF InTurn
    <2>9. FreeSlot.pc \notin Moving
      BY DEF FreeSlot, Frame, Moving, WalkerPCs
    <2>10. CASE ConsumeResult
      BY <1>0, <2>3, <2>4, <2>10, ToldFrame DEF OnStage, Engaged, Answering
    <2>11. CASE CancelRun /\ t = active[loop.cur.run]
      <3>1. loop.cur.run \in Runs
        BY <1>0, <2>11 DEF CancelRun, Handling, LoopOK, Todos, Nothing, Todo, NoAction
      <3>2. active[loop.cur.run] # NoTask
        BY <2>11, TasksAssumption DEF NoTask
      <3>3. loop.cur.run = r
        BY <2>3, <2>11, <3>1, <3>2 DEF CostInv, ActiveFits
      <3>4. walker[t].pc = "park"
        <4>1. SUFFICES ASSUME walker[t].pc # "park"
                       PROVE  FALSE
          OBVIOUS
        <4>2. Walked(r)
          BY <2>3, <2>5, <4>1 DEF Walked, Moving
        <4>3. PendingOf(r)' = {} /\ ~Signalling(r)'
          BY <1>0, <2>11, <4>2 DEF OneTurn, PendingOf, Asked, Signalling, CancelRun
        <4>4. ~Signalled(r)' /\ ~Taken(r)'
          BY <1>0, <2>11, <4>2 DEF OneTurn, Asked, Signalled, Taken, CancelRun, Handled, LoopAt
        <4>5. ~Walked(r)'
          <5>1. SUFFICES ASSUME NEW s \in Tasks, walker'[s].run = r, walker'[s].pc \in Moving
                         PROVE  FALSE
            BY DEF Walked
          <5>2. walker'[s] = walker[s] /\ s # t
            BY <2>9, <2>11, <5>1 DEF CancelRun
          <5> QED BY <2>3, <5>1, <5>2, Alone
        <4> QED BY <4>3, <4>4, <4>5 DEF InTurn, Asked
      <3> QED BY <2>5, <2>6, <2>11, <3>3, <3>4
    <2>12. ~OrchCrash
      BY <1>0 DEF WalkedOnce, OrchCrash, Spend
    <2>13. CASE WalkerError(t)
      <3>1. walker'[t].pc = "done"
        BY <1>0, <2>13 DEF WalkerError, Return, Continue, Between, Frame, WalkersOK
      <3>2. walker[t].pc = "park"
        BY <1>0, <2>8, <2>13, <3>1, OwnFrame DEF WalkerError, Moving
      <3> QED BY <2>5, <2>6, <2>13, <3>2
    <2>14. CASE Walk(t) \/ Expire(t)
      <3>1. ASSUME NEW pc \in OnStage \ {"step"}, Goto(t, pc)
            PROVE  FALSE
        BY <1>0, <2>3, <2>4, <2>5, <3>1 DEF Goto, WalkersOK, Frames
      <3>2. ASSUME Return(t), UNCHANGED <<checkpoints, action, loop, request>>,
                   walker[t].pc # "park"
            PROVE  FALSE
        <4>1. walker'[t].pc = "done"
          BY <1>0, <3>2 DEF Return, Continue, Between, Frame, WalkersOK
        <4> QED BY <1>0, <2>8, <2>14, <3>2, <4>1, OwnFrame DEF Moving
      <3>3. ~(Begin(t) \/ Claim(t) \/ Top(t) \/ CreateStep(t) \/ OpenMR(t) \/ Complete(t)
              \/ DoneCallback(t))
        BY <2>3 DEF Begin, Claim, Top, CreateStep, OpenMR, Complete, DoneCallback, At, OnStage,
                    Engaged, Answering
      <3>4. ~(Register(t) \/ RecordRisk(t) \/ Expire(t))
        BY <3>1 DEF Register, RecordRisk, Expire, OnStage, Engaged, Answering
      <3>5. ~Publish(t)
        BY <1>0, <2>3, <2>4, <2>5 DEF Publish, WalkersOK, Frames, OnStage, Engaged, Answering
      <3>6. ~Reread(t)
        BY <1>0, <2>3, <2>4, <2>5
           DEF Reread, WalkersOK, Frames, OnStage, Engaged, Answering
      <3>7. ~OpenCheckpoint(t)
        BY <2>5, <3>1 DEF OpenCheckpoint, OnStage, Engaged, Answering
      <3>8. ~(FailExpired(t) \/ GiveUp(t))
        BY <3>2 DEF FailExpired, GiveUp, Judging, At
      <3> QED BY <1>4, <2>5, <2>14, <3>3, <3>4, <3>5, <3>6, <3>7, <3>8 DEF Walk
    <2> QED BY <2>3, <2>4, <2>7, <2>10, <2>11, <2>12, <2>13, <2>14, SlotFate
  <1> QED BY <1>2, <1>3, <1>4

\* A task gives its slot back in its done callback, and nowhere else.
LEMMA KeepsRun ==
    ASSUME WalkersOK, NEW t \in Tasks, Walk(t) \/ Expire(t) \/ WalkerError(t), ~DoneCallback(t)
    PROVE  walker'[t].run = walker[t].run
  <1>1. walker[t] \in Frames
    BY OwnFrame
  <1> DEFINE Own == walker'[t].run = walker[t].run
  <1>2. ASSUME NEW pc, Goto(t, pc)
        PROVE  Own
    BY <1>1, <1>2 DEF Goto, WalkersOK, Frames
  <1>3. ASSUME NEW pc, NEW i, Continue(t, pc, i)
        PROVE  Own
    BY <1>3 DEF Continue, Between, Frame, WalkersOK, RunOf
  <1>4. ASSUME NEW pc, NEW x, \/ walker' = [walker EXCEPT ![t].pc = pc, ![t].seen = x]
                              \/ walker' = [walker EXCEPT ![t].pc = pc, ![t].job = x]
        PROVE  Own
    BY <1>1, <1>4 DEF WalkersOK, Frames
  <1>5. Return(t) => Own
    BY <1>3 DEF Return
  <1> HIDE DEF Own
  <1>6. Begin(t) \/ RollBack(t) \/ Advance(t) => Own
    BY <1>3, <1>5 DEF Begin, RollBack, Advance
  <1>7. Claim(t) \/ Register(t) \/ RecordRisk(t) \/ OpenMR(t) \/ Expire(t) \/ CreateStep(t)
           \/ OpenCheckpoint(t) => Own
    BY <1>2, <1>5 DEF Claim, Register, RecordRisk, OpenMR, Expire, CreateStep, OpenCheckpoint
  <1>8. FailExpired(t) \/ GiveUp(t) \/ Park(t) \/ Complete(t) \/ WalkerError(t) => Own
    BY <1>5 DEF FailExpired, GiveUp, Park, Complete, WalkerError
  <1>9. Top(t) \/ Reread(t) \/ Publish(t) => Own
    BY <1>2, <1>4, <1>5 DEF Top, Reread, Publish
  <1>10. Own
    BY <1>6, <1>7, <1>8, <1>9 DEF Walk
  <1> QED BY <1>10 DEF Own

LEMMA ActiveFitsStep ==
    ASSUME IInv, ActiveFits, [Next]_vars
    PROVE  ActiveFits'
  <1> USE DEF row, db, orch, broker
  <1>0. WalkersOK /\ LoopOK
    BY DEF IInv, TypeOK
  <1> SUFFICES ASSUME NEW r \in Runs, active'[r] # NoTask
               PROVE  walker'[active'[r]].run = r
    BY DEF ActiveFits
  <1> DEFINE s == active[r]
  <1>1. ASSUME active'[r] = s, walker'[s].run = walker[s].run
        PROVE  walker'[active'[r]].run = r
    BY <1>1 DEF ActiveFits
  <1>2. ASSUME UNCHANGED <<walker, active>>
        PROVE  walker'[active'[r]].run = r
    BY <1>1, <1>2
  <1>3. s \in Tasks \cup {NoTask} /\ (s # NoTask => walker[s].run = r) /\ NoTask \notin Tasks
    BY <1>0, TasksAssumption DEF LoopOK, ActiveFits, NoTask
  <1>4. NoRun # r
    BY RunsAssumption DEF NoRun
  <1> HIDE DEF s
  <1>5. ASSUME NEW u \in Users, UserAsks(u) \/ Handler(u)
        PROVE  walker'[active'[r]].run = r
    BY <1>2, <1>5 DEF UserAsks, CreateRun, AskCancel, AskDelete, AskRestart, AskApprove, AskReject,
                Handler, SignalStart, SignalResume, MarkCancelled, MarkRejected, ResetRow,
                DeleteRow, Approve, Reject
  <1>6. CASE MainLoop
    <2>1. CASE StartRun \/ ResumeRun
      <3>1. PICK t \in Tasks : /\ walker[t] = FreeSlot
                               /\ walker' = [walker EXCEPT ![t] = Frame(loop.cur.run)]
                               /\ active' = [active EXCEPT ![loop.cur.run] = t]
        BY <2>1 DEF StartRun, ResumeRun, Spawn
      <3>2. CASE loop.cur.run = r
        BY <1>0, <3>1, <3>2 DEF WalkersOK, LoopOK, Frame
      <3>3. CASE loop.cur.run # r
        <4>1. active'[r] = s
          BY <1>0, <3>1, <3>3 DEF LoopOK, s
        <4>2. s \in Tasks /\ walker[s].run = r
          BY <1>3, <4>1
        <4>3. s # t
          BY <1>4, <3>1, <4>2 DEF FreeSlot, Frame
        <4>4. walker'[s] = walker[s]
          BY <1>0, <3>1, <4>2, <4>3 DEF WalkersOK
        <4> QED BY <1>1, <4>1, <4>4
      <3> QED BY <3>2, <3>3
    <2>2. CASE CancelRun
      <3>1. /\ walker' = [t \in Tasks |-> IF t = active[loop.cur.run] THEN FreeSlot ELSE walker[t]]
            /\ active' = [active EXCEPT ![loop.cur.run] = NoTask]
        BY <2>2 DEF CancelRun
      <3>2. loop.cur.run \in Runs
        BY <1>0, <2>2 DEF CancelRun, Handling, LoopOK, Todos, Nothing, Todo, NoAction
      <3>3. loop.cur.run # r /\ active'[r] = s
        BY <1>0, <3>1 DEF LoopOK, s
      <3>4. s \in Tasks /\ walker[s].run = r
        BY <1>3, <3>3
      <3>5. s # active[loop.cur.run]
        <4>1. SUFFICES ASSUME s = active[loop.cur.run]
                       PROVE  FALSE
          OBVIOUS
        <4>2. walker[s].run = loop.cur.run
          BY <1>3, <3>2, <3>4, <4>1 DEF ActiveFits
        <4> QED BY <3>3, <3>4, <4>2
      <3>6. walker'[s] = walker[s]
        BY <3>1, <3>4, <3>5
      <3> QED BY <1>1, <3>3, <3>6
    <2> QED BY <1>2, <1>6, <2>1, <2>2
            DEF MainLoop, Boot, RecoverRun, FetchActions, ClearAction, DropAction
  <1>7. ASSUME NEW t \in Tasks, Walk(t) \/ Expire(t) \/ WalkerError(t)
        PROVE  walker'[active'[r]].run = r
    <2>1. CASE DoneCallback(t)
      <3>1. /\ active' = [active EXCEPT ![RunOf(t)] = NoTask]
            /\ walker' = [walker EXCEPT ![t] = FreeSlot]
        BY <2>1 DEF DoneCallback
      <3>2. RunOf(t) # r /\ active'[r] = s
        BY <1>0, <3>1 DEF LoopOK, s
      <3>3. s \in Tasks /\ walker[s].run = r
        BY <1>3, <3>2
      <3>4. walker'[s] = walker[s]
        BY <1>0, <3>1, <3>2, <3>3 DEF WalkersOK, RunOf
      <3> QED BY <1>1, <3>2, <3>4
    <2>2. CASE ~DoneCallback(t)
      <3>1. UNCHANGED active
        BY <1>7, <2>2
         DEF Walk, Begin, Claim, Top, CreateStep, Publish, Register, FailExpired, RecordRisk,
             Reread, RollBack, GiveUp, OpenCheckpoint, Park, Advance, OpenMR, Complete,
             Locally, Expire, WalkerError
      <3>2. active'[r] = s /\ s \in Tasks
        BY <1>3, <3>1 DEF s
      <3>3. walker'[s].run = walker[s].run
        BY <1>0, <1>7, <2>2, <3>2, KeepsRun, OwnFrame
      <3> QED BY <1>1, <3>2, <3>3
    <2> QED BY <2>1, <2>2
  <1>8. CASE ConsumeResult
    <2>1. active'[r] = s /\ s \in Tasks
      BY <1>3, <1>8 DEF ConsumeResult, s
    <2>2. walker'[s].run = walker[s].run
      BY <1>0, <1>8, <2>1, ToldFrame
    <2> QED BY <1>1, <2>1, <2>2
  <1>9. CASE Fault
    <2>1. ~OrchCrash
      BY DEF OrchCrash
    <2> QED BY <1>2, <1>7, <1>9, <2>1 DEF Fault, LoopError, WebCrash, WorkerCrash, RejectJob
  <1>10. CASE (\E w \in Workers : Work(w)) \/ UNCHANGED vars
    BY <1>2, <1>10 DEF Work, TakeJob, FinishJob, vars
  <1> QED BY <1>5, <1>6, <1>7, <1>8, <1>9, <1>10 DEF Next

LEMMA ParksStep ==
    ASSUME IInv, ParksAtGates, [Next]_vars
    PROVE  ParksAtGates'
  <1>0. WalkersOK
    BY DEF IInv, TypeOK
  <1> SUFFICES ASSUME NEW t \in Tasks, walker'[t].pc = "park"
               PROVE  GateStage(walker'[t].run, walker'[t].idx)
    BY DEF ParksAtGates, GateStage, RunOf, WT
  <1>1. CASE Walk(t) \/ Expire(t) \/ WalkerError(t)
    <2>1. OpenCheckpoint(t)
      BY <1>0, <1>1, ParkedBy
    <2>2. walker'[t].run = walker[t].run /\ walker'[t].idx = walker[t].idx
      <3>1. walker[t] \in Frames
        BY <1>0, <1>1, OwnFrame
      <3>2. ~Return(t)
        BY <1>0 DEF Return, Continue, Between, Frame, WalkersOK
      <3> QED BY <1>0, <2>1, <3>1, <3>2 DEF OpenCheckpoint, Goto, WalkersOK, Frames
    <2>3. ShouldCheckpoint(AgentAt(WT(RunOf(t)), walker[t].idx), WT(RunOf(t)), "high")
      <3>1. IsGate(t)
        BY <2>1 DEF OpenCheckpoint
      <3> QED BY <3>1 DEF IsGate, AgentNum, ShouldCheckpoint, Gates
    <2> QED BY <2>2, <2>3 DEF GateStage, RunOf
  <1>2. FreeSlot.pc # "park" /\ \A q : Frame(q).pc # "park"
    BY DEF FreeSlot, Frame
  <1>3. ASSUME walker'[t] = walker[t]
        PROVE  GateStage(walker'[t].run, walker'[t].idx)
    BY <1>3 DEF ParksAtGates, RunOf
  <1> QED BY <1>0, <1>1, <1>2, <1>3, SlotMoves, ToldFrame

\* PaidFor after the step.
WillBePaid(r, i, n) ==
    IF GateStage(r, i) THEN n + KillsAhead(r)' <= Budget["cancel"] + Budget["walkerError"]
    ELSE n <= rollbacks'[r]

\* What was paid stays paid.
LEMMA StaysPaid ==
    ASSUME IInv, GateInv, OneReviewer, [Next]_vars, NEW r \in Runs, Exists(r), Exists(r)',
           NEW i \in StageIdx, NEW n \in Int, PaidFor(r, i, n)
    PROVE  WillBePaid(r, i, n)
  <1>0. RowsOK /\ RowsOK' /\ TypeOK /\ TypeOK' /\ WalkedOnce /\ UpToDate(r)
    BY TypeStep DEF IInv, TypeOK, GateInv, GatesKept
  <1>1. KillsAhead(r) \in Nat /\ KillsAhead(r)' \in Nat
    BY <1>0, KillsTyped, KillsShrink
  <1>2. KillsAhead(r)' <= KillsAhead(r)
    BY KillsShrink
  <1>3. rollbacks[r] <= rollbacks'[r] /\ rollbacks[r] \in Nat /\ rollbacks'[r] \in Nat
    <2>1. rollbacks[r] \in Nat /\ rollbacks'[r] \in Nat
      BY <1>0 DEF RowsOK
    <2>2. ASSUME NEW t \in Tasks, RunOf(t) = r, RollBack(t)
          PROVE  rollbacks'[r] = rollbacks[r] + 1
      <3>1. walker[t].seen.rollbacks = rollbacks[r]
        BY <1>0, <2>2 DEF RollBack, Judging, At, UpToDate, RunOf, OnStage, Engaged, Answering, Seen
      <3> QED BY <1>0, <2>2, <3>1 DEF RollBack, Set, RowsOK
    <2>3. ASSUME NEW t \in Tasks, Park(t) \/ Advance(t) \/ RecordRisk(t)
          PROVE  rollbacks' = rollbacks
      BY <2>3 DEF Park, Advance, RecordRisk
    <2> QED BY <1>0, <2>1, <2>2, <2>3, RowMoves
  <1>4. Budget["cancel"] + Budget["walkerError"] \in Nat
    BY BudgetAssumption DEF BudgetOps
  <1>5. CASE GateStage(r, i)
    <2>1. n + KillsAhead(r) <= Budget["cancel"] + Budget["walkerError"]
      BY <1>5 DEF PaidFor
    <2>2. n + KillsAhead(r)' <= Budget["cancel"] + Budget["walkerError"]
      BY <1>1, <1>2, <1>4, <2>1
    <2> QED BY <1>5, <2>2 DEF WillBePaid
  <1>6. CASE ~GateStage(r, i)
    <2>1. n <= rollbacks'[r]
      BY <1>3, <1>6 DEF PaidFor
    <2> QED BY <1>6, <2>1 DEF WillBePaid
  <1> QED BY <1>5, <1>6

\* A stage is begun again on a rollback, which is counted, or after a kill.
LEMMA AffordableStep ==
    ASSUME IInv, GateInv, CostInv, OneReviewer, [Next]_vars, NEW r \in Runs, Exists(r)'
    PROVE  Affordable(r)'
  <1>0. TypeOK /\ TypeOK' /\ WalkedOnce
    BY TypeStep DEF IInv, GateInv
  <1>1. attempts \in [Runs -> [StageIdx -> Nat]] /\ WalkersOK /\ RowsOK
    BY <1>0 DEF TypeOK, TablesOK
  <1> SUFFICES ASSUME NEW i \in StageIdx
               PROVE  /\ WillBePaid(r, i, attempts'[r][i] - 1)
                      /\ InTurn(r)' /\ ~Begun(r, i)' => WillBePaid(r, i, attempts'[r][i])
    BY DEF Affordable, PaidFor, WillBePaid, GateStage, WT
  <1>2. CASE ~Exists(r)
    <2>1. PICK u \in Users : CreateRun(u, r)
      BY <1>2, Born
    <2>2. attempts'[r][i] = 0 /\ Unheard(r)
      BY <1>2, <2>1 DEF CreateRun, CostInv, GateInv
    <2>3. rollbacks'[r] = 0 /\ left' = left /\ action'[r] = NoAction
      BY <2>1, <2>2 DEF CreateRun, Unheard, row
    <2>4. KillsAhead(r)' = left["cancel"] + left["walkerError"]
      <3>1. ~\E v \in Users : request'[v].run = r /\ request'[v].pc = "markCancelled"
        BY <1>0, <2>1, <2>2
           DEF CreateRun, Unheard, Then, Request, TypeOK, RequestsOK
      <3>2. ~(action'[r] = "cancel" \/ Todo(r, "cancel") \in loop'.todo)
        BY <2>1, <2>2, <2>3 DEF CreateRun, Unheard, orch, NoAction, Todo
      <3>3. ~(loop'.pc = "act" /\ loop'.cur = Todo(r, "cancel"))
        BY <2>1, <2>2 DEF CreateRun, Unheard, orch, Todo
      <3>4. left["cancel"] \in Nat /\ left["walkerError"] \in Nat
        BY <1>0 DEF TypeOK, RequestsOK, BudgetOps
      <3> QED BY <2>3, <3>1, <3>2, <3>3, <3>4 DEF KillsAhead, Count
    <2>5. KillsAhead(r)' <= Budget["cancel"] + Budget["walkerError"] /\ KillsAhead(r)' \in Nat
      <3>1. /\ left["cancel"] \in Nat /\ left["walkerError"] \in Nat
            /\ Budget["cancel"] \in Nat /\ Budget["walkerError"] \in Nat
            /\ left["cancel"] <= Budget["cancel"] /\ left["walkerError"] <= Budget["walkerError"]
        BY <1>0, BudgetAssumption DEF TypeOK, RequestsOK, BudgetOps, CostInv
      <3> QED BY <2>4, <3>1
    <2>6. \A n \in {-1, 0} : n + KillsAhead(r)' <= Budget["cancel"] + Budget["walkerError"]
                             /\ n <= rollbacks'[r]
      <3>1. Budget["cancel"] + Budget["walkerError"] \in Nat
        BY BudgetAssumption DEF BudgetOps
      <3> QED BY <2>3, <2>5, <3>1
    <2> QED BY <2>2, <2>6 DEF WillBePaid
  <1> SUFFICES ASSUME Exists(r)
               PROVE  /\ WillBePaid(r, i, attempts'[r][i] - 1)
                      /\ InTurn(r)' /\ ~Begun(r, i)' => WillBePaid(r, i, attempts'[r][i])
    BY <1>2
  <1> DEFINE n == attempts[r][i]
  <1>3. /\ n \in Nat /\ n - 1 \in Int
        /\ PaidFor(r, i, n - 1)
        /\ InTurn(r) /\ ~Begun(r, i) => PaidFor(r, i, n)
    BY <1>1 DEF CostInv, Affordable
  <1>4. WillBePaid(r, i, n - 1) /\ (PaidFor(r, i, n) => WillBePaid(r, i, n))
    BY <1>3, StaysPaid
  <1>5. UpToDate(r)
    BY DEF GateInv, GatesKept
  <1>6. ASSUME NEW t \in Tasks, CreateStep(t), RunOf(t) = r, walker[t].idx = i
        PROVE  /\ WillBePaid(r, i, attempts'[r][i] - 1)
               /\ Begun(r, i)'
    <2>1. walker[t].run = r /\ walker[t].pc = "step" /\ stepIdx[r] = i /\ stepIdx' = stepIdx
      BY <1>5, <1>6 DEF CreateStep, At, RunOf, UpToDate, WalkerPCs, row
    <2>2. InTurn(r)
      BY <2>1 DEF InTurn, Walked, Moving, WalkerPCs
    <2>3. ~Begun(r, i)
      <3>1. i \in Nat
        BY DEF StageIdx
      <3>2. \A s \in Tasks : walker[s].run = r => s = t
        BY <2>1, Alone
      <3> QED BY <2>1, <3>1, <3>2 DEF Begun
    <2>4. attempts'[r][i] = n + 1 /\ Goto(t, "publish")
      BY <1>1, <1>6 DEF CreateStep
    <2>5. WillBePaid(r, i, n)
      BY <1>3, <1>4, <2>2, <2>3
    <2>6. attempts'[r][i] - 1 = n
      BY <1>3, <2>4
    <2>7. Begun(r, i)'
      <3>1. walker[t] \in Frames
        BY <1>1, <1>6, LiveFrame DEF RunOf
      <3>2. walker'[t].run = r /\ walker'[t].pc = "publish"
        BY <1>1, <2>1, <2>4, <3>1 DEF Goto, WalkersOK, Frames
      <3>3. "publish" \in OnStage \ {"step"}
        BY DEF OnStage
      <3> QED BY <2>1, <3>2, <3>3 DEF Begun
    <2> QED BY <2>5, <2>6, <2>7
  <1>7. ASSUME attempts'[r][i] = n
        PROVE  /\ WillBePaid(r, i, attempts'[r][i] - 1)
               /\ InTurn(r)' /\ ~Begun(r, i)' => WillBePaid(r, i, attempts'[r][i])
    <2> SUFFICES ASSUME InTurn(r)', ~Begun(r, i)'
                 PROVE  WillBePaid(r, i, n)
      BY <1>4, <1>7
    <2>1. InTurn(r)
      BY TurnGoesOn
    <2>2. CASE ~Begun(r, i)
      BY <1>3, <1>4, <2>1, <2>2
    <2>3. ASSUME NEW t \in Tasks, RunOf(t) = r, RollBack(t), stepIdx'[r] <= i,
                 walker[t].pc \in OnStage, i <= walker[t].idx
          PROVE  WillBePaid(r, i, n)
      <3>1. WT(r) \in WorkTypes /\ walker[t].idx \in 0..(RouteLen(WT(r)) - 1)
        BY <2>3, JudgedStage
      <3>2. stepIdx'[r] = FindStepIndex(WT(r), Target(t))
        BY <1>1, <2>3 DEF RollBack, SetIdx, Set, RowsOK
      <3>3. Target(t) = RollbackTarget(AgentAt(WT(r), walker[t].idx), WT(r))
            /\ Target(t) # NoTarget
        BY <2>3 DEF RollBack, CanRollBack, Target, AgentNum
      <3>4. ~GateStage(r, i)
        BY <2>3, <3>1, <3>2, <3>3, RollbackOverNoGate DEF GateStage
      <3>5. rollbacks'[r] = rollbacks[r] + 1 /\ rollbacks[r] \in Nat
        <4>1. walker[t].seen.rollbacks = rollbacks[r]
          BY <1>5, <2>3
             DEF RollBack, Judging, At, UpToDate, RunOf, OnStage, Engaged, Answering, Seen
        <4> QED BY <1>1, <2>3, <4>1 DEF RollBack, Set, RowsOK
      <3>6. n - 1 <= rollbacks[r]
        BY <1>3, <3>4 DEF PaidFor
      <3>7. n <= rollbacks'[r]
        BY <1>3, <3>5, <3>6
      <3> QED BY <3>4, <3>7 DEF WillBePaid
    <2>4. ASSUME NEW t \in Tasks, RunOf(t) = r, walker[t].pc = "park", walker[t].idx = i,
                 WalkerError(t) \/ (CancelRun /\ loop.cur.run = r)
          PROVE  WillBePaid(r, i, n)
      <3>1. GateStage(r, i)
        BY <2>4 DEF CostInv, ParksAtGates
      <3>2. n - 1 + KillsAhead(r) <= Budget["cancel"] + Budget["walkerError"]
        BY <1>3, <3>1 DEF PaidFor
      <3>3. KillsAhead(r)' <= KillsAhead(r) - 1 /\ KillsAhead(r) \in Nat /\ KillsAhead(r)' \in Nat
        BY <1>0, <2>4, KillSpent, KillsTyped, KillsShrink
      <3>4. Budget["cancel"] + Budget["walkerError"] \in Nat
        BY BudgetAssumption DEF BudgetOps
      <3>5. n + KillsAhead(r)' <= Budget["cancel"] + Budget["walkerError"]
        BY <1>3, <3>2, <3>3, <3>4
      <3> QED BY <3>1, <3>5 DEF WillBePaid
    <2> QED BY <2>2, <2>3, <2>4, BegunGoesOn
  <1>8. \/ attempts'[r][i] = n
        \/ \E t \in Tasks : CreateStep(t) /\ RunOf(t) = r /\ walker[t].idx = i
    <2>1. ASSUME NEW t \in Tasks, CreateStep(t), RunOf(t) = r, walker[t].idx # i
          PROVE  attempts'[r][i] = n
      BY <1>1, <2>1 DEF CreateStep
    <2>2. ASSUME NEW u \in Users, DeleteRow(u), request[u].run = r
          PROVE  FALSE
      BY <1>1, <2>2 DEF DeleteRow, Exists, Stored, RowsOK
    <2> QED BY <2>1, <2>2, AttemptsMove
  <1> QED BY <1>6, <1>7, <1>8

LEMMA CostInit ==
    ASSUME Init
    PROVE  CostInv
  <1>1. ParksAtGates
    BY DEF Init, ParksAtGates, FreeSlot, Frame
  <1>2. ActiveFits
    BY DEF Init, ActiveFits
  <1>3. \A op \in BudgetOps : left[op] <= Budget[op]
    BY BudgetAssumption DEF Init
  <1> QED BY <1>1, <1>2, <1>3 DEF Init, CostInv, Exists, Stored

LEMMA CostStep ==
    ASSUME IInv, GateInv, CostInv, OneReviewer, [Next]_vars
    PROVE  CostInv'
  <1>1. ParksAtGates'
    BY ParksStep DEF CostInv
  <1>2. ActiveFits'
    BY ActiveFitsStep DEF CostInv
  <1>3. ASSUME NEW op \in BudgetOps
        PROVE  left'[op] <= Budget[op]
    <2>1. left'[op] <= left[op] /\ left[op] <= Budget[op]
      BY LeftShrinks DEF CostInv
    <2>2. left'[op] \in Nat /\ left[op] \in Nat /\ Budget[op] \in Nat
      BY TypeStep, BudgetAssumption DEF IInv, TypeOK, RequestsOK
    <2> QED BY <2>1, <2>2
  <1>4. ASSUME NEW r \in Runs, Exists(r)'
        PROVE  Affordable(r)'
    BY <1>4, AffordableStep
  <1>5. ASSUME NEW r \in Runs, ~Exists(r)', NEW i \in StageIdx
        PROVE  attempts'[r][i] = 0
    <2>1. attempts \in [Runs -> [StageIdx -> Nat]]
      BY DEF IInv, TypeOK, TablesOK
    <2>2. ASSUME NEW u \in Users, DeleteRow(u), request[u].run = r
          PROVE  attempts'[r][i] = 0
      BY <2>1, <2>2 DEF DeleteRow
    <2>3. CASE ~Exists(r)
      BY <2>2, <2>3, AttemptsMove DEF CostInv
    <2>4. CASE Exists(r)
      BY <1>5, <2>2, <2>4, RowGoes
    <2> QED BY <2>3, <2>4
  <1> QED BY <1>1, <1>2, <1>3, <1>4, <1>5 DEF CostInv

\* With one reviewer and while no run is walked a second time, an execution of a
\* stage is the first one, or was paid for by a rollback or by a kill.
THEOREM CostInvariant ==
    ASSUME OneReviewer, NoSecondWalk
    PROVE  Spec => []CostInv
  <1>1. Init => CostInv
    BY CostInit
  <1>2. IInv /\ GateInv /\ CostInv /\ [Next]_vars => CostInv'
    BY CostStep
  <1> QED BY <1>1, <1>2, InvHolds, GateInvariant, PTL DEF Spec

\* So no stage is executed more often than once and then once per rollback, as
\* long as no more walkers are killed than a run may be rolled back.
THEOREM AttemptsAreBounded ==
    ASSUME OneReviewer, NoSecondWalk, Budget["cancel"] + Budget["walkerError"] <= MAX_ROLLBACKS
    PROVE  Spec => []AttemptsBounded
  <1>1. IInv /\ CostInv => AttemptsBounded
    <2> SUFFICES ASSUME IInv, CostInv, NEW r \in Runs, NEW i \in StageIdx
                 PROVE  attempts[r][i] <= 1 + MAX_ROLLBACKS
      BY DEF AttemptsBounded
    <2>1. attempts[r][i] \in Nat /\ rollbacks[r] \in Nat /\ MAX_ROLLBACKS \in Nat
          /\ KillsAhead(r) \in Nat /\ Budget["cancel"] + Budget["walkerError"] \in Nat
      BY KillsTyped, BudgetAssumption
         DEF IInv, TypeOK, TablesOK, RowsOK, MAX_ROLLBACKS, BudgetOps
    <2>2. CASE ~Exists(r)
      BY <2>1, <2>2 DEF CostInv
    <2>3. CASE Exists(r)
      <3>1. PaidFor(r, i, attempts[r][i] - 1)
        BY <2>3 DEF CostInv, Affordable
      <3>2. attempts[r][i] - 1 + KillsAhead(r) <= Budget["cancel"] + Budget["walkerError"]
            \/ attempts[r][i] - 1 <= rollbacks[r]
        BY <3>1 DEF PaidFor
      <3>3. rollbacks[r] <= MAX_ROLLBACKS
        BY DEF IInv, RollbackBudget
      <3> QED BY <2>1, <3>2, <3>3
    <2> QED BY <2>2, <2>3
  <1> QED BY <1>1, InvHolds, CostInvariant, PTL

-------------------------------------------------------------------------------
\* What a run that is marked running rests on.

\* An error of the poll loop is spent, and there is none left.
LEMMA NoLoopError ==
    ASSUME Uncancelled
    PROVE  ~LoopError
  BY DEF LoopError, Spend, Uncancelled

\* Without a cancel, nothing on the way to the loop is one.
LEMMA UncancelledStep ==
    ASSUME IInv, Uncancelled, [Next]_vars
    PROVE  Uncancelled'
  <1> USE DEF row, db, orch, broker
  <1>0. RowsOK /\ LoopOK /\ RequestsOK
    BY DEF IInv, TypeOK
  <1>1. \A op \in {"cancel", "walkerError", "loopError"} : left'[op] = 0
    <2>1. left' \in [BudgetOps -> Nat] /\ {"cancel", "walkerError", "loopError"} \subseteq BudgetOps
      BY TypeStep DEF IInv, TypeOK, RequestsOK, BudgetOps
    <2> QED BY <2>1, LeftShrinks DEF Uncancelled
  <1> DEFINE Req == \A u \in Users : request'[u].pc \notin {"markCancelled", "deleteRow"}
             Act == \A r \in Runs : action'[r] # "cancel"
             Lp  == (\A d \in loop'.todo : d.action # "cancel") /\ loop'.cur.action # "cancel"
  <1>2. /\ UNCHANGED request => Req
        /\ UNCHANGED action => Act
        /\ UNCHANGED loop => Lp
    BY DEF Uncancelled
  <1>3. ASSUME NEW u \in Users, NEW pc, NEW q, NEW k, Then(u, Request(pc, q, k)),
               pc \notin {"markCancelled", "deleteRow"}
        PROVE  Req
    BY <1>0, <1>3 DEF Then, Request, RequestsOK, Uncancelled
  <1>4. ASSUME NEW u \in Users, Answered(u)
        PROVE  Req
    BY <1>3, <1>4 DEF Answered, Idle
  <1>5. ASSUME NEW q, NEW a, SetAction(q, a), a # "cancel"
        PROVE  Act
    BY <1>0, <1>5 DEF SetAction, Set, RowsOK, Uncancelled
  <1>6. ASSUME NEW pc, NEW S, NEW d, loop' = LoopAt(pc, S, d), d.action # "cancel",
               \A e \in S : e.action # "cancel"
        PROVE  Lp
    BY <1>6 DEF LoopAt
  <1>7. Nothing.action # "cancel" /\ \A q, a : Todo(q, a).action = a
    BY DEF Nothing, Todo, NoAction
  <1>8. (\A d \in loop.todo : d.action # "cancel") /\ loop.cur.action # "cancel"
        /\ \A r \in Runs : action[r] # "cancel"
    BY DEF Uncancelled
  <1> HIDE DEF Req, Act, Lp
  <1>9. ASSUME NEW u \in Users, UserAsks(u)
        PROVE  Req /\ Act /\ Lp
    <2>1. ~Spend("cancel")
      BY DEF Spend, Uncancelled
    <2> QED BY <1>2, <1>3, <1>9, <2>1
            DEF UserAsks, CreateRun, AskCancel, AskDelete, AskRestart, AskApprove, AskReject
  <1>10. ASSUME NEW u \in Users, Handler(u)
         PROVE  Req /\ Act /\ Lp
    <2>1. ~MarkCancelled(u) /\ ~DeleteRow(u)
      BY DEF MarkCancelled, DeleteRow, InFlight, Uncancelled
    <2> QED BY <1>2, <1>3, <1>4, <1>5, <1>10, <2>1
            DEF Handler, SignalStart, SignalResume, MarkRejected, ResetRow, Approve, Reject
  <1>11. ASSUME MainLoop
         PROVE  Req /\ Act /\ Lp
    <2>1. Boot => Lp
      BY <1>6, <1>7 DEF Boot
    <2>2. FetchActions => Lp
      BY <1>6, <1>7, <1>8 DEF FetchActions
    <2>3. RecoverRun => Lp
      BY <1>6, <1>7, <1>8 DEF RecoverRun
    <2>4. ClearAction => Lp
      BY <1>0, <1>6, <1>8, NextTodoTyped DEF ClearAction
    <2>5. Handled => Lp
      BY <1>6, <1>7, <1>8 DEF Handled
    <2>6. "start" # "cancel" /\ NoAction # "cancel"
      BY DEF NoAction
    <2> QED BY <1>2, <1>5, <1>11, <2>1, <2>2, <2>3, <2>4, <2>5, <2>6
            DEF MainLoop, Boot, RecoverRun, FetchActions, ClearAction, StartRun, ResumeRun,
                DropAction, CancelRun
  <1>12. ASSUME NEW t \in Tasks, Walk(t) \/ Expire(t)
         PROVE  Req /\ Act /\ Lp
    BY <1>2, <1>12
       DEF Walk, Begin, Claim, Top, CreateStep, Publish, Register, FailExpired, RecordRisk,
           Reread, RollBack, GiveUp, OpenCheckpoint, Park, Advance, OpenMR, Complete,
           DoneCallback, Locally, Expire
  <1>13. ASSUME Fault
         PROVE  Req /\ Act /\ Lp
    <2>1. OrchCrash => Lp
      BY <1>6, <1>7 DEF OrchCrash
    <2> QED BY <1>2, <1>4, <1>13, <2>1, NoLoopError
            DEF Fault, OrchCrash, WebCrash, WalkerError, WorkerCrash, RejectJob
  <1>14. ASSUME ConsumeResult \/ (\E w \in Workers : Work(w)) \/ UNCHANGED vars
         PROVE  Req /\ Act /\ Lp
    BY <1>2, <1>14 DEF ConsumeResult, Work, TakeJob, FinishJob, vars
  <1>15. Req /\ Act /\ Lp
    BY <1>9, <1>10, <1>11, <1>12, <1>13, <1>14 DEF Next
  <1> QED BY <1>1, <1>15 DEF Uncancelled, Req, Act, Lp

\* A run is marked running by its walker, and by the loop with a walker for it.
LEMMA MarkedRunning ==
    ASSUME IInv, Uncancelled, [Next]_vars, NEW r \in Runs, status'[r] = "running", status[r] # "running"
    PROVE  \/ \E t \in Tasks : Claim(t) /\ RunOf(t) = r
           \/ ResumeRun /\ loop.cur.run = r
  <1> USE DEF row, db, orch, broker
  <1>0. RowsOK
    BY DEF IInv, TypeOK
  <1>1. ~UNCHANGED status
    OBVIOUS
  <1>2. ASSUME NEW q, NEW s, SetStatus(q, s)
        PROVE  q = r /\ s = "running"
    BY <1>0, <1>2 DEF SetStatus, Set, RowsOK
  <1>3. ASSUME NEW u \in Users, UserAsks(u) \/ Handler(u)
        PROVE  FALSE
    <2>1. ASSUME NEW q \in Runs, CreateRun(u, q)
          PROVE  FALSE
      BY <1>0, <2>1 DEF CreateRun, RowsOK
    <2>2. ~DeleteRow(u)
      BY <1>0 DEF DeleteRow, RowsOK
    <2> QED BY <1>1, <1>2, <1>3, <2>1, <2>2
         DEF UserAsks, AskCancel, AskDelete, AskRestart, AskApprove, AskReject,
             Handler, SignalStart, SignalResume, MarkCancelled, MarkRejected, ResetRow,
             Approve, Reject
  <1>4. MainLoop => ResumeRun /\ loop.cur.run = r
    BY <1>1, <1>2 DEF MainLoop, Boot, RecoverRun, FetchActions, ClearAction, StartRun,
                      ResumeRun, DropAction, CancelRun
  <1>5. ASSUME NEW t \in Tasks, Walk(t) \/ Expire(t)
        PROVE  Claim(t) /\ RunOf(t) = r
    BY <1>1, <1>2, <1>5
       DEF Walk, Begin, Claim, Top, CreateStep, Publish, Register, FailExpired, RecordRisk,
           Reread, RollBack, GiveUp, OpenCheckpoint, Park, Advance, OpenMR, Complete,
           DoneCallback, Locally, Expire
  <1>6. ~(ConsumeResult \/ Fault \/ (\E w \in Workers : Work(w)) \/ UNCHANGED vars)
    BY <1>1, NoLoopError
       DEF ConsumeResult, Fault, OrchCrash, WebCrash, WalkerError, WorkerCrash, RejectJob,
           Work, TakeJob, FinishJob, vars
  <1> QED BY <1>3, <1>4, <1>5, <1>6 DEF Next

\* The main coroutine goes on, is restarted, or is left alone.
LEMMA LoopMoves ==
    ASSUME [Next]_vars
    PROVE  UNCHANGED loop \/ MainLoop \/ LoopError \/ OrchCrash
  <1> USE DEF row, db, orch, broker
  <1>1. ASSUME NEW u \in Users, UserAsks(u) \/ Handler(u)
        PROVE  UNCHANGED loop
    BY <1>1 DEF UserAsks, CreateRun, AskCancel, AskDelete, AskRestart, AskApprove, AskReject,
                Handler, SignalStart, SignalResume, MarkCancelled, MarkRejected, ResetRow,
                DeleteRow, Approve, Reject
  <1>2. ASSUME NEW t \in Tasks, Walk(t) \/ Expire(t)
        PROVE  UNCHANGED loop
    BY <1>2
       DEF Walk, Begin, Claim, Top, CreateStep, Publish, Register, FailExpired, RecordRisk,
           Reread, RollBack, GiveUp, OpenCheckpoint, Park, Advance, OpenMR, Complete,
           DoneCallback, Locally, Expire
  <1>3. ConsumeResult \/ (Fault /\ ~LoopError /\ ~OrchCrash) \/ (\E w \in Workers : Work(w))
            \/ UNCHANGED vars => UNCHANGED loop
    BY DEF ConsumeResult, Fault, WebCrash, WalkerError, WorkerCrash, RejectJob, Work, TakeJob,
           FinishJob, vars
  <1> QED BY <1>1, <1>2, <1>3 DEF Next

\* A walker that returns has written how its run ended, or found the row gone or
\* cancelled.
LEMMA ReturnsSettled ==
    ASSUME IInv, NEW t \in Tasks, Walk(t) \/ Expire(t), walker'[t].pc = "done"
    PROVE  status'[RunOf(t)] # "running"
  <1> USE DEF row, db, orch, broker
  <1>0. WalkersOK /\ RowsOK
    BY DEF IInv, TypeOK
  <1>1. walker[t] \in Frames
    BY <1>0, OwnFrame
  <1>2. RunOf(t) \in Runs
    BY <1>1 DEF RunOf, Frames
  <1>3. ASSUME NEW s, s # "running", SetStatus(RunOf(t), s)
        PROVE  status'[RunOf(t)] # "running"
    BY <1>0, <1>2, <1>3 DEF SetStatus, Set, RowsOK, Exists, Stored
  <1>4. ASSUME ~Exists(RunOf(t)) \/ status[RunOf(t)] = "cancelled", UNCHANGED status
        PROVE  status'[RunOf(t)] # "running"
    BY <1>4 DEF Exists, Stored
  <1>5. \A pc : Goto(t, pc) => pc = "done"
    BY <1>0, <1>1 DEF Goto, WalkersOK, Frames
  <1>6. \A pc, i : Continue(t, pc, i) => pc = "done"
    BY <1>0 DEF Continue, Between, Frame, WalkersOK
  <1>7. ASSUME NEW pc, NEW x, \/ walker' = [walker EXCEPT ![t].pc = pc, ![t].seen = x]
                              \/ walker' = [walker EXCEPT ![t].pc = pc, ![t].job = x]
        PROVE  pc = "done"
    BY <1>0, <1>1, <1>7 DEF WalkersOK, Frames
  <1>8. ~DoneCallback(t)
    BY <1>0 DEF DoneCallback, WalkersOK, FreeSlot, Frame
  <1>9. CASE FailExpired(t) \/ GiveUp(t) \/ Park(t) \/ Complete(t)
    BY <1>3, <1>9 DEF FailExpired, GiveUp, Park, Complete
  <1>10. ~(RollBack(t) \/ Advance(t) \/ Claim(t) \/ Register(t) \/ RecordRisk(t) \/ OpenMR(t)
           \/ Expire(t) \/ Publish(t))
    BY <1>5, <1>6, <1>7
       DEF RollBack, Advance, Claim, Register, RecordRisk, OpenMR, Expire, Publish
  <1>11. CASE Begin(t) \/ CreateStep(t) \/ OpenCheckpoint(t) \/ Reread(t) \/ Top(t)
    BY <1>4, <1>5, <1>6, <1>7, <1>11
       DEF Begin, CreateStep, OpenCheckpoint, Reread, Top, Locally
  <1> QED BY <1>8, <1>9, <1>10, <1>11 DEF Walk

\* A walker of a run that is marked running is not about to leave it so.
LEMMA DoneStep ==
    ASSUME IInv, RunningInv, [Next]_vars, NEW t \in Tasks, walker'[t].pc = "done"
    PROVE  status'[walker'[t].run] # "running"
  <1>0. WalkersOK /\ LoopOK
    BY DEF IInv, TypeOK
  <1>1. FreeSlot.pc # "done" /\ \A q : Frame(q).pc # "done"
    BY DEF FreeSlot, Frame
  <1>2. CASE walker[t].pc = "done" /\ walker'[t] = walker[t]
    <2>1. walker[t] \in Frames
      BY <1>0, <1>2, FrameTyped DEF At
    <2>2. RunOf(t) \in Runs /\ status[RunOf(t)] # "running"
      BY <1>2, <2>1 DEF RunningInv, At, RunOf, Frames
    <2>3. ASSUME NEW s \in Tasks, Claim(s), RunOf(s) = RunOf(t)
          PROVE  FALSE
      <3>1. s = t
        BY <2>2, <2>3, Alone DEF RunOf
      <3> QED BY <1>2, <2>3, <3>1 DEF Claim, At
    <2>4. ~(ResumeRun /\ loop.cur.run = RunOf(t))
      <3>1. active[RunOf(t)] = t
        BY <1>2, <1>1 DEF IInv, ActiveHoldsWalkers, Live
      <3> QED BY <3>1, TasksAssumption DEF ResumeRun, NoTask
    <2> QED BY <1>2, <2>2, <2>3, <2>4, MarkedRunning DEF RunOf, RunningInv
  <1>3. CASE Walk(t) \/ Expire(t)
    <2>1. status'[RunOf(t)] # "running"
      BY <1>3, ReturnsSettled
    <2>2. walker'[t].run = walker[t].run
      BY <1>0, <1>1, <1>3, OwnFrame
    <2> QED BY <2>1, <2>2 DEF RunOf
  <1>4. ~WalkerError(t)
    BY DEF WalkerError, Spend, RunningInv, Uncancelled
  <1>5. CASE ConsumeResult
    BY <1>0, <1>2, <1>5, ToldFrame
  <1> QED BY <1>1, <1>2, <1>3, <1>4, <1>5, SlotMoves

LEMMA NoOrphanStep ==
    ASSUME IInv, RunningInv, [Next]_vars
    PROVE  NoOrphanRun'
  <1> USE DEF row, db, orch, broker
  <1>0. WalkersOK /\ LoopOK /\ RowsOK /\ WalkersOK'
    BY TypeStep DEF IInv, TypeOK
  <1> SUFFICES ASSUME NEW r \in Runs, status'[r] = "running"
               PROVE  \/ \E t \in Tasks : walker'[t] # FreeSlot /\ walker'[t].run = r
                      \/ loop'.pc = "down"
                      \/ loop'.pc = "recover" /\ Todo(r, "start") \in loop'.todo
    BY DEF NoOrphanRun, Live, RunOf
  <1>1. FreeSlot.run # r
    BY RunsAssumption DEF FreeSlot, Frame, NoRun
  <1>2. ASSUME NEW t \in Tasks, walker'[t].run = r
        PROVE  \E s \in Tasks : walker'[s] # FreeSlot /\ walker'[s].run = r
    BY <1>1, <1>2
  <1>3. CASE status[r] # "running"
    <2>1. ASSUME NEW t \in Tasks, Claim(t), RunOf(t) = r
          PROVE  \E s \in Tasks : walker'[s].run = r
      <3>1. ~DoneCallback(t)
        BY <2>1 DEF Claim, DoneCallback, At
      <3> QED BY <1>0, <2>1, <3>1, KeepsRun DEF Walk, RunOf
    <2>2. ASSUME ResumeRun, loop.cur.run = r
          PROVE  \E s \in Tasks : walker'[s].run = r
      BY <1>0, <2>2 DEF ResumeRun, Spawn, WalkersOK, Frame
    <2> QED BY <1>2, <1>3, <2>1, <2>2, MarkedRunning DEF RunningInv
  <1>4. CASE status[r] = "running" /\ \E t \in Tasks : Live(t) /\ RunOf(t) = r
    <2>1. PICK t \in Tasks : walker[t] # FreeSlot /\ walker[t].run = r
      BY <1>4 DEF Live, RunOf
    <2>2. walker[t].pc # "done"
      BY <1>4, <2>1 DEF RunningInv, At, RunOf
    <2>3. CASE walker'[t] = walker[t]
      BY <1>2, <2>1, <2>3
    <2>4. CASE Walk(t) \/ Expire(t)
      <3>1. ~DoneCallback(t)
        BY <2>2 DEF DoneCallback, At
      <3> QED BY <1>0, <1>2, <2>1, <2>4, <3>1, KeepsRun
    <2>5. ~WalkerError(t)
      BY DEF WalkerError, Spend, RunningInv, Uncancelled
    <2>6. CASE ConsumeResult
      BY <1>0, <1>2, <2>1, <2>6, ToldFrame
    <2>7. CASE OrchCrash
      BY <2>7 DEF OrchCrash, LoopAt
    <2>8. ~CancelRun
      BY DEF CancelRun, Handling, RunningInv, Uncancelled
    <2> QED BY <2>1, <2>3, <2>4, <2>5, <2>6, <2>7, <2>8, SlotFate
  <1>5. CASE status[r] = "running" /\ loop.pc = "down"
    <2>1. CASE UNCHANGED loop
      BY <1>5, <2>1
    <2>2. CASE Boot
      BY <1>5, <2>2 DEF Boot, LoopAt
    <2>3. ~(RecoverRun \/ FetchActions \/ ClearAction \/ StartRun \/ ResumeRun \/ DropAction
            \/ CancelRun \/ LoopError)
      BY <1>5 DEF RecoverRun, FetchActions, ClearAction, StartRun, ResumeRun, DropAction,
                  CancelRun, Handling, LoopError
    <2>4. ~OrchCrash
      BY <1>5 DEF OrchCrash
    <2> QED BY <2>1, <2>2, <2>3, <2>4, LoopMoves DEF MainLoop
  <1>6. CASE status[r] = "running" /\ loop.pc = "recover" /\ Todo(r, "start") \in loop.todo
    <2>1. CASE UNCHANGED loop
      BY <1>6, <2>1
    <2>2. CASE RecoverRun
      <3>1. NextTodo # Todo(r, "start")
        <4>1. SUFFICES ASSUME NextTodo = Todo(r, "start")
                       PROVE  FALSE
          OBVIOUS
        <4>2. SetStatus(r, "pending")
          BY <2>2, <4>1 DEF RecoverRun, Todo
        <4> QED BY <1>0, <4>2 DEF SetStatus, Set, RowsOK, Exists, Stored
      <3>2. loop' = LoopAt("recover", loop.todo \ {NextTodo}, Nothing)
        BY <2>2 DEF RecoverRun
      <3> QED BY <1>6, <3>1, <3>2 DEF LoopAt
    <2>3. ~(Boot \/ FetchActions \/ ClearAction \/ StartRun \/ ResumeRun \/ DropAction
            \/ CancelRun \/ LoopError)
      BY <1>6 DEF Boot, FetchActions, ClearAction, StartRun, ResumeRun, DropAction,
                  CancelRun, Handling, LoopError
    <2>4. CASE OrchCrash
      BY <2>4 DEF OrchCrash, LoopAt
    <2> QED BY <2>1, <2>2, <2>3, <2>4, LoopMoves DEF MainLoop
  <1> QED BY <1>3, <1>4, <1>5, <1>6 DEF RunningInv, NoOrphanRun

\* The orchestrator has no task before its first poll.
LEMMA FreeAtBoot ==
    ASSUME IInv, RunningInv, [Next]_vars, loop'.pc \in {"down", "recover"}, NEW t \in Tasks
    PROVE  walker'[t] = FreeSlot
  <1> USE DEF row, db, orch, broker
  <1>0. WalkersOK
    BY DEF IInv, TypeOK
  <1>1. CASE OrchCrash
    BY <1>1 DEF OrchCrash
  <1>2. CASE ~OrchCrash
    <2>1. loop.pc \in {"down", "recover"} /\ ~StartRun /\ ~ResumeRun
      <3>1. CASE UNCHANGED loop
        BY <3>1 DEF StartRun, ResumeRun, Handling
      <3>2. CASE Boot \/ RecoverRun
        BY <3>2 DEF Boot, RecoverRun, StartRun, ResumeRun, Handling
      <3>3. ~(FetchActions \/ ClearAction \/ StartRun \/ ResumeRun \/ DropAction
              \/ CancelRun \/ LoopError)
        BY DEF FetchActions, ClearAction, StartRun, ResumeRun, DropAction, CancelRun, Handled,
               LoopError, LoopAt
      <3> QED BY <1>2, <3>1, <3>2, <3>3, LoopMoves DEF MainLoop
    <2>2. walker[t] = FreeSlot
      BY <2>1 DEF RunningInv
    <2>3. ~(Walk(t) \/ Expire(t) \/ WalkerError(t))
      <3>1. FreeSlot.run = NoRun /\ NoRun \notin Runs
        BY RunsAssumption DEF FreeSlot, Frame, NoRun
      <3>2. FreeSlot \notin Frames
        BY <3>1 DEF Frames
      <3> QED BY <1>0, <2>2, <3>2, OwnFrame
    <2>4. ConsumeResult => walker'[t] = FreeSlot
      BY <2>2 DEF ConsumeResult, At, FreeSlot, Frame
    <2> QED BY <2>1, <2>2, <2>3, <2>4, SlotMoves
  <1> QED BY <1>1, <1>2

\* While no run is cancelled and no exception ends a walker or a round of the poll
\* loop, a run marked running is walked or about to be recovered, whatever else
\* fails: crashes of the orchestrator, of the web server and of workers, rejected
\* jobs, timeouts.
THEOREM RunningInvariant ==
    ASSUME NoKills
    PROVE  Spec => []RunningInv
  <1>1. Init => RunningInv
    BY DEF Init, NoKills, RunningInv, Uncancelled, NoOrphanRun, At, FreeSlot, Frame, Idle, Request,
           LoopAt, Nothing, Todo, NoAction
  <1>2. IInv /\ RunningInv /\ [Next]_vars => RunningInv'
    <2> SUFFICES ASSUME IInv, RunningInv, [Next]_vars
                 PROVE  RunningInv'
      OBVIOUS
    <2>1. Uncancelled'
      BY UncancelledStep DEF RunningInv
    <2>2. NoOrphanRun'
      BY NoOrphanStep
    <2>3. \A t \in Tasks : walker'[t].pc = "done" => status'[walker'[t].run] # "running"
      BY DoneStep
    <2>4. loop'.pc \in {"down", "recover"} => \A t \in Tasks : walker'[t] = FreeSlot
      BY FreeAtBoot
    <2> QED BY <2>1, <2>2, <2>3, <2>4 DEF RunningInv, At, RunOf
  <1> QED BY <1>1, <1>2, InvHolds, PTL DEF Spec

\* Then a run that is marked running has a walker, or the recovery of an orchestrator
\* that is starting has still to come to it.
THEOREM NoRunIsOrphaned ==
    ASSUME NoKills
    PROVE  Spec => []NoOrphanRun
  <1>1. RunningInv => NoOrphanRun
    BY DEF RunningInv
  <1> QED BY <1>1, RunningInvariant, PTL
================================================================================
