---------------------------- MODULE RunControlGates ----------------------------
(***************************************************************************)
(* What the human gates of RunControl rest on while one reviewer decides   *)
(* and no run is walked from its start again: the turn of a run is in one  *)
(* place at a time, with the request that will signal it, in its row, with *)
(* the poll loop, with the reviewer or with its walker, and wherever it is *)
(* the gates before it are approved.  And what NoOrphanRun rests on while  *)
(* no walker is cancelled or fails.                                        *)
(***************************************************************************)
EXTENDS RunControlInvariant

OneReviewer  == \A u, v \in Users : u = v
NoSecondWalk == Budget["restart"] = 0 /\ Budget["orchCrash"] = 0

\* Nobody restarts, and the orchestrator that boots finds no run to recover.
WalkedOnce ==
    /\ left["restart"] = 0 /\ left["orchCrash"] = 0
    /\ \A u \in Users : request[u].pc # "resetRow"
    /\ loop.pc \in {"down", "recover"} =>
          loop.todo = {} /\ \A t \in Tasks : walker[t] = FreeSlot
    /\ loop.pc = "down" => \A r \in Runs : status[r] # "running"

-------------------------------------------------------------------------------
\* Where the turn of a run can be.

Signals == {"start", "resume"}
Moving  == WalkerPCs \ {"park", "done"}

Signalling(r) == \E u \in Users : request[u].run = r
                                  /\ request[u].pc \in {"signalStart", "signalResume"}
Signalled(r)  == action[r] \in Signals \/ \E a \in Signals : Todo(r, a) \in loop.todo
Taken(r)      == loop.pc = "act" /\ loop.cur.run = r /\ loop.cur.action \in Signals
Asked(r)      == Signalling(r) \/ Signalled(r) \/ Taken(r)
PendingOf(r)  == {c \in checkpoints : c.run = r /\ c.status = "pending"}
Walked(r)     == \E t \in Tasks : walker[t].run = r /\ walker[t].pc \in Moving

OneTurn(r) ==
    /\ Walked(r) => PendingOf(r) = {} /\ ~Asked(r)
    /\ PendingOf(r) # {} => ~Asked(r)
    /\ Signalling(r) => ~Signalled(r) /\ ~Taken(r)
    /\ Signalled(r) => ~Taken(r)
    /\ \A c, d \in PendingOf(r) : c = d

\* Nobody knows an id that was not given to a run.
Unheard(r) ==
    /\ action[r] = NoAction /\ stepIdx[r] = 0 /\ rollbacks[r] = 0 /\ r \notin mrs
    /\ \A u \in Users : request[u].run # r
    /\ \A d \in loop.todo : d.run # r
    /\ loop.cur.run # r
    /\ \A c \in checkpoints : c.run # r
    /\ \A t \in Tasks : walker[t].run # r

\* The ids of the checkpoints name them, a decision under way is about one that
\* is pending, and the loop has fetched a run once.
Addressed ==
    /\ \A c \in checkpoints : c.id < nextCp
    /\ \A c, d \in checkpoints : c.id = d.id => c = d
    /\ \A u \in Users : request[u].pc \in {"approve", "reject"} =>
          \E c \in PendingOf(request[u].run) : c.id = request[u].cp
    /\ \A d, e \in loop.todo : d.run = e.run => d = e

-------------------------------------------------------------------------------
\* Where a run is, and the gates behind it.

Approved(r, i) == \E c \in checkpoints : c.run = r /\ c.idx = i /\ c.status = "approved"

Passed(r, n) ==
    \A i \in StageIdx :
        i < n /\ ShouldCheckpoint(AgentAt(WT(r), i), WT(r), risk[r]) => Approved(r, i)

\* A walker that has read its run is where the row says, and judges by the
\* columns of the row: nobody else moves a run that is walked.
UpToDate(r) ==
    \A t \in Tasks : walker[t].run = r =>
        /\ walker[t].pc \in {"start", "done"} => walker[t].idx = 0
        /\ walker[t].pc = "merge" => walker[t].idx > Last(r)
        /\ walker[t].pc \in WalkerPCs \ {"start", "done"} => stepIdx[r] = walker[t].idx
        /\ walker[t].pc \in OnStage \ {"reread", "park"} => walker[t].seen = Seen(r)

\* From "park" on the turn may be anywhere before the row is moved on.
GatesBehind(r) ==
    /\ Walked(r) \/ Asked(r) => Passed(r, stepIdx[r])
    /\ \A c \in PendingOf(r) : stepIdx[r] \in {c.idx, c.idx + 1} /\ Passed(r, c.idx)
    /\ \A t \in Tasks : walker[t].run = r /\ walker[t].pc = "park" =>
          /\ Passed(r, stepIdx[r])
          /\ Asked(r) => Passed(r, stepIdx[r] + 1)
          /\ \A c \in PendingOf(r) : c.idx = stepIdx[r]

ReleaseApproved(r) == r \in mrs => Approved(r, Last(r))

\* What the steps preserve of a run that is filed.
GatesKept(r) == OneTurn(r) /\ UpToDate(r) /\ GatesBehind(r) /\ ReleaseApproved(r)

GateInv ==
    /\ WalkedOnce /\ Addressed
    /\ \A r \in Runs : /\ Exists(r) => GatesKept(r)
                       /\ status[r] = "unborn" => Unheard(r)

-------------------------------------------------------------------------------
\* What the stages of a run can cost.  A stage is executed again after a
\* rollback, or when its walker is killed after it opened the checkpoint and
\* before it moved the row on.

GateStage(r, i) == ShouldCheckpoint(AgentAt(WT(r), i), WT(r), "high")

Count(b) == IF b THEN 1 ELSE 0

\* The kills spent on that have not killed a walker of r yet and can not be
\* lost without losing that: those nobody has spent, and the cancels under way.
KillsAhead(r) ==
    left["cancel"] + left["walkerError"]
      + Count(\E u \in Users : request[u].run = r /\ request[u].pc = "markCancelled")
      + Count(action[r] = "cancel" \/ Todo(r, "cancel") \in loop.todo)
      + Count(loop.pc = "act" /\ loop.cur = Todo(r, "cancel"))

\* n executions of stage i were paid for by rollbacks or by kills.
PaidFor(r, i, n) ==
    IF GateStage(r, i) THEN n + KillsAhead(r) <= Budget["cancel"] + Budget["walkerError"]
    ELSE n <= rollbacks[r]

\* The turn of r is somewhere: its walk goes on, or may.
InTurn(r) == Walked(r) \/ Asked(r) \/ PendingOf(r) # {}

\* The stages the walk of r has begun since it was last sent back.
Begun(r, i) ==
    \/ i < stepIdx[r]
    \/ i = stepIdx[r] /\ \E t \in Tasks :
          walker[t].run = r /\ walker[t].pc \in (OnStage \ {"step"})

Affordable(r) ==
    \A i \in StageIdx :
        /\ PaidFor(r, i, attempts[r][i] - 1)
        /\ InTurn(r) /\ ~Begun(r, i) => PaidFor(r, i, attempts[r][i])

\* A walker parks behind a stage that can have a gate.
ParksAtGates ==
    \A t \in Tasks : walker[t].pc = "park" => GateStage(RunOf(t), walker[t].idx)

\* The task that is cancelled for a run is the walker of that run.
ActiveFits == \A r \in Runs : active[r] # NoTask => walker[active[r]].run = r

CostInv ==
    /\ ParksAtGates /\ ActiveFits
    /\ \A op \in BudgetOps : left[op] <= Budget[op]
    /\ \A r \in Runs : /\ Exists(r) => Affordable(r)
                       /\ ~Exists(r) => \A i \in StageIdx : attempts[r][i] = 0

-------------------------------------------------------------------------------
\* What a run that is marked running rests on: a walker that ends has said how,
\* unless it was cancelled or an exception ended it, and a resume that marks a
\* run starts a walker, unless the poll loop fails in between.

NoKills == \A op \in {"cancel", "walkerError", "loopError"} : Budget[op] = 0

Uncancelled ==
    /\ \A op \in {"cancel", "walkerError", "loopError"} : left[op] = 0
    /\ \A u \in Users : request[u].pc \notin {"markCancelled", "deleteRow"}
    /\ \A r \in Runs : action[r] # "cancel"
    /\ \A d \in loop.todo : d.action # "cancel"
    /\ loop.cur.action # "cancel"

RunningInv ==
    /\ Uncancelled /\ NoOrphanRun
    /\ \A t \in Tasks : At(t, "done") => status[RunOf(t)] # "running"
    /\ loop.pc \in {"down", "recover"} => \A t \in Tasks : walker[t] = FreeSlot
===============================================================================
