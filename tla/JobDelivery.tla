------------------------------ MODULE JobDelivery ------------------------------
(***************************************************************************)
(* A worker process between the broker and its agents (worker/src/main.py, *)
(* worker/src/heartbeat.py, JobExecutor.execute and the process registry   *)
(* of pipeline/agent.py): which job it holds, which agent it runs, how a   *)
(* cancel broadcast finds that agent, and the heartbeat rows it leaves.    *)
(* What a stage does to its clone is StageExecutor's.                      *)
(*                                                                         *)
(* on_job is a coroutine, and "the run at work", the process registry and  *)
(* the heartbeat are shared by all that run in one process.  Prefetch 1    *)
(* allows one at a time, except that a lost connection takes its message   *)
(* back from a coroutine that goes on: the robust connection consumes      *)
(* again and a second one starts.                                          *)
(***************************************************************************)
EXTENDS Integers, Sequences, FiniteSets, SequencesExt

CONSTANTS Workers,
          RunOf,      \* the run of each job, in the order they are published
          Budget      \* how often each of BudgetOps may happen (bounds the model)

\* "any" bounds all of them together.
BudgetOps == {"cancel", "crash", "connection", "raise", "output", "deleteFails", "any"}

ASSUME RunsAssumption == RunOf \in Seq(Nat \ {0})
ASSUME BudgetAssumption == Budget \in [BudgetOps -> Nat]

VARIABLES
    published,           \* how many jobs the orchestrator has published
    queue,               \* the job queue: durable, persistent messages
    unacked,             \* the message each worker's channel has not settled
    answered, rejected,  \* jobs with a result, jobs settled without requeueing
    cancels,             \* the runs named in each worker's exclusive queue
    frame,               \* the on_job coroutines of each process
    cur,                 \* executor._current_run_id
    registry,            \* _running_processes
    beat,                \* the Heartbeat object
    beats,               \* worker_heartbeats, a row per step
    unswept,             \* the rows a heartbeat failed to delete (history)
    left

broker  == <<published, queue, unacked, answered, rejected>>
process == <<frame, cur, registry, beat>>
vars    == <<broker, cancels, process, beats, unswept, left>>

Jobs  == DOMAIN RunOf
Runs  == Range(RunOf)
NoJob == 0
NoRun == 0
NoOne == 0

\* A process has one coroutine, and one more for each connection it lost.
Slots == 1..(1 + Budget["connection"])

\* "held": the delivery is still the worker's to settle; "alone": no other
\* coroutine was there at the same time; "doomed": its agent was running, and
\* not terminated yet, when its run was cancelled (history); "astray": its agent
\* was left running, unregistered; "returned": execute did not raise.
NoFrame == [pc |-> "idle", job |-> NoJob, held |-> FALSE, alone |-> FALSE,
            doomed |-> FALSE, killed |-> FALSE, astray |-> FALSE, returned |-> FALSE]
Silent  == [step |-> NoJob, task |-> FALSE, stray |-> FALSE]

Spend(op) == /\ left[op] > 0 /\ left["any"] > 0
             /\ left' = [left EXCEPT ![op] = @ - 1, !["any"] = @ - 1]

Init ==
    /\ published = 0 /\ queue = <<>>
    /\ unacked = [w \in Workers |-> NoJob]
    /\ answered = {} /\ rejected = {}
    /\ cancels = [w \in Workers |-> {}]
    /\ frame = [w \in Workers |-> [k \in Slots |-> NoFrame]]
    /\ cur = [w \in Workers |-> NoRun]
    /\ registry = [w \in Workers |-> [r \in Runs |-> NoOne]]
    /\ beat = [w \in Workers |-> Silent]
    /\ beats = {} /\ unswept = {}
    /\ left = Budget

-------------------------------------------------------------------------------
\* What the orchestrator publishes: jobs one by one, and a cancel to the queue
\* of every worker.
PublishJob ==
    /\ published < Len(RunOf)
    /\ published' = published + 1
    /\ queue' = Append(queue, published + 1)
    /\ UNCHANGED <<unacked, answered, rejected, cancels, process, beats, unswept, left>>

\* Its agent runs, and no cancel has terminated it.
Cancelled(f, r) == /\ f.astray \/ (f.pc = "agent" /\ ~f.killed)
                   /\ RunOf[f.job] = r

PublishCancel(r) ==
    /\ Spend("cancel")
    /\ cancels' = [w \in Workers |-> cancels[w] \cup {r}]
    /\ frame' = [w \in Workers |-> [k \in Slots |->
                    IF Cancelled(frame[w][k], r)
                    THEN [frame[w][k] EXCEPT !.doomed = TRUE] ELSE frame[w][k]]]
    /\ UNCHANGED <<broker, cur, registry, beat, beats, unswept>>

-------------------------------------------------------------------------------
(***************************************************************************)
(* on_job: credentials, heartbeat, execute, heartbeat, result, settle.     *)
(***************************************************************************)
At(w, k, pc) == frame[w][k].pc = pc
RunAt(w, k)  == RunOf[frame[w][k].job]
Goto(w, k, pc) == frame' = [frame EXCEPT ![w][k].pc = pc]
Busy(w)      == {k \in Slots : ~At(w, k, "idle")}

\* Mutant: the message is acknowledged as it is delivered.
MutantHold(w) == unacked' = unacked

\* The message stays unsettled while its coroutine runs (message.process()).
Hold(w) == unacked' = [unacked EXCEPT ![w] = Head(queue)]

Deliver(w) ==
    /\ queue # <<>> /\ unacked[w] = NoJob /\ Busy(w) # Slots
    /\ Hold(w)
    /\ queue' = Tail(queue)
    /\ LET s == CHOOSE k \in Slots \ Busy(w) : \A i \in Slots \ Busy(w) : k <= i
           new == [NoFrame EXCEPT !.pc = "prepare", !.job = Head(queue), !.held = TRUE,
                                  !.alone = (Busy(w) = {})] IN
       frame' = [frame EXCEPT ![w] = [k \in Slots |->
                    IF k = s THEN new ELSE [@[k] EXCEPT !.alone = FALSE]]]
    /\ UNCHANGED <<published, answered, rejected, cancels, cur, registry, beat, beats,
                   unswept, left>>

\* heartbeat.start, and the first lines of execute.  The loop of a heartbeat
\* that was not stopped goes on, out of reach.
Start(w, k) ==
    /\ At(w, k, "prepare")
    /\ beat' = [beat EXCEPT ![w] = [step |-> frame[w][k].job, task |-> TRUE,
                                    stray |-> @.stray \/ @.task]]
    /\ cur' = [cur EXCEPT ![w] = RunAt(w, k)]
    /\ Goto(w, k, "execute")
    /\ UNCHANGED <<broker, cancels, registry, beats, unswept, left>>

\* Mutant: the process is registered under its step, where no cancel looks.
MutantRegister(w, k) == registry' = registry

Register(w, k) == registry' = [registry EXCEPT ![w][RunAt(w, k)] = k]

\* The clone and its inputs are ready: the agent is started and registered.
Launch(w, k) ==
    /\ At(w, k, "execute")
    /\ Register(w, k)
    /\ Goto(w, k, "agent")
    /\ UNCHANGED <<broker, cancels, cur, beat, beats, unswept, left>>

\* Mutant: nothing ends an agent but its cancellation.
MutantOver(w, k) == frame[w][k].killed

\* The agent exits, is terminated by a cancel, or by its timeout.
Over(w, k) == TRUE

\* Whatever process is registered for the run is taken out.
AgentEnds(w, k) ==
    /\ At(w, k, "agent") /\ Over(w, k)
    /\ registry' = [registry EXCEPT ![w][RunAt(w, k)] = NoOne]
    /\ frame' = [frame EXCEPT ![w][k].pc = "finish", ![w][k].doomed = FALSE,
                              ![w][k].killed = FALSE]
    /\ UNCHANGED <<broker, cancels, cur, beat, beats, unswept, left>>

\* The agent's output cannot be read, or its line not logged (on_output): the
\* exception leaves run_agent, whose finally takes the process out of the registry
\* and does not terminate it.  An agent that was terminated has just ended.
OutputFails(w, k) ==
    /\ At(w, k, "agent") /\ ~frame[w][k].killed
    /\ Spend("output")
    /\ registry' = [registry EXCEPT ![w][RunAt(w, k)] = NoOne]
    /\ frame' = [frame EXCEPT ![w][k].pc = "finish", ![w][k].astray = TRUE]
    /\ UNCHANGED <<broker, cancels, cur, beat, beats, unswept>>

\* execute returns a result: the stage is done, or something before or after
\* its agent failed.  Its finally clears the run at work, whosever it is.
Return(w, k) ==
    /\ At(w, k, "execute") \/ At(w, k, "finish")
    /\ cur' = [cur EXCEPT ![w] = NoRun]
    /\ frame' = [frame EXCEPT ![w][k].pc = "stop", ![w][k].returned = TRUE]
    /\ UNCHANGED <<broker, cancels, registry, beat, beats, unswept, left>>

\* Mutant: the heartbeat is only stopped after a result.
MutantSilence(w, k) == IF frame[w][k].returned THEN beats \ {beat[w].step} ELSE beats

\* The row of the step the heartbeat last stood for is deleted.
Silence(w, k) == beats \ {beat[w].step}

Unswept(w) == /\ beat[w].step # NoJob
              /\ unswept' = unswept \cup {beat[w].step}

\* heartbeat.stop: the loop is cancelled and the step forgotten, whether or not
\* its row could be deleted.
StopBeat(w, k) ==
    /\ At(w, k, "stop")
    /\ \/ beats' = Silence(w, k) /\ unswept' = unswept \ {beat[w].step} /\ left' = left
       \/ beats' = beats /\ Unswept(w) /\ Spend("deleteFails")
    /\ beat' = [beat EXCEPT ![w] = [@ EXCEPT !.step = NoJob, !.task = FALSE]]
    /\ Goto(w, k, IF frame[w][k].returned THEN "publish" ELSE "reject")
    /\ UNCHANGED <<broker, cancels, cur, registry>>

PublishResult(w, k) ==
    /\ At(w, k, "publish")
    /\ answered' = answered \cup {frame[w][k].job}
    /\ Goto(w, k, "ack")
    /\ UNCHANGED <<published, queue, unacked, rejected, cancels, cur, registry, beat,
                   beats, unswept, left>>

\* The end of message.process(): an acknowledgement, or after an exception a
\* rejection without requeueing.  Neither reaches a connection that is gone.
Settle(w, k) ==
    /\ At(w, k, "ack") \/ At(w, k, "reject")
    /\ unacked' = IF frame[w][k].held THEN [unacked EXCEPT ![w] = NoJob] ELSE unacked
    /\ rejected' = IF frame[w][k].held /\ At(w, k, "reject")
                   THEN rejected \cup {frame[w][k].job} ELSE rejected
    /\ frame' = [frame EXCEPT ![w][k] = NoFrame]
    /\ UNCHANGED <<published, queue, answered, cancels, cur, registry, beat, beats,
                   unswept, left>>

\* A statement outside the try of execute raises, or the one that records the
\* failure there: the heartbeat is stopped if it was started.
Raise(w, k) ==
    /\ Spend("raise")
    /\ \/ /\ At(w, k, "prepare") \/ At(w, k, "publish")
          /\ Goto(w, k, "reject") /\ cur' = cur
       \/ /\ At(w, k, "execute") \/ At(w, k, "finish")
          /\ Goto(w, k, "stop") /\ cur' = [cur EXCEPT ![w] = NoRun]
    /\ UNCHANGED <<broker, cancels, registry, beat, beats, unswept>>

-------------------------------------------------------------------------------
\* The heartbeat loop writes the row of the step the object stands for by now.
Beat(w) ==
    /\ beat[w].task \/ beat[w].stray
    /\ beat[w].step # NoJob
    /\ beats' = beats \cup {beat[w].step}
    /\ UNCHANGED <<broker, cancels, process, unswept, left>>

\* on_cancel: the broadcast is for this worker if it works on that run, and
\* then kill_process terminates the process registered for it, if any.
OnCancel(w, r) ==
    /\ r \in cancels[w]
    /\ cancels' = [cancels EXCEPT ![w] = @ \ {r}]
    /\ IF cur[w] = r /\ registry[w][r] # NoOne
       THEN /\ frame' = [frame EXCEPT ![w][registry[w][r]] =
                            [@ EXCEPT !.killed = TRUE, !.doomed = FALSE]]
            /\ registry' = [registry EXCEPT ![w][r] = NoOne]
       ELSE UNCHANGED <<frame, registry>>
    /\ UNCHANGED <<broker, cur, beat, beats, unswept, left>>

\* Mutant: there always is something to put back.
MutantRequeue(w) ==
    /\ queue' = <<unacked[w]>> \o queue
    /\ unacked' = [unacked EXCEPT ![w] = NoJob]
    /\ UNCHANGED <<published, answered, rejected>>

\* The broker puts what was not settled back at the head of its queue.
Requeue(w) ==
    /\ queue' = IF unacked[w] = NoJob THEN queue ELSE <<unacked[w]>> \o queue
    /\ unacked' = [unacked EXCEPT ![w] = NoJob]
    /\ UNCHANGED <<published, answered, rejected>>

\* The process dies and is started again; its exclusive queue dies with it.
Crash(w) ==
    /\ Busy(w) # {}
    /\ Spend("crash")
    /\ Requeue(w)
    /\ cancels' = [cancels EXCEPT ![w] = {}]
    /\ frame' = [frame EXCEPT ![w] = [k \in Slots |-> NoFrame]]
    /\ cur' = [cur EXCEPT ![w] = NoRun]
    /\ registry' = [registry EXCEPT ![w] = [r \in Runs |-> NoOne]]
    /\ beat' = [beat EXCEPT ![w] = Silent]
    /\ UNCHANGED <<beats, unswept>>

\* The connection is lost and restored: the coroutines go on without their
\* deliveries, and the exclusive queue is a new one.
LoseConnection(w) ==
    /\ Busy(w) # {}
    /\ Spend("connection")
    /\ Requeue(w)
    /\ cancels' = [cancels EXCEPT ![w] = {}]
    /\ frame' = [frame EXCEPT ![w] = [k \in Slots |-> [@[k] EXCEPT !.held = FALSE]]]
    /\ UNCHANGED <<cur, registry, beat, beats, unswept>>

-------------------------------------------------------------------------------
GoOn(w, k) == \/ Start(w, k) \/ Launch(w, k) \/ AgentEnds(w, k) \/ Return(w, k)
              \/ StopBeat(w, k) \/ PublishResult(w, k) \/ Settle(w, k)

Next ==
    \/ PublishJob
    \/ \E r \in Runs : PublishCancel(r)
    \/ \E w \in Workers :
          \/ Deliver(w) \/ Beat(w) \/ Crash(w) \/ LoseConnection(w)
          \/ \E r \in Runs : OnCancel(w, r)
          \/ \E k \in Slots : GoOn(w, k) \/ Raise(w, k) \/ OutputFails(w, k)

Spec == Init /\ [][Next]_vars

\* The broker delivers, the event loop runs what is ready, and an agent ends:
\* by itself, or because wait_for terminates it.
FairSpec ==
    /\ Spec
    /\ \A w \in Workers : WF_vars(Deliver(w))
    /\ \A w \in Workers, k \in Slots : WF_vars(GoOn(w, k))

-------------------------------------------------------------------------------
PCs == {"idle", "prepare", "execute", "agent", "finish", "stop", "publish", "ack",
        "reject"}
FrameType == [pc : PCs, job : Jobs \cup {NoJob}, held : BOOLEAN, alone : BOOLEAN,
              doomed : BOOLEAN, killed : BOOLEAN, astray : BOOLEAN, returned : BOOLEAN]

\* Every variable has its type; a frame that is not idle has a job, and one
\* delivery at most is the worker's to settle.
TypeOK ==
    /\ published \in 0..Len(RunOf)
    /\ queue \in Seq(Jobs)
    /\ unacked \in [Workers -> Jobs \cup {NoJob}]
    /\ answered \subseteq Jobs /\ rejected \subseteq Jobs
    /\ cancels \in [Workers -> SUBSET Runs]
    /\ frame \in [Workers -> [Slots -> FrameType]]
    /\ \A w \in Workers, k \in Slots : At(w, k, "idle") <=> frame[w][k].job = NoJob
    /\ \A w \in Workers, k \in Slots : frame[w][k].held => unacked[w] = frame[w][k].job
    /\ cur \in [Workers -> Runs \cup {NoRun}]
    /\ registry \in [Workers -> [Runs -> Slots \cup {NoOne}]]
    /\ beat \in [Workers -> [step : Jobs \cup {NoJob}, task : BOOLEAN, stray : BOOLEAN]]
    /\ beats \subseteq Jobs /\ unswept \subseteq Jobs
    /\ left \in [BudgetOps -> Nat]

Pending(j) == Contains(queue, j) \/ \E w \in Workers : unacked[w] = j

\* A job that was published and has no result is queued or held by a worker,
\* unless on_job raised: crashes and lost connections never lose one.
JobsAccounted ==
    \A j \in 1..published : Pending(j) \/ j \in answered \/ j \in rejected

\* An agent that was running when its run was cancelled is terminated when its
\* worker handles the broadcast: until then the broadcast is still to come.
\* Holds of a coroutine that kept its connection and never met another one,
\* which would share the run at work and the registry, and of an agent whose
\* output could be read and logged: one that is astray runs on, and no cancel
\* finds it.
CancelReachesAgents ==
    \A w \in Workers, k \in Slots :
        LET f == frame[w][k] IN
        f.doomed /\ f.held /\ f.alone /\ ~f.astray => RunOf[f.job] \in cancels[w]

\* No heartbeat outlives its job: a row is left only for a job that will be
\* executed again, or was to be after a crash and raised before its heartbeat,
\* or because deleting it failed, which stop() passes over in silence.  A lost
\* connection can leave a row behind: the second coroutine takes the Heartbeat
\* object over.
BeatsStandForJobs ==
    left["connection"] = Budget["connection"] =>
        \A j \in beats :
            \/ Pending(j) \/ j \in unswept
            \/ j \in rejected /\ left["crash"] < Budget["crash"]

\* Every job that is published is answered in the end, or rejected.
JobsAreAnswered ==
    \A j \in Jobs : published >= j ~> j \in answered \cup rejected
===============================================================================
