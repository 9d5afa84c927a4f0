-------------------------- MODULE RunControlInvariant --------------------------
(***************************************************************************)
(* What every step of RunControl preserves: the invariants of RunControl,  *)
(* with what they rest on.                                                 *)
(***************************************************************************)
EXTENDS RunControl

\* The jobs anybody still holds a copy of.
KnownJobs == {jobQueue[k] : k \in DOMAIN jobQueue}
                \cup {resultQueue[k].job : k \in DOMAIN resultQueue}
                \cup {busy[w] : w \in Workers}
                \cup {walker[t].job : t \in Tasks}

\* The id of a job names it: however often it is redelivered and answered, two
\* copies with one id are one job, and the next uuid4 is not among them.
JobsIdentified ==
    /\ \A j \in KnownJobs : j.id < nextJob
    /\ \A j, k \in KnownJobs : j.id = k.id => j = k

\* The dict of active runs holds the task of every run that is walked.
ActiveHoldsWalkers == \A t \in Tasks : Live(t) => active[RunOf(t)] = t

\* A stage is only entered on the route.  From the publication of its job to its
\* end the frame holds the job of the run and the stage it is at, and from the
\* answer on, an answer to that job which the stage can produce.
Answering == {"answered", "reread", "judge", "park"}
Engaged   == {"register", "wait", "expired"} \cup Answering
OnStage   == {"step", "publish"} \cup Engaged

SoundFrame(f) ==
    /\ f.pc \in OnStage => f.idx <= Last(f.run)
    /\ f.pc \in Engaged => f.job # NoJob /\ f.job.run = f.run /\ f.job.idx = f.idx
    /\ f.pc \in Answering => f.answer.job = f.job /\ f.answer.outcome \in Outcomes(f.job)

FramesSound == \A t \in Tasks : SoundFrame(walker[t])

\* A result says what the stage of its job can produce.
ResultsFit ==
    \A k \in DOMAIN resultQueue : resultQueue[k].outcome \in Outcomes(resultQueue[k].job)

IInv == /\ TypeOK /\ JobsIdentified /\ ActiveHoldsWalkers
        /\ FramesSound /\ ResultsFit /\ RollbackBudget
===============================================================================
