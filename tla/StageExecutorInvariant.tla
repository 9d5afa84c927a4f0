------------------------ MODULE StageExecutorInvariant ------------------------
(***************************************************************************)
(* The inductive invariant of StageExecutor.                               *)
(***************************************************************************)
EXTENDS StageExecutor

Busy(w) == ~At(w, "idle")

\* The job of the stage the walk is at.
Current == [no |-> walk.no, idx |-> walk.idx]

\* Where a frame is after its agent has ended well.
Ended == {"commit", "push", "upload", "record", "cleanup", "report", "answer"}

NothingOut == queued = {} /\ \A w \in Workers : ~Busy(w)

\* Budgets only shrink.
BudgetsShrink == \A op \in Mishaps : left[op] <= Budget[op]

\* One job at a time: it is in the queue or in one worker, and it is that of the
\* stage the walk is at.
OneJob ==
    OneAtATime =>
        /\ \A j \in queued : j = Current
        /\ \A w \in Workers : Busy(w) => frame[w].job = Current
        /\ \A v, w \in Workers : Busy(v) /\ Busy(w) => v = w
        /\ queued # {} => \A w \in Workers : ~Busy(w)
        /\ walk.pc = "ready" \/ (walk.pc = "over" /\ Unspent({"abandon"})) => NothingOut

\* What was not there has not left anything; the last steps are of the last stage.
CloneShape ==
    /\ clone.head = "none" => clone = NoClone
    /\ \A w \in Workers : At(w, "push") \/ At(w, "cleanup") => IsFinal(w)

\* A version is the number of an execution that has ended, or the base branch's.
Dated ==
    /\ \A f \in DOMAIN NoFiles :
          {factory[f], minio[f], clone.tree[f], remote.tree[f]} \subseteq
              0..Len(by) \cup {base.tree[f]}
    /\ \A w \in Workers : frame[w].pc \in Ended => frame[w].exec \in 1..Len(by)

\* What a stage is going to upload is new: it was not in the clone before, nor is
\* it of an earlier run.
UploadsRise ==
    OneAtATime =>
        /\ \A f \in DOMAIN NoFiles : minio[f] >= 0
        /\ \A w \in Workers :
              /\ frame[w].pc \in {"source", "import", "agent", "commit", "push", "upload"} =>
                    \A f \in In(factory) \ frame[w].pre : factory[f] >= minio[f]
              /\ At(w, "record") => \A f \in DOMAIN NoFiles : frame[w].up[f] <= minio[f]

Kept == clone.work \cup clone.dirty \cup remote.work

\* Where the code of an execution is, from its end to its report; a clone is only
\* removed after its code was pushed, or a warning written.
CodeKept ==
    OneAtATime /\ Unspent({"dieCommitting"}) =>
        /\ ~clone.locked
        /\ \A w \in Workers :
              /\ At(w, "clone") \/ At(w, "checkout") => clone.work \cup clone.dirty = {}
              /\ At(w, "push") /\ clone.head = "work" => clone.dirty = {}
              /\ ~warned /\ frame[w].pc \in Ended => frame[w].exec \in Kept
              /\ ~warned /\ (At(w, "cleanup") \/ (IsFinal(w) /\ frame[w].pc \in {"upload", "record"}))
                    => clone.work \cup clone.dirty \subseteq remote.work

\* How far the source is.
SourceKnown ==
    OneAtATime /\ Unspent({"crash", "dbFails"}) =>
        /\ clone.head = "none" => source = "none"
        /\ \A w \in Workers : At(w, "clone") \/ At(w, "checkout") => source = "none"
        /\ source = "partial" => warned \/ \E w \in Workers : At(w, "source")
        /\ source = "ready" => warned \/ ~TargetEmpty \/ \E w \in Workers : At(w, "import")
        /\ \A w \in Workers :
              /\ wt = "transformation" /\ At(w, "agent") => source # "none" \/ warned
              /\ At(w, "source") => clone.head # "none"
              /\ At(w, "import") => clone.head # "none" /\ source = "ready"

\* The verification is at stage i or ahead of it.
ToVerify(i) == \E k \in i..Last : Name(k) = "verification"

VerdictFile == "verdict.json"

\* Version v was written after the last change of the implementation agent.
AfterChanges(v) == \A e \in 1..Len(by) : by[e] = "implementation" => e < v

\* Until the verification a passing verdict in the clone is one the verification
\* has just written, and what it judges stands until the walk has its answer.
Judged ==
    Unspent({"restart", "redelivered"}) =>
        /\ walk.idx < Last => remote.tree[VerdictFile] = base.tree[VerdictFile]
        /\ ToVerify(walk.idx) /\ factory[VerdictFile] \in passes =>
              Name(walk.idx) = "verification" /\ AfterChanges(factory[VerdictFile])
        /\ walk.passed => ~ToVerify(walk.idx)
        /\ \A w \in Workers :
              frame[w].pc \in Ended /\ AgentOf(w) = "verification" =>
                 IF frame[w].verdict = "PASS"
                 THEN \/ frame[w].of = EarlierPass /\ base.tree[VerdictFile] = EarlierPass
                      \/ frame[w].of \in passes /\ AfterChanges(frame[w].of)
                 ELSE factory[VerdictFile] \notin passes

IInv == /\ TypeOK /\ BudgetsShrink /\ OneJob /\ CloneShape /\ Dated
        /\ UploadsRise /\ RowsBacked /\ CodeKept /\ WorkIsKept
        /\ SourceKnown /\ Judged /\ VerdictIsOfThisCode
===============================================================================
