--------------------------- MODULE JobDeliveryProofs ---------------------------
(***************************************************************************)
(* Theorems about JobDelivery, for any number of workers, any jobs and any *)
(* budget of cancels, crashes, lost connections and exceptions.            *)
(***************************************************************************)
EXTENDS JobDelivery, SequenceTheorems, WellFoundedInduction, TLAPS

\* Budgets only shrink.
BudgetsShrink == \A op \in BudgetOps : left[op] <= Budget[op]

\* A slot without a coroutine holds no delivery, and at most one coroutine of a
\* process holds its own.
FramesSound ==
    /\ \A w \in Workers, k \in Slots : At(w, k, "idle") => ~frame[w][k].held
    /\ \A w \in Workers : \A i, k \in Slots :
          frame[w][i].held /\ frame[w][k].held => i = k

\* A job is acknowledged after its result was published.
AckedAnswered ==
    \A w \in Workers, k \in Slots : At(w, k, "ack") => frame[w][k].job \in answered

\* What is registered for a run is an agent of that run.
RegistrySound ==
    \A w \in Workers, r \in Runs :
        LET k == registry[w][r] IN k # NoOne => At(w, k, "agent") /\ RunAt(w, k) = r

\* A coroutine that is alone is the one the run at work and the registry tell of,
\* unless its agent was terminated or is astray.
AloneIsKnown ==
    \A w \in Workers, k \in Slots :
        /\ frame[w][k].alone => Busy(w) = {k}
        /\ frame[w][k].alone /\ frame[w][k].pc \in {"execute", "agent", "finish"} =>
              cur[w] = RunAt(w, k)
        /\ frame[w][k].alone /\ At(w, k, "agent") /\ ~frame[w][k].killed =>
              registry[w][RunAt(w, k)] = k
        /\ frame[w][k].doomed /\ ~frame[w][k].astray => At(w, k, "agent") /\ ~frame[w][k].killed

\* A message is in one place at a time.
MessagesOnce ==
    /\ \A i \in 1..Len(queue) : queue[i] \in 1..published
    /\ \A i, j \in 1..Len(queue) : queue[i] = queue[j] => i = j
    /\ \A w \in Workers : unacked[w] # NoJob =>
          /\ unacked[w] \in 1..published
          /\ \A i \in 1..Len(queue) : queue[i] # unacked[w]
          /\ \A v \in Workers : unacked[v] = unacked[w] => v = w

\* While no connection is lost, every coroutine holds its delivery; a heartbeat
\* stands for the job of a coroutine that has started it and not stopped it; and
\* a row is one of those, or was left by a worker that died or could not delete it.
Connected == left["connection"] = Budget["connection"]
Crashed   == left["crash"] < Budget["crash"]
Beating   == {"execute", "agent", "finish", "stop"}
StandsFor(w, j) == \E k \in Slots : frame[w][k].pc \in Beating /\ frame[w][k].job = j

HeartbeatsSound == Connected =>
    /\ \A w \in Workers, k \in Slots : At(w, k, "idle") \/ frame[w][k].held
    /\ \A w \in Workers : beat[w].step # NoJob => StandsFor(w, beat[w].step)
    /\ \A w \in Workers, k \in Slots :
          frame[w][k].pc \in Beating => beat[w].step = frame[w][k].job
    /\ \A w \in Workers, k \in Slots :
          frame[w][k].pc \in {"publish", "ack"} => frame[w][k].job \notin beats \ unswept
    /\ \A j \in beats \ unswept : Crashed \/ \E w \in Workers : StandsFor(w, j)

IInv == /\ TypeOK /\ BudgetsShrink /\ FramesSound /\ AckedAnswered /\ RegistrySound
        /\ AloneIsKnown /\ CancelReachesAgents /\ MessagesOnce /\ JobsAccounted
        /\ HeartbeatsSound /\ BeatsStandForJobs

-------------------------------------------------------------------------------
(***************************************************************************)
(* Constants, and what a step of one coroutine makes of its frame.         *)
(***************************************************************************)
Frames == [Workers -> [Slots -> FrameType]]

LEMMA ConstantsTyped ==
    /\ Len(RunOf) \in Nat /\ Jobs = 1..Len(RunOf) /\ NoJob \notin Jobs
    /\ \A j \in Jobs : RunOf[j] \in Runs
    /\ NoRun \notin Runs
    /\ Slots \subseteq Nat \ {0} /\ NoOne \notin Slots
    /\ \A op \in BudgetOps : Budget[op] \in Nat
    /\ {"cancel", "crash", "connection", "raise", "output", "deleteFails", "any"} \subseteq BudgetOps
  <1>1. /\ Len(RunOf) \in Nat /\ DOMAIN RunOf = 1..Len(RunOf)
        /\ \A j \in 1..Len(RunOf) : RunOf[j] \in Nat \ {0}
    BY RunsAssumption, LenProperties, ElementOfSeq
  <1>2. Jobs = 1..Len(RunOf) /\ NoJob \notin Jobs
    BY <1>1 DEF Jobs, NoJob
  <1>3. /\ \A j \in Jobs : RunOf[j] \in Runs
        /\ NoRun \notin Runs
    BY <1>1 DEF Jobs, Runs, Range, NoRun
  <1>4. \A op \in BudgetOps : Budget[op] \in Nat
    BY BudgetAssumption
  <1>5. Slots \subseteq Nat \ {0} /\ NoOne \notin Slots
    BY <1>4 DEF Slots, NoOne, BudgetOps
  <1> QED BY <1>1, <1>2, <1>3, <1>4, <1>5 DEF BudgetOps

LEMMA NoFrameTyped ==
    /\ NoFrame \in FrameType /\ NoFrame.pc = "idle" /\ NoFrame.job = NoJob
    /\ ~NoFrame.held /\ ~NoFrame.alone /\ ~NoFrame.doomed /\ ~NoFrame.killed
    /\ ~NoFrame.astray
  BY DEF NoFrame, FrameType, PCs

LEMMA Typed ==
    ASSUME TypeOK
    PROVE  /\ published \in Nat /\ published \in 0..Len(RunOf)
           /\ queue \in Seq(Jobs) /\ Len(queue) \in Nat
           /\ \A i \in 1..Len(queue) : queue[i] \in Jobs
           /\ frame \in Frames
           /\ \A w \in Workers, k \in Slots :
                 /\ frame[w][k] \in FrameType /\ frame[w][k].pc \in PCs
                 /\ frame[w][k].job \in Jobs \cup {NoJob}
                 /\ ~At(w, k, "idle") => frame[w][k].job \in Jobs /\ RunAt(w, k) \in Runs
           /\ \A op \in BudgetOps : left[op] \in Nat
  <1>1. /\ published \in 0..Len(RunOf) /\ queue \in Seq(Jobs) /\ frame \in Frames
        /\ left \in [BudgetOps -> Nat]
        /\ \A w \in Workers, k \in Slots : At(w, k, "idle") <=> frame[w][k].job = NoJob
    BY DEF TypeOK, Frames
  <1>2. \A w \in Workers, k \in Slots :
           /\ frame[w][k] \in FrameType /\ frame[w][k].pc \in PCs
           /\ frame[w][k].job \in Jobs \cup {NoJob}
    <2>1. \A w \in Workers, k \in Slots : frame[w][k] \in FrameType
      BY <1>1 DEF Frames
    <2> QED BY <2>1 DEF FrameType
  <1>3. Len(queue) \in Nat /\ \A i \in 1..Len(queue) : queue[i] \in Jobs
    BY <1>1, LenProperties, ElementOfSeq
  <1>4. ASSUME NEW w \in Workers, NEW k \in Slots, ~At(w, k, "idle")
        PROVE  frame[w][k].job \in Jobs /\ RunAt(w, k) \in Runs
    <2>1. frame[w][k].job \in Jobs
      BY <1>1, <1>2, <1>4
    <2> QED BY <2>1, ConstantsTyped DEF RunAt
  <1>5. published \in Nat
    BY <1>1, ConstantsTyped
  <1>6. \A op \in BudgetOps : left[op] \in Nat
    BY <1>1
  <1> QED BY <1>1, <1>2, <1>3, <1>4, <1>5, <1>6

LEMMA FrameMoves ==
    ASSUME TypeOK, NEW w \in Workers, NEW k \in Slots, NEW f \in FrameType,
           frame' = [frame EXCEPT ![w] = [frame[w] EXCEPT ![k] = f]]
    PROVE  /\ frame' \in Frames /\ frame'[w][k] = f
           /\ \A v \in Workers, i \in Slots : v # w \/ i # k => frame'[v][i] = frame[v][i]
  <1> DEFINE g == [frame[w] EXCEPT ![k] = f]
  <1>1. frame \in [Workers -> [Slots -> FrameType]]
    BY Typed DEF Frames
  <1>2. /\ g \in [Slots -> FrameType] /\ g[k] = f
        /\ \A i \in Slots : i # k => g[i] = frame[w][i]
    BY <1>1
  <1> HIDE DEF g
  <1>3. frame' = [frame EXCEPT ![w] = g]
    BY DEF g
  <1> QED BY <1>1, <1>2, <1>3 DEF Frames

LEMMA GotoFrame ==
    ASSUME TypeOK, NEW w \in Workers, NEW k \in Slots, NEW pc, Goto(w, k, pc)
    PROVE  frame'[w][k].pc = pc
  <1>1. frame \in Frames /\ frame[w] \in [Slots -> FrameType] /\ frame[w][k] \in FrameType
    BY Typed DEF Frames
  <1> QED BY <1>1 DEF Goto, Frames, FrameType

\* One step of a coroutine that is neither its first nor its last.
Going(w, k) == \/ Start(w, k) \/ Launch(w, k) \/ AgentEnds(w, k) \/ Return(w, k)
               \/ StopBeat(w, k) \/ PublishResult(w, k) \/ Raise(w, k) \/ OutputFails(w, k)

\* The way of a coroutine.
Follows(w, k, from, to) ==
    \/ Start(w, k) /\ from = "prepare" /\ to = "execute"
    \/ Launch(w, k) /\ from = "execute" /\ to = "agent"
    \/ (AgentEnds(w, k) \/ OutputFails(w, k)) /\ from = "agent" /\ to = "finish"
    \/ Return(w, k) /\ from \in {"execute", "finish"} /\ to = "stop"
    \/ StopBeat(w, k) /\ from = "stop" /\ to \in {"publish", "reject"}
    \/ PublishResult(w, k) /\ from = "publish" /\ to = "ack"
    \/ Raise(w, k) /\ from \in {"prepare", "publish"} /\ to = "reject"
    \/ Raise(w, k) /\ from \in {"execute", "finish"} /\ to = "stop"

LEMMA GoingFrame ==
    ASSUME TypeOK, NEW w \in Workers, NEW k \in Slots, Going(w, k)
    PROVE  /\ frame' \in Frames
           /\ \A v \in Workers, i \in Slots : v # w \/ i # k => frame'[v][i] = frame[v][i]
           /\ Follows(w, k, frame[w][k].pc, frame'[w][k].pc)
           /\ frame'[w][k].job = frame[w][k].job /\ frame'[w][k].held = frame[w][k].held
           /\ frame'[w][k].alone = frame[w][k].alone
           /\ ~AgentEnds(w, k) => /\ frame'[w][k].doomed = frame[w][k].doomed
                                  /\ frame'[w][k].killed = frame[w][k].killed
           /\ AgentEnds(w, k) => ~frame'[w][k].doomed
           /\ ~OutputFails(w, k) => frame'[w][k].astray = frame[w][k].astray
           /\ OutputFails(w, k) => frame'[w][k].astray
  <1>0. frame \in Frames /\ frame[w] \in [Slots -> FrameType] /\ frame[w][k] \in FrameType
    BY Typed DEF Frames
  <1> DEFINE f == frame[w][k]
  <1>g. ASSUME NEW pc \in PCs, Goto(w, k, pc)
        PROVE  /\ frame' \in Frames
               /\ \A v \in Workers, i \in Slots : v # w \/ i # k => frame'[v][i] = frame[v][i]
               /\ frame'[w][k].pc = pc /\ frame'[w][k].job = f.job
               /\ frame'[w][k].held = f.held /\ frame'[w][k].alone = f.alone
               /\ frame'[w][k].doomed = f.doomed /\ frame'[w][k].killed = f.killed
               /\ frame'[w][k].astray = f.astray
    <2> DEFINE g == [f EXCEPT !.pc = pc]
    <2>1. frame' = [frame EXCEPT ![w] = [frame[w] EXCEPT ![k] = g]]
      BY <1>g DEF Goto
    <2>2. /\ g \in FrameType /\ g.pc = pc /\ g.job = f.job /\ g.held = f.held
          /\ g.alone = f.alone /\ g.doomed = f.doomed /\ g.killed = f.killed
          /\ g.astray = f.astray
      BY <1>0 DEF FrameType
    <2> HIDE DEF g
    <2>3. /\ frame' \in Frames /\ frame'[w][k] = g
          /\ \A v \in Workers, i \in Slots : v # w \/ i # k => frame'[v][i] = frame[v][i]
      BY <2>1, <2>2, FrameMoves
    <2> QED BY <2>2, <2>3
  <1>1. CASE Start(w, k) \/ Launch(w, k) \/ PublishResult(w, k)
    <2>1. CASE Start(w, k)
      BY <2>1, <1>g DEF Start, At, Follows, PCs, AgentEnds, OutputFails
    <2>2. CASE Launch(w, k)
      BY <2>2, <1>g DEF Launch, At, Follows, PCs, AgentEnds, OutputFails
    <2>3. CASE PublishResult(w, k)
      BY <2>3, <1>g DEF PublishResult, At, Follows, PCs, AgentEnds, OutputFails
    <2> QED BY <1>1, <2>1, <2>2, <2>3
  <1>2. CASE StopBeat(w, k)
    <2>1. PICK pc \in {"publish", "reject"} : Goto(w, k, pc)
      BY <1>2 DEF StopBeat
    <2> QED BY <2>1, <1>2, <1>g DEF StopBeat, At, Follows, PCs, AgentEnds, OutputFails
  <1>3. CASE Raise(w, k)
    <2>1. CASE f.pc \in {"prepare", "publish"} /\ Goto(w, k, "reject")
      BY <2>1, <1>3, <1>g DEF Follows, PCs, AgentEnds, OutputFails, At
    <2>2. CASE f.pc \in {"execute", "finish"} /\ Goto(w, k, "stop")
      BY <2>2, <1>3, <1>g DEF Follows, PCs, AgentEnds, OutputFails, At
    <2> QED BY <1>3, <2>1, <2>2 DEF Raise, At
  <1>4. CASE AgentEnds(w, k)
    <2> DEFINE g == [f EXCEPT !.pc = "finish", !.doomed = FALSE, !.killed = FALSE]
    <2>1. frame' = [frame EXCEPT ![w] = [frame[w] EXCEPT ![k] = g]]
      BY <1>0, <1>4 DEF AgentEnds, Frames, FrameType
    <2>2. /\ g \in FrameType /\ g.pc = "finish" /\ g.job = f.job /\ g.held = f.held
          /\ g.alone = f.alone /\ ~g.doomed /\ g.astray = f.astray
      BY <1>0 DEF FrameType, PCs
    <2> HIDE DEF g
    <2>3. /\ frame' \in Frames /\ frame'[w][k] = g
          /\ \A v \in Workers, i \in Slots : v # w \/ i # k => frame'[v][i] = frame[v][i]
      BY <2>1, <2>2, FrameMoves
    <2>4. frame'[w][k].pc = "finish" /\ frame[w][k].pc = "agent" /\ ~frame'[w][k].doomed
          /\ frame'[w][k].astray = frame[w][k].astray
      BY <2>2, <2>3, <1>4 DEF AgentEnds, At
    <2>5. ~OutputFails(w, k) \/ frame'[w][k].astray
      <3>1. ASSUME OutputFails(w, k) PROVE frame'[w][k].astray
        BY <1>0, <3>1 DEF OutputFails, Frames, FrameType
      <3> QED BY <3>1
    <2> QED BY <2>2, <2>3, <2>4, <2>5, <1>4 DEF Follows
  <1>5. CASE Return(w, k)
    <2> DEFINE g == [f EXCEPT !.pc = "stop", !.returned = TRUE]
    <2>1. frame' = [frame EXCEPT ![w] = [frame[w] EXCEPT ![k] = g]]
      BY <1>0, <1>5 DEF Return, Frames, FrameType
    <2>2. /\ g \in FrameType /\ g.pc = "stop" /\ g.job = f.job /\ g.held = f.held
          /\ g.alone = f.alone /\ g.doomed = f.doomed /\ g.killed = f.killed
          /\ g.astray = f.astray
      BY <1>0 DEF FrameType, PCs
    <2> HIDE DEF g
    <2>3. /\ frame' \in Frames /\ frame'[w][k] = g
          /\ \A v \in Workers, i \in Slots : v # w \/ i # k => frame'[v][i] = frame[v][i]
      BY <2>1, <2>2, FrameMoves
    <2> QED BY <2>2, <2>3, <1>5 DEF Return, At, Follows, AgentEnds, OutputFails
  <1>6. CASE OutputFails(w, k) /\ ~AgentEnds(w, k)
    <2> DEFINE g == [f EXCEPT !.pc = "finish", !.astray = TRUE]
    <2>1. frame' = [frame EXCEPT ![w] = [frame[w] EXCEPT ![k] = g]]
      BY <1>0, <1>6 DEF OutputFails, Frames, FrameType
    <2>2. /\ g \in FrameType /\ g.pc = "finish" /\ g.job = f.job /\ g.held = f.held
          /\ g.alone = f.alone /\ g.doomed = f.doomed /\ g.killed = f.killed /\ g.astray
      BY <1>0 DEF FrameType, PCs
    <2> HIDE DEF g
    <2>3. /\ frame' \in Frames /\ frame'[w][k] = g
          /\ \A v \in Workers, i \in Slots : v # w \/ i # k => frame'[v][i] = frame[v][i]
      BY <2>1, <2>2, FrameMoves
    <2> QED BY <2>2, <2>3, <1>6 DEF OutputFails, At, Follows
  <1> QED BY <1>1, <1>2, <1>3, <1>4, <1>5, <1>6 DEF Going

\* The fields of a frame that only its own coroutine changes.
SameJob(f, g) == f.pc = g.pc /\ f.job = g.job /\ f.returned = g.returned

LEMMA DeliverFrame ==
    ASSUME TypeOK, NEW w \in Workers, Deliver(w)
    PROVE  /\ frame' \in Frames
           /\ \A v \in Workers, i \in Slots : v # w => frame'[v][i] = frame[v][i]
           /\ \E s \in Slots :
                /\ At(w, s, "idle")
                /\ frame'[w][s].pc = "prepare" /\ frame'[w][s].job = Head(queue)
                /\ frame'[w][s].held /\ ~frame'[w][s].doomed /\ ~frame'[w][s].killed
                /\ ~frame'[w][s].astray
                /\ frame'[w][s].alone = (Busy(w) = {})
                /\ \A i \in Slots : i # s =>
                      /\ SameJob(frame'[w][i], frame[w][i]) /\ ~frame'[w][i].alone
                      /\ frame'[w][i].held = frame[w][i].held
                      /\ frame'[w][i].doomed = frame[w][i].doomed
                      /\ frame'[w][i].killed = frame[w][i].killed
                      /\ frame'[w][i].astray = frame[w][i].astray
  <1> DEFINE Free == Slots \ Busy(w)
             s    == CHOOSE k \in Free : \A i \in Free : k <= i
             new  == [NoFrame EXCEPT !.pc = "prepare", !.job = Head(queue), !.held = TRUE,
                                     !.alone = (Busy(w) = {})]
             old(i) == [frame[w][i] EXCEPT !.alone = FALSE]
  <1>0. frame \in Frames /\ frame[w] \in [Slots -> FrameType]
    BY Typed DEF Frames
  <1>1. s \in Free
    <2>1. Free # {} /\ Free \subseteq Nat
      BY ConstantsTyped DEF Deliver, Busy
    <2>2. PICK k \in Free : \A i \in Free : ~(<<i, k>> \in OpToRel(<, Nat))
      <3> HIDE DEF Free
      <3> QED BY <2>1, WFMin, NatLessThanWellFounded
    <2>3. \A i \in Free : k <= i
      <3>1. \A i \in Free : ~(i < k)
        BY <2>1, <2>2 DEF OpToRel
      <3> HIDE DEF Free
      <3> QED BY <2>1, <3>1
    <2> HIDE DEF Free
    <2> QED BY <2>3
  <1>2. Head(queue) \in Jobs
    BY Typed, HeadTailProperties DEF Deliver
  <1>3. /\ new \in FrameType /\ new.pc = "prepare" /\ new.job = Head(queue) /\ new.held
        /\ ~new.doomed /\ ~new.killed /\ ~new.astray /\ new.alone = (Busy(w) = {})
    BY <1>2 DEF NoFrame, FrameType, PCs
  <1>4. ASSUME NEW i \in Slots
        PROVE  /\ old(i) \in FrameType
               /\ SameJob(old(i), frame[w][i]) /\ ~old(i).alone
               /\ old(i).held = frame[w][i].held /\ old(i).doomed = frame[w][i].doomed
               /\ old(i).killed = frame[w][i].killed
               /\ old(i).astray = frame[w][i].astray
    <2>1. frame[w][i] \in FrameType
      BY <1>0
    <2> QED BY <2>1 DEF FrameType, SameJob
  <1>5. frame' = [frame EXCEPT ![w] = [i \in Slots |-> IF i = s THEN new ELSE old(i)]]
    BY DEF Deliver
  <1>6. /\ \A v \in Workers, i \in Slots : v # w => frame'[v][i] = frame[v][i]
        /\ \A i \in Slots : frame'[w][i] = IF i = s THEN new ELSE old(i)
        /\ frame' \in Frames
    <2> DEFINE g == [i \in Slots |-> IF i = s THEN new ELSE old(i)]
    <2>1. g \in [Slots -> FrameType] /\ \A i \in Slots : g[i] = IF i = s THEN new ELSE old(i)
      <3> HIDE DEF s, new, old
      <3> QED BY <1>3, <1>4
    <2> HIDE DEF g
    <2>2. frame' = [frame EXCEPT ![w] = g]
      BY <1>5 DEF g
    <2> QED BY <1>0, <2>1, <2>2 DEF Frames
  <1> HIDE DEF new
  <1>7. s \in Slots /\ At(w, s, "idle")
    BY <1>1 DEF Busy
  <1> HIDE DEF s, Free
  <1>8. /\ frame'[w][s] = new
        /\ \A i \in Slots : i # s => frame'[w][i] = old(i)
    BY <1>6, <1>7
  <1> HIDE DEF old
  <1>9. \A i \in Slots : i # s =>
           /\ SameJob(frame'[w][i], frame[w][i]) /\ ~frame'[w][i].alone
           /\ frame'[w][i].held = frame[w][i].held
           /\ frame'[w][i].doomed = frame[w][i].doomed
           /\ frame'[w][i].killed = frame[w][i].killed
           /\ frame'[w][i].astray = frame[w][i].astray
    BY <1>4, <1>8
  <1> QED BY <1>3, <1>6, <1>7, <1>8, <1>9

LEMMA SettleFrame ==
    ASSUME TypeOK, NEW w \in Workers, NEW k \in Slots, Settle(w, k)
    PROVE  /\ frame' \in Frames /\ frame'[w][k] = NoFrame
           /\ \A v \in Workers, i \in Slots : v # w \/ i # k => frame'[v][i] = frame[v][i]
  BY FrameMoves, NoFrameTyped, Typed DEF Settle, Frames

LEMMA CancelFrame ==
    ASSUME TypeOK, NEW r \in Runs, PublishCancel(r)
    PROVE  /\ frame' \in Frames
           /\ \A w \in Workers, k \in Slots :
                /\ SameJob(frame'[w][k], frame[w][k])
                /\ frame'[w][k].held = frame[w][k].held
                /\ frame'[w][k].alone = frame[w][k].alone
                /\ frame'[w][k].killed = frame[w][k].killed
                /\ frame'[w][k].astray = frame[w][k].astray
                /\ ~Cancelled(frame[w][k], r) => frame'[w][k] = frame[w][k]
  <1> DEFINE new(w, k) == [frame[w][k] EXCEPT !.doomed = TRUE]
  <1>0. \A w \in Workers, k \in Slots : frame[w][k] \in FrameType
    BY Typed
  <1>1. ASSUME NEW w \in Workers, NEW k \in Slots
        PROVE  /\ new(w, k) \in FrameType /\ SameJob(new(w, k), frame[w][k])
               /\ new(w, k).held = frame[w][k].held /\ new(w, k).alone = frame[w][k].alone
               /\ new(w, k).killed = frame[w][k].killed
               /\ new(w, k).astray = frame[w][k].astray
    <2>1. frame[w][k] \in FrameType
      BY <1>0
    <2> QED BY <2>1 DEF FrameType, SameJob
  <1>2. frame' = [w \in Workers |-> [k \in Slots |->
                    IF Cancelled(frame[w][k], r) THEN new(w, k) ELSE frame[w][k]]]
    BY DEF PublishCancel
  <1> HIDE DEF new
  <1>3. /\ frame' \in Frames
        /\ \A w \in Workers, k \in Slots :
              frame'[w][k] = IF Cancelled(frame[w][k], r) THEN new(w, k) ELSE frame[w][k]
    BY <1>0, <1>1, <1>2 DEF Frames
  <1> QED BY <1>1, <1>3 DEF SameJob

LEMMA OnCancelFrame ==
    ASSUME TypeOK, NEW w \in Workers, NEW r \in Runs, OnCancel(w, r)
    PROVE  /\ frame' \in Frames
           /\ \A v \in Workers, i \in Slots :
                 v # w \/ i # registry[w][r] => frame'[v][i] = frame[v][i]
           /\ \A i \in Slots :
                /\ SameJob(frame'[w][i], frame[w][i])
                /\ frame'[w][i].held = frame[w][i].held
                /\ frame'[w][i].alone = frame[w][i].alone
                /\ frame'[w][i].astray = frame[w][i].astray
                /\ frame'[w][i] = frame[w][i] \/ (i = registry[w][r] /\ ~frame'[w][i].doomed)
           /\ \/ /\ cur[w] = r /\ registry[w][r] # NoOne
                 /\ registry' = [registry EXCEPT ![w][r] = NoOne]
                 /\ ~frame'[w][registry[w][r]].doomed /\ frame'[w][registry[w][r]].killed
              \/ /\ ~(cur[w] = r /\ registry[w][r] # NoOne)
                 /\ registry' = registry /\ frame' = frame
  <1>0. /\ frame \in Frames /\ frame[w] \in [Slots -> FrameType]
        /\ registry[w][r] \in Slots \cup {NoOne}
    BY Typed DEF Frames, TypeOK
  <1>1. CASE cur[w] = r /\ registry[w][r] # NoOne
    <2> DEFINE k == registry[w][r]
               f == [frame[w][k] EXCEPT !.killed = TRUE, !.doomed = FALSE]
    <2>1. k \in Slots /\ frame[w][k] \in FrameType
      BY <1>0, <1>1
    <2>2. /\ f \in FrameType /\ SameJob(f, frame[w][k]) /\ f.held = frame[w][k].held
          /\ f.alone = frame[w][k].alone /\ ~f.doomed /\ f.killed
          /\ f.astray = frame[w][k].astray
      BY <2>1 DEF FrameType, SameJob
    <2>3. frame' = [frame EXCEPT ![w] = [frame[w] EXCEPT ![k] = f]]
      BY <1>0, <1>1, <2>1 DEF OnCancel, Frames
    <2>4. registry' = [registry EXCEPT ![w][r] = NoOne]
      BY <1>1 DEF OnCancel
    <2> HIDE DEF f
    <2>5. /\ frame' \in Frames /\ frame'[w][k] = f
          /\ \A v \in Workers, i \in Slots : v # w \/ i # k => frame'[v][i] = frame[v][i]
      <3> HIDE DEF k
      <3> QED BY <2>1, <2>2, <2>3, FrameMoves
    <2> QED BY <1>1, <2>1, <2>2, <2>4, <2>5 DEF SameJob
  <1>2. CASE ~(cur[w] = r /\ registry[w][r] # NoOne)
    <2>1. frame' = frame /\ registry' = registry
      BY <1>2 DEF OnCancel
    <2> QED BY <1>0, <1>2, <2>1 DEF SameJob
  <1> QED BY <1>1, <1>2

LEMMA CrashFrame ==
    ASSUME TypeOK, NEW w \in Workers, Crash(w)
    PROVE  /\ frame' \in Frames
           /\ \A v \in Workers, i \in Slots : v # w => frame'[v][i] = frame[v][i]
           /\ \A i \in Slots : frame'[w][i] = NoFrame
  BY Typed, NoFrameTyped DEF Crash, Frames

LEMMA LoseFrame ==
    ASSUME TypeOK, NEW w \in Workers, LoseConnection(w)
    PROVE  /\ frame' \in Frames
           /\ \A v \in Workers, i \in Slots : v # w => frame'[v][i] = frame[v][i]
           /\ \A i \in Slots :
                /\ SameJob(frame'[w][i], frame[w][i]) /\ ~frame'[w][i].held
                /\ frame'[w][i].alone = frame[w][i].alone
                /\ frame'[w][i].doomed = frame[w][i].doomed
                /\ frame'[w][i].killed = frame[w][i].killed
                /\ frame'[w][i].astray = frame[w][i].astray
  <1> DEFINE new(i) == [frame[w][i] EXCEPT !.held = FALSE]
  <1>0. frame \in Frames /\ \A i \in Slots : frame[w][i] \in FrameType
    BY Typed
  <1>1. \A i \in Slots :
           /\ new(i) \in FrameType /\ SameJob(new(i), frame[w][i]) /\ ~new(i).held
           /\ new(i).alone = frame[w][i].alone /\ new(i).doomed = frame[w][i].doomed
           /\ new(i).killed = frame[w][i].killed
           /\ new(i).astray = frame[w][i].astray
    BY <1>0 DEF FrameType, SameJob
  <1>2. frame' = [frame EXCEPT ![w] = [i \in Slots |-> new(i)]]
    BY DEF LoseConnection
  <1> HIDE DEF new
  <1>4. /\ frame' \in Frames
        /\ \A v \in Workers, i \in Slots : v # w => frame'[v][i] = frame[v][i]
        /\ \A i \in Slots : frame'[w][i] = new(i)
    BY <1>0, <1>1, <1>2 DEF Frames
  <1> QED BY <1>1, <1>4

\* The steps, those within a coroutine in one.
LEMMA Steps ==
    ASSUME [Next]_vars
    PROVE  \/ UNCHANGED vars \/ PublishJob
           \/ \E r \in Runs : PublishCancel(r)
           \/ \E w \in Workers :
                \/ Deliver(w) \/ Beat(w) \/ Crash(w) \/ LoseConnection(w)
                \/ \E r \in Runs : OnCancel(w, r)
                \/ \E k \in Slots : Going(w, k) \/ Settle(w, k)
  BY DEF Next, GoOn, Going

\* Steps that leave the coroutines alone.
LEMMA Elsewhere ==
    ASSUME UNCHANGED vars \/ PublishJob \/ \E w \in Workers : Beat(w)
    PROVE  frame' = frame /\ unacked' = unacked /\ cur' = cur /\ registry' = registry
           /\ cancels' = cancels /\ answered' = answered /\ rejected' = rejected
           /\ left' = left /\ beat' = beat
  BY DEF vars, broker, process, PublishJob, Beat

-------------------------------------------------------------------------------
(***************************************************************************)
(* The conjuncts of the invariant, one by one: frames.                     *)
(***************************************************************************)
HeldIsUnacked ==
    /\ \A w \in Workers, k \in Slots : At(w, k, "idle") <=> frame[w][k].job = NoJob
    /\ \A w \in Workers, k \in Slots : frame[w][k].held => unacked[w] = frame[w][k].job

\* Who holds a delivery is not idle; who is delivered to has nobody that holds one.
LEMMA HeldTyped ==
    ASSUME TypeOK, FramesSound
    PROVE  /\ HeldIsUnacked
           /\ \A w \in Workers, k \in Slots : frame[w][k].held =>
                 ~At(w, k, "idle") /\ unacked[w] # NoJob
  BY NoFrameTyped DEF TypeOK, FramesSound, HeldIsUnacked

\* A step of one worker is a question of that worker's frames.
LEMMA FramesOfOne ==
    ASSUME HeldIsUnacked, FramesSound, NEW w \in Workers,
           \A v \in Workers, i \in Slots : v # w => frame'[v][i] = frame[v][i],
           \A v \in Workers : v # w => unacked'[v] = unacked[v],
           \A k \in Slots : frame'[w][k].pc = "idle" <=> frame'[w][k].job = NoJob,
           \A k \in Slots : frame'[w][k].held => unacked'[w] = frame'[w][k].job,
           \A k \in Slots : frame'[w][k].pc = "idle" => ~frame'[w][k].held,
           \A i, k \in Slots : frame'[w][i].held /\ frame'[w][k].held => i = k
    PROVE  HeldIsUnacked' /\ FramesSound'
  <1>1. HeldIsUnacked'
    BY DEF HeldIsUnacked, At
  <1>2. FramesSound'
    BY DEF FramesSound, At
  <1> QED BY <1>1, <1>2

LEMMA FramesStep ==
    ASSUME TypeOK, FramesSound, RegistrySound, [Next]_vars
    PROVE  frame' \in Frames /\ HeldIsUnacked' /\ FramesSound'
  <1> DEFINE Goal == frame' \in Frames /\ HeldIsUnacked' /\ FramesSound'
  <1>0. HeldIsUnacked /\ frame \in Frames /\ unacked \in [Workers -> Jobs \cup {NoJob}]
    BY HeldTyped, Typed DEF TypeOK
  <1>a. \A w \in Workers, k \in Slots :
           /\ frame[w][k].pc = "idle" <=> frame[w][k].job = NoJob
           /\ frame[w][k].held => unacked[w] = frame[w][k].job
           /\ frame[w][k].pc = "idle" => ~frame[w][k].held
           /\ \A i \in Slots : frame[w][i].held /\ frame[w][k].held => i = k
    BY <1>0 DEF HeldIsUnacked, FramesSound, At
  <1>1. CASE UNCHANGED vars \/ PublishJob \/ \E w \in Workers : Beat(w)
    BY <1>0, <1>1, Elsewhere DEF At, HeldIsUnacked, FramesSound
  <1>2. ASSUME NEW r \in Runs, PublishCancel(r) PROVE Goal
    <2>1. unacked' = unacked
      BY <1>2 DEF PublishCancel, broker
    <2>2. frame' \in Frames /\ \A w \in Workers, k \in Slots :
             /\ SameJob(frame'[w][k], frame[w][k]) /\ frame'[w][k].held = frame[w][k].held
             /\ ~Cancelled(frame[w][k], r) => frame'[w][k] = frame[w][k]
      BY <1>2, CancelFrame
    <2>3. HeldIsUnacked'
      BY <1>a, <2>1, <2>2 DEF At, SameJob, HeldIsUnacked
    <2>4. FramesSound'
      BY <1>a, <2>2 DEF At, SameJob, FramesSound
    <2> QED BY <2>2, <2>3, <2>4
  <1>3. ASSUME NEW w \in Workers, Deliver(w) PROVE Goal
    <2>1. unacked[w] = NoJob /\ unacked' = [unacked EXCEPT ![w] = Head(queue)]
      BY <1>3 DEF Deliver, Hold
    <2>2. Head(queue) \in Jobs /\ Head(queue) # NoJob
      <3>1. queue \in Seq(Jobs) /\ queue # <<>>
        BY <1>3, Typed DEF Deliver
      <3> QED BY <3>1, HeadTailProperties, ConstantsTyped
    <2>3. \A i \in Slots : ~frame[w][i].held
      BY <2>1, HeldTyped
    <2>5. /\ unacked'[w] = Head(queue)
          /\ \A v \in Workers : v # w => unacked'[v] = unacked[v]
      BY <1>0, <2>1
    <2>6. /\ frame' \in Frames
          /\ \A v \in Workers, i \in Slots : v # w => frame'[v][i] = frame[v][i]
      BY <1>3, DeliverFrame
    <2>7. PICK s \in Slots :
             /\ frame'[w][s].pc = "prepare" /\ frame'[w][s].job = Head(queue)
             /\ \A i \in Slots : i # s =>
                   /\ frame'[w][i].pc = frame[w][i].pc /\ frame'[w][i].job = frame[w][i].job
                   /\ frame'[w][i].held = frame[w][i].held
      BY <1>3, DeliverFrame DEF SameJob
    <2>8. \A k \in Slots :
             /\ frame'[w][k].pc = "idle" <=> frame'[w][k].job = NoJob
             /\ frame'[w][k].held => k = s
      BY <1>a, <2>2, <2>3, <2>7
    <2>9. \A k \in Slots : frame'[w][k].held => unacked'[w] = frame'[w][k].job
      BY <2>5, <2>7, <2>8
    <2>10. \A k \in Slots : frame'[w][k].pc = "idle" => ~frame'[w][k].held
      BY <2>7, <2>8
    <2>11. \A i, k \in Slots : frame'[w][i].held /\ frame'[w][k].held => i = k
      BY <2>8
    <2>12. \A k \in Slots : frame'[w][k].pc = "idle" <=> frame'[w][k].job = NoJob
      BY <2>8
    <2> QED BY <1>0, <2>5, <2>6, <2>9, <2>10, <2>11, <2>12, FramesOfOne
  <1>4. ASSUME NEW w \in Workers, Crash(w) PROVE Goal
    <2>1. \A v \in Workers : v # w => unacked'[v] = unacked[v]
      BY <1>0, <1>4 DEF Crash, Requeue
    <2>2. /\ frame' \in Frames
          /\ \A v \in Workers, i \in Slots : v # w => frame'[v][i] = frame[v][i]
          /\ \A i \in Slots : frame'[w][i] = NoFrame
      BY <1>4, CrashFrame
    <2> QED BY <1>0, <2>1, <2>2, NoFrameTyped, FramesOfOne
  <1>5. ASSUME NEW w \in Workers, LoseConnection(w) PROVE Goal
    <2>1. \A v \in Workers : v # w => unacked'[v] = unacked[v]
      BY <1>0, <1>5 DEF LoseConnection, Requeue
    <2>3. /\ frame' \in Frames
          /\ \A v \in Workers, i \in Slots : v # w => frame'[v][i] = frame[v][i]
          /\ \A i \in Slots :
                /\ ~frame'[w][i].held
                /\ frame'[w][i].pc = frame[w][i].pc /\ frame'[w][i].job = frame[w][i].job
      BY <1>5, LoseFrame DEF SameJob
    <2>4. \A k \in Slots : frame'[w][k].pc = "idle" <=> frame'[w][k].job = NoJob
      BY <1>a, <2>3
    <2> QED BY <1>0, <2>1, <2>3, <2>4, FramesOfOne
  <1>6. ASSUME NEW w \in Workers, NEW r \in Runs, OnCancel(w, r) PROVE Goal
    <2>1. unacked' = unacked
      BY <1>6 DEF OnCancel, broker
    <2>2. /\ frame' \in Frames
          /\ \A v \in Workers, i \in Slots : v # w => frame'[v][i] = frame[v][i]
          /\ \A i \in Slots :
                /\ frame'[w][i].pc = frame[w][i].pc /\ frame'[w][i].job = frame[w][i].job
                /\ frame'[w][i].held = frame[w][i].held
                /\ frame'[w][i] = frame[w][i] \/ i = registry[w][r]
      BY <1>6, OnCancelFrame DEF SameJob
    <2>3. \A i \in Slots : i = registry[w][r] => frame[w][i].pc # "idle"
      BY ConstantsTyped DEF RegistrySound, At
    <2> QED BY <1>0, <1>a, <2>1, <2>2, <2>3, FramesOfOne
  <1>7. ASSUME NEW w \in Workers, NEW k \in Slots, Going(w, k) PROVE Goal
    <2>1. unacked' = unacked
      BY <1>7 DEF Going, Start, Launch, AgentEnds, Return, StopBeat, PublishResult, Raise, OutputFails, broker
    <2>2. frame[w][k].pc # "idle" /\ frame'[w][k].pc # "idle"
      BY <1>7, GoingFrame DEF Follows
    <2>3. /\ frame' \in Frames
          /\ \A v \in Workers, i \in Slots : v # w \/ i # k => frame'[v][i] = frame[v][i]
          /\ frame'[w][k].job = frame[w][k].job /\ frame'[w][k].held = frame[w][k].held
      BY <1>7, GoingFrame
    <2> QED BY <1>0, <1>a, <2>1, <2>2, <2>3, FramesOfOne
  <1>8. ASSUME NEW w \in Workers, NEW k \in Slots, Settle(w, k) PROVE Goal
    <2>1. unacked' = IF frame[w][k].held THEN [unacked EXCEPT ![w] = NoJob] ELSE unacked
      BY <1>8 DEF Settle
    <2>2. /\ \A v \in Workers : v # w => unacked'[v] = unacked[v]
          /\ ~frame[w][k].held => unacked' = unacked
      BY <1>0, <2>1
    <2>3. /\ frame' \in Frames /\ frame'[w][k] = NoFrame
          /\ \A v \in Workers, i \in Slots : v # w \/ i # k => frame'[v][i] = frame[v][i]
      BY <1>8, SettleFrame
    <2> QED BY <1>0, <1>a, <2>2, <2>3, NoFrameTyped, FramesOfOne
  <1> QED BY <1>1, <1>2, <1>3, <1>4, <1>5, <1>6, <1>7, <1>8, Steps

-------------------------------------------------------------------------------
(***************************************************************************)
(* Types.                                                                  *)
(***************************************************************************)
LEMMA SpendLess ==
    ASSUME left \in [BudgetOps -> Nat], NEW op \in BudgetOps, op # "any", Spend(op)
    PROVE  /\ left' \in [BudgetOps -> Nat] /\ left'[op] = left[op] - 1
           /\ \A o \in BudgetOps : left'[o] <= left[o]
           /\ \A o \in BudgetOps : o # op /\ o # "any" => left'[o] = left[o]
  <1>1. "any" \in BudgetOps
    BY DEF BudgetOps
  <1>2. left' = [left EXCEPT ![op] = left[op] - 1, !["any"] = left["any"] - 1]
    BY <1>1 DEF Spend
  <1>3. left[op] \in Nat /\ left["any"] \in Nat /\ left[op] > 0 /\ left["any"] > 0
    BY <1>1 DEF Spend
  <1>4. left[op] - 1 \in Nat /\ left["any"] - 1 \in Nat
    BY <1>3
  <1>5. \A o \in BudgetOps : left'[o] = IF o = "any" THEN left["any"] - 1
                                       ELSE IF o = op THEN left[op] - 1 ELSE left[o]
    BY <1>1, <1>2
  <1>6. left' \in [BudgetOps -> Nat]
    BY <1>2, <1>4
  <1>7. \A o \in BudgetOps : left[o] \in Nat
    OBVIOUS
  <1> QED BY <1>3, <1>5, <1>6, <1>7

\* Every step spends from the budget of its kind, or leaves it alone.
LEMMA Spent ==
    ASSUME [Next]_vars
    PROVE  \/ UNCHANGED left
           \/ \E op \in BudgetOps : op # "any" /\ Spend(op)
  <1> DEFINE Goal == UNCHANGED left \/ \E op \in BudgetOps : op # "any" /\ Spend(op)
  <1>1. CASE UNCHANGED vars \/ PublishJob \/ \E w \in Workers : Beat(w)
    BY <1>1, Elsewhere
  <1>2. ASSUME NEW r \in Runs, PublishCancel(r) PROVE Goal
    BY <1>2 DEF PublishCancel, BudgetOps
  <1>3. ASSUME NEW w \in Workers, Deliver(w) PROVE Goal
    BY <1>3 DEF Deliver
  <1>4. ASSUME NEW w \in Workers, Crash(w) \/ LoseConnection(w) PROVE Goal
    BY <1>4 DEF Crash, LoseConnection, BudgetOps
  <1>5. ASSUME NEW w \in Workers, NEW r \in Runs, OnCancel(w, r) PROVE Goal
    BY <1>5 DEF OnCancel
  <1>6. ASSUME NEW w \in Workers, NEW k \in Slots, Going(w, k) PROVE Goal
    BY <1>6 DEF Going, Start, Launch, AgentEnds, Return, StopBeat, PublishResult, Raise, OutputFails, BudgetOps
  <1>7. ASSUME NEW w \in Workers, NEW k \in Slots, Settle(w, k) PROVE Goal
    BY <1>7 DEF Settle
  <1> QED BY <1>1, <1>2, <1>3, <1>4, <1>5, <1>6, <1>7, Steps

LEMMA BudgetStep ==
    ASSUME TypeOK, BudgetsShrink, [Next]_vars
    PROVE  left' \in [BudgetOps -> Nat] /\ BudgetsShrink'
           /\ \A op \in BudgetOps : left'[op] <= left[op]
  <1>1. left \in [BudgetOps -> Nat] /\ \A op \in BudgetOps : Budget[op] \in Nat
    BY BudgetAssumption DEF TypeOK
  <1>2. CASE UNCHANGED left
    BY <1>1, <1>2 DEF BudgetsShrink
  <1>3. ASSUME NEW op \in BudgetOps, op # "any", Spend(op)
        PROVE  left' \in [BudgetOps -> Nat] /\ \A o \in BudgetOps : left'[o] <= left[o]
    BY <1>1, <1>3, SpendLess
  <1>4. left' \in [BudgetOps -> Nat] /\ \A o \in BudgetOps : left'[o] <= left[o]
    BY <1>1, <1>2, <1>3, Spent
  <1> QED BY <1>1, <1>4 DEF BudgetsShrink

BrokerTyped ==
    /\ published \in 0..Len(RunOf)
    /\ queue \in Seq(Jobs)
    /\ unacked \in [Workers -> Jobs \cup {NoJob}]
    /\ answered \subseteq Jobs /\ rejected \subseteq Jobs

LEMMA BrokerTypes ==
    ASSUME TypeOK, [Next]_vars
    PROVE  BrokerTyped'
  <1> USE DEF BrokerTyped
  <1>0. BrokerTyped
    BY DEF TypeOK
  <1>1. CASE UNCHANGED vars
    BY <1>0, <1>1 DEF vars, broker
  <1>2. CASE PublishJob
    <2>1. published + 1 \in Jobs /\ published' = published + 1
      BY <1>0, <1>2, ConstantsTyped DEF PublishJob
    <2>2. Append(queue, published + 1) \in Seq(Jobs)
      BY <1>0, <2>1, AppendProperties
    <2> QED BY <1>0, <1>2, <2>1, <2>2, ConstantsTyped DEF PublishJob
  <1>3. ASSUME NEW r \in Runs, PublishCancel(r) PROVE BrokerTyped'
    BY <1>0, <1>3 DEF PublishCancel, broker
  <1>4. ASSUME NEW w \in Workers, Deliver(w) PROVE BrokerTyped'
    <2>1. queue \in Seq(Jobs) /\ queue # <<>>
      BY <1>0, <1>4 DEF Deliver
    <2>2. Head(queue) \in Jobs /\ Tail(queue) \in Seq(Jobs)
      BY <2>1, HeadTailProperties
    <2> QED BY <1>0, <1>4, <2>2 DEF Deliver, Hold
  <1>5. ASSUME NEW w \in Workers, Beat(w) PROVE BrokerTyped'
    BY <1>0, <1>5 DEF Beat, broker
  <1>6. ASSUME NEW w \in Workers, Crash(w) \/ LoseConnection(w) PROVE BrokerTyped'
    <2>1. Requeue(w)
      BY <1>6 DEF Crash, LoseConnection
    <2>2. CASE unacked[w] = NoJob
      BY <1>0, <2>1, <2>2 DEF Requeue
    <2>3. CASE unacked[w] # NoJob
      <3>1. <<unacked[w]>> \in Seq(Jobs)
        BY <1>0, <2>3
      <3>2. <<unacked[w]>> \o queue \in Seq(Jobs)
        BY <1>0, <3>1, ConcatProperties
      <3> QED BY <1>0, <2>1, <2>3, <3>2 DEF Requeue
    <2> QED BY <2>2, <2>3
  <1>7. ASSUME NEW w \in Workers, NEW r \in Runs, OnCancel(w, r) PROVE BrokerTyped'
    BY <1>0, <1>7 DEF OnCancel, broker
  <1>8. ASSUME NEW w \in Workers, NEW k \in Slots, Going(w, k) PROVE BrokerTyped'
    <2>1. CASE PublishResult(w, k)
      <3>1. frame[w][k].job \in Jobs
        BY <2>1, Typed DEF PublishResult, At
      <3> QED BY <1>0, <2>1, <3>1 DEF PublishResult
    <2>2. CASE ~PublishResult(w, k)
      BY <1>0, <1>8, <2>2 DEF Going, Start, Launch, AgentEnds, Return, StopBeat, Raise, OutputFails, broker
    <2> QED BY <2>1, <2>2
  <1>9. ASSUME NEW w \in Workers, NEW k \in Slots, Settle(w, k) PROVE BrokerTyped'
    <2>1. frame[w][k].job \in Jobs
      BY <1>9, Typed DEF Settle, At
    <2> QED BY <1>0, <1>9, <2>1 DEF Settle
  <1> QED BY <1>1, <1>2, <1>3, <1>4, <1>5, <1>6, <1>7, <1>8, <1>9, Steps

ProcessTyped ==
    /\ cancels \in [Workers -> SUBSET Runs]
    /\ cur \in [Workers -> Runs \cup {NoRun}]
    /\ registry \in [Workers -> [Runs -> Slots \cup {NoOne}]]
    /\ beat \in [Workers -> [step : Jobs \cup {NoJob}, task : BOOLEAN, stray : BOOLEAN]]
    /\ beats \subseteq Jobs /\ unswept \subseteq Jobs

LEMMA RegistryMoves ==
    ASSUME registry \in [Workers -> [Runs -> Slots \cup {NoOne}]],
           NEW w \in Workers, NEW r \in Runs, NEW k \in Slots \cup {NoOne},
           registry' = [registry EXCEPT ![w][r] = k]
    PROVE  /\ registry' \in [Workers -> [Runs -> Slots \cup {NoOne}]]
           /\ registry'[w][r] = k
           /\ \A v \in Workers, q \in Runs : v # w \/ q # r => registry'[v][q] = registry[v][q]
  <1> DEFINE g == [registry[w] EXCEPT ![r] = k]
  <1>1. registry' = [registry EXCEPT ![w] = g]
    OBVIOUS
  <1>2. /\ g \in [Runs -> Slots \cup {NoOne}] /\ g[r] = k
        /\ \A q \in Runs : q # r => g[q] = registry[w][q]
    OBVIOUS
  <1> HIDE DEF g
  <1> QED BY <1>1, <1>2

LEMMA ProcessTypes ==
    ASSUME TypeOK, [Next]_vars
    PROVE  ProcessTyped'
  <1> USE DEF ProcessTyped
  <1>0. ProcessTyped
    BY DEF TypeOK
  <1>1. CASE UNCHANGED vars \/ PublishJob
    BY <1>0, <1>1 DEF vars, process, PublishJob
  <1>2. ASSUME NEW r \in Runs, PublishCancel(r) PROVE ProcessTyped'
    BY <1>0, <1>2 DEF PublishCancel
  <1>3. ASSUME NEW w \in Workers, Deliver(w) PROVE ProcessTyped'
    BY <1>0, <1>3 DEF Deliver
  <1>4. ASSUME NEW w \in Workers, Beat(w) PROVE ProcessTyped'
    <2>1. beat[w] \in [step : Jobs \cup {NoJob}, task : BOOLEAN, stray : BOOLEAN]
      BY <1>0
    <2>2. beat[w].step \in Jobs
      BY <1>4, <2>1 DEF Beat
    <2> QED BY <1>0, <1>4, <2>2 DEF Beat, process
  <1>5. ASSUME NEW w \in Workers, Crash(w) PROVE ProcessTyped'
    BY <1>0, <1>5 DEF Crash, Silent
  <1>6. ASSUME NEW w \in Workers, LoseConnection(w) PROVE ProcessTyped'
    BY <1>0, <1>6 DEF LoseConnection
  <1>7. ASSUME NEW w \in Workers, NEW r \in Runs, OnCancel(w, r) PROVE ProcessTyped'
    <2>1. registry' = registry \/ registry' = [registry EXCEPT ![w][r] = NoOne]
      BY <1>7 DEF OnCancel
    <2>2. registry' \in [Workers -> [Runs -> Slots \cup {NoOne}]]
      BY <1>0, <2>1, RegistryMoves
    <2>3. cancels' \in [Workers -> SUBSET Runs]
      BY <1>0, <1>7 DEF OnCancel
    <2> QED BY <1>0, <1>7, <2>2, <2>3 DEF OnCancel
  <1>8. ASSUME NEW w \in Workers, NEW k \in Slots, Going(w, k) PROVE ProcessTyped'
    <2>1. frame[w][k].job \in Jobs /\ RunAt(w, k) \in Runs
      BY <1>8, Typed, GoingFrame DEF Follows, At
    <2>2. beat[w] \in [step : Jobs \cup {NoJob}, task : BOOLEAN, stray : BOOLEAN]
      BY <1>0
    <2>3. CASE Start(w, k)
      <3>1. [step |-> frame[w][k].job, task |-> TRUE, stray |-> beat[w].stray \/ beat[w].task]
                \in [step : Jobs \cup {NoJob}, task : BOOLEAN, stray : BOOLEAN]
        BY <2>1
      <3> QED BY <1>0, <2>1, <2>3, <3>1 DEF Start
    <2>4. CASE Launch(w, k) \/ AgentEnds(w, k) \/ OutputFails(w, k)
      <3>1. \/ registry' = [registry EXCEPT ![w][RunAt(w, k)] = k]
            \/ registry' = [registry EXCEPT ![w][RunAt(w, k)] = NoOne]
        BY <2>4 DEF Launch, Register, AgentEnds, OutputFails
      <3>2. registry' \in [Workers -> [Runs -> Slots \cup {NoOne}]]
        BY <1>0, <2>1, <3>1, RegistryMoves
      <3> QED BY <1>0, <2>4, <3>2 DEF Launch, AgentEnds, OutputFails
    <2>5. CASE Return(w, k) \/ PublishResult(w, k) \/ Raise(w, k)
      BY <1>0, <2>5 DEF Return, PublishResult, Raise
    <2>6. CASE StopBeat(w, k)
      BY <1>0, <2>2, <2>6 DEF StopBeat, Silence, Unswept
    <2> QED BY <1>8, <2>3, <2>4, <2>5, <2>6 DEF Going
  <1>9. ASSUME NEW w \in Workers, NEW k \in Slots, Settle(w, k) PROVE ProcessTyped'
    BY <1>0, <1>9 DEF Settle
  <1> QED BY <1>1, <1>2, <1>3, <1>4, <1>5, <1>6, <1>7, <1>8, <1>9, Steps

LEMMA TypeStep ==
    ASSUME TypeOK, BudgetsShrink, FramesSound, RegistrySound, [Next]_vars
    PROVE  TypeOK' /\ BudgetsShrink' /\ FramesSound'
  BY FramesStep, BudgetStep, BrokerTypes, ProcessTypes
  DEF TypeOK, HeldIsUnacked, BrokerTyped, ProcessTyped, Frames

-------------------------------------------------------------------------------
(***************************************************************************)
(* What a step makes of any one frame, and of the other workers.           *)
(***************************************************************************)
LEMMA FrameSteps ==
    ASSUME TypeOK, [Next]_vars, NEW w \in Workers, NEW k \in Slots
    PROVE  \/ SameJob(frame'[w][k], frame[w][k])
           \/ /\ Deliver(w) /\ frame[w][k].pc = "idle"
              /\ frame'[w][k].pc = "prepare" /\ frame'[w][k].job = Head(queue)
           \/ frame'[w][k] = NoFrame /\ (Crash(w) \/ Settle(w, k))
           \/ /\ Going(w, k) /\ Follows(w, k, frame[w][k].pc, frame'[w][k].pc)
              /\ frame'[w][k].job = frame[w][k].job
  <1> DEFINE Goal == \/ SameJob(frame'[w][k], frame[w][k])
                     \/ /\ Deliver(w) /\ frame[w][k].pc = "idle"
                        /\ frame'[w][k].pc = "prepare" /\ frame'[w][k].job = Head(queue)
                     \/ frame'[w][k] = NoFrame /\ (Crash(w) \/ Settle(w, k))
                     \/ /\ Going(w, k) /\ Follows(w, k, frame[w][k].pc, frame'[w][k].pc)
                        /\ frame'[w][k].job = frame[w][k].job
  <1>0. frame'[w][k] = frame[w][k] => Goal
    BY DEF SameJob
  <1>1. CASE UNCHANGED vars \/ PublishJob \/ \E v \in Workers : Beat(v)
    BY <1>0, <1>1, Elsewhere
  <1>2. ASSUME NEW r \in Runs, PublishCancel(r) PROVE Goal
    BY <1>2, CancelFrame
  <1>3. ASSUME NEW v \in Workers, Deliver(v) PROVE Goal
    <2>1. CASE v # w
      BY <1>0, <1>3, <2>1, DeliverFrame
    <2>2. CASE v = w
      BY <1>3, <2>2, DeliverFrame DEF At
    <2> QED BY <2>1, <2>2
  <1>4. ASSUME NEW v \in Workers, Crash(v) PROVE Goal
    <2>1. CASE v # w
      BY <1>0, <1>4, <2>1, CrashFrame
    <2>2. CASE v = w
      BY <1>4, <2>2, CrashFrame
    <2> QED BY <2>1, <2>2
  <1>5. ASSUME NEW v \in Workers, LoseConnection(v) PROVE Goal
    <2>1. CASE v # w
      BY <1>0, <1>5, <2>1, LoseFrame
    <2>2. CASE v = w
      BY <1>5, <2>2, LoseFrame
    <2> QED BY <2>1, <2>2
  <1>6. ASSUME NEW v \in Workers, NEW r \in Runs, OnCancel(v, r) PROVE Goal
    <2>1. CASE v # w
      BY <1>0, <1>6, <2>1, OnCancelFrame
    <2>2. CASE v = w
      BY <1>6, <2>2, OnCancelFrame
    <2> QED BY <2>1, <2>2
  <1>7. ASSUME NEW v \in Workers, NEW i \in Slots, Going(v, i) PROVE Goal
    <2>1. CASE v # w \/ i # k
      BY <1>0, <1>7, <2>1, GoingFrame
    <2>2. CASE v = w /\ i = k
      BY <1>7, <2>2, GoingFrame
    <2> QED BY <2>1, <2>2
  <1>8. ASSUME NEW v \in Workers, NEW i \in Slots, Settle(v, i) PROVE Goal
    <2>1. CASE v # w \/ i # k
      BY <1>0, <1>8, <2>1, SettleFrame
    <2>2. CASE v = w /\ i = k
      BY <1>8, <2>2, SettleFrame
    <2> QED BY <2>1, <2>2
  <1> QED BY <1>1, <1>2, <1>3, <1>4, <1>5, <1>6, <1>7, <1>8, Steps

StepOf(w) == \/ Deliver(w) \/ Crash(w) \/ LoseConnection(w)
             \/ \E r \in Runs : OnCancel(w, r)
             \/ \E k \in Slots : Going(w, k) \/ Settle(w, k)

LEMMA Apart ==
    ASSUME TypeOK, NEW v \in Workers, StepOf(v), NEW w \in Workers, w # v
    PROVE  /\ \A k \in Slots : frame'[w][k] = frame[w][k]
           /\ cur'[w] = cur[w] /\ registry'[w] = registry[w] /\ cancels'[w] = cancels[w]
           /\ beat'[w] = beat[w] /\ unacked'[w] = unacked[w]
  <1>1. \A k \in Slots : frame'[w][k] = frame[w][k]
    BY DeliverFrame, CrashFrame, LoseFrame, OnCancelFrame, GoingFrame, SettleFrame DEF StepOf
  <1>0. /\ cur \in [Workers -> Runs \cup {NoRun}] /\ cancels \in [Workers -> SUBSET Runs]
        /\ registry \in [Workers -> [Runs -> Slots \cup {NoOne}]]
        /\ beat \in [Workers -> [step : Jobs \cup {NoJob}, task : BOOLEAN, stray : BOOLEAN]]
        /\ unacked \in [Workers -> Jobs \cup {NoJob}]
    BY DEF TypeOK
  <1> DEFINE Same == /\ cur'[w] = cur[w] /\ registry'[w] = registry[w]
                     /\ cancels'[w] = cancels[w] /\ beat'[w] = beat[w]
                     /\ unacked'[w] = unacked[w]
  <1>2. ASSUME Deliver(v) PROVE Same
    <2>1. /\ unacked' = [unacked EXCEPT ![v] = Head(queue)]
          /\ cur' = cur /\ registry' = registry /\ cancels' = cancels /\ beat' = beat
      BY <1>2 DEF Deliver, Hold
    <2> QED BY <1>0, <2>1
  <1>3. ASSUME Crash(v) \/ LoseConnection(v) PROVE Same
    <2>1. unacked' = [unacked EXCEPT ![v] = NoJob] /\ cancels' = [cancels EXCEPT ![v] = {}]
      BY <1>3 DEF Crash, LoseConnection, Requeue
    <2>2. CASE Crash(v)
      <3>1. /\ cur' = [cur EXCEPT ![v] = NoRun] /\ beat' = [beat EXCEPT ![v] = Silent]
            /\ registry' = [registry EXCEPT ![v] = [r \in Runs |-> NoOne]]
        BY <2>2 DEF Crash
      <3> QED BY <1>0, <2>1, <3>1
    <2>3. CASE LoseConnection(v)
      <3>1. cur' = cur /\ registry' = registry /\ beat' = beat
        BY <2>3 DEF LoseConnection
      <3> QED BY <1>0, <2>1, <3>1
    <2> QED BY <1>3, <2>2, <2>3
  <1>4. ASSUME NEW r \in Runs, OnCancel(v, r) PROVE Same
    BY <1>0, <1>4 DEF OnCancel, broker
  <1>5. ASSUME NEW k \in Slots, Going(v, k) PROVE Same
    <2>1. CASE Start(v, k) \/ Launch(v, k) \/ AgentEnds(v, k) \/ Return(v, k) \/ OutputFails(v, k)
      BY <1>0, <2>1 DEF Start, Launch, Register, AgentEnds, Return, OutputFails, broker
    <2>2. CASE StopBeat(v, k) \/ PublishResult(v, k) \/ Raise(v, k)
      BY <1>0, <2>2 DEF StopBeat, PublishResult, Raise, broker
    <2> QED BY <1>5, <2>1, <2>2 DEF Going
  <1>6. ASSUME NEW k \in Slots, Settle(v, k) PROVE Same
    BY <1>0, <1>6 DEF Settle
  <1> QED BY <1>1, <1>2, <1>3, <1>4, <1>5, <1>6 DEF StepOf

LEMMA AnsweredGrows ==
    ASSUME [Next]_vars
    PROVE  answered \subseteq answered' /\ rejected \subseteq rejected'
  <1> DEFINE Goal == answered \subseteq answered' /\ rejected \subseteq rejected'
  <1>1. CASE UNCHANGED vars \/ PublishJob \/ \E w \in Workers : Beat(w)
    BY <1>1, Elsewhere
  <1>2. ASSUME NEW r \in Runs, PublishCancel(r) PROVE Goal
    BY <1>2 DEF PublishCancel, broker
  <1>3. ASSUME NEW w \in Workers, Deliver(w) \/ Crash(w) \/ LoseConnection(w) PROVE Goal
    BY <1>3 DEF Deliver, Crash, LoseConnection, Requeue
  <1>4. ASSUME NEW w \in Workers, NEW r \in Runs, OnCancel(w, r) PROVE Goal
    BY <1>4 DEF OnCancel, broker
  <1>5. ASSUME NEW w \in Workers, NEW k \in Slots, Going(w, k) PROVE Goal
    BY <1>5 DEF Going, Start, Launch, AgentEnds, Return, StopBeat, PublishResult, Raise, OutputFails, broker
  <1>6. ASSUME NEW w \in Workers, NEW k \in Slots, Settle(w, k) PROVE Goal
    BY <1>6 DEF Settle
  <1> QED BY <1>1, <1>2, <1>3, <1>4, <1>5, <1>6, Steps

LEMMA AckedStep ==
    ASSUME TypeOK, AckedAnswered, [Next]_vars
    PROVE  AckedAnswered'
  <1> SUFFICES ASSUME NEW w \in Workers, NEW k \in Slots, frame'[w][k].pc = "ack"
               PROVE  frame'[w][k].job \in answered'
    BY DEF AckedAnswered, At
  <1>1. CASE SameJob(frame'[w][k], frame[w][k])
    BY <1>1, AnsweredGrows DEF AckedAnswered, At, SameJob
  <1>2. CASE Going(w, k) /\ Follows(w, k, frame[w][k].pc, frame'[w][k].pc)
             /\ frame'[w][k].job = frame[w][k].job
    <2>1. PublishResult(w, k)
      BY <1>2 DEF Follows
    <2> QED BY <1>2, <2>1 DEF PublishResult
  <1> QED BY <1>1, <1>2, FrameSteps, NoFrameTyped

-------------------------------------------------------------------------------
(***************************************************************************)
(* The registry, the coroutine that is alone, and its cancellation.        *)
(***************************************************************************)
LEMMA RegistryStep ==
    ASSUME TypeOK, RegistrySound, [Next]_vars
    PROVE  RegistrySound'
  <1> DEFINE Same(w) == registry'[w] = registry[w]
             Good(w) == \A r \in Runs : registry'[w][r] # NoOne =>
                            /\ frame'[w][registry'[w][r]].pc = "agent"
                            /\ RunOf[frame'[w][registry'[w][r]].job] = r
  <1>0. /\ registry \in [Workers -> [Runs -> Slots \cup {NoOne}]]
        /\ \A w \in Workers, r \in Runs : registry[w][r] # NoOne =>
              /\ registry[w][r] \in Slots /\ frame[w][registry[w][r]].pc = "agent"
              /\ RunOf[frame[w][registry[w][r]].job] = r
    BY DEF TypeOK, RegistrySound, At, RunAt
  <1>s. ASSUME NEW w \in Workers, Same(w),
               \A k \in Slots : frame[w][k].pc = "agent" =>
                  frame'[w][k].pc = "agent" /\ frame'[w][k].job = frame[w][k].job
        PROVE  Good(w)
    BY <1>0, <1>s
  <1>1. ASSUME NEW v \in Workers, StepOf(v), NEW w \in Workers, w # v PROVE Good(w)
    BY <1>1, <1>s, Apart
  <1>2. ASSUME UNCHANGED registry, NEW w \in Workers,
               \A k \in Slots : SameJob(frame'[w][k], frame[w][k])
        PROVE  Good(w)
    BY <1>2, <1>s DEF SameJob
  <1>3. ASSUME UNCHANGED vars \/ PublishJob \/ \E v \in Workers : Beat(v), NEW w \in Workers PROVE Good(w)
    BY <1>2, <1>3, Elsewhere DEF SameJob
  <1>4. ASSUME NEW r \in Runs, PublishCancel(r), NEW w \in Workers PROVE Good(w)
    <2>1. registry' = registry
      BY <1>4 DEF PublishCancel
    <2> QED BY <1>2, <1>4, <2>1, CancelFrame
  <1>5. ASSUME NEW w \in Workers, Deliver(w) PROVE Good(w)
    <2>1. registry' = registry
      BY <1>5 DEF Deliver
    <2>2. \A k \in Slots : frame[w][k].pc = "agent" =>
             frame'[w][k].pc = "agent" /\ frame'[w][k].job = frame[w][k].job
      BY <1>5, DeliverFrame DEF At, SameJob
    <2> QED BY <1>s, <2>1, <2>2
  <1>6. ASSUME NEW w \in Workers, Crash(w) PROVE Good(w)
    <2>1. registry'[w] = [r \in Runs |-> NoOne]
      BY <1>0, <1>6 DEF Crash
    <2> QED BY <2>1
  <1>7. ASSUME NEW w \in Workers, LoseConnection(w) PROVE Good(w)
    <2>1. registry' = registry
      BY <1>7 DEF LoseConnection
    <2> QED BY <1>2, <1>7, <2>1, LoseFrame
  <1>8. ASSUME NEW w \in Workers, NEW r \in Runs, OnCancel(w, r) PROVE Good(w)
    <2>1. \A k \in Slots : SameJob(frame'[w][k], frame[w][k])
      BY <1>8, OnCancelFrame
    <2>2. registry' = registry \/ registry' = [registry EXCEPT ![w][r] = NoOne]
      BY <1>8 DEF OnCancel
    <2>3. CASE registry' = registry
      BY <1>2, <2>1, <2>3
    <2>4. CASE registry' = [registry EXCEPT ![w][r] = NoOne]
      <3>1. \A q \in Runs : registry'[w][q] = IF q = r THEN NoOne ELSE registry[w][q]
        BY <1>0, <2>4, RegistryMoves
      <3> QED BY <1>0, <2>1, <3>1 DEF SameJob
    <2> QED BY <2>2, <2>3, <2>4
  <1>9. ASSUME NEW w \in Workers, NEW k \in Slots, Going(w, k) PROVE Good(w)
    <2>1. /\ \A i \in Slots : i # k => frame'[w][i] = frame[w][i]
          /\ Follows(w, k, frame[w][k].pc, frame'[w][k].pc)
          /\ frame'[w][k].job = frame[w][k].job
      BY <1>9, GoingFrame
    <2>2. RunOf[frame[w][k].job] = RunAt(w, k) /\ RunAt(w, k) \in Runs
      BY <2>1, Typed DEF Follows, At, RunAt
    <2>3. CASE Launch(w, k)
      <3>1. \A q \in Runs : registry'[w][q] = IF q = RunAt(w, k) THEN k ELSE registry[w][q]
        BY <1>0, <2>2, <2>3, RegistryMoves DEF Launch, Register
      <3>2. frame[w][k].pc = "execute" /\ frame'[w][k].pc = "agent"
        BY <2>3, GotoFrame DEF Launch, At
      <3> QED BY <1>0, <2>1, <2>2, <3>1, <3>2
    <2>4. CASE AgentEnds(w, k) \/ OutputFails(w, k)
      <3>1. \A q \in Runs : registry'[w][q] = IF q = RunAt(w, k) THEN NoOne ELSE registry[w][q]
        BY <1>0, <2>2, <2>4, RegistryMoves DEF AgentEnds, OutputFails
      <3> QED BY <1>0, <2>1, <2>2, <3>1
    <2>5. CASE ~Launch(w, k) /\ ~AgentEnds(w, k) /\ ~OutputFails(w, k)
      <3>1. registry' = registry
        BY <1>9, <2>5 DEF Going, Start, Return, StopBeat, PublishResult, Raise
      <3>2. frame[w][k].pc # "agent"
        BY <2>1, <2>5 DEF Follows
      <3> QED BY <1>s, <2>1, <3>1, <3>2
    <2> QED BY <2>3, <2>4, <2>5
  <1>10. ASSUME NEW w \in Workers, NEW k \in Slots, Settle(w, k) PROVE Good(w)
    <2>1. registry' = registry /\ frame[w][k].pc # "agent"
      BY <1>10 DEF Settle, At
    <2>2. \A i \in Slots : i # k => frame'[w][i] = frame[w][i]
      BY <1>10, SettleFrame
    <2> QED BY <1>s, <2>1, <2>2
  <1>11. \A w \in Workers : Good(w)
    <2>1. ASSUME NEW w \in Workers, NEW v \in Workers, StepOf(v) PROVE Good(w)
      <3>1. CASE v # w
        BY <1>1, <2>1, <3>1
      <3>2. CASE v = w
        BY <2>1, <3>2, <1>5, <1>6, <1>7, <1>8, <1>9, <1>10 DEF StepOf
      <3> QED BY <3>1, <3>2
    <2>2. \/ \E v \in Workers : StepOf(v)
          \/ \E r \in Runs : PublishCancel(r)
          \/ UNCHANGED vars \/ PublishJob \/ \E v \in Workers : Beat(v)
      BY Steps DEF StepOf
    <2> QED BY <1>3, <1>4, <2>1, <2>2
  <1> QED BY <1>11 DEF RegistrySound, At, RunAt

\* AloneIsKnown, spelt out for one worker.
LEMMA AloneSpelt ==
    AloneIsKnown <=> \A w \in Workers, k \in Slots :
        LET f == frame[w][k] IN
        /\ f.alone => \A i \in Slots : frame[w][i].pc # "idle" <=> i = k
        /\ f.alone /\ f.pc \in {"execute", "agent", "finish"} => cur[w] = RunOf[f.job]
        /\ f.alone /\ f.pc = "agent" /\ ~f.killed => registry[w][RunOf[f.job]] = k
        /\ f.doomed /\ ~f.astray => f.pc = "agent" /\ ~f.killed
  <1>1. \A w \in Workers, k \in Slots :
           Busy(w) = {k} <=> \A i \in Slots : frame[w][i].pc # "idle" <=> i = k
    BY DEF Busy, At
  <1> QED BY <1>1 DEF AloneIsKnown, At, RunAt

LEMMA AloneStep ==
    ASSUME TypeOK, RegistrySound, AloneIsKnown, [Next]_vars
    PROVE  AloneIsKnown'
  <1> DEFINE Good(w) == \A k \in Slots :
               LET f == frame'[w][k] IN
               /\ f.alone => \A i \in Slots : frame'[w][i].pc # "idle" <=> i = k
               /\ f.alone /\ f.pc \in {"execute", "agent", "finish"} => cur'[w] = RunOf[f.job]
               /\ f.alone /\ f.pc = "agent" /\ ~f.killed => registry'[w][RunOf[f.job]] = k
               /\ f.doomed /\ ~f.astray => f.pc = "agent" /\ ~f.killed
  <1>0. \A w \in Workers, k \in Slots :
           LET f == frame[w][k] IN
           /\ f.alone => \A i \in Slots : frame[w][i].pc # "idle" <=> i = k
           /\ f.alone /\ f.pc \in {"execute", "agent", "finish"} => cur[w] = RunOf[f.job]
           /\ f.alone /\ f.pc = "agent" /\ ~f.killed => registry[w][RunOf[f.job]] = k
           /\ f.doomed /\ ~f.astray => f.pc = "agent" /\ ~f.killed
    BY AloneSpelt
  <1>t. /\ cur \in [Workers -> Runs \cup {NoRun}]
        /\ registry \in [Workers -> [Runs -> Slots \cup {NoOne}]]
    BY DEF TypeOK
  <1>s. ASSUME NEW w \in Workers, \A k \in Slots : frame'[w][k] = frame[w][k],
               cur'[w] = cur[w], registry'[w] = registry[w]
        PROVE  Good(w)
    BY <1>0, <1>s
  <1>1. ASSUME NEW v \in Workers, StepOf(v), NEW w \in Workers, w # v PROVE Good(w)
    BY <1>1, <1>s, Apart
  <1>2. ASSUME UNCHANGED vars \/ PublishJob \/ \E v \in Workers : Beat(v), NEW w \in Workers PROVE Good(w)
    BY <1>2, <1>s, Elsewhere
  <1>3. ASSUME NEW r \in Runs, PublishCancel(r), NEW w \in Workers PROVE Good(w)
    <2>1. cur' = cur /\ registry' = registry
      BY <1>3 DEF PublishCancel
    <2>2. \A k \in Slots :
             /\ frame'[w][k].pc = frame[w][k].pc /\ frame'[w][k].job = frame[w][k].job
             /\ frame'[w][k].alone = frame[w][k].alone /\ frame'[w][k].killed = frame[w][k].killed
             /\ frame'[w][k].astray = frame[w][k].astray
             /\ \/ frame'[w][k] = frame[w][k] \/ frame[w][k].astray
                \/ frame[w][k].pc = "agent" /\ ~frame[w][k].killed
      BY <1>3, CancelFrame DEF SameJob, Cancelled
    <2> QED BY <1>0, <2>1, <2>2
  <1>4. ASSUME NEW w \in Workers, Deliver(w) PROVE Good(w)
    <2>1. PICK s \in Slots :
             /\ frame[w][s].pc = "idle"
             /\ frame'[w][s].pc = "prepare" /\ ~frame'[w][s].doomed
             /\ frame'[w][s].alone = (Busy(w) = {})
             /\ \A i \in Slots : i # s =>
                   /\ frame'[w][i].pc = frame[w][i].pc /\ ~frame'[w][i].alone
                   /\ frame'[w][i].doomed = frame[w][i].doomed
                   /\ frame'[w][i].killed = frame[w][i].killed
                   /\ frame'[w][i].astray = frame[w][i].astray
      BY <1>4, DeliverFrame DEF SameJob, At
    <2>2. ASSUME frame'[w][s].alone PROVE \A i \in Slots : frame'[w][i].pc # "idle" <=> i = s
      <3>1. Busy(w) = {}
        BY <2>1, <2>2
      <3>2. \A i \in Slots : frame[w][i].pc = "idle"
        BY <3>1 DEF Busy, At
      <3> QED BY <2>1, <3>2
    <2> QED BY <1>0, <2>1, <2>2
  <1>5. ASSUME NEW w \in Workers, Crash(w) PROVE Good(w)
    BY <1>5, CrashFrame, NoFrameTyped
  <1>6. ASSUME NEW w \in Workers, LoseConnection(w) PROVE Good(w)
    <2>1. cur' = cur /\ registry' = registry
      BY <1>6 DEF LoseConnection
    <2>2. \A k \in Slots :
             /\ frame'[w][k].pc = frame[w][k].pc /\ frame'[w][k].job = frame[w][k].job
             /\ frame'[w][k].alone = frame[w][k].alone /\ frame'[w][k].killed = frame[w][k].killed
             /\ frame'[w][k].doomed = frame[w][k].doomed
             /\ frame'[w][k].astray = frame[w][k].astray
      BY <1>6, LoseFrame DEF SameJob
    <2> QED BY <1>0, <2>1, <2>2
  <1>7. ASSUME NEW w \in Workers, NEW r \in Runs, OnCancel(w, r) PROVE Good(w)
    <2> DEFINE e == registry[w][r]
    <2>1. cur' = cur
      BY <1>7 DEF OnCancel
    <2>2. \A k \in Slots :
             /\ frame'[w][k].pc = frame[w][k].pc /\ frame'[w][k].job = frame[w][k].job
             /\ frame'[w][k].alone = frame[w][k].alone
             /\ frame'[w][k] = frame[w][k] \/ (k = e /\ ~frame'[w][k].doomed)
      BY <1>7, OnCancelFrame DEF SameJob
    <2>3. CASE registry' = registry /\ frame' = frame
      BY <1>s, <2>1, <2>3
    <2>4. CASE /\ e # NoOne /\ registry' = [registry EXCEPT ![w][r] = NoOne]
               /\ frame'[w][e].killed
      <3>1. \A q \in Runs : q # r => registry'[w][q] = registry[w][q]
        BY <1>t, <2>4, RegistryMoves
      <3>2. ASSUME NEW k \in Slots, frame'[w][k].alone, frame'[w][k].pc = "agent",
                   ~frame'[w][k].killed
            PROVE  registry'[w][RunOf[frame'[w][k].job]] = k
        <4>1. k # e /\ frame'[w][k] = frame[w][k]
          BY <2>2, <2>4, <3>2
        <4>2. registry[w][RunOf[frame[w][k].job]] = k
          BY <1>0, <3>2, <4>1
        <4>3. RunOf[frame[w][k].job] \in Runs /\ RunOf[frame[w][k].job] # r
          BY <3>2, <4>1, <4>2, Typed DEF RunAt, At
        <4> QED BY <3>1, <4>1, <4>2, <4>3
      <3> QED BY <1>0, <2>1, <2>2, <3>2
    <2> QED BY <1>7, <2>3, <2>4, OnCancelFrame
  <1>8. ASSUME NEW w \in Workers, NEW k \in Slots, Going(w, k) PROVE Good(w)
    <2>1. /\ \A i \in Slots : i # k => frame'[w][i] = frame[w][i]
          /\ Follows(w, k, frame[w][k].pc, frame'[w][k].pc)
          /\ frame'[w][k].job = frame[w][k].job /\ frame'[w][k].alone = frame[w][k].alone
          /\ ~AgentEnds(w, k) => frame'[w][k].doomed = frame[w][k].doomed
          /\ AgentEnds(w, k) => ~frame'[w][k].doomed
          /\ ~OutputFails(w, k) => frame'[w][k].astray = frame[w][k].astray
          /\ OutputFails(w, k) => frame'[w][k].astray
      BY <1>8, GoingFrame
    <2>2. frame[w][k].pc # "idle" /\ frame'[w][k].pc # "idle"
      BY <2>1 DEF Follows
    <2>3. \A i \in Slots : i # k => ~frame[w][i].alone
      BY <1>0, <2>2
    <2>4. ~frame'[w][k].doomed \/ frame'[w][k].astray
      <3>1. CASE AgentEnds(w, k) \/ OutputFails(w, k)
        BY <2>1, <3>1
      <3>2. CASE ~AgentEnds(w, k) /\ ~OutputFails(w, k)
        <4>1. frame[w][k].pc # "agent"
          BY <2>1, <3>2 DEF Follows
        <4> QED BY <1>0, <2>1, <3>2, <4>1
      <3> QED BY <3>1, <3>2
    <2>5. RunOf[frame[w][k].job] = RunAt(w, k) /\ RunAt(w, k) \in Runs
      BY <2>2, Typed DEF At, RunAt
    <2>6. frame'[w][k].alone /\ frame'[w][k].pc \in {"execute", "agent", "finish"} =>
             cur'[w] = RunOf[frame'[w][k].job]
      <3>1. CASE Start(w, k)
        BY <1>t, <2>1, <2>5, <3>1 DEF Start
      <3>2. CASE Launch(w, k) \/ AgentEnds(w, k) \/ OutputFails(w, k)
        <4>1. cur' = cur /\ frame[w][k].pc \in {"execute", "agent"}
          BY <3>2 DEF Launch, AgentEnds, OutputFails, At
        <4>2. frame[w][k].alone => cur[w] = RunOf[frame[w][k].job]
          BY <1>0, <4>1
        <4>3. frame'[w][k].job = frame[w][k].job /\ frame'[w][k].alone = frame[w][k].alone
          BY <2>1
        <4> QED BY <4>1, <4>2, <4>3
      <3>3. CASE ~Start(w, k) /\ ~Launch(w, k) /\ ~AgentEnds(w, k) /\ ~OutputFails(w, k)
        BY <2>1, <3>3 DEF Follows
      <3> QED BY <3>1, <3>2, <3>3
    <2>7. frame'[w][k].pc = "agent" => registry'[w][RunOf[frame'[w][k].job]] = k
      <3>1. ASSUME frame'[w][k].pc = "agent" PROVE Launch(w, k)
        BY <2>1, <3>1 DEF Follows
      <3>2. CASE Launch(w, k)
        BY <1>t, <2>1, <2>5, <3>2, RegistryMoves DEF Launch, Register
      <3> QED BY <3>1, <3>2
    <2> QED BY <1>0, <2>1, <2>2, <2>3, <2>4, <2>6, <2>7
  <1>9. ASSUME NEW w \in Workers, NEW k \in Slots, Settle(w, k) PROVE Good(w)
    <2>1. cur' = cur /\ registry' = registry /\ frame[w][k].pc # "idle"
      BY <1>9 DEF Settle, At
    <2>2. frame'[w][k] = NoFrame /\ \A i \in Slots : i # k => frame'[w][i] = frame[w][i]
      BY <1>9, SettleFrame
    <2>3. \A i \in Slots : i # k => ~frame[w][i].alone
      BY <1>0, <2>1
    <2> QED BY <1>0, <2>1, <2>2, <2>3, NoFrameTyped
  <1>10. \A w \in Workers : Good(w)
    <2>1. ASSUME NEW w \in Workers, NEW v \in Workers, StepOf(v) PROVE Good(w)
      <3>1. CASE v # w
        BY <1>1, <2>1, <3>1
      <3>2. CASE v = w
        BY <2>1, <3>2, <1>4, <1>5, <1>6, <1>7, <1>8, <1>9 DEF StepOf
      <3> QED BY <3>1, <3>2
    <2>2. \/ \E v \in Workers : StepOf(v)
          \/ \E r \in Runs : PublishCancel(r)
          \/ UNCHANGED vars \/ PublishJob \/ \E v \in Workers : Beat(v)
      BY Steps DEF StepOf
    <2> QED BY <1>2, <1>3, <2>1, <2>2
  <1>11. AloneIsKnown' <=> \A w \in Workers : Good(w)
    <2>1. \A w \in Workers, k \in Slots :
             Busy(w)' = {k} <=> \A i \in Slots : frame'[w][i].pc # "idle" <=> i = k
      BY DEF Busy, At
    <2> QED BY <2>1 DEF AloneIsKnown, At, RunAt
  <1> QED BY <1>10, <1>11

LEMMA CancelStep ==
    ASSUME TypeOK, RegistrySound, AloneIsKnown, CancelReachesAgents, [Next]_vars
    PROVE  CancelReachesAgents'
  <1> DEFINE Good(w) == \A k \in Slots :
               LET f == frame'[w][k] IN
               f.doomed /\ f.held /\ f.alone /\ ~f.astray => RunOf[f.job] \in cancels'[w]
  <1>0. /\ \A w \in Workers, k \in Slots :
              LET f == frame[w][k] IN
              f.doomed /\ f.held /\ f.alone /\ ~f.astray => RunOf[f.job] \in cancels[w]
        /\ cancels \in [Workers -> SUBSET Runs]
    BY DEF CancelReachesAgents, TypeOK
  <1>s. ASSUME NEW w \in Workers, \A k \in Slots : frame'[w][k] = frame[w][k],
               cancels'[w] = cancels[w]
        PROVE  Good(w)
    BY <1>0, <1>s
  <1>1. ASSUME NEW v \in Workers, StepOf(v), NEW w \in Workers, w # v PROVE Good(w)
    BY <1>1, <1>s, Apart
  <1>2. ASSUME UNCHANGED vars \/ PublishJob \/ \E v \in Workers : Beat(v), NEW w \in Workers PROVE Good(w)
    BY <1>2, <1>s, Elsewhere
  <1>3. ASSUME NEW r \in Runs, PublishCancel(r), NEW w \in Workers PROVE Good(w)
    <2>1. cancels'[w] = cancels[w] \cup {r}
      BY <1>3 DEF PublishCancel
    <2>2. \A k \in Slots :
             /\ frame'[w][k].job = frame[w][k].job
             /\ frame'[w][k] = frame[w][k] \/ RunOf[frame[w][k].job] = r
      BY <1>3, CancelFrame DEF SameJob, Cancelled
    <2> QED BY <1>0, <2>1, <2>2
  <1>4. ASSUME NEW w \in Workers, Deliver(w) PROVE Good(w)
    <2>1. \A k \in Slots : ~frame'[w][k].doomed \/ ~frame'[w][k].alone
      BY <1>4, DeliverFrame
    <2> QED BY <2>1
  <1>5. ASSUME NEW w \in Workers, Crash(w) PROVE Good(w)
    BY <1>5, CrashFrame, NoFrameTyped
  <1>6. ASSUME NEW w \in Workers, LoseConnection(w) PROVE Good(w)
    BY <1>6, LoseFrame
  <1>7. ASSUME NEW w \in Workers, NEW r \in Runs, OnCancel(w, r) PROVE Good(w)
    <2> DEFINE e == registry[w][r]
    <2>1. cancels'[w] = cancels[w] \ {r}
      BY <1>0, <1>7 DEF OnCancel
    <2>2. \A k \in Slots :
             /\ frame'[w][k].job = frame[w][k].job
             /\ frame'[w][k] = frame[w][k] \/ (k = e /\ ~frame'[w][k].doomed)
      BY <1>7, OnCancelFrame DEF SameJob
    <2>3. ASSUME NEW k \in Slots, frame'[w][k].doomed, frame'[w][k].held, frame'[w][k].alone,
                 ~frame'[w][k].astray
          PROVE  RunOf[frame'[w][k].job] \in cancels'[w]
      <3>1. /\ frame'[w][k] = frame[w][k]
            /\ frame[w][k].doomed /\ frame[w][k].held /\ frame[w][k].alone
            /\ ~frame[w][k].astray
        BY <2>2, <2>3
      <3>2. RunOf[frame[w][k].job] \in cancels[w]
        BY <1>0, <3>1
      <3>3. /\ frame[w][k].pc = "agent" /\ ~frame[w][k].killed
            /\ cur[w] = RunOf[frame[w][k].job] /\ registry[w][RunOf[frame[w][k].job]] = k
        BY <3>1, AloneSpelt
      <3>4. RunOf[frame[w][k].job] # r
        <4>1. SUFFICES ASSUME RunOf[frame[w][k].job] = r PROVE FALSE
          OBVIOUS
        <4>2. cur[w] = r /\ e = k /\ e # NoOne
          BY <3>3, <4>1, ConstantsTyped
        <4>3. ~frame'[w][e].doomed
          BY <1>7, <4>2, OnCancelFrame
        <4> QED BY <2>3, <4>2, <4>3
      <3> QED BY <2>1, <3>1, <3>2, <3>4
    <2> QED BY <2>3
  <1>8. ASSUME NEW w \in Workers, NEW k \in Slots, Going(w, k) PROVE Good(w)
    <2>1. cancels' = cancels
      BY <1>8 DEF Going, Start, Launch, AgentEnds, Return, StopBeat, PublishResult, Raise, OutputFails
    <2>2. /\ \A i \in Slots : i # k => frame'[w][i] = frame[w][i]
          /\ frame'[w][k].job = frame[w][k].job /\ frame'[w][k].alone = frame[w][k].alone
          /\ frame'[w][k].held = frame[w][k].held
          /\ ~frame'[w][k].doomed \/ frame'[w][k].doomed = frame[w][k].doomed
          /\ frame'[w][k].astray \/ frame'[w][k].astray = frame[w][k].astray
      BY <1>8, GoingFrame
    <2> QED BY <1>0, <2>1, <2>2
  <1>9. ASSUME NEW w \in Workers, NEW k \in Slots, Settle(w, k) PROVE Good(w)
    <2>1. cancels' = cancels
      BY <1>9 DEF Settle
    <2>2. frame'[w][k] = NoFrame /\ \A i \in Slots : i # k => frame'[w][i] = frame[w][i]
      BY <1>9, SettleFrame
    <2> QED BY <1>0, <2>1, <2>2, NoFrameTyped
  <1>10. \A w \in Workers : Good(w)
    <2>1. ASSUME NEW w \in Workers, NEW v \in Workers, StepOf(v) PROVE Good(w)
      <3>1. CASE v # w
        BY <1>1, <2>1, <3>1
      <3>2. CASE v = w
        BY <2>1, <3>2, <1>4, <1>5, <1>6, <1>7, <1>8, <1>9 DEF StepOf
      <3> QED BY <3>1, <3>2
    <2>2. \/ \E v \in Workers : StepOf(v)
          \/ \E r \in Runs : PublishCancel(r)
          \/ UNCHANGED vars \/ PublishJob \/ \E v \in Workers : Beat(v)
      BY Steps DEF StepOf
    <2> QED BY <1>2, <1>3, <2>1, <2>2
  <1> QED BY <1>10 DEF CancelReachesAgents

-------------------------------------------------------------------------------
(***************************************************************************)
(* Messages: what the broker's steps make of the queue.                    *)
(***************************************************************************)
Requeued(w) == Crash(w) \/ LoseConnection(w)

\* The steps that do not touch queue, published and unacked.
BrokerAlone == published' = published /\ queue' = queue /\ unacked' = unacked

LEMMA BrokerSteps ==
    ASSUME [Next]_vars
    PROVE  \/ BrokerAlone
           \/ PublishJob
           \/ \E w \in Workers : Deliver(w) \/ Requeued(w) \/ \E k \in Slots : Settle(w, k)
  <1> DEFINE Goal == \/ BrokerAlone \/ PublishJob
                     \/ \E w \in Workers : Deliver(w) \/ Requeued(w) \/ \E k \in Slots : Settle(w, k)
  <1>1. CASE UNCHANGED vars
    BY <1>1 DEF vars, broker, BrokerAlone
  <1>2. ASSUME NEW r \in Runs, PublishCancel(r) PROVE Goal
    BY <1>2 DEF PublishCancel, broker, BrokerAlone
  <1>3. ASSUME NEW w \in Workers, Beat(w) PROVE Goal
    BY <1>3 DEF Beat, broker, BrokerAlone
  <1>4. ASSUME NEW w \in Workers, NEW r \in Runs, OnCancel(w, r) PROVE Goal
    BY <1>4 DEF OnCancel, broker, BrokerAlone
  <1>5. ASSUME NEW w \in Workers, NEW k \in Slots, Going(w, k) PROVE Goal
    BY <1>5 DEF Going, Start, Launch, AgentEnds, Return, StopBeat, PublishResult, Raise, OutputFails, broker,
                BrokerAlone
  <1> QED BY <1>1, <1>2, <1>3, <1>4, <1>5, Steps DEF Requeued

LEMMA PublishedQueue ==
    ASSUME TypeOK, PublishJob
    PROVE  /\ published' = published + 1 /\ unacked' = unacked
           /\ Len(queue') = Len(queue) + 1
           /\ \A i \in 1..Len(queue) : queue'[i] = queue[i]
           /\ queue'[Len(queue) + 1] = published + 1
  <1>1. published + 1 \in Jobs
    BY ConstantsTyped, Typed DEF PublishJob
  <1> QED BY <1>1, Typed, AppendProperties DEF PublishJob

LEMMA DeliveredQueue ==
    ASSUME TypeOK, NEW w \in Workers, Deliver(w)
    PROVE  /\ published' = published /\ unacked[w] = NoJob
           /\ Len(queue) \in Nat /\ Len(queue) >= 1 /\ Len(queue') = Len(queue) - 1
           /\ \A i \in 1..Len(queue') : queue'[i] = queue[i + 1]
           /\ unacked'[w] = queue[1] /\ queue[1] \in Jobs
           /\ \A v \in Workers : v # w => unacked'[v] = unacked[v]
  <1>1. queue \in Seq(Jobs) /\ queue # <<>> /\ queue' = Tail(queue)
        /\ unacked' = [unacked EXCEPT ![w] = Head(queue)] /\ unacked[w] = NoJob
        /\ published' = published
    BY Typed DEF Deliver, Hold
  <1>2. Len(queue) \in Nat /\ Len(queue) >= 1
    BY <1>1, EmptySeq
  <1>3. /\ Head(queue) \in Jobs /\ Head(queue) = queue[1] /\ Len(queue') = Len(queue) - 1
        /\ \A i \in 1..Len(queue') : queue'[i] = queue[i + 1]
    BY <1>1, HeadTailProperties
  <1>4. unacked \in [Workers -> Jobs \cup {NoJob}]
    BY DEF TypeOK
  <1> QED BY <1>1, <1>2, <1>3, <1>4

LEMMA RequeuedQueue ==
    ASSUME TypeOK, NEW w \in Workers, Requeued(w)
    PROVE  /\ published' = published /\ unacked'[w] = NoJob
           /\ \A v \in Workers : v # w => unacked'[v] = unacked[v]
           /\ \/ unacked[w] = NoJob /\ queue' = queue
              \/ /\ unacked[w] # NoJob /\ Len(queue') = Len(queue) + 1
                 /\ queue'[1] = unacked[w]
                 /\ \A i \in 2..Len(queue') : queue'[i] = queue[i - 1]
  <1>1. Requeue(w) /\ unacked \in [Workers -> Jobs \cup {NoJob}]
    BY DEF Requeued, Crash, LoseConnection, TypeOK
  <1>2. /\ published' = published /\ unacked'[w] = NoJob
        /\ \A v \in Workers : v # w => unacked'[v] = unacked[v]
    BY <1>1 DEF Requeue
  <1>3. CASE unacked[w] = NoJob
    BY <1>1, <1>2, <1>3 DEF Requeue
  <1>4. CASE unacked[w] # NoJob
    <2> DEFINE one == <<unacked[w]>>
    <2>1. one \in Seq(Jobs) /\ Len(one) = 1 /\ one[1] = unacked[w]
      BY <1>1, <1>4
    <2>2. queue' = one \o queue /\ queue \in Seq(Jobs) /\ Len(queue) \in Nat
      BY <1>1, <1>4, Typed DEF Requeue
    <2> HIDE DEF one
    <2>3. /\ Len(queue') = 1 + Len(queue)
          /\ \A i \in 1..(1 + Len(queue)) : queue'[i] = IF i <= 1 THEN one[i] ELSE queue[i - 1]
      <3>1. /\ Len(one \o queue) = Len(one) + Len(queue)
            /\ \A i \in 1..(Len(one) + Len(queue)) : (one \o queue)[i] =
                    IF i <= Len(one) THEN one[i] ELSE queue[i - Len(one)]
        BY <2>1, <2>2, ConcatProperties
      <3> QED BY <2>1, <2>2, <3>1
    <2> QED BY <1>2, <1>4, <2>1, <2>2, <2>3
  <1> QED BY <1>3, <1>4

LEMMA SettledQueue ==
    ASSUME TypeOK, NEW w \in Workers, NEW k \in Slots, Settle(w, k)
    PROVE  /\ published' = published /\ queue' = queue
           /\ \A v \in Workers : v # w => unacked'[v] = unacked[v]
           /\ \/ ~frame[w][k].held /\ unacked' = unacked
              \/ /\ frame[w][k].held /\ unacked'[w] = NoJob
                 /\ unacked[w] = frame[w][k].job
                 /\ At(w, k, "reject") => frame[w][k].job \in rejected'
  <1>1. unacked \in [Workers -> Jobs \cup {NoJob}] /\ (frame[w][k].held => unacked[w] = frame[w][k].job)
    BY DEF TypeOK
  <1> QED BY <1>1 DEF Settle

LEMMA MessagesStep ==
    ASSUME TypeOK, MessagesOnce, [Next]_vars
    PROVE  MessagesOnce'
  <1> USE DEF MessagesOnce
  <1>0. published \in Nat /\ Len(queue) \in Nat
    BY Typed
  <1>1. CASE BrokerAlone
    BY <1>1 DEF BrokerAlone
  <1>2. CASE PublishJob
    <2>1. \A i \in 1..Len(queue') : queue'[i] = IF i = Len(queue) + 1 THEN published + 1 ELSE queue[i]
      BY <1>0, <1>2, PublishedQueue
    <2>2. 1..Len(queue') = 1..(Len(queue) + 1) /\ published' = published + 1 /\ unacked' = unacked
      BY <1>2, PublishedQueue
    <2>3. \A i \in 1..Len(queue') : queue'[i] \in 1..published'
      BY <1>0, <2>1, <2>2
    <2>4. \A i, j \in 1..Len(queue') : queue'[i] = queue'[j] => i = j
      BY <1>0, <2>1, <2>2
    <2>5. \A w \in Workers : unacked'[w] # NoJob =>
             /\ unacked'[w] \in 1..published'
             /\ \A i \in 1..Len(queue') : queue'[i] # unacked'[w]
             /\ \A v \in Workers : unacked'[v] = unacked'[w] => v = w
      BY <1>0, <2>1, <2>2
    <2> QED BY <2>3, <2>4, <2>5
  <1>3. ASSUME NEW w \in Workers, Deliver(w) PROVE MessagesOnce'
    <2>1. /\ published' = published /\ Len(queue) >= 1 /\ Len(queue') = Len(queue) - 1
          /\ \A i \in 1..Len(queue') : queue'[i] = queue[i + 1]
          /\ unacked'[w] = queue[1] /\ queue[1] \in Jobs
          /\ \A v \in Workers : v # w => unacked'[v] = unacked[v]
      BY <1>3, DeliveredQueue
    <2>2. queue[1] # NoJob
      BY <2>1, ConstantsTyped
    <2>3. \A i \in 1..Len(queue') : i + 1 \in 1..Len(queue) /\ queue'[i] = queue[i + 1]
      BY <1>0, <2>1
    <2>4. \A i \in 1..Len(queue') : queue'[i] \in 1..published' /\ queue'[i] # queue[1]
      BY <1>0, <2>1, <2>3
    <2>5. \A i, j \in 1..Len(queue') : queue'[i] = queue'[j] => i = j
      BY <1>0, <2>1, <2>3
    <2>6. \A v \in Workers : unacked'[v] # NoJob =>
             /\ unacked'[v] \in 1..published'
             /\ \A i \in 1..Len(queue') : queue'[i] # unacked'[v]
             /\ \A u \in Workers : unacked'[u] = unacked'[v] => u = v
      <3>1. 1 \in 1..Len(queue)
        BY <1>0, <2>1
      <3>2. \A v \in Workers : unacked[v] # queue[1]
        BY <2>2, <3>1
      <3> QED BY <2>1, <2>2, <2>3, <2>4, <3>1, <3>2
    <2> QED BY <2>4, <2>5, <2>6
  <1>4. ASSUME NEW w \in Workers, Requeued(w) PROVE MessagesOnce'
    <2>1. /\ published' = published /\ unacked'[w] = NoJob
          /\ \A v \in Workers : v # w => unacked'[v] = unacked[v]
      BY <1>4, RequeuedQueue
    <2>2. CASE queue' = queue
      BY <2>1, <2>2
    <2>3. CASE /\ unacked[w] # NoJob /\ Len(queue') = Len(queue) + 1 /\ queue'[1] = unacked[w]
               /\ \A i \in 2..Len(queue') : queue'[i] = queue[i - 1]
      <3>1. \A i \in 1..Len(queue') :
               IF i = 1 THEN queue'[i] = unacked[w]
                        ELSE i - 1 \in 1..Len(queue) /\ queue'[i] = queue[i - 1]
        BY <1>0, <2>3
      <3>2. \A i \in 1..Len(queue') : queue'[i] \in 1..published'
        BY <1>0, <2>1, <2>3, <3>1
      <3>3. ASSUME NEW i \in 1..Len(queue'), NEW j \in 1..Len(queue'), queue'[i] = queue'[j]
            PROVE  i = j
        <4>1. \A m \in 1..Len(queue) : queue[m] # unacked[w]
          BY <2>3
        <4>2. CASE i = 1 \/ j = 1
          BY <3>1, <3>3, <4>1, <4>2
        <4>3. CASE i # 1 /\ j # 1
          <5>1. i - 1 = j - 1
            BY <3>1, <3>3, <4>3
          <5> QED BY <1>0, <5>1
        <4> QED BY <4>2, <4>3
      <3>4. ASSUME NEW v \in Workers, unacked'[v] # NoJob
            PROVE  /\ unacked'[v] \in 1..published'
                   /\ \A i \in 1..Len(queue') : queue'[i] # unacked'[v]
                   /\ \A u \in Workers : unacked'[u] = unacked'[v] => u = v
        BY <2>1, <2>3, <3>1, <3>4
      <3> QED BY <3>2, <3>3, <3>4
    <2> QED BY <1>4, <2>2, <2>3, RequeuedQueue
  <1>5. ASSUME NEW w \in Workers, NEW k \in Slots, Settle(w, k) PROVE MessagesOnce'
    <2>1. /\ published' = published /\ queue' = queue
          /\ \A v \in Workers : v # w => unacked'[v] = unacked[v]
          /\ unacked' = unacked \/ unacked'[w] = NoJob
      BY <1>5, SettledQueue
    <2> QED BY <2>1
  <1> QED BY <1>1, <1>2, <1>3, <1>4, <1>5, BrokerSteps

\* Only its acknowledgement or rejection takes a message from the broker.
LEMMA PendingStep ==
    ASSUME TypeOK, [Next]_vars, NEW j \in Jobs, Pending(j)
    PROVE  \/ Pending(j)'
           \/ \E w \in Workers, k \in Slots :
                 Settle(w, k) /\ frame[w][k].held /\ frame[w][k].job = j
  <1>0. Len(queue) \in Nat /\ j # NoJob
    BY Typed, ConstantsTyped
  <1>p. (\E i \in 1..Len(queue) : queue[i] = j) \/ \E w \in Workers : unacked[w] = j
    BY DEF Pending, Contains
  <1>q. ASSUME (\E i \in 1..Len(queue') : queue'[i] = j) \/ \E w \in Workers : unacked'[w] = j
        PROVE  Pending(j)'
    BY <1>q DEF Pending, Contains
  <1>1. CASE BrokerAlone
    BY <1>p, <1>q, <1>1 DEF BrokerAlone
  <1>2. CASE PublishJob
    <2>1. \A i \in 1..Len(queue) : i \in 1..Len(queue') /\ queue'[i] = queue[i]
      BY <1>0, <1>2, PublishedQueue
    <2>2. unacked' = unacked
      BY <1>2, PublishedQueue
    <2> QED BY <1>p, <1>q, <2>1, <2>2
  <1>3. ASSUME NEW w \in Workers, Deliver(w) PROVE Pending(j)'
    <2>1. /\ Len(queue') = Len(queue) - 1 /\ unacked[w] = NoJob
          /\ \A i \in 1..Len(queue') : queue'[i] = queue[i + 1]
          /\ unacked'[w] = queue[1]
          /\ \A v \in Workers : v # w => unacked'[v] = unacked[v]
      BY <1>3, DeliveredQueue
    <2>2. ASSUME NEW i \in 1..Len(queue), queue[i] = j PROVE Pending(j)'
      <3>1. CASE i = 1
        BY <1>q, <2>1, <2>2, <3>1
      <3>2. CASE i # 1
        <4>1. i - 1 \in 1..Len(queue') /\ queue'[i - 1] = queue[(i - 1) + 1] /\ (i - 1) + 1 = i
          BY <1>0, <2>1, <3>2
        <4> QED BY <1>q, <2>2, <4>1
      <3> QED BY <3>1, <3>2
    <2>3. ASSUME NEW v \in Workers, unacked[v] = j PROVE Pending(j)'
      BY <1>0, <1>q, <2>1, <2>3
    <2> QED BY <1>p, <2>2, <2>3
  <1>4. ASSUME NEW w \in Workers, Requeued(w) PROVE Pending(j)'
    <2>1. \A v \in Workers : v # w => unacked'[v] = unacked[v]
      BY <1>4, RequeuedQueue
    <2>2. CASE unacked[w] = NoJob /\ queue' = queue
      BY <1>0, <1>p, <1>q, <2>1, <2>2
    <2>3. CASE /\ unacked[w] # NoJob /\ Len(queue') = Len(queue) + 1 /\ queue'[1] = unacked[w]
               /\ \A i \in 2..Len(queue') : queue'[i] = queue[i - 1]
      <3>1. ASSUME NEW i \in 1..Len(queue), queue[i] = j PROVE Pending(j)'
        <4>1. i + 1 \in 1..Len(queue') /\ queue'[i + 1] = queue[(i + 1) - 1] /\ (i + 1) - 1 = i
          BY <1>0, <2>3
        <4> QED BY <1>q, <3>1, <4>1
      <3>2. ASSUME NEW v \in Workers, unacked[v] = j PROVE Pending(j)'
        <4>1. 1 \in 1..Len(queue')
          BY <1>0, <2>3
        <4> QED BY <1>q, <2>1, <2>3, <3>2, <4>1
      <3> QED BY <1>p, <3>1, <3>2
    <2> QED BY <1>4, <2>2, <2>3, RequeuedQueue
  <1>5. ASSUME NEW w \in Workers, NEW k \in Slots, Settle(w, k),
               ~(frame[w][k].held /\ frame[w][k].job = j)
        PROVE  Pending(j)'
    <2>1. /\ queue' = queue /\ \A v \in Workers : v # w => unacked'[v] = unacked[v]
          /\ unacked' = unacked \/ (frame[w][k].held /\ unacked[w] = frame[w][k].job)
      BY <1>5, SettledQueue
    <2> QED BY <1>p, <1>q, <1>5, <2>1
  <1> QED BY <1>1, <1>2, <1>3, <1>4, <1>5, BrokerSteps

LEMMA AccountedStep ==
    ASSUME TypeOK, AckedAnswered, JobsAccounted, [Next]_vars
    PROVE  JobsAccounted'
  <1>0. published \in Nat /\ Len(queue) \in Nat /\ 1..published \subseteq Jobs
    BY Typed, ConstantsTyped
  <1>1. ASSUME NEW j \in 1..published PROVE Pending(j)' \/ j \in answered' \/ j \in rejected'
    <2>1. j \in Jobs /\ (Pending(j) \/ j \in answered \/ j \in rejected)
      BY <1>0 DEF JobsAccounted
    <2>2. CASE j \in answered \/ j \in rejected
      BY <2>2, AnsweredGrows
    <2>3. ASSUME NEW w \in Workers, NEW k \in Slots,
                 Settle(w, k), frame[w][k].held, frame[w][k].job = j
          PROVE  j \in answered' \/ j \in rejected'
      <3>1. CASE At(w, k, "ack")
        BY <2>3, <3>1, AnsweredGrows DEF AckedAnswered
      <3>2. CASE At(w, k, "reject")
        BY <2>1, <2>3, <3>2, ConstantsTyped, SettledQueue
      <3> QED BY <2>3, <3>1, <3>2 DEF Settle
    <2> QED BY <2>1, <2>2, <2>3, PendingStep
  <1>2. CASE PublishJob
    <2>1. /\ published' = published + 1 /\ Len(queue') = Len(queue) + 1
          /\ queue'[Len(queue) + 1] = published + 1
      BY <1>2, PublishedQueue
    <2>2. Len(queue) + 1 \in 1..Len(queue')
      BY <1>0, <2>1
    <2>3. ASSUME NEW j \in Nat, j = published + 1 PROVE Pending(j)'
      <3>1. queue'[Len(queue) + 1] = j
        BY <2>1, <2>3
      <3> QED BY <2>2, <3>1 DEF Pending, Contains
    <2>4. \A j \in 1..published' : j \in 1..published \/ j = published + 1
      BY <1>0, <2>1
    <2>5. published + 1 \in Nat
      BY <1>0
    <2> QED BY <1>1, <2>3, <2>4, <2>5 DEF JobsAccounted
  <1>3. CASE ~PublishJob
    <2>1. published' = published
      BY <1>3, BrokerSteps, DeliveredQueue, RequeuedQueue, SettledQueue DEF BrokerAlone
    <2> QED BY <1>1, <2>1 DEF JobsAccounted
  <1> QED BY <1>2, <1>3

-------------------------------------------------------------------------------
(***************************************************************************)
(* Heartbeats.                                                             *)
(***************************************************************************)
\* The rows: the heartbeat loop writes them, and a stopped heartbeat deletes one or
\* fails to; one that it failed to delete is only deleted.
LEMMA BeatsSteps ==
    ASSUME [Next]_vars
    PROVE  /\ \/ beats' \subseteq beats
              \/ \E w \in Workers : /\ Beat(w) /\ beat[w].step # NoJob
                                    /\ beats' = beats \cup {beat[w].step}
           /\ \A j \in beats' : j \in unswept => j \in unswept'
  <1> DEFINE Goal == /\ \/ beats' \subseteq beats
                        \/ \E w \in Workers : /\ Beat(w) /\ beat[w].step # NoJob
                                              /\ beats' = beats \cup {beat[w].step}
                     /\ \A j \in beats' : j \in unswept => j \in unswept'
  <1>1. CASE UNCHANGED vars \/ PublishJob
    BY <1>1 DEF vars, PublishJob
  <1>2. ASSUME NEW r \in Runs, PublishCancel(r) PROVE Goal
    BY <1>2 DEF PublishCancel
  <1>3. ASSUME NEW w \in Workers, Deliver(w) \/ Crash(w) \/ LoseConnection(w) PROVE Goal
    BY <1>3 DEF Deliver, Crash, LoseConnection
  <1>4. ASSUME NEW w \in Workers, Beat(w) PROVE Goal
    BY <1>4 DEF Beat
  <1>5. ASSUME NEW w \in Workers, NEW r \in Runs, OnCancel(w, r) PROVE Goal
    BY <1>5 DEF OnCancel
  <1>6. ASSUME NEW w \in Workers, NEW k \in Slots, Going(w, k) PROVE Goal
    BY <1>6 DEF Going, Start, Launch, AgentEnds, Return, StopBeat, Silence, Unswept, PublishResult,
                Raise, OutputFails
  <1>7. ASSUME NEW w \in Workers, NEW k \in Slots, Settle(w, k) PROVE Goal
    BY <1>7 DEF Settle
  <1> QED BY <1>1, <1>2, <1>3, <1>4, <1>5, <1>6, <1>7, Steps

\* A connection that is not lost was not lost before; a crash stays known.
LEMMA MishapSteps ==
    ASSUME TypeOK, BudgetsShrink, [Next]_vars
    PROVE  /\ Connected' => Connected
           /\ Connected' => \A w \in Workers : ~LoseConnection(w)
           /\ Crashed => Crashed'
           /\ \A w \in Workers : Crash(w) => Crashed'
  <1>1. /\ \A op \in BudgetOps : /\ left[op] \in Nat /\ left'[op] \in Nat /\ Budget[op] \in Nat
                                 /\ left'[op] <= left[op] /\ left[op] <= Budget[op]
        /\ "connection" \in BudgetOps /\ "crash" \in BudgetOps
        /\ left \in [BudgetOps -> Nat]
    BY BudgetStep, ConstantsTyped DEF BudgetsShrink, TypeOK
  <1>2. ASSUME NEW w \in Workers, LoseConnection(w) PROVE ~Connected'
    <2>1. left'["connection"] = left["connection"] - 1
      BY <1>1, <1>2, SpendLess DEF LoseConnection
    <2> QED BY <1>1, <2>1 DEF Connected
  <1>3. ASSUME NEW w \in Workers, Crash(w) PROVE Crashed'
    <2>1. left'["crash"] = left["crash"] - 1
      BY <1>1, <1>3, SpendLess DEF Crash
    <2> QED BY <1>1, <2>1 DEF Crashed
  <1> QED BY <1>1, <1>2, <1>3 DEF Connected, Crashed

\* While connected, a process runs one coroutine at a time, and a job one at all.
LEMMA OneEach ==
    ASSUME TypeOK, FramesSound, MessagesOnce, HeartbeatsSound, Connected,
           NEW w \in Workers, NEW k \in Slots, frame[w][k].pc # "idle"
    PROVE  /\ frame[w][k].held /\ unacked[w] = frame[w][k].job /\ frame[w][k].job \in Jobs
           /\ \A i \in Slots : frame[w][i].pc # "idle" => i = k
           /\ \A v \in Workers, i \in Slots :
                 frame[v][i].pc # "idle" /\ frame[v][i].job = frame[w][k].job => v = w /\ i = k
  <1>1. \A v \in Workers, i \in Slots : frame[v][i].pc # "idle" =>
           frame[v][i].held /\ unacked[v] = frame[v][i].job /\ frame[v][i].job \in Jobs
    <2>1. \A v \in Workers, i \in Slots : frame[v][i].pc # "idle" => frame[v][i].held
      BY DEF HeartbeatsSound, At
    <2>2. \A v \in Workers, i \in Slots : frame[v][i].held => unacked[v] = frame[v][i].job
      BY DEF TypeOK
    <2> QED BY <2>1, <2>2, Typed DEF At
  <1>2. \A v \in Workers, i \in Slots : frame[v][i].pc # "idle" /\ v = w => i = k
    BY <1>1 DEF FramesSound
  <1>3. \A v \in Workers : unacked[v] = unacked[w] => v = w
    BY <1>1, ConstantsTyped DEF MessagesOnce
  <1> QED BY <1>1, <1>2, <1>3

LEMMA HeartbeatsStep ==
    ASSUME TypeOK, BudgetsShrink, FramesSound, MessagesOnce, HeartbeatsSound, [Next]_vars
    PROVE  HeartbeatsSound'
  <1> SUFFICES ASSUME Connected'
               PROVE  /\ \A w \in Workers, k \in Slots : frame'[w][k].pc = "idle" \/ frame'[w][k].held
                      /\ \A w \in Workers : beat'[w].step # NoJob => StandsFor(w, beat[w].step)'
                      /\ \A w \in Workers, k \in Slots :
                            frame'[w][k].pc \in Beating => beat'[w].step = frame'[w][k].job
                      /\ \A w \in Workers, k \in Slots :
                            frame'[w][k].pc \in {"publish", "ack"} => frame'[w][k].job \notin beats' \ unswept'
                      /\ \A j \in beats' \ unswept' : Crashed' \/ \E w \in Workers : StandsFor(w, j)'
    BY DEF HeartbeatsSound, At
  <1>c. Connected /\ \A w \in Workers : ~LoseConnection(w)
    BY MishapSteps
  <1>h. /\ \A w \in Workers, k \in Slots : frame[w][k].pc = "idle" \/ frame[w][k].held
        /\ \A w \in Workers : beat[w].step # NoJob =>
              \E k \in Slots : frame[w][k].pc \in Beating /\ frame[w][k].job = beat[w].step
        /\ \A w \in Workers, k \in Slots :
              frame[w][k].pc \in Beating => beat[w].step = frame[w][k].job
        /\ \A w \in Workers, k \in Slots :
              frame[w][k].pc \in {"publish", "ack"} => frame[w][k].job \notin beats \ unswept
        /\ \A j \in beats \ unswept : Crashed \/ \E w \in Workers, k \in Slots :
              frame[w][k].pc \in Beating /\ frame[w][k].job = j
    BY <1>c DEF HeartbeatsSound, At, StandsFor
  <1>k. \A w \in Workers, k \in Slots : frame[w][k].pc \in Beating => beat[w].step = frame[w][k].job
    BY <1>c DEF HeartbeatsSound
  <1>b. \A w \in Workers, i, k \in Slots :
           frame[w][k].pc # "idle" /\ frame[w][i].pc # "idle" => i = k
    BY <1>c, OneEach
  <1>t. beat \in [Workers -> [step : Jobs \cup {NoJob}, task : BOOLEAN, stray : BOOLEAN]]
    BY DEF TypeOK
  <1>i. "idle" \notin Beating
    BY DEF Beating
  \* Its own coroutines tell what a worker's heartbeat stands for.
  <1> DEFINE Good(w) == /\ \A k \in Slots : frame'[w][k].pc = "idle" \/ frame'[w][k].held
                        /\ beat'[w].step # NoJob => \E k \in Slots :
                              frame'[w][k].pc \in Beating /\ frame'[w][k].job = beat'[w].step
                        /\ \A k \in Slots :
                              frame'[w][k].pc \in Beating => beat'[w].step = frame'[w][k].job
  <1>1. \A w \in Workers : Good(w)
    <2>1. ASSUME NEW w \in Workers, beat'[w] = beat[w],
                 \A k \in Slots : SameJob(frame'[w][k], frame[w][k])
                                  /\ frame'[w][k].held = frame[w][k].held
          PROVE  Good(w)
      BY <1>h, <2>1 DEF SameJob
    <2>2. ASSUME NEW v \in Workers, StepOf(v), NEW w \in Workers, w # v PROVE Good(w)
      BY <2>1, <2>2, Apart DEF SameJob
    <2>3. ASSUME UNCHANGED vars \/ PublishJob \/ \E v \in Workers : Beat(v), NEW w \in Workers PROVE Good(w)
      BY <2>1, <2>3, Elsewhere DEF SameJob
    <2>4. ASSUME NEW r \in Runs, PublishCancel(r), NEW w \in Workers PROVE Good(w)
      <3>1. beat' = beat
        BY <2>4 DEF PublishCancel
      <3> QED BY <2>1, <2>4, <3>1, CancelFrame
    <2>5. ASSUME NEW w \in Workers, Deliver(w) PROVE Good(w)
      <3>1. beat' = beat
        BY <2>5 DEF Deliver
      <3>2. PICK s \in Slots :
               /\ frame[w][s].pc = "idle" /\ frame'[w][s].pc = "prepare" /\ frame'[w][s].held
               /\ \A i \in Slots : i # s =>
                     /\ frame'[w][i].pc = frame[w][i].pc /\ frame'[w][i].job = frame[w][i].job
                     /\ frame'[w][i].held = frame[w][i].held
        BY <2>5, DeliverFrame DEF SameJob, At
      <3>3. "prepare" \notin Beating
        BY DEF Beating
      <3>4. \A k \in Slots : frame'[w][k].pc = "idle" \/ frame'[w][k].held
        BY <1>h, <3>2
      <3>5. \A k \in Slots : frame'[w][k].pc \in Beating => beat'[w].step = frame'[w][k].job
        BY <1>h, <3>1, <3>2, <3>3
      <3>6. ASSUME beat'[w].step # NoJob
            PROVE  \E k \in Slots : frame'[w][k].pc \in Beating /\ frame'[w][k].job = beat'[w].step
        <4>1. PICK k \in Slots : frame[w][k].pc \in Beating /\ frame[w][k].job = beat[w].step
          BY <1>h, <3>1, <3>6
        <4>2. k # s
          BY <1>i, <3>2, <4>1
        <4> QED BY <3>1, <3>2, <4>1, <4>2
      <3> QED BY <3>4, <3>5, <3>6
    <2>6. ASSUME NEW w \in Workers, Crash(w) PROVE Good(w)
      <3>1. beat'[w].step = NoJob
        BY <1>t, <2>6 DEF Crash, Silent
      <3> QED BY <1>i, <2>6, <3>1, CrashFrame, NoFrameTyped
    <2>7. ASSUME NEW w \in Workers, NEW r \in Runs, OnCancel(w, r) PROVE Good(w)
      <3>1. beat' = beat
        BY <2>7 DEF OnCancel
      <3> QED BY <2>1, <2>7, <3>1, OnCancelFrame
    <2>8. ASSUME NEW w \in Workers, NEW k \in Slots, Going(w, k) PROVE Good(w)
      <3>1. /\ \A i \in Slots : i # k => frame'[w][i] = frame[w][i]
            /\ Follows(w, k, frame[w][k].pc, frame'[w][k].pc)
            /\ frame'[w][k].job = frame[w][k].job /\ frame'[w][k].held = frame[w][k].held
        BY <2>8, GoingFrame
      <3>2. frame[w][k].pc # "idle"
        BY <3>1 DEF Follows
      <3>3. \A i \in Slots : i # k => frame'[w][i].pc = "idle"
        BY <1>b, <3>1, <3>2
      <3>4. \A i \in Slots : frame'[w][i].pc = "idle" \/ frame'[w][i].held
        BY <1>h, <3>1, <3>2, <3>3
      <3>5. IF frame'[w][k].pc \in Beating THEN beat'[w].step = frame'[w][k].job
                                           ELSE beat'[w].step = NoJob
        <4>1. CASE Start(w, k)
          <5>1. beat'[w].step = frame[w][k].job
            BY <1>t, <4>1 DEF Start
          <5>2. frame'[w][k].pc = "execute"
            BY <4>1, GotoFrame DEF Start
          <5> QED BY <3>1, <5>1, <5>2 DEF Beating
        <4>2. CASE StopBeat(w, k)
          <5>1. beat'[w].step = NoJob
            BY <1>t, <4>2 DEF StopBeat
          <5>2. frame'[w][k].pc \in {"publish", "reject"}
            <6>1. frame[w][k].pc = "stop"
              BY <4>2 DEF StopBeat, At
            <6> QED BY <3>1, <6>1 DEF Follows
          <5> QED BY <5>1, <5>2 DEF Beating
        <4>3. CASE ~Start(w, k) /\ ~StopBeat(w, k)
          <5>1. beat' = beat
            BY <2>8, <4>3 DEF Going, Launch, AgentEnds, Return, PublishResult, Raise, OutputFails
          <5>2. frame[w][k].pc \in Beating <=> frame'[w][k].pc \in Beating
            BY <3>1, <4>3 DEF Follows, Beating
          <5>3. frame[w][k].pc \notin Beating => beat[w].step = NoJob
            BY <1>b, <1>h, <1>i, <3>2
          <5> QED BY <1>h, <3>1, <5>1, <5>2, <5>3
        <4> QED BY <4>1, <4>2, <4>3
      <3> QED BY <1>i, <3>3, <3>4, <3>5
    <2>9. ASSUME NEW w \in Workers, NEW k \in Slots, Settle(w, k) PROVE Good(w)
      <3>1. beat' = beat /\ frame[w][k].pc \in {"ack", "reject"}
        BY <2>9 DEF Settle, At
      <3>2. frame'[w][k] = NoFrame /\ \A i \in Slots : i # k => frame'[w][i] = frame[w][i]
        BY <2>9, SettleFrame
      <3>3. frame[w][k].pc \notin Beating
        BY <3>1 DEF Beating
      <3> QED BY <1>h, <1>i, <3>1, <3>2, <3>3, NoFrameTyped
    <2>10. ASSUME NEW w \in Workers, NEW v \in Workers, StepOf(v) PROVE Good(w)
      <3>1. CASE v # w
        BY <2>2, <2>10, <3>1
      <3>2. CASE v = w
        BY <1>c, <2>10, <3>2, <2>5, <2>6, <2>7, <2>8, <2>9 DEF StepOf
      <3> QED BY <3>1, <3>2
    <2>11. \/ \E v \in Workers : StepOf(v)
           \/ \E r \in Runs : PublishCancel(r)
           \/ UNCHANGED vars \/ PublishJob \/ \E v \in Workers : Beat(v)
      BY Steps DEF StepOf
    <2> QED BY <2>3, <2>4, <2>10, <2>11
  \* Nobody writes the row of a job whose heartbeat is stopped.
  <1>2. ASSUME NEW w \in Workers, NEW k \in Slots, frame'[w][k].pc \in {"publish", "ack"},
               frame'[w][k].job \in beats', frame'[w][k].job \notin unswept'
        PROVE  FALSE
    <2>0. frame'[w][k].job \notin unswept
      BY <1>2, BeatsSteps
    <2>1. CASE SameJob(frame'[w][k], frame[w][k])
      <3>1. frame[w][k].pc \in {"publish", "ack"} /\ frame'[w][k].job = frame[w][k].job
        BY <1>2, <2>1 DEF SameJob
      <3>2. frame[w][k].job \notin beats
        BY <1>h, <2>0, <3>1
      <3>3. ASSUME NEW v \in Workers, Beat(v), beat[v].step = frame[w][k].job,
                   beat[v].step # NoJob
            PROVE  FALSE
        <4>1. PICK i \in Slots : frame[v][i].pc \in Beating /\ frame[v][i].job = beat[v].step
          BY <1>h, <3>3
        <4>2. v = w /\ i = k
          BY <1>c, <1>i, <3>1, <3>3, <4>1, OneEach
        <4> QED BY <3>1, <4>1, <4>2 DEF Beating
      <3> QED BY <1>2, <3>1, <3>2, <3>3, BeatsSteps
    <2>2. CASE /\ Going(w, k) /\ Follows(w, k, frame[w][k].pc, frame'[w][k].pc)
               /\ frame'[w][k].job = frame[w][k].job
      <3>1. CASE StopBeat(w, k)
        <4>1. /\ frame[w][k].pc = "stop"
              /\ beats' = beats \ {beat[w].step} \/ beat[w].step \in unswept'
          BY <3>1 DEF StopBeat, Silence, Unswept, At
        <4>2. beat[w].step = frame[w][k].job
          <5>1. frame[w][k].pc \in Beating
            BY <4>1 DEF Beating
          <5> QED BY <1>k, <5>1
        <4> QED BY <1>2, <2>2, <4>1, <4>2
      <3>2. CASE PublishResult(w, k)
        <4>1. frame[w][k].pc = "publish" /\ beats' = beats
          BY <3>2 DEF PublishResult, At
        <4> QED BY <1>h, <1>2, <2>0, <2>2, <4>1
      <3> QED BY <1>2, <2>2, <3>1, <3>2 DEF Follows
    <2> QED BY <1>2, <2>1, <2>2, FrameSteps, NoFrameTyped
  \* Every row is that of a heartbeat that goes on, or of one that crashed.
  <1>3. ASSUME NEW j \in beats', j \notin unswept', ~Crashed'
        PROVE  \E w \in Workers, k \in Slots : frame'[w][k].pc \in Beating /\ frame'[w][k].job = j
    <2>1. CASE j \in beats
      <3>1. PICK w \in Workers, k \in Slots : frame[w][k].pc \in Beating /\ frame[w][k].job = j
        BY <1>h, <1>3, <2>1, BeatsSteps, MishapSteps
      <3>2. CASE SameJob(frame'[w][k], frame[w][k])
        BY <3>1, <3>2 DEF SameJob
      <3>3. ~(Crash(w) \/ Settle(w, k)) /\ frame[w][k].pc # "idle"
        BY <1>3, <3>1, MishapSteps DEF Settle, At, Beating
      <3>4. CASE /\ Going(w, k) /\ Follows(w, k, frame[w][k].pc, frame'[w][k].pc)
                 /\ frame'[w][k].job = frame[w][k].job
        <4>1. CASE StopBeat(w, k)
          <5>1. /\ beats' = beats \ {beat[w].step} \/ beat[w].step \in unswept'
                /\ beat[w].step = j
            BY <1>h, <3>1, <4>1 DEF StopBeat, Silence, Unswept
          <5> QED BY <1>3, <5>1
        <4>2. CASE ~StopBeat(w, k)
          <5>1. frame'[w][k].pc \in Beating
            BY <3>1, <3>4, <4>2 DEF Follows, Beating
          <5> QED BY <3>1, <3>4, <5>1
        <4> QED BY <4>1, <4>2
      <3> QED BY <3>2, <3>3, <3>4, FrameSteps
    <2>2. CASE j \notin beats
      <3>1. PICK w \in Workers : Beat(w) /\ beat[w].step = j /\ beat[w].step # NoJob
        BY <1>3, <2>2, BeatsSteps
      <3>2. frame' = frame
        BY <3>1, Elsewhere
      <3> QED BY <1>h, <3>1, <3>2
    <2> QED BY <2>1, <2>2
  <1> QED BY <1>1, <1>2, <1>3 DEF StandsFor

LEMMA BeatsStep ==
    ASSUME IInv, [Next]_vars
    PROVE  BeatsStandForJobs'
  <1> USE DEF IInv
  <1> SUFFICES ASSUME Connected', NEW j \in beats', j \notin unswept'
               PROVE  Pending(j)' \/ (j \in rejected' /\ Crashed')
    BY DEF BeatsStandForJobs, Connected, Crashed
  <1>c. Connected /\ j \notin unswept
    BY BeatsSteps, MishapSteps
  <1>1. j \in Jobs
    BY ProcessTypes DEF ProcessTyped
  <1>2. CASE j \in beats
    <2>1. Pending(j) \/ (j \in rejected /\ Crashed)
      BY <1>c, <1>2 DEF BeatsStandForJobs, Connected, Crashed
    <2>2. CASE j \in rejected /\ Crashed
      BY <2>2, AnsweredGrows, MishapSteps
    <2>3. ASSUME NEW w \in Workers, NEW k \in Slots,
                 Settle(w, k), frame[w][k].held, frame[w][k].job = j
          PROVE  j \in rejected' /\ Crashed'
      <3>1. frame[w][k].pc \in {"ack", "reject"} /\ frame[w][k].pc # "ack"
        BY <1>c, <1>2, <2>3 DEF Settle, At, HeartbeatsSound
      <3>2. At(w, k, "reject")
        BY <3>1 DEF At
      <3>3. j \in rejected'
        BY <1>1, <2>3, <3>2, ConstantsTyped, SettledQueue
      <3>4. Crashed
        <4>1. SUFFICES ASSUME ~Crashed PROVE FALSE
          OBVIOUS
        <4>2. PICK v \in Workers, i \in Slots : frame[v][i].pc \in Beating /\ frame[v][i].job = j
          BY <1>c, <1>2, <4>1 DEF HeartbeatsSound, StandsFor
        <4>3. frame[v][i].pc # "idle" /\ frame[w][k].pc # "idle"
          BY <3>1, <4>2 DEF Beating
        <4>4. v = w /\ i = k
          BY <1>c, <2>3, <4>2, <4>3, OneEach
        <4> QED BY <3>1, <4>2, <4>4 DEF Beating
      <3> QED BY <3>3, <3>4, MishapSteps
    <2> QED BY <1>1, <2>1, <2>2, <2>3, PendingStep
  <1>3. CASE j \notin beats
    <2>1. PICK w \in Workers : Beat(w) /\ beat[w].step = j /\ beat[w].step # NoJob
      BY <1>3, BeatsSteps
    <2>2. PICK k \in Slots : frame[w][k].pc \in Beating /\ frame[w][k].job = j
      BY <1>c, <2>1 DEF HeartbeatsSound, StandsFor
    <2>3. unacked[w] = j
      BY <1>c, <2>2, OneEach DEF Beating
    <2>4. unacked' = unacked
      BY <2>1, Elsewhere
    <2> QED BY <2>3, <2>4 DEF Pending
  <1> QED BY <1>2, <1>3

-------------------------------------------------------------------------------
(***************************************************************************)
(* The invariant.                                                          *)
(***************************************************************************)
LEMMA InvInit ==
    ASSUME Init
    PROVE  IInv
  <1>1. \A w \in Workers, k \in Slots : frame[w][k] = NoFrame
    BY DEF Init
  <1>2. TypeOK
    <2>1. queue \in Seq(Jobs) /\ published \in 0..Len(RunOf) /\ answered \subseteq Jobs
          /\ rejected \subseteq Jobs /\ beats \subseteq Jobs /\ unswept \subseteq Jobs
      BY ConstantsTyped DEF Init
    <2>2. /\ unacked \in [Workers -> Jobs \cup {NoJob}]
          /\ cancels \in [Workers -> SUBSET Runs]
          /\ cur \in [Workers -> Runs \cup {NoRun}]
      BY DEF Init
    <2>3. registry \in [Workers -> [Runs -> Slots \cup {NoOne}]]
      BY DEF Init
    <2>4. beat \in [Workers -> [step : Jobs \cup {NoJob}, task : BOOLEAN, stray : BOOLEAN]]
      BY DEF Init, Silent
    <2>5. frame \in [Workers -> [Slots -> FrameType]]
      BY NoFrameTyped DEF Init
    <2>6. left \in [BudgetOps -> Nat]
      BY BudgetAssumption DEF Init
    <2> QED BY <1>1, <2>1, <2>2, <2>3, <2>4, <2>5, <2>6, NoFrameTyped DEF TypeOK, At
  <1>3. BudgetsShrink /\ beats = {} /\ published = 0 /\ queue = <<>>
    BY ConstantsTyped DEF Init, BudgetsShrink
  <1>4. FramesSound /\ AckedAnswered /\ CancelReachesAgents /\ AloneIsKnown
    BY <1>1, NoFrameTyped DEF FramesSound, AckedAnswered, CancelReachesAgents, AloneIsKnown, At
  <1>5. RegistrySound
    BY DEF RegistrySound, Init
  <1>6. MessagesOnce
    BY <1>3 DEF MessagesOnce, Init
  <1>7. JobsAccounted /\ BeatsStandForJobs
    BY <1>3 DEF JobsAccounted, BeatsStandForJobs
  <1>8. HeartbeatsSound
    <2>1. \A w \in Workers : beat[w].step = NoJob
      BY DEF Init, Silent
    <2> QED BY <1>1, <1>3, <2>1, NoFrameTyped DEF HeartbeatsSound, At, Beating
  <1> QED BY <1>2, <1>3, <1>4, <1>5, <1>6, <1>7, <1>8 DEF IInv

LEMMA InvNext ==
    ASSUME IInv, [Next]_vars
    PROVE  IInv'
  BY TypeStep, AckedStep, RegistryStep, AloneStep, CancelStep, MessagesStep, AccountedStep,
     HeartbeatsStep, BeatsStep DEF IInv

\* The inductive invariant: types, what is registered for a run is its agent, a
\* coroutine that is alone is the one its process tells of, a message is in one
\* place, and a heartbeat stands for the job of a coroutine that runs.
THEOREM DeliveryInvariant == Spec => []IInv
  BY InvInit, InvNext, PTL DEF Spec

\* The types: one delivery at most is a worker's to settle, and a coroutine has
\* a job (on_job, message.process()).
THEOREM DeliveryTypes == Spec => []TypeOK
  <1>1. IInv => TypeOK
    BY DEF IInv
  <1> QED BY <1>1, DeliveryInvariant, PTL

\* No crash and no lost connection loses a job: one that was published and has no
\* result is queued or held by a worker, unless on_job raised (main.py, on_job).
THEOREM NoJobLost == Spec => []JobsAccounted
  <1>1. IInv => JobsAccounted
    BY DEF IInv
  <1> QED BY <1>1, DeliveryInvariant, PTL

\* A broadcast cancel finds the agent of its run through the run at work and the
\* process registry (main.py, on_cancel; agent.py, kill_process).
THEOREM CancelFindsAgents == Spec => []CancelReachesAgents
  <1>1. IInv => CancelReachesAgents
    BY DEF IInv
  <1> QED BY <1>1, DeliveryInvariant, PTL

\* No row of worker_heartbeats outlives its job, unless a connection was lost
\* (heartbeat.py, start and stop).
THEOREM NoBeatOutlives == Spec => []BeatsStandForJobs
  <1>1. IInv => BeatsStandForJobs
    BY DEF IInv
  <1> QED BY <1>1, DeliveryInvariant, PTL
===============================================================================
