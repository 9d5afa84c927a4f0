------------------------------- MODULE LogStream -------------------------------
(***************************************************************************)
(* The live log of a run: workers append rows to step_logs and notify      *)
(* (src/db.py: append_step_log), and every open page of the run is fed by  *)
(* a generator that reads the rows behind its cursor, looks at the status  *)
(* of the run, and waits for a notification or five seconds                *)
(* (src/api/runs.py: run_stream).                                          *)
(*                                                                         *)
(* Ids are handed out by the SERIAL column when the insert begins, and a   *)
(* row is seen when it commits: two workers of one run, after a job has    *)
(* outlived its walker, can commit in another order.                       *)
(***************************************************************************)
EXTENDS Naturals, SequencesExt

CONSTANTS Writers,   \* workers that execute stages of the run
          Streams,   \* open pages
          MaxRows,   \* bound on the rows
          MaxEnds    \* bound on how often the run ends (it may be restarted)

ASSUME BoundsAssumption == MaxRows \in Nat /\ MaxEnds \in Nat \ {0}

VARIABLES
    run,      \* "live", "final", or "deleted"
    ends,     \* how often the run has ended
    nextId,   \* the sequence of step_logs.id
    writer,   \* the id each writer is inserting, and what comes next
    log,      \* the ids of the rows in the order of their commits
    stream    \* the generators

vars == <<run, ends, nextId, writer, log, stream>>

NoWrite == [pc |-> "idle", id |-> 0]

\* "heard" is notify_event, "listening" whether LISTEN succeeded; "upto" is how
\* many rows had committed when the status was last read.
NewStream == [pc |-> "connect", cursor |-> 0, sent |-> <<>>, listening |-> FALSE,
              heard |-> FALSE, upto |-> 0]

At(s, pc) == stream[s].pc = pc
Open(s)   == stream[s].pc \notin {"done", "gone"}

Init ==
    /\ run = "live"
    /\ ends = 0
    /\ nextId = 1
    /\ writer = [w \in Writers |-> NoWrite]
    /\ log = <<>>
    /\ stream = [s \in Streams |-> NewStream]

-------------------------------------------------------------------------------
(***************************************************************************)
(* The run and its writers.                                                *)
(***************************************************************************)
\* The run completes, fails, is cancelled or rejected: some of these while a
\* worker is still at it.
End ==
    /\ run = "live" /\ ends < MaxEnds
    /\ run' = "final" /\ ends' = ends + 1
    /\ UNCHANGED <<nextId, writer, log, stream>>

Restart ==
    /\ run = "final" /\ ends < MaxEnds
    /\ run' = "live"
    /\ UNCHANGED <<ends, nextId, writer, log, stream>>

\* Its rows go with it.  A pending run can be deleted as well as one that ended.
Delete ==
    /\ run # "deleted"
    /\ run' = "deleted"
    /\ UNCHANGED <<ends, nextId, writer, log, stream>>

BeginInsert(w) ==
    /\ writer[w] = NoWrite /\ run # "deleted" /\ nextId <= MaxRows
    /\ writer' = [writer EXCEPT ![w] = [pc |-> "insert", id |-> nextId]]
    /\ nextId' = nextId + 1
    /\ UNCHANGED <<run, ends, log, stream>>

\* The foreign key refuses a row of a deleted run, and the writer raises.
CommitInsert(w) ==
    /\ writer[w].pc = "insert"
    /\ IF run = "deleted" THEN writer' = [writer EXCEPT ![w] = NoWrite] /\ UNCHANGED log
       ELSE /\ writer' = [writer EXCEPT ![w].pc = "notify"]
            /\ log' = Append(log, writer[w].id)
    /\ UNCHANGED <<run, ends, nextId, stream>>

\* pg_notify reaches the listeners of that moment.
Notify(w) ==
    /\ writer[w].pc = "notify"
    /\ writer' = [writer EXCEPT ![w] = NoWrite]
    /\ stream' = [s \in Streams |-> [stream[s] EXCEPT
                      !.heard = @ \/ (stream[s].listening /\ Open(s))]]
    /\ UNCHANGED <<run, ends, nextId, log>>

\* The worker dies, before its row commits or before it notifies.
WriterCrash(w) ==
    /\ writer[w] # NoWrite
    /\ writer' = [writer EXCEPT ![w] = NoWrite]
    /\ UNCHANGED <<run, ends, nextId, log, stream>>

-------------------------------------------------------------------------------
(***************************************************************************)
(* The generator.                                                          *)
(***************************************************************************)
Rows == IF run = "deleted" THEN {} ELSE ToSet(log)

\* ORDER BY id.
InOrder(S) ==
    CHOOSE q \in [1..Cardinality(S) -> S] : \A i, j \in DOMAIN q : i < j => q[i] < q[j]

\* get_run_log_chunks_since
Since(id) == InOrder({i \in Rows : i > id})

Connect(s) ==
    /\ At(s, "connect")
    /\ \E ok \in BOOLEAN :
          stream' = [stream EXCEPT ![s].pc = "fetch", ![s].listening = ok]
    /\ UNCHANGED <<run, ends, nextId, writer, log>>

\* Mutant: the cursor is the id of the next row.
MutantCursor(s, new) == IF new = <<>> THEN stream[s].cursor ELSE Last(new) + 1

\* last_log_id after the loop over the rows.
Cursor(s, new) == IF new = <<>> THEN stream[s].cursor ELSE Last(new)

Fetch(s) ==
    /\ At(s, "fetch")
    /\ LET new == Since(stream[s].cursor) IN
       stream' = [stream EXCEPT ![s].pc = "status", ![s].sent = @ \o new,
                                ![s].cursor = Cursor(s, new)]
    /\ UNCHANGED <<run, ends, nextId, writer, log>>

\* Mutant: the status is looked at only when a notification came.
MutantSeesEnd(s) == run = "final" /\ stream[s].heard

\* A run that is gone has no status, which is not the end.
SeesEnd(s) == run = "final"

\* The event is cleared right after the status was read: what was notified since
\* the rows were fetched is forgotten.
CheckStatus(s) ==
    /\ At(s, "status")
    /\ stream' = [stream EXCEPT ![s].pc = IF SeesEnd(s) THEN "flush" ELSE "wait",
                                ![s].heard = SeesEnd(s) /\ @,
                                ![s].upto = Len(log)]
    /\ UNCHANGED <<run, ends, nextId, writer, log>>

\* Mutant: nothing is read again before "done".
MutantFlush(s) ==
    /\ At(s, "flush")
    /\ stream' = [stream EXCEPT ![s].pc = "done"]
    /\ UNCHANGED <<run, ends, nextId, writer, log>>

\* The rows behind the cursor once more, and "done".
Flush(s) ==
    /\ At(s, "flush")
    /\ stream' = [stream EXCEPT ![s].pc = "done", ![s].sent = @ \o Since(stream[s].cursor)]
    /\ UNCHANGED <<run, ends, nextId, writer, log>>

Wake(s) ==
    /\ At(s, "wait") /\ stream[s].heard
    /\ stream' = [stream EXCEPT ![s].pc = "fetch"]
    /\ UNCHANGED <<run, ends, nextId, writer, log>>

\* Mutant: only a stream that cannot listen polls.
MutantPing(s) ==
    /\ At(s, "wait") /\ ~stream[s].heard /\ ~stream[s].listening
    /\ stream' = [stream EXCEPT ![s].pc = "fetch"]
    /\ UNCHANGED <<run, ends, nextId, writer, log>>

\* Five seconds without a notification.
Ping(s) ==
    /\ At(s, "wait") /\ ~stream[s].heard
    /\ stream' = [stream EXCEPT ![s].pc = "fetch"]
    /\ UNCHANGED <<run, ends, nextId, writer, log>>

\* The page is closed, or a statement raises.
Leave(s) ==
    /\ Open(s)
    /\ stream' = [stream EXCEPT ![s].pc = "gone", ![s].heard = FALSE]
    /\ UNCHANGED <<run, ends, nextId, writer, log>>

-------------------------------------------------------------------------------
Write(w) == BeginInsert(w) \/ CommitInsert(w) \/ Notify(w)
Read(s)  == Connect(s) \/ Fetch(s) \/ CheckStatus(s) \/ Flush(s) \/ Wake(s) \/ Ping(s)

Next == \/ End \/ Restart \/ Delete
        \/ \E w \in Writers : Write(w) \/ WriterCrash(w)
        \/ \E s \in Streams : Read(s) \/ Leave(s)

Spec == Init /\ [][Next]_vars

\* The event loop runs a generator that is ready, and wait_for ends after five
\* seconds.  Workers need not write, nor the run end.
FairSpec == Spec /\ \A s \in Streams : WF_vars(Read(s))

-------------------------------------------------------------------------------
\* Every variable has its type.
TypeOK ==
    /\ run \in {"live", "final", "deleted"}
    /\ ends \in 0..MaxEnds
    /\ nextId \in 1..(MaxRows + 1)
    /\ writer \in [Writers -> [pc : {"idle", "insert", "notify"}, id : 0..MaxRows]]
    /\ log \in Seq(1..MaxRows)
    /\ stream \in [Streams ->
          [pc : {"connect", "fetch", "status", "flush", "wait", "done", "gone"},
           cursor : 0..MaxRows, sent : Seq(1..MaxRows), listening : BOOLEAN,
           heard : BOOLEAN, upto : 0..MaxRows]]

\* The n-th row to commit has a smaller id than one that committed before it.
Overtaken(n) == \E m \in 1..(n - 1) : log[m] > log[n]

\* A page that is told "done" has been sent every row that had committed when the
\* status was read, each once, although rows commit between the fetch and the
\* status; only a row overtaken by one with a higher id can be missing, or the
\* rows of a run that was deleted in between.
DoneIsComplete ==
    \A s \in Streams : At(s, "done") =>
        /\ IsInjective(stream[s].sent)
        /\ run # "deleted" =>
              \A n \in 1..stream[s].upto : Overtaken(n) \/ log[n] \in ToSet(stream[s].sent)

\* A row that has committed reaches every open page, although its notification
\* may be lost to a dead writer, to a cleared event or to a failed LISTEN.
RowsArrive ==
    \A s \in Streams, n \in 1..MaxRows :
        n <= Len(log) /\ Open(s) ~>
            \/ n <= Len(log) /\ (Overtaken(n) \/ log[n] \in ToSet(stream[s].sent))
            \/ ~Open(s) \/ run = "deleted"

\* The stream of a run that has ended for good is closed.  (That of a run that was
\* deleted never is: there is no status to see.)
StreamsEnd == <>[](run = "final") => \A s \in Streams : <>~Open(s)
===============================================================================
