---------------------------- MODULE LogStreamProofs ----------------------------
(***************************************************************************)
(* Theorems about LogStream, for any numbers of writers, open pages and    *)
(* rows.                                                                   *)
(***************************************************************************)
EXTENDS LogStream, FiniteSetTheorems, SequenceTheorems, TLAPS

\* The ids of the rows, and of those being inserted, are all different.
IdsFresh ==
    /\ \A m, n \in 1..Len(log) : log[m] = log[n] => m = n
    /\ \A n \in 1..Len(log) : log[n] < nextId
    /\ \A w \in Writers : writer[w].pc = "insert" =>
          /\ writer[w].id \in 1..(nextId - 1)
          /\ \A n \in 1..Len(log) : log[n] # writer[w].id
    /\ \A v, w \in Writers :
          writer[v].pc = "insert" /\ writer[w].pc = "insert" /\ writer[v].id = writer[w].id
              => v = w

\* What a page was sent is in the order of the ids, and ends with the cursor.
Increasing(q) == \A i, j \in 1..Len(q) : i < j => q[i] < q[j]

SentInOrder ==
    \A s \in Streams :
        /\ Increasing(stream[s].sent)
        /\ Open(s) => \A i \in 1..Len(stream[s].sent) : stream[s].sent[i] <= stream[s].cursor

\* The cursor is the id of a row that has committed.
CursorOfRow ==
    \A s \in Streams :
        stream[s].cursor = 0 \/ \E n \in 1..Len(log) : log[n] = stream[s].cursor

\* Rows up to the cursor were sent, but for those that were overtaken.
Sent(s, n) == Overtaken(n) \/ \E i \in 1..Len(stream[s].sent) : stream[s].sent[i] = log[n]

RowsBehindCursor ==
    \A s \in Streams : \A n \in 1..Len(log) : log[n] <= stream[s].cursor => Sent(s, n)

\* The rows counted with the status have committed, and "done" is told after them.
CountedRows ==
    \A s \in Streams :
        /\ stream[s].upto <= Len(log)
        /\ At(s, "done") /\ run # "deleted" => \A n \in 1..stream[s].upto : Sent(s, n)

IInv == TypeOK /\ IdsFresh /\ SentInOrder /\ CursorOfRow /\ RowsBehindCursor /\ CountedRows

-------------------------------------------------------------------------------
(***************************************************************************)
(* A finite set of numbers has an increasing enumeration: every element is *)
(* put at the place that counts those up to it.                            *)
(***************************************************************************)
UpTo(S, x) == {y \in S : y <= x}
Rank(S) == [x \in S |-> Cardinality(UpTo(S, x))]

LEMMA RankIncreases ==
    ASSUME NEW S \in SUBSET Nat, IsFiniteSet(S), NEW x \in S, NEW y \in S
    PROVE  /\ Rank(S)[x] \in 1..Cardinality(S)
           /\ x < y => Rank(S)[x] < Rank(S)[y]
  <1>1. UpTo(S, x) \in SUBSET S /\ UpTo(S, y) \in SUBSET S
    BY DEF UpTo
  <1>2. /\ IsFiniteSet(UpTo(S, x)) /\ IsFiniteSet(UpTo(S, y))
        /\ Cardinality(UpTo(S, x)) <= Cardinality(S)
    BY <1>1, FS_Subset
  <1>3. /\ Cardinality(S) \in Nat
        /\ Cardinality(UpTo(S, x)) \in Nat /\ Cardinality(UpTo(S, y)) \in Nat
    BY <1>2, FS_CardinalityType
  <1>4. Cardinality(UpTo(S, x)) # 0
    <2>1. x \in UpTo(S, x)
      BY DEF UpTo
    <2> QED BY <2>1, <1>2, FS_EmptySet
  <1>5. ASSUME x < y PROVE Cardinality(UpTo(S, x)) < Cardinality(UpTo(S, y))
    <2>0. \A z \in S : z \in Nat
      OBVIOUS
    <2>1. UpTo(S, x) \in SUBSET UpTo(S, y) /\ y \in UpTo(S, y) /\ y \notin UpTo(S, x)
      <3>1. x \in Nat /\ y \in Nat
        BY <2>0
      <3>2. \A z \in S : z <= x => z <= y
        BY <2>0, <3>1, <1>5
      <3>3. y <= y /\ ~(y <= x)
        BY <3>1, <1>5
      <3> QED BY <3>2, <3>3 DEF UpTo
    <2>2. /\ Cardinality(UpTo(S, x)) <= Cardinality(UpTo(S, y))
          /\ Cardinality(UpTo(S, y)) # Cardinality(UpTo(S, x))
      BY <2>1, <1>2, FS_Subset
    <2> QED BY <2>2, <1>3
  <1>6. Rank(S)[x] = Cardinality(UpTo(S, x)) /\ Rank(S)[y] = Cardinality(UpTo(S, y))
    BY DEF Rank
  <1> QED BY <1>2, <1>3, <1>4, <1>5, <1>6

LEMMA RankOnto ==
    ASSUME NEW S \in SUBSET Nat, IsFiniteSet(S), NEW k \in 1..Cardinality(S)
    PROVE  \E x \in S : Rank(S)[x] = k
  <1> DEFINE n == Cardinality(S)
  <1>1. n \in Nat /\ IsFiniteSet(1..n) /\ Cardinality(1..n) = n
    BY FS_CardinalityType, FS_Interval
  <1>2. Rank(S) \in [S -> 1..n]
    BY RankIncreases DEF Rank
  <1>3. \A x, y \in S : Rank(S)[x] = Rank(S)[y] => x = y
    <2> SUFFICES ASSUME NEW x \in S, NEW y \in S, x # y PROVE Rank(S)[x] # Rank(S)[y]
      OBVIOUS
    <2>1. x < y \/ y < x
      OBVIOUS
    <2>2. Rank(S)[x] < Rank(S)[y] \/ Rank(S)[y] < Rank(S)[x]
      BY <2>1, RankIncreases
    <2>3. Rank(S)[x] \in Nat /\ Rank(S)[y] \in Nat
      BY <1>1, <1>2
    <2> QED BY <2>2, <2>3
  <1>4. Rank(S) \in Injection(S, 1..n)
    BY <1>2, <1>3 DEF Injection, IsInjective
  <1>5. Rank(S) \in Surjection(S, 1..n)
    BY <1>1, <1>4, FS_Injection
  <1> QED BY <1>5 DEF Surjection

LEMMA InOrderSorts ==
    ASSUME NEW S \in SUBSET Nat, IsFiniteSet(S)
    PROVE  /\ InOrder(S) \in Seq(S) /\ Increasing(InOrder(S))
           /\ \A x \in S : \E i \in 1..Len(InOrder(S)) : InOrder(S)[i] = x
  <1> DEFINE n == Cardinality(S)
             Sorted(q) == \A i, j \in DOMAIN q : i < j => q[i] < q[j]
             p == [k \in 1..n |-> CHOOSE x \in S : Rank(S)[x] = k]
  <1>1. n \in Nat /\ IsFiniteSet(1..n) /\ Cardinality(1..n) = n
    BY FS_CardinalityType, FS_Interval
  <1>2. \A k \in 1..n : p[k] \in S /\ Rank(S)[p[k]] = k
    BY RankOnto
  <1>3. p \in [1..n -> S]
    BY <1>2
  <1>4. Sorted(p)
    <2> SUFFICES ASSUME NEW i \in 1..n, NEW j \in 1..n, i < j, ~(p[i] < p[j]) PROVE FALSE
      BY <1>3
    <2>1. p[i] \in S /\ p[j] \in S /\ Rank(S)[p[i]] = i /\ Rank(S)[p[j]] = j
      BY <1>2
    <2> HIDE DEF p
    <2>2. p[j] < p[i] \/ p[j] = p[i]
      <3>1. p[i] \in Nat /\ p[j] \in Nat
        BY <2>1
      <3> QED BY <3>1
    <2>3. Rank(S)[p[j]] < Rank(S)[p[i]] \/ i = j
      BY <2>1, <2>2, RankIncreases
    <2> QED BY <2>1, <2>3
  <1> HIDE DEF p
  <1> DEFINE q == InOrder(S)
  <1>5. q \in [1..n -> S] /\ Sorted(q)
    BY <1>3, <1>4 DEF InOrder
  <1> HIDE DEF q
  <1>6. q \in Seq(S) /\ Len(q) = n
    BY <1>1, <1>5
  <1>7. \A i, j \in 1..n : q[i] = q[j] => i = j
    <2> SUFFICES ASSUME NEW i \in 1..n, NEW j \in 1..n, i # j PROVE q[i] # q[j]
      OBVIOUS
    <2>1. (i < j \/ j < i) /\ q[i] \in Nat /\ q[j] \in Nat
      <3>1. q[i] \in S /\ q[j] \in S
        BY <1>5
      <3>2. \A z \in S : z \in Nat
        OBVIOUS
      <3>3. i < j \/ j < i
        BY <1>1
      <3> QED BY <3>1, <3>2, <3>3
    <2>2. q[i] < q[j] \/ q[j] < q[i]
      BY <2>1, <1>5
    <2> QED BY <2>1, <2>2
  <1>8. q \in Injection(1..n, S)
    BY <1>5, <1>7 DEF Injection, IsInjective
  <1>9. q \in Surjection(1..n, S)
    BY <1>1, <1>8, FS_Injection
  <1> QED BY <1>5, <1>6, <1>9 DEF Increasing, Surjection, q

-------------------------------------------------------------------------------
\* The rows behind a cursor, in order.
LEMMA SinceRows ==
    ASSUME TypeOK, NEW c \in Nat
    PROVE  /\ Since(c) \in Seq(1..MaxRows) /\ Increasing(Since(c))
           /\ \A i \in 1..Len(Since(c)) :
                 Since(c)[i] > c /\ \E n \in 1..Len(log) : log[n] = Since(c)[i]
           /\ run # "deleted" => \A n \in 1..Len(log) :
                 log[n] > c => \E i \in 1..Len(Since(c)) : Since(c)[i] = log[n]
           /\ run = "deleted" => Since(c) = <<>>
  <1> DEFINE S == {i \in Rows : i > c}
  <1>1. /\ S \in SUBSET (1..MaxRows)
        /\ \A x \in S : x > c /\ \E n \in 1..Len(log) : log[n] = x
        /\ run # "deleted" => \A n \in 1..Len(log) : log[n] > c => log[n] \in S
        /\ run = "deleted" => S = {}
    <2>1. log \in Seq(1..MaxRows) /\ DOMAIN log = 1..Len(log)
          /\ \A n \in 1..Len(log) : log[n] \in 1..MaxRows
      BY ElementOfSeq, LenProperties DEF TypeOK
    <2>2. ToSet(log) = {log[n] : n \in 1..Len(log)}
      BY <2>1 DEF ToSet
    <2>3. Rows = IF run = "deleted" THEN {} ELSE {log[n] : n \in 1..Len(log)}
      BY <2>2 DEF Rows
    <2> QED BY <2>1, <2>3
  <1>2. S \in SUBSET Nat /\ IsFiniteSet(S)
    <2>1. IsFiniteSet(1..MaxRows)
      BY BoundsAssumption, FS_Interval
    <2>2. IsFiniteSet(S)
      BY <1>1, <2>1, FS_Subset
    <2> QED BY <1>1, <2>2
  <1> HIDE DEF S
  <1> DEFINE q == InOrder(S)
  <1>3. /\ q \in Seq(S) /\ Increasing(q)
        /\ \A x \in S : \E i \in 1..Len(q) : q[i] = x
    BY <1>2, InOrderSorts
  <1>4. Since(c) = q
    BY DEF Since, S
  <1> HIDE DEF q
  <1>5. q \in Seq(1..MaxRows) /\ \A i \in 1..Len(q) : q[i] \in S
    BY <1>1, <1>3, SeqMonotonic, ElementOfSeq
  <1>6. run = "deleted" => q = <<>>
    <2> SUFFICES ASSUME q # <<>>, S = {} PROVE FALSE
      BY <1>1
    <2>1. Len(q) \in Nat \ {0}
      BY <1>3, EmptySeq
    <2> QED BY <2>1, <1>5
  <1> QED BY <1>1, <1>3, <1>4, <1>5, <1>6

\* There are never more rows than ids.
LEMMA LogFits ==
    ASSUME TypeOK, IdsFresh
    PROVE  Len(log) \in 0..MaxRows
  <1>1. Len(log) \in Nat /\ MaxRows \in Nat /\ log \in [1..Len(log) -> 1..MaxRows]
    BY BoundsAssumption DEF TypeOK
  <1>2. log \in Injection(1..Len(log), 1..MaxRows)
    BY <1>1 DEF IdsFresh, Injection, IsInjective
  <1>3. /\ IsFiniteSet(1..MaxRows) /\ Cardinality(1..MaxRows) = MaxRows
        /\ Cardinality(1..Len(log)) = Len(log)
    <2>1. \A n \in Nat : IsFiniteSet(1..n) /\ Cardinality(1..n) = n
      BY FS_Interval
    <2> QED BY <1>1, <2>1
  <1>4. Cardinality(1..Len(log)) <= Cardinality(1..MaxRows)
    BY <1>2, <1>3, FS_Injection
  <1> QED BY <1>1, <1>3, <1>4

StreamPCs == {"connect", "fetch", "status", "flush", "wait", "done", "gone"}
StreamRow == [pc : StreamPCs, cursor : 0..MaxRows, sent : Seq(1..MaxRows),
              listening : BOOLEAN, heard : BOOLEAN, upto : 0..MaxRows]
WriterRow == [pc : {"idle", "insert", "notify"}, id : 0..MaxRows]

LEMMA RowsTyped ==
    ASSUME TypeOK
    PROVE  /\ stream \in [Streams -> StreamRow] /\ writer \in [Writers -> WriterRow]
           /\ \A s \in Streams :
                 /\ stream[s].cursor \in Nat /\ stream[s].upto \in Nat
                 /\ stream[s].sent \in Seq(1..MaxRows) /\ stream[s].sent \in Seq(Nat)
                 /\ Len(stream[s].sent) \in Nat
                 /\ \A i \in 1..Len(stream[s].sent) : stream[s].sent[i] \in Nat
           /\ log \in Seq(1..MaxRows) /\ Len(log) \in Nat
           /\ \A n \in 1..Len(log) : log[n] \in 1..MaxRows
  <1>1. stream \in [Streams -> StreamRow] /\ writer \in [Writers -> WriterRow]
        /\ log \in Seq(1..MaxRows) /\ Len(log) \in Nat
        /\ \A n \in 1..Len(log) : log[n] \in 1..MaxRows
    BY ElementOfSeq, LenProperties DEF TypeOK, StreamRow, StreamPCs, WriterRow
  <1>2. ASSUME NEW s \in Streams
        PROVE  /\ stream[s].cursor \in 0..MaxRows /\ stream[s].upto \in 0..MaxRows
               /\ stream[s].sent \in Seq(1..MaxRows)
    BY <1>1 DEF StreamRow
  <1>3. ASSUME NEW s \in Streams
        PROVE  /\ stream[s].sent \in Seq(Nat) /\ Len(stream[s].sent) \in Nat
               /\ \A i \in 1..Len(stream[s].sent) : stream[s].sent[i] \in 1..MaxRows
    BY <1>2, ElementOfSeq, LenProperties, SeqMonotonic, 1..MaxRows \subseteq Nat
  <1> QED BY <1>1, <1>2, <1>3

\* What a step of one page makes of it.
LEMMA StreamMoves ==
    ASSUME TypeOK, NEW s \in Streams, NEW q \in StreamRow, stream' = [stream EXCEPT ![s] = q]
    PROVE  /\ stream' \in [Streams -> StreamRow] /\ stream'[s] = q
           /\ \A t \in Streams : t # s => stream'[t] = stream[t]
  BY RowsTyped

LEMMA InvInit == Init => IInv
  <1> SUFFICES ASSUME Init PROVE IInv
    OBVIOUS
  <1>0. MaxRows \in Nat /\ MaxEnds \in Nat /\ Len(log) = 0 /\ 1..0 = {}
    BY BoundsAssumption DEF Init
  <1>1. stream \in [Streams -> StreamRow]
    BY <1>0 DEF Init, NewStream, StreamRow, StreamPCs
  <1>2. TypeOK
    BY <1>0, <1>1 DEF Init, TypeOK, NoWrite, StreamRow, StreamPCs
  <1>3. IdsFresh
    BY <1>0 DEF Init, IdsFresh, NoWrite
  <1>4. \A s \in Streams : /\ Len(stream[s].sent) = 0 /\ stream[s].cursor = 0
                           /\ stream[s].upto = 0 /\ ~At(s, "done")
    BY DEF Init, NewStream, At
  <1>5. SentInOrder /\ CursorOfRow /\ RowsBehindCursor /\ CountedRows
    BY <1>0, <1>4 DEF SentInOrder, Increasing, CursorOfRow, RowsBehindCursor, CountedRows
  <1> QED BY <1>2, <1>3, <1>5 DEF IInv

-------------------------------------------------------------------------------
(***************************************************************************)
(* Steps.  Most leave the log and what the pages were sent alone.          *)
(***************************************************************************)
PagesKept ==
    /\ log' = log /\ (run' # "deleted" => run # "deleted")
    /\ \A s \in Streams :
          /\ stream'[s].cursor = stream[s].cursor /\ stream'[s].sent = stream[s].sent
          /\ stream'[s].upto = stream[s].upto \/ stream'[s].upto = Len(log)
          /\ stream'[s].pc \notin {"done", "gone"} => stream[s].pc \notin {"done", "gone"}
          /\ stream'[s].pc = "done" =>
                stream[s].pc = "done" /\ stream'[s].upto = stream[s].upto

LEMMA KeptPages ==
    ASSUME TypeOK, SentInOrder, CursorOfRow, RowsBehindCursor, CountedRows, PagesKept
    PROVE  SentInOrder' /\ CursorOfRow' /\ RowsBehindCursor' /\ CountedRows'
  <1>1. SentInOrder'
    BY DEF SentInOrder, PagesKept, Increasing, Open
  <1>2. CursorOfRow'
    BY DEF CursorOfRow, PagesKept
  <1>3. RowsBehindCursor'
    BY DEF RowsBehindCursor, PagesKept, Sent, Overtaken
  <1>4. CountedRows'
    <2> SUFFICES ASSUME NEW s \in Streams
                 PROVE  /\ stream'[s].upto <= Len(log)
                        /\ At(s, "done")' /\ run' # "deleted" =>
                              \A n \in 1..stream'[s].upto : Sent(s, n)'
      BY DEF CountedRows, PagesKept
    <2>1. stream'[s].upto <= Len(log)
      BY RowsTyped DEF CountedRows, PagesKept
    <2>2. ASSUME At(s, "done")', run' # "deleted", NEW n \in 1..stream'[s].upto
          PROVE  Sent(s, n)'
      <3>1. stream'[s].upto = stream[s].upto /\ At(s, "done") /\ run # "deleted"
        BY <2>2 DEF PagesKept, At
      <3>2. Sent(s, n)
        BY <2>2, <3>1 DEF CountedRows
      <3> QED BY <3>2 DEF Sent, Overtaken, PagesKept
    <2> QED BY <2>1, <2>2
  <1> QED BY <1>1, <1>2, <1>3, <1>4

LEMMA RunStep ==
    ASSUME IInv, End \/ Restart \/ Delete
    PROVE  IInv'
  <1>1. PagesKept
    BY DEF End, Restart, Delete, PagesKept, IInv
  <1>2. TypeOK'
    BY BoundsAssumption DEF IInv, TypeOK, End, Restart, Delete
  <1>3. IdsFresh'
    BY DEF IInv, IdsFresh, End, Restart, Delete
  <1> QED BY <1>1, <1>2, <1>3, KeptPages DEF IInv

LEMMA WriterStep ==
    ASSUME IInv, NEW w \in Writers, BeginInsert(w) \/ Notify(w) \/ WriterCrash(w)
    PROVE  IInv'
  <1>0. /\ TypeOK /\ IdsFresh /\ stream \in [Streams -> StreamRow]
        /\ writer \in [Writers -> WriterRow]
        /\ \A n \in 1..Len(log) : log[n] \in 1..MaxRows
    BY RowsTyped DEF IInv
  <1>1. stream' \in [Streams -> StreamRow] /\ PagesKept
    <2>1. CASE Notify(w)
      <3>1. \A s \in Streams :
               stream'[s] = [stream[s] EXCEPT !.heard = @ \/ (stream[s].listening /\ Open(s))]
        BY <2>1 DEF Notify
      <3>2. \A s \in Streams : stream[s] \in StreamRow
        BY <1>0
      <3>3. ASSUME NEW s \in Streams
            PROVE  /\ stream'[s] \in StreamRow
                   /\ stream'[s].cursor = stream[s].cursor /\ stream'[s].sent = stream[s].sent
                   /\ stream'[s].upto = stream[s].upto /\ stream'[s].pc = stream[s].pc
        BY <3>1, <3>2 DEF StreamRow
      <3>4. stream' = [s \in Streams |-> stream'[s]]
        BY <2>1 DEF Notify
      <3> QED BY <2>1, <3>3, <3>4 DEF Notify, PagesKept
    <2>2. CASE BeginInsert(w) \/ WriterCrash(w)
      BY <2>2, <1>0 DEF BeginInsert, WriterCrash, PagesKept
    <2> QED BY <2>1, <2>2
  <1>2. /\ log' = log /\ run' = run /\ ends' = ends
        /\ \A v \in Writers : v # w => writer'[v] = writer[v]
    BY <1>0 DEF BeginInsert, Notify, WriterCrash
  <1>3. CASE BeginInsert(w)
    <2>1. /\ nextId' = nextId + 1 /\ nextId \in 1..MaxRows
          /\ writer' = [writer EXCEPT ![w] = [pc |-> "insert", id |-> nextId]]
      BY <1>3, BoundsAssumption DEF BeginInsert, IInv, TypeOK
    <2>2. writer'[w] = [pc |-> "insert", id |-> nextId] /\ writer' \in [Writers -> WriterRow]
      BY <2>1, <1>0, BoundsAssumption DEF WriterRow
    <2>3. nextId' \in 1..(MaxRows + 1)
      BY <2>1, BoundsAssumption
    <2>4. writer'[w].pc = "insert" /\ writer'[w].id = nextId
      BY <2>2
    <2>5. IdsFresh'
      <3>1. \A n \in 1..Len(log) : log[n] < nextId' /\ log[n] # nextId
        BY <2>1, <1>0 DEF IdsFresh
      <3>2. ASSUME NEW v \in Writers, writer'[v].pc = "insert"
            PROVE  /\ writer'[v].id \in 1..(nextId' - 1)
                   /\ \A n \in 1..Len(log) : log[n] # writer'[v].id
                   /\ v # w => writer'[v].id # nextId
        BY <2>1, <2>4, <3>1, <3>2, <1>0, <1>2 DEF IdsFresh
      <3>3. \A u, v \in Writers :
               writer'[u].pc = "insert" /\ writer'[v].pc = "insert"
                  /\ writer'[u].id = writer'[v].id => u = v
        BY <2>4, <3>2, <1>0, <1>2 DEF IdsFresh
      <3> QED BY <3>1, <3>2, <3>3, <1>2, <1>0 DEF IdsFresh
    <2>6. TypeOK'
      BY <1>1, <1>2, <2>2, <2>3, <1>0 DEF TypeOK, StreamRow, StreamPCs, WriterRow
    <2> QED BY <1>0, <1>1, <2>5, <2>6, KeptPages DEF IInv
  <1>4. CASE Notify(w) \/ WriterCrash(w)
    <2>1. nextId' = nextId /\ writer' = [writer EXCEPT ![w] = NoWrite]
      BY <1>4 DEF Notify, WriterCrash
    <2>2. writer'[w].pc = "idle" /\ writer' \in [Writers -> WriterRow]
      BY <2>1, <1>0, BoundsAssumption DEF NoWrite, WriterRow
    <2>3. IdsFresh'
      BY <2>1, <2>2, <1>2, <1>0 DEF IdsFresh
    <2>4. TypeOK'
      BY <1>1, <1>2, <2>1, <2>2, <1>0 DEF TypeOK, StreamRow, StreamPCs, WriterRow
    <2> QED BY <1>0, <1>1, <2>3, <2>4, KeptPages DEF IInv
  <1> QED BY <1>3, <1>4

\* A row that commits behind a cursor is overtaken by the row of the cursor.
LEMMA CommitStep ==
    ASSUME IInv, NEW w \in Writers, CommitInsert(w)
    PROVE  IInv'
  <1>0. /\ TypeOK /\ IdsFresh /\ stream \in [Streams -> StreamRow]
        /\ writer \in [Writers -> WriterRow] /\ nextId \in 1..(MaxRows + 1)
        /\ log \in Seq(1..MaxRows) /\ Len(log) \in Nat /\ MaxRows \in Nat
        /\ \A n \in 1..Len(log) : log[n] \in 1..MaxRows
    BY RowsTyped, BoundsAssumption DEF IInv, TypeOK
  <1>1. /\ run' = run /\ ends' = ends /\ stream' = stream /\ nextId' = nextId
        /\ writer[w].pc = "insert"
        /\ writer' \in [Writers -> WriterRow] /\ writer'[w].pc # "insert"
        /\ \A v \in Writers : v # w => writer'[v] = writer[v]
    <2>1. CASE run = "deleted"
      BY <2>1, <1>0 DEF CommitInsert, NoWrite, WriterRow
    <2>2. CASE run # "deleted"
      <3>1. writer' = [writer EXCEPT ![w] = [writer[w] EXCEPT !.pc = "notify"]]
        BY <2>2, <1>0 DEF CommitInsert
      <3>2. [writer[w] EXCEPT !.pc = "notify"] \in WriterRow
        BY <1>0 DEF WriterRow
      <3>3. [writer[w] EXCEPT !.pc = "notify"].pc = "notify"
        BY <1>0 DEF WriterRow
      <3> HIDE DEF WriterRow
      <3> QED BY <3>1, <3>2, <3>3, <1>0 DEF CommitInsert
    <2> QED BY <2>1, <2>2
  <1>i. \A v \in Writers : writer'[v].pc = "insert" =>
            v # w /\ writer'[v] = writer[v] /\ writer[v].pc = "insert"
    BY <1>1
  <1>2. CASE run = "deleted"
    <2>1. log' = log /\ PagesKept
      BY <1>1, <1>2 DEF CommitInsert, PagesKept
    <2>2. IdsFresh'
      <3>1. nextId' = nextId /\ log' = log /\ IdsFresh
        BY <1>0, <1>1, <2>1
      <3> QED BY <3>1, <1>i DEF IdsFresh
    <2>3. TypeOK'
      BY <1>0, <1>1, <2>1 DEF TypeOK, WriterRow
    <2> QED BY <1>0, <2>1, <2>2, <2>3, KeptPages DEF IInv
  <1>3. CASE run # "deleted"
    <2> DEFINE id == writer[w].id
               L  == Len(log)
    <2>1. id \in 1..(nextId - 1) /\ id \in 1..MaxRows /\ \A n \in 1..L : log[n] # id
      <3>1. id \in 1..(nextId - 1) /\ \A n \in 1..L : log[n] # id
        BY <1>1 DEF IdsFresh, IInv
      <3> QED BY <3>1, <1>0
    <2>2. log' = Append(log, id)
      BY <1>3 DEF CommitInsert
    <2>3. /\ log' \in Seq(1..MaxRows) /\ Len(log') = L + 1 /\ log'[L + 1] = id
          /\ \A n \in 1..L : log'[n] = log[n]
      BY <2>1, <2>2, <1>0, AppendProperties
    <2> HIDE DEF id
    <2>4. \A n \in 1..(L + 1) : n = L + 1 \/ n \in 1..L
      BY <1>0
    <2>5. TypeOK'
      BY <1>0, <1>1, <2>3 DEF TypeOK, WriterRow
    <2>6. IdsFresh'
      <3>1. \A m, n \in 1..(L + 1) : log'[m] = log'[n] => m = n
        BY <2>1, <2>3, <2>4 DEF IInv, IdsFresh
      <3>2. \A n \in 1..(L + 1) : log'[n] < nextId
        <4>1. id < nextId
          BY <2>1, <1>0
        <4>2. \A n \in 1..L : log[n] < nextId
          BY <1>0 DEF IdsFresh
        <4> QED BY <4>1, <4>2, <2>3, <2>4
      <3>3. ASSUME NEW v \in Writers, writer'[v].pc = "insert"
            PROVE  /\ writer'[v].id \in 1..(nextId - 1)
                   /\ \A n \in 1..(L + 1) : log'[n] # writer'[v].id
        <4>0. v # w /\ writer'[v] = writer[v] /\ writer[v].pc = "insert"
              /\ writer[w].pc = "insert" /\ IdsFresh
          BY <3>3, <1>i, <1>0, <1>1
        <4>1. writer[v].id # id
          BY <4>0 DEF IdsFresh, id
        <4>2. writer[v].id \in 1..(nextId - 1) /\ \A n \in 1..L : log[n] # writer[v].id
          BY <4>0 DEF IdsFresh
        <4> QED BY <4>0, <4>1, <4>2, <2>3, <2>4
      <3>4. \A u, v \in Writers :
               writer'[u].pc = "insert" /\ writer'[v].pc = "insert"
                  /\ writer'[u].id = writer'[v].id => u = v
        BY <1>0, <1>i DEF IdsFresh
      <3> QED BY <3>1, <3>2, <3>3, <3>4, <2>3, <1>1 DEF IdsFresh
    <2>7. ASSUME NEW s \in Streams, NEW n \in 1..L, Sent(s, n) PROVE Sent(s, n)'
      <3>1. CASE \E i \in 1..Len(stream[s].sent) : stream[s].sent[i] = log[n]
        BY <3>1, <2>3, <1>1 DEF Sent
      <3>2. CASE Overtaken(n)
        <4>1. PICK m \in 1..(n - 1) : log[m] > log[n]
          BY <3>2 DEF Overtaken
        <4>2. m \in 1..L
          <5>1. L \in Nat
            BY <1>0
          <5> HIDE DEF L
          <5> QED BY <5>1
        <4> QED BY <4>1, <4>2, <2>3 DEF Sent, Overtaken
      <3> QED BY <2>7, <3>1, <3>2 DEF Sent
    <2>8. SentInOrder'
      BY <1>1 DEF IInv, SentInOrder, Increasing, Open
    <2>9. CursorOfRow'
      <3> SUFFICES ASSUME NEW s \in Streams, stream[s].cursor # 0
                   PROVE  \E n \in 1..(L + 1) : log'[n] = stream[s].cursor
        BY <1>1, <2>3 DEF CursorOfRow
      <3>1. PICK n \in 1..L : log[n] = stream[s].cursor
        BY DEF IInv, CursorOfRow
      <3> QED BY <3>1, <2>3, <1>0
    <2>10. RowsBehindCursor'
      <3> SUFFICES ASSUME NEW s \in Streams, NEW n \in 1..(L + 1),
                          log'[n] <= stream[s].cursor
                   PROVE  Sent(s, n)'
        BY <1>1, <2>3 DEF RowsBehindCursor
      <3>1. CASE n \in 1..L
        BY <3>1, <2>3, <2>7 DEF IInv, RowsBehindCursor
      <3>2. CASE n = L + 1
        <4>1. stream[s].cursor # 0 /\ id <= stream[s].cursor /\ stream[s].cursor \in Nat
          BY <3>2, <2>1, <2>3, <1>0, RowsTyped
        <4>2. PICK m \in 1..L : log[m] = stream[s].cursor
          BY <4>1 DEF IInv, CursorOfRow
        <4>3. log'[m] > log'[n] /\ m \in 1..(n - 1)
          BY <3>2, <4>1, <4>2, <2>1, <2>3, <1>0
        <4> QED BY <4>3 DEF Sent, Overtaken
      <3> QED BY <3>1, <3>2, <2>4
    <2>11. CountedRows'
      <3> SUFFICES ASSUME NEW s \in Streams
                   PROVE  /\ stream[s].upto <= L + 1
                          /\ At(s, "done") => \A n \in 1..stream[s].upto : Sent(s, n)'
        BY <1>1, <2>3 DEF CountedRows, At
      <3>1. stream[s].upto <= L /\ stream[s].upto \in Nat
        BY RowsTyped, <1>0 DEF IInv, CountedRows
      <3>2. \A n \in 1..stream[s].upto : n \in 1..L
        BY <3>1, <1>0
      <3>3. At(s, "done") => \A n \in 1..stream[s].upto : Sent(s, n)
        BY <1>3 DEF IInv, CountedRows
      <3> QED BY <3>1, <3>2, <3>3, <2>7, <1>0
    <2> QED BY <2>5, <2>6, <2>8, <2>9, <2>10, <2>11 DEF IInv
  <1> QED BY <1>2, <1>3

\* Steps of a page that send nothing.
LEMMA QuietStep ==
    ASSUME IInv, NEW s \in Streams,
           Connect(s) \/ CheckStatus(s) \/ Wake(s) \/ Ping(s) \/ Leave(s)
    PROVE  IInv'
  <1>0. TypeOK /\ IdsFresh /\ stream \in [Streams -> StreamRow] /\ Len(log) \in 0..MaxRows
    BY RowsTyped, LogFits DEF IInv
  <1> DEFINE Quiet(q) ==
          /\ q \in StreamRow /\ q.pc # "done"
          /\ q.pc # "gone" => Open(s)
          /\ q.cursor = stream[s].cursor /\ q.sent = stream[s].sent
          /\ q.upto = stream[s].upto \/ q.upto = Len(log)
  <1>1. \E q : Quiet(q) /\ stream' = [stream EXCEPT ![s] = q]
    <2>1. stream[s] \in StreamRow
      BY <1>0
    <2>2. CASE Connect(s)
      <3>1. PICK ok \in BOOLEAN :
               stream' = [stream EXCEPT ![s] = [stream[s] EXCEPT !.pc = "fetch", !.listening = ok]]
        BY <2>2, <1>0 DEF Connect
      <3>2. Quiet([stream[s] EXCEPT !.pc = "fetch", !.listening = ok])
        BY <2>1, <2>2 DEF StreamRow, StreamPCs, Connect, At, Open
      <3> QED BY <3>1, <3>2
    <2>3. CASE CheckStatus(s)
      <3> DEFINE q == [stream[s] EXCEPT !.pc = IF SeesEnd(s) THEN "flush" ELSE "wait",
                                        !.heard = SeesEnd(s) /\ @, !.upto = Len(log)]
      <3>1. stream' = [stream EXCEPT ![s] = q]
        BY <2>1, <2>3, <1>0 DEF CheckStatus
      <3>2. (SeesEnd(s) /\ stream[s].heard) \in BOOLEAN
        BY <2>1 DEF StreamRow, SeesEnd
      <3>3. Quiet(q)
        BY <2>1, <2>3, <3>2, <1>0 DEF StreamRow, StreamPCs, CheckStatus, At, Open
      <3> QED BY <3>1, <3>3
    <2>4. CASE Wake(s) \/ Ping(s)
      <3>1. stream' = [stream EXCEPT ![s] = [stream[s] EXCEPT !.pc = "fetch"]]
        BY <2>4, <1>0 DEF Wake, Ping
      <3>2. Quiet([stream[s] EXCEPT !.pc = "fetch"])
        BY <2>1, <2>4 DEF StreamRow, StreamPCs, Wake, Ping, At, Open
      <3> QED BY <3>1, <3>2
    <2>5. CASE Leave(s)
      <3>1. stream' = [stream EXCEPT ![s] = [stream[s] EXCEPT !.pc = "gone", !.heard = FALSE]]
        BY <2>5, <1>0 DEF Leave
      <3>2. Quiet([stream[s] EXCEPT !.pc = "gone", !.heard = FALSE])
        BY <2>1, <2>5 DEF StreamRow, StreamPCs, Leave, Open
      <3> QED BY <3>1, <3>2
    <2> QED BY <2>2, <2>3, <2>4, <2>5
  <1>2. PICK q : Quiet(q) /\ stream' = [stream EXCEPT ![s] = q]
    BY <1>1
  <1>4. /\ stream' \in [Streams -> StreamRow] /\ stream'[s] = q
        /\ \A t \in Streams : t # s => stream'[t] = stream[t]
    BY <1>0, <1>2, StreamMoves
  <1>5. run' = run /\ ends' = ends /\ nextId' = nextId /\ writer' = writer /\ log' = log
    BY DEF Connect, CheckStatus, Wake, Ping, Leave
  <1>6. PagesKept
    BY <1>2, <1>4, <1>5 DEF PagesKept, Open
  <1>7. TypeOK'
    BY <1>0, <1>4, <1>5 DEF TypeOK, StreamRow, StreamPCs
  <1>8. IdsFresh'
    BY <1>0, <1>5 DEF IdsFresh
  <1> QED BY <1>6, <1>7, <1>8, KeptPages DEF IInv

\* What a page has been sent after the rows behind its cursor are sent to it.
LEMMA SendRows ==
    ASSUME IInv, NEW s \in Streams, Open(s)
    PROVE  LET new  == Since(stream[s].cursor)
               sent == stream[s].sent \o new IN
           /\ sent \in Seq(1..MaxRows) /\ Increasing(sent)
           /\ \A x : (\E i \in 1..Len(sent) : sent[i] = x) <=>
                        \/ \E i \in 1..Len(stream[s].sent) : stream[s].sent[i] = x
                        \/ \E i \in 1..Len(new) : new[i] = x
           /\ Cursor(s, new) \in 0..MaxRows
           /\ new = <<>> => Cursor(s, new) = stream[s].cursor
           /\ new # <<>> => \E i \in 1..Len(new) : new[i] = Cursor(s, new)
           /\ stream[s].cursor <= Cursor(s, new)
           /\ \A i \in 1..Len(sent) : sent[i] <= Cursor(s, new)
  <1> DEFINE c    == stream[s].cursor
             old  == stream[s].sent
             new  == Since(c)
             sent == old \o new
             last == Cursor(s, new)
             a    == Len(old)
             b    == Len(new)
  <1>1. /\ c \in 0..MaxRows /\ c \in Nat /\ MaxRows \in Nat
        /\ old \in Seq(1..MaxRows) /\ Increasing(old)
        /\ \A i \in 1..a : old[i] <= c
    BY RowsTyped, BoundsAssumption DEF IInv, SentInOrder, StreamRow
  <1>2. new \in Seq(1..MaxRows) /\ Increasing(new) /\ \A i \in 1..b : new[i] > c
    BY <1>1, SinceRows DEF IInv
  <1> HIDE DEF c, old, new
  <1>3. /\ a \in Nat /\ b \in Nat
        /\ \A i \in 1..a : old[i] \in 1..MaxRows
        /\ \A i \in 1..b : new[i] \in 1..MaxRows
    BY <1>1, <1>2, ElementOfSeq, LenProperties
  <1>4. /\ sent \in Seq(1..MaxRows) /\ Len(sent) = a + b
        /\ \A i \in 1..(a + b) : sent[i] = IF i <= a THEN old[i] ELSE new[i - a]
    BY <1>1, <1>2, ConcatProperties
  <1> HIDE DEF sent
  <1>5. /\ \A i \in 1..a : i \in 1..(a + b) /\ sent[i] = old[i]
        /\ \A i \in 1..b : a + i \in 1..(a + b) /\ sent[a + i] = new[i]
    <2>1. \A i \in 1..a : i \in 1..(a + b) /\ i <= a
      BY <1>3
    <2>2. \A i \in 1..b : a + i \in 1..(a + b) /\ ~(a + i <= a) /\ (a + i) - a = i
      BY <1>3
    <2> QED BY <1>4, <2>1, <2>2
  <1>6. \A i \in 1..(a + b) : i \in 1..a \/ (i - a \in 1..b /\ sent[i] = new[i - a])
    <2>1. \A i \in 1..(a + b) : i \in 1..a \/ (i - a \in 1..b /\ ~(i <= a))
      BY <1>3
    <2> QED BY <1>4, <2>1
  <1>7. Increasing(sent)
    <2> SUFFICES ASSUME NEW i \in 1..(a + b), NEW j \in 1..(a + b), i < j
                 PROVE  sent[i] < sent[j]
      BY <1>4 DEF Increasing
    <2> HIDE DEF a, b
    <2>1. CASE j \in 1..a
      <3>1. i \in 1..a
        BY <2>1, <1>3
      <3> QED BY <3>1, <2>1, <1>1, <1>5 DEF Increasing, a
    <2>2. CASE i \in 1..a /\ j - a \in 1..b /\ sent[j] = new[j - a]
      <3>1. sent[i] = old[i] /\ old[i] <= c /\ old[i] \in 1..MaxRows
        BY <2>2, <1>1, <1>3, <1>5 DEF a
      <3>2. sent[j] = new[j - a] /\ new[j - a] > c /\ new[j - a] \in 1..MaxRows
        BY <2>2, <1>2, <1>3 DEF b
      <3> QED BY <3>1, <3>2, <1>1
    <2>3. CASE i - a \in 1..b /\ j - a \in 1..b
               /\ sent[i] = new[i - a] /\ sent[j] = new[j - a]
      <3>1. i - a < j - a
        BY <1>3
      <3> QED BY <3>1, <2>3, <1>2 DEF Increasing, b
    <2> QED BY <2>1, <2>2, <2>3, <1>6
  <1>8. ASSUME NEW x
        PROVE  (\E i \in 1..(a + b) : sent[i] = x) <=>
                   (\E i \in 1..a : old[i] = x) \/ (\E i \in 1..b : new[i] = x)
    BY <1>5, <1>6
  <1>9. CASE new = <<>>
    <2>1. last = c /\ b = 0
      BY <1>9 DEF Cursor, c
    <2>2. \A i \in 1..(a + b) : sent[i] <= c
      BY <2>1, <1>1, <1>3, <1>5
    <2> QED BY <2>1, <2>2, <1>1, <1>4, <1>7, <1>8, <1>9 DEF c, old, new, sent
  <1>10. CASE new # <<>>
    <2>1. b \in 1..b /\ last = new[b]
      <3>1. b \in Nat \ {0}
        BY <1>2, <1>10, EmptySeq
      <3> QED BY <3>1, <1>10 DEF Cursor, Last
    <2>2. last \in 1..MaxRows /\ last > c
      BY <2>1, <1>2, <1>3
    <2>3. \A i \in 1..b : new[i] <= last
      <3>1. \A i \in 1..b : i = b \/ i < b
        BY <1>3
      <3>2. \A i \in 1..b : new[i] \in Nat
        BY <1>3
      <3> QED BY <3>1, <3>2, <2>1, <1>2 DEF Increasing
    <2>4. \A i \in 1..a : old[i] <= last
      BY <2>2, <1>1, <1>3
    <2>5. \A i \in 1..(a + b) : sent[i] <= last
      BY <2>3, <2>4, <1>5, <1>6
    <2>6. c <= last /\ last \in 0..MaxRows
      BY <2>2, <1>1
    <2> QED BY <2>1, <2>5, <2>6, <1>4, <1>7, <1>8, <1>10 DEF c, old, new, sent
  <1> QED BY <1>9, <1>10

LEMMA FetchStep ==
    ASSUME IInv, NEW s \in Streams, Fetch(s)
    PROVE  IInv'
  <1> DEFINE c    == stream[s].cursor
             new  == Since(c)
             sent == stream[s].sent \o new
             last == Cursor(s, new)
             q    == [stream[s] EXCEPT !.pc = "status", !.sent = sent, !.cursor = last]
  <1>0. /\ TypeOK /\ IdsFresh /\ stream \in [Streams -> StreamRow] /\ c \in Nat
        /\ \A n \in 1..Len(log) : log[n] \in 1..MaxRows
        /\ Open(s) /\ run' = run /\ ends' = ends /\ nextId' = nextId /\ writer' = writer
        /\ log' = log
    BY RowsTyped DEF IInv, Fetch, At, Open
  <1>1. /\ sent \in Seq(1..MaxRows) /\ Increasing(sent) /\ last \in 0..MaxRows
        /\ \A i \in 1..Len(sent) : sent[i] <= last
        /\ \A x : (\E i \in 1..Len(sent) : sent[i] = x) <=>
                     \/ \E i \in 1..Len(stream[s].sent) : stream[s].sent[i] = x
                     \/ \E i \in 1..Len(new) : new[i] = x
        /\ new = <<>> => last = c
        /\ new # <<>> => \E i \in 1..Len(new) : new[i] = last
    BY <1>0, SendRows
  <1>2. /\ \A i \in 1..Len(new) : \E n \in 1..Len(log) : log[n] = new[i]
        /\ run # "deleted" => \A n \in 1..Len(log) :
              log[n] > c => \E i \in 1..Len(new) : new[i] = log[n]
        /\ run = "deleted" => new = <<>>
    BY <1>0, SinceRows
  <1>3. stream' = [stream EXCEPT ![s] = q]
    BY <1>0 DEF Fetch
  <1> HIDE DEF c, new, sent, last
  <1>4. /\ q \in StreamRow /\ q.pc = "status" /\ q.sent = sent /\ q.cursor = last
        /\ q.upto = stream[s].upto
    <2>1. stream[s] \in StreamRow /\ sent \in Seq(1..MaxRows) /\ last \in 0..MaxRows
      BY <1>0, <1>1
    <2> QED BY <2>1 DEF StreamRow, StreamPCs
  <1> HIDE DEF q
  <1>5. /\ stream' \in [Streams -> StreamRow] /\ stream'[s] = q
        /\ \A t \in Streams : t # s => stream'[t] = stream[t]
    BY <1>0, <1>3, <1>4, StreamMoves
  <1>6. TypeOK' /\ IdsFresh'
    BY <1>0, <1>5 DEF TypeOK, IdsFresh, StreamRow, StreamPCs
  <1>7. \A t \in Streams, n \in 1..Len(log) : Sent(t, n) => Sent(t, n)'
    <2> SUFFICES ASSUME NEW t \in Streams, NEW n \in 1..Len(log), Sent(t, n) PROVE Sent(t, n)'
      OBVIOUS
    <2>1. CASE t = s
      BY <2>1, <1>0, <1>1, <1>4, <1>5 DEF Sent, Overtaken
    <2>2. CASE t # s
      BY <2>2, <1>0, <1>5 DEF Sent, Overtaken
    <2> QED BY <2>1, <2>2
  <1>8. SentInOrder'
    BY <1>1, <1>4, <1>5 DEF IInv, SentInOrder, Open
  <1>9. CursorOfRow'
    <2>1. last = 0 \/ \E n \in 1..Len(log) : log[n] = last
      <3>1. c = 0 \/ \E n \in 1..Len(log) : log[n] = c
        BY DEF IInv, CursorOfRow, c
      <3>2. last = c \/ \E i \in 1..Len(new) : new[i] = last
        BY <1>1
      <3> QED BY <3>1, <3>2, <1>2
    <2> QED BY <2>1, <1>0, <1>4, <1>5 DEF IInv, CursorOfRow
  <1>10. RowsBehindCursor'
    <2> SUFFICES ASSUME NEW t \in Streams, NEW n \in 1..Len(log),
                        log[n] <= stream'[t].cursor
                 PROVE  Sent(t, n)'
      BY <1>0 DEF RowsBehindCursor
    <2>1. CASE t # s \/ log[n] <= c
      BY <2>1, <1>5, <1>7 DEF IInv, RowsBehindCursor, c
    <2>2. CASE t = s /\ ~(log[n] <= c)
      <3>1. log[n] > c
        BY <2>2, <1>0
      <3>2. run # "deleted"
        BY <2>2, <1>1, <1>2, <1>4, <1>5
      <3>3. \E i \in 1..Len(sent) : sent[i] = log[n]
        BY <3>1, <3>2, <1>1, <1>2
      <3> QED BY <3>3, <2>2, <1>0, <1>4, <1>5 DEF Sent
    <2> QED BY <2>1, <2>2
  <1>11. CountedRows'
    <2> SUFFICES ASSUME NEW t \in Streams
                 PROVE  /\ stream'[t].upto <= Len(log)
                        /\ At(t, "done")' /\ run # "deleted" =>
                              \A n \in 1..stream'[t].upto : Sent(t, n)'
      BY <1>0 DEF CountedRows
    <2>1. CASE t = s
      BY <2>1, <1>4, <1>5 DEF IInv, CountedRows, At
    <2>2. CASE t # s
      <3>1. stream'[t] = stream[t] /\ stream[t].upto <= Len(log)
        BY <2>2, <1>5 DEF IInv, CountedRows
      <3>2. \A n \in 1..stream[t].upto : n \in 1..Len(log)
        BY <3>1, RowsTyped, <1>0
      <3> QED BY <3>1, <3>2, <1>7 DEF IInv, CountedRows, At
    <2> QED BY <2>1, <2>2
  <1> QED BY <1>6, <1>8, <1>9, <1>10, <1>11 DEF IInv

LEMMA FlushStep ==
    ASSUME IInv, NEW s \in Streams, Flush(s)
    PROVE  IInv'
  <1> DEFINE c    == stream[s].cursor
             new  == Since(c)
             sent == stream[s].sent \o new
             q    == [stream[s] EXCEPT !.pc = "done", !.sent = sent]
  <1>0. /\ TypeOK /\ IdsFresh /\ stream \in [Streams -> StreamRow] /\ c \in Nat
        /\ \A n \in 1..Len(log) : log[n] \in 1..MaxRows
        /\ Open(s) /\ run' = run /\ ends' = ends /\ nextId' = nextId /\ writer' = writer
        /\ log' = log
    BY RowsTyped DEF IInv, Flush, At, Open
  <1>1. /\ sent \in Seq(1..MaxRows) /\ Increasing(sent)
        /\ \A x : (\E i \in 1..Len(sent) : sent[i] = x) <=>
                     \/ \E i \in 1..Len(stream[s].sent) : stream[s].sent[i] = x
                     \/ \E i \in 1..Len(new) : new[i] = x
    BY <1>0, SendRows
  <1>2. run # "deleted" => \A n \in 1..Len(log) :
           log[n] > c => \E i \in 1..Len(new) : new[i] = log[n]
    BY <1>0, SinceRows
  <1>3. stream' = [stream EXCEPT ![s] = q]
    BY <1>0 DEF Flush
  <1> HIDE DEF c, new, sent
  <1>4. /\ q \in StreamRow /\ q.pc = "done" /\ q.sent = sent /\ q.cursor = c
        /\ q.upto = stream[s].upto
    <2>1. stream[s] \in StreamRow /\ sent \in Seq(1..MaxRows)
      BY <1>0, <1>1
    <2> QED BY <2>1 DEF StreamRow, StreamPCs, c
  <1> HIDE DEF q
  <1>5. /\ stream' \in [Streams -> StreamRow] /\ stream'[s] = q
        /\ \A t \in Streams : t # s => stream'[t] = stream[t]
    BY <1>0, <1>3, <1>4, StreamMoves
  <1>6. TypeOK' /\ IdsFresh'
    BY <1>0, <1>5 DEF TypeOK, IdsFresh, StreamRow, StreamPCs
  <1>7. \A t \in Streams, n \in 1..Len(log) : Sent(t, n) => Sent(t, n)'
    <2> SUFFICES ASSUME NEW t \in Streams, NEW n \in 1..Len(log), Sent(t, n) PROVE Sent(t, n)'
      OBVIOUS
    <2>1. CASE t = s
      BY <2>1, <1>0, <1>1, <1>4, <1>5 DEF Sent, Overtaken
    <2>2. CASE t # s
      BY <2>2, <1>0, <1>5 DEF Sent, Overtaken
    <2> QED BY <2>1, <2>2
  <1>8. SentInOrder'
    BY <1>1, <1>4, <1>5 DEF IInv, SentInOrder, Open
  <1>9. CursorOfRow'
    BY <1>0, <1>4, <1>5 DEF IInv, CursorOfRow, c
  <1>10. RowsBehindCursor'
    BY <1>0, <1>4, <1>5, <1>7 DEF IInv, RowsBehindCursor, c
  <1>11. CountedRows'
    <2> SUFFICES ASSUME NEW t \in Streams
                 PROVE  /\ stream'[t].upto <= Len(log)
                        /\ At(t, "done")' /\ run # "deleted" =>
                              \A n \in 1..stream'[t].upto : Sent(t, n)'
      BY <1>0 DEF CountedRows
    <2>1. stream'[t].upto = stream[t].upto /\ stream[t].upto <= Len(log)
      BY <1>4, <1>5 DEF IInv, CountedRows
    <2>2. \A n \in 1..stream[t].upto : n \in 1..Len(log)
      BY <2>1, RowsTyped, <1>0
    <2>3. CASE t # s
      BY <2>1, <2>2, <2>3, <1>5, <1>7 DEF IInv, CountedRows, At
    <2>4. ASSUME t = s, run # "deleted", NEW n \in 1..stream[t].upto PROVE Sent(t, n)'
      <3>1. n \in 1..Len(log)
        BY <2>2
      <3>2. CASE log[n] <= c
        BY <2>4, <3>1, <3>2, <1>7 DEF IInv, RowsBehindCursor, c
      <3>3. CASE log[n] > c
        <4>1. \E i \in 1..Len(sent) : sent[i] = log[n]
          BY <2>4, <3>1, <3>3, <1>1, <1>2
        <4> QED BY <4>1, <2>4, <1>0, <1>4, <1>5 DEF Sent
      <3> QED BY <3>1, <3>2, <3>3, <1>0
    <2> QED BY <2>1, <2>3, <2>4
  <1> QED BY <1>6, <1>8, <1>9, <1>10, <1>11 DEF IInv

LEMMA InvStep == ASSUME IInv, [Next]_vars PROVE IInv'
  <1>1. CASE UNCHANGED vars
    <2>1. PagesKept
      BY <1>1 DEF vars, PagesKept
    <2>2. TypeOK' /\ IdsFresh'
      BY <1>1 DEF vars, IInv, TypeOK, IdsFresh
    <2> QED BY <2>1, <2>2, KeptPages DEF IInv
  <1> QED BY <1>1, RunStep, WriterStep, CommitStep, QuietStep, FetchStep, FlushStep
          DEF Next, Write, Read

-------------------------------------------------------------------------------
(***************************************************************************)
(* Theorems.                                                               *)
(***************************************************************************)
\* The inductive invariant holds in every reachable state.
THEOREM StreamInvariant == Spec => []IInv
  BY InvInit, InvStep, PTL DEF Spec

\* Every variable has its type.
THEOREM StreamTypes == Spec => []TypeOK
  <1>1. IInv => TypeOK
    BY DEF IInv
  <1> QED BY <1>1, StreamInvariant, PTL

\* A page that is told "done" was sent, once each, all rows that had committed when
\* the status was read, but for those overtaken by a higher id, and those of a run
\* that was deleted.
THEOREM DoneComplete == Spec => []DoneIsComplete
  <1>1. ASSUME IInv PROVE DoneIsComplete
    <2> SUFFICES ASSUME NEW s \in Streams, At(s, "done")
                 PROVE  /\ IsInjective(stream[s].sent)
                        /\ run # "deleted" => \A n \in 1..stream[s].upto :
                              Overtaken(n) \/ log[n] \in ToSet(stream[s].sent)
      BY DEF DoneIsComplete
    <2> DEFINE q == stream[s].sent
    <2>1. /\ q \in Seq(Nat) /\ Len(q) \in Nat /\ Increasing(q) /\ DOMAIN q = 1..Len(q)
          /\ \A i \in 1..Len(q) : q[i] \in Nat
      BY <1>1, RowsTyped, LenProperties DEF IInv, SentInOrder
    <2> HIDE DEF q
    <2>2. \A i, j \in 1..Len(q) : q[i] = q[j] => i = j
      <3> SUFFICES ASSUME NEW i \in 1..Len(q), NEW j \in 1..Len(q), i # j PROVE q[i] # q[j]
        OBVIOUS
      <3>1. (i < j \/ j < i) /\ q[i] \in Nat /\ q[j] \in Nat
        BY <2>1
      <3> QED BY <3>1, <2>1 DEF Increasing
    <2>3. IsInjective(q)
      BY <2>1, <2>2 DEF IsInjective
    <2>4. run # "deleted" => \A n \in 1..stream[s].upto : Sent(s, n)
      BY <1>1 DEF IInv, CountedRows
    <2>5. \A n : Sent(s, n) => Overtaken(n) \/ log[n] \in ToSet(q)
      BY <2>1 DEF Sent, ToSet, q
    <2> QED BY <2>3, <2>4, <2>5 DEF q
  <1> QED BY <1>1, StreamInvariant, PTL
===============================================================================
