-------------------------- MODULE EventStreamProofs --------------------------
(***************************************************************************)
(* Theorems about EventStream, for every set of jobs, writers, clients and *)
(* lock keys and every bound: the events of a job are numbered without a   *)
(* gap, and the interface implements the log of EventLog.                  *)
(***************************************************************************)
EXTENDS EventStream, SequenceTheorems, TLAPS

-----------------------------------------------------------------------------
(* The inductive invariant.                                                *)

\* The first n sequences of a job's rows, and no other, are recorded.
Prefix(row, n) ==
    /\ n \in 0 .. MaxSequence
    /\ \A m \in Sequence : row[m] # None <=> m <= n

Dense == \A j \in Jobs : \E n \in 0 .. MaxSequence : Prefix(table[j], n)

\* Newest(j), of the rows of j.
NewestOf(row) == Max({0} \cup {m \in Sequence : row[m] # None})

\* A writer past the lock holds it, and what it has read is still the newest.
WriterInv ==
    \A w \in Writers :
        /\ writer[w].pc \in {"max", "insert"} => lock[KeyOf(w)] = w
        /\ writer[w].pc = "insert" => writer[w].sequence = NewestOf(table[writer[w].job]) + 1

\* What a client has seen, what is on the wire and what its generator has
\* still to yield follow one another in the rows.
DeliveredTo(row, n, last, messages, events, generator) ==
    /\ Len(events) = last
    /\ \A i \in 1 .. last : events[i] = row[i]
    /\ \A i \in 1 .. Len(messages) :
         messages[i] = [id |-> last + i, type |-> row[last + i]]
    /\ last + Len(messages) <= n
    /\ generator.pc # "closed" => generator.cursor = last + Len(messages)
    /\ generator.pc = "yield" =>
         \E k \in generator.cursor .. n : generator.batch = generator.cursor + 1 .. k

Delivered(c) ==
    DeliveredTo(table[Topic[c]], NewestOf(table[Topic[c]]),
                lastId[c], wire[c], seen[c], stream[c])
ReaderInv == \A c \in Clients : Delivered(c)

IInv == TypeOK /\ Dense /\ WriterInv /\ ReaderInv

-----------------------------------------------------------------------------
(* The newest sequence and the order of the yields.                        *)

LEMMA NewestOfPrefix ==
    ASSUME NEW row, NEW n, Prefix(row, n)
    PROVE  NewestOf(row) = n
  <1>. DEFINE S == {0} \cup {m \in Sequence : row[m] # None}
  <1>1. n \in S /\ \A y \in S : n >= y
    BY StreamAssumption DEF Prefix, Sequence
  <1>2. \A x \in S : (\A y \in S : x >= y) => x = n
    BY <1>1, StreamAssumption DEF Sequence, Prefix
  <1>. QED  BY <1>1, <1>2 DEF Max, NewestOf

LEMMA NewestIs ==
    \A j : Newest(j) = NewestOf(table[j]) /\ Recorded(j) = {m \in Sequence : table[j][m] # None}
  BY DEF Newest, NewestOf, Recorded

LEMMA DenseNewest ==
    ASSUME Dense, NEW j \in Jobs
    PROVE  NewestOf(table[j]) \in 0 .. MaxSequence /\ Prefix(table[j], NewestOf(table[j]))
  BY NewestOfPrefix DEF Dense

LEMMA MinOfInterval ==
    ASSUME NEW a \in Nat, NEW k \in Nat, a <= k
    PROVE  Min(a .. k) = a
  <1>1. a \in a .. k /\ \A y \in a .. k : a =< y
    OBVIOUS
  <1>2. \A x \in a .. k : (\A y \in a .. k : x =< y) => x = a
    OBVIOUS
  <1>. QED  BY <1>1, <1>2 DEF Min

\* One more row after the last extends the prefix by one.
LEMMA PrefixGrows ==
    ASSUME NEW row \in [Sequence -> EventTypes \cup {None}], NEW n, Prefix(row, n),
           n + 1 \in Sequence, NEW t \in EventTypes
    PROVE  Prefix([row EXCEPT ![n + 1] = t], n + 1)
  BY StreamAssumption DEF Prefix, Sequence

-----------------------------------------------------------------------------
(* Initially.                                                              *)

LEMMA InitIInv == Init => IInv
  <1>. SUFFICES ASSUME Init PROVE IInv
    OBVIOUS
  <1>1. TypeOK
    BY StreamAssumption DEF Init, TypeOK, Sequence, NoCall, Closed
  <1>2. \A j \in Jobs : Prefix(table[j], 0)
    BY StreamAssumption DEF Init, Prefix, Sequence
  <1>3. Dense
    BY <1>2, StreamAssumption DEF Dense
  <1>4. WriterInv
    BY DEF Init, WriterInv, NoCall
  <1>5. \A j \in Jobs : NewestOf(table[j]) = 0
    BY <1>2, NewestOfPrefix
  <1>6. ASSUME NEW c \in Clients PROVE Delivered(c)
    <2>1. /\ NewestOf(table[Topic[c]]) = 0 /\ lastId[c] = 0 /\ wire[c] = <<>>
          /\ seen[c] = <<>> /\ stream[c].pc = "closed"
      BY <1>5, StreamAssumption DEF Init, Closed
    <2>. HIDE DEF NewestOf
    <2>. QED  BY <2>1 DEF Delivered, DeliveredTo
  <1>. QED  BY <1>1, <1>3, <1>4, <1>6 DEF IInv, ReaderInv

-----------------------------------------------------------------------------
(* Steps that leave the table alone.                                       *)

LEMMA SameReaders ==
    ASSUME ReaderInv, UNCHANGED table, UNCHANGED readers
    PROVE  ReaderInv'
  BY DEF ReaderInv, Delivered, readers

LEMMA SameWriters ==
    ASSUME WriterInv, UNCHANGED writes
    PROVE  WriterInv'
  BY DEF WriterInv, KeyOf, writes

-----------------------------------------------------------------------------
(* The steps of the writers.                                               *)

LEMMA CallStep ==
    ASSUME IInv, NEW w \in Writers, NEW j \in Jobs, NEW t \in EventTypes, Call(w, j, t)
    PROVE  IInv'
  <1>1. TypeOK'
    <2>1. [pc |-> "lock", job |-> j, type |-> t, sequence |-> 0] \in Writer
      BY StreamAssumption DEF Writer, WriterPc
    <2>. QED  BY <2>1 DEF IInv, TypeOK, Call, readers
  <1>2. Dense'
    BY DEF IInv, Call, Dense
  <1>3. ReaderInv'
    BY SameReaders DEF IInv, Call
  <1>4. WriterInv'
    <2>1. /\ writer'[w].pc = "lock"
          /\ \A v \in Writers \ {w} : writer'[v] = writer[v]
      BY DEF IInv, TypeOK, Call
    <2>. QED  BY <2>1 DEF IInv, WriterInv, KeyOf, Call
  <1>. QED  BY <1>1, <1>2, <1>3, <1>4 DEF IInv

LEMMA LockStep ==
    ASSUME IInv, NEW w \in Writers, Lock(w)
    PROVE  IInv'
  <1>0. writer[w] \in Writer
    BY DEF IInv, TypeOK, Lock, NoCall
  <1>1. TypeOK'
    BY <1>0 DEF IInv, TypeOK, Lock, Writer, WriterPc, readers
  <1>2. Dense'
    BY DEF IInv, Lock, Dense
  <1>3. ReaderInv'
    BY SameReaders DEF IInv, Lock
  <1>4. WriterInv'
    <2>1. /\ writer'[w] = [writer[w] EXCEPT !.pc = "max"]
          /\ \A v \in Writers \ {w} : writer'[v] = writer[v]
      BY DEF IInv, TypeOK, Lock
    <2>2. writer'[w].pc = "max" /\ writer'[w].job = writer[w].job
      BY <1>0, <2>1 DEF Writer
    <2>3. LockKey[writer[w].job] \in Keys
      BY <1>0, StreamAssumption DEF Writer
    <2>4. lock'[LockKey[writer'[w].job]] = w
      BY <2>2, <2>3 DEF IInv, TypeOK, Lock, KeyOf
    <2>5. ASSUME NEW v \in Writers \ {w}, writer[v].pc \in {"max", "insert"}
          PROVE  lock'[LockKey[writer[v].job]] = v
      <3>1. lock[LockKey[writer[v].job]] = v
        BY <2>5 DEF IInv, WriterInv, KeyOf
      <3>2. LockKey[writer[v].job] # LockKey[writer[w].job]
        BY <3>1, StreamAssumption DEF Lock, KeyOf
      <3>. QED  BY <3>1, <3>2 DEF IInv, TypeOK, Lock, KeyOf
    <2>6. table' = table
      BY DEF Lock
    <2>. QED  BY <2>1, <2>2, <2>4, <2>5, <2>6 DEF IInv, WriterInv, KeyOf
  <1>. QED  BY <1>1, <1>2, <1>3, <1>4 DEF IInv

LEMMA ReadMaxStep ==
    ASSUME IInv, NEW w \in Writers, ReadMax(w)
    PROVE  IInv'
  <1>0. /\ writer[w] \in Writer
        /\ NewestOf(table[writer[w].job]) \in 0 .. MaxSequence
    BY DenseNewest DEF IInv, TypeOK, ReadMax, Writer, NoCall
  <1>. DEFINE called == [writer[w] EXCEPT !.pc = "insert",
                                          !.sequence = NewestOf(table[writer[w].job]) + 1]
  <1>a. called \in Writer
    <2>1. ASSUME NEW r \in Writer, NEW n \in 0 .. MaxSequence + 1
          PROVE  [r EXCEPT !.pc = "insert", !.sequence = n] \in Writer
      BY DEF Writer, WriterPc
    <2>2. NewestOf(table[writer[w].job]) + 1 \in 0 .. MaxSequence + 1
      BY <1>0, StreamAssumption
    <2>. QED  BY <1>0, <2>1, <2>2
  <1>b. writer' = [writer EXCEPT ![w] = called]
    BY NewestIs DEF IInv, TypeOK, ReadMax
  <1>c. /\ called.pc = "insert" /\ called.job = writer[w].job
        /\ called.sequence = NewestOf(table[writer[w].job]) + 1
    BY <1>0 DEF Writer
  <1>. HIDE DEF called
  <1>1. TypeOK'
    BY <1>a, <1>b DEF IInv, TypeOK, ReadMax, readers
  <1>2. Dense'
    BY DEF IInv, ReadMax, Dense
  <1>3. ReaderInv'
    BY SameReaders DEF IInv, ReadMax
  <1>4. WriterInv'
    <2>1. /\ writer'[w] = called
          /\ \A v \in Writers \ {w} : writer'[v] = writer[v]
      BY <1>b DEF IInv, TypeOK
    <2>2. lock' = lock /\ table' = table /\ lock[LockKey[writer[w].job]] = w
      BY DEF IInv, WriterInv, ReadMax, KeyOf
    <2>. QED  BY <1>c, <2>1, <2>2 DEF IInv, WriterInv, KeyOf
  <1>. QED  BY <1>1, <1>2, <1>3, <1>4 DEF IInv

\* A transaction ends, committed or rolled back: what it means to the others.
LEMMA ReleaseStep ==
    ASSUME TypeOK, WriterInv, NEW w \in Writers, writer[w] \in Writer,
           Unlock(w), writer' = [writer EXCEPT ![w] = NoCall],
           \A v \in Writers \ {w} :
              writer[v].pc = "insert" => table'[writer[v].job] = table[writer[v].job]
    PROVE  WriterInv' /\ lock' \in [Keys -> Writers \cup {Nobody}]
  <1>1. writer'[w].pc = "idle" /\ \A v \in Writers \ {w} : writer'[v] = writer[v]
    BY DEF TypeOK, NoCall
  <1>2. LockKey[writer[w].job] \in Keys
    BY StreamAssumption DEF Writer
  <1>3. ASSUME NEW v \in Writers \ {w}, writer[v].pc \in {"max", "insert"}
        PROVE  lock'[LockKey[writer[v].job]] = v
    <2>1. lock[LockKey[writer[v].job]] = v
      BY <1>3 DEF WriterInv, KeyOf
    <2>2. LockKey[writer[v].job] \in Keys
      BY <1>3, StreamAssumption DEF TypeOK, Writer, NoCall
    <2>. QED  BY <2>1, <2>2, <1>2 DEF Unlock, TypeOK, KeyOf
  <1>4. WriterInv'
    BY <1>1, <1>3 DEF WriterInv, KeyOf
  <1>5. lock' \in [Keys -> Writers \cup {Nobody}]
    BY <1>2 DEF Unlock, TypeOK
  <1>. QED  BY <1>4, <1>5

LEMMA RollBackStep ==
    ASSUME IInv, NEW w \in Writers, RollBack(w)
    PROVE  IInv'
  <1>0. writer[w] \in Writer
    BY DEF IInv, TypeOK, RollBack, NoCall
  <1>1. Dense'
    BY DEF IInv, RollBack, Dense
  <1>2. WriterInv' /\ lock' \in [Keys -> Writers \cup {Nobody}]
    BY <1>0, ReleaseStep DEF IInv, RollBack
  <1>3. ReaderInv'
    BY SameReaders DEF IInv, RollBack
  <1>4. TypeOK'
    BY <1>2, StreamAssumption DEF IInv, TypeOK, RollBack, readers
  <1>. QED  BY <1>1, <1>2, <1>3, <1>4 DEF IInv

\* What Insert does to the rows: the next sequence of one job is recorded.
LEMMA InsertGrows ==
    ASSUME IInv, NEW w \in Writers, Insert(w),
           NEW j, j = writer[w].job, NEW n, n = NewestOf(table[j])
    PROVE  /\ writer[w] \in Writer
           /\ j \in Jobs /\ n \in 0 .. MaxSequence /\ n + 1 \in Sequence
           /\ Prefix(table[j], n) /\ Prefix(table'[j], n + 1)
           /\ table'[j] = [table[j] EXCEPT ![n + 1] = writer[w].type]
           /\ table' = [table EXCEPT ![j] = table'[j]]
  <1>1. writer[w] \in Writer
    BY DEF IInv, TypeOK, Insert, NoCall
  <1>2. j \in Jobs /\ writer[w].type \in EventTypes
    BY <1>1 DEF Writer
  <1>3. n \in 0 .. MaxSequence /\ Prefix(table[j], n)
    BY <1>2, DenseNewest DEF IInv
  <1>4. writer[w].sequence = n + 1 /\ n + 1 \in Sequence
    BY DEF IInv, WriterInv, Insert
  <1>5. /\ table'[j] = [table[j] EXCEPT ![n + 1] = writer[w].type]
        /\ table' = [table EXCEPT ![j] = table'[j]]
    BY <1>2, <1>4 DEF IInv, TypeOK, Insert
  <1>6. table[j] \in [Sequence -> EventTypes \cup {None}]
    BY <1>2 DEF IInv, TypeOK
  <1>7. Prefix(table'[j], n + 1)
    BY <1>2, <1>3, <1>4, <1>5, <1>6, PrefixGrows
  <1>. QED  BY <1>1, <1>2, <1>3, <1>4, <1>5, <1>7

\* While w is about to insert, no other writer is, for the same job.
LEMMA OneInserts ==
    ASSUME WriterInv, NEW w \in Writers, NEW v \in Writers,
           writer[w].pc = "insert", writer[v].pc = "insert",
           writer[w].job = writer[v].job
    PROVE  v = w
  <1>1. lock[LockKey[writer[w].job]] = w /\ lock[LockKey[writer[v].job]] = v
    BY DEF WriterInv, KeyOf
  <1>. QED  BY <1>1

LEMMA ReaderTypes ==
    ASSUME TypeOK, NEW c \in Clients
    PROVE  /\ Topic[c] \in Jobs
           /\ wire[c] \in Seq(Message) /\ Len(wire[c]) \in Nat
           /\ lastId[c] \in 0 .. MaxSequence /\ lastId[c] \in Nat
           /\ seen[c] \in Seq(EventTypes \cup {None})
           /\ stream[c] \in Stream \cup {Closed}
           /\ stream[c].cursor \in 0 .. MaxSequence /\ stream[c].cursor \in Nat
  <1>1. stream[c].cursor \in 0 .. MaxSequence
    BY StreamAssumption DEF TypeOK, Stream, Closed
  <1>. QED  BY <1>1, StreamAssumption DEF TypeOK

LEMMA InsertStep ==
    ASSUME IInv, NEW w \in Writers, Insert(w)
    PROVE  IInv'
  <1>. DEFINE j == writer[w].job
              n == NewestOf(table[j])
  <1>1. /\ writer[w] \in Writer
        /\ j \in Jobs /\ n \in 0 .. MaxSequence /\ n + 1 \in Sequence
        /\ Prefix(table[j], n) /\ Prefix(table'[j], n + 1)
        /\ table'[j] = [table[j] EXCEPT ![n + 1] = writer[w].type]
        /\ table' = [table EXCEPT ![j] = table'[j]]
    BY InsertGrows
  <1>. HIDE DEF n
  <1>2. \A i \in Jobs \ {j} : table'[i] = table[i]
    BY <1>1 DEF IInv, TypeOK
  <1>3. table' \in [Jobs -> [Sequence -> EventTypes \cup {None}]]
    <2>1. writer[w].type \in EventTypes
      BY <1>1 DEF Writer
    <2>2. table[j] \in [Sequence -> EventTypes \cup {None}]
      BY <1>1 DEF IInv, TypeOK
    <2>3. table'[j] \in [Sequence -> EventTypes \cup {None}]
      BY <1>1, <2>1, <2>2
    <2>. QED  BY <1>1, <2>3 DEF IInv, TypeOK
  <1>4. WriterInv' /\ lock' \in [Keys -> Writers \cup {Nobody}]
    <2>1. ASSUME NEW v \in Writers \ {w}, writer[v].pc = "insert"
          PROVE  table'[writer[v].job] = table[writer[v].job]
      <3>1. writer[v].job # j
        BY <2>1, OneInserts DEF IInv, Insert
      <3>2. writer[v].job \in Jobs
        BY <2>1 DEF IInv, TypeOK, Writer, NoCall
      <3>. QED  BY <1>2, <3>1, <3>2
    <2>. QED  BY <1>1, <2>1, ReleaseStep DEF IInv, Insert
  <1>5. TypeOK'
    BY <1>3, <1>4 DEF IInv, TypeOK, Insert, readers
  <1>6. Dense'
    <2>1. n + 1 \in 0 .. MaxSequence
      BY <1>1 DEF Prefix
    <2>. QED  BY <1>1, <1>2, <2>1 DEF IInv, Dense
  <1>7. ASSUME NEW c \in Clients PROVE Delivered(c)'
    <2>1. /\ stream' = stream /\ wire' = wire /\ lastId' = lastId /\ seen' = seen
      BY DEF Insert, readers
    <2>2. CASE Topic[c] # j
      BY <1>2, <2>1, <2>2, ReaderTypes DEF IInv, ReaderInv, Delivered
    <2>3. CASE Topic[c] = j
      <3>1. NewestOf(table'[j]) = n + 1
        BY <1>1, NewestOfPrefix
      <3>2. n \in Nat /\ n + 1 \in Nat /\ n <= n + 1
        BY <1>1, StreamAssumption
      <3>3. \A i \in 1 .. n : table'[j][i] = table[j][i]
        BY <1>1 DEF IInv, TypeOK, Sequence
      <3>4. DeliveredTo(table[j], n, lastId[c], wire[c], seen[c], stream[c])
        BY <2>3 DEF IInv, ReaderInv, Delivered, n
      <3>5. DeliveredTo(table'[j], n + 1, lastId[c], wire[c], seen[c], stream[c])
        <4>1. /\ Len(wire[c]) \in Nat /\ lastId[c] \in Nat /\ stream[c].cursor \in Nat
              /\ lastId[c] + Len(wire[c]) <= n
          BY <3>4, ReaderTypes DEF IInv, DeliveredTo
        <4>2. \A i \in 1 .. lastId[c] : seen[c][i] = table'[j][i]
          BY <3>2, <3>3, <3>4, <4>1 DEF DeliveredTo
        <4>3. \A i \in 1 .. Len(wire[c]) :
                wire[c][i] = [id |-> lastId[c] + i, type |-> table'[j][lastId[c] + i]]
          <5>1. \A i \in 1 .. Len(wire[c]) : lastId[c] + i \in 1 .. n
            BY <3>2, <4>1
          <5>2. \A i \in 1 .. Len(wire[c]) :
                  wire[c][i] = [id |-> lastId[c] + i, type |-> table[j][lastId[c] + i]]
            BY <3>4 DEF DeliveredTo
          <5>. QED  BY <3>3, <5>1, <5>2
        <4>4. stream[c].pc = "yield" =>
                \E k \in stream[c].cursor .. n + 1 :
                  stream[c].batch = stream[c].cursor + 1 .. k
          BY <3>2, <3>4, <4>1 DEF DeliveredTo
        <4>. QED  BY <3>2, <3>4, <4>1, <4>2, <4>3, <4>4 DEF DeliveredTo
      <3>. QED  BY <2>1, <2>3, <3>1, <3>5 DEF Delivered
    <2>. QED  BY <2>2, <2>3
  <1>. QED  BY <1>4, <1>5, <1>6, <1>7 DEF IInv, ReaderInv

\* The primary key has nothing to refuse.
LEMMA NoRefusal ==
    ASSUME IInv, NEW w \in Writers
    PROVE  writer[w].pc = "insert" => writer[w].sequence \notin Recorded(writer[w].job)
  <1>. SUFFICES ASSUME writer[w].pc = "insert", writer[w].sequence \in Recorded(writer[w].job)
                PROVE  FALSE
    OBVIOUS
  <1>1. writer[w].job \in Jobs
    BY DEF IInv, TypeOK, Writer, NoCall
  <1>2. writer[w].sequence = NewestOf(table[writer[w].job]) + 1
    BY DEF IInv, WriterInv
  <1>3. writer[w].sequence \in Sequence /\ table[writer[w].job][writer[w].sequence] # None
    BY DEF Recorded
  <1>4. ASSUME NEW row, NEW n, Prefix(row, n), n + 1 \in Sequence, row[n + 1] # None
        PROVE  FALSE
    BY <1>4, StreamAssumption DEF Prefix
  <1>. QED  BY <1>1, <1>2, <1>3, <1>4, DenseNewest DEF IInv

LEMMA StatusStep ==
    ASSUME IInv, NEW j \in Jobs, StatusChanges(j)
    PROVE  IInv'
  <1>1. TypeOK'
    BY DEF IInv, TypeOK, StatusChanges, readers
  <1>2. ReaderInv'
    BY SameReaders DEF IInv, StatusChanges
  <1>. QED  BY <1>1, <1>2 DEF IInv, StatusChanges, Dense, WriterInv, KeyOf

-----------------------------------------------------------------------------
(* The steps of the readers.                                               *)

\* A step of a reader leaves the rows and the writers alone, and concerns
\* the one client c.
LEMMA ReaderStepKeeps ==
    ASSUME IInv, UNCHANGED writes, NEW c \in Clients,
           /\ stream' \in [Clients -> Stream \cup {Closed}]
           /\ wire' \in [Clients -> Seq(Message)]
           /\ lastId' \in [Clients -> 0 .. MaxSequence]
           /\ seen' \in [Clients -> Seq(EventTypes \cup {None})]
           /\ cuts' \in [Clients -> 0 .. MaxCuts],
           \A d \in Clients \ {c} :
              /\ stream'[d] = stream[d] /\ wire'[d] = wire[d]
              /\ lastId'[d] = lastId[d] /\ seen'[d] = seen[d],
           DeliveredTo(table[Topic[c]], NewestOf(table[Topic[c]]),
                       lastId'[c], wire'[c], seen'[c], stream'[c])
    PROVE  IInv'
  <1>1. TypeOK'
    BY DEF IInv, TypeOK, writes
  <1>2. Dense'
    BY DEF IInv, Dense, writes
  <1>3. WriterInv'
    BY SameWriters DEF IInv
  <1>4. \A d \in Clients : Delivered(d)'
    BY DEF IInv, ReaderInv, Delivered, writes
  <1>. QED  BY <1>1, <1>2, <1>3, <1>4 DEF IInv, ReaderInv

LEMMA ConnectStep ==
    ASSUME IInv, NEW c \in Clients, Connect(c)
    PROVE  IInv'
  <1>. DEFINE f == [pc |-> "fetch", cursor |-> lastId[c], batch |-> {}, rounds |-> Rounds]
  <1>1. f \in Stream
    BY ReaderTypes, StreamAssumption DEF IInv, Stream
  <1>2. stream' = [stream EXCEPT ![c] = f]
    BY DEF Connect, Generator
  <1>3. f.pc = "fetch" /\ f.cursor = lastId[c]
    OBVIOUS
  <1>. HIDE DEF f
  <1>4. stream' \in [Clients -> Stream \cup {Closed}] /\ stream'[c] = f
    BY <1>1, <1>2 DEF IInv, TypeOK
  <1>5. DeliveredTo(table[Topic[c]], NewestOf(table[Topic[c]]),
                    lastId[c], wire[c], seen[c], f)
    BY <1>3, ReaderTypes DEF IInv, ReaderInv, Delivered, DeliveredTo, Connect
  <1>. QED  BY <1>2, <1>4, <1>5, ReaderStepKeeps DEF IInv, TypeOK, Connect

LEMMA FetchStep ==
    ASSUME IInv, NEW c \in Clients, Fetch(c)
    PROVE  IInv'
  <1>. DEFINE n == NewestOf(table[Topic[c]])
              f == [stream[c] EXCEPT !.pc = "yield",
                                     !.batch = After(Topic[c], stream[c].cursor)]
  <1>1. /\ stream[c] \in Stream /\ n \in 0 .. MaxSequence /\ Prefix(table[Topic[c]], n)
        /\ stream[c].cursor \in 0 .. n
    BY ReaderTypes, DenseNewest, StreamAssumption
       DEF IInv, ReaderInv, Delivered, DeliveredTo, Fetch, Closed
  <1>2. After(Topic[c], stream[c].cursor) = stream[c].cursor + 1 .. n
    <2>1. Recorded(Topic[c]) = {m \in Sequence : m <= n}
      BY <1>1, NewestIs DEF Prefix
    <2>. QED  BY <1>1, <2>1, StreamAssumption DEF After, Sequence
  <1>. HIDE DEF n
  <1>3. After(Topic[c], stream[c].cursor) \in SUBSET Sequence
    BY <1>1, NewestIs DEF After
  <1>4. /\ f \in Stream /\ f.pc = "yield" /\ f.cursor = stream[c].cursor
        /\ f.batch = After(Topic[c], stream[c].cursor)
    BY <1>1, <1>3 DEF Stream
  <1>5. stream' = [stream EXCEPT ![c] = f]
    BY DEF Fetch, Generator
  <1>. HIDE DEF f
  <1>6. stream' \in [Clients -> Stream \cup {Closed}] /\ stream'[c] = f
    BY <1>4, <1>5 DEF IInv, TypeOK
  <1>7. DeliveredTo(table[Topic[c]], n, lastId[c], wire[c], seen[c], f)
    <2>1. DeliveredTo(table[Topic[c]], n, lastId[c], wire[c], seen[c], stream[c])
      BY DEF IInv, ReaderInv, Delivered, n
    <2>2. n \in stream[c].cursor .. n
      BY <1>1, StreamAssumption
    <2>3. stream[c].pc # "closed"
      BY DEF Fetch
    <2>. QED  BY <1>2, <1>4, <2>1, <2>2, <2>3 DEF DeliveredTo
  <1>. QED  BY <1>5, <1>6, <1>7, ReaderStepKeeps DEF IInv, TypeOK, Fetch, n

LEMMA YieldStep ==
    ASSUME IInv, NEW c \in Clients, Yield(c)
    PROVE  IInv'
  <1>. DEFINE row == table[Topic[c]]
              n == NewestOf(row)
              m == stream[c].cursor + 1
              f == [stream[c] EXCEPT !.cursor = m, !.batch = stream[c].batch \ {m}]
              e == [id |-> m, type |-> row[m]]
  <1>1. /\ stream[c] \in Stream /\ n \in 0 .. MaxSequence
        /\ stream[c].pc = "yield" /\ stream[c].batch # {}
    BY ReaderTypes, DenseNewest DEF IInv, Yield, Closed
  <1>2. /\ stream[c].cursor \in Nat /\ lastId[c] \in Nat /\ Len(wire[c]) \in Nat
        /\ wire[c] \in Seq(Message)
    BY ReaderTypes DEF IInv
  <1>3. DeliveredTo(row, n, lastId[c], wire[c], seen[c], stream[c])
    BY DEF IInv, ReaderInv, Delivered
  <1>. HIDE DEF n
  <1>4. PICK k \in stream[c].cursor .. n : stream[c].batch = m .. k
    BY <1>1, <1>3 DEF DeliveredTo
  <1>5. m <= k /\ k \in Nat /\ m \in Nat /\ m <= n
    BY <1>1, <1>2, <1>4, StreamAssumption
  <1>6. Min(stream[c].batch) = m
    BY <1>4, <1>5, MinOfInterval
  <1>7. m \in Sequence
    BY <1>1, <1>2, <1>5, StreamAssumption DEF Sequence
  <1>8. e \in Message
    <2>1. row[m] \in EventTypes \cup {None}
      BY <1>7, ReaderTypes DEF IInv, TypeOK
    <2>. QED  BY <1>7, <2>1 DEF Message
  <1>9. f \in Stream /\ f.pc = "yield" /\ f.cursor = m /\ f.batch = m + 1 .. k
    <2>1. stream[c].batch \ {m} = m + 1 .. k
      BY <1>4, <1>5
    <2>2. m \in 0 .. MaxSequence
      BY <1>7, StreamAssumption DEF Sequence
    <2>3. stream[c].batch \ {m} \in SUBSET Sequence
      BY <1>1 DEF Stream
    <2>4. PICK b \in SUBSET Sequence : b = stream[c].batch \ {m}
      BY <2>3
    <2>5. PICK x \in 0 .. MaxSequence : x = m
      BY <2>2
    <2>6. f = [stream[c] EXCEPT !.cursor = x, !.batch = b]
      BY <2>4, <2>5
    <2>. HIDE DEF m, f
    <2>7. f \in Stream /\ f.pc = stream[c].pc /\ f.cursor = x /\ f.batch = b
      BY <1>1, <2>6 DEF Stream
    <2>. QED  BY <1>1, <2>1, <2>4, <2>5, <2>7
  <1>10. /\ stream' = [stream EXCEPT ![c] = f]
         /\ wire' = [wire EXCEPT ![c] = Append(wire[c], e)]
    BY <1>6 DEF Yield, Generator
  <1>. HIDE DEF f, e
  <1>11. /\ stream' \in [Clients -> Stream \cup {Closed}] /\ stream'[c] = f
         /\ wire' \in [Clients -> Seq(Message)] /\ wire'[c] = Append(wire[c], e)
    BY <1>2, <1>8, <1>9, <1>10, AppendProperties DEF IInv, TypeOK
  <1>12. DeliveredTo(row, n, lastId[c], Append(wire[c], e), seen[c], f)
    <2>1. /\ m = lastId[c] + Len(wire[c]) + 1
          /\ Len(Append(wire[c], e)) = Len(wire[c]) + 1
      BY <1>1, <1>2, <1>3, <1>8, AppendProperties DEF DeliveredTo
    <2>2. ASSUME NEW i \in 1 .. Len(Append(wire[c], e))
          PROVE  Append(wire[c], e)[i] = [id |-> lastId[c] + i, type |-> row[lastId[c] + i]]
      <3>1. CASE i = Len(wire[c]) + 1
        <4>1. Append(wire[c], e)[i] = e /\ lastId[c] + i = m
          BY <1>2, <1>8, <2>1, <3>1, AppendProperties
        <4>. QED  BY <4>1 DEF e
      <3>2. CASE i \in 1 .. Len(wire[c])
        <4>1. Append(wire[c], e)[i] = wire[c][i]
          BY <1>2, <1>8, <3>2, AppendProperties
        <4>. QED  BY <1>3, <3>2, <4>1 DEF DeliveredTo
      <3>. QED  BY <1>2, <2>1, <3>1, <3>2
    <2>3. lastId[c] + Len(Append(wire[c], e)) <= n /\ m = lastId[c] + Len(Append(wire[c], e))
      BY <1>2, <1>5, <2>1
    <2>4. k \in m .. n
      BY <1>4, <1>5
    <2>. QED  BY <1>3, <1>9, <2>2, <2>3, <2>4 DEF DeliveredTo
  <1>. QED
    BY <1>10, <1>11, <1>12, ReaderStepKeeps, ZenonT(30) DEF IInv, TypeOK, Yield, n

\* The generator ends, and what it yielded is still on its way.
LEMMA CloseStep ==
    ASSUME IInv, NEW c \in Clients, UNCHANGED <<writes, wire, lastId, seen, cuts>>,
           stream' = [stream EXCEPT ![c] = Closed]
    PROVE  IInv'
  <1>1. /\ stream' \in [Clients -> Stream \cup {Closed}] /\ stream'[c] = Closed
    BY DEF IInv, TypeOK
  <1>2. DeliveredTo(table[Topic[c]], NewestOf(table[Topic[c]]),
                    lastId[c], wire[c], seen[c], Closed)
    BY DEF IInv, ReaderInv, Delivered, DeliveredTo, Closed
  <1>. QED  BY <1>1, <1>2, ReaderStepKeeps DEF IInv, TypeOK

LEMMA NextRoundStep ==
    ASSUME IInv, NEW c \in Clients, NextRound(c)
    PROVE  IInv'
  <1>1. CASE stream[c].rounds = 1
    BY <1>1, CloseStep DEF NextRound, Generator
  <1>2. CASE stream[c].rounds # 1
    <2>. DEFINE f == [stream[c] EXCEPT !.pc = "fetch", !.rounds = stream[c].rounds - 1]
    <2>1. stream[c] \in Stream
      BY ReaderTypes DEF IInv, NextRound, Closed
    <2>0. stream[c].rounds - 1 \in 1 .. Rounds
      BY <1>2, <2>1, StreamAssumption DEF Stream
    <2>2. f \in Stream /\ f.pc = "fetch" /\ f.cursor = stream[c].cursor
      BY <2>0, <2>1 DEF Stream
    <2>3. stream' = [stream EXCEPT ![c] = f]
      BY <1>2 DEF NextRound, Generator
    <2>. HIDE DEF f
    <2>4. stream' \in [Clients -> Stream \cup {Closed}] /\ stream'[c] = f
      BY <2>2, <2>3 DEF IInv, TypeOK
    <2>5. DeliveredTo(table[Topic[c]], NewestOf(table[Topic[c]]),
                      lastId[c], wire[c], seen[c], f)
      BY <2>2 DEF IInv, ReaderInv, Delivered, DeliveredTo, NextRound
    <2>. QED  BY <2>3, <2>4, <2>5, ReaderStepKeeps DEF IInv, TypeOK, NextRound
  <1>. QED  BY <1>1, <1>2

LEMMA CutStep ==
    ASSUME IInv, NEW c \in Clients, Cut(c)
    PROVE  IInv'
  <1>1. /\ stream' \in [Clients -> Stream \cup {Closed}] /\ stream'[c] = Closed
        /\ wire' \in [Clients -> Seq(Message)] /\ wire'[c] = <<>>
        /\ cuts' \in [Clients -> 0 .. MaxCuts]
    BY StreamAssumption DEF IInv, TypeOK, Cut, Generator
  <1>2. DeliveredTo(table[Topic[c]], NewestOf(table[Topic[c]]),
                    lastId[c], <<>>, seen[c], Closed)
    <2>1. /\ lastId[c] \in Nat /\ Len(wire[c]) \in Nat
          /\ NewestOf(table[Topic[c]]) \in 0 .. MaxSequence
      BY ReaderTypes, DenseNewest DEF IInv
    <2>. HIDE DEF NewestOf
    <2>2. Len(<<>>) = 0 /\ Closed.pc = "closed"
      BY DEF Closed
    <2>. QED  BY <2>1, <2>2, StreamAssumption DEF IInv, ReaderInv, Delivered, DeliveredTo
  <1>3. \A d \in Clients \ {c} : stream'[d] = stream[d] /\ wire'[d] = wire[d]
    BY DEF IInv, TypeOK, Cut, Generator
  <1>4. UNCHANGED <<writes, lastId, seen>>
    BY DEF Cut
  <1>. QED  BY <1>1, <1>2, <1>3, <1>4, ReaderStepKeeps DEF IInv, TypeOK

\* What a client receives is the row after the last it has seen.
LEMMA Received ==
    ASSUME IInv, NEW c \in Clients, Receive(c)
    PROVE  /\ lastId[c] + 1 <= NewestOf(table[Topic[c]])
           /\ lastId[c] + 1 \in Sequence
           /\ Head(wire[c]) = [id |-> lastId[c] + 1,
                               type |-> table[Topic[c]][lastId[c] + 1]]
           /\ lastId' = [lastId EXCEPT ![c] = lastId[c] + 1]
           /\ seen' = [seen EXCEPT ![c] =
                         Append(seen[c], table[Topic[c]][lastId[c] + 1])]
  <1>. DEFINE n == NewestOf(table[Topic[c]])
  <1>1. /\ lastId[c] \in Nat /\ n \in 0 .. MaxSequence
        /\ wire[c] \in Seq(Message) /\ Len(wire[c]) \in Nat
    BY ReaderTypes, DenseNewest DEF IInv
  <1>2. DeliveredTo(table[Topic[c]], n, lastId[c], wire[c], seen[c], stream[c])
    BY DEF IInv, ReaderInv, Delivered
  <1>. HIDE DEF n
  <1>3. Len(wire[c]) >= 1 /\ Head(wire[c]) = wire[c][1]
    BY <1>1, HeadTailProperties, EmptySeq DEF Receive
  <1>4. Head(wire[c]) = [id |-> lastId[c] + 1,
                         type |-> table[Topic[c]][lastId[c] + 1]]
    <2>1. 1 \in 1 .. Len(wire[c])
      BY <1>1, <1>3
    <2>. QED  BY <1>2, <1>3, <2>1 DEF DeliveredTo
  <1>5. lastId[c] + 1 <= n
    BY <1>1, <1>2, <1>3 DEF DeliveredTo
  <1>6. lastId[c] + 1 \in Sequence
    BY <1>1, <1>5, StreamAssumption DEF Sequence
  <1>7. /\ Head(wire[c]).id = lastId[c] + 1
        /\ Head(wire[c]).type = table[Topic[c]][lastId[c] + 1]
    BY <1>4
  <1>. QED  BY <1>4, <1>5, <1>6, <1>7 DEF n, Receive

LEMMA ReceiveStep ==
    ASSUME IInv, NEW c \in Clients, Receive(c)
    PROVE  IInv'
  <1>. DEFINE row == table[Topic[c]]
              n == NewestOf(row)
              last == lastId[c] + 1
  <1>1. /\ last <= n /\ last \in Sequence
        /\ lastId' = [lastId EXCEPT ![c] = last]
        /\ seen' = [seen EXCEPT ![c] = Append(seen[c], row[last])]
        /\ wire' = [wire EXCEPT ![c] = Tail(wire[c])]
    BY Received DEF Receive
  <1>2. /\ lastId[c] \in Nat /\ n \in 0 .. MaxSequence
        /\ wire[c] \in Seq(Message) /\ Len(wire[c]) \in Nat
        /\ seen[c] \in Seq(EventTypes \cup {None})
        /\ row[last] \in EventTypes \cup {None}
        /\ stream[c].pc # "closed" => stream[c].cursor \in Nat
    BY <1>1, ReaderTypes, DenseNewest DEF IInv, TypeOK
  <1>3. DeliveredTo(row, n, lastId[c], wire[c], seen[c], stream[c])
    BY DEF IInv, ReaderInv, Delivered
  <1>4. Len(seen[c]) = lastId[c]
    BY <1>3 DEF DeliveredTo
  <1>. HIDE DEF n, row
  <1>5. wire[c] # <<>>
    BY DEF Receive
  <1>6. /\ Tail(wire[c]) \in Seq(Message)
        /\ Len(Tail(wire[c])) = Len(wire[c]) - 1
        /\ \A i \in 1 .. Len(Tail(wire[c])) : Tail(wire[c])[i] = wire[c][i + 1]
    BY <1>2, <1>5, HeadTailProperties
  <1>7. /\ Append(seen[c], row[last]) \in Seq(EventTypes \cup {None})
        /\ Len(Append(seen[c], row[last])) = last
        /\ \A i \in 1 .. Len(seen[c]) : Append(seen[c], row[last])[i] = seen[c][i]
        /\ Append(seen[c], row[last])[last] = row[last]
    BY <1>2, <1>4, AppendProperties
  <1>8. last \in 0 .. MaxSequence
    BY <1>1, StreamAssumption DEF Sequence
  <1>9. /\ wire' \in [Clients -> Seq(Message)] /\ wire'[c] = Tail(wire[c])
        /\ seen' \in [Clients -> Seq(EventTypes \cup {None})]
        /\ seen'[c] = Append(seen[c], row[last])
        /\ lastId' \in [Clients -> 0 .. MaxSequence] /\ lastId'[c] = last
    BY <1>1, <1>6, <1>7, <1>8 DEF IInv, TypeOK
  <1>10. DeliveredTo(row, n, last, Tail(wire[c]), Append(seen[c], row[last]), stream[c])
    <2>1. \A i \in 1 .. last : Append(seen[c], row[last])[i] = row[i]
      BY <1>2, <1>3, <1>4, <1>7 DEF DeliveredTo
    <2>2. ASSUME NEW i \in 1 .. Len(Tail(wire[c]))
          PROVE  Tail(wire[c])[i] = [id |-> last + i, type |-> row[last + i]]
      <3>0. i \in 1 .. Len(wire[c]) - 1
        BY <1>6
      <3>a. i \in Nat /\ lastId[c] \in Nat /\ Len(wire[c]) \in Nat
        BY <1>2
      <3>1. i + 1 \in 1 .. Len(wire[c]) /\ lastId[c] + (i + 1) = last + i
        BY <3>0, <3>a
      <3>2. wire[c][i + 1] = [id |-> lastId[c] + (i + 1), type |-> row[lastId[c] + (i + 1)]]
        BY <1>3, <3>1 DEF DeliveredTo
      <3>. QED  BY <1>6, <3>1, <3>2
    <2>3. last + Len(Tail(wire[c])) = lastId[c] + Len(wire[c])
      BY <1>2, <1>6
    <2>. QED  BY <1>3, <1>7, <2>1, <2>2, <2>3 DEF DeliveredTo
  <1>11. UNCHANGED <<writes, stream, cuts>>
    BY DEF Receive
  <1>. QED
    BY <1>1, <1>9, <1>10, <1>11, ReaderStepKeeps DEF IInv, TypeOK, n, row

-----------------------------------------------------------------------------
(* The theorems.                                                           *)

LEMMA NextIInv == IInv /\ [Next]_vars => IInv'
  <1>. SUFFICES ASSUME IInv, [Next]_vars PROVE IInv'
    OBVIOUS
  <1>1. ASSUME NEW w \in Writers, NEW j \in Jobs, NEW t \in EventTypes, Call(w, j, t)
        PROVE  IInv'
    BY <1>1, CallStep
  <1>2. ASSUME NEW w \in Writers, WriterStep(w) PROVE IInv'
    BY <1>2, LockStep, ReadMaxStep, InsertStep DEF WriterStep
  <1>3. ASSUME NEW w \in Writers, RollBack(w) PROVE IInv'
    BY <1>3, RollBackStep
  <1>4. ASSUME NEW j \in Jobs, StatusChanges(j) PROVE IInv'
    BY <1>4, StatusStep
  <1>5. ASSUME NEW c \in Clients, Connect(c) \/ ReaderStep(c) \/ Receive(c) \/ Cut(c)
        PROVE  IInv'
    <2>1. CASE EndStream(c)
      BY <2>1, CloseStep DEF EndStream, Generator
    <2>. QED
      BY <1>5, <2>1, ConnectStep, FetchStep, YieldStep, NextRoundStep, ReceiveStep,
         CutStep DEF ReaderStep
  <1>6. CASE UNCHANGED vars
    <2>1. /\ UNCHANGED writes /\ UNCHANGED readers /\ TypeOK'
      BY <1>6 DEF vars, writes, readers, IInv, TypeOK
    <2>2. WriterInv' /\ ReaderInv' /\ Dense'
      BY <2>1, SameReaders, SameWriters DEF IInv, writes, Dense
    <2>. QED  BY <2>1, <2>2 DEF IInv
  <1>. QED  BY <1>1, <1>2, <1>3, <1>4, <1>5, <1>6 DEF Next

\* The invariant the theorems below rest on: rows without a gap, one writer
\* past the lock of a job, and every client's view a prefix of the rows.
THEOREM Invariance == Spec => []IInv
  BY InitIInv, NextIInv, PTL DEF Spec

\* The state of event's callers, of the generators of event_stream and of the
\* clients stays well typed.
THEOREM TypeCorrectness == Spec => []TypeOK
  BY Invariance, PTL DEF IInv

\* event numbers the events of every job 1, 2, ..., and is never refused by
\* the primary key.
THEOREM Sequencing == Spec => []Sequenced
  <1>1. IInv => Sequenced
    <2>. SUFFICES ASSUME IInv PROVE Sequenced
      OBVIOUS
    <2>1. ASSUME NEW j \in Jobs PROVE Recorded(j) = 1 .. Newest(j)
      <3>1. /\ NewestOf(table[j]) \in 0 .. MaxSequence
            /\ Prefix(table[j], NewestOf(table[j]))
        BY DenseNewest DEF IInv
      <3>. HIDE DEF NewestOf
      <3>2. {m \in Sequence : table[j][m] # None} = 1 .. NewestOf(table[j])
        BY <3>1, StreamAssumption DEF Prefix, Sequence
      <3>. QED  BY <3>2, NewestIs
    <2>. QED  BY <2>1, NoRefusal DEF Sequenced
  <1>. QED  BY <1>1, Invariance, PTL

-----------------------------------------------------------------------------
(* Refinement.                                                             *)

LogBar == [j \in Jobs |-> LogOf(j)]

LEMMA LogOfRow ==
    \A j : LogOf(j) = [m \in 1 .. NewestOf(table[j]) |-> table[j][m]]
  BY NewestIs DEF LogOf

\* An insertion appends to the log of its job ...
LEMMA InsertRecords ==
    ASSUME IInv, NEW w \in Writers, Insert(w)
    PROVE  Log!Record(writer[w].job, writer[w].type)
  <1>. DEFINE j == writer[w].job
              n == NewestOf(table[j])
              t == writer[w].type
  <1>1. /\ writer[w] \in Writer
        /\ j \in Jobs /\ n \in 0 .. MaxSequence /\ n + 1 \in Sequence
        /\ Prefix(table'[j], n + 1)
        /\ table'[j] = [table[j] EXCEPT ![n + 1] = t]
        /\ table' = [table EXCEPT ![j] = table'[j]]
    BY InsertGrows
  <1>2. NewestOf(table'[j]) = n + 1
    BY <1>1, NewestOfPrefix
  <1>. HIDE DEF n
  <1>. DEFINE before == [m \in 1 .. n |-> table[j][m]]
              after == [m \in 1 .. n + 1 |-> table'[j][m]]
  <1>3. table[j] \in [Sequence -> EventTypes \cup {None}] /\ t \in EventTypes /\ n \in Nat
    BY <1>1, StreamAssumption DEF IInv, TypeOK, Writer
  <1>4. \A m \in 1 .. n : m \in Sequence /\ m # n + 1
    BY <1>1, StreamAssumption DEF Sequence
  <1>5. before \in Seq(EventTypes \cup {None}) /\ Len(before) = n
    BY <1>3, <1>4
  <1>6. after = Append(before, t)
    <2>1. /\ Append(before, t) \in Seq(EventTypes \cup {None})
          /\ Len(Append(before, t)) = n + 1
          /\ \A m \in 1 .. n : Append(before, t)[m] = before[m]
          /\ Append(before, t)[n + 1] = t
      BY <1>3, <1>5, AppendProperties
    <2>2. table'[j][n + 1] = t /\ \A m \in 1 .. n : table'[j][m] = table[j][m]
      BY <1>1, <1>3, <1>4
    <2>3. \A m \in 1 .. n + 1 : Append(before, t)[m] = table'[j][m]
      BY <1>3, <2>1, <2>2
    <2>. HIDE DEF before
    <2>4. Append(before, t) = [m \in 1 .. Len(Append(before, t)) |-> Append(before, t)[m]]
      BY <2>1
    <2>. QED  BY <2>1, <2>3, <2>4
  <1>7. LogBar[j] = before
    BY <1>1, LogOfRow DEF LogBar, n
  <1>8. \A i : LogOf(i)' = [m \in 1 .. NewestOf(table'[i]) |-> table'[i][m]]
    BY DEF LogOf, Newest, NewestOf, Recorded
  <1>9. LogBar' = [LogBar EXCEPT ![j] = Append(LogBar[j], t)]
    <2>1. \A i \in Jobs \ {j} : table'[i] = table[i]
      BY <1>1 DEF IInv, TypeOK
    <2>2. LogBar' = [i \in Jobs |-> [m \in 1 .. NewestOf(table'[i]) |-> table'[i][m]]]
      BY <1>8 DEF LogBar
    <2>3. LogBar = [i \in Jobs |-> [m \in 1 .. NewestOf(table[i]) |-> table[i][m]]]
      BY LogOfRow DEF LogBar
    <2>. HIDE DEF before, t
    <2>4. LogBar'[j] = Append(LogBar[j], t)
      BY <1>1, <1>2, <1>6, <1>7, <2>2
    <2>5. \A i \in Jobs \ {j} : LogBar'[i] = LogBar[i]
      BY <2>1, <2>2, <2>3
    <2>6. LogBar = [i \in Jobs |-> LogBar[i]] /\ LogBar' = [i \in Jobs |-> LogBar'[i]]
      BY DEF LogBar
    <2>. QED  BY <1>1, <2>4, <2>5, <2>6
  <1>. QED  BY <1>9 DEF Log!Record, LogBar, Insert, readers

\* ... and what a client receives is the next event of the log.
LEMMA ReceiveSees ==
    ASSUME IInv, NEW c \in Clients, Receive(c)
    PROVE  Log!See(c)
  <1>. DEFINE j == Topic[c]
              n == NewestOf(table[j])
              last == lastId[c] + 1
  <1>1. /\ last <= n /\ last \in Sequence
        /\ seen' = [seen EXCEPT ![c] = Append(seen[c], table[j][last])]
    BY Received
  <1>2. /\ lastId[c] \in Nat /\ n \in 0 .. MaxSequence /\ n \in Nat /\ j \in Jobs
        /\ table[j] \in [Sequence -> EventTypes \cup {None}]
    BY ReaderTypes, DenseNewest, StreamAssumption DEF IInv, TypeOK
  <1>3. Len(seen[c]) = lastId[c]
    BY DEF IInv, ReaderInv, Delivered, DeliveredTo
  <1>4. LogBar[j] = [m \in 1 .. n |-> table[j][m]]
    BY <1>2, LogOfRow DEF LogBar
  <1>. HIDE DEF n
  <1>5. Len(LogBar[j]) = n /\ LogBar[j][last] = table[j][last]
    <2>1. last \in 1 .. n
      BY <1>1, <1>2
    <2>2. \A m \in 1 .. n : table[j][m] \in EventTypes \cup {None}
      BY <1>2, StreamAssumption DEF Sequence
    <2>3. LogBar[j] \in Seq(EventTypes \cup {None}) /\ Len(LogBar[j]) = n
      BY <1>2, <1>4, <2>2
    <2>. QED  BY <1>4, <2>1, <2>3
  <1>6. LogBar' = LogBar
    BY DEF Receive, writes, LogBar, LogOf, Newest, Recorded
  <1>7. Len(seen[c]) < Len(LogBar[j])
    BY <1>1, <1>2, <1>3, <1>5
  <1>8. seen' = [seen EXCEPT ![c] = Append(seen[c], LogBar[j][Len(seen[c]) + 1])]
    BY <1>1, <1>3, <1>5
  <1>. QED  BY <1>6, <1>7, <1>8 DEF Log!See, LogBar

LEMMA StepRefines == IInv /\ [Next]_vars => [Log!Next]_<<LogBar, seen>>
  <1>. SUFFICES ASSUME IInv, [Next]_vars PROVE [Log!Next]_<<LogBar, seen>>
    OBVIOUS
  <1>1. ASSUME table' = table PROVE LogBar' = LogBar
    BY <1>1 DEF LogBar, LogOf, Newest, Recorded
  <1>2. ASSUME NEW w \in Writers, Insert(w) PROVE Log!Next
    <2>1. writer[w].job \in Jobs /\ writer[w].type \in EventTypes
      BY <1>2 DEF IInv, TypeOK, Insert, Writer, NoCall
    <2>. QED  BY <1>2, <2>1, InsertRecords DEF Log!Next
  <1>3. ASSUME NEW c \in Clients, Receive(c) PROVE Log!Next
    BY <1>3, ReceiveSees DEF Log!Next
  <1>4. ASSUME NEW w \in Writers,
               \/ \E j \in Jobs, t \in EventTypes : Call(w, j, t)
               \/ Lock(w) \/ ReadMax(w) \/ RollBack(w)
        PROVE  table' = table /\ seen' = seen
    BY <1>4 DEF Call, Lock, ReadMax, RollBack, readers
  <1>5. ASSUME NEW j \in Jobs, StatusChanges(j)
        PROVE  table' = table /\ seen' = seen
    BY <1>5 DEF StatusChanges, readers
  <1>6. ASSUME NEW c \in Clients, Connect(c) \/ ReaderStep(c) \/ Cut(c)
        PROVE  table' = table /\ seen' = seen
    BY <1>6 DEF Connect, ReaderStep, Fetch, Yield, EndStream, NextRound, Cut, writes
  <1>7. CASE UNCHANGED vars
    BY <1>1, <1>7 DEF vars
  <1>. QED
    BY <1>1, <1>2, <1>3, <1>4, <1>5, <1>6, <1>7 DEF Next, WriterStep

\* event and event_stream implement EventLog: the rows of a job are a log
\* that grows at its end, and a client sees a prefix of it, each event once,
\* however often its connection is cut and resumed from Last-Event-ID.
THEOREM Implementation == Spec => ImplementsLog
  <1>1. Init => Log!Init
    <2>. SUFFICES ASSUME Init PROVE Log!Init
      OBVIOUS
    <2>1. \A j \in Jobs : Prefix(table[j], 0)
      BY StreamAssumption DEF Init, Prefix, Sequence
    <2>2. \A j \in Jobs : NewestOf(table[j]) = 0
      BY <2>1, NewestOfPrefix
    <2>3. \A j \in Jobs : LogOf(j) = <<>>
      BY <2>2, LogOfRow
    <2>. QED  BY <2>3 DEF Init, Log!Init
  <1>2. IInv /\ [Next]_vars => [Log!Next]_<<[j \in Jobs |-> LogOf(j)], seen>>
    BY StepRefines DEF LogBar
  <1>. QED  BY <1>1, <1>2, Invariance, PTL DEF Spec, ImplementsLog, Log!Spec
=============================================================================
