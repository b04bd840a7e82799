----------------------------- MODULE EventStream -----------------------------
(***************************************************************************)
(* The events of the jobs and the Server-Sent-Events interface to them.    *)
(*                                                                         *)
(* A writer (an HTTP handler, a worker) is a call of PostgresStore.event:  *)
(* one transaction that takes an advisory lock on the job, reads the       *)
(* highest sequence and inserts the next.  A reader is the generator of    *)
(* event_stream (apps/api/main.py), which fetches the events after its     *)
(* cursor, yields them, ends when the job is over or after some rounds,    *)
(* and a client that reconnects with the last identifier it received.      *)
(***************************************************************************)
EXTENDS Naturals, Sequences, FiniteSets, FiniteSetsExt

CONSTANTS
    Jobs,        \* job identifiers
    EventTypes,  \* what an event may say
    Writers,     \* concurrent calls of event
    Keys,        \* the values of hashtext
    LockKey,     \* LockKey[j] = hashtext(j): two jobs may share a key
    Clients,     \* subscribers
    Topic,       \* Topic[c]: the job client c follows
    Rounds,      \* how often a generator fetches before it ends (60)
    MaxSequence, \* bound on the events of a job
    MaxFailures, \* bound on the writers that die
    MaxCuts,     \* bound on the connections of a client that are cut
    Nobody,      \* holder of a lock that is free
    None         \* not an event: no row, no call

ASSUME StreamAssumption ==
    /\ LockKey \in [Jobs -> Keys]
    /\ Topic \in [Clients -> Jobs]
    /\ Rounds \in Nat \ {0}
    /\ MaxSequence \in Nat
    /\ MaxFailures \in Nat
    /\ MaxCuts \in Nat
    /\ Nobody \notin Writers
    /\ None \notin EventTypes

VARIABLES
    table,   \* the events table, by its primary key (job_id, sequence)
    lock,    \* the writer that holds each advisory lock
    writer,  \* the call of event each writer is in
    over,    \* is the job's status terminal?
    stream,  \* the generator that serves each client
    wire,    \* the events yielded to each client and not received yet
    lastId,  \* the identifier of the last event each client received
    seen,    \* the events each client has received, in order
    failures, cuts

vars == <<table, lock, writer, over, stream, wire, lastId, seen, failures, cuts>>

-----------------------------------------------------------------------------
Sequence == 1 .. MaxSequence
Recorded(j) == {n \in Sequence : table[j][n] # None}
Newest(j) == Max({0} \cup Recorded(j))

\* A writer, by its next statement: the lock, SELECT COALESCE(MAX(sequence),
\* 0)+1, INSERT and commit.
WriterPc == {"lock", "max", "insert"}
Writer == [pc : WriterPc, job : Jobs, type : EventTypes, sequence : 0 .. MaxSequence + 1]
NoCall == [pc |-> "idle", job |-> None, type |-> None, sequence |-> 0]

\* A generator: its cursor, the fetched events it has still to yield and the
\* rounds left.
Stream == [pc : {"fetch", "yield"}, cursor : 0 .. MaxSequence,
           batch : SUBSET Sequence, rounds : 1 .. Rounds]
Closed == [pc |-> "closed", cursor |-> 0, batch |-> {}, rounds |-> 0]

Message == [id : Sequence, type : EventTypes \cup {None}]

TypeOK ==
    /\ table \in [Jobs -> [Sequence -> EventTypes \cup {None}]]
    /\ lock \in [Keys -> Writers \cup {Nobody}]
    /\ writer \in [Writers -> Writer \cup {NoCall}]
    /\ over \in [Jobs -> BOOLEAN]
    /\ stream \in [Clients -> Stream \cup {Closed}]
    /\ wire \in [Clients -> Seq(Message)]
    /\ lastId \in [Clients -> 0 .. MaxSequence]
    /\ seen \in [Clients -> Seq(EventTypes \cup {None})]
    /\ failures \in 0 .. MaxFailures
    /\ cuts \in [Clients -> 0 .. MaxCuts]

Init ==
    /\ table = [j \in Jobs |-> [n \in Sequence |-> None]]
    /\ lock = [k \in Keys |-> Nobody]
    /\ writer = [w \in Writers |-> NoCall]
    /\ over = [j \in Jobs |-> FALSE]
    /\ stream = [c \in Clients |-> Closed]
    /\ wire = [c \in Clients |-> <<>>]
    /\ lastId = [c \in Clients |-> 0]
    /\ seen = [c \in Clients |-> <<>>]
    /\ failures = MaxFailures
    /\ cuts = [c \in Clients |-> MaxCuts]

-----------------------------------------------------------------------------
(* Writers.                                                                *)

readers == <<stream, wire, lastId, seen, cuts>>

\* Somebody calls event(job, type).
Call(w, j, t) ==
    /\ writer[w].pc = "idle"
    /\ Newest(j) + Cardinality({v \in Writers : writer[v].pc # "idle"}) < MaxSequence
    /\ writer' = [writer EXCEPT ![w] =
                    [pc |-> "lock", job |-> j, type |-> t, sequence |-> 0]]
    /\ UNCHANGED <<table, lock, over, failures, readers>>

KeyOf(w) == LockKey[writer[w].job]

\* Mutant of Lock: the lock is not exclusive.
LockShared(w) ==
    /\ writer[w].pc = "lock"
    /\ lock' = [lock EXCEPT ![KeyOf(w)] = w]
    /\ writer' = [writer EXCEPT ![w].pc = "max"]
    /\ UNCHANGED <<table, over, failures, readers>>

\* pg_advisory_xact_lock waits until the key is free.
Lock(w) ==
    /\ writer[w].pc = "lock"
    /\ lock[KeyOf(w)] = Nobody
    /\ lock' = [lock EXCEPT ![KeyOf(w)] = w]
    /\ writer' = [writer EXCEPT ![w].pc = "max"]
    /\ UNCHANGED <<table, over, failures, readers>>

ReadMax(w) ==
    /\ writer[w].pc = "max"
    /\ writer' = [writer EXCEPT ![w].pc = "insert",
                                ![w].sequence = Newest(writer[w].job) + 1]
    /\ UNCHANGED <<table, lock, over, failures, readers>>

Unlock(w) == lock' = [lock EXCEPT ![KeyOf(w)] = IF lock[KeyOf(w)] = w THEN Nobody ELSE @]

\* The row is seen by the others, and the lock is free, from the commit on.
\* The primary key would refuse a sequence that is recorded: see Sequenced.
Insert(w) ==
    /\ writer[w].pc = "insert"
    /\ writer[w].sequence \in Sequence
    /\ table[writer[w].job][writer[w].sequence] = None
    /\ table' = [table EXCEPT ![writer[w].job][writer[w].sequence] = writer[w].type]
    /\ Unlock(w)
    /\ writer' = [writer EXCEPT ![w] = NoCall]
    /\ UNCHANGED <<over, failures, readers>>

\* The process dies or the connection is lost: the transaction is rolled back.
RollBack(w) ==
    /\ writer[w].pc \in {"lock", "max", "insert"}
    /\ failures > 0
    /\ failures' = failures - 1
    /\ Unlock(w)
    /\ writer' = [writer EXCEPT ![w] = NoCall]
    /\ UNCHANGED <<table, over, readers>>

\* The job ends, or is retried.
StatusChanges(j) ==
    /\ over' = [over EXCEPT ![j] = ~over[j]]
    /\ UNCHANGED <<table, lock, writer, failures, readers>>

-----------------------------------------------------------------------------
(* Readers.                                                                *)

writes == <<table, lock, writer, over, failures>>
Generator(c, f) == stream' = [stream EXCEPT ![c] = f]

\* Mutants of Connect: the header is ignored; the stream starts at the newest.
ConnectFromZero(c) ==
    /\ stream[c].pc = "closed" /\ wire[c] = <<>>
    /\ Generator(c, [pc |-> "fetch", cursor |-> 0, batch |-> {}, rounds |-> Rounds])
    /\ UNCHANGED <<writes, wire, lastId, seen, cuts>>
ConnectAtNewest(c) ==
    /\ stream[c].pc = "closed" /\ wire[c] = <<>>
    /\ Generator(c, [pc |-> "fetch", cursor |-> Newest(Topic[c]), batch |-> {},
                     rounds |-> Rounds])
    /\ UNCHANGED <<writes, wire, lastId, seen, cuts>>

\* GET .../events/stream with the Last-Event-ID the client has.
Connect(c) ==
    /\ stream[c].pc = "closed" /\ wire[c] = <<>>
    /\ Generator(c, [pc |-> "fetch", cursor |-> lastId[c], batch |-> {},
                     rounds |-> Rounds])
    /\ UNCHANGED <<writes, wire, lastId, seen, cuts>>

After(j, cursor) == {n \in Recorded(j) : n > cursor}

\* store.events(job_id, cursor).
Fetch(c) ==
    /\ stream[c].pc = "fetch"
    /\ Generator(c, [stream[c] EXCEPT !.pc = "yield",
                                      !.batch = After(Topic[c], stream[c].cursor)])
    /\ UNCHANGED <<writes, wire, lastId, seen, cuts>>

\* ORDER BY sequence: the lowest that is left.
Yield(c) ==
    /\ stream[c].pc = "yield"
    /\ stream[c].batch # {}
    /\ LET n == Min(stream[c].batch) IN
         /\ Generator(c, [stream[c] EXCEPT !.cursor = n,
                                           !.batch = stream[c].batch \ {n}])
         /\ wire' = [wire EXCEPT ![c] =
                       Append(wire[c], [id |-> n, type |-> table[Topic[c]][n]])]
    /\ UNCHANGED <<writes, lastId, seen, cuts>>

\* The status is terminal: the generator returns ...
EndStream(c) ==
    /\ stream[c].pc = "yield"
    /\ stream[c].batch = {}
    /\ over[Topic[c]]
    /\ Generator(c, Closed)
    /\ UNCHANGED <<writes, wire, lastId, seen, cuts>>

\* ... or it sleeps and fetches again, as long as there are rounds left.
NextRound(c) ==
    /\ stream[c].pc = "yield"
    /\ stream[c].batch = {}
    /\ ~ over[Topic[c]]
    /\ Generator(c, IF stream[c].rounds = 1 THEN Closed
                    ELSE [stream[c] EXCEPT !.pc = "fetch",
                                           !.rounds = stream[c].rounds - 1])
    /\ UNCHANGED <<writes, wire, lastId, seen, cuts>>

Receive(c) ==
    /\ wire[c] # <<>>
    /\ lastId' = [lastId EXCEPT ![c] = Head(wire[c]).id]
    /\ seen' = [seen EXCEPT ![c] = Append(seen[c], Head(wire[c]).type)]
    /\ wire' = [wire EXCEPT ![c] = Tail(wire[c])]
    /\ UNCHANGED <<writes, stream, cuts>>

\* The connection is cut: what was on the wire is lost.
Cut(c) ==
    /\ stream[c].pc # "closed" \/ wire[c] # <<>>
    /\ cuts[c] > 0
    /\ cuts' = [cuts EXCEPT ![c] = cuts[c] - 1]
    /\ Generator(c, Closed)
    /\ wire' = [wire EXCEPT ![c] = <<>>]
    /\ UNCHANGED <<writes, lastId, seen>>

-----------------------------------------------------------------------------
WriterStep(w) == Lock(w) \/ ReadMax(w) \/ Insert(w)
ReaderStep(c) == Fetch(c) \/ Yield(c) \/ EndStream(c) \/ NextRound(c)

Next ==
    \/ \E w \in Writers :
         \/ \E j \in Jobs, t \in EventTypes : Call(w, j, t)
         \/ WriterStep(w) \/ RollBack(w)
    \/ \E j \in Jobs : StatusChanges(j)
    \/ \E c \in Clients : Connect(c) \/ ReaderStep(c) \/ Receive(c) \/ Cut(c)

Spec == Init /\ [][Next]_vars

\* The server runs its generators and the network delivers; a client that
\* is cut off connects again, as an EventSource does.
Fairness == \A c \in Clients :
    WF_vars(ReaderStep(c)) /\ WF_vars(Receive(c)) /\ WF_vars(Connect(c))

FairSpec == Spec /\ Fairness

-----------------------------------------------------------------------------
(* Properties.                                                             *)

\* The sequences of a job's events are 1, 2, ... without a gap, and no event
\* is refused by the primary key, however the writers interleave or die.
Sequenced ==
    /\ \A j \in Jobs : Recorded(j) = 1 .. Newest(j)
    /\ \A w \in Writers : writer[w].pc = "insert" =>
         writer[w].sequence \notin Recorded(writer[w].job)

\* The interface implements the log: event appends, and what a client has
\* seen is the beginning of the log, whatever was cut and resumed.
LogOf(j) == [n \in 1 .. Newest(j) |-> table[j][n]]
Log == INSTANCE EventLog WITH log <- [j \in Jobs |-> LogOf(j)]
ImplementsLog == Log!Spec

\* A client that keeps reconnecting sees every event, the one recorded after
\* the job's status became terminal and a stream ended included.
EverythingIsSeen ==
    \A c \in Clients, n \in Sequence :
        (table[Topic[c]][n] # None) ~> (lastId[c] >= n)
=============================================================================
