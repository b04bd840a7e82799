------------------------------ MODULE EventLog ------------------------------
(***************************************************************************)
(* What the event interface of a job promises: its events form a log that  *)
(* only grows at its end, and a subscriber, however often it is cut off,   *)
(* sees them from the first, in order, each once.                          *)
(***************************************************************************)
EXTENDS Naturals, Sequences

CONSTANTS
    Jobs,        \* job identifiers
    EventTypes,  \* what an event may say
    Clients,     \* subscribers
    Topic        \* Topic[c]: the job client c follows

VARIABLES
    log,         \* the events of each job
    seen         \* the events each client has seen

Init ==
    /\ log = [j \in Jobs |-> <<>>]
    /\ seen = [c \in Clients |-> <<>>]

Record(j, t) ==
    /\ log' = [log EXCEPT ![j] = Append(log[j], t)]
    /\ UNCHANGED seen

See(c) ==
    /\ Len(seen[c]) < Len(log[Topic[c]])
    /\ seen' = [seen EXCEPT ![c] =
                  Append(seen[c], log[Topic[c]][Len(seen[c]) + 1])]
    /\ UNCHANGED log

Next ==
    \/ \E j \in Jobs, t \in EventTypes : Record(j, t)
    \/ \E c \in Clients : See(c)

Spec == Init /\ [][Next]_<<log, seen>>
=============================================================================
