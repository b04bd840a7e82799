---------------------------- MODULE GradioProofs ----------------------------
(***************************************************************************)
(* Theorems about the Gradio application: what a behaviour of it is to the *)
(* workbench, and that its adaptations and its backups keep what they      *)
(* promise, for every set of tabs, repositories and paths and however many *)
(* turns, clicks and troubles there are.                                   *)
(***************************************************************************)
EXTENDS Gradio, WorkbenchProofs

-----------------------------------------------------------------------------
(* The areas.                                                              *)

\* A step of the application is one of an area, or none of it.
LEMMA AreaSteps ==
    ASSUME [GradioNext]_gradioVars
    PROVE  /\ [Next]_benchVars
           /\ [Sync!Next]_backupVars
           /\ [Chat!Next]_chatVars
  BY DEF GradioNext, gradioVars, InWorkbench, InBackup, InAdaptation, InRecordings, Of

-----------------------------------------------------------------------------
(* The ends of a set of numbers.                                           *)

LEMMA Ends ==
    ASSUME NEW D, \A i \in D : i \in Int, IsFiniteSet(D), D # {}
    PROVE  (\E m \in D : \A i \in D : i <= m) /\ (\E m \in D : \A i \in D : m <= i)
  <1>1. PICK rank : rank = [i \in D |-> Cardinality({j \in D : j < i})]
    OBVIOUS
  <1>2. PICK n : n = Cardinality(D)
    OBVIOUS
  <1>3. /\ n \in Nat /\ \A i \in D : rank[i] \in Nat /\ rank[i] < n
        /\ \A i, k \in D : k < i => rank[k] < rank[i]
        /\ \A m \in 1 .. n : \E i \in D : rank[i] = m - 1
    <2>1. /\ Cardinality(D) \in Nat
          /\ \A i \in D : Cardinality({j \in D : j < i}) \in Nat
          /\ \A i \in D : Cardinality({j \in D : j < i}) < Cardinality(D)
          /\ \A i, k \in D : k < i =>
               Cardinality({j \in D : j < k}) < Cardinality({j \in D : j < i})
          /\ \A m \in 1 .. Cardinality(D) : \E i \in D : Cardinality({j \in D : j < i}) = m - 1
      BY ONLY IntegerRanks, \A i \in D : i \in Int, IsFiniteSet(D)
    <2>2. \A i \in D : rank[i] = Cardinality({j \in D : j < i})
      BY <1>1
    <2>. QED  BY <1>2, <2>1, <2>2, Zenon
  <1>4. n > 0
    <2>1. PICK i \in D : TRUE
      OBVIOUS
    <2>. QED  BY <1>3, <2>1
  <1>5. PICK m \in D : rank[m] = n - 1
    BY <1>3, <1>4
  <1>6. PICK l \in D : rank[l] = 1 - 1
    BY <1>3, <1>4
  <1>7. \A i \in D : i <= m
    BY <1>3, <1>5
  <1>8. \A i \in D : l <= i
    BY <1>3, <1>6
  <1>. QED  BY <1>7, <1>8

-----------------------------------------------------------------------------
(* The chat that revises a prototype (llm_chat_adaptation).                *)

JobFields == {"base", "status", "prototype"}

\* A prototype that is there, or none.
Prototypes == stored \cup {0}

ChatJobInv(job) ==
    /\ DOMAIN job = JobFields
    /\ job.base \in Prototypes
    /\ job.status = "running" => job.prototype \in 1 .. Len(stamped)
    /\ job.status = "succeeded" => job.prototype \in stored

ChatTurnInv(callback) ==
    \/ callback = Chat!Idle
    \/ /\ DOMAIN callback = {"pc", "base", "job", "seen"}
       /\ callback.pc \in {"list", "create", "wait"}
       /\ callback.seen \in Prototypes /\ callback.base \in Prototypes
       /\ callback.pc # "list" => callback.seen <= callback.base
       /\ callback.pc = "wait" => callback.job \in DOMAIN uiJobs

ChatInv ==
    /\ stamped \in Seq(Nat) /\ stored \subseteq 1 .. Len(stamped)
    /\ \A p \in 1 .. Len(stamped) : stamped[p] \in Prototypes /\ stamped[p] < p
    /\ Sequence(uiJobs) /\ \A j \in DOMAIN uiJobs : ChatJobInv(uiJobs[j])
    /\ turn \in [Tabs -> {turn[t] : t \in Tabs}] /\ \A t \in Tabs : ChatTurnInv(turn[t])
    /\ uiShown \in [Tabs -> Prototypes]

LEMMA ChatInit ==
    ASSUME Chat!Init
    PROVE  ChatInv
  <1>1. Sequence(<<>>)
    BY DEF Sequence
  <1>. QED  BY <1>1 DEF Chat!Init, ChatInv, ChatTurnInv, Chat!Idle, Prototypes

\* The last of the prototypes.
LEMMA ListedIsLast ==
    ASSUME ChatInv
    PROVE  Chat!Listed \in Prototypes /\ \A p \in Prototypes : p <= Chat!Listed
  <1>1. CASE stored = {}
    BY <1>1 DEF Chat!Listed, Prototypes
  <1>2. CASE stored # {}
    <2>1. Len(stamped) \in Nat /\ stored \subseteq 1 .. Len(stamped)
      BY DEF ChatInv
    <2>2. IsFiniteSet(stored)
      <3>1. IsFiniteSet(1 .. Len(stamped))
        BY <2>1, FS_Interval
      <3>. QED  BY <2>1, <3>1, FS_Subset
    <2>3. \E m \in stored : \A i \in stored : i <= m
      <3>1. \A i \in stored : i \in Int
        BY <2>1
      <3>. QED  BY <1>2, <2>2, <3>1, Ends
    <2>4. PICK m \in stored : (\A i \in stored : i <= m) /\ Chat!Listed = m
      BY <1>2, <2>3 DEF Chat!Listed
    <2>. QED  BY <2>1, <2>4 DEF Prototypes
  <1>. QED  BY <1>1, <1>2

\* Where nothing is forgotten, a job and a turn keep what is known of them.
LEMMA ChatKeeps ==
    ASSUME ChatInv, stamped' \in Seq(Nat), Len(stamped) <= Len(stamped'), stored \subseteq stored',
           Sequence(uiJobs'), \A j \in DOMAIN uiJobs : j \in DOMAIN uiJobs'
    PROVE  /\ \A job : ChatJobInv(job) => ChatJobInv(job)'
           /\ \A callback : ChatTurnInv(callback) => ChatTurnInv(callback)'
           /\ Prototypes \subseteq Prototypes'
  <1>1. Prototypes \subseteq Prototypes'
    BY DEF Prototypes
  <1>2. 1 .. Len(stamped) \subseteq 1 .. Len(stamped')
    BY DEF ChatInv
  <1>3. ASSUME NEW job, ChatJobInv(job) PROVE ChatJobInv(job)'
    BY <1>1, <1>2, <1>3 DEF ChatJobInv
  <1>4. ASSUME NEW callback, ChatTurnInv(callback) PROVE ChatTurnInv(callback)'
    BY <1>1, <1>4 DEF ChatTurnInv, Chat!Idle
  <1>. QED  BY <1>1, <1>3, <1>4

\* A turn goes on.
LEMMA TurnGoes ==
    ASSUME ChatInv, NEW t \in Tabs, NEW callback, Chat!Goes(t, callback), ChatTurnInv(callback)',
           UNCHANGED <<stamped, stored>>, Sequence(uiJobs'),
           \A j \in DOMAIN uiJobs : j \in DOMAIN uiJobs',
           \A j \in DOMAIN uiJobs' : (j \in DOMAIN uiJobs /\ uiJobs'[j] = uiJobs[j]) \/ ChatJobInv(uiJobs'[j]),
           uiShown' \in [Tabs -> Prototypes]
    PROVE  ChatInv'
  <1>1. /\ \A job : ChatJobInv(job) => ChatJobInv(job)'
        /\ \A c : ChatTurnInv(c) => ChatTurnInv(c)'
    BY ChatKeeps DEF ChatInv
  <1>2. turn' = [turn EXCEPT ![t] = callback] /\ DOMAIN turn = Tabs
    BY DEF Chat!Goes, ChatInv
  <1>3. ASSUME NEW u \in Tabs PROVE ChatTurnInv(turn[u])'
    <2>1. CASE u = t
      BY <1>2, <2>1 DEF ChatTurnInv
    <2>2. CASE u # t
      <3>1. PICK c : c = turn[u]
        OBVIOUS
      <3>2. ChatTurnInv(c)' /\ turn'[u] = c
        BY <1>1, <1>2, <2>2, <3>1 DEF ChatInv
      <3>. QED  BY <3>2 DEF ChatTurnInv
    <2>. QED  BY <2>1, <2>2
  <1>4. turn' \in [Tabs -> {turn'[u] : u \in Tabs}]
    BY <1>2
  <1>5. ASSUME NEW j \in DOMAIN uiJobs' PROVE ChatJobInv(uiJobs[j])'
    <2>1. PICK job : job = uiJobs'[j]
      OBVIOUS
    <2>2. ChatJobInv(job)
      BY <2>1 DEF ChatInv
    <2>3. ChatJobInv(job)'
      BY <1>1, <2>2
    <2>. QED  BY <2>1, <2>3 DEF ChatJobInv
  <1>. QED  BY <1>3, <1>4, <1>5 DEF ChatInv, Prototypes

\* The callbacks of a tab.
LEMMA ChatTabStep ==
    ASSUME ChatInv, NEW t \in Tabs,
           \/ Chat!Send(t) \/ Chat!Generate(t) \/ Chat!ReadPrevious(t) \/ Chat!CreateJob(t)
           \/ Chat!GivesUp(t) \/ Chat!Replies(t) \/ Chat!Look(t)
    PROVE  ChatInv'
  <1>0. /\ uiShown[t] \in Prototypes /\ uiShown \in [Tabs -> Prototypes] /\ ChatTurnInv(turn[t])
        /\ Sequence(uiJobs) /\ Len(stamped) \in Nat /\ stored \subseteq 1 .. Len(stamped)
    BY DEF ChatInv
  <1>p. Prototypes \subseteq Nat
    BY <1>0 DEF Prototypes
  <1>1. ASSUME Chat!Send(t) PROVE ChatInv'
    <2>1. PICK callback : callback = [pc |-> "list", base |-> 0, job |-> 0, seen |-> uiShown[t]]
      OBVIOUS
    <2>2. /\ Chat!Goes(t, callback) /\ UNCHANGED <<uiJobs, stamped, stored, uiShown>>
      BY <1>1, <2>1 DEF Chat!Send
    <2>3. ChatTurnInv(callback)'
      BY <1>0, <2>1, <2>2 DEF ChatTurnInv, Prototypes
    <2>. QED  BY <1>0, <2>2, <2>3, TurnGoes
  <1>2. ASSUME Chat!Generate(t) PROVE ChatInv'
    <2>1. PICK callback : callback = [pc |-> "create", base |-> 0, job |-> 0, seen |-> 0]
      OBVIOUS
    <2>2. /\ Chat!Goes(t, callback) /\ UNCHANGED <<uiJobs, stamped, stored, uiShown>>
      BY <1>2, <2>1 DEF Chat!Generate
    <2>3. ChatTurnInv(callback)'
      BY <1>0, <2>1, <2>2 DEF ChatTurnInv, Prototypes
    <2>. QED  BY <1>0, <2>2, <2>3, TurnGoes
  <1>3. ASSUME Chat!ReadPrevious(t) PROVE ChatInv'
    <2>1. PICK last, callback : /\ last = Chat!Listed
                                /\ callback = [turn[t] EXCEPT !.pc = "create", !.base = last]
      OBVIOUS
    <2>2. /\ Chat!Goes(t, callback) /\ UNCHANGED <<uiJobs, stamped, stored, uiShown>>
          /\ turn[t].pc = "list"
      BY <1>3, <2>1 DEF Chat!ReadPrevious, Chat!At
    <2>3. /\ DOMAIN turn[t] = {"pc", "base", "job", "seen"} /\ turn[t].seen \in Prototypes
      BY <1>0, <2>2 DEF ChatTurnInv, Chat!Idle
    <2>4. last \in Prototypes /\ turn[t].seen <= last
      BY <2>1, <2>3, ListedIsLast
    <2>5. /\ DOMAIN callback = {"pc", "base", "job", "seen"} /\ callback.pc = "create"
          /\ callback.base = last /\ callback.seen = turn[t].seen
      BY <2>1, <2>3
    <2>6. ChatTurnInv(callback)'
      BY <2>2, <2>3, <2>4, <2>5 DEF ChatTurnInv, Prototypes
    <2>. QED  BY <1>0, <2>2, <2>6, TurnGoes
  <1>4. ASSUME Chat!CreateJob(t) PROVE ChatInv'
    <2>1. PICK n, job, callback :
               /\ n = Len(uiJobs) + 1 /\ job = [base |-> turn[t].base, status |-> "queued", prototype |-> 0]
               /\ callback = [turn[t] EXCEPT !.pc = "wait", !.job = n]
      OBVIOUS
    <2>2. /\ Chat!Goes(t, callback) /\ UNCHANGED <<stamped, stored, uiShown>>
          /\ turn[t].pc = "create" /\ uiJobs' = Append(uiJobs, job)
      BY <1>4, <2>1 DEF Chat!CreateJob, Chat!At
    <2>3. /\ DOMAIN turn[t] = {"pc", "base", "job", "seen"}
          /\ turn[t].seen \in Prototypes /\ turn[t].base \in Prototypes /\ turn[t].seen <= turn[t].base
      BY <1>0, <2>2 DEF ChatTurnInv, Chat!Idle
    <2>4. /\ Sequence(uiJobs') /\ DOMAIN uiJobs' = DOMAIN uiJobs \cup {n} /\ uiJobs'[n] = job
          /\ \A j \in DOMAIN uiJobs : uiJobs'[j] = uiJobs[j]
      BY <1>0, <2>1, <2>2, SequenceFacts
    <2>5. /\ DOMAIN callback = {"pc", "base", "job", "seen"} /\ callback.pc = "wait" /\ callback.job = n
          /\ callback.base = turn[t].base /\ callback.seen = turn[t].seen
      BY <2>1, <2>3
    <2>6. ChatTurnInv(callback)'
      BY <2>2, <2>3, <2>4, <2>5 DEF ChatTurnInv, Prototypes
    <2>7. ChatJobInv(job)
      BY <2>1, <2>3 DEF ChatJobInv, JobFields
    <2>. QED  BY <1>0, <2>2, <2>4, <2>6, <2>7, TurnGoes
  <1>5. ASSUME Chat!GivesUp(t) PROVE ChatInv'
    <2>1. /\ Chat!Goes(t, Chat!Idle) /\ UNCHANGED <<uiJobs, stamped, stored, uiShown>>
      BY <1>5 DEF Chat!GivesUp
    <2>2. ChatTurnInv(Chat!Idle)'
      BY DEF ChatTurnInv, Chat!Idle
    <2>. QED  BY <1>0, <2>1, <2>2, TurnGoes
  <1>6. ASSUME Chat!Replies(t) PROVE ChatInv'
    <2>1. PICK job : job = uiJobs[turn[t].job]
      OBVIOUS
    <2>2. /\ Chat!Goes(t, Chat!Idle) /\ UNCHANGED <<uiJobs, stamped, stored>> /\ turn[t].pc = "wait"
          /\ uiShown' = IF job.status = "succeeded" THEN [uiShown EXCEPT ![t] = job.prototype] ELSE uiShown
      BY <1>6, <2>1 DEF Chat!Replies, Chat!At
    <2>3. ChatJobInv(job)
      BY <1>0, <2>1, <2>2 DEF ChatInv, ChatTurnInv, Chat!Idle
    <2>4. uiShown' \in [Tabs -> Prototypes]
      BY <1>0, <2>2, <2>3 DEF ChatJobInv, Prototypes
    <2>5. ChatTurnInv(Chat!Idle)'
      BY DEF ChatTurnInv, Chat!Idle
    <2>. QED  BY <1>0, <2>2, <2>4, <2>5, TurnGoes
  <1>7. ASSUME Chat!Look(t) PROVE ChatInv'
    <2>1. uiShown' = [uiShown EXCEPT ![t] = Chat!Listed] /\ UNCHANGED <<uiJobs, stamped, stored, turn>>
      BY <1>7 DEF Chat!Look
    <2>2. uiShown' \in [Tabs -> Prototypes]
      BY <1>0, <2>1, ListedIsLast
    <2>. QED  BY <2>1, <2>2 DEF ChatInv, ChatJobInv, ChatTurnInv, Prototypes
  <1>. QED  BY <1>1, <1>2, <1>3, <1>4, <1>5, <1>6, <1>7

\* A job changes, and with it what there is.
LEMMA ChatJobChanges ==
    ASSUME ChatInv, NEW j \in DOMAIN uiJobs, NEW job, uiJobs' = [uiJobs EXCEPT ![j] = job],
           ChatJobInv(job)', UNCHANGED <<turn, uiShown>>,
           stamped' \in Seq(Nat), Len(stamped) <= Len(stamped'), stored \subseteq stored',
           stored' \subseteq 1 .. Len(stamped'),
           \A p \in 1 .. Len(stamped') : stamped'[p] \in Prototypes' /\ stamped'[p] < p
    PROVE  ChatInv'
  <1>1. /\ Sequence(uiJobs') /\ DOMAIN uiJobs' = DOMAIN uiJobs /\ uiJobs'[j] = job
        /\ \A k \in DOMAIN uiJobs \ {j} : uiJobs'[k] = uiJobs[k]
    BY SequenceFacts DEF ChatInv, Sequence
  <1>2. /\ \A k : ChatJobInv(k) => ChatJobInv(k)'
        /\ \A c : ChatTurnInv(c) => ChatTurnInv(c)'
        /\ Prototypes \subseteq Prototypes'
    BY <1>1, ChatKeeps
  <1>3. ASSUME NEW k \in DOMAIN uiJobs' PROVE ChatJobInv(uiJobs[k])'
    <2>1. PICK other : other = uiJobs'[k]
      OBVIOUS
    <2>2. ChatJobInv(other)'
      BY <1>1, <1>2, <2>1 DEF ChatInv
    <2>. QED  BY <2>1, <2>2 DEF ChatJobInv
  <1>4. ASSUME NEW t \in Tabs PROVE ChatTurnInv(turn[t])'
    <2>1. PICK c : c = turn[t]
      OBVIOUS
    <2>2. ChatTurnInv(c)'
      BY <1>2, <2>1 DEF ChatInv
    <2>. QED  BY <2>1, <2>2 DEF ChatTurnInv
  <1>5. uiShown' \in [Tabs -> Prototypes'] /\ turn' \in [Tabs -> {turn'[t] : t \in Tabs}]
    BY <1>2 DEF ChatInv
  <1>. QED  BY <1>1, <1>3, <1>4, <1>5 DEF ChatInv

\* The executor's steps.
LEMMA ChatExecutorStep ==
    ASSUME ChatInv, NEW j \in DOMAIN uiJobs, Chat!Execute(j) \/ Chat!Store(j) \/ Chat!StoreFails(j)
    PROVE  ChatInv'
  <1>p. PICK job : job = uiJobs[j]
    OBVIOUS
  <1>0. /\ ChatJobInv(job) /\ stamped \in Seq(Nat) /\ stored \subseteq 1 .. Len(stamped)
        /\ Len(stamped) \in Nat
        /\ \A p \in 1 .. Len(stamped) : stamped[p] \in Prototypes /\ stamped[p] < p
    BY <1>p DEF ChatInv
  <1>1. ASSUME Chat!Execute(j) PROVE ChatInv'
    <2>1. PICK base \in {0, job.base} : stamped' = Append(stamped, base)
      BY <1>1, <1>p DEF Chat!Execute
    <2>2. PICK n, next : n = Len(stamped) + 1 /\ next = [job EXCEPT !.status = "running", !.prototype = n]
      OBVIOUS
    <2>3. uiJobs' = [uiJobs EXCEPT ![j] = next] /\ UNCHANGED <<stored, turn, uiShown>>
      BY <1>1, <1>p, <2>2 DEF Chat!Execute
    <2>4. base \in Prototypes /\ base \in Nat /\ base < n
      BY <1>0, <2>1, <2>2 DEF ChatJobInv, Prototypes
    <2>5. /\ stamped' \in Seq(Nat) /\ Len(stamped') = n /\ stamped'[n] = base
          /\ \A p \in 1 .. Len(stamped) : stamped'[p] = stamped[p]
      BY <1>0, <2>1, <2>2, <2>4
    <2>6. \A p \in 1 .. Len(stamped') : stamped'[p] \in Prototypes' /\ stamped'[p] < p
      <3>1. \A p \in 1 .. Len(stamped') : p \in 1 .. Len(stamped) \/ p = n
        BY <1>0, <2>2, <2>5
      <3>2. Prototypes' = Prototypes
        BY <2>3 DEF Prototypes
      <3>. QED  BY <1>0, <2>4, <2>5, <3>1, <3>2
    <2>7. ChatJobInv(next)'
      <3>1. /\ DOMAIN next = JobFields /\ next.status = "running" /\ next.prototype = n /\ next.base = job.base
        BY <1>0, <2>2 DEF ChatJobInv, JobFields
      <3>2. n \in 1 .. Len(stamped')
        BY <1>0, <2>2, <2>5
      <3>. QED  BY <1>0, <2>3, <3>1, <3>2 DEF ChatJobInv, Prototypes
    <2>8. Len(stamped) <= Len(stamped') /\ stored' \subseteq 1 .. Len(stamped')
      BY <1>0, <2>2, <2>3, <2>5
    <2>. QED  BY <2>3, <2>5, <2>6, <2>7, <2>8, ChatJobChanges
  <1>2. ASSUME Chat!Store(j) PROVE ChatInv'
    <2>1. PICK next : next = [job EXCEPT !.status = "succeeded"]
      OBVIOUS
    <2>2. /\ uiJobs' = [uiJobs EXCEPT ![j] = next] /\ UNCHANGED <<stamped, turn, uiShown>>
          /\ stored' = stored \cup {job.prototype} /\ job.status = "running"
      BY <1>2, <1>p, <2>1 DEF Chat!Store
    <2>3. job.prototype \in 1 .. Len(stamped)
      BY <1>0, <2>2 DEF ChatJobInv
    <2>4. /\ DOMAIN next = JobFields /\ next.status = "succeeded"
          /\ next.prototype = job.prototype /\ next.base = job.base
      BY <1>0, <2>1 DEF ChatJobInv, JobFields
    <2>5. ChatJobInv(next)'
      BY <1>0, <2>2, <2>4 DEF ChatJobInv, Prototypes
    <2>6. \A p \in 1 .. Len(stamped') : stamped'[p] \in Prototypes' /\ stamped'[p] < p
      BY <1>0, <2>2 DEF Prototypes
    <2>7. /\ stamped' \in Seq(Nat) /\ Len(stamped) <= Len(stamped')
          /\ stored \subseteq stored' /\ stored' \subseteq 1 .. Len(stamped')
      BY <1>0, <2>2, <2>3
    <2>. QED  BY <2>2, <2>5, <2>6, <2>7, ChatJobChanges
  <1>3. ASSUME Chat!StoreFails(j) PROVE ChatInv'
    <2>1. PICK next : next = [job EXCEPT !.status = "failed"]
      OBVIOUS
    <2>2. /\ uiJobs' = [uiJobs EXCEPT ![j] = next] /\ UNCHANGED <<stamped, stored, turn, uiShown>>
      BY <1>3, <1>p, <2>1 DEF Chat!StoreFails
    <2>3. DOMAIN next = JobFields /\ next.status = "failed" /\ next.base = job.base
      BY <1>0, <2>1 DEF ChatJobInv, JobFields
    <2>4. ChatJobInv(next)'
      BY <1>0, <2>2, <2>3 DEF ChatJobInv, Prototypes
    <2>5. \A p \in 1 .. Len(stamped') : stamped'[p] \in Prototypes' /\ stamped'[p] < p
      BY <1>0, <2>2 DEF Prototypes
    <2>6. /\ stamped' \in Seq(Nat) /\ Len(stamped) <= Len(stamped')
          /\ stored \subseteq stored' /\ stored' \subseteq 1 .. Len(stamped')
      BY <1>0, <2>2
    <2>. QED  BY <2>2, <2>4, <2>5, <2>6, ChatJobChanges
  <1>. QED  BY <1>1, <1>2, <1>3

LEMMA ChatStep ==
    ASSUME ChatInv, [Chat!Next]_chatVars
    PROVE  ChatInv'
  <1>1. CASE Chat!Next
    BY <1>1, ChatTabStep, ChatExecutorStep DEF Chat!Next
  <1>2. CASE UNCHANGED chatVars
    BY <1>2 DEF chatVars, ChatInv, ChatJobInv, ChatTurnInv, Prototypes
  <1>. QED  BY <1>1, <1>2

-----------------------------------------------------------------------------
(* What a prototype descends from.                                         *)

\* What a revision of something was made from belongs to it.
Closed(family) ==
    /\ family \subseteq 1 .. Len(stamped)
    /\ \A q \in family : stamped[q] # 0 => stamped[q] \in family

\* The least family of a prototype, of which there is one without recursion.
Family(p) == {q \in 1 .. Len(stamped) : \A family \in SUBSET (1 .. Len(stamped)) :
                                          Closed(family) /\ (p # 0 => p \in family) => q \in family}

LEMMA FamilyOfRevision ==
    ASSUME ChatInv
    PROVE  /\ Family(0) = {}
           /\ \A p \in 1 .. Len(stamped) : Family(p) = {p} \cup Family(stamped[p])
  <1>0. /\ Len(stamped) \in Nat /\ stored \subseteq 1 .. Len(stamped)
        /\ \A p \in 1 .. Len(stamped) : stamped[p] \in Prototypes
    BY DEF ChatInv
  <1>p. Prototypes \subseteq {0} \cup 1 .. Len(stamped)
    BY <1>0 DEF Prototypes
  <1>1. Closed({})
    BY DEF Closed
  <1>2. Family(0) = {}
    BY <1>1 DEF Family
  <1>3. ASSUME NEW p, p = 0 \/ p \in 1 .. Len(stamped)
        PROVE  Closed(Family(p)) /\ (p # 0 => p \in Family(p))
    <2>1. p # 0 => p \in Family(p)
      BY <1>3 DEF Family
    <2>2. ASSUME NEW q \in Family(p), stamped[q] # 0 PROVE stamped[q] \in Family(p)
      <3>1. stamped[q] \in 1 .. Len(stamped)
        BY <1>0, <1>p, <2>2 DEF Family
      <3>. QED  BY <2>2, <3>1 DEF Family, Closed
    <2>3. Family(p) \subseteq 1 .. Len(stamped)
      BY DEF Family
    <2>. QED  BY <2>1, <2>2, <2>3 DEF Closed
  <1>4. ASSUME NEW p \in 1 .. Len(stamped) PROVE Family(p) = {p} \cup Family(stamped[p])
    <2>0. p # 0 /\ (stamped[p] = 0 \/ stamped[p] \in 1 .. Len(stamped))
      <3>1. p # 0
        BY <1>0
      <3>2. stamped[p] \in Prototypes
        BY <1>0
      <3>. QED  BY <1>0, <3>1, <3>2 DEF Prototypes
    <2>1. Closed(Family(p)) /\ p \in Family(p)
      BY <1>3, <2>0
    <2>2. Closed(Family(stamped[p])) /\ (stamped[p] # 0 => stamped[p] \in Family(stamped[p]))
      BY <1>3, <2>0
    <2>3. Family(stamped[p]) \subseteq Family(p)
      <3>1. stamped[p] # 0 => stamped[p] \in Family(p)
        BY <2>1 DEF Closed
      <3>2. Family(p) \in SUBSET (1 .. Len(stamped))
        BY <2>1 DEF Closed
      <3>3. PICK all : all = Family(p)
        OBVIOUS
      <3>4. \A q \in Family(stamped[p]) : q \in all
        BY <2>1, <3>1, <3>2, <3>3 DEF Family
      <3>. QED  BY <3>3, <3>4
    <2>4. Family(p) \subseteq {p} \cup Family(stamped[p])
      <3>1. PICK all : all = {p} \cup Family(stamped[p])
        OBVIOUS
      <3>2. Closed(all) /\ p \in all
        BY <2>0, <2>2, <3>1 DEF Closed
      <3>3. all \in SUBSET (1 .. Len(stamped))
        BY <3>2 DEF Closed
      <3>4. \A q \in Family(p) : q \in all
        BY <3>2, <3>3 DEF Family
      <3>. QED  BY <3>1, <3>4
    <2>. QED  BY <2>1, <2>3, <2>4
  <1>. QED  BY <1>2, <1>4

\* The lineage of a prototype is what its recursion says.
LEMMA LineageIsRecursive ==
    ASSUME ChatInv
    PROVE  /\ DOMAIN Chat!Lineage = 0 .. Len(stamped)
           /\ Chat!Lineage[0] = {}
           /\ \A p \in 1 .. Len(stamped) : Chat!Lineage[p] = {p} \cup Chat!Lineage[stamped[p]]
  <1>. DEFINE Recursive(of) ==
                of = [p \in 0 .. Len(stamped) |-> IF p = 0 THEN {} ELSE {p} \cup of[stamped[p]]]
  <1>0. /\ Len(stamped) \in Nat /\ stored \subseteq 1 .. Len(stamped)
        /\ \A p \in 1 .. Len(stamped) : stamped[p] \in Prototypes
    BY DEF ChatInv
  <1>1. \A p \in 0 .. Len(stamped) : p = 0 \/ (p \in 1 .. Len(stamped) /\ stamped[p] \in 0 .. Len(stamped))
    <2>1. \A p \in 0 .. Len(stamped) : p = 0 \/ p \in 1 .. Len(stamped)
      BY <1>0
    <2>2. Prototypes \subseteq 0 .. Len(stamped)
      BY <1>0 DEF Prototypes
    <2>. QED  BY <1>0, <2>1, <2>2
  <1>2. \E of : Recursive(of)
    <2>1. PICK of : of = [p \in 0 .. Len(stamped) |-> Family(p)]
      OBVIOUS
    <2>2. \A p \in 0 .. Len(stamped) : of[p] = IF p = 0 THEN {} ELSE {p} \cup of[stamped[p]]
      BY <1>1, <2>1, FamilyOfRevision
    <2>3. of = [p \in 0 .. Len(stamped) |-> of[p]]
      BY <2>1
    <2>4. Recursive(of)
      BY <2>2, <2>3
    <2>. QED  BY <2>4
  <1>3. Chat!Lineage = CHOOSE of : Recursive(of)
    BY DEF Chat!Lineage
  <1>4. PICK of : of = Chat!Lineage /\ Recursive(of)
    <2>. HIDE DEF Recursive
    <2>. QED  BY <1>2, <1>3
  <1>5. /\ DOMAIN of = 0 .. Len(stamped)
        /\ \A p \in 0 .. Len(stamped) : of[p] = IF p = 0 THEN {} ELSE {p} \cup of[stamped[p]]
    BY <1>4
  <1>6. of[0] = {} /\ \A p \in 1 .. Len(stamped) : of[p] = {p} \cup of[stamped[p]]
    BY <1>0, <1>5
  <1>. QED  BY <1>4, <1>5, <1>6

LEMMA LineageIsStored ==
    ASSUME ChatInv, NEW p \in stored
    PROVE  Chat!Lineage[p] \subseteq stored /\ \A q \in Chat!Lineage[p] : q <= p
  <1>p. PICK of : of = Chat!Lineage
    OBVIOUS
  <1>0. /\ Len(stamped) \in Nat /\ stored \subseteq 1 .. Len(stamped)
        /\ \A q \in 1 .. Len(stamped) : stamped[q] \in Prototypes /\ stamped[q] < q
    BY DEF ChatInv
  <1>1. of[0] = {} /\ \A q \in 1 .. Len(stamped) : of[q] = {q} \cup of[stamped[q]]
    BY <1>p, LineageIsRecursive
  <1>. DEFINE Sound(q) == of[q] \subseteq stored /\ \A r \in of[q] : r <= q
              unsound == {q \in stored : ~Sound(q)}
  <1>2. ASSUME unsound # {} PROVE FALSE
    <2>1. IsFiniteSet(unsound) /\ \A q \in unsound : q \in Int
      <3>1. IsFiniteSet(1 .. Len(stamped))
        BY <1>0, FS_Interval
      <3>2. unsound \in SUBSET (1 .. Len(stamped))
        BY <1>0
      <3>. QED  BY <1>0, <3>1, <3>2, FS_Subset
    <2>2. PICK q \in unsound : \A r \in unsound : q <= r
      <3>. HIDE DEF unsound
      <3>. QED  BY <1>2, <2>1, Ends
    <2>3. /\ q \in stored /\ q \in 1 .. Len(stamped) /\ stamped[q] \in Prototypes /\ stamped[q] < q
          /\ of[q] = {q} \cup of[stamped[q]]
      BY <1>0, <1>1
    <2>4. stamped[q] = 0 \/ (stamped[q] \in stored /\ stamped[q] \notin unsound)
      <3>1. stamped[q] = 0 \/ stamped[q] \in stored
        BY <2>3 DEF Prototypes
      <3>2. ASSUME stamped[q] \in unsound PROVE FALSE
        <4>1. q <= stamped[q]
          BY <2>2, <3>2
        <4>2. q \in Int /\ stamped[q] \in Int
          BY <1>0, <2>1, <2>2, <3>2
        <4>. QED  BY <2>3, <4>1, <4>2
      <3>. QED  BY <3>1, <3>2
    <2>5. Sound(q)
      <3>1. CASE stamped[q] = 0
        BY <1>0, <1>1, <2>3, <3>1
      <3>2. CASE stamped[q] \in stored /\ Sound(stamped[q])
        <4>1. \A r \in of[stamped[q]] : r \in stored /\ r <= stamped[q]
          BY <3>2
        <4>2. ASSUME NEW r \in of[stamped[q]] PROVE r <= q
          <5>1. r \in Nat /\ stamped[q] \in Nat /\ q \in Nat
            <6>1. r \in stored /\ stamped[q] \in stored /\ q \in stored
              BY <2>3, <3>2, <4>1
            <6>2. stored \subseteq Nat
              BY <1>0
            <6>. QED  BY <6>1, <6>2
          <5>2. r <= stamped[q]
            BY <4>1
          <5>. QED  BY <2>3, <5>1, <5>2
        <4>. QED  BY <1>0, <2>3, <4>1, <4>2
      <3>. QED  BY <2>4, <3>1, <3>2
    <2>. QED  BY <2>5
  <1>3. Sound(p)
    BY <1>2
  <1>. QED  BY <1>3, <1>p

\* A turn of the chat never goes back behind what its tab had been shown when
\* the message was sent, and what a stored prototype descends from was stored
\* before it, in however many tabs and whatever fails (llm_chat_adaptation,
\* _ui_adaptation).
THEOREM TurnsGoForwardAlways == GradioSpec => []TurnsGoForward
  <1>1. GradioInit => ChatInv
    BY ChatInit DEF GradioInit
  <1>2. ChatInv /\ [GradioNext]_gradioVars => ChatInv'
    BY AreaSteps, ChatStep
  <1>3. ChatInv => TurnsGoForward
    <2>1. ASSUME ChatInv, NEW t \in Tabs, turn[t].pc \in {"create", "wait"}
          PROVE  turn[t].seen <= turn[t].base
      BY <2>1 DEF ChatInv, ChatTurnInv, Chat!Idle
    <2>. QED  BY <2>1, LineageIsStored DEF TurnsGoForward, Chat!TurnsGoForward
  <1>. QED  BY <1>1, <1>2, <1>3, PTL DEF GradioSpec

-----------------------------------------------------------------------------
(* The backups of a session (sync_session_to_github).                      *)

\* A list of the session's artifacts, oldest first.
InOrder(listed) ==
    /\ listed \in Seq(1 .. Len(session))
    /\ \A m, n \in 1 .. Len(listed) : m < n => listed[m] < listed[n]

SyncInv(sync) ==
    \/ sync = Sync!Resting
    \/ /\ DOMAIN sync = {"pc", "repo", "listed", "at", "sha", "errors"}
       /\ sync.pc \in {"list", "read", "put"} /\ sync.repo \in Repos
       /\ InOrder(sync.listed) /\ sync.at \in Nat
       /\ sync.pc # "list" => sync.at \in 1 .. Len(sync.listed)
       /\ sync.pc = "list" => sync.at = 1 /\ sync.listed = <<>> /\ sync.errors = {}

DoneInv(sync) == sync.repo \in Repos /\ InOrder(sync.listed)

ControlsInv(controls) ==
    /\ DOMAIN controls = {"connected", "selected", "changed", "verifying", "locked"}
    /\ controls.locked \in Repos \cup {None}

\* A backup under way, or over, by what it has gone past.
Past(repo, pushed, errors) == [repo |-> repo, pushed |-> pushed, errors |-> errors]
GonePast(sync) == Past(sync.repo, {sync.listed[n] : n \in 1 .. sync.at - 1}, sync.errors)
AllPast(sync) == Past(sync.repo, {sync.listed[n] : n \in 1 .. Len(sync.listed)}, sync.errors)

Pasts ==
    {GonePast(syncs[t]) : t \in {u \in Tabs : syncs[u] # Sync!Resting}} \cup {AllPast(sync) : sync \in done}

\* A file holds the last artifact of its path that a backup has gone past.
IsLast(past, p) ==
    /\ files[past.repo][p] \in past.pushed /\ session[files[past.repo][p]] = p
    /\ \A a \in past.pushed : session[a] = p => a <= files[past.repo][p]

\* Of a path that a backup has gone past, one of its repository has failed at
\* something or is the last to have written the file.
PastInv ==
    \A past \in Pasts, p \in Paths :
      (\E a \in past.pushed : session[a] = p) =>
        \E other \in Pasts : other.repo = past.repo /\ (other.errors # {} \/ IsLast(other, p))

BackupInv ==
    /\ session \in Seq(Paths) /\ writable \subseteq Repos
    /\ files \in [Repos -> [Paths -> Nat]]
    /\ DOMAIN tabs = Tabs /\ \A t \in Tabs : ControlsInv(tabs[t])
    /\ DOMAIN syncs = Tabs /\ \A t \in Tabs : SyncInv(syncs[t])
    /\ \A sync \in done : DoneInv(sync)
    /\ PastInv

LEMMA BackupInit ==
    ASSUME Sync!Init
    PROVE  BackupInv
  <1>1. session \in Seq(Paths)
    <2>1. PICK p \in Paths : session = <<p>>
      BY DEF Sync!Init
    <2>. QED  BY <2>1
  <1>2. files \in [Repos -> [Paths -> Nat]] /\ writable \subseteq Repos
    BY DEF Sync!Init
  <1>3. DOMAIN tabs = Tabs /\ \A t \in Tabs : ControlsInv(tabs[t])
    BY DEF Sync!Init, ControlsInv
  <1>4. DOMAIN syncs = Tabs /\ \A t \in Tabs : SyncInv(syncs[t])
    BY DEF Sync!Init, SyncInv
  <1>5. Pasts = {} /\ done = {}
    BY DEF Sync!Init, Pasts
  <1>. QED  BY <1>1, <1>2, <1>3, <1>4, <1>5 DEF BackupInv, PastInv

\* The artifacts that are listed are in the order of their numbers.
LEMMA SameCardinality == \A S : Sync!Cardinality(S) = Cardinality(S)
  BY DEF Cardinality, Sync!Cardinality

LEMMA ListedInOrder ==
    ASSUME BackupInv
    PROVE  InOrder(Sync!Listed)
  <1>p. PICK D : D = DOMAIN session \ gone
    OBVIOUS
  <1>0. Len(session) \in Nat /\ D \subseteq 1 .. Len(session)
    BY <1>p DEF BackupInv
  <1>1. IsFiniteSet(D) /\ \A i \in D : i \in Int
    <2>1. IsFiniteSet(1 .. Len(session))
      BY <1>0, FS_Interval
    <2>2. IsFiniteSet(D)
      BY <1>0, <2>1, FS_Subset
    <2>. QED  BY <1>0, <2>2
  <1>r. PICK rank, n : rank = [i \in D |-> Cardinality({j \in D : j < i})] /\ n = Cardinality(D)
    OBVIOUS
  <1>2. /\ n \in Nat /\ \A i \in D : rank[i] \in Nat
        /\ \A i, k \in D : k < i => rank[k] < rank[i]
        /\ \A m \in 1 .. n : \E i \in D : rank[i] = m - 1
    <2>1. /\ Cardinality(D) \in Nat
          /\ \A i \in D : Cardinality({j \in D : j < i}) \in Nat
          /\ \A i, k \in D : k < i =>
               Cardinality({j \in D : j < k}) < Cardinality({j \in D : j < i})
          /\ \A m \in 1 .. Cardinality(D) : \E i \in D : Cardinality({j \in D : j < i}) = m - 1
      BY ONLY IntegerRanks, <1>1
    <2>2. \A i \in D : rank[i] = Cardinality({j \in D : j < i})
      BY <1>r
    <2>. QED  BY <1>r, <2>1, <2>2, Zenon
  <1>3. PICK nth : nth = [m \in 1 .. n |-> CHOOSE i \in D : rank[i] = m - 1]
    OBVIOUS
  <1>4. \A m \in 1 .. n : nth[m] \in D /\ rank[nth[m]] = m - 1
    BY <1>2, <1>3
  <1>5. Sync!Listed = nth
    <2>. DEFINE Nth(m) == CHOOSE i \in D : Sync!Cardinality({j \in D : j < i}) = m - 1
                Ranked(m) == CHOOSE i \in D : rank[i] = m - 1
    <2>1. Sync!Listed = [m \in 1 .. Sync!Cardinality(D) |-> Nth(m)]
      BY <1>p DEF Sync!Listed, Sync!OldestFirst
    <2>2. ASSUME NEW m \in 1 .. n PROVE Nth(m) = Ranked(m)
      <3>1. \A i \in D : rank[i] = m - 1 <=> Sync!Cardinality({j \in D : j < i}) = m - 1
        BY <1>r, SameCardinality
      <3>. QED  BY <3>1
    <2>3. Sync!Cardinality(D) = n
      BY <1>r, SameCardinality
    <2>4. nth = [m \in 1 .. n |-> Ranked(m)]
      BY <1>3
    <2>. HIDE DEF Nth, Ranked
    <2>. QED  BY <2>1, <2>2, <2>3, <2>4
  <1>6. nth \in Seq(1 .. Len(session)) /\ Len(nth) = n
    <2>1. nth \in [1 .. n -> 1 .. Len(session)]
      BY <1>0, <1>3, <1>4
    <2>. QED  BY <1>2, <2>1
  <1>7. ASSUME NEW l \in 1 .. n, NEW m \in 1 .. n, l < m PROVE nth[l] < nth[m]
    <2>1. nth[l] \in D /\ nth[m] \in D /\ rank[nth[l]] = l - 1 /\ rank[nth[m]] = m - 1
      BY <1>4
    <2>2. ~(nth[m] < nth[l]) /\ nth[m] # nth[l]
      BY <1>2, <1>7, <2>1
    <2>3. nth[l] \in Int /\ nth[m] \in Int
      BY <1>1, <2>1
    <2>. QED  BY <2>2, <2>3
  <1>. QED  BY <1>5, <1>6, <1>7 DEF InOrder

LEMMA PastsTyped ==
    ASSUME BackupInv
    PROVE  \A past \in Pasts : past.repo \in Repos /\ past.pushed \subseteq 1 .. Len(session)
  <1>1. ASSUME NEW t \in Tabs, syncs[t] # Sync!Resting
        PROVE  GonePast(syncs[t]).repo \in Repos /\ GonePast(syncs[t]).pushed \subseteq 1 .. Len(session)
    <2>p. PICK sync : sync = syncs[t]
      OBVIOUS
    <2>0. SyncInv(sync) /\ sync # Sync!Resting
      BY <1>1, <2>p DEF BackupInv
    <2>a. sync.repo \in Repos /\ InOrder(sync.listed) /\ sync.at \in Nat
      BY <2>0 DEF SyncInv
    <2>b. sync.listed \in Seq(1 .. Len(session)) /\ Len(sync.listed) \in Nat
      BY <2>a DEF InOrder
    <2>c. sync.at = 1 \/ sync.at \in 1 .. Len(sync.listed)
      BY <2>0 DEF SyncInv
    <2>1. /\ sync.repo \in Repos /\ sync.listed \in Seq(1 .. Len(session)) /\ sync.at \in Nat
          /\ sync.at - 1 <= Len(sync.listed)
      BY <2>a, <2>b, <2>c
    <2>2. \A n \in 1 .. sync.at - 1 : n \in 1 .. Len(sync.listed)
      BY <2>1
    <2>. QED  BY <2>1, <2>2, <2>p DEF GonePast, Past
  <1>2. ASSUME NEW sync \in done
        PROVE  AllPast(sync).repo \in Repos /\ AllPast(sync).pushed \subseteq 1 .. Len(session)
    <2>1. sync.repo \in Repos /\ sync.listed \in Seq(1 .. Len(session))
      BY DEF BackupInv, DoneInv, InOrder
    <2>. QED  BY <2>1 DEF AllPast, Past
  <1>. QED  BY <1>1, <1>2 DEF Pasts

\* A step that writes nothing and takes only backups out of account that have
\* gone past nothing.
LEMMA PastsStay ==
    ASSUME BackupInv, files' = files, \A a \in 1 .. Len(session) : session'[a] = session[a],
           \A past \in Pasts' : past \in Pasts \/ past.pushed = {},
           \A past \in Pasts : past \in Pasts' \/ (past.pushed = {} /\ past.errors = {})
    PROVE  PastInv'
  <1>0. PastInv /\ \A past \in Pasts : past.pushed \subseteq 1 .. Len(session)
    BY PastsTyped DEF BackupInv
  <1>1. ASSUME NEW past \in Pasts', NEW p \in Paths', NEW a \in past.pushed, session'[a] = p
        PROVE  \E other \in Pasts' : other.repo = past.repo /\ (other.errors # {} \/ IsLast(other, p)')
    <2>1. past \in Pasts /\ session[a] = p
      BY <1>0, <1>1
    <2>2. PICK other \in Pasts : other.repo = past.repo /\ (other.errors # {} \/ IsLast(other, p))
      BY <1>0, <2>1 DEF PastInv
    <2>3. other \in Pasts'
      BY <2>2 DEF IsLast
    <2>4. \A b \in other.pushed : session'[b] = session[b]
      BY <1>0
    <2>5. IsLast(other, p) => IsLast(other, p)'
      BY <2>4 DEF IsLast
    <2>. QED  BY <2>2, <2>3, <2>5
  <1>. QED  BY <1>1 DEF PastInv

\* A backup that goes past an artifact has failed, or has written it.
LEMMA PastsMove ==
    ASSUME BackupInv, session' = session, NEW old \in Pasts, NEW new, new \in Pasts',
           Pasts' \subseteq Pasts \cup {new}, Pasts \ {old} \subseteq Pasts', new.repo = old.repo,
           \A r \in Repos \ {old.repo} : files'[r] = files[r],
           \/ new.errors # {}
           \/ /\ new.errors = old.errors
              /\ \E a \in 1 .. Len(session) :
                   /\ new.pushed = old.pushed \cup {a} /\ \A b \in old.pushed : b < a
                   /\ files'[old.repo][session[a]] = a
                   /\ \A p \in Paths \ {session[a]} : files'[old.repo][p] = files[old.repo][p]
    PROVE  PastInv'
  <1>0. /\ PastInv /\ Len(session) \in Nat
        /\ \A past \in Pasts : past.repo \in Repos /\ past.pushed \subseteq 1 .. Len(session)
    BY PastsTyped DEF BackupInv
  <1>1. ASSUME NEW past \in Pasts', NEW p \in Paths', NEW a \in past.pushed, session'[a] = p
        PROVE  \E other \in Pasts' : other.repo = past.repo /\ (other.errors # {} \/ IsLast(other, p)')
    <2>1. CASE past.repo = old.repo /\ new.errors # {}
      BY <2>1
    <2>2. CASE past.repo # old.repo
      <3>1. past \in Pasts /\ session[a] = p
        BY <1>1, <2>2
      <3>2. PICK other \in Pasts : other.repo = past.repo /\ (other.errors # {} \/ IsLast(other, p))
        BY <1>0, <3>1 DEF PastInv
      <3>3. other \in Pasts' /\ other.repo \in Repos \ {old.repo}
        BY <1>0, <2>2, <3>2
      <3>4. files'[other.repo] = files[other.repo]
        BY <3>3
      <3>. QED  BY <3>2, <3>3, <3>4 DEF IsLast
    <2>3. CASE past.repo = old.repo /\ new.errors = {}
      <3>1. PICK c \in 1 .. Len(session) :
                 /\ new.pushed = old.pushed \cup {c} /\ \A b \in old.pushed : b < c
                 /\ files'[old.repo][session[c]] = c
                 /\ \A q \in Paths \ {session[c]} : files'[old.repo][q] = files[old.repo][q]
        BY <2>3
      <3>2. CASE p = session[c]
        <4>1. \A b \in new.pushed : b <= c
          BY <1>0, <3>1
        <4>2. IsLast(new, p)'
          BY <3>1, <3>2, <4>1 DEF IsLast
        <4>. QED  BY <2>3, <4>2
      <3>3. CASE p # session[c]
        <4>1. files'[old.repo][p] = files[old.repo][p]
          BY <3>1, <3>3
        <4>2. \E e \in Pasts : e.repo = old.repo /\ a \in e.pushed
          <5>1. CASE past \in Pasts
            BY <2>3, <5>1
          <5>2. CASE past = new
            BY <1>1, <3>1, <3>3, <5>2
          <5>. QED  BY <5>1, <5>2
        <4>3. PICK other \in Pasts : other.repo = old.repo /\ (other.errors # {} \/ IsLast(other, p))
          BY <1>0, <1>1, <4>2 DEF PastInv
        <4>4. CASE other \in Pasts'
          BY <2>3, <4>1, <4>3, <4>4 DEF IsLast
        <4>5. CASE other = old
          <5>1. new.errors = old.errors
            BY <2>3
          <5>2. IsLast(old, p) => IsLast(new, p)'
            BY <3>1, <3>3, <4>1 DEF IsLast
          <5>. QED  BY <2>3, <4>3, <4>5, <5>1, <5>2
        <4>. QED  BY <4>4, <4>5
      <3>. QED  BY <3>2, <3>3
    <2>. QED  BY <2>1, <2>2, <2>3
  <1>. QED  BY <1>1 DEF PastInv

\* A backup goes on with its next artifact, or ends: what it has gone past
\* then is what it had gone past at its last step.
LEMMA SyncContinues ==
    ASSUME BackupInv, NEW t \in Tabs, syncs[t] # Sync!Resting, NEW next, Sync!Continue(t, next),
           DOMAIN next = {"pc", "repo", "listed", "at", "sha", "errors"}, next.pc \in {"read", "put"},
           next.repo \in Repos, InOrder(next.listed), next.at \in 1 .. Len(next.listed) + 1,
           session' = session
    PROVE  /\ DOMAIN syncs' = Tabs /\ \A u \in Tabs : SyncInv(syncs[u])'
           /\ \A sync \in done' : DoneInv(sync)'
           /\ GonePast(syncs[t]) \in Pasts /\ GonePast(next) \in Pasts'
           /\ Pasts' \subseteq Pasts \cup {GonePast(next)}
           /\ Pasts \ {GonePast(syncs[t])} \subseteq Pasts'
  <1>0. /\ DOMAIN syncs = Tabs /\ \A u \in Tabs : SyncInv(syncs[u])
        /\ \A sync \in done : DoneInv(sync)
    BY DEF BackupInv
  <1>a. /\ InOrder(next.listed)' /\ Len(next.listed) \in Nat
        /\ \A sync : DoneInv(sync) => DoneInv(sync)'
        /\ \A sync : SyncInv(sync) => SyncInv(sync)'
    BY DEF InOrder, DoneInv, SyncInv, Sync!Resting
  <1>1. GonePast(syncs[t]) \in Pasts
    BY DEF Pasts
  <1>2. CASE next.at > Len(next.listed)
    <2>p. PICK over : over = [repo |-> next.repo, listed |-> next.listed, errors |-> next.errors]
      OBVIOUS
    <2>1. syncs' = [syncs EXCEPT ![t] = Sync!Resting] /\ done' = done \cup {over}
      BY <1>2, <2>p DEF Sync!Continue
    <2>2. next.at - 1 = Len(next.listed)
      BY <1>2, <1>a
    <2>3. AllPast(over) = GonePast(next)
      BY <2>2, <2>p DEF AllPast, GonePast
    <2>4. \A u \in Tabs : syncs'[u] = IF u = t THEN Sync!Resting ELSE syncs[u]
      BY <1>0, <2>1
    <2>5. DOMAIN syncs' = Tabs /\ \A u \in Tabs : SyncInv(syncs[u])'
      <3>1. \A u \in Tabs : syncs'[u] = Sync!Resting \/ SyncInv(syncs'[u])
        BY <1>0, <2>4
      <3>2. \A u \in Tabs : SyncInv(syncs'[u])
        BY <3>1 DEF SyncInv
      <3>. QED  BY <1>0, <2>1, <3>2 DEF SyncInv, InOrder
    <2>6. \A sync \in done' : DoneInv(sync)'
      BY <1>0, <1>a, <2>1, <2>p DEF DoneInv
    <2>7. /\ GonePast(next) \in Pasts'
          /\ Pasts' \subseteq Pasts \cup {GonePast(next)}
          /\ Pasts \ {GonePast(syncs[t])} \subseteq Pasts'
      BY <2>1, <2>3, <2>4 DEF Pasts
    <2>. QED  BY <1>1, <2>5, <2>6, <2>7
  <1>3. CASE ~(next.at > Len(next.listed))
    <2>1. syncs' = [syncs EXCEPT ![t] = next] /\ done' = done
      BY <1>3 DEF Sync!Continue
    <2>2. next.at \in 1 .. Len(next.listed)
      BY <1>3, <1>a
    <2>3. SyncInv(next) /\ next # Sync!Resting
      BY <2>2 DEF SyncInv, Sync!Resting
    <2>4. \A u \in Tabs : syncs'[u] = IF u = t THEN next ELSE syncs[u]
      BY <1>0, <2>1
    <2>5. DOMAIN syncs' = Tabs /\ \A u \in Tabs : SyncInv(syncs[u])'
      <3>1. \A u \in Tabs : SyncInv(syncs'[u])
        BY <1>0, <2>3, <2>4
      <3>. QED  BY <1>0, <2>1, <3>1 DEF SyncInv, InOrder
    <2>6. \A sync \in done' : DoneInv(sync)'
      BY <1>0, <1>a, <2>1
    <2>7. /\ GonePast(next) \in Pasts'
          /\ Pasts' \subseteq Pasts \cup {GonePast(next)}
          /\ Pasts \ {GonePast(syncs[t])} \subseteq Pasts'
      BY <2>1, <2>3, <2>4 DEF Pasts
    <2>. QED  BY <1>1, <2>5, <2>6, <2>7
  <1>. QED  BY <1>2, <1>3

\* The controls of a tab, and what goes on around it, touch no backup.
LEMMA BackupQuiet ==
    ASSUME BackupInv, session' = session, files' = files, syncs' = syncs, done' = done,
           writable' \subseteq writable,
           DOMAIN tabs' = Tabs, \A t \in Tabs : ControlsInv(tabs'[t])
    PROVE  BackupInv'
  <1>1. /\ session' \in Seq(Paths) /\ writable' \subseteq Repos /\ files' \in [Repos -> [Paths -> Nat]]
        /\ DOMAIN syncs' = Tabs
    BY DEF BackupInv
  <1>2. (\A t \in Tabs : SyncInv(syncs[t])') /\ (\A sync \in done' : DoneInv(sync)')
    BY DEF BackupInv, SyncInv, DoneInv, InOrder, Sync!Resting
  <1>3. PastInv'
    <2>1. Pasts' = Pasts
      BY DEF Pasts, GonePast, AllPast, Past, Sync!Resting
    <2>. QED  BY <2>1, PastsStay
  <1>4. \A t \in Tabs : ControlsInv(tabs[t])'
    BY DEF ControlsInv
  <1>. QED  BY <1>1, <1>2, <1>3, <1>4 DEF BackupInv

LEMMA BackupControls ==
    ASSUME BackupInv, NEW t \in Tabs, Sync!Controls(t)
    PROVE  BackupInv'
  <1>0. DOMAIN tabs = Tabs /\ (\A u \in Tabs : ControlsInv(tabs[u])) /\ writable \subseteq Repos
    BY DEF BackupInv
  <1>1. /\ session' = session /\ files' = files /\ syncs' = syncs /\ done' = done
        /\ writable' = writable
    BY DEF Sync!Controls, Sync!Connect, Sync!Select, Sync!Unlock, Sync!ClickLock, Sync!Lock
  <1>2. ASSUME NEW controls, DOMAIN controls = DOMAIN tabs[t], controls.locked \in Repos \cup {None},
               tabs' = [tabs EXCEPT ![t] = controls]
        PROVE  DOMAIN tabs' = Tabs /\ \A u \in Tabs : ControlsInv(tabs'[u])
    BY <1>0, <1>2 DEF ControlsInv
  <1>3. DOMAIN tabs' = Tabs /\ \A u \in Tabs : ControlsInv(tabs'[u])
    <2>0. ControlsInv(tabs[t])
      BY <1>0
    <2>1. CASE Sync!Connect(t)
      <3>1. PICK r, on : tabs' = [tabs EXCEPT ![t] = [Sync!Selecting(tabs[t], r) EXCEPT !.connected = on]]
        BY <1>0, <2>1 DEF Sync!Connect
      <3>2. PICK controls : controls = [Sync!Selecting(tabs[t], r) EXCEPT !.connected = on]
        OBVIOUS
      <3>3. DOMAIN controls = DOMAIN tabs[t] /\ controls.locked = tabs[t].locked
        BY <2>0, <3>2 DEF Sync!Selecting, ControlsInv
      <3>. QED  BY <1>2, <2>0, <3>1, <3>2, <3>3 DEF ControlsInv
    <2>2. CASE \E r \in Repos : Sync!Select(t, r)
      <3>1. PICK r : tabs' = [tabs EXCEPT ![t] = Sync!Selecting(tabs[t], r)]
        BY <1>0, <2>2 DEF Sync!Select
      <3>2. PICK controls : controls = Sync!Selecting(tabs[t], r)
        OBVIOUS
      <3>3. DOMAIN controls = DOMAIN tabs[t] /\ controls.locked = tabs[t].locked
        BY <2>0, <3>2 DEF Sync!Selecting, ControlsInv
      <3>. QED  BY <1>2, <2>0, <3>1, <3>2, <3>3 DEF ControlsInv
    <2>3. CASE Sync!Unlock(t)
      <3>1. PICK controls : controls = [tabs[t] EXCEPT !.changed = FALSE, !.locked = None]
        OBVIOUS
      <3>2. tabs' = [tabs EXCEPT ![t] = controls]
        BY <1>0, <2>3, <3>1 DEF Sync!Unlock
      <3>3. DOMAIN controls = DOMAIN tabs[t] /\ controls.locked = None
        BY <2>0, <3>1 DEF ControlsInv
      <3>. QED  BY <1>2, <3>2, <3>3
    <2>4. CASE Sync!ClickLock(t)
      <3>1. PICK controls : controls = [tabs[t] EXCEPT !.verifying = tabs[t].selected]
        OBVIOUS
      <3>2. tabs' = [tabs EXCEPT ![t] = controls]
        BY <1>0, <2>4, <3>1 DEF Sync!ClickLock
      <3>3. DOMAIN controls = DOMAIN tabs[t] /\ controls.locked = tabs[t].locked
        BY <2>0, <3>1 DEF ControlsInv
      <3>. QED  BY <1>2, <2>0, <3>2, <3>3 DEF ControlsInv
    <2>5. CASE Sync!Lock(t)
      <3>0. PICK r : r = IF tabs[t].verifying \in writable THEN tabs[t].verifying ELSE None
        OBVIOUS
      <3>1. PICK controls : controls = [tabs[t] EXCEPT !.verifying = None, !.locked = r]
        OBVIOUS
      <3>2. tabs' = [tabs EXCEPT ![t] = controls]
        BY <1>0, <2>5, <3>0, <3>1 DEF Sync!Lock
      <3>3. DOMAIN controls = DOMAIN tabs[t] /\ controls.locked = r
        BY <2>0, <3>1 DEF ControlsInv
      <3>4. r \in Repos \cup {None}
        BY <1>0, <3>0
      <3>. QED  BY <1>2, <3>2, <3>3, <3>4
    <2>. QED  BY <2>1, <2>2, <2>3, <2>4, <2>5 DEF Sync!Controls
  <1>. QED  BY <1>0, <1>1, <1>3, BackupQuiet

\* A click starts a backup that has gone past nothing, and the first of those
\* that run at once forgets the ones before.
LEMMA BackupClickSync ==
    ASSUME BackupInv, NEW t \in Tabs, Sync!ClickSync(t)
    PROVE  BackupInv'
  <1>0. /\ DOMAIN syncs = Tabs /\ (\A u \in Tabs : SyncInv(syncs[u])) /\ (\A sync \in done : DoneInv(sync))
        /\ ControlsInv(tabs[t]) /\ session \in Seq(Paths)
    BY DEF BackupInv
  <1>1. /\ tabs[t].locked # None /\ syncs[t] = Sync!Resting
        /\ done' = (IF \A u \in Tabs : syncs[u] = Sync!Resting THEN {} ELSE done)
        /\ UNCHANGED <<session, writable, files, tabs>>
    BY DEF Sync!ClickSync
  <1>2. PICK new : new = [pc |-> "list", repo |-> tabs[t].locked, listed |-> <<>>, at |-> 1, sha |-> 0, errors |-> {}]
    OBVIOUS
  <1>3. syncs' = [syncs EXCEPT ![t] = new]
    BY <1>2 DEF Sync!ClickSync
  <1>4. SyncInv(new) /\ new # Sync!Resting
    <2>1. new.repo \in Repos
      BY <1>0, <1>1, <1>2 DEF ControlsInv
    <2>2. InOrder(new.listed)
      BY <1>2 DEF InOrder
    <2>3. new # Sync!Resting
      BY <1>2 DEF Sync!Resting
    <2>. QED  BY <1>2, <2>1, <2>2, <2>3 DEF SyncInv
  <1>5. GonePast(new).pushed = {} /\ GonePast(new).errors = {}
    BY <1>2 DEF GonePast, Past
  <1>6. \A u \in Tabs : syncs'[u] = IF u = t THEN new ELSE syncs[u]
    BY <1>0, <1>3
  <1>7. DOMAIN syncs' = Tabs /\ \A u \in Tabs : SyncInv(syncs[u])'
    <2>1. \A u \in Tabs : SyncInv(syncs'[u])
      BY <1>0, <1>4, <1>6
    <2>. QED  BY <1>0, <1>1, <1>3, <2>1 DEF SyncInv, InOrder, Sync!Resting
  <1>8. \A sync \in done' : DoneInv(sync)'
    BY <1>0, <1>1 DEF DoneInv, InOrder
  <1>9. PastInv'
    <2>1. CASE \A u \in Tabs : syncs[u] = Sync!Resting
      <3>1. Pasts' = {GonePast(new)}
        BY <1>1, <1>4, <1>6, <2>1 DEF Pasts
      <3>. QED  BY <1>5, <3>1 DEF PastInv
    <2>2. CASE ~\A u \in Tabs : syncs[u] = Sync!Resting
      <3>1. Pasts' = Pasts \cup {GonePast(new)}
        BY <1>1, <1>4, <1>6, <2>2 DEF Pasts
      <3>. QED  BY <1>1, <1>5, <3>1, PastsStay
    <2>. QED  BY <2>1, <2>2
  <1>. QED  BY <1>1, <1>7, <1>8, <1>9 DEF BackupInv, ControlsInv

\* A backup whose list cannot be had has gone past nothing.
LEMMA BackupList ==
    ASSUME BackupInv, NEW t \in Tabs, Sync!List(t)
    PROVE  BackupInv'
  <1>0. /\ DOMAIN syncs = Tabs /\ (\A u \in Tabs : SyncInv(syncs[u])) /\ (\A sync \in done : DoneInv(sync))
        /\ session \in Seq(Paths) /\ writable \subseteq Repos /\ files \in [Repos -> [Paths -> Nat]]
        /\ DOMAIN tabs = Tabs /\ (\A u \in Tabs : ControlsInv(tabs[u]))
    BY DEF BackupInv
  <1>1. UNCHANGED <<session, writable, files, tabs>>
    BY DEF Sync!List
  <1>p. PICK sync : sync = syncs[t]
    OBVIOUS
  <1>2. sync.pc = "list" /\ SyncInv(sync)
    BY <1>0, <1>p DEF Sync!List, Sync!Under
  <1>3. sync # Sync!Resting /\ sync.at = 1 /\ sync.errors = {} /\ sync.repo \in Repos
        /\ DOMAIN sync = {"pc", "repo", "listed", "at", "sha", "errors"}
    BY <1>2 DEF SyncInv, Sync!Resting
  <1>4. GonePast(sync).pushed = {} /\ GonePast(sync).errors = {}
    BY <1>3 DEF GonePast, Past
  <1>5. (\A u \in Tabs : ControlsInv(tabs[u])') /\ DOMAIN tabs' = Tabs
    BY <1>0, <1>1 DEF ControlsInv
  <1>6. /\ DOMAIN syncs' = Tabs /\ \A u \in Tabs : SyncInv(syncs[u])'
        /\ \A d \in done' : DoneInv(d)'
        /\ PastInv'
    <2>1. CASE Sync!Continue(t, [syncs[t] EXCEPT !.pc = "read", !.listed = Sync!Listed])
      <3>1. PICK next : next = [sync EXCEPT !.pc = "read", !.listed = Sync!Listed]
        OBVIOUS
      <3>2. Sync!Continue(t, next)
        BY <1>p, <2>1, <3>1
      <3>3. /\ DOMAIN next = DOMAIN sync /\ next.pc = "read" /\ next.listed = Sync!Listed
            /\ next.repo = sync.repo /\ next.at = sync.at /\ next.errors = sync.errors
        BY <1>3, <3>1
      <3>4. InOrder(next.listed)
        BY <3>3, ListedInOrder
      <3>5. Len(next.listed) \in Nat
        BY <3>4 DEF InOrder
      <3>6. next.at \in 1 .. Len(next.listed) + 1
        BY <1>3, <3>3, <3>5
      <3>7. GonePast(next) = GonePast(sync)
        BY <1>3, <3>3 DEF GonePast
      <3>8. /\ DOMAIN syncs' = Tabs /\ \A u \in Tabs : SyncInv(syncs[u])'
            /\ \A d \in done' : DoneInv(d)'
            /\ GonePast(syncs[t]) \in Pasts /\ GonePast(next) \in Pasts'
            /\ Pasts' \subseteq Pasts \cup {GonePast(next)}
            /\ Pasts \ {GonePast(syncs[t])} \subseteq Pasts'
        BY <1>1, <1>3, <1>p, <3>2, <3>3, <3>4, <3>6, SyncContinues
      <3>9. Pasts' = Pasts
        BY <1>p, <3>7, <3>8
      <3>. QED  BY <1>1, <3>8, <3>9, PastsStay
    <2>2. CASE syncs' = [syncs EXCEPT ![t] = Sync!Resting] /\ done' = done
      <3>1. \A u \in Tabs : syncs'[u] = IF u = t THEN Sync!Resting ELSE syncs[u]
        BY <1>0, <2>2
      <3>2. DOMAIN syncs' = Tabs /\ \A u \in Tabs : SyncInv(syncs[u])'
        <4>1. \A u \in Tabs : SyncInv(syncs'[u])
          BY <1>0, <3>1 DEF SyncInv
        <4>. QED  BY <1>0, <1>1, <2>2, <4>1 DEF SyncInv, InOrder, Sync!Resting
      <3>3. \A d \in done' : DoneInv(d)'
        BY <1>0, <1>1, <2>2 DEF DoneInv, InOrder
      <3>4. Pasts' \subseteq Pasts /\ Pasts \subseteq Pasts' \cup {GonePast(sync)}
        BY <1>p, <2>2, <3>1 DEF Pasts
      <3>. QED  BY <1>1, <1>4, <3>2, <3>3, <3>4, PastsStay
    <2>. QED  BY <2>1, <2>2 DEF Sync!List
  <1>. QED  BY <1>0, <1>1, <1>5, <1>6 DEF BackupInv

\* A backup that reads or pushes is at an artifact that it listed.
LEMMA SyncIsAt ==
    ASSUME BackupInv, NEW t \in Tabs, syncs[t].pc = "read" \/ syncs[t].pc = "put"
    PROVE  /\ syncs[t] # Sync!Resting /\ syncs[t].repo \in Repos
           /\ DOMAIN syncs[t] = {"pc", "repo", "listed", "at", "sha", "errors"}
           /\ InOrder(syncs[t].listed) /\ Len(syncs[t].listed) \in Nat
           /\ syncs[t].at \in 1 .. Len(syncs[t].listed)
           /\ Sync!Artifact(syncs[t]) \in 1 .. Len(session)
           /\ session[Sync!Artifact(syncs[t])] \in Paths
  <1>p. PICK sync : sync = syncs[t]
    OBVIOUS
  <1>1. SyncInv(sync) /\ sync.pc # "list" /\ session \in Seq(Paths)
    BY <1>p DEF BackupInv
  <1>2. sync # Sync!Resting
    BY <1>p DEF Sync!Resting
  <1>3. /\ sync.repo \in Repos /\ DOMAIN sync = {"pc", "repo", "listed", "at", "sha", "errors"}
        /\ InOrder(sync.listed) /\ sync.at \in 1 .. Len(sync.listed)
    BY <1>1, <1>2 DEF SyncInv
  <1>4. sync.listed \in Seq(1 .. Len(session))
    BY <1>3 DEF InOrder
  <1>5. Len(sync.listed) \in Nat /\ sync.listed[sync.at] \in 1 .. Len(session)
    BY <1>3, <1>4
  <1>6. session[sync.listed[sync.at]] \in Paths
    BY <1>1, <1>5
  <1>. QED  BY <1>2, <1>3, <1>5, <1>6, <1>p DEF Sync!Artifact

\* A step of a backup whose account moves.
LEMMA SyncMoves ==
    ASSUME BackupInv, NEW t \in Tabs, syncs[t].pc = "read" \/ syncs[t].pc = "put",
           UNCHANGED <<session, writable, tabs>>, files' \in [Repos -> [Paths -> Nat]],
           \A r \in Repos \ {syncs[t].repo} : files'[r] = files[r],
           NEW next, Sync!Continue(t, next), next.listed = syncs[t].listed, next.repo = syncs[t].repo,
           DOMAIN next = DOMAIN syncs[t], next.pc = "read", next.at = syncs[t].at + 1,
           \/ next.errors # {}
           \/ /\ next.errors = syncs[t].errors
              /\ LET a == Sync!Artifact(syncs[t]) IN
                 /\ files'[syncs[t].repo][session[a]] = a
                 /\ \A p \in Paths \ {session[a]} : files'[syncs[t].repo][p] = files[syncs[t].repo][p]
    PROVE  BackupInv'
  <1>p. PICK sync, a : sync = syncs[t] /\ a = Sync!Artifact(syncs[t])
    OBVIOUS
  <1>0. /\ sync # Sync!Resting /\ sync.repo \in Repos /\ InOrder(sync.listed) /\ Len(sync.listed) \in Nat
        /\ DOMAIN sync = {"pc", "repo", "listed", "at", "sha", "errors"}
        /\ sync.at \in 1 .. Len(sync.listed) /\ a \in 1 .. Len(session) /\ a = sync.listed[sync.at]
    BY <1>p, SyncIsAt DEF Sync!Artifact
  <1>1. next.at \in 1 .. Len(next.listed) + 1
    BY <1>0, <1>p
  <1>2. /\ DOMAIN syncs' = Tabs /\ \A u \in Tabs : SyncInv(syncs[u])'
        /\ \A d \in done' : DoneInv(d)'
        /\ GonePast(syncs[t]) \in Pasts /\ GonePast(next) \in Pasts'
        /\ Pasts' \subseteq Pasts \cup {GonePast(next)}
        /\ Pasts \ {GonePast(syncs[t])} \subseteq Pasts'
    BY <1>0, <1>1, <1>p, SyncContinues
  <1>3. PICK old, new : old = GonePast(sync) /\ new = GonePast(next)
    OBVIOUS
  <1>4. /\ old.repo = sync.repo /\ new.repo = sync.repo
        /\ old.errors = sync.errors /\ new.errors = next.errors
        /\ old.pushed = {sync.listed[n] : n \in 1 .. sync.at - 1}
        /\ new.pushed = {sync.listed[n] : n \in 1 .. sync.at}
    <2>1. next.at - 1 = sync.at
      BY <1>0, <1>p
    <2>2. next.listed = sync.listed /\ next.repo = sync.repo
      BY <1>p
    <2>. QED  BY <1>3, <2>1, <2>2 DEF GonePast, Past
  <1>5. new.pushed = old.pushed \cup {a}
    <2>1. \A n : n \in 1 .. sync.at <=> n \in 1 .. sync.at - 1 \/ n = sync.at
      BY <1>0
    <2>. QED  BY <1>0, <1>4, <2>1
  <1>6. \A b \in old.pushed : b < a
    <2>1. \A n \in 1 .. sync.at - 1 : n \in 1 .. Len(sync.listed) /\ n < sync.at
      BY <1>0
    <2>2. \A m, n \in 1 .. Len(sync.listed) : m < n => sync.listed[m] < sync.listed[n]
      BY <1>0 DEF InOrder
    <2>. QED  BY <1>0, <1>4, <2>1, <2>2
  <1>7. \/ new.errors # {}
        \/ /\ new.errors = old.errors
           /\ \E c \in 1 .. Len(session) :
                /\ new.pushed = old.pushed \cup {c} /\ \A b \in old.pushed : b < c
                /\ files'[old.repo][session[c]] = c
                /\ \A p \in Paths \ {session[c]} : files'[old.repo][p] = files[old.repo][p]
    <2>1. CASE next.errors # {}
      BY <1>4, <2>1
    <2>2. CASE next.errors = {}
      <3>1. /\ next.errors = sync.errors
            /\ files'[sync.repo][session[a]] = a
            /\ \A p \in Paths \ {session[a]} : files'[sync.repo][p] = files[sync.repo][p]
        BY <1>p, <2>2
      <3>2. new.errors = old.errors
        BY <1>4, <3>1
      <3>3. /\ files'[old.repo][session[a]] = a
            /\ \A p \in Paths \ {session[a]} : files'[old.repo][p] = files[old.repo][p]
        BY <1>4, <3>1
      <3>. QED  BY <1>0, <1>5, <1>6, <3>2, <3>3
    <2>. QED  BY <2>1, <2>2
  <1>8. PastInv'
    <2>1. /\ old \in Pasts /\ new \in Pasts' /\ Pasts' \subseteq Pasts \cup {new}
          /\ Pasts \ {old} \subseteq Pasts'
      BY <1>2, <1>3, <1>p
    <2>2. new.repo = old.repo /\ \A r \in Repos \ {old.repo} : files'[r] = files[r]
      BY <1>4, <1>p
    <2>. QED  BY <1>7, <2>1, <2>2, PastsMove
  <1>9. (\A u \in Tabs : ControlsInv(tabs[u])') /\ DOMAIN tabs' = Tabs
        /\ session' \in Seq(Paths) /\ writable' \subseteq Repos
    BY DEF BackupInv, ControlsInv
  <1>. QED  BY <1>2, <1>8, <1>9 DEF BackupInv

LEMMA BackupFails ==
    ASSUME BackupInv, NEW t \in Tabs, syncs[t].pc = "read" \/ syncs[t].pc = "put",
           UNCHANGED <<session, writable, tabs>>, files' \in [Repos -> [Paths -> Nat]],
           \A r \in Repos \ {syncs[t].repo} : files'[r] = files[r],
           Sync!Continue(t, Sync!Failed(syncs[t]))
    PROVE  BackupInv'
  <1>p. PICK sync, next : sync = syncs[t] /\ next = Sync!Failed(syncs[t])
    OBVIOUS
  <1>0. DOMAIN sync = {"pc", "repo", "listed", "at", "sha", "errors"} /\ sync.at \in 1 .. Len(sync.listed)
    BY <1>p, SyncIsAt
  <1>1. /\ next.listed = sync.listed /\ next.repo = sync.repo /\ DOMAIN next = DOMAIN sync
        /\ next.pc = "read" /\ next.at = sync.at + 1 /\ next.errors = sync.errors \cup {sync.at}
    BY <1>0, <1>p DEF Sync!Failed, Sync!Advanced
  <1>2. next.errors # {}
    BY <1>1
  <1>. QED  BY <1>1, <1>2, <1>p, SyncMoves

LEMMA BackupRead ==
    ASSUME BackupInv, NEW t \in Tabs, Sync!Read(t)
    PROVE  BackupInv'
  <1>0. /\ syncs[t].pc = "read" /\ UNCHANGED <<session, writable, files, tabs>>
        /\ files' \in [Repos -> [Paths -> Nat]]
    BY DEF Sync!Read, Sync!Under, BackupInv
  <1>1. CASE Sync!Continue(t, Sync!Failed(syncs[t]))
    BY <1>0, <1>1, BackupFails
  <1>2. CASE \E v : Sync!Continue(t, [syncs[t] EXCEPT !.pc = "put", !.sha = v])
    <2>1. PICK sha : Sync!Continue(t, [syncs[t] EXCEPT !.pc = "put", !.sha = sha])
      BY <1>2
    <2>2. PICK sync, next : sync = syncs[t] /\ next = [syncs[t] EXCEPT !.pc = "put", !.sha = sha]
      OBVIOUS
    <2>3. /\ sync # Sync!Resting /\ sync.repo \in Repos /\ InOrder(sync.listed) /\ Len(sync.listed) \in Nat
          /\ DOMAIN sync = {"pc", "repo", "listed", "at", "sha", "errors"}
          /\ sync.at \in 1 .. Len(sync.listed)
      BY <1>0, <2>2, SyncIsAt
    <2>4. /\ DOMAIN next = DOMAIN sync /\ next.pc = "put" /\ next.listed = sync.listed
          /\ next.repo = sync.repo /\ next.at = sync.at /\ next.errors = sync.errors
      BY <2>2, <2>3
    <2>5. next.at \in 1 .. Len(next.listed) + 1
      BY <2>3, <2>4
    <2>6. GonePast(next) = GonePast(sync)
      BY <2>4 DEF GonePast
    <2>7. /\ DOMAIN syncs' = Tabs /\ \A u \in Tabs : SyncInv(syncs[u])'
          /\ \A d \in done' : DoneInv(d)'
          /\ GonePast(syncs[t]) \in Pasts /\ GonePast(next) \in Pasts'
          /\ Pasts' \subseteq Pasts \cup {GonePast(next)}
          /\ Pasts \ {GonePast(syncs[t])} \subseteq Pasts'
      BY <1>0, <2>1, <2>2, <2>3, <2>4, <2>5, SyncContinues
    <2>8. Pasts' = Pasts
      BY <2>2, <2>6, <2>7
    <2>9. PastInv'
      BY <1>0, <2>8, PastsStay
    <2>. QED  BY <1>0, <2>7, <2>9 DEF BackupInv, ControlsInv
  <1>. QED  BY <1>1, <1>2 DEF Sync!Read

LEMMA BackupPut ==
    ASSUME BackupInv, NEW t \in Tabs, Sync!Put(t)
    PROVE  BackupInv'
  <1>p. PICK sync, a, path : sync = syncs[t] /\ a = Sync!Artifact(syncs[t]) /\ path = session[a]
    OBVIOUS
  <1>0. syncs[t].pc = "put" /\ UNCHANGED <<session, writable, tabs>>
    BY DEF Sync!Put, Sync!Under
  <1>1. /\ sync.repo \in Repos /\ path \in Paths /\ a \in Nat /\ files \in [Repos -> [Paths -> Nat]]
        /\ DOMAIN sync = {"pc", "repo", "listed", "at", "sha", "errors"} /\ sync.at \in 1 .. Len(sync.listed)
    <2>1. session \in Seq(Paths) /\ files \in [Repos -> [Paths -> Nat]]
      BY DEF BackupInv
    <2>2. Len(session) \in Nat
      BY <2>1
    <2>. QED  BY <1>0, <1>p, <2>1, <2>2, SyncIsAt
  <1>2. PICK written : written = [files EXCEPT ![sync.repo][path] = a]
    OBVIOUS
  <1>3. /\ written \in [Repos -> [Paths -> Nat]]
        /\ \A r \in Repos \ {sync.repo} : written[r] = files[r]
        /\ written[sync.repo][path] = a
        /\ \A p \in Paths \ {path} : written[sync.repo][p] = files[sync.repo][p]
    BY <1>1, <1>2
  <1>4. Sync!Written(syncs[t]) = written
    BY <1>2, <1>p DEF Sync!Written
  <1>5. CASE Sync!Continue(t, Sync!Failed(syncs[t])) /\ files' \in {files, written}
    <2>1. files' \in [Repos -> [Paths -> Nat]] /\ \A r \in Repos \ {sync.repo} : files'[r] = files[r]
      BY <1>1, <1>3, <1>5
    <2>. QED  BY <1>0, <1>5, <1>p, <2>1, BackupFails
  <1>6. CASE Sync!Continue(t, Sync!Advanced(syncs[t])) /\ files' = written
    <2>1. PICK next : next = Sync!Advanced(syncs[t])
      OBVIOUS
    <2>2. /\ next.listed = sync.listed /\ next.repo = sync.repo /\ DOMAIN next = DOMAIN sync
          /\ next.pc = "read" /\ next.at = sync.at + 1 /\ next.errors = sync.errors
      BY <1>1, <1>p, <2>1 DEF Sync!Advanced
    <2>3. /\ files' \in [Repos -> [Paths -> Nat]]
          /\ \A r \in Repos \ {syncs[t].repo} : files'[r] = files[r]
          /\ files'[syncs[t].repo][session[Sync!Artifact(syncs[t])]] = Sync!Artifact(syncs[t])
          /\ \A p \in Paths \ {session[Sync!Artifact(syncs[t])]} :
               files'[syncs[t].repo][p] = files[syncs[t].repo][p]
      BY <1>3, <1>6, <1>p
    <2>. QED  BY <1>0, <1>6, <1>p, <2>1, <2>2, <2>3, SyncMoves
  <1>. QED  BY <1>4, <1>5, <1>6 DEF Sync!Put

\* Artifacts that come later are of no backup's list.
LEMMA BackupPublish ==
    ASSUME BackupInv, NEW path \in Paths, Sync!Publish(path)
    PROVE  BackupInv'
  <1>0. /\ session \in Seq(Paths) /\ session' = Append(session, path)
        /\ UNCHANGED <<writable, files, tabs, syncs, done>>
    BY DEF BackupInv, Sync!Publish
  <1>1. /\ session' \in Seq(Paths) /\ Len(session) \in Nat /\ Len(session') = Len(session) + 1
        /\ \A a \in 1 .. Len(session) : session'[a] = session[a]
    BY <1>0
  <1>2. \A listed : InOrder(listed) => InOrder(listed)'
    <2>1. 1 .. Len(session) \subseteq 1 .. Len(session')
      BY <1>1
    <2>2. \A listed : listed \in Seq(1 .. Len(session)) => listed \in Seq(1 .. Len(session'))
      BY <2>1
    <2>. QED  BY <2>2 DEF InOrder
  <1>3. (\A t \in Tabs : SyncInv(syncs[t])') /\ (\A sync \in done' : DoneInv(sync)')
    <2>1. \A sync : SyncInv(sync) => SyncInv(sync)'
      BY <1>2 DEF SyncInv, Sync!Resting
    <2>2. \A sync : DoneInv(sync) => DoneInv(sync)'
      BY <1>2 DEF DoneInv
    <2>3. (\A t \in Tabs : SyncInv(syncs[t])) /\ (\A sync \in done : DoneInv(sync))
      BY DEF BackupInv
    <2>4. syncs' = syncs /\ done' = done
      BY <1>0
    <2>5. \A t \in Tabs : SyncInv(syncs[t])'
      BY <1>2, <2>3, <2>4 DEF SyncInv, Sync!Resting
    <2>. QED  BY <2>2, <2>3, <2>4, <2>5
  <1>4. PastInv'
    <2>1. Pasts' = Pasts
      BY <1>0 DEF Pasts, GonePast, AllPast, Past, Sync!Resting
    <2>. QED  BY <1>0, <1>1, <2>1, PastsStay
  <1>. QED  BY <1>0, <1>1, <1>3, <1>4 DEF BackupInv, ControlsInv

LEMMA BackupStep ==
    ASSUME BackupInv, [Sync!Next]_backupVars
    PROVE  BackupInv'
  <1>0. DOMAIN tabs = Tabs /\ \A t \in Tabs : ControlsInv(tabs[t])
    BY DEF BackupInv
  <1>1. ASSUME NEW t \in Tabs, Sync!Sync(t) PROVE BackupInv'
    BY <1>1, BackupClickSync, BackupList, BackupRead, BackupPut DEF Sync!Sync
  <1>2. ASSUME NEW a, Sync!Sweep(a) PROVE BackupInv'
    BY <1>0, <1>2, BackupQuiet DEF Sync!Sweep
  <1>3. ASSUME NEW r, Sync!Archive(r) PROVE BackupInv'
    BY <1>0, <1>3, BackupQuiet DEF Sync!Archive
  <1>4. CASE UNCHANGED backupVars
    BY <1>0, <1>4, BackupQuiet DEF backupVars
  <1>. QED  BY <1>1, <1>2, <1>3, <1>4, BackupControls, BackupPublish DEF Sync!Next

\* The newest artifact of a path that was listed, as the last one pushed.
LEMMA NewestIsLast ==
    ASSUME NEW listed, NEW p, NEW past, past.pushed = {listed[n] : n \in 1 .. Len(listed)},
           IsLast(past, p), listed \in Seq(Int)
    PROVE  files[past.repo][p] = Sync!Newest(listed, p)
  <1>1. Sync!ToSet(listed) = past.pushed
    BY DEF Sync!ToSet
  <1>2. PICK at, last : at = Sync!At(listed, p) /\ last = files[past.repo][p]
    OBVIOUS
  <1>3. /\ last \in at /\ \A a \in at : a <= last
        /\ \A a \in at : a \in Int
    BY <1>1, <1>2 DEF IsLast, Sync!At
  <1>4. \A a \in at : (\A b \in at : b <= a) <=> a = last
    BY <1>3
  <1>5. (CHOOSE a \in at : \A b \in at : b <= a) = last
    BY <1>3, <1>4
  <1>. QED  BY <1>2, <1>5 DEF Sync!Newest

LEMMA BackupHolds == BackupInv => BackupIsNewest
  <1>. SUFFICES ASSUME BackupInv, \A t \in Tabs : syncs[t] = Sync!Resting,
                       \A sync \in done : sync.errors = {},
                       NEW sync \in done, NEW p \in Paths, Sync!At(sync.listed, p) # {}
                PROVE  files[sync.repo][p] \in
                         {Sync!Newest(other.listed, p) :
                            other \in {o \in done : o.repo = sync.repo /\ Sync!At(o.listed, p) # {}}}
    BY DEF BackupIsNewest, Sync!BackupIsNewest
  <1>1. PastInv /\ Pasts = {AllPast(d) : d \in done}
    BY DEF BackupInv, Pasts
  <1>2. \A d \in done : /\ d.listed \in Seq(1 .. Len(session))
                        /\ Sync!ToSet(d.listed) = AllPast(d).pushed
                        /\ AllPast(d).pushed = {d.listed[n] : n \in 1 .. Len(d.listed)}
                        /\ AllPast(d).repo = d.repo /\ AllPast(d).errors = {}
    BY DEF BackupInv, DoneInv, InOrder, AllPast, Past, Sync!ToSet
  <1>3. \E a \in AllPast(sync).pushed : session[a] = p
    BY <1>2 DEF Sync!At
  <1>4. PICK other \in done : AllPast(other).repo = sync.repo /\ IsLast(AllPast(other), p)
    <2>1. AllPast(sync) \in Pasts
      BY <1>1
    <2>2. PICK past \in Pasts : past.repo = AllPast(sync).repo /\ (past.errors # {} \/ IsLast(past, p))
      BY <1>1, <1>3, <2>1 DEF PastInv
    <2>3. PICK other \in done : past = AllPast(other)
      BY <1>1
    <2>. QED  BY <1>2, <2>2, <2>3
  <1>5. Sync!At(other.listed, p) # {}
    BY <1>2, <1>4 DEF IsLast, Sync!At
  <1>6. other.listed \in Seq(Int)
    <2>1. 1 .. Len(session) \subseteq Int /\ other.listed \in Seq(1 .. Len(session))
      BY <1>2
    <2>. QED  BY <2>1
  <1>7. files[AllPast(other).repo][p] = Sync!Newest(other.listed, p)
    BY <1>2, <1>4, <1>6, NewestIsLast, ZenonT(30)
  <1>. QED  BY <1>2, <1>4, <1>5, <1>7

\* Backups that report no error leave, in each file they pushed, the newest
\* artifact that one of them listed (push_session_to_github), for any number
\* of tabs, repositories, artifacts and mishaps.
THEOREM BackupIsNewestAlways == GradioSpec => []BackupIsNewest
  <1>1. GradioInit => BackupInv
    BY BackupInit DEF GradioInit
  <1>2. BackupInv /\ [GradioNext]_gradioVars => BackupInv'
    BY AreaSteps, BackupStep
  <1>. QED  BY <1>1, <1>2, BackupHolds, PTL DEF GradioSpec

-----------------------------------------------------------------------------
(* The workbench, as a part of the application.                            *)

\* What is proved of the workbench holds of it in the application: its types,
\* that answers are stored, what is displayed and tested, that profiles stay in
\* their workspace, what a lookup adopts and that what was asked for is displayed
\* (WorkbenchProofs).
THEOREM WorkbenchAlways ==
    GradioSpec => /\ [](TypeOK /\ AnswersAreStored /\ DisplayIsStored /\ JobIsWhole)
                  /\ RowsKeepWorkspace /\ AdoptsRangedGroup /\ AskedForArrive
  <1>. DEFINE Holds4 == TypeOK /\ AnswersAreStored /\ DisplayIsStored /\ JobIsWhole
              Stay == \A id \in DOMAIN rows :
                        id \in DOMAIN rows' /\ rows'[id].workspace = rows[id].workspace
  <1>1. GradioInit => Init
    BY DEF GradioInit
  <1>2. [GradioNext]_gradioVars => [Next]_benchVars
    BY AreaSteps
  <1>3. BenchInv => Holds4
    BY BenchIsTyped, BenchPromises
  <1>4. BenchInv /\ [Next]_benchVars => Stay
    BY ProfilesStay
  <1>5. GradioSpec => []Holds4 /\ RowsKeepWorkspace
    BY <1>1, <1>2, <1>3, <1>4, BenchInvAlways, PTL DEF GradioSpec, RowsKeepWorkspace
  <1>6. GradioSpec => AdoptsRangedGroup /\ AskedForArrive
    BY <1>1, <1>2, AdoptsRangedGroupAlways, AskedForArriveAlways, PTL DEF GradioSpec
  <1>. QED  BY <1>5, <1>6

=============================================================================
