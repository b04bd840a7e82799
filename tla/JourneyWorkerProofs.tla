------------------------- MODULE JourneyWorkerProofs -------------------------
(***************************************************************************)
(* Theorems about JourneyWorker, for every set of runs and batches, every  *)
(* request and every bound on the analyses that run, beside those of       *)
(* ReasoningCaptureProofs, which hold of a worker with either engine.      *)
(***************************************************************************)
EXTENDS JourneyWorker, ReasoningCaptureProofs, SequenceTheorems

-----------------------------------------------------------------------------
(* The journeys of a worker are those of ReasoningCapture.                 *)

\* A worker with the journeytest engine captures reasoning as ReasoningCapture
\* says; one with the fixture engine captures none.
LEMMA WorkerCaptures == WorkerSpec => Spec
  <1>1. WorkerInit => Init
    BY DEF WorkerInit
  <1>2. [WorkerNext]_workerVars => [Next]_vars
    <2>1. WorkerNext => Next \/ UNCHANGED vars
      BY DEF WorkerNext
    <2>2. UNCHANGED workerVars => UNCHANGED vars
      BY DEF workerVars
    <2>. QED  BY <2>1, <2>2
  <1>. QED  BY <1>1, <1>2, PTL DEF WorkerSpec, Spec

\* Whichever engine the process runs, a completion's reasoning is recorded
\* once, a journey alone reports its own, and the live view shows a journey
\* that runs and none that has returned.
THEOREM WorkerReasoningAlways == WorkerSpec => [](ThoughtsOnce /\ AloneReportsItsOwn /\ LiveView)
  BY WorkerCaptures, ThoughtsOnceAlways, AloneReportsItsOwnAlways, LiveViewAlways, PTL

-----------------------------------------------------------------------------
(* The queue of the eyeson worker.                                         *)

LEMMA SameOperators ==
    /\ \A S : Fixture!Cardinality(S) = Cardinality(S)
    /\ \A s : Fixture!ToSet(s) = ToSet(s)
    /\ \A f : Fixture!IsInjective(f) <=> IsInjective(f)
  <1>1. \A S : Fixture!IsFiniteSet(S) <=> IsFiniteSet(S)
    BY DEF Fixture!IsFiniteSet, IsFiniteSet
  <1>2. \A S : Fixture!Cardinality(S) = Cardinality(S)
    BY <1>1 DEF Fixture!Cardinality, Cardinality
  <1>. QED  BY <1>2 DEF Fixture!ToSet, ToSet, Fixture!IsInjective, IsInjective

Active(status) == Fixture!Active(status)

\* The queue and the states of the jobs after an operation, as WorkConserved
\* has them; a job in the queue has a state.
QueueOf(queue, status) ==
    /\ queue \in Seq(DOMAIN status)
    /\ IsInjective(queue)
    /\ ToSet(queue) = {job \in DOMAIN status : status[job] = "pending"}
    /\ IsFiniteSet(Active(status))
    /\ Cardinality(Active(status)) <= Concurrency

QueueInv ==
    /\ QueueOf(pending, calls)
    /\ pending # <<>> => Cardinality(Active(calls)) = Concurrency

\* The only jobs whose state drain changes are those it starts.
LEMMA DrainFills ==
    ASSUME NEW queue, NEW status, QueueOf(queue, status), Fixture!Drain(queue, status)
    PROVE  /\ QueueInv'
           /\ DOMAIN calls' = DOMAIN status
           /\ \A job \in DOMAIN status :
                calls'[job] = status[job] \/ (status[job] = "pending" /\ calls'[job] = "active")
  <1>a. PICK A : A = Active(status)
    OBVIOUS
  <1>r. PICK room : room = Concurrency - Cardinality(A)
    OBVIOUS
  <1>l. PICK len : len = Len(queue)
    OBVIOUS
  <1>n. PICK n : n = IF room < len THEN room ELSE len
    OBVIOUS
  <1>0. /\ queue \in Seq(DOMAIN status) /\ len \in Nat /\ room \in Nat /\ n \in 0 .. len
        /\ IsFiniteSet(A) /\ Cardinality(A) \in Nat /\ Concurrency \in Nat /\ n <= room
    BY <1>a, <1>r, <1>l, <1>n, FS_CardinalityType, FixtureAssumption DEF QueueOf
  <1>m. n \in Nat /\ \A i \in 1 .. len - n : n + i \in 1 .. len
    BY <1>0
  <1>1. DOMAIN queue = 1 .. len /\ \A k \in 1 .. len : queue[k] \in DOMAIN status
    BY <1>0, <1>l
  <1>i. \A i, k \in 1 .. len : queue[i] = queue[k] => i = k
    BY <1>1 DEF QueueOf, IsInjective
  <1>p. \A job \in DOMAIN status :
          status[job] = "pending" <=> \E k \in 1 .. len : queue[k] = job
    BY <1>1 DEF QueueOf, ToSet
  <1>. DEFINE started == {queue[k] : k \in 1 .. n}
              rest == SubSeq(queue, n + 1, len)
  <1>2. /\ pending' = rest
        /\ calls' = [job \in DOMAIN status |->
                       IF job \in started THEN "active" ELSE status[job]]
    BY <1>a, <1>r, <1>l, <1>n, SameOperators DEF Fixture!Drain, Active
  <1>3. /\ Len(rest) = len - n /\ rest \in Seq(DOMAIN status)
        /\ \A i \in 1 .. len - n : rest[i] = queue[n + i]
    <2>1. \A i \in n + 1 .. len : queue[i] \in DOMAIN status
      BY <1>0, <1>1
    <2>2. n + 1 \in Int /\ len \in Int
      BY <1>0
    <2>3. /\ rest \in Seq(DOMAIN status)
          /\ Len(rest) = IF n + 1 <= len THEN len - (n + 1) + 1 ELSE 0
          /\ \A i \in 1 .. len - (n + 1) + 1 : rest[i] = queue[n + 1 + i - 1]
      BY <2>1, <2>2, SubSeqProperties
    <2>4. len - (n + 1) + 1 = len - n /\ \A i \in 1 .. len - n : n + 1 + i - 1 = n + i
      BY <1>0
    <2>. HIDE DEF rest
    <2>. QED  BY <1>0, <2>3, <2>4
  <1>4. started \subseteq DOMAIN status /\ \A job \in started : status[job] = "pending"
    BY <1>0, <1>1, <1>p
  <1>5. IsFiniteSet(started) /\ Cardinality(started) = n
    <2>. DEFINE f == [k \in 1 .. n |-> queue[k]]
    <2>1. f \in Surjection(1 .. n, started)
      BY DEF Surjection
    <2>2. f \in Injection(1 .. n, started)
      BY <1>0, <1>i DEF Injection, IsInjective
    <2>3. IsFiniteSet(1 .. n) /\ Cardinality(1 .. n) = n
      BY <1>m, FS_Interval
    <2>. HIDE DEF f
    <2>. QED  BY <2>1, <2>2, <2>3, FS_Surjection
  <1>6. Active(calls') = A \cup started
    BY <1>2, <1>4, <1>a DEF Active, Fixture!Active
  <1>7. A \cap started = {}
    BY <1>4, <1>a DEF Active, Fixture!Active
  <1>8. IsFiniteSet(Active(calls')) /\ Cardinality(Active(calls')) = Cardinality(A) + n
    <2>. HIDE DEF started
    <2>1. Cardinality(A \cap started) = 0
      BY <1>7, FS_EmptySet
    <2>2. Cardinality(A \cup started) = Cardinality(A) + Cardinality(started) - 0
      BY <1>0, <1>5, <2>1, FS_Union
    <2>3. IsFiniteSet(A \cup started)
      BY <1>0, <1>5, FS_Union
    <2>. QED  BY <1>0, <1>m, <1>5, <1>6, <2>2, <2>3
  <1>9. IsInjective(rest) /\ DOMAIN rest = 1 .. len - n
    <2>1. DOMAIN rest = 1 .. len - n
      BY <1>3
    <2>. HIDE DEF rest
    <2>2. \A i, k \in 1 .. len - n : rest[i] = rest[k] => n + i = n + k
      BY <1>3, <1>i, <1>m
    <2>3. \A i, k \in 1 .. len - n : n + i = n + k => i = k
      BY <1>0
    <2>. QED  BY <2>1, <2>2, <2>3 DEF IsInjective
  <1>10. ToSet(rest) = {job \in DOMAIN calls' : calls'[job] = "pending"}
    <2>1. \A job : job \in ToSet(rest) <=> \E i \in 1 .. len - n : job = queue[n + i]
      BY <1>3, <1>9 DEF ToSet
    <2>2. \A job : job \in ToSet(rest) <=> \E k \in n + 1 .. len : job = queue[k]
      <3>1. \A k \in n + 1 .. len : k - n \in 1 .. len - n /\ n + (k - n) = k
        BY <1>0
      <3>2. \A i \in 1 .. len - n : n + i \in n + 1 .. len
        BY <1>0
      <3>. QED  BY <2>1, <3>1, <3>2
    <2>3. \A k \in n + 1 .. len : k \in 1 .. len /\ queue[k] \notin started
      BY <1>0, <1>i
    <2>4. \A k \in 1 .. len : k \in n + 1 .. len \/ queue[k] \in started
      BY <1>0
    <2>5. \A job : job \in DOMAIN calls' /\ calls'[job] = "pending"
                     <=> job \in DOMAIN status /\ status[job] = "pending" /\ job \notin started
      BY <1>2
    <2>. HIDE DEF started, rest
    <2>. QED  BY <1>1, <1>p, <2>2, <2>3, <2>4, <2>5
  <1>11. rest # <<>> => n = room
    <2>1. n = len => rest = <<>>
      BY <1>0, SubSeqEmpty
    <2>. QED  BY <1>0, <1>n, <2>1
  <1>12. DOMAIN calls' = DOMAIN status
    BY <1>2
  <1>13. /\ QueueOf(pending', calls')
         /\ pending' # <<>> => Cardinality(Active(calls')) = Concurrency
    <2>. HIDE DEF started, rest
    <2>1. Cardinality(A) + room = Concurrency
      BY <1>0, <1>r
    <2>. QED  BY <1>0, <1>2, <1>3, <1>8, <1>9, <1>10, <1>11, <1>12, <2>1 DEF QueueOf
  <1>14. \A job \in DOMAIN status :
            calls'[job] = status[job] \/ (status[job] = "pending" /\ calls'[job] = "active")
    BY <1>2, <1>4
  <1>15. QueueInv'
    BY <1>13 DEF QueueInv, QueueOf, Active
  <1>. QED  BY <1>12, <1>14, <1>15

LEMMA EnqueueFills ==
    ASSUME QueueInv, NEW jobs, jobs \in Seq(ToSet(jobs)), IsInjective(jobs),
           \A job \in ToSet(jobs) : job \in DOMAIN calls => calls[job] = "sent",
           Fixture!Enqueue(jobs)
    PROVE  /\ QueueInv'
           /\ DOMAIN calls' = DOMAIN calls \cup ToSet(jobs)
           /\ \A job \in DOMAIN calls' :
                \/ calls'[job] \in {"pending", "active"} /\ job \in ToSet(jobs)
                \/ calls'[job] = "active" /\ job \in DOMAIN calls /\ calls[job] = "pending"
                \/ calls'[job] = calls[job] /\ job \in DOMAIN calls
  <1>q. PICK queue : queue = pending \o jobs
    OBVIOUS
  <1>s. PICK status : status = Fixture!With(calls, ToSet(jobs), "pending")
    OBVIOUS
  <1>n. PICK n : n = Len(pending)
    OBVIOUS
  <1>l. PICK len : len = Len(jobs)
    OBVIOUS
  <1>0. /\ pending \in Seq(DOMAIN calls) /\ n \in Nat /\ len \in Nat
        /\ DOMAIN pending = 1 .. n /\ DOMAIN jobs = 1 .. len
    BY <1>n, <1>l DEF QueueInv, QueueOf
  <1>1. Fixture!Drain(queue, status)
    BY <1>q, <1>s, SameOperators DEF Fixture!Enqueue
  <1>2. /\ DOMAIN status = DOMAIN calls \cup ToSet(jobs)
        /\ \A job \in DOMAIN status :
              status[job] = IF job \in ToSet(jobs) THEN "pending" ELSE calls[job]
    BY <1>s DEF Fixture!With
  <1>3. /\ Len(queue) = n + len /\ DOMAIN queue = 1 .. n + len
        /\ \A i \in 1 .. n + len : queue[i] = IF i <= n THEN pending[i] ELSE jobs[i - n]
        /\ queue \in Seq(DOMAIN status)
    <2>1. pending \in Seq(DOMAIN status) /\ jobs \in Seq(DOMAIN status)
      BY <1>0, <1>2, SeqMonotonic
    <2>. QED  BY <1>0, <1>q, <1>n, <1>l, <2>1
  <1>4. /\ \A i \in 1 .. n : pending[i] \in DOMAIN calls /\ calls[pending[i]] = "pending"
        /\ \A i, k \in 1 .. n : pending[i] = pending[k] => i = k
    BY <1>0, SMTT(30) DEF QueueInv, QueueOf, ToSet, IsInjective
  <1>5. /\ \A i \in 1 .. len : jobs[i] \in ToSet(jobs)
        /\ \A i, k \in 1 .. len : jobs[i] = jobs[k] => i = k
        /\ \A job \in ToSet(jobs) : \E i \in 1 .. len : job = jobs[i]
    BY <1>0 DEF ToSet, IsInjective
  <1>6. \A i \in 1 .. n, k \in 1 .. len : pending[i] # jobs[k]
    BY <1>4, <1>5
  <1>7. \A i \in 1 .. n + len : /\ i <= n \/ i > n
                                /\ i <= n => i \in 1 .. n
                                /\ i > n => i - n \in 1 .. len /\ ~ (i <= n)
    BY <1>0
  <1>k. \A i \in 1 .. n + len : /\ i <= n => queue[i] = pending[i]
                                /\ i > n => queue[i] = jobs[i - n]
    BY <1>3, <1>7
  <1>8. IsInjective(queue)
    <2>. SUFFICES ASSUME NEW i \in 1 .. n + len, NEW k \in 1 .. n + len, queue[i] = queue[k]
                  PROVE  i = k
      BY <1>3 DEF IsInjective
    <2>1. CASE i <= n /\ k <= n
      BY <1>3, <1>4, <1>7, <2>1
    <2>2. CASE i > n /\ k > n
      <3>1. i - n = k - n
        BY <1>5, <1>7, <1>k, <2>2
      <3>. QED  BY <1>0, <3>1
    <2>3. CASE i <= n /\ k > n
      BY <1>6, <1>7, <1>k, <2>3
    <2>4. CASE i > n /\ k <= n
      BY <1>6, <1>7, <1>k, <2>4
    <2>. QED  BY <1>0, <2>1, <2>2, <2>3, <2>4
  <1>9. ToSet(queue) = {job \in DOMAIN status : status[job] = "pending"}
    <2>1. \A job : job \in ToSet(queue) <=> job \in ToSet(pending) \/ job \in ToSet(jobs)
      <3>1. \A job : job \in ToSet(queue) <=> \E i \in 1 .. n + len : job = queue[i]
        BY <1>3 DEF ToSet
      <3>2. \A i \in 1 .. n : i \in 1 .. n + len /\ queue[i] = pending[i]
        BY <1>0, <1>3
      <3>3. \A i \in 1 .. len : n + i \in 1 .. n + len /\ n + i > n /\ (n + i) - n = i
        BY <1>0
      <3>4. \A i \in 1 .. len : queue[n + i] = jobs[i]
        BY <1>0, <1>3, <3>3
      <3>5. \A job : job \in ToSet(pending) <=> \E i \in 1 .. n : job = pending[i]
        BY <1>0 DEF ToSet
      <3>6. ASSUME NEW i \in 1 .. n + len
            PROVE  \/ \E k \in 1 .. n : queue[i] = pending[k]
                   \/ \E k \in 1 .. len : queue[i] = jobs[k]
        <4>1. CASE i <= n
          BY <1>7, <1>k, <4>1
        <4>2. CASE i > n
          <5>1. i - n \in 1 .. len /\ queue[i] = jobs[i - n]
            BY <1>7, <1>k, <4>2
          <5>. QED  BY <5>1
        <4>. QED  BY <1>7, <4>1, <4>2
      <3>7. \A job : job \in ToSet(queue) => job \in ToSet(pending) \/ job \in ToSet(jobs)
        BY <1>5, <3>1, <3>5, <3>6
      <3>8. \A job \in ToSet(pending) : job \in ToSet(queue)
        BY <3>1, <3>2, <3>5
      <3>9. \A job \in ToSet(jobs) : job \in ToSet(queue)
        BY <1>5, <3>1, <3>3, <3>4
      <3>. QED  BY <3>7, <3>8, <3>9
    <2>2. ToSet(pending) = {job \in DOMAIN calls : calls[job] = "pending"}
      BY DEF QueueInv, QueueOf
    <2>. QED  BY <1>2, <2>1, <2>2
  <1>10. Active(status) = Active(calls)
    BY <1>2 DEF Active, Fixture!Active
  <1>11. QueueOf(queue, status)
    BY <1>3, <1>8, <1>9, <1>10 DEF QueueInv, QueueOf
  <1>. QED  BY <1>1, <1>2, <1>11, DrainFills

-----------------------------------------------------------------------------
(* The evidence a batch selects.                                           *)

\* The members of a finite set of numbers by how many come before them.
LEMMA Places ==
    ASSUME NEW S, \A i \in S : i \in Int, IsFiniteSet(S)
    PROVE  /\ Cardinality(S) \in Nat
           /\ \E rank \in [S -> 0 .. (Cardinality(S) - 1)] :
                /\ rank = [i \in S |-> Cardinality({j \in S : j < i})]
                /\ \A i, k \in S : rank[i] = rank[k] => i = k
                /\ \E t \in [1 .. Cardinality(S) -> S] :
                     t = Fixture!Ascending(S) /\ \A k \in 1 .. Cardinality(S) : rank[t[k]] = k - 1
  <1>b. PICK before : before = [i \in S |-> {j \in S : j < i}]
    OBVIOUS
  <1>n. PICK n : n = Cardinality(S)
    OBVIOUS
  <1>1. /\ before \in [S -> SUBSET S]
        /\ \A i \in S : i \notin before[i]
        /\ \A i, k \in S : i # k => k \in before[i] \/ i \in before[k]
        /\ \A i, k \in S : k \in before[i] => before[k] \subseteq before[i]
    <2>1. /\ before \in [S -> SUBSET S]
          /\ \A i, k \in S : k \in before[i] <=> k < i
      BY <1>b
    <2>2. \A i \in S : i \in Int
      OBVIOUS
    <2>3. \A i \in S : i \notin before[i]
      BY <2>1, <2>2
    <2>4. \A i, k \in S : i # k => k \in before[i] \/ i \in before[k]
      BY <2>1, <2>2
    <2>5. \A i, k \in S : k \in before[i] => before[k] \subseteq before[i]
      <3>1. \A i, k, j \in S : k < i /\ j < k => j < i
        BY <2>2
      <3>. QED  BY <2>1, <3>1
    <2>. QED  BY <2>1, <2>3, <2>4, <2>5
  <1>0. IsFiniteSet(S)
    OBVIOUS
  <1>2. /\ n \in Nat
        /\ \A i \in S : Cardinality(before[i]) \in Nat /\ Cardinality(before[i]) < n
        /\ \A i, k \in S : Cardinality(before[i]) = Cardinality(before[k]) => i = k
        /\ \A k \in 1 .. n : \E i \in S : Cardinality(before[i]) = k - 1
    <2>1. /\ Cardinality(S) \in Nat
          /\ \A i \in S : IsFiniteSet(before[i]) /\ Cardinality(before[i]) \in Nat
          /\ \A i \in S : Cardinality(before[i]) < Cardinality(S)
          /\ \A i, k \in S : k \in before[i] =>
                Cardinality(before[k]) < Cardinality(before[i])
          /\ \A i, k \in S : Cardinality(before[i]) = Cardinality(before[k]) => i = k
          /\ \A k \in 1 .. Cardinality(S) : \E i \in S : Cardinality(before[i]) = k - 1
      BY <1>0, <1>1, Ranks
    <2>. QED  BY <1>n, <2>1
  <1>. DEFINE Place(k) == CHOOSE i \in S : Fixture!Cardinality({j \in S : j < i}) = k - 1
              t == Fixture!Ascending(S)
  <1>3. t = [k \in 1 .. n |-> Place(k)]
    <2>1. n = Fixture!Cardinality(S)
      BY <1>n, SameOperators
    <2>. QED  BY <2>1 DEF Fixture!Ascending
  <1>4. ASSUME NEW k \in 1 .. n PROVE Place(k) \in S /\ Cardinality(before[Place(k)]) = k - 1
    <2>1. \A i \in S : Fixture!Cardinality({j \in S : j < i}) = Cardinality(before[i])
      BY <1>b, SameOperators
    <2>2. \E i \in S : Fixture!Cardinality({j \in S : j < i}) = k - 1
      BY <1>2, <2>1
    <2>3. Place(k) \in S /\ Fixture!Cardinality({j \in S : j < Place(k)}) = k - 1
      BY <2>2
    <2>. HIDE DEF Place
    <2>. QED  BY <2>1, <2>3
  <1>. HIDE DEF Place, t
  <1>t. /\ t = [k \in 1 .. n |-> t[k]]
        /\ \A k \in 1 .. n : t[k] \in S /\ Cardinality(before[t[k]]) = k - 1
    BY <1>3, <1>4
  <1>r. PICK rank : rank = [i \in S |-> Cardinality(before[i])]
    OBVIOUS
  <1>5. rank = [i \in S |-> Cardinality({j \in S : j < i})]
    <2>1. \A i \in S : before[i] = {j \in S : j < i}
      BY <1>b
    <2>. QED  BY <1>r, <2>1
  <1>6. rank \in [S -> 0 .. (n - 1)] /\ \A i, k \in S : rank[i] = rank[k] => i = k
    BY <1>2, <1>r
  <1>7. t \in [1 .. n -> S] /\ \A k \in 1 .. n : rank[t[k]] = k - 1
    BY <1>r, <1>t
  <1>8. t = Fixture!Ascending(S)
    BY DEF t
  <1>9. \E u \in [1 .. n -> S] : u = Fixture!Ascending(S) /\ \A k \in 1 .. n : rank[u[k]] = k - 1
    BY ONLY <1>7, <1>8
  <1>10. n \in Nat
    BY <1>2
  <1>. QED  BY ONLY <1>10, <1>n, <1>5, <1>6, <1>9

\* Ascending lists every element of a set of numbers once.
LEMMA AscendingLists ==
    ASSUME NEW S, \A i \in S : i \in Int, IsFiniteSet(S)
    PROVE  /\ Fixture!Ascending(S) \in Seq(S)
           /\ Len(Fixture!Ascending(S)) = Cardinality(S) /\ Cardinality(S) \in Nat
           /\ IsInjective(Fixture!Ascending(S))
           /\ ToSet(Fixture!Ascending(S)) = S
  <1>n. PICK n : n = Cardinality(S)
    OBVIOUS
  <1>0. n \in Nat
    BY <1>n, Places
  <1>1. PICK rank \in [S -> 0 .. (n - 1)], t \in [1 .. n -> S] :
             /\ t = Fixture!Ascending(S)
             /\ \A k \in 1 .. n : rank[t[k]] = k - 1
             /\ \A i, k \in S : rank[i] = rank[k] => i = k
    BY <1>n, Places
  <1>5. t \in Seq(S) /\ Len(t) = n /\ DOMAIN t = 1 .. n
    BY <1>0, <1>1
  <1>6. IsInjective(t)
    <2>1. \A i, k \in 1 .. n : t[i] = t[k] => i - 1 = k - 1
      BY <1>1
    <2>2. \A i, k \in 1 .. n : t[i] = t[k] => i = k
      BY <1>0, <2>1
    <2>. QED  BY <1>5, <2>2 DEF IsInjective
  <1>7. ASSUME NEW i \in S PROVE \E k \in 1 .. n : t[k] = i
    <2>k. PICK k \in 1 .. n : k = rank[i] + 1
      BY <1>0, <1>1
    <2>1. rank[t[k]] = k - 1 /\ t[k] \in S
      BY <1>1
    <2>2. ~(rank[i] = rank[t[k]]) \/ i = t[k]
      BY <1>1, <2>1
    <2>. QED  BY <1>0, <1>1, <2>k, <2>1, <2>2
  <1>8. ToSet(t) = S
    BY <1>1, <1>5, <1>7 DEF ToSet
  <1>. QED  BY <1>0, <1>1, <1>5, <1>6, <1>8, <1>n
\* What a budget selects: as many candidates as it has room for, and none that
\* is less telling than one it leaves.
LEMMA BudgetSelects ==
    ASSUME NEW candidates \in Seq(STRING), NEW budget \in Int
    PROVE  LET selected == Fixture!SelectScreenBudget(candidates, budget)
               chosen == ToSet(selected)
               reason(i) == Fixture!Priority(candidates[i])
           IN  /\ selected \in Seq(chosen) /\ IsInjective(selected)
               /\ chosen \subseteq DOMAIN candidates
               /\ \A i \in chosen, j \in DOMAIN candidates \ chosen :
                    reason(i) >= reason(j) /\ (reason(i) = reason(j) => i < j)
               /\ Cardinality(chosen) = IF budget \in 1 .. Len(candidates) THEN budget
                                        ELSE IF budget < 0 THEN 0 ELSE Len(candidates)
  <1>d. PICK D : D = DOMAIN candidates
    OBVIOUS
  <1>n. PICK n : n = Len(candidates)
    OBVIOUS
  <1>s. PICK score : score = [i \in D |-> Fixture!Priority(candidates[i])]
    OBVIOUS
  <1>b. PICK before : before = [i \in D |-> Fixture!Better(candidates, i)]
    OBVIOUS
  <1>m. PICK max : max = IF budget = 0 THEN n ELSE IF budget < 0 THEN 0 ELSE budget
    OBVIOUS
  <1>c. PICK chosen : chosen = {i \in D : Cardinality(before[i]) < max}
    OBVIOUS
  <1>0. n \in Nat /\ D = 1 .. n /\ max \in Nat
    BY <1>d, <1>n, <1>m
  <1>1. IsFiniteSet(D) /\ Cardinality(D) = n
    BY <1>0, FS_Interval
  <1>2. \A i \in D : score[i] \in Nat /\ score[i] = Fixture!Priority(candidates[i])
    BY <1>s DEF Fixture!Priority
  <1>3. \A i \in D : before[i] = {j \in D : score[j] > score[i] \/ (score[j] = score[i] /\ j < i)}
    BY <1>b, <1>d, <1>2 DEF Fixture!Better
  <1>4. /\ before \in [D -> SUBSET D]
        /\ \A i \in D : i \notin before[i]
        /\ \A i, k \in D : i # k => k \in before[i] \/ i \in before[k]
        /\ \A i, k \in D : k \in before[i] => before[k] \subseteq before[i]
    <2>1. before \in [D -> SUBSET D]
      BY <1>b, <1>3
    <2>2. \A i \in D : i \in Int
      BY <1>0
    <2>. QED  BY <1>2, <1>3, <2>1, <2>2
  <1>5. /\ \A i \in D : Cardinality(before[i]) \in Nat /\ Cardinality(before[i]) < n
        /\ \A i, k \in D : k \in before[i] => Cardinality(before[k]) < Cardinality(before[i])
        /\ \A i, k \in D : Cardinality(before[i]) = Cardinality(before[k]) => i = k
        /\ \A k \in 1 .. n : \E i \in D : Cardinality(before[i]) = k - 1
    BY <1>1, <1>4, Ranks
  <1>6. Fixture!SelectScreenBudget(candidates, budget) = Fixture!Ascending(chosen)
    <2>1. chosen = {i \in D : Cardinality(Fixture!Better(candidates, i)) < max}
      BY <1>b, <1>c
    <2>. QED  BY <1>d, <1>n, <1>m, <2>1, SameOperators DEF Fixture!SelectScreenBudget
  <1>7. (\A i \in chosen : i \in Int) /\ chosen \in SUBSET D /\ IsFiniteSet(chosen)
    BY <1>0, <1>1, <1>c, FS_Subset
  <1>8. ASSUME NEW i \in chosen, NEW j \in D \ chosen
        PROVE  score[i] >= score[j] /\ (score[i] = score[j] => i < j)
    <2>1. i \in D /\ i # j /\ j \notin before[i]
      BY <1>0, <1>5, <1>c
    <2>2. i \in before[j]
      BY <1>4, <2>1
    <2>. QED  BY <1>2, <1>3, <2>1, <2>2
  <1>9. Cardinality(chosen) = IF max < n THEN max ELSE n
    <2>k. PICK k : k = IF max < n THEN max ELSE n
      OBVIOUS
    <2>f. PICK f : f = [i \in chosen |-> Cardinality(before[i]) + 1]
      OBVIOUS
    <2>1. k \in Nat /\ \A i \in D : i \in chosen <=> Cardinality(before[i]) < k
      BY <1>0, <1>5, <1>c, <2>k
    <2>2. f \in Injection(chosen, 1 .. k)
      <3>1. f \in [chosen -> 1 .. k]
        BY <1>5, <1>7, <2>1, <2>f
      <3>2. \A i, j \in chosen : f[i] = f[j] => i = j
        BY <1>5, <1>7, <2>f
      <3>. QED  BY <3>1, <3>2 DEF Injection, IsInjective
    <2>3. f \in Surjection(chosen, 1 .. k)
      <3>1. ASSUME NEW m \in 1 .. k PROVE \E i \in chosen : f[i] = m
        <4>1. m \in 1 .. n
          BY <1>0, <2>1, <2>k
        <4>2. PICK i \in D : Cardinality(before[i]) = m - 1
          BY <1>5, <4>1
        <4>3. i \in chosen
          BY <2>1, <4>2
        <4>4. f[i] = m
          BY <2>1, <2>f, <4>2, <4>3
        <4>. QED  BY <4>3, <4>4
      <3>2. f \in [chosen -> 1 .. k]
        BY <2>2 DEF Injection
      <3>. QED  BY <3>1, <3>2 DEF Surjection
    <2>4. IsFiniteSet(1 .. k) /\ Cardinality(1 .. k) = k
      BY <2>1, FS_Interval
    <2>. QED  BY <2>2, <2>3, <2>4, <2>k, FS_Injection
  <1>10. /\ Fixture!Ascending(chosen) \in Seq(chosen)
         /\ IsInjective(Fixture!Ascending(chosen))
         /\ ToSet(Fixture!Ascending(chosen)) = chosen
    BY <1>7, AscendingLists
  <1>11. Cardinality(chosen) = IF budget \in 1 .. n THEN budget
                               ELSE IF budget < 0 THEN 0 ELSE n
    BY <1>0, <1>9, <1>m
  <1>12. \A i \in chosen, j \in D \ chosen :
            /\ Fixture!Priority(candidates[i]) >= Fixture!Priority(candidates[j])
            /\ Fixture!Priority(candidates[i]) = Fixture!Priority(candidates[j]) => i < j
    BY <1>2, <1>7, <1>8
  <1>. QED  BY <1>6, <1>7, <1>10, <1>11, <1>12, <1>d, <1>n

-----------------------------------------------------------------------------
(* The fixture engine and its analyses.                                    *)

Owned(x) == {job \in DOMAIN calls : job[1] = x}

JobsOf(b) == Fixture!JobsOf(b)

\* A run that has not begun has asked for no analysis.
RunInv ==
    /\ DOMAIN runs = Runs
    /\ \A r \in Runs :
         /\ {"pc", "heard", "requested"} \subseteq DOMAIN runs[r]
         /\ runs[r].pc \in {"new", "awaiting", "completed", "refused"}
         /\ runs[r].heard \in Nat /\ Len(runs[r].requested) \in Nat
         /\ runs[r].heard <= Len(runs[r].requested)
         /\ runs[r].pc = "new" => Owned(r) = {}

BatchState ==
    [pc : {"new", "analysing", "flushing", "completed", "refused"},
     request : Requests \cup {Nothing}, selected : Seq(Nat), awaited : SUBSET DOMAIN calls]

\* What a batch has asked for is known to the queue, and what has ended stays so.
BatchSound(b) ==
    /\ batches[b].pc = "new" => Owned(b) = {}
    /\ batches[b].pc # "new" =>
         /\ batches[b].request \in Requests
         /\ batches[b].selected = Fixture!SelectScreenBudget(
                batches[b].request.candidates, batches[b].request.budget)
         /\ JobsOf(b) \subseteq DOMAIN calls
    /\ batches[b].pc \in {"flushing", "completed"} => \A job \in JobsOf(b) : calls[job] = "ok"
    /\ batches[b].pc = "completed" =>
         \A job \in batches[b].awaited : calls[job] \in {"ok", "error"}

BatchInv ==
    /\ batches \in [Batches -> BatchState]
    /\ byRun \in [Runs -> SUBSET DOMAIN calls]
    /\ \A b \in Batches : BatchSound(b)

CallInv ==
    /\ \A job \in DOMAIN calls :
         calls[job] \in {"sent", "lost", "pending", "active", "ok", "error"}
    /\ \A job \in DOMAIN answers : answers[job] \in {Nothing, "pending", "completed", "failed"}
    /\ {job \in DOMAIN calls : job[1] \in Runs} = IF configured THEN DOMAIN answers ELSE {}

FixtureInv == QueueInv /\ RunInv /\ BatchInv /\ CallInv

\* Jobs are added, none is forgotten, and an analysis that has ended stays so.
Later ==
    /\ DOMAIN calls \subseteq DOMAIN calls'
    /\ \A job \in DOMAIN calls : calls[job] \in {"ok", "error"} => calls'[job] = calls[job]

LEMMA RunsKept ==
    ASSUME RunInv, UNCHANGED runs,
           \A job \in DOMAIN calls' : job \in DOMAIN calls \/ job[1] \notin Runs
    PROVE  RunInv'
  BY DEF RunInv, Owned

LEMMA BatchKept ==
    ASSUME BatchInv, Later, NEW b \in Batches, batches'[b] = batches[b],
           \A job \in DOMAIN calls' : job \in DOMAIN calls \/ job[1] # b
    PROVE  BatchSound(b)' /\ batches[b] \in BatchState'
  <1>1. JobsOf(b)' = JobsOf(b)
    BY DEF JobsOf, Fixture!JobsOf
  <1>2. Owned(b) = {} => Owned(b)' = {}
    BY DEF Owned
  <1>3. batches[b] \in BatchState /\ BatchSound(b)
    BY DEF BatchInv
  <1>4. batches[b].awaited \subseteq DOMAIN calls /\ batches[b] \in BatchState'
    BY <1>3 DEF BatchState, Later
  <1>5. batches[b].pc \in {"flushing", "completed"} => JobsOf(b) \subseteq DOMAIN calls
    BY <1>3 DEF BatchSound
  <1>. QED  BY <1>1, <1>2, <1>3, <1>4, <1>5 DEF BatchSound, Later

LEMMA BatchesKept ==
    ASSUME BatchInv, UNCHANGED batches, Later, byRun' \in [Runs -> SUBSET DOMAIN calls'],
           \A job \in DOMAIN calls' : job \in DOMAIN calls \/ job[1] \notin Batches
    PROVE  BatchInv'
  <1>1. \A b \in Batches : BatchSound(b)' /\ batches[b] \in BatchState'
    BY BatchKept
  <1>2. batches' = [b \in Batches |-> batches[b]]
    BY DEF BatchInv
  <1>. QED  BY <1>1, <1>2 DEF BatchInv

LEMMA ByRunKept ==
    ASSUME BatchInv, Later, UNCHANGED byRun
    PROVE  byRun' \in [Runs -> SUBSET DOMAIN calls']
  BY DEF BatchInv, Later

\* The steps of a run.
LEMMA RunJourneyKeeps ==
    ASSUME FixtureInv, NEW r \in Runs, NEW input \in Inputs, Fixture!RunJourney(r, input)
    PROVE  FixtureInv' /\ Later
  <1>. DEFINE shots == Fixture!Shots(input.steps)
              spoilt == "unusable" \in Fixture!ToSet(input.steps)
              taken == {n \in Fixture!ToSet(shots) : \A k \in 1..n : input.steps[k] # "unusable"}
  <1>j. PICK jobs : jobs = {Fixture!Job(r, n) : n \in taken}
    OBVIOUS
  <1>1. \A job \in jobs : job[1] = r
    BY <1>j DEF Fixture!Job
  <1>2. r \notin Batches /\ runs[r].pc = "new" /\ Owned(r) = {} /\ DOMAIN runs = Runs
    BY FixtureAssumption DEF Fixture!RunJourney, FixtureInv, RunInv
  <1>3. /\ UNCHANGED <<batches, configured, pending, byRun>>
        /\ \/ UNCHANGED <<calls, answers>>
           \/ /\ calls' = IF configured THEN Fixture!With(calls, jobs, "sent") ELSE calls
              /\ answers' = Fixture!With(answers, jobs, IF configured THEN Nothing ELSE "pending")
    BY <1>j DEF Fixture!RunJourney
  <1>4. /\ DOMAIN runs' = Runs /\ \A k \in Runs : k # r => runs'[k] = runs[k]
        /\ {"pc", "heard", "requested"} \subseteq DOMAIN runs'[r]
        /\ runs'[r].pc \in {"awaiting", "refused"}
        /\ \/ runs'[r].heard = runs[r].heard /\ runs'[r].requested = runs[r].requested
           \/ runs'[r].heard = 0 /\ runs'[r].requested = shots
    <2>1. {"pc", "heard", "requested"} \subseteq DOMAIN runs[r]
      BY DEF FixtureInv, RunInv
    <2>. QED  BY <1>2, <2>1 DEF Fixture!RunJourney
  <1>5. Len(shots) \in Nat
    <2>1. input.steps \in Seq({"good", "none", "unusable"})
      BY FixtureAssumption
    <2>2. IsFiniteSet(DOMAIN input.steps) /\ \A n \in DOMAIN input.steps : n \in Int
      <3>1. Len(input.steps) \in Nat /\ DOMAIN input.steps = 1 .. Len(input.steps)
        BY <2>1
      <3>. QED  BY <3>1, FS_Interval
    <2>s. PICK S : S = {n \in DOMAIN input.steps : input.steps[n] # "none"}
      OBVIOUS
    <2>3. IsFiniteSet(S) /\ \A n \in S : n \in Int
      BY <2>2, <2>s, FS_Subset
    <2>4. Len(Fixture!Ascending(S)) \in Nat
      BY <2>3, AscendingLists
    <2>. QED  BY <2>s, <2>4 DEF Fixture!Shots
  <1>6. /\ DOMAIN calls \subseteq DOMAIN calls'
        /\ \A job \in DOMAIN calls : calls'[job] = calls[job]
        /\ \A job \in DOMAIN calls' : job \in DOMAIN calls \/ (calls'[job] = "sent" /\ job[1] = r)
    <2>1. \A job \in DOMAIN calls : job \notin jobs
      BY <1>1, <1>2 DEF Owned
    <2>. QED  BY <1>1, <1>3, <2>1 DEF Fixture!With
  <1>7. RunInv'
    <2>1. runs[r].heard \in Nat /\ Len(runs[r].requested) \in Nat
          /\ runs[r].heard <= Len(runs[r].requested)
      BY DEF FixtureInv, RunInv
    <2>2. \A k \in Runs : runs[k].pc = "new" /\ k # r => Owned(k)' = {}
      BY <1>6 DEF FixtureInv, RunInv, Owned
    <2>. HIDE DEF shots
    <2>3. runs'[r].heard \in Nat /\ Len(runs'[r].requested) \in Nat
          /\ runs'[r].heard <= Len(runs'[r].requested)
      BY <1>4, <1>5, <2>1
    <2>. QED  BY <1>4, <2>2, <2>3 DEF FixtureInv, RunInv
  <1>8. QueueInv'
    <2>1. Active(calls') = Active(calls)
      BY <1>6 DEF Active, Fixture!Active
    <2>2. pending \in Seq(DOMAIN calls')
      BY <1>6, SeqMonotonic DEF FixtureInv, QueueInv, QueueOf
    <2>3. {job \in DOMAIN calls' : calls'[job] = "pending"}
            = {job \in DOMAIN calls : calls[job] = "pending"}
      BY <1>6
    <2>. QED  BY <1>3, <2>1, <2>2, <2>3 DEF FixtureInv, QueueInv, QueueOf
  <1>l. Later
    BY <1>6 DEF Later
  <1>9. BatchInv'
    <2>. QED  BY <1>2, <1>3, <1>6, <1>l, BatchesKept, ByRunKept DEF FixtureInv
  <1>10. CallInv'
    <2>1. \A job \in DOMAIN answers' :
             \/ job \in DOMAIN answers /\ answers'[job] = answers[job]
             \/ answers'[job] \in {Nothing, "pending"}
      BY <1>3 DEF Fixture!With
    <2>2. \A job \in DOMAIN calls' :
             calls'[job] \in {"sent", "lost", "pending", "active", "ok", "error"}
      BY <1>6 DEF FixtureInv, CallInv
    <2>3. {job \in DOMAIN calls' : job[1] \in Runs} = IF configured THEN DOMAIN answers' ELSE {}
      BY <1>1, <1>3 DEF FixtureInv, CallInv, Fixture!With
    <2>. QED  BY <1>3, <2>1, <2>2, <2>3 DEF FixtureInv, CallInv
  <1>. QED  BY <1>l, <1>7, <1>8, <1>9, <1>10 DEF FixtureInv

\* The answers are taken, and the run ends: the analyses go on as they were.
LEMMA CollectKeeps ==
    ASSUME FixtureInv, NEW r \in Runs, Fixture!Collect(r) \/ Fixture!CompleteJourney(r)
    PROVE  FixtureInv' /\ Later
  <1>1. UNCHANGED <<batches, configured, calls, answers, pending, byRun>>
    BY DEF Fixture!Collect, Fixture!CompleteJourney
  <1>2. /\ DOMAIN runs = Runs /\ {"pc", "heard", "requested"} \subseteq DOMAIN runs[r]
        /\ runs[r].heard \in Nat /\ Len(runs[r].requested) \in Nat
        /\ runs[r].heard <= Len(runs[r].requested)
    BY DEF FixtureInv, RunInv
  <1>3. /\ DOMAIN runs' = Runs /\ \A k \in Runs : k # r => runs'[k] = runs[k]
        /\ {"pc", "heard", "requested"} \subseteq DOMAIN runs'[r]
        /\ runs'[r].pc \in {"awaiting", "completed"}
        /\ runs'[r].requested = runs[r].requested
        /\ runs'[r].heard \in Nat /\ runs'[r].heard <= Len(runs[r].requested)
    <2>1. CASE Fixture!Collect(r)
      <3>1. DOMAIN runs' = DOMAIN runs
        BY <2>1 DEF Fixture!Collect
      <3>2. \A k \in Runs : k # r => runs'[k] = runs[k]
        BY <2>1, <1>2 DEF Fixture!Collect
      <3>3. DOMAIN runs'[r] = DOMAIN runs[r]
        BY <2>1, <1>2 DEF Fixture!Collect
      <3>4. runs'[r].pc = runs[r].pc /\ runs'[r].requested = runs[r].requested
        BY <2>1, <1>2 DEF Fixture!Collect
      <3>5. runs'[r].heard = runs[r].heard + 1
        BY <2>1, <1>2 DEF Fixture!Collect
      <3>6. runs[r].pc = "awaiting" /\ runs[r].heard < Len(runs[r].requested)
        BY <2>1 DEF Fixture!Collect
      <3>. QED  BY <1>2, <3>1, <3>2, <3>3, <3>4, <3>5, <3>6
    <2>2. CASE Fixture!CompleteJourney(r)
      BY <1>2, <2>2 DEF Fixture!CompleteJourney
    <2>. QED  BY <2>1, <2>2
  <1>4. RunInv'
    BY <1>1, <1>2, <1>3 DEF FixtureInv, RunInv, Owned
  <1>5. BatchInv'
    BY <1>1, BatchesKept, ByRunKept DEF FixtureInv, Later
  <1>. QED
    BY <1>1, <1>4, <1>5 DEF FixtureInv, QueueInv, QueueOf, Active, CallInv, Later

\* An answer, or a connection that breaks: a job whose request has not arrived
\* is lost, and the queue does not know of it.
LEMMA CallKeeps ==
    ASSUME FixtureInv, NEW job \in DOMAIN answers, Fixture!Answer(job) \/ Fixture!Break(job)
    PROVE  FixtureInv' /\ Later
  <1>1. UNCHANGED <<runs, batches, configured, pending, byRun>>
    BY DEF Fixture!Answer, Fixture!Break
  <1>2. /\ DOMAIN calls' = DOMAIN calls
        /\ \A x \in DOMAIN calls : \/ calls'[x] = calls[x]
                                   \/ calls[x] = "sent" /\ calls'[x] = "lost"
    BY DEF Fixture!Answer, Fixture!Break
  <1>3. /\ DOMAIN answers' = DOMAIN answers
        /\ \A x \in DOMAIN answers : answers'[x] \in {answers[x], "completed", "failed"}
    BY DEF Fixture!Answer, Fixture!Break
  <1>4. QueueInv'
    <2>1. Active(calls') = Active(calls)
      BY <1>2 DEF Active, Fixture!Active
    <2>2. {x \in DOMAIN calls' : calls'[x] = "pending"}
            = {x \in DOMAIN calls : calls[x] = "pending"}
      BY <1>2
    <2>. QED  BY <1>1, <1>2, <2>1, <2>2 DEF FixtureInv, QueueInv, QueueOf
  <1>5. RunInv'
    BY <1>1, <1>2, RunsKept DEF FixtureInv
  <1>l. Later
    BY <1>2 DEF Later
  <1>6. BatchInv'
    <2>. QED  BY <1>1, <1>2, <1>l, BatchesKept, ByRunKept DEF FixtureInv
  <1>7. CallInv'
    BY <1>1, <1>2, <1>3 DEF FixtureInv, CallInv
  <1>. QED  BY <1>l, <1>4, <1>5, <1>6, <1>7 DEF FixtureInv

\* A request arrives.
LEMMA ReceiveKeeps ==
    ASSUME FixtureInv, NEW job \in DOMAIN calls, Fixture!Receive(job)
    PROVE  FixtureInv' /\ Later
  <1>s. PICK jobs : jobs = <<job>>
    OBVIOUS
  <1>0. /\ jobs \in Seq(ToSet(jobs)) /\ IsInjective(jobs) /\ ToSet(jobs) = {job}
        /\ jobs # <<>> /\ jobs[1] = job
    <2>1. jobs \in Seq({job}) /\ jobs # <<>> /\ jobs[1] = job /\ DOMAIN jobs = {1}
      BY <1>s
    <2>2. ToSet(jobs) = {job}
      BY <2>1 DEF ToSet
    <2>. QED  BY <2>1, <2>2 DEF IsInjective
  <1>1. /\ calls[job] = "sent" /\ Fixture!Enqueue(jobs)
        /\ UNCHANGED <<runs, batches, configured, answers>>
    BY <1>s DEF Fixture!Receive
  <1>2. /\ QueueInv' /\ DOMAIN calls' = DOMAIN calls
        /\ \A x \in DOMAIN calls :
             \/ calls'[x] \in {"pending", "active"} /\ calls[x] \in {"sent", "pending"}
             \/ calls'[x] = calls[x]
    BY <1>0, <1>1, EnqueueFills DEF FixtureInv
  <1>3. Later
    BY <1>2 DEF Later
  <1>4. byRun' \in [Runs -> SUBSET DOMAIN calls']
    <2>1. byRun' = [byRun EXCEPT ![Fixture!RunOf(job)] = @ \cup {job}]
      BY <1>0, <1>1, SameOperators DEF Fixture!Enqueue
    <2>. QED  BY <1>2, <2>1 DEF FixtureInv, BatchInv
  <1>5. CallInv'
    BY <1>1, <1>2 DEF FixtureInv, CallInv
  <1>. QED
    BY <1>1, <1>2, <1>3, <1>4, <1>5, RunsKept, BatchesKept DEF FixtureInv

\* An analysis ends, and the oldest that wait take its place.
LEMMA FinishKeeps ==
    ASSUME FixtureInv, NEW job \in DOMAIN calls, NEW outcome \in {"ok", "error"},
           Fixture!Finish(job, outcome)
    PROVE  FixtureInv' /\ Later
  <1>s. PICK status : status = [calls EXCEPT ![job] = outcome]
    OBVIOUS
  <1>1. /\ calls[job] = "active" /\ Fixture!Drain(pending, status)
        /\ UNCHANGED <<runs, batches, configured, answers, byRun>>
    BY <1>s DEF Fixture!Finish
  <1>2. /\ DOMAIN status = DOMAIN calls
        /\ \A x \in DOMAIN calls : status[x] = IF x = job THEN outcome ELSE calls[x]
    BY <1>s
  <1>3. Active(status) = Active(calls) \ {job}
    BY <1>1, <1>2 DEF Active, Fixture!Active
  <1>4. QueueOf(pending, status)
    <2>1. IsFiniteSet(Active(calls)) /\ Cardinality(Active(calls)) <= Concurrency
      BY DEF FixtureInv, QueueInv, QueueOf
    <2>2. Active(status) \in SUBSET Active(calls)
      BY <1>3
    <2>a. PICK A : A = Active(calls)
      OBVIOUS
    <2>b. PICK B : B = Active(status)
      OBVIOUS
    <2>3. /\ IsFiniteSet(B) /\ Cardinality(B) <= Cardinality(A)
          /\ Cardinality(B) \in Nat /\ Cardinality(A) \in Nat
      BY <2>1, <2>2, <2>a, <2>b, FS_Subset, FS_CardinalityType
    <2>4. IsFiniteSet(Active(status)) /\ Cardinality(Active(status)) <= Concurrency
      BY <2>1, <2>3, <2>a, <2>b, FixtureAssumption
    <2>5. {x \in DOMAIN status : status[x] = "pending"}
            = {x \in DOMAIN calls : calls[x] = "pending"}
      BY <1>1, <1>2
    <2>. QED  BY <1>2, <2>4, <2>5 DEF FixtureInv, QueueInv, QueueOf
  <1>5. /\ QueueInv' /\ DOMAIN calls' = DOMAIN calls
        /\ \A x \in DOMAIN calls :
             \/ calls'[x] = calls[x]
             \/ calls[x] \in {"active", "pending"} /\ calls'[x] \in {"active", "ok", "error"}
    BY <1>1, <1>2, <1>4, DrainFills
  <1>6. Later
    BY <1>5 DEF Later
  <1>7. CallInv'
    BY <1>1, <1>5 DEF FixtureInv, CallInv
  <1>. QED
    BY <1>1, <1>5, <1>6, <1>7, RunsKept, BatchesKept, ByRunKept DEF FixtureInv

\* A batch puts what it selects in the queue.
LEMMA AnalyzeBatchKeeps ==
    ASSUME FixtureInv, NEW b \in Batches, NEW request \in Requests,
           Fixture!AnalyzeBatch(b, request)
    PROVE  FixtureInv' /\ Later
  <1>s. PICK selected : selected = Fixture!SelectScreenBudget(request.candidates, request.budget)
    OBVIOUS
  <1>j. PICK jobs : jobs = [k \in DOMAIN selected |-> Fixture!Job(b, selected[k])]
    OBVIOUS
  <1>c. PICK chosen : chosen = ToSet(selected)
    OBVIOUS
  <1>0. /\ selected \in Seq(chosen) /\ IsInjective(selected) /\ chosen \subseteq Nat
        /\ ToSet(selected) = chosen
    <2>1. request.candidates \in Seq(STRING) /\ request.budget \in Int
      BY FixtureAssumption
    <2>2. /\ selected \in Seq(ToSet(selected)) /\ IsInjective(selected)
          /\ ToSet(selected) \subseteq DOMAIN request.candidates
      BY <1>s, <2>1, BudgetSelects
    <2>3. DOMAIN request.candidates \subseteq Nat
      BY <2>1
    <2>. QED  BY <1>c, <2>2, <2>3
  <1>1. /\ DOMAIN jobs = DOMAIN selected
        /\ \A k \in DOMAIN selected : jobs[k] = <<b, selected[k]>>
    BY <1>j DEF Fixture!Job
  <1>2. ToSet(jobs) = {<<b, n>> : n \in chosen}
    BY <1>0, <1>1 DEF ToSet
  <1>3. jobs \in Seq(ToSet(jobs)) /\ IsInjective(jobs)
    <2>1. DOMAIN selected = 1 .. Len(selected) /\ Len(selected) \in Nat
      BY <1>0
    <2>2. jobs = [k \in 1 .. Len(selected) |-> jobs[k]]
      BY <1>j, <2>1
    <2>3. \A k \in 1 .. Len(selected) : jobs[k] \in ToSet(jobs)
      BY <1>1, <2>1 DEF ToSet
    <2>4. jobs \in Seq(ToSet(jobs))
      BY <2>1, <2>2, <2>3
    <2>5. IsInjective(jobs)
      BY <1>0, <1>1 DEF IsInjective
    <2>. QED  BY <2>4, <2>5
  <1>4. /\ batches[b].pc = "new"
        /\ batches' = [batches EXCEPT ![b] = [pc |-> "analysing", request |-> request,
                                              selected |-> selected, awaited |-> {}]]
        /\ Fixture!Enqueue(jobs) /\ UNCHANGED <<runs, configured, answers>>
    BY <1>s, <1>j DEF Fixture!AnalyzeBatch
  <1>5. Owned(b) = {} /\ b \notin Runs
    BY <1>4, FixtureAssumption DEF FixtureInv, BatchInv, BatchSound
  <1>6. \A job \in ToSet(jobs) : job \notin DOMAIN calls /\ job[1] = b
    BY <1>2, <1>5 DEF Owned
  <1>7. /\ QueueInv' /\ DOMAIN calls' = DOMAIN calls \cup ToSet(jobs)
        /\ \A job \in DOMAIN calls' :
             \/ calls'[job] \in {"pending", "active"} /\ job \in ToSet(jobs)
             \/ calls'[job] = "active" /\ job \in DOMAIN calls /\ calls[job] = "pending"
             \/ calls'[job] = calls[job] /\ job \in DOMAIN calls
    BY <1>3, <1>4, <1>6, EnqueueFills DEF FixtureInv
  <1>8. Later
    BY <1>6, <1>7 DEF Later
  <1>9. byRun' \in [Runs -> SUBSET DOMAIN calls']
    <2>1. \/ byRun' = byRun
          \/ byRun' = [byRun EXCEPT ![Fixture!RunOf(jobs[1])] = @ \cup ToSet(jobs)]
      BY <1>4, SameOperators DEF Fixture!Enqueue
    <2>2. CASE byRun' = byRun
      BY <1>8, <2>2, ByRunKept DEF FixtureInv
    <2>3. CASE byRun' = [byRun EXCEPT ![Fixture!RunOf(jobs[1])] = @ \cup ToSet(jobs)]
      BY <1>7, <2>3 DEF FixtureInv, BatchInv
    <2>. QED  BY <2>1, <2>2, <2>3
  <1>10. RunInv'
    BY <1>4, <1>5, <1>6, <1>7, RunsKept DEF FixtureInv
  <1>11. BatchInv'
    <2>1. \A x \in Batches \ {b} :
             batches'[x] = batches[x] /\ BatchSound(x)' /\ batches[x] \in BatchState'
      <3>1. \A x \in Batches \ {b} : batches'[x] = batches[x]
        BY <1>4 DEF FixtureInv, BatchInv
      <3>2. \A x \in Batches \ {b} :
               \A job \in DOMAIN calls' : job \in DOMAIN calls \/ job[1] # x
        BY <1>6, <1>7
      <3>. QED  BY <1>8, <3>1, <3>2, BatchKept DEF FixtureInv
    <2>2. /\ DOMAIN batches' = Batches /\ batches' = [x \in Batches |-> batches'[x]]
          /\ batches'[b] = [pc |-> "analysing", request |-> request,
                            selected |-> selected, awaited |-> {}]
      BY <1>4 DEF FixtureInv, BatchInv
    <2>3. batches'[b] \in BatchState'
      <3>1. selected \in Seq(Nat)
        BY <1>0, SeqMonotonic
      <3>. QED  BY <2>2, <3>1 DEF BatchState
    <2>4. JobsOf(b)' \subseteq DOMAIN calls'
      <3>1. batches'[b].selected = selected
        BY <2>2
      <3>2. JobsOf(b)' = {<<b, n>> : n \in chosen}
        BY <1>0, <3>1, SameOperators DEF JobsOf, Fixture!JobsOf, Fixture!Job
      <3>. QED  BY <1>2, <1>7, <3>2
    <2>5. BatchSound(b)'
      <3>1. /\ batches'[b].pc = "analysing" /\ batches'[b].request = request
            /\ batches'[b].selected = selected
        BY <2>2
      <3>. QED  BY <1>s, <2>4, <3>1 DEF BatchSound
    <2>6. batches' \in [Batches -> BatchState']
      BY <2>1, <2>2, <2>3
    <2>. QED  BY <1>9, <2>1, <2>5, <2>6 DEF BatchInv
  <1>12. CallInv'
    <2>1. \A job \in DOMAIN calls' :
             calls'[job] \in {"sent", "lost", "pending", "active", "ok", "error"}
      BY <1>7 DEF FixtureInv, CallInv
    <2>2. {job \in DOMAIN calls' : job[1] \in Runs} = {job \in DOMAIN calls : job[1] \in Runs}
      BY <1>5, <1>6, <1>7
    <2>. QED  BY <1>4, <2>1, <2>2 DEF FixtureInv, CallInv
  <1>. QED  BY <1>7, <1>8, <1>10, <1>11, <1>12 DEF FixtureInv

\* A batch goes on to the end of its run's analyses, or fails.
LEMMA BatchGoesOnKeeps ==
    ASSUME FixtureInv, NEW b \in Batches,
           Fixture!BatchFails(b) \/ Fixture!Flush(b) \/ Fixture!Flushed(b)
    PROVE  FixtureInv' /\ Later
  <1>1. UNCHANGED <<runs, configured, calls, answers, pending>>
    BY DEF Fixture!BatchFails, Fixture!Flush, Fixture!Flushed
  <1>2. /\ batches \in [Batches -> BatchState]
        /\ byRun \in [Runs -> SUBSET DOMAIN calls] /\ BatchRun[b] \in Runs
    BY FixtureAssumption DEF FixtureInv, BatchInv
  <1>r. PICK rec : rec = batches[b]
    OBVIOUS
  <1>a. PICK jobs : jobs = byRun[BatchRun[b]]
    OBVIOUS
  <1>3. rec \in BatchState /\ jobs \subseteq DOMAIN calls
    BY <1>2, <1>r, <1>a
  <1>4. /\ rec.pc \in {"analysing", "flushing"}
        /\ \E new \in {[rec EXCEPT !.pc = "refused"], [rec EXCEPT !.pc = "completed"],
                       [[rec EXCEPT !.pc = "flushing"] EXCEPT !.awaited = jobs]} :
              batches' = [batches EXCEPT ![b] = new]
    BY <1>r, <1>a DEF Fixture!BatchFails, Fixture!Flush, Fixture!Flushed
  <1>5. PICK new : /\ batches' = [batches EXCEPT ![b] = new]
                   /\ new \in BatchState /\ new.pc \in {"refused", "flushing", "completed"}
                   /\ new.request = rec.request /\ new.selected = rec.selected
    <2>1. \A new \in {[rec EXCEPT !.pc = "refused"], [rec EXCEPT !.pc = "completed"],
                      [[rec EXCEPT !.pc = "flushing"] EXCEPT !.awaited = jobs]} :
             /\ new \in BatchState /\ new.pc \in {"refused", "flushing", "completed"}
             /\ new.request = rec.request /\ new.selected = rec.selected
      BY <1>3 DEF BatchState
    <2>. QED  BY <1>4, <2>1
  <1>6. /\ DOMAIN batches' = Batches /\ batches' = [x \in Batches |-> batches'[x]]
        /\ batches'[b] = new /\ \A x \in Batches \ {b} : batches'[x] = batches[x]
    BY <1>2, <1>5
  <1>7. byRun' \in [Runs -> SUBSET DOMAIN calls]
    BY <1>2 DEF Fixture!BatchFails, Fixture!Flush, Fixture!Flushed
  <1>9. new.pc \in {"flushing", "completed"} => \A job \in JobsOf(b) : calls[job] = "ok"
    <2>1. CASE Fixture!BatchFails(b)
      BY <1>2, <1>6, <2>1 DEF Fixture!BatchFails, BatchState
    <2>2. CASE Fixture!Flush(b)
      BY <2>2 DEF Fixture!Flush, JobsOf
    <2>3. CASE Fixture!Flushed(b)
      BY <2>3 DEF Fixture!Flushed, FixtureInv, BatchInv, BatchSound
    <2>. QED  BY <2>1, <2>2, <2>3
  <1>10. new.pc = "completed" => \A job \in new.awaited : calls[job] \in {"ok", "error"}
    <2>1. CASE Fixture!BatchFails(b) \/ Fixture!Flush(b)
      BY <1>2, <1>6, <2>1 DEF Fixture!BatchFails, Fixture!Flush, BatchState
    <2>2. CASE Fixture!Flushed(b)
      <3>1. new.awaited = rec.awaited
        BY <1>2, <1>6, <1>r, <2>2 DEF Fixture!Flushed, BatchState
      <3>. QED  BY <1>r, <2>2, <3>1 DEF Fixture!Flushed, Fixture!Settled
    <2>. QED  BY <2>1, <2>2
  <1>11. Later
    BY <1>1 DEF Later
  <1>12. BatchSound(b)'
    <2>1. JobsOf(b)' = JobsOf(b)
      BY <1>5, <1>6, <1>r DEF JobsOf, Fixture!JobsOf
    <2>2. /\ rec.request \in Requests /\ JobsOf(b) \subseteq DOMAIN calls
          /\ rec.selected = Fixture!SelectScreenBudget(rec.request.candidates, rec.request.budget)
      BY <1>4, <1>r DEF FixtureInv, BatchInv, BatchSound
    <2>. QED  BY <1>1, <1>5, <1>6, <1>9, <1>10, <2>1, <2>2 DEF BatchSound
  <1>13. \A x \in Batches \ {b} : BatchSound(x)'
    BY <1>1, <1>6, <1>11, BatchKept DEF FixtureInv
  <1>14. batches' \in [Batches -> BatchState]
    BY <1>2, <1>5, <1>6
  <1>8. BatchInv'
    <2>1. BatchState' = BatchState
      BY <1>1 DEF BatchState
    <2>. QED  BY <1>1, <1>7, <1>12, <1>13, <1>14, <2>1 DEF BatchInv
  <1>. QED
    BY <1>1, <1>8, <1>11, RunsKept DEF FixtureInv, QueueInv, QueueOf, Active, CallInv

LEMMA FixtureStart == Fixture!Init => FixtureInv
  <1>. SUFFICES ASSUME Fixture!Init PROVE FixtureInv
    OBVIOUS
  <1>1. DOMAIN calls = {} /\ DOMAIN answers = {} /\ pending = <<>>
    BY DEF Fixture!Init
  <1>2. QueueInv
    <2>1. Active(calls) = {}
      BY <1>1 DEF Active, Fixture!Active
    <2>2. pending \in Seq(DOMAIN calls) /\ DOMAIN pending = {} /\ ToSet(pending) = {}
      BY <1>1 DEF ToSet
    <2>3. IsFiniteSet(Active(calls)) /\ Cardinality(Active(calls)) <= Concurrency
      BY <2>1, FS_EmptySet, FixtureAssumption
    <2>. QED  BY <1>1, <2>2, <2>3 DEF QueueInv, QueueOf, IsInjective
  <1>3. RunInv
    BY <1>1 DEF Fixture!Init, RunInv, Owned
  <1>4. BatchInv
    <2>1. <<>> \in Seq(Nat)
      OBVIOUS
    <2>. QED  BY <1>1, <2>1 DEF Fixture!Init, BatchInv, BatchState, BatchSound, Owned
  <1>5. CallInv
    BY <1>1 DEF CallInv
  <1>. QED  BY <1>2, <1>3, <1>4, <1>5 DEF FixtureInv

LEMMA FixtureStep ==
    ASSUME FixtureInv, [WorkerNext]_workerVars
    PROVE  FixtureInv' /\ Later
  <1>1. ASSUME NEW r \in Runs, Fixture!Journey(r) PROVE FixtureInv' /\ Later
    BY <1>1, RunJourneyKeeps, CollectKeeps DEF Fixture!Journey
  <1>2. ASSUME NEW b \in Batches, Fixture!Batch(b) PROVE FixtureInv' /\ Later
    BY <1>2, AnalyzeBatchKeeps, BatchGoesOnKeeps DEF Fixture!Batch
  <1>3. CASE Fixture!Call
    BY <1>3, CallKeeps, ReceiveKeeps DEF Fixture!Call
  <1>4. CASE Fixture!Analysis
    BY <1>4, FinishKeeps DEF Fixture!Analysis
  <1>5. CASE UNCHANGED fixtureVars
    <2>1. UNCHANGED <<runs, batches, configured, calls, answers, pending, byRun>>
      BY <1>5 DEF fixtureVars
    <2>2. Later /\ BatchInv'
      BY <2>1, BatchesKept, ByRunKept DEF FixtureInv, Later
    <2>. QED
      BY <2>1, <2>2, RunsKept DEF FixtureInv, QueueInv, QueueOf, Active, CallInv
  <1>6. Fixture!Next \/ UNCHANGED fixtureVars
    BY DEF WorkerNext, workerVars
  <1>. QED  BY <1>1, <1>2, <1>3, <1>4, <1>5, <1>6 DEF Fixture!Next

LEMMA FixtureAlways == WorkerSpec => []FixtureInv
  <1>1. WorkerInit => FixtureInv
    BY FixtureStart DEF WorkerInit
  <1>2. FixtureInv /\ [WorkerNext]_workerVars => FixtureInv'
    BY FixtureStep
  <1>. QED  BY <1>1, <1>2, PTL DEF WorkerSpec

\* Whatever the analyses asked for singly and in batches, however they end and
\* whichever connections break: no more run than ANALYSIS_CONCURRENCY, a job
\* waits only while as many run, and a job that waits is in the queue once.
THEOREM WorkConservedAlways == WorkerSpec => []WorkConserved
  <1>1. FixtureInv => WorkConserved
    BY SameOperators DEF FixtureInv, QueueInv, QueueOf, Active, WorkConserved,
                         Fixture!WorkConserved
  <1>. QED  BY <1>1, FixtureAlways, PTL

\* A batch that is answered has analysed all that it selected, has heard of
\* the end of every analysis of its run that it found in the queue, and has
\* left out no candidate more telling than one it took.
THEOREM BatchCoversAlways == WorkerSpec => []BatchCovers
  <1>1. FixtureInv => BatchCovers
    <2>. SUFFICES ASSUME FixtureInv, NEW b \in Batches, batches[b].pc = "completed"
                  PROVE  LET request == batches[b].request
                             chosen == ToSet(batches[b].selected)
                             reason(i) == Fixture!Priority(request.candidates[i])
                         IN  /\ \A job \in JobsOf(b) : calls[job] = "ok"
                             /\ \A job \in batches[b].awaited : Fixture!Settled(job)
                             /\ \A i \in chosen, j \in DOMAIN request.candidates \ chosen :
                                   reason(i) >= reason(j) /\ (reason(i) = reason(j) => i < j)
                             /\ Cardinality(chosen) =
                                  IF request.budget \in 1..Len(request.candidates)
                                  THEN request.budget
                                  ELSE IF request.budget < 0 THEN 0 ELSE Len(request.candidates)
      BY SameOperators DEF BatchCovers, Fixture!BatchCovers, JobsOf
    <2>1. BatchSound(b)
      BY DEF FixtureInv, BatchInv
    <2>q. PICK request : request = batches[b].request
      OBVIOUS
    <2>2. /\ request.candidates \in Seq(STRING) /\ request.budget \in Int
          /\ batches[b].selected = Fixture!SelectScreenBudget(request.candidates, request.budget)
      BY <2>1, <2>q, FixtureAssumption DEF BatchSound
    <2>3. /\ \A job \in JobsOf(b) : calls[job] = "ok"
          /\ \A job \in batches[b].awaited : Fixture!Settled(job)
      BY <2>1 DEF BatchSound, Fixture!Settled
    <2>. QED  BY <2>2, <2>3, <2>q, BudgetSelects
  <1>. QED  BY <1>1, FixtureAlways, PTL

\* Both engines keep their types: a request of the journey worker is one call
\* or, without an eyeson worker, none, and no answer is taken that was not
\* asked for.
THEOREM WorkerTypeCorrect == WorkerSpec => []WorkerTypeOK
  <1>1. FixtureInv => Fixture!TypeOK
    BY DEF FixtureInv, RunInv, BatchInv, BatchState, CallInv, Fixture!TypeOK
  <1>2. TypeOK /\ Fixture!TypeOK => WorkerTypeOK
    BY DEF WorkerTypeOK
  <1>. QED  BY <1>1, <1>2, FixtureAlways, WorkerCaptures, CaptureTypeCorrect, PTL

-----------------------------------------------------------------------------
(* Lists of numbers.                                                       *)

\* Induction up to a number, for membership of a set: the least number that is
\* not in it has none before it.
LEMMA UpTheNumbers ==
    ASSUME NEW n \in Nat, NEW Good, 0 \in Good, \A i \in 0 .. (n - 1) : i \in Good => i + 1 \in Good
    PROVE  \A i \in 0 .. n : i \in Good
  <1>b. PICK bad : bad = {i \in 0 .. n : i \notin Good}
    OBVIOUS
  <1>1. ASSUME bad # {} PROVE FALSE
    <2>1. IsFiniteSet(0 .. n) /\ bad \in SUBSET (0 .. n)
      BY <1>b, FS_Interval
    <2>2. IsFiniteSet(bad) /\ \A i \in bad : i \in Int
      <3>1. IsFiniteSet(bad)
        BY <2>1, FS_Subset
      <3>2. \A i \in 0 .. n : i \in Int
        OBVIOUS
      <3>. QED  BY <2>1, <3>1, <3>2
    <2>c. PICK c : c = Cardinality(bad)
      OBVIOUS
    <2>3. c \in Nat \ {0}
      BY <1>1, <2>2, <2>c, FS_EmptySet, FS_CardinalityType
    <2>4. PICK rank \in [bad -> 0 .. (c - 1)], t \in [1 .. c -> bad] :
             /\ rank = [i \in bad |-> Cardinality({j \in bad : j < i})]
             /\ \A k \in 1 .. c : rank[t[k]] = k - 1
      <3>1. \E rank \in [bad -> 0 .. (Cardinality(bad) - 1)] :
               /\ rank = [i \in bad |-> Cardinality({j \in bad : j < i})]
               /\ \A i, k \in bad : rank[i] = rank[k] => i = k
               /\ \E t \in [1 .. Cardinality(bad) -> bad] :
                    t = Fixture!Ascending(bad) /\ \A k \in 1 .. Cardinality(bad) : rank[t[k]] = k - 1
        BY <2>2, Places
      <3>. QED  BY <2>c, <3>1
    <2>5. t[1] \in bad /\ rank[t[1]] = 0
      <3>1. 1 \in 1 .. c /\ 1 - 1 = 0
        BY <2>3
      <3>. QED  BY <2>4, <3>1
    <2>m. PICK m : m = t[1]
      OBVIOUS
    <2>6. \A i \in bad : ~(i < m)
      <3>b. PICK below : below = {j \in bad : j < m}
        OBVIOUS
      <3>1. Cardinality(below) = 0
        BY <2>4, <2>5, <2>m, <3>b
      <3>2. IsFiniteSet(below)
        BY <2>2, <3>b, FS_Subset
      <3>3. below = {}
        BY <3>1, <3>2, FS_EmptySet
      <3>. QED  BY <3>b, <3>3
    <2>7. m \in 1 .. n /\ m - 1 \in 0 .. (n - 1) /\ m - 1 \notin bad
      BY <1>b, <2>5, <2>6, <2>m
    <2>8. m - 1 \in Good
      BY <1>b, <2>7
    <2>9. (m - 1) + 1 \in Good
      BY <2>7, <2>8
    <2>. QED  BY <1>b, <2>5, <2>7, <2>9, <2>m
  <1>. QED  BY <1>1, <1>b

\* A number above all that are listed is listed last.
LEMMA AscendingGrows ==
    ASSUME NEW S, \A i \in S : i \in Int, IsFiniteSet(S),
           NEW last \in Int, \A i \in S : i < last
    PROVE  Fixture!Ascending(S \cup {last}) = Append(Fixture!Ascending(S), last)
  <1>T. PICK T : T = S \cup {last}
    OBVIOUS
  <1>n. PICK n : n = Cardinality(S)
    OBVIOUS
  <1>0. IsFiniteSet(S) /\ \A i \in S : i \in Int /\ i < last
    OBVIOUS
  <1>1. IsFiniteSet(T) /\ Cardinality(T) = n + 1 /\ n \in Nat /\ \A i \in T : i \in Int
    <2>1. last \notin S
      OBVIOUS
    <2>2. IsFiniteSet(T) /\ Cardinality(T) = n + 1
      BY <1>0, <1>T, <1>n, <2>1, FS_AddElement
    <2>. QED  BY <1>0, <1>T, <1>n, <2>2, FS_CardinalityType
  <1>2. PICK rank \in [S -> 0 .. (n - 1)], t \in [1 .. n -> S] :
             /\ rank = [i \in S |-> Cardinality({j \in S : j < i})]
             /\ t = Fixture!Ascending(S)
             /\ \A k \in 1 .. n : rank[t[k]] = k - 1
    BY <1>0, <1>n, Places, SMTT(30)
  <1>3. PICK high, u :
             /\ high \in [T -> 0 .. n] /\ u \in [1 .. (n + 1) -> T]
             /\ high = [i \in T |-> Cardinality({j \in T : j < i})]
             /\ \A i, k \in T : high[i] = high[k] => i = k
             /\ u = Fixture!Ascending(T)
             /\ \A k \in 1 .. (n + 1) : high[u[k]] = k - 1
    <2>1. \E high \in [T -> 0 .. (Cardinality(T) - 1)] :
             /\ high = [i \in T |-> Cardinality({j \in T : j < i})]
             /\ \A i, k \in T : high[i] = high[k] => i = k
             /\ \E u \in [1 .. Cardinality(T) -> T] :
                  u = Fixture!Ascending(T) /\ \A k \in 1 .. Cardinality(T) : high[u[k]] = k - 1
      BY <1>1, Places
    <2>2. 0 .. (Cardinality(T) - 1) = 0 .. n /\ 1 .. Cardinality(T) = 1 .. (n + 1)
      BY <1>1
    <2>. QED  BY <2>1, <2>2
  <1>4. \A i \in S : high[i] = rank[i]
    <2>1. \A i \in S : {j \in T : j < i} = {j \in S : j < i} /\ i \in T
      BY <1>0, <1>T
    <2>. QED  BY <1>2, <1>3, <2>1
  <1>5. high[last] = n /\ last \in T
    <2>1. {j \in T : j < last} = S
      BY <1>0, <1>T
    <2>. QED  BY <1>T, <1>3, <1>n, <2>1
  <1>6. ASSUME NEW k \in 1 .. n PROVE u[k] = t[k]
    <2>1. t[k] \in S /\ high[t[k]] = k - 1 /\ t[k] \in T
      BY <1>2, <1>4, <1>T
    <2>2. k \in 1 .. (n + 1)
      BY <1>1
    <2>3. u[k] \in T /\ high[u[k]] = k - 1
      BY <1>3, <2>2
    <2>. QED  BY <1>3, <2>1, <2>3
  <1>7. u[n + 1] = last
    <2>1. n + 1 \in 1 .. (n + 1) /\ (n + 1) - 1 = n
      BY <1>1
    <2>2. u[n + 1] \in T /\ high[u[n + 1]] = n
      BY <1>3, <2>1
    <2>. QED  BY <1>3, <1>5, <2>2
  <1>8. t \in Seq(Int) /\ Len(t) = n /\ u \in Seq(Int) /\ Len(u) = n + 1
    BY <1>0, <1>1, <1>2, <1>3
  <1>9. u = Append(t, last)
    BY <1>1, <1>6, <1>7, <1>8
  <1>. QED  BY <1>T, <1>2, <1>3, <1>9

-----------------------------------------------------------------------------
(* The events a run has pushed.                                            *)

EventType == {"journey.started", "behavior.state.changed", "ux.analysis.requested",
              "completed", "failed", "journey.completed"}
AnEvent == [type : EventType, step : Nat]

Reported(events, types) == Fixture!Reported(events, types)

\* Where the events of these types are.
At(events, types) == {k \in DOMAIN events : events[k].type \in types}

LEMMA ReportedList ==
    ASSUME NEW events \in Seq(AnEvent), NEW types
    PROVE  \E t : /\ t = Fixture!Ascending(At(events, types))
                  /\ t \in Seq(At(events, types))
                  /\ Reported(events, types) = [i \in 1 .. Len(t) |-> events[t[i]].step]
                  /\ Reported(events, types) \in Seq(Nat)
                  /\ Len(Reported(events, types)) = Len(t)
                  /\ IsFiniteSet(At(events, types)) /\ \A k \in At(events, types) : k \in 1 .. Len(events)
  <1>a. PICK A : A = At(events, types)
    OBVIOUS
  <1>t. PICK t : t = Fixture!Ascending(A)
    OBVIOUS
  <1>r. PICK r : r = Reported(events, types)
    OBVIOUS
  <1>1. Len(events) \in Nat /\ DOMAIN events = 1 .. Len(events) /\ \A k \in 1 .. Len(events) : events[k].step \in Nat
    <2>1. Len(events) \in Nat /\ DOMAIN events = 1 .. Len(events) /\ \A k \in 1 .. Len(events) : events[k] \in AnEvent
      OBVIOUS
    <2>. QED  BY <2>1 DEF AnEvent
  <1>2. A \in SUBSET (1 .. Len(events)) /\ IsFiniteSet(1 .. Len(events)) /\ \A k \in 1 .. Len(events) : k \in Int
    BY <1>1, <1>a, FS_Interval DEF At
  <1>3. IsFiniteSet(A) /\ \A k \in A : k \in Int /\ k \in 1 .. Len(events)
    BY <1>2, FS_Subset
  <1>4. t \in Seq(A)
    BY <1>3, <1>t, AscendingLists
  <1>5. r = [i \in DOMAIN t |-> events[t[i]].step]
    BY <1>r, <1>t, <1>a DEF Reported, Fixture!Reported, At
  <1>6. Len(t) \in Nat /\ DOMAIN t = 1 .. Len(t) /\ \A i \in 1 .. Len(t) : t[i] \in A
    BY <1>4
  <1>7. r = [i \in 1 .. Len(t) |-> events[t[i]].step] /\ r \in Seq(Nat) /\ Len(r) = Len(t)
    BY <1>1, <1>3, <1>5, <1>6
  <1>. QED  BY <1>3, <1>4, <1>7, <1>a, <1>t, <1>r

\* An event of these types adds its step at the end, another changes nothing.
LEMMA ReportedGrows ==
    ASSUME NEW events \in Seq(AnEvent), NEW e \in AnEvent, NEW types
    PROVE  Reported(Append(events, e), types) =
             IF e.type \in types THEN Append(Reported(events, types), e.step)
             ELSE Reported(events, types)
  <1>g. PICK grown : grown = Append(events, e)
    OBVIOUS
  <1>n. PICK n : n = Len(events)
    OBVIOUS
  <1>1. /\ grown \in Seq(AnEvent) /\ n \in Nat /\ DOMAIN events = 1 .. n
        /\ Len(grown) = n + 1 /\ DOMAIN grown = 1 .. (n + 1)
        /\ (\A k \in 1 .. n : grown[k] = events[k]) /\ grown[n + 1] = e
    BY <1>g, <1>n
  <1>a. PICK A : A = At(events, types)
    OBVIOUS
  <1>b. PICK B : B = At(grown, types)
    OBVIOUS
  <1>2. B = IF e.type \in types THEN A \cup {n + 1} ELSE A
    <2>1. \A k : k \in 1 .. (n + 1) <=> k \in 1 .. n \/ k = n + 1
      BY <1>1
    <2>. QED  BY <1>1, <1>a, <1>b, <2>1 DEF At
  <1>3. PICK t : /\ t = Fixture!Ascending(A) /\ t \in Seq(A)
                 /\ Reported(events, types) = [i \in 1 .. Len(t) |-> events[t[i]].step]
                 /\ Reported(events, types) \in Seq(Nat)
                 /\ Len(Reported(events, types)) = Len(t)
                 /\ IsFiniteSet(A) /\ \A k \in A : k \in 1 .. n
    BY <1>a, <1>n, ReportedList
  <1>4. PICK u : /\ u = Fixture!Ascending(B)
                 /\ Reported(grown, types) = [i \in 1 .. Len(u) |-> grown[u[i]].step]
                 /\ Reported(grown, types) \in Seq(Nat)
                 /\ Len(Reported(grown, types)) = Len(u)
    BY <1>1, <1>b, ReportedList
  <1>5. Len(t) \in Nat /\ \A i \in 1 .. Len(t) : t[i] \in A /\ t[i] \in 1 .. n
    BY <1>3
  <1>6. \A i \in 1 .. Len(t) : grown[t[i]].step = events[t[i]].step
    BY <1>1, <1>5
  <1>7. CASE e.type \notin types
    <2>1. u = t
      BY <1>2, <1>3, <1>4, <1>7
    <2>2. [i \in 1 .. Len(t) |-> grown[t[i]].step] = [i \in 1 .. Len(t) |-> events[t[i]].step]
      BY <1>6
    <2>3. Reported(grown, types) = Reported(events, types)
      BY <1>3, <1>4, <2>1, <2>2
    <2>. QED  BY <1>7, <1>g, <2>3
  <1>8. CASE e.type \in types
    <2>1. u = Append(t, n + 1)
      <3>1. \A k \in A : k \in Int /\ k < n + 1
        BY <1>1, <1>3
      <3>2. n + 1 \in Int
        BY <1>1
      <3>3. Fixture!Ascending(A \cup {n + 1}) = Append(Fixture!Ascending(A), n + 1)
        BY <1>3, <3>1, <3>2, AscendingGrows
      <3>. QED  BY <1>2, <1>3, <1>4, <1>8, <3>3
    <2>2. Len(u) = Len(t) + 1 /\ (\A i \in 1 .. Len(t) : u[i] = t[i]) /\ u[Len(t) + 1] = n + 1
      BY <1>3, <2>1
    <2>a. PICK a : a = Reported(events, types)
      OBVIOUS
    <2>z. PICK z : z = Reported(grown, types)
      OBVIOUS
    <2>3. /\ a \in Seq(Nat) /\ Len(a) = Len(t) /\ z \in Seq(Nat) /\ Len(z) = Len(t) + 1
          /\ \A i \in 1 .. Len(t) : a[i] = events[t[i]].step
      BY <1>3, <1>4, <2>2, <2>a, <2>z
    <2>4. \A i \in 1 .. Len(t) : z[i] = a[i]
      <3>1. \A i \in 1 .. Len(t) : i \in 1 .. Len(u)
        BY <1>5, <2>2
      <3>2. \A i \in 1 .. Len(t) : z[i] = grown[t[i]].step
        BY <1>4, <2>2, <2>z, <3>1
      <3>. QED  BY <1>6, <2>3, <3>2
    <2>5. z[Len(t) + 1] = e.step
      <3>1. Len(t) + 1 \in 1 .. Len(u)
        BY <1>5, <2>2
      <3>. QED  BY <1>1, <1>4, <2>2, <2>z, <3>1
    <2>6. e.step \in Nat
      BY DEF AnEvent
    <2>7. z = Append(a, e.step)
      BY <1>5, <2>3, <2>4, <2>5, <2>6
    <2>. QED  BY <1>8, <1>g, <2>7, <2>a, <2>z
  <1>. QED  BY <1>7, <1>8

\* What FlattenSeq computes, list after list.
LEMMA FlattenSteps ==
    ASSUME NEW X, NEW ss \in Seq(Seq(X)), ss # <<>>
    PROVE  \E f \in [1 .. Len(ss) -> Seq(X)] :
             /\ Fixture!FlattenSeq(ss) = f[Len(ss)]
             /\ f[1] = ss[1]
             /\ \A i \in 2 .. Len(ss) : f[i] = f[i - 1] \o ss[i]
  <1>n. PICK n : n = Len(ss)
    OBVIOUS
  <1>0. n \in Nat \ {0} /\ DOMAIN ss = 1 .. n /\ \A i \in 1 .. n : ss[i] \in Seq(X)
    BY <1>n, EmptySeq
  <1>. DEFINE Flatten(f, m) == f = [i \in 1 .. m |-> IF i = 1 THEN ss[i] ELSE f[i - 1] \o ss[i]]
  <1>g. PICK good : good = {m \in 0 .. n : \E f : Flatten(f, m)}
    OBVIOUS
  <1>1. 0 \in good
    <2>1. PICK f : f = [i \in 1 .. 0 |-> ss[i]]
      OBVIOUS
    <2>2. f = [i \in 1 .. 0 |-> IF i = 1 THEN ss[i] ELSE f[i - 1] \o ss[i]]
      BY <2>1
    <2>3. Flatten(f, 0)
      BY <2>2
    <2>. HIDE DEF Flatten
    <2>. QED  BY <1>0, <1>g, <2>3
  <1>2. ASSUME NEW m \in 0 .. (n - 1), m \in good PROVE m + 1 \in good
    <2>1. PICK f : Flatten(f, m)
      BY <1>2, <1>g
    <2>2. DOMAIN f = 1 .. m /\ \A i \in 1 .. m : f[i] = IF i = 1 THEN ss[i] ELSE f[i - 1] \o ss[i]
      BY <2>1
    <2>3. PICK g : g = [i \in 1 .. (m + 1) |-> IF i <= m THEN f[i] ELSE IF i = 1 THEN ss[i] ELSE f[m] \o ss[i]]
      OBVIOUS
    <2>4. ASSUME NEW i \in 1 .. (m + 1) PROVE g[i] = IF i = 1 THEN ss[i] ELSE g[i - 1] \o ss[i]
      <3>1. CASE i <= m
        <4>1. i \in 1 .. m /\ g[i] = f[i]
          BY <2>3, <3>1, <1>0
        <4>2. i # 1 => i - 1 \in 1 .. (m + 1) /\ i - 1 <= m
          BY <1>0, <3>1
        <4>3. i # 1 => g[i - 1] = f[i - 1]
          BY <2>3, <4>2
        <4>. QED  BY <2>2, <4>1, <4>3
      <3>2. CASE i = m + 1
        <4>1. i # 1 => m \in 1 .. (m + 1) /\ i - 1 = m /\ g[m] = f[m]
          BY <1>0, <2>3, <3>2
        <4>2. g[i] = IF i = 1 THEN ss[i] ELSE f[m] \o ss[i]
          BY <1>0, <2>3, <3>2
        <4>. QED  BY <4>1, <4>2
      <3>. QED  BY <1>0, <3>1, <3>2
    <2>5. g = [i \in 1 .. (m + 1) |-> g[i]]
      BY <2>3
    <2>6. Flatten(g, m + 1)
      BY <2>4, <2>5
    <2>. HIDE DEF Flatten
    <2>. QED  BY <1>0, <1>g, <2>6
  <1>3. \E f : Flatten(f, n)
    <2>1. \A i \in 0 .. n : i \in good
      <3>. HIDE DEF Flatten
      <3>. QED  BY <1>0, <1>1, <1>2, UpTheNumbers
    <2>. HIDE DEF Flatten
    <2>. QED  BY <1>0, <1>g, <2>1
  <1>4. PICK f : f = (CHOOSE flatten : Flatten(flatten, n))
    OBVIOUS
  <1>5. Flatten(f, n)
    <2>. HIDE DEF Flatten
    <2>. QED  BY <1>3, <1>4
  <1>6. Fixture!FlattenSeq(ss) = f[n]
    BY <1>0, <1>4, <1>n DEF Fixture!FlattenSeq
  <1>f. f = [i \in 1 .. n |-> f[i]]
    BY <1>5
  <1>7. \A i \in 1 .. n : f[i] = IF i = 1 THEN ss[i] ELSE f[i - 1] \o ss[i]
    BY <1>5
  <1>8. f[1] = ss[1] /\ \A i \in 2 .. n : f[i] = f[i - 1] \o ss[i]
    <2>1. 1 \in 1 .. n /\ \A i \in 2 .. n : i \in 1 .. n /\ i # 1
      BY <1>0
    <2>. QED  BY <1>7, <2>1
  <1>9. \A i \in 1 .. n : f[i] \in Seq(X)
    <2>g. PICK typed : typed = {0} \cup {i \in 1 .. n : f[i] \in Seq(X)}
      OBVIOUS
    <2>1. ASSUME NEW i \in 0 .. (n - 1), i \in typed PROVE i + 1 \in typed
      <3>1. CASE i = 0
        BY <1>0, <1>8, <2>g, <3>1
      <3>2. CASE i # 0
        <4>1. i \in 1 .. n /\ i + 1 \in 2 .. n /\ f[i] \in Seq(X) /\ ss[i + 1] \in Seq(X)
          BY <1>0, <2>1, <2>g, <3>2
        <4>2. (i + 1) - 1 = i
          BY <1>0
        <4>3. f[i + 1] = f[i] \o ss[i + 1]
          BY <1>8, <4>1, <4>2
        <4>4. f[i + 1] \in Seq(X) /\ i + 1 \in 1 .. n
          BY <1>0, <4>1, <4>3, ConcatProperties
        <4>. QED  BY <2>g, <4>4
      <3>. QED  BY <3>1, <3>2
    <2>2. \A i \in 0 .. n : i \in typed
      <3>1. 0 \in typed
        BY <2>g
      <3>. QED  BY <1>0, <2>1, <3>1, UpTheNumbers
    <2>. QED  BY <1>0, <2>2, <2>g
  <1>. QED  BY <1>6, <1>f, <1>8, <1>9, <1>n

\* Nothing reported of no events.
LEMMA ReportedNone ==
    ASSUME NEW types
    PROVE  Reported(<<>>, types) = <<>> /\ Fixture!Ascending({}) = <<>>
  <1>1. <<>> \in Seq(AnEvent)
    OBVIOUS
  <1>2. At(<<>>, types) = {}
    BY DEF At
  <1>3. PICK t : /\ t \in Seq({})
                 /\ Reported(<<>>, types) \in Seq(Nat) /\ Len(Reported(<<>>, types)) = Len(t)
    BY <1>1, <1>2, ReportedList
  <1>4. Len(t) = 0
    BY <1>3
  <1>5. IsFiniteSet({}) /\ \A i \in {} : i \in Int
    BY FS_EmptySet
  <1>6. Fixture!Ascending({}) \in Seq({})
    BY <1>5, AscendingLists
  <1>7. Len(Fixture!Ascending({})) = 0
    BY <1>6
  <1>. QED  BY <1>3, <1>4, <1>6, <1>7

Requested == {"ux.analysis.requested"}

LEMMA EventsAssociate == \A a, b, c \in Seq(AnEvent) : (a \o b) \o c = a \o (b \o c)
  <1>1. ASSUME NEW a \in Seq(AnEvent), NEW b \in Seq(AnEvent), NEW c \in Seq(AnEvent)
        PROVE  (a \o b) \o c = a \o (b \o c)
    BY ONLY <1>1, ConcatAssociative
  <1>. QED  BY ONLY <1>1

\* The walk over the tasks pushes a request for each step with a screenshot,
\* in their order, and no outcome.
LEMMA WalkReports ==
    ASSUME NEW steps \in Seq({"good", "none", "unusable"})
    PROVE  /\ Fixture!StepEvents(steps) \in Seq(AnEvent)
           /\ Reported(Fixture!StepEvents(steps), Requested) = Fixture!Shots(steps)
           /\ Reported(Fixture!StepEvents(steps), Fixture!Outcomes) = <<>>
  <1>n. PICK n : n = Len(steps)
    OBVIOUS
  <1>0. n \in Nat /\ DOMAIN steps = 1 .. n
    BY <1>n
  <1>e. PICK start, walked, requested :
             /\ start = Fixture!Event("journey.started", 0)
             /\ walked = [i \in 1 .. n |-> Fixture!Event("behavior.state.changed", i)]
             /\ requested = [i \in 1 .. n |-> Fixture!Event("ux.analysis.requested", i)]
    OBVIOUS
  <1>1. /\ start \in AnEvent /\ start.type = "journey.started"
        /\ \A i \in 1 .. n : walked[i] \in AnEvent /\ walked[i].type = "behavior.state.changed"
        /\ \A i \in 1 .. n : requested[i] \in AnEvent /\ requested[i].type = "ux.analysis.requested"
                             /\ requested[i].step = i
    <2>1. start \in AnEvent /\ start.type = "journey.started"
      BY <1>e DEF Fixture!Event, AnEvent, EventType
    <2>2. ASSUME NEW i \in 1 .. n
          PROVE  /\ walked[i] \in AnEvent /\ walked[i].type = "behavior.state.changed"
                 /\ requested[i] \in AnEvent /\ requested[i].type = "ux.analysis.requested"
                 /\ requested[i].step = i
      <3>1. i \in Nat
        BY <1>0
      <3>2. /\ walked[i] = [type |-> "behavior.state.changed", step |-> i]
            /\ requested[i] = [type |-> "ux.analysis.requested", step |-> i]
        BY <1>e DEF Fixture!Event
      <3>. QED  BY <3>1, <3>2 DEF AnEvent, EventType
    <2>. QED  BY <2>1, <2>2
  <1>s. PICK ss : ss = [i \in 1 .. n |-> <<walked[i]>> \o (IF steps[i] = "none" THEN <<>> ELSE <<requested[i]>>)]
    OBVIOUS
  <1>2. ASSUME NEW i \in 1 .. n
        PROVE  /\ ss[i] \in Seq(AnEvent)
               /\ \A p \in Seq(AnEvent) :
                    p \o ss[i] = IF steps[i] = "none" THEN Append(p, walked[i])
                                 ELSE Append(Append(p, walked[i]), requested[i])
    <2>1. PICK w, q : w = <<walked[i]>> /\ q = <<requested[i]>>
      OBVIOUS
    <2>2. w \in Seq(AnEvent) /\ q \in Seq(AnEvent) /\ walked[i] \in AnEvent /\ requested[i] \in AnEvent
      BY <1>1, <2>1
    <2>3. ss[i] = IF steps[i] = "none" THEN w ELSE w \o q
      BY <1>s, <2>1, <2>2, ConcatEmptySeq
    <2>4. ss[i] \in Seq(AnEvent)
      BY <2>2, <2>3, ConcatProperties
    <2>5. ASSUME NEW p \in Seq(AnEvent)
          PROVE  p \o ss[i] = IF steps[i] = "none" THEN Append(p, walked[i])
                               ELSE Append(Append(p, walked[i]), requested[i])
      <3>1. Append(p, walked[i]) = p \o w /\ p \o w \in Seq(AnEvent)
        BY <2>1, <2>2, AppendIsConcat, ConcatProperties
      <3>2. Append(p \o w, requested[i]) = (p \o w) \o q
        BY <2>1, <2>2, <3>1, AppendIsConcat
      <3>3. (p \o w) \o q = p \o (w \o q)
        BY ONLY <2>2, <2>5, EventsAssociate
      <3>. QED  BY <2>3, <3>1, <3>2, <3>3
    <2>. QED  BY <2>4, <2>5
  <1>3. ss \in Seq(Seq(AnEvent)) /\ Len(ss) = n
    <2>1. \A i \in 1 .. n : ss[i] \in Seq(AnEvent)
      BY <1>2
    <2>2. ss = [i \in 1 .. n |-> ss[i]]
      BY <1>s
    <2>. QED  BY <1>0, <2>1, <2>2
  <1>4. Fixture!StepEvents(steps) = <<start>> \o Fixture!FlattenSeq(ss)
    <2>1. ss = [i \in DOMAIN steps |-> <<Fixture!Event("behavior.state.changed", i)>>
                   \o (IF steps[i] = "none" THEN <<>> ELSE <<Fixture!Event("ux.analysis.requested", i)>>)]
      BY <1>0, <1>e, <1>s
    <2>. QED  BY <1>e, <2>1 DEF Fixture!StepEvents
  <1>5. PICK P : /\ P = [i \in 0 .. n |-> P[i]]
                 /\ P[0] = <<start>> /\ P[n] = Fixture!StepEvents(steps)
                 /\ \A i \in 1 .. n : P[i - 1] \in Seq(AnEvent) => P[i] = P[i - 1] \o ss[i]
    <2>1. CASE n = 0
      <3>1. ss = <<>>
        BY <1>3, <2>1
      <3>2. Fixture!FlattenSeq(ss) = <<>>
        BY <3>1 DEF Fixture!FlattenSeq
      <3>3. Fixture!StepEvents(steps) = <<start>>
        BY <1>4, <3>2
      <3>p. PICK P : P = [i \in 0 .. n |-> <<start>>]
        OBVIOUS
      <3>4. P = [i \in 0 .. n |-> P[i]] /\ P[0] = <<start>> /\ P[n] = <<start>>
        BY <2>1, <3>p
      <3>. QED  BY <2>1, <3>3, <3>4
    <2>2. CASE n # 0
      <3>1. ss # <<>>
        BY <1>3, <2>2
      <3>2. PICK f \in [1 .. n -> Seq(AnEvent)] :
               /\ Fixture!FlattenSeq(ss) = f[n] /\ f[1] = ss[1]
               /\ \A i \in 2 .. n : f[i] = f[i - 1] \o ss[i]
        BY <1>3, <3>1, FlattenSteps
      <3>p. PICK P : P = [i \in 0 .. n |-> IF i = 0 THEN <<start>> ELSE <<start>> \o f[i]]
        OBVIOUS
      <3>3. P = [i \in 0 .. n |-> P[i]] /\ P[0] = <<start>>
        BY <1>0, <3>p
      <3>4. P[n] = Fixture!StepEvents(steps)
        BY <1>0, <1>4, <2>2, <3>2, <3>p
      <3>5. ASSUME NEW i \in 1 .. n PROVE P[i] = P[i - 1] \o ss[i]
        <4>1. P[i] = <<start>> \o f[i]
          BY <1>0, <3>p
        <4>2. CASE i = 1
          <5>1. i - 1 = 0
            BY <4>2
          <5>. QED  BY <3>2, <3>3, <4>1, <4>2, <5>1
        <4>3. CASE i # 1
          <5>1. i \in 2 .. n /\ i - 1 \in 1 .. n
            BY <1>0, <4>3
          <5>2. P[i - 1] = <<start>> \o f[i - 1]
            BY <3>p, <5>1
          <5>3. f[i] = f[i - 1] \o ss[i]
            BY <3>2, <5>1
          <5>s. PICK st, u, v : st = <<start>> /\ u = f[i - 1] /\ v = ss[i]
            OBVIOUS
          <5>4. st \in Seq(AnEvent) /\ u \in Seq(AnEvent) /\ v \in Seq(AnEvent)
            <6>1. st \in Seq(AnEvent)
              BY <1>1, <5>s
            <6>2. u \in Seq(AnEvent)
              BY <3>2, <5>1, <5>s
            <6>3. v \in Seq(AnEvent)
              BY <1>2, <5>s
            <6>. QED  BY <6>1, <6>2, <6>3
          <5>6. (st \o u) \o v = st \o (u \o v)
            BY <5>4, ConcatAssociative
          <5>5. (<<start>> \o f[i - 1]) \o ss[i] = <<start>> \o (f[i - 1] \o ss[i])
            BY <5>6, <5>s
          <5>. QED  BY <4>1, <5>2, <5>3, <5>5
        <4>. QED  BY <4>2, <4>3
      <3>. QED  BY <3>3, <3>4, <3>5
    <2>. QED  BY <2>1, <2>2
  <1>. DEFINE Shot(i) == {k \in 1 .. i : steps[k] # "none"}
              Fine(i) == /\ P[i] \in Seq(AnEvent)
                         /\ Reported(P[i], Requested) = Fixture!Ascending(Shot(i))
                         /\ Reported(P[i], Fixture!Outcomes) = <<>>
  <1>g. PICK good : good = {i \in 0 .. n : Fine(i)}
    OBVIOUS
  <1>6. 0 \in good
    <2>1. <<start>> = Append(<<>>, start) /\ <<>> \in Seq(AnEvent) /\ <<start>> \in Seq(AnEvent)
      BY <1>1
    <2>5. ASSUME NEW types, start.type \notin types PROVE Reported(<<start>>, types) = <<>>
      <3>n. PICK none : none = <<>>
        OBVIOUS
      <3>2. none \in Seq(AnEvent) /\ start \in AnEvent
        BY <1>1, <2>1, <3>n
      <3>3. Reported(Append(none, start), types) = Reported(none, types)
        BY <2>5, <3>2, ReportedGrows
      <3>1. Reported(Append(<<>>, start), types) = Reported(<<>>, types)
        BY <3>3, <3>n
      <3>. QED  BY <2>1, <3>1, ReportedNone
    <2>2. start.type \notin Requested /\ start.type \notin Fixture!Outcomes
      BY <1>1 DEF Requested, Fixture!Outcomes
    <2>3. Reported(P[0], Requested) = <<>> /\ Reported(P[0], Fixture!Outcomes) = <<>>
      BY <1>5, <2>2, <2>5
    <2>4. Fixture!Ascending(Shot(0)) = <<>>
      <3>1. Shot(0) = {}
        OBVIOUS
      <3>. QED  BY <3>1, ReportedNone
    <2>6. Fine(0)
      <3>. HIDE DEF Shot
      <3>. QED  BY <1>5, <2>1, <2>3, <2>4
    <2>. QED  BY <1>0, <1>g, <2>6
  <1>7. ASSUME NEW i \in 0 .. (n - 1), i \in good PROVE i + 1 \in good
    <2>m. PICK m : m = i + 1
      OBVIOUS
    <2>1. m \in 1 .. n /\ m - 1 = i /\ m \in 0 .. n /\ m \in Nat
      BY <1>0, <2>m
    <2>2. Fine(i)
      BY <1>7, <1>g
    <2>3. P[m] = P[i] \o ss[m] /\ P[i] \in Seq(AnEvent)
      BY <1>5, <2>1, <2>2
    <2>4. P[m] = IF steps[m] = "none" THEN Append(P[i], walked[m])
                 ELSE Append(Append(P[i], walked[m]), requested[m])
      BY <1>2, <2>1, <2>3
    <2>a. PICK Q : Q = Append(P[i], walked[m])
      OBVIOUS
    <2>5. Q \in Seq(AnEvent) /\ \A types : walked[m].type \notin types => Reported(Q, types) = Reported(P[i], types)
      BY <1>1, <2>1, <2>3, <2>a, ReportedGrows
    <2>6. /\ walked[m].type \notin Requested /\ walked[m].type \notin Fixture!Outcomes
          /\ requested[m].type \in Requested /\ requested[m].type \notin Fixture!Outcomes
      BY <1>1, <2>1 DEF Requested, Fixture!Outcomes
    <2>7. Reported(Q, Requested) = Fixture!Ascending(Shot(i)) /\ Reported(Q, Fixture!Outcomes) = <<>>
      BY <2>2, <2>5, <2>6
    <2>8. CASE steps[m] = "none"
      <3>1. Shot(m) = Shot(i)
        BY <2>1, <2>8
      <3>2. P[m] = Q
        BY <2>4, <2>8, <2>a
      <3>3. Fine(m)
        <4>. HIDE DEF Shot
        <4>. QED  BY <2>5, <2>7, <3>1, <3>2
      <3>. QED  BY <1>g, <2>1, <2>m, <3>3
    <2>9. CASE steps[m] # "none"
      <3>1. Shot(m) = Shot(i) \cup {m}
        BY <2>1, <2>9
      <3>2. P[m] = Append(Q, requested[m]) /\ P[m] \in Seq(AnEvent)
        BY <1>1, <2>1, <2>4, <2>5, <2>9, <2>a
      <3>3. Fixture!Ascending(Shot(i) \cup {m}) = Append(Fixture!Ascending(Shot(i)), m)
        <4>1. \A k \in Shot(i) : k \in Int /\ k < m
          BY <2>1
        <4>2. IsFiniteSet(Shot(i))
          <5>1. IsFiniteSet(1 .. i) /\ Shot(i) \subseteq 1 .. i
            BY FS_Interval
          <5>. QED  BY <5>1, FS_Subset
        <4>. HIDE DEF Shot
        <4>. QED  BY <2>1, <4>1, <4>2, AscendingGrows, SMTT(30)
      <3>4. Reported(P[m], Requested) = Append(Reported(Q, Requested), m)
        BY <1>1, <2>1, <2>5, <2>6, <3>2, ReportedGrows, SMTT(30)
      <3>5. Reported(P[m], Fixture!Outcomes) = Reported(Q, Fixture!Outcomes)
        BY <1>1, <2>1, <2>5, <2>6, <3>2, ReportedGrows
      <3>6. Fine(m)
        <4>. HIDE DEF Shot
        <4>. QED  BY <2>7, <3>1, <3>2, <3>3, <3>4, <3>5
      <3>. QED  BY <1>g, <2>1, <2>m, <3>6
    <2>. QED  BY <2>8, <2>9
  <1>8. Fine(n)
    <2>1. \A i \in 0 .. n : i \in good
      <3>. HIDE DEF Fine
      <3>. QED  BY <1>0, <1>6, <1>7, UpTheNumbers
    <2>2. n \in good
      BY <1>0, <2>1
    <2>. HIDE DEF Fine
    <2>. QED  BY <1>g, <2>2
  <1>9. Fixture!Shots(steps) = Fixture!Ascending(Shot(n))
    BY <1>0 DEF Fixture!Shots
  <1>. HIDE DEF Shot
  <1>. QED  BY <1>5, <1>8, <1>9

-----------------------------------------------------------------------------
(* The evidence of a run and its outcomes.                                 *)

Job(r, n) == Fixture!Job(r, n)
Outcomes == Fixture!Outcomes

RunFields == {"pc", "evidence", "requested", "heard", "events"}
AnEvidence == [step : Nat, of : Nat, status : {"pending", "completed", "failed"}]

\* What a run that was not refused has asked for,
AskedFor(run) ==
    /\ run.requested \in Seq(Nat) /\ IsInjective(run.requested)
    /\ run.heard \in 0 .. Len(run.requested)
    /\ ToSet(run.requested) \subseteq DOMAIN run.evidence

\* what it has pushed: its requests, and the outcomes of those it has heard, in
\* their order,
Pushed(run, wired) ==
    /\ run.events \in Seq(AnEvent)
    /\ Reported(run.events, Requested) = run.requested
    /\ Reported(run.events, Outcomes) =
         IF wired THEN SubSeq(run.requested, 1, run.heard) ELSE <<>>
    /\ run.pc = "completed" =>
         /\ run.heard = Len(run.requested)
         /\ run.events # <<>> /\ run.events[Len(run.events)].type = "journey.completed"

\* its evidence, each of the step it was taken at,
Own(run) ==
    \A n \in DOMAIN run.evidence :
      IF n \in ToSet(run.requested)
      THEN run.evidence[n] \in AnEvidence /\ run.evidence[n].step = n /\ run.evidence[n].of = n
      ELSE run.evidence[n] = Nothing

\* and that what it has heard are the answers to its own requests.
Heard(run, r, heard, wired) ==
    /\ \A n \in ToSet(run.requested) : Job(r, n) \in DOMAIN heard
    /\ \A k \in 1 .. run.heard :
         LET n == run.requested[k]
         IN  /\ heard[Job(r, n)] # Nothing
             /\ run.evidence[n].status = heard[Job(r, n)]
             /\ wired => Fixture!Event(heard[Job(r, n)], n) \in ToSet(run.events)

Whole(run, r, heard, wired) ==
    AskedFor(run) /\ Pushed(run, wired) /\ Own(run) /\ Heard(run, r, heard, wired)

\* An answer is there from the start where no eyeson worker is asked; where one
\* is, an analysis that is said to be complete has ended well.
AnswerInv ==
    \A job \in DOMAIN answers :
      IF configured
      THEN answers[job] # "pending" /\ (answers[job] = "completed" => calls[job] = "ok")
      ELSE answers[job] = "pending"

WholeInv ==
    \A r \in Runs :
      /\ DOMAIN runs[r] = RunFields
      /\ runs[r].pc \in {"awaiting", "completed"} => Whole(runs[r], r, answers, configured)

EvidenceInv == configured \in BOOLEAN /\ AnswerInv /\ WholeInv

\* What was heard does not change.
LEMMA HeardKept ==
    ASSUME NEW run, NEW r, NEW heard, NEW heard2, NEW wired, Whole(run, r, heard, wired),
           \A n : Job(r, n) \in DOMAIN heard =>
              /\ Job(r, n) \in DOMAIN heard2
              /\ heard[Job(r, n)] # Nothing => heard2[Job(r, n)] = heard[Job(r, n)]
    PROVE  Whole(run, r, heard2, wired)
  <1>1. Heard(run, r, heard, wired) /\ AskedFor(run)
    BY DEF Whole
  <1>2. \A k \in 1 .. run.heard : run.requested[k] \in ToSet(run.requested)
    BY <1>1 DEF AskedFor, ToSet
  <1>3. Heard(run, r, heard2, wired)
    BY <1>1, <1>2 DEF Heard
  <1>. QED  BY <1>3 DEF Whole

\* The start of a run: everything asked for, nothing heard.
LEMMA WholeStart ==
    ASSUME NEW steps \in Seq({"good", "none", "unusable"}), NEW r, NEW heard, NEW wired,
           NEW run,
           run.pc = "awaiting", run.requested = Fixture!Shots(steps), run.heard = 0,
           run.events = Fixture!StepEvents(steps),
           run.evidence = [n \in DOMAIN steps |-> IF steps[n] = "none" THEN Nothing
                                                ELSE [step |-> n, of |-> n, status |-> "pending"]],
           \A n \in ToSet(run.requested) : Job(r, n) \in DOMAIN heard
    PROVE  Whole(run, r, heard, wired)
  <1>S. PICK S : S = {n \in DOMAIN steps : steps[n] # "none"}
    OBVIOUS
  <1>q. PICK q : q = Fixture!Shots(steps)
    OBVIOUS
  <1>0. Len(steps) \in Nat /\ DOMAIN steps = 1 .. Len(steps)
    OBVIOUS
  <1>1. S \subseteq 1 .. Len(steps) /\ IsFiniteSet(S) /\ \A n \in S : n \in Int /\ n \in Nat
    <2>1. S \subseteq 1 .. Len(steps) /\ \A n \in 1 .. Len(steps) : n \in Int /\ n \in Nat
      BY <1>0, <1>S
    <2>2. IsFiniteSet(1 .. Len(steps))
      BY <1>0, FS_Interval
    <2>3. IsFiniteSet(S)
      BY <2>1, <2>2, FS_Subset
    <2>. QED  BY <2>1, <2>3
  <1>2. q = Fixture!Ascending(S)
    BY <1>q, <1>S DEF Fixture!Shots
  <1>3. q \in Seq(S) /\ IsInjective(q) /\ ToSet(q) = S
    BY <1>1, <1>2, AscendingLists
  <1>4. q \in Seq(Nat) /\ Len(q) \in Nat
    BY <1>1, <1>3, SeqMonotonic
  <1>5. AskedFor(run)
    <2>1. DOMAIN run.evidence = DOMAIN steps /\ S \subseteq DOMAIN steps
      BY <1>S
    <2>. QED  BY <1>3, <1>4, <1>q, <2>1 DEF AskedFor
  <1>6. Pushed(run, wired)
    <2>1. /\ Fixture!StepEvents(steps) \in Seq(AnEvent)
          /\ Reported(Fixture!StepEvents(steps), Requested) = q
          /\ Reported(Fixture!StepEvents(steps), Outcomes) = <<>>
      BY <1>q, WalkReports DEF Outcomes
    <2>2. SubSeq(q, 1, 0) = <<>>
      BY SubSeqEmpty
    <2>. QED  BY <1>q, <2>1, <2>2 DEF Pushed
  <1>7. Own(run)
    <2>1. ASSUME NEW n \in DOMAIN steps
          PROVE  IF n \in S THEN run.evidence[n] \in AnEvidence /\ run.evidence[n].step = n
                                 /\ run.evidence[n].of = n
                 ELSE run.evidence[n] = Nothing
      <3>1. CASE n \in S
        <4>1. run.evidence[n] = [step |-> n, of |-> n, status |-> "pending"] /\ n \in Nat
          BY <1>1, <1>S, <3>1
        <4>. QED  BY <3>1, <4>1 DEF AnEvidence
      <3>2. CASE n \notin S
        BY <1>S, <3>2
      <3>. QED  BY <3>1, <3>2
    <2>2. DOMAIN run.evidence = DOMAIN steps /\ ToSet(run.requested) = S
      BY <1>3, <1>q
    <2>. QED  BY <2>1, <2>2 DEF Own
  <1>8. Heard(run, r, heard, wired)
    BY DEF Heard
  <1>. QED  BY <1>5, <1>6, <1>7, <1>8 DEF Whole

\* One more of a sequence from its start.
LEMMA SubSeqGrows ==
    ASSUME NEW q \in Seq(Nat), NEW h \in 0 .. (Len(q) - 1)
    PROVE  SubSeq(q, 1, h + 1) = Append(SubSeq(q, 1, h), q[h + 1])
  <1>a. PICK a, b : a = SubSeq(q, 1, h) /\ b = SubSeq(q, 1, h + 1)
    OBVIOUS
  <1>m. PICK m : m = h + 1
    OBVIOUS
  <1>0. Len(q) \in Nat /\ \A i \in 1 .. Len(q) : q[i] \in Nat
    OBVIOUS
  <1>1. h \in Int /\ m \in Int /\ 1 \in Int /\ \A i \in 1 .. m : i \in 1 .. Len(q)
    BY <1>0, <1>m
  <1>2. (\A i \in 1 .. h : q[i] \in Nat) /\ (\A i \in 1 .. m : q[i] \in Nat)
    BY <1>0, <1>1, <1>m
  <1>3. /\ a \in Seq(Nat) /\ Len(a) = IF 1 <= h THEN h - 1 + 1 ELSE 0
        /\ \A i \in 1 .. h - 1 + 1 : a[i] = q[1 + i - 1]
    BY ONLY <1>a, <1>1, <1>2, SubSeqProperties
  <1>4. /\ b \in Seq(Nat) /\ Len(b) = IF 1 <= m THEN m - 1 + 1 ELSE 0
        /\ \A i \in 1 .. m - 1 + 1 : b[i] = q[1 + i - 1]
    BY ONLY <1>a, <1>m, <1>1, <1>2, SubSeqProperties
  <1>5. Len(a) = h /\ \A i \in 1 .. h : a[i] = q[i]
    BY <1>1, <1>3
  <1>6. Len(b) = m /\ \A i \in 1 .. m : b[i] = q[i]
    BY <1>0, <1>1, <1>4, <1>m
  <1>7. b = Append(a, q[m])
    BY <1>0, <1>1, <1>2, <1>3, <1>4, <1>5, <1>6, <1>m, SMTT(30)
  <1>. QED  BY <1>7, <1>a, <1>m

\* How Collect changes the record of a run.
Collected(run, next, n, outcome) ==
    /\ run.pc = "awaiting" /\ run.heard < Len(run.requested)
    /\ n = run.requested[run.heard + 1]
    /\ next.pc = "awaiting" /\ next.requested = run.requested
    /\ next.heard = run.heard + 1
    /\ next.events = IF outcome = "pending" THEN run.events
                     ELSE Append(run.events, Fixture!Event(outcome, n))
    /\ DOMAIN next.evidence = DOMAIN run.evidence
    /\ \A m \in DOMAIN run.evidence : m # n => next.evidence[m] = run.evidence[m]
    /\ next.evidence[n] = [[run.evidence[n] EXCEPT !.status = outcome] EXCEPT !.of = n]

\* The next answer is heard.
LEMMA WholeCollect ==
    ASSUME NEW r, NEW heard, NEW wired \in BOOLEAN, NEW run, Whole(run, r, heard, wired),
           NEW next, NEW n, NEW outcome \in {"pending", "completed", "failed"},
           outcome = heard[Job(r, n)], outcome # Nothing, outcome = "pending" <=> ~wired,
           Collected(run, next, n, outcome)
    PROVE  Whole(next, r, heard, wired)
  <1>c. /\ run.pc = "awaiting" /\ run.heard < Len(run.requested)
        /\ n = run.requested[run.heard + 1]
        /\ next.pc = "awaiting" /\ next.requested = run.requested
        /\ next.heard = run.heard + 1
        /\ next.events = IF outcome = "pending" THEN run.events
                         ELSE Append(run.events, Fixture!Event(outcome, n))
        /\ DOMAIN next.evidence = DOMAIN run.evidence
        /\ \A m \in DOMAIN run.evidence : m # n => next.evidence[m] = run.evidence[m]
        /\ next.evidence[n] = [[run.evidence[n] EXCEPT !.status = outcome] EXCEPT !.of = n]
    BY DEF Collected
  <1>q. PICK q, h : q = run.requested /\ h = run.heard
    OBVIOUS
  <1>e. PICK e : e = Fixture!Event(outcome, n)
    OBVIOUS
  <1>0. AskedFor(run) /\ Pushed(run, wired) /\ Own(run) /\ Heard(run, r, heard, wired)
    BY DEF Whole
  <1>1. /\ q \in Seq(Nat) /\ IsInjective(q) /\ h \in 0 .. Len(q) /\ Len(q) \in Nat
        /\ DOMAIN q = 1 .. Len(q) /\ h + 1 \in 1 .. Len(q) /\ h < Len(q)
        /\ ToSet(q) \subseteq DOMAIN run.evidence
    BY <1>c, <1>0, <1>q DEF AskedFor
  <1>2. n = q[h + 1] /\ n \in Nat /\ n \in ToSet(q) /\ n \in DOMAIN run.evidence
    BY <1>c, <1>1, <1>q DEF ToSet
  <1>3. AskedFor(next)
    BY <1>c, <1>1, <1>q DEF AskedFor
  <1>4. e.type = outcome /\ e.step = n /\ (outcome # "pending" => e \in AnEvent)
    <2>1. e = [type |-> outcome, step |-> n]
      BY <1>c, <1>e DEF Fixture!Event
    <2>2. outcome \in EventType \/ outcome = "pending"
      BY DEF EventType
    <2>. QED  BY <1>c, <1>2, <2>1, <2>2 DEF AnEvent
  <1>5. Pushed(next, wired)
    <2>0. /\ run.events \in Seq(AnEvent)
          /\ Reported(run.events, Requested) = q
          /\ Reported(run.events, Outcomes) = IF wired THEN SubSeq(q, 1, h) ELSE <<>>
      BY <1>c, <1>0, <1>q DEF Pushed
    <2>1. CASE outcome = "pending"
      <3>1. next.events = run.events /\ ~wired
        BY <1>c, <2>1
      <3>. QED  BY <1>c, <1>q, <2>0, <3>1 DEF Pushed
    <2>2. CASE outcome # "pending"
      <3>1. next.events = Append(run.events, e) /\ wired /\ e \in AnEvent
        BY <1>c, <1>4, <1>e, <2>2
      <3>2. e.type \notin Requested /\ e.type \in Outcomes
        BY <1>c, <1>4, <2>2 DEF Requested, Outcomes, Fixture!Outcomes
      <3>3. /\ Reported(next.events, Requested) = q
            /\ Reported(next.events, Outcomes) = Append(Reported(run.events, Outcomes), n)
            /\ next.events \in Seq(AnEvent)
        <4>1. /\ Reported(Append(run.events, e), Requested) = Reported(run.events, Requested)
              /\ Reported(Append(run.events, e), Outcomes) = Append(Reported(run.events, Outcomes), e.step)
          BY <1>c, <2>0, <3>1, <3>2, ReportedGrows
        <4>2. Append(run.events, e) \in Seq(AnEvent)
          BY <1>c, <2>0, <3>1, AppendProperties
        <4>. QED  BY <1>c, <1>4, <2>0, <3>1, <4>1, <4>2
      <3>4. SubSeq(q, 1, h + 1) = Append(SubSeq(q, 1, h), n)
        <4>1. h \in 0 .. (Len(q) - 1)
          BY <1>c, <1>1
        <4>. QED  BY <1>c, <1>1, <1>2, <4>1, SubSeqGrows
      <3>5. next.requested = q /\ next.heard = h + 1 /\ next.pc # "completed"
        BY <1>c, <1>q
      <3>6. Reported(next.events, Outcomes) = SubSeq(next.requested, 1, next.heard)
        BY <1>c, <2>0, <3>1, <3>3, <3>4, <3>5
      <3>. QED  BY <1>c, <3>1, <3>3, <3>5, <3>6 DEF Pushed
    <2>. QED  BY <1>c, <2>1, <2>2
  <1>6. Own(next)
    <2>1. ASSUME NEW m \in DOMAIN run.evidence
          PROVE  IF m \in ToSet(q)
                 THEN next.evidence[m] \in AnEvidence /\ next.evidence[m].step = m
                      /\ next.evidence[m].of = m
                 ELSE next.evidence[m] = Nothing
      <3>1. CASE m # n
        <4>1. next.evidence[m] = run.evidence[m]
          BY <1>c, <3>1
        <4>. QED  BY <1>c, <1>0, <1>q, <4>1 DEF Own
      <3>2. CASE m = n
        <4>x. PICK x : x = run.evidence[n]
          OBVIOUS
        <4>1. x \in AnEvidence /\ x.step = n /\ x.of = n
          BY <1>c, <1>0, <1>2, <1>q, <4>x DEF Own
        <4>2. next.evidence[n] = [[x EXCEPT !.status = outcome] EXCEPT !.of = n]
          BY <1>c, <4>x
        <4>. QED  BY <1>c, <1>2, <3>2, <4>1, <4>2 DEF AnEvidence
      <3>. QED  BY <1>c, <3>1, <3>2
    <2>. QED  BY <1>c, <1>q, <2>1 DEF Own
  <1>7. Heard(next, r, heard, wired)
    <2>1. ASSUME NEW k \in 1 .. (h + 1)
          PROVE  /\ heard[Job(r, q[k])] # Nothing
                 /\ next.evidence[q[k]].status = heard[Job(r, q[k])]
                 /\ wired => Fixture!Event(heard[Job(r, q[k])], q[k]) \in ToSet(next.events)
      <3>0. k \in 1 .. Len(q) /\ q[k] \in ToSet(q) /\ q[k] \in DOMAIN run.evidence
        BY <1>c, <1>1 DEF ToSet
      <3>1. CASE k = h + 1
        <4>1. q[k] = n
          BY <1>c, <1>2, <3>1
        <4>x. PICK x : x = run.evidence[n]
          OBVIOUS
        <4>2. x \in AnEvidence
          BY <1>c, <1>0, <1>2, <1>q, <4>x DEF Own
        <4>3. next.evidence[n].status = outcome
          BY <1>c, <4>2, <4>x DEF AnEvidence
        <4>4. wired => e \in ToSet(next.events)
          <5>1. CASE wired
            <6>1. next.events = Append(run.events, e) /\ run.events \in Seq(AnEvent)
                  /\ e \in AnEvent
              BY <1>c, <1>0, <1>4, <1>e, <5>1 DEF Pushed
            <6>v. PICK v, w : v = run.events /\ w = next.events
              OBVIOUS
            <6>3. v \in Seq(AnEvent) /\ w = Append(v, e)
              BY <1>c, <6>1, <6>v
            <6>4. Len(w) = Len(v) + 1 /\ w[Len(v) + 1] = e /\ w \in Seq(AnEvent) /\ Len(v) \in Nat
              BY <1>c, <6>1, <6>3, AppendProperties
            <6>2. Len(run.events) + 1 \in DOMAIN next.events
                  /\ next.events[Len(run.events) + 1] = e
              BY <1>c, <6>4, <6>v
            <6>. QED  BY <1>c, <6>2 DEF ToSet
          <5>. QED  BY <1>c, <5>1
        <4>. QED  BY <1>c, <1>e, <4>1, <4>3, <4>4
      <3>2. CASE k # h + 1
        <4>1. k \in 1 .. h /\ q[k] # n
          <5>1. k \in 1 .. h
            BY <1>c, <1>1, <3>2
          <5>2. q[k] = q[h + 1] => k = h + 1
            BY <1>c, <1>1, <3>0 DEF IsInjective
          <5>. QED  BY <1>c, <1>2, <3>2, <5>1, <5>2
        <4>2. /\ heard[Job(r, q[k])] # Nothing
              /\ run.evidence[q[k]].status = heard[Job(r, q[k])]
              /\ wired => Fixture!Event(heard[Job(r, q[k])], q[k]) \in ToSet(run.events)
          BY <1>c, <1>0, <1>q, <4>1 DEF Heard
        <4>3. next.evidence[q[k]] = run.evidence[q[k]]
          BY <1>c, <3>0, <4>1
        <4>4. wired => ToSet(run.events) \subseteq ToSet(next.events)
          <5>1. CASE wired
            <6>1. next.events = Append(run.events, e) /\ run.events \in Seq(AnEvent)
                  /\ e \in AnEvent
              BY <1>c, <1>0, <1>4, <1>e, <5>1 DEF Pushed
            <6>2. /\ DOMAIN run.events \subseteq DOMAIN next.events
                  /\ \A i \in DOMAIN run.events : next.events[i] = run.events[i]
              BY <1>c, <6>1
            <6>. QED  BY <1>c, <6>2 DEF ToSet
          <5>. QED  BY <1>c, <5>1
        <4>. QED  BY <1>c, <4>2, <4>3, <4>4
      <3>. QED  BY <1>c, <3>1, <3>2
    <2>2. next.requested = q /\ next.heard = h + 1
      BY <1>c, <1>q
    <2>3. \A m \in ToSet(q) : Job(r, m) \in DOMAIN heard
      BY <1>0, <1>q DEF Heard
    <2>. QED  BY ONLY <2>1, <2>2, <2>3 DEF Heard
  <1>. QED  BY <1>c, <1>3, <1>5, <1>6, <1>7 DEF Whole

\* The run ends.
LEMMA WholeComplete ==
    ASSUME NEW r, NEW heard, NEW wired \in BOOLEAN, NEW run, Whole(run, r, heard, wired),
           run.pc = "awaiting", run.heard = Len(run.requested),
           NEW next, next.pc = "completed", next.requested = run.requested,
           next.heard = run.heard, next.evidence = run.evidence,
           next.events = Append(run.events, Fixture!Event("journey.completed", 0))
    PROVE  Whole(next, r, heard, wired)
  <1>e. PICK e : e = Fixture!Event("journey.completed", 0)
    OBVIOUS
  <1>0. AskedFor(run) /\ Pushed(run, wired) /\ Own(run) /\ Heard(run, r, heard, wired)
    BY DEF Whole
  <1>1. e \in AnEvent /\ e.type = "journey.completed"
    BY <1>e DEF Fixture!Event, AnEvent, EventType
  <1>2. /\ next.events = Append(run.events, e) /\ run.events \in Seq(AnEvent)
        /\ next.events \in Seq(AnEvent) /\ next.events # <<>>
        /\ next.events[Len(next.events)] = e
        /\ DOMAIN run.events \subseteq DOMAIN next.events
        /\ \A i \in DOMAIN run.events : next.events[i] = run.events[i]
    <2>1. next.events = Append(run.events, e) /\ run.events \in Seq(AnEvent)
      BY <1>0, <1>e DEF Pushed
    <2>v. PICK v, w : v = run.events /\ w = next.events
      OBVIOUS
    <2>2. v \in Seq(AnEvent) /\ w = Append(v, e)
      BY <2>1, <2>v
    <2>3. /\ Len(w) = Len(v) + 1 /\ w[Len(v) + 1] = e /\ w \in Seq(AnEvent) /\ Len(v) \in Nat
          /\ w # <<>> /\ \A i \in 1 .. Len(v) : w[i] = v[i]
      BY <1>1, <2>2, AppendProperties
    <2>. QED  BY <2>1, <2>2, <2>3, <2>v
  <1>3. ToSet(run.events) \subseteq ToSet(next.events)
    BY <1>2 DEF ToSet
  <1>4. /\ Reported(next.events, Requested) = Reported(run.events, Requested)
        /\ Reported(next.events, Outcomes) = Reported(run.events, Outcomes)
    <2>1. e.type \notin Requested /\ e.type \notin Outcomes
      BY <1>1 DEF Requested, Outcomes, Fixture!Outcomes
    <2>. QED  BY <1>1, <1>2, <2>1, ReportedGrows
  <1>5. Pushed(next, wired)
    BY <1>0, <1>1, <1>2, <1>4 DEF Pushed
  <1>6. AskedFor(next) /\ Own(next)
    BY <1>0 DEF AskedFor, Own
  <1>7. Heard(next, r, heard, wired)
    BY <1>0, <1>3 DEF Heard
  <1>. QED  BY <1>5, <1>6, <1>7 DEF Whole

\* A run whose record stays, while the answers it has heard do.
LEMMA RunWhole ==
    ASSUME WholeInv, NEW r \in Runs, runs'[r] = runs[r], UNCHANGED configured,
           \A n : Job(r, n) \in DOMAIN answers =>
              /\ Job(r, n) \in DOMAIN answers'
              /\ answers[Job(r, n)] # Nothing => answers'[Job(r, n)] = answers[Job(r, n)]
    PROVE  /\ DOMAIN runs'[r] = RunFields
           /\ runs'[r].pc \in {"awaiting", "completed"} => Whole(runs'[r], r, answers', configured')
  <1>1. /\ DOMAIN runs[r] = RunFields
        /\ runs[r].pc \in {"awaiting", "completed"} => Whole(runs[r], r, answers, configured)
    BY DEF WholeInv
  <1>2. CASE runs[r].pc \in {"awaiting", "completed"}
    <2>1. Whole(runs[r], r, answers, configured)
      BY <1>1, <1>2
    <2>2. Whole(runs[r], r, answers', configured)
      BY <2>1, HeardKept
    <2>. QED  BY <1>1, <2>2
  <1>3. CASE runs[r].pc \notin {"awaiting", "completed"}
    BY <1>1, <1>3
  <1>. QED  BY <1>2, <1>3

\* What the analyses do leaves the runs and what they have heard.
LEMMA AnswersKept ==
    ASSUME FixtureInv, EvidenceInv, Later, UNCHANGED <<runs, configured, answers>>
    PROVE  EvidenceInv'
  <1>1. AnswerInv'
    <2>1. ASSUME NEW job \in DOMAIN answers, configured PROVE job \in DOMAIN calls
      BY <2>1 DEF FixtureInv, CallInv
    <2>. QED  BY <2>1 DEF EvidenceInv, AnswerInv, Later
  <1>2. WholeInv'
    BY DEF EvidenceInv, WholeInv
  <1>. QED  BY <1>1, <1>2 DEF EvidenceInv

LEMMA RunJourneyAccounts ==
    ASSUME FixtureInv, EvidenceInv, Later, NEW r \in Runs, NEW input \in Inputs,
           Fixture!RunJourney(r, input)
    PROVE  EvidenceInv'
  <1>q. PICK shots : shots = Fixture!Shots(input.steps)
    OBVIOUS
  <1>j. PICK jobs : jobs = {Job(r, n) : n \in {m \in ToSet(shots) :
                              \A k \in 1 .. m : input.steps[k] # "unusable"}}
    OBVIOUS
  <1>0. /\ DOMAIN runs = Runs /\ DOMAIN runs[r] = RunFields /\ configured' = configured
        /\ configured \in BOOLEAN /\ input.steps \in Seq({"good", "none", "unusable"})
        /\ runs[r].pc = "new"
    BY FixtureAssumption DEF FixtureInv, RunInv, EvidenceInv, WholeInv, Fixture!RunJourney
  <1>1. \A x \in Runs \ {r} : runs'[x] = runs[x]
    BY <1>0 DEF Fixture!RunJourney
  <1>2. \/ /\ UNCHANGED <<calls, answers>>
           /\ DOMAIN runs'[r] = RunFields /\ runs'[r].pc = "refused"
        \/ /\ calls' = IF configured THEN Fixture!With(calls, jobs, "sent") ELSE calls
           /\ answers' = Fixture!With(answers, jobs, IF configured THEN Nothing ELSE "pending")
           /\ \/ DOMAIN runs'[r] = RunFields /\ runs'[r].pc = "refused"
              \/ /\ "unusable" \notin ToSet(input.steps)
                 /\ runs'[r] = [pc |-> "awaiting", requested |-> shots, heard |-> 0,
                                events |-> Fixture!StepEvents(input.steps),
                                evidence |-> [n \in DOMAIN input.steps |->
                                   IF input.steps[n] = "none" THEN Nothing
                                   ELSE [step |-> n, of |-> n, status |-> "pending"]]]
    <2>1. CASE ~Fixture!Safe(input)
      BY <1>0, <2>1 DEF Fixture!RunJourney, RunFields
    <2>2. CASE Fixture!Safe(input)
      <3>1. /\ calls' = IF configured THEN Fixture!With(calls, jobs, "sent") ELSE calls
            /\ answers' = Fixture!With(answers, jobs, IF configured THEN Nothing ELSE "pending")
        BY <1>q, <1>j, <2>2, SameOperators DEF Fixture!RunJourney, Job
      <3>2. CASE "unusable" \in ToSet(input.steps)
        <4>1. runs' = [runs EXCEPT ![r] = [runs[r] EXCEPT !.pc = "refused"]]
          BY <2>2, <3>2, SameOperators DEF Fixture!RunJourney
        <4>. QED  BY <1>0, <3>1, <4>1 DEF RunFields
      <3>3. CASE "unusable" \notin ToSet(input.steps)
        <4>1. runs' = [runs EXCEPT ![r] =
                 [pc |-> "awaiting", requested |-> shots, heard |-> 0,
                  events |-> Fixture!StepEvents(input.steps),
                  evidence |-> [n \in DOMAIN input.steps |->
                     IF input.steps[n] = "none" THEN Nothing
                     ELSE [step |-> n, of |-> n, status |-> "pending"]]]]
          BY <1>q, <2>2, <3>3, SameOperators DEF Fixture!RunJourney
        <4>. QED  BY <1>0, <3>1, <3>3, <4>1
      <3>. QED  BY <3>2, <3>3
    <2>. QED  BY <2>1, <2>2
  <1>3. \A job \in jobs : job[1] = r
    BY <1>j DEF Job, Fixture!Job
  <1>4. AnswerInv'
    <2>1. AnswerInv /\ \A job \in DOMAIN answers : configured => job \in DOMAIN calls
      BY DEF EvidenceInv, FixtureInv, CallInv
    <2>2. CASE UNCHANGED <<calls, answers>>
      BY <1>0, <2>1, <2>2 DEF AnswerInv
    <2>3. CASE /\ calls' = IF configured THEN Fixture!With(calls, jobs, "sent") ELSE calls
               /\ answers' = Fixture!With(answers, jobs, IF configured THEN Nothing ELSE "pending")
      <3>1. ASSUME NEW job \in DOMAIN answers', job \in jobs
            PROVE  answers'[job] = IF configured THEN Nothing ELSE "pending"
        BY <2>3, <3>1 DEF Fixture!With
      <3>2. ASSUME NEW job \in DOMAIN answers', job \notin jobs
            PROVE  /\ job \in DOMAIN answers /\ answers'[job] = answers[job]
                   /\ configured => calls'[job] = calls[job]
        BY <2>1, <2>3, <3>2 DEF Fixture!With
      <3>3. Nothing # "pending" /\ Nothing # "completed"
        BY FixtureAssumption
      <3>. QED  BY <1>0, <2>1, <3>1, <3>2, <3>3 DEF AnswerInv
    <2>. QED  BY <1>2, <2>2, <2>3
  <1>5. ASSUME NEW x \in Runs \ {r}
        PROVE  /\ DOMAIN runs'[x] = RunFields
               /\ runs'[x].pc \in {"awaiting", "completed"} =>
                    Whole(runs'[x], x, answers', configured')
    <2>1. \A n : Job(x, n) \notin jobs
      BY <1>3 DEF Job, Fixture!Job
    <2>2. \A n : Job(x, n) \in DOMAIN answers =>
             Job(x, n) \in DOMAIN answers' /\ answers'[Job(x, n)] = answers[Job(x, n)]
      BY <1>2, <2>1 DEF Fixture!With
    <2>. QED  BY <1>0, <1>1, <2>2, RunWhole DEF EvidenceInv
  <1>6. /\ DOMAIN runs'[r] = RunFields
        /\ runs'[r].pc \in {"awaiting", "completed"} => Whole(runs'[r], r, answers', configured')
    <2>1. CASE DOMAIN runs'[r] = RunFields /\ runs'[r].pc = "refused"
      BY <2>1
    <2>2. CASE /\ answers' = Fixture!With(answers, jobs, IF configured THEN Nothing ELSE "pending")
               /\ "unusable" \notin ToSet(input.steps)
               /\ runs'[r] = [pc |-> "awaiting", requested |-> shots, heard |-> 0,
                              events |-> Fixture!StepEvents(input.steps),
                              evidence |-> [n \in DOMAIN input.steps |->
                                 IF input.steps[n] = "none" THEN Nothing
                                 ELSE [step |-> n, of |-> n, status |-> "pending"]]]
      <3>r. PICK run : run = runs'[r]
        OBVIOUS
      <3>1. /\ DOMAIN run = RunFields /\ run.pc = "awaiting" /\ run.requested = shots
            /\ run.heard = 0 /\ run.events = Fixture!StepEvents(input.steps)
            /\ run.evidence = [n \in DOMAIN input.steps |->
                                 IF input.steps[n] = "none" THEN Nothing
                                 ELSE [step |-> n, of |-> n, status |-> "pending"]]
        BY <2>2, <3>r DEF RunFields
      <3>2. ToSet(shots) \subseteq DOMAIN input.steps
        <4>S. PICK S : S = {n \in DOMAIN input.steps : input.steps[n] # "none"}
          OBVIOUS
        <4>1. DOMAIN input.steps = 1 .. Len(input.steps) /\ Len(input.steps) \in Nat
          BY <1>0
        <4>2. S \subseteq 1 .. Len(input.steps) /\ \A n \in S : n \in Int
          BY <4>1, <4>S
        <4>5. IsFiniteSet(1 .. Len(input.steps))
          BY <4>1, FS_Interval
        <4>3. IsFiniteSet(S)
          BY <4>2, <4>5, FS_Subset
        <4>4. ToSet(shots) = S
          BY <1>q, <4>2, <4>3, <4>S, AscendingLists DEF Fixture!Shots
        <4>. QED  BY <4>S, <4>4
      <3>3. \A n \in DOMAIN input.steps : \A k \in 1 .. n : input.steps[k] # "unusable"
        <4>1. \A k \in DOMAIN input.steps : input.steps[k] # "unusable"
          BY <2>2 DEF ToSet
        <4>2. DOMAIN input.steps = 1 .. Len(input.steps) /\ Len(input.steps) \in Nat
          BY <1>0
        <4>3. \A n \in DOMAIN input.steps : \A k \in 1 .. n : k \in DOMAIN input.steps
          BY <4>2
        <4>. QED  BY <4>1, <4>3
      <3>4. \A n \in ToSet(run.requested) : Job(r, n) \in DOMAIN answers'
        <4>1. \A n \in ToSet(shots) : Job(r, n) \in jobs
          BY <1>j, <3>2, <3>3
        <4>2. DOMAIN answers' = DOMAIN answers \cup jobs
          BY <2>2 DEF Fixture!With
        <4>. QED  BY <3>1, <4>1, <4>2
      <3>5. Whole(run, r, answers', configured')
        BY <1>0, <1>q, <3>1, <3>4, WholeStart
      <3>. QED  BY <3>1, <3>5, <3>r
    <2>. QED  BY <1>2, <2>1, <2>2
  <1>7. WholeInv'
    BY <1>5, <1>6 DEF WholeInv
  <1>. QED  BY <1>0, <1>4, <1>7 DEF EvidenceInv

LEMMA CollectAccounts ==
    ASSUME FixtureInv, EvidenceInv, Later, NEW r \in Runs,
           Fixture!Collect(r) \/ Fixture!CompleteJourney(r)
    PROVE  EvidenceInv'
  <1>0. /\ UNCHANGED <<configured, calls, answers>> /\ configured \in BOOLEAN
        /\ DOMAIN runs = Runs /\ DOMAIN runs[r] = RunFields /\ runs[r].pc = "awaiting"
        /\ \A x \in Runs \ {r} : runs'[x] = runs[x]
    BY DEF Fixture!Collect, Fixture!CompleteJourney, FixtureInv, RunInv, EvidenceInv, WholeInv
  <1>1. AnswerInv'
    BY <1>0 DEF EvidenceInv, AnswerInv
  <1>r. PICK run, next : run = runs[r] /\ next = runs'[r]
    OBVIOUS
  <1>2. Whole(run, r, answers, configured) /\ run.pc = "awaiting" /\ DOMAIN run = RunFields
    BY <1>0, <1>r DEF EvidenceInv, WholeInv
  <1>3. CASE Fixture!Collect(r)
    <2>n. PICK n, outcome : n = run.requested[run.heard + 1] /\ outcome = answers[Job(r, n)]
      OBVIOUS
    <2>1. /\ run.heard < Len(run.requested) /\ outcome # Nothing
          /\ runs' = [runs EXCEPT ![r].heard = @ + 1,
                                  ![r].evidence[n].status = outcome,
                                  ![r].evidence[n].of = n,
                                  ![r].events = IF outcome = "pending" THEN @
                                                ELSE Append(@, Fixture!Event(outcome, n))]
      BY <1>3, <1>r, <2>n DEF Fixture!Collect, Job
    <2>2. /\ DOMAIN next = RunFields /\ next.pc = "awaiting" /\ next.requested = run.requested
          /\ next.heard = run.heard + 1
          /\ next.events = IF outcome = "pending" THEN run.events
                           ELSE Append(run.events, Fixture!Event(outcome, n))
          /\ next.evidence = [[run.evidence EXCEPT ![n].status = outcome] EXCEPT ![n].of = n]
      BY <1>0, <1>2, <1>r, <2>1 DEF RunFields
    <2>3. n \in DOMAIN run.evidence /\ n \in ToSet(run.requested)
      <3>1. AskedFor(run)
        BY <1>2 DEF Whole
      <3>2. run.heard + 1 \in DOMAIN run.requested
        BY <2>1, <3>1 DEF AskedFor
      <3>. QED  BY <2>n, <3>1, <3>2 DEF AskedFor, ToSet
    <2>4. /\ DOMAIN next.evidence = DOMAIN run.evidence
          /\ \A m \in DOMAIN run.evidence : m # n => next.evidence[m] = run.evidence[m]
          /\ next.evidence[n] = [[run.evidence[n] EXCEPT !.status = outcome] EXCEPT !.of = n]
      BY <2>2, <2>3
    <2>5. /\ outcome \in {"pending", "completed", "failed"}
          /\ outcome = "pending" <=> ~configured
      <3>1. Job(r, n) \in DOMAIN answers
        BY <1>2, <2>3 DEF Whole, Heard
      <3>2. outcome \in {Nothing, "pending", "completed", "failed"}
        BY <2>n, <3>1 DEF FixtureInv, CallInv
      <3>. QED  BY <1>0, <2>1, <2>n, <3>1, <3>2 DEF EvidenceInv, AnswerInv
    <2>6. Whole(next, r, answers, configured)
      <3>1. /\ run.heard < Len(run.requested) /\ outcome # Nothing
            /\ n = run.requested[run.heard + 1] /\ outcome = answers[Job(r, n)]
        BY <2>1, <2>n
      <3>2. Collected(run, next, n, outcome)
        BY <1>2, <2>2, <2>4, <3>1 DEF Collected
      <3>. QED  BY <1>0, <1>2, <2>5, <3>1, <3>2, WholeCollect
    <2>. QED  BY <1>0, <1>1, <1>r, <2>2, <2>6 DEF EvidenceInv, WholeInv
  <1>4. CASE Fixture!CompleteJourney(r)
    <2>1. /\ run.heard = Len(run.requested)
          /\ runs' = [runs EXCEPT ![r].pc = "completed",
                                  ![r].events = Append(@, Fixture!Event("journey.completed", 0))]
      BY <1>4, <1>r DEF Fixture!CompleteJourney
    <2>2. /\ DOMAIN next = RunFields /\ next.pc = "completed" /\ next.requested = run.requested
          /\ next.heard = run.heard /\ next.evidence = run.evidence
          /\ next.events = Append(run.events, Fixture!Event("journey.completed", 0))
      BY <1>0, <1>2, <1>r, <2>1 DEF RunFields
    <2>3. Whole(next, r, answers, configured)
      BY <1>0, <1>2, <2>1, <2>2, WholeComplete
    <2>. QED  BY <1>0, <1>1, <1>r, <2>2, <2>3 DEF EvidenceInv, WholeInv
  <1>. QED  BY <1>3, <1>4

LEMMA CallAccounts ==
    ASSUME FixtureInv, EvidenceInv, Later, NEW job \in DOMAIN answers,
           Fixture!Answer(job) \/ Fixture!Break(job)
    PROVE  EvidenceInv'
  <1>0. /\ UNCHANGED <<runs, configured>> /\ configured \in BOOLEAN
        /\ answers[job] = Nothing /\ DOMAIN answers' = DOMAIN answers
        /\ \A x \in DOMAIN answers : x # job => answers'[x] = answers[x]
        /\ \/ answers'[job] = "completed" /\ calls[job] = "ok"
           \/ answers'[job] = "failed"
    BY DEF Fixture!Answer, Fixture!Break, EvidenceInv
  <1>1. configured
    BY <1>0, FixtureAssumption DEF EvidenceInv, AnswerInv
  <1>2. \A x \in DOMAIN answers : x \in DOMAIN calls
    BY <1>1 DEF FixtureInv, CallInv
  <1>3. AnswerInv'
    BY <1>0, <1>1, <1>2 DEF EvidenceInv, AnswerInv, Later
  <1>4. WholeInv'
    BY <1>0, RunWhole DEF EvidenceInv, WholeInv
  <1>. QED  BY <1>0, <1>3, <1>4 DEF EvidenceInv

LEMMA EvidenceStart == Fixture!Init => EvidenceInv
  BY DEF Fixture!Init, EvidenceInv, AnswerInv, WholeInv, RunFields

LEMMA EvidenceStep ==
    ASSUME FixtureInv, EvidenceInv, [WorkerNext]_workerVars
    PROVE  EvidenceInv'
  <1>0. Later
    BY FixtureStep
  <1>1. ASSUME NEW r \in Runs, Fixture!Journey(r) PROVE EvidenceInv'
    BY <1>0, <1>1, RunJourneyAccounts, CollectAccounts DEF Fixture!Journey
  <1>2. ASSUME NEW b \in Batches, Fixture!Batch(b) PROVE EvidenceInv'
    <2>1. UNCHANGED <<runs, configured, answers>>
      BY <1>2 DEF Fixture!Batch, Fixture!AnalyzeBatch, Fixture!BatchFails, Fixture!Flush, Fixture!Flushed
    <2>. QED  BY <1>0, <2>1, AnswersKept
  <1>3. CASE Fixture!Call
    <2>1. ASSUME NEW job \in DOMAIN answers, Fixture!Answer(job) \/ Fixture!Break(job)
          PROVE  EvidenceInv'
      BY <1>0, <2>1, CallAccounts
    <2>2. ASSUME NEW job \in DOMAIN calls, Fixture!Receive(job) PROVE EvidenceInv'
      <3>1. UNCHANGED <<runs, configured, answers>>
        BY <2>2 DEF Fixture!Receive
      <3>. QED  BY <1>0, <3>1, AnswersKept
    <2>. QED  BY <1>3, <2>1, <2>2 DEF Fixture!Call
  <1>4. CASE Fixture!Analysis
    <2>1. UNCHANGED <<runs, configured, answers>>
      BY <1>4 DEF Fixture!Analysis, Fixture!Finish
    <2>. QED  BY <1>0, <2>1, AnswersKept
  <1>5. CASE UNCHANGED fixtureVars
    <2>1. UNCHANGED <<runs, configured, answers>>
      BY <1>5 DEF fixtureVars
    <2>. QED  BY <1>0, <2>1, AnswersKept
  <1>6. Fixture!Next \/ UNCHANGED fixtureVars
    BY DEF WorkerNext, workerVars
  <1>. QED  BY <1>1, <1>2, <1>3, <1>4, <1>5, <1>6 DEF Fixture!Next

\* What the completed run reports.
LEMMA Accounts ==
    ASSUME FixtureInv, EvidenceInv, NEW r \in Runs, runs[r].pc = "completed"
    PROVE  LET events == runs[r].events
           IN  /\ Reported(events, Outcomes)
                    = IF configured THEN Reported(events, Requested) ELSE <<>>
               /\ Fixture!Last(events).type = "journey.completed"
               /\ \A e \in Fixture!Evidence(r) :
                     /\ e.of = e.step
                     /\ e.status = "completed" => calls[Job(r, e.step)] = "ok"
                     /\ configured => e.status \in Outcomes /\ Fixture!Event(e.status, e.step) \in ToSet(events)
               /\ Fixture!EnrichedStatus(r) = "completed"
                    <=> \A e \in Fixture!Evidence(r) :
                          /\ configured /\ calls[Job(r, e.step)] = "ok"
                          /\ answers[Job(r, e.step)] = "completed"
  <1>r. PICK run : run = runs[r]
    OBVIOUS
  <1>0. AskedFor(run) /\ Pushed(run, configured) /\ Own(run) /\ Heard(run, r, answers, configured)
    BY <1>r DEF EvidenceInv, WholeInv, Whole
  <1>1. run.pc = "completed" /\ run.heard = Len(run.requested) /\ run.events \in Seq(AnEvent)
    BY <1>0, <1>r DEF Pushed
  <1>2. Reported(run.events, Outcomes) = IF configured THEN Reported(run.events, Requested) ELSE <<>>
    <2>1. run.requested \in Seq(Nat)
      BY <1>0 DEF AskedFor
    <2>2. SubSeq(run.requested, 1, run.heard) = run.requested
      BY <1>1, <2>1, SubSeqFull
    <2>. QED  BY <1>0, <2>2 DEF Pushed
  <1>3. Fixture!Last(run.events).type = "journey.completed"
    BY <1>0, <1>1 DEF Pushed, Fixture!Last
  <1>4. ASSUME NEW e \in Fixture!Evidence(r)
        PROVE  /\ e.of = e.step /\ Job(r, e.step) \in DOMAIN answers
               /\ e.status = answers[Job(r, e.step)] /\ e.status # Nothing
               /\ configured => Fixture!Event(e.status, e.step) \in ToSet(run.events)
    <2>1. PICK n \in DOMAIN run.evidence : e = run.evidence[n] /\ e # Nothing
      BY <1>r, SameOperators DEF Fixture!Evidence, ToSet
    <2>2. n \in ToSet(run.requested) /\ e.step = n /\ e.of = n
      BY <1>0, <2>1 DEF Own
    <2>3. PICK k \in 1 .. run.heard : n = run.requested[k]
      <3>1. run.requested \in Seq(Nat)
        BY <1>0 DEF AskedFor
      <3>. QED  BY <1>1, <2>2, <3>1 DEF ToSet
    <2>4. /\ answers[Job(r, n)] # Nothing /\ e.status = answers[Job(r, n)]
          /\ configured => Fixture!Event(answers[Job(r, n)], n) \in ToSet(run.events)
      BY <1>0, <2>1, <2>3 DEF Heard
    <2>5. Job(r, n) \in DOMAIN answers
      BY <1>0, <2>2 DEF Heard
    <2>. QED  BY <2>2, <2>4, <2>5
  <1>5. ASSUME NEW e \in Fixture!Evidence(r)
        PROVE  /\ e.status \in {"pending", "completed", "failed"}
               /\ e.status = "completed" => configured /\ calls[Job(r, e.step)] = "ok"
               /\ configured => e.status \in Outcomes
    <2>1. e.status \in {Nothing, "pending", "completed", "failed"} /\ e.status # Nothing
      BY <1>4 DEF FixtureInv, CallInv
    <2>2. IF configured THEN e.status # "pending" /\ (e.status = "completed" => calls[Job(r, e.step)] = "ok")
          ELSE e.status = "pending"
      BY <1>4 DEF EvidenceInv, AnswerInv
    <2>. QED  BY <2>1, <2>2 DEF Outcomes, Fixture!Outcomes
  <1>6. Fixture!EnrichedStatus(r) = "completed"
           <=> \A e \in Fixture!Evidence(r) : e.status = "completed"
    <2>s. PICK statuses : statuses = {e.status : e \in Fixture!Evidence(r)}
      OBVIOUS
    <2>1. Fixture!EnrichedStatus(r) =
             CASE "failed" \in statuses -> "partial"
               [] statuses \subseteq {"completed"} -> "completed"
               [] OTHER -> "pending"
      BY <2>s DEF Fixture!EnrichedStatus
    <2>2. Fixture!EnrichedStatus(r) = "completed" <=> statuses \subseteq {"completed"}
      <3>1. CASE "failed" \in statuses
        BY <2>1, <3>1
      <3>2. CASE "failed" \notin statuses /\ statuses \subseteq {"completed"}
        BY <2>1, <3>2
      <3>3. CASE "failed" \notin statuses /\ ~(statuses \subseteq {"completed"})
        BY <2>1, <3>3
      <3>. QED  BY <3>1, <3>2, <3>3
    <2>. QED  BY <2>2, <2>s
  <1>7. \A e \in Fixture!Evidence(r) :
           e.status = "completed" <=> /\ configured /\ calls[Job(r, e.step)] = "ok"
                                      /\ answers[Job(r, e.step)] = "completed"
    BY <1>4, <1>5
  <1>. QED  BY <1>2, <1>3, <1>4, <1>5, <1>6, <1>7, <1>r

\* Whichever analyses end first, fail, or are cut off: a completed run has the
\* outcome of each request once, in the order of the requests, each evidence has
\* its own, and the report says that the analysis is complete exactly when every
\* evidence was analysed.
THEOREM EvidenceAccountedAlways == WorkerSpec => []EvidenceAccounted
  <1>1. FixtureInv /\ EvidenceInv => EvidenceAccounted
    BY Accounts, SameOperators DEF EvidenceAccounted, Fixture!EvidenceAccounted, Reported,
       Requested, Outcomes, Job
  <1>2. WorkerInit => EvidenceInv
    BY EvidenceStart DEF WorkerInit
  <1>3. FixtureInv /\ EvidenceInv /\ [WorkerNext]_workerVars => EvidenceInv'
    BY EvidenceStep
  <1>. QED  BY <1>1, <1>2, <1>3, FixtureAlways, PTL DEF WorkerSpec

=============================================================================
