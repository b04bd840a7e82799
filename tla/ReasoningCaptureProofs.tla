----------------------- MODULE ReasoningCaptureProofs -----------------------
(***************************************************************************)
(* Theorems about ReasoningCapture, for every set of journeys and run ids, *)
(* every number of completions and every number of failures.               *)
(***************************************************************************)
EXTENDS ReasoningCapture, FiniteSetTheorems, TLAPS

-----------------------------------------------------------------------------
(* The order of a report.                                                  *)

\* In a strict total order of a finite set, the numbers of those before them
\* tell the elements apart, and every number below that of all is taken.
LEMMA Ranks ==
    ASSUME NEW D, IsFiniteSet(D), NEW before \in [D -> SUBSET D],
           \A i \in D : i \notin before[i],
           \A i, k \in D : i # k => k \in before[i] \/ i \in before[k],
           \A i, k \in D : k \in before[i] => before[k] \subseteq before[i]
    PROVE  /\ Cardinality(D) \in Nat
           /\ \A i \in D : IsFiniteSet(before[i]) /\ Cardinality(before[i]) \in Nat
           /\ \A i \in D : Cardinality(before[i]) < Cardinality(D)
           /\ \A i, k \in D : k \in before[i] =>
                Cardinality(before[k]) < Cardinality(before[i])
           /\ \A i, k \in D : Cardinality(before[i]) = Cardinality(before[k]) => i = k
           /\ \A n \in 1 .. Cardinality(D) : \E i \in D : Cardinality(before[i]) = n - 1
  <1>n. PICK n : n = Cardinality(D)
    OBVIOUS
  <1>0. n \in Nat
    BY <1>n, FS_CardinalityType
  <1>1. ASSUME NEW i \in D
        PROVE  IsFiniteSet(before[i]) /\ Cardinality(before[i]) \in Nat
               /\ Cardinality(before[i]) < n
    <2>1. before[i] \in SUBSET D /\ before[i] # D
      OBVIOUS
    <2>. QED  BY <1>0, <1>n, <2>1, FS_Subset, FS_CardinalityType
  <1>2. ASSUME NEW i \in D, NEW k \in D, k \in before[i]
        PROVE  Cardinality(before[k]) < Cardinality(before[i])
    <2>1. before[k] \in SUBSET before[i] /\ before[k] # before[i]
      BY <1>2
    <2>. QED  BY <1>1, <2>1, FS_Subset
  <1>3. \A i, k \in D : Cardinality(before[i]) = Cardinality(before[k]) => i = k
    BY <1>1, <1>2
  <1>. DEFINE rank == [i \in D |-> Cardinality(before[i]) + 1]
  <1>4. rank \in Injection(D, 1 .. n)
    <2>1. rank \in [D -> 1 .. n]
      BY <1>0, <1>1
    <2>2. \A i, k \in D : rank[i] = rank[k] => i = k
      BY <1>1, <1>3
    <2>. QED  BY <2>1, <2>2 DEF Injection, IsInjective
  <1>5. rank \in Surjection(D, 1 .. n)
    <2>1. IsFiniteSet(1 .. n) /\ Cardinality(1 .. n) = n
      BY <1>0, FS_Interval
    <2>. HIDE DEF rank
    <2>. QED  BY <1>4, <1>n, <2>1, FS_Injection
  <1>6. ASSUME NEW m \in 1 .. n PROVE \E i \in D : Cardinality(before[i]) = m - 1
    <2>1. PICK i \in D : rank[i] = m
      BY <1>5 DEF Surjection
    <2>2. Cardinality(before[i]) = m - 1
      BY <1>1, <2>1
    <2>. QED  BY <2>2
  <1>. QED  BY <1>0, <1>1, <1>2, <1>3, <1>6, <1>n

\* Before is a strict total order of the places of a sequence.
LEMMA BeforeRanks ==
    ASSUME NEW s \in Seq(Recorded)
    PROVE  /\ \A i \in DOMAIN s : Cardinality(Before(s, i)) \in Nat
           /\ \A i, k \in DOMAIN s : k \in Before(s, i) =>
                Cardinality(Before(s, k)) < Cardinality(Before(s, i))
           /\ \A place \in DOMAIN s : \E i \in DOMAIN s :
                Cardinality(Before(s, i)) = place - 1
           /\ \A i, k \in DOMAIN s : Cardinality(Before(s, i)) = Cardinality(Before(s, k)) => i = k
           /\ \A i \in DOMAIN s : Cardinality(Before(s, i)) < Len(s)
  <1>d. PICK D : D = 1 .. Len(s)
    OBVIOUS
  <1>0. DOMAIN s = D /\ Len(s) \in Nat /\ \A i \in D : s[i].elapsedMs \in Nat
    <2>1. \A i \in D : s[i] \in Recorded
      BY <1>d
    <2>. QED  BY <1>d, <2>1 DEF Recorded
  <1>1. IsFiniteSet(D) /\ Cardinality(D) = Len(s)
    <2>1. Len(s) \in Nat
      OBVIOUS
    <2>. QED  BY <1>d, <2>1, FS_Interval, SMTT(30)
  <1>b. PICK before : before = [i \in D |-> Before(s, i)]
    OBVIOUS
  <1>2. before \in [D -> SUBSET D] /\ \A i \in D : i \notin before[i]
    BY <1>0, <1>b DEF Before, Earlier
  <1>3. D \subseteq Int
    BY <1>d
  <1>4. \A i, k \in D : i # k => k \in before[i] \/ i \in before[k]
    BY <1>0, <1>b, <1>3 DEF Before, Earlier
  <1>5. \A i, k \in D : k \in before[i] => before[k] \subseteq before[i]
    BY <1>0, <1>b, <1>3 DEF Before, Earlier
  <1>6. \A i \in D : before[i] = Before(s, i)
    BY <1>b
  <1>. HIDE <1>b
  <1>7. /\ \A i \in D : Cardinality(before[i]) \in Nat /\ Cardinality(before[i]) < Len(s)
        /\ \A i, k \in D : k \in before[i] => Cardinality(before[k]) < Cardinality(before[i])
        /\ \A i, k \in D : Cardinality(before[i]) = Cardinality(before[k]) => i = k
        /\ \A n \in 1 .. Len(s) : \E i \in D : Cardinality(before[i]) = n - 1
    BY <1>1, <1>2, <1>4, <1>5, Ranks
  <1>. QED  BY <1>0, <1>6, <1>7, <1>d

\* InOrder moves every thought to one place, and none before an earlier one.
LEMMA InOrderSorts ==
    ASSUME NEW s \in Seq(Recorded)
    PROVE  \E p \in [DOMAIN s -> DOMAIN s] :
             /\ \A i, k \in DOMAIN s : p[i] = p[k] => i = k
             /\ \A k \in DOMAIN s : \E i \in DOMAIN s : p[i] = k
             /\ InOrder(s) = [i \in DOMAIN s |-> s[p[i]]]
             /\ \A i, k \in DOMAIN s : i < k => ~ Earlier(s[p[k]], s[p[i]])
  <1>. DEFINE p == [place \in DOMAIN s |->
                      CHOOSE i \in DOMAIN s : Cardinality(Before(s, i)) = place - 1]
  <1>1. \A place \in DOMAIN s : p[place] \in DOMAIN s /\ Cardinality(Before(s, p[place])) = place - 1
    BY BeforeRanks
  <1>2. DOMAIN s = 1 .. Len(s) /\ Len(s) \in Nat
    OBVIOUS
  <1>3. InOrder(s) = [i \in DOMAIN s |-> s[p[i]]] /\ p \in [DOMAIN s -> DOMAIN s]
    BY <1>1 DEF InOrder
  <1>. HIDE DEF p
  <1>4. \A i, k \in DOMAIN s : p[i] = p[k] => i = k
    BY <1>1, <1>2
  <1>5. ASSUME NEW k \in DOMAIN s PROVE \E i \in DOMAIN s : p[i] = k
    <2>1. Cardinality(Before(s, k)) + 1 \in DOMAIN s
      BY <1>2, BeforeRanks, SMTT(30)
    <2>2. Cardinality(Before(s, p[Cardinality(Before(s, k)) + 1])) = Cardinality(Before(s, k))
      BY <1>1, <2>1, BeforeRanks
    <2>. QED  BY <1>1, <2>1, <2>2, BeforeRanks
  <1>6. ASSUME NEW i \in DOMAIN s, NEW k \in DOMAIN s, i < k
        PROVE  ~ Earlier(s[p[k]], s[p[i]])
    <2>1. /\ p[i] \in DOMAIN s /\ p[k] \in DOMAIN s /\ p[i] # p[k]
          /\ Cardinality(Before(s, p[i])) < Cardinality(Before(s, p[k]))
      BY <1>1, <1>2, <1>6
    <2>2. p[k] \notin Before(s, p[i])
      <3>1. Cardinality(Before(s, p[i])) \in Nat /\ Cardinality(Before(s, p[k])) \in Nat
        BY <2>1, BeforeRanks
      <3>2. p[k] \in Before(s, p[i]) =>
              Cardinality(Before(s, p[k])) < Cardinality(Before(s, p[i]))
        BY <2>1, BeforeRanks
      <3>. QED  BY <2>1, <3>1, <3>2
    <2>. QED  BY <2>1, <2>2 DEF Before
  <1>. QED  BY <1>3, <1>4, <1>5, <1>6

-----------------------------------------------------------------------------
(* Type correctness.                                                       *)

Held(r) == IF captures[r] = None THEN <<>> ELSE captures[r].thoughts

\* What drain records for a copy it has read.
Entry(m) == [by |-> m.by, n |-> m.n, elapsedMs |-> Elapsed(m)]

LEMMA InOrderType ==
    ASSUME NEW s \in Seq(Recorded)
    PROVE  InOrder(s) \in Seq(Recorded) /\ Len(InOrder(s)) = Len(s)
  <1>0. DOMAIN s = 1 .. Len(s) /\ Len(s) \in Nat
    OBVIOUS
  <1>1. PICK p \in [DOMAIN s -> DOMAIN s] : InOrder(s) = [i \in DOMAIN s |-> s[p[i]]]
    BY InOrderSorts
  <1>2. \A i \in DOMAIN s : s[p[i]] \in Recorded
    OBVIOUS
  <1>. QED  BY <1>0, <1>1, <1>2

LEMMA HeldType ==
    ASSUME TypeOK, NEW r \in RunIds
    PROVE  /\ Held(r) \in Seq(Recorded)
           /\ InOrder(Held(r)) \in Seq(Recorded)
           /\ Len(InOrder(Held(r))) = Len(Held(r))
           /\ captures[r] # None =>
                captures[r] \in Capture /\ captures[r].startedAt \in Nat
                /\ captures[r].thoughts = Held(r)
  <1>1. captures[r] # None => captures[r] \in Capture
    BY DEF TypeOK
  <1>2. Held(r) \in Seq(Recorded)
    BY <1>1 DEF Held, Capture
  <1>3. InOrder(Held(r)) \in Seq(Recorded) /\ Len(InOrder(Held(r))) = Len(Held(r))
    BY <1>2, InOrderType
  <1>. QED  BY <1>1, <1>2, <1>3 DEF Held, Capture

LEMMA MirrorType ==
    ASSUME TypeOK, NEW m \in mirrors
    PROVE  /\ m.by \in Journeys /\ m.n \in Nat \ {0} /\ m.runId \in RunIds /\ m.at \in Nat
           /\ m = [by |-> m.by, n |-> m.n, runId |-> m.runId, at |-> m.at,
                   wrapper |-> m.wrapper]
           /\ captures[m.runId] # None => Entry(m) \in Recorded
  <1>1. m \in Mirror
    BY DEF TypeOK
  <1>2. m.by \in Journeys /\ m.n \in Nat \ {0} /\ m.runId \in RunIds /\ m.at \in Nat
    BY <1>1 DEF Mirror
  <1>3. m = [by |-> m.by, n |-> m.n, runId |-> m.runId, at |-> m.at,
             wrapper |-> m.wrapper]
    BY <1>1 DEF Mirror
  <1>4. captures[m.runId] # None => Elapsed(m) \in Nat
    BY <1>2, HeldType DEF Elapsed
  <1>. QED  BY <1>2, <1>3, <1>4 DEF Entry, Recorded

\* Record, read back.
LEMMA RecordStep ==
    ASSUME TypeOK, NEW m \in mirrors, captures[m.runId] # None, Record(m)
    PROVE  /\ captures' \in [RunIds -> Capture \cup {None}]
           /\ captures'[m.runId] # None
           /\ captures'[m.runId].startedAt = captures[m.runId].startedAt
           /\ captures'[m.runId].thoughts = Append(captures[m.runId].thoughts, Entry(m))
           /\ \A r \in RunIds : r # m.runId => captures'[r] = captures[r]
  <1>. DEFINE c == captures[m.runId]
              d == [c EXCEPT !.thoughts = Append(c.thoughts, Entry(m))]
  <1>1. m.runId \in RunIds /\ Entry(m) \in Recorded
    BY MirrorType
  <1>2. c \in Capture /\ c.thoughts \in Seq(Recorded)
    BY <1>1, HeldType
  <1>3. Append(c.thoughts, Entry(m)) \in Seq(Recorded)
    BY <1>1, <1>2
  <1>4. /\ d \in Capture /\ d.startedAt = c.startedAt
        /\ d.thoughts = Append(c.thoughts, Entry(m))
    BY <1>2, <1>3 DEF Capture
  <1>5. captures' = [captures EXCEPT ![m.runId] = d]
    BY DEF Record, Entry
  <1>. HIDE DEF d
  <1>. QED  BY <1>1, <1>4, <1>5, CaptureAssumption DEF TypeOK

\* An unanswered completion was asked for.
TypeInv == TypeOK /\ \A j \in Journeys : inFlight[j] => asked[j] > 0

\* The copies an answer adds: at most one of each wrapper, of this completion.
LEMMA AnswerStep ==
    ASSUME TypeInv, NEW j \in Journeys, Answer(j)
    PROVE  \A m : m \in mirrors' <=>
             \/ m \in mirrors
             \/ /\ m.by = j /\ m.n = asked[j] /\ m.at = clock + 1
                /\ m.runId = activeRunId /\ m.runId \in RunIds /\ captures[m.runId] # None
                /\ m.wrapper \in 1 .. installed
                /\ m = [by |-> m.by, n |-> m.n, runId |-> m.runId, at |-> m.at,
                        wrapper |-> m.wrapper]
  <1>. DEFINE new == [by : {j}, n : {asked[j]}, runId : RunToCredit, at : {clock + 1},
                      wrapper : 1 .. installed]
  <1>1. mirrors' = mirrors \cup new
    BY DEF Answer
  <1>2. ASSUME NEW m
        PROVE  m \in new <=>
                 /\ m.by = j /\ m.n = asked[j] /\ m.at = clock + 1
                 /\ m.runId = activeRunId /\ m.runId \in RunIds /\ captures[m.runId] # None
                 /\ m.wrapper \in 1 .. installed
                 /\ m = [by |-> m.by, n |-> m.n, runId |-> m.runId, at |-> m.at,
                         wrapper |-> m.wrapper]
    <2>. DEFINE r == [by |-> m.by, n |-> m.n, runId |-> m.runId, at |-> m.at,
                      wrapper |-> m.wrapper]
    <2>1. ASSUME m \in new PROVE m = r
      BY <2>1
    <2>2. r \in new <=>
            /\ m.by = j /\ m.n = asked[j] /\ m.at = clock + 1
            /\ m.runId \in RunToCredit /\ m.wrapper \in 1 .. installed
      OBVIOUS
    <2>. QED  BY <2>1, <2>2 DEF RunToCredit
  <1>. QED  BY <1>1, <1>2

LEMMA TypeStep ==
    ASSUME TypeInv, [Next]_vars
    PROVE  TypeInv'
  <1>. USE DEF TypeInv
  <1>Start. ASSUME NEW j \in Journeys, Start(j) PROVE TypeInv'
    <2>1. <<>> \in Seq(Recorded)
      OBVIOUS
    <2>2. [startedAt |-> clock, thoughts |-> <<>>] \in Capture
      BY <2>1 DEF TypeOK, Capture
    <2>3. captures' \in [RunIds -> Capture \cup {None}]
      BY <1>Start, <2>2 DEF Start, TypeOK
    <2>4. RunId[j] \in RunIds
      BY CaptureAssumption
    <2>5. overlapped' \subseteq Journeys
      BY <1>Start DEF Start, TypeOK, Running
    <2>. QED
      BY <1>Start, <2>3, <2>4, <2>5 DEF Start, TypeOK, InstallReasoningCapture
  <1>Ask. ASSUME NEW j \in Journeys, Ask(j) PROVE TypeInv'
    <2>1. Asks[j] \in Nat /\ asked[j] \in Nat
      BY CaptureAssumption DEF TypeOK
    <2>2. \A k \in Journeys : /\ asked'[k] = IF k = j THEN asked[j] + 1 ELSE asked[k]
                              /\ inFlight'[k] = (k = j \/ inFlight[k])
      BY <1>Ask DEF Ask, TypeOK
    <2>. QED  BY <1>Ask, <2>1, <2>2 DEF Ask, TypeOK
  <1>Answer. ASSUME NEW j \in Journeys, Answer(j) PROVE TypeInv'
    <2>1. asked[j] \in Nat \ {0}
      BY <1>Answer DEF Answer, TypeOK
    <2>2. mirrors' \subseteq Mirror
      BY <1>Answer, <2>1 DEF Answer, TypeOK, Mirror, RunToCredit
    <2>. QED  BY <1>Answer, <2>2 DEF Answer, TypeOK
  <1>Drain. ASSUME NEW m \in mirrors, Drain(m) PROVE TypeInv'
    <2>1. captures' \in [RunIds -> Capture \cup {None}]
      BY <1>Drain, RecordStep DEF Drain, TypeOK
    <2>. QED  BY <1>Drain, <2>1 DEF Drain, TypeOK
  <1>Return. ASSUME NEW j \in Journeys, Return(j) PROVE TypeInv'
    <2>0. RunId[j] \in RunIds
      BY CaptureAssumption
    <2>1. InOrder(Held(RunId[j])) \in Seq(Recorded)
      BY <2>0, HeldType
    <2>2. report' \in [Journeys -> Seq(Recorded)]
      <3>1. <<>> \in Seq(Recorded)
        OBVIOUS
      <3>2. (IF captures[RunId[j]] = None THEN <<>> ELSE InOrder(captures[RunId[j]].thoughts))
              \in Seq(Recorded)
        BY <2>1, <3>1 DEF Held
      <3>. QED  BY <1>Return, <3>2 DEF Return, TakeRunReasoning, TypeOK
    <2>3. Unread(j) \subseteq Thought
      BY MirrorType DEF Unread, Thought
    <2>. QED
      BY <1>Return, <2>2, <2>3 DEF Return, TakeRunReasoning, TypeOK
  <1>Throw. ASSUME NEW j \in Journeys, Throw(j) PROVE TypeInv'
    BY <1>Throw, CaptureAssumption DEF Throw, TypeOK
  <1>idle. CASE UNCHANGED vars
    BY <1>idle DEF vars, TypeOK
  <1>. QED
    BY <1>Start, <1>Ask, <1>Answer, <1>Drain, <1>Return, <1>Throw, <1>idle DEF Next

\* Every variable of the capture keeps its type: in particular the thoughts of
\* every capture and report carry times that are never negative.
THEOREM CaptureTypeCorrect == Spec => []TypeOK
  <1>1. Init => TypeInv
    BY CaptureAssumption DEF Init, TypeInv, TypeOK
  <1>2. TypeInv /\ [Next]_vars => TypeInv'
    BY TypeStep
  <1>. QED  BY <1>1, <1>2, PTL DEF Spec, TypeInv

-----------------------------------------------------------------------------
(* The live view.                                                          *)

\* The live view finds the capture of every journey that runs, unless another
\* journey under its run id has returned and taken it; and a capture belongs
\* to a journey that runs or one that threw, never to one that has returned.
THEOREM LiveViewAlways == Spec => []LiveView
  <1>. USE DEF LiveView, Running
  <1>1. Init => LiveView
    BY CaptureAssumption DEF Init
  <1>2. TypeOK /\ LiveView /\ [Next]_vars => LiveView'
    <2>. SUFFICES ASSUME TypeOK, LiveView, [Next]_vars PROVE LiveView'
      OBVIOUS
    <2>Start. ASSUME NEW j \in Journeys, Start(j) PROVE LiveView'
      <3>1. [startedAt |-> clock, thoughts |-> <<>>] # None
        <4>1. <<>> \in Seq(Recorded)
          OBVIOUS
        <4>2. [startedAt |-> clock, thoughts |-> <<>>] \in Capture
          BY <4>1 DEF TypeOK, Capture
        <4>. QED  BY <4>2, CaptureAssumption
      <3>2. RunId[j] \in RunIds
        BY CaptureAssumption
      <3>3. /\ captures'[RunId[j]] # None
            /\ \A r \in RunIds : r # RunId[j] => captures'[r] = captures[r]
        BY <2>Start, <3>1, <3>2 DEF Start, TypeOK
      <3>4. /\ journey[j] = "new" /\ journey'[j] = "running"
            /\ \A k \in Journeys : k # j => journey'[k] = journey[k]
        BY <2>Start DEF Start, TypeOK
      <3>. QED  BY <3>2, <3>3, <3>4, CaptureAssumption
    <2>Drain. ASSUME NEW m \in mirrors, Drain(m) PROVE LiveView'
      <3>1. \A r \in RunIds : captures'[r] = None <=> captures[r] = None
        BY <2>Drain, RecordStep DEF Drain
      <3>. QED  BY <2>Drain, <3>1, CaptureAssumption DEF Drain
    <2>Return. ASSUME NEW j \in Journeys, Return(j) PROVE LiveView'
      <3>1. RunId[j] \in RunIds
        BY CaptureAssumption
      <3>2. /\ captures'[RunId[j]] = None
            /\ \A r \in RunIds : r # RunId[j] => captures'[r] = captures[r]
        BY <2>Return, <3>1 DEF Return, TakeRunReasoning, TypeOK
      <3>3. /\ journey'[j] = "returned"
            /\ \A k \in Journeys : k # j => journey'[k] = journey[k]
        BY <2>Return DEF Return, TypeOK
      <3>. QED  BY <3>1, <3>2, <3>3, CaptureAssumption
    <2>Throw. ASSUME NEW j \in Journeys, Throw(j) PROVE LiveView'
      BY <2>Throw, CaptureAssumption DEF Throw, TypeOK
    <2>same. CASE \/ \E j \in Journeys : Ask(j) \/ Answer(j)
                  \/ UNCHANGED vars
      BY <2>same DEF Ask, Answer, vars
    <2>. QED
      BY <2>Start, <2>Drain, <2>Return, <2>Throw, <2>same DEF Next
  <1>. QED  BY <1>1, <1>2, CaptureTypeCorrect, PTL DEF Spec

-----------------------------------------------------------------------------
(* A thought is recorded once.                                             *)

SameThought(t, u) == t.by = u.by /\ t.n = u.n

\* A thought that is read or recorded belongs to a completion that has been
\* asked for and answered.
Produced(t) == t.n <= asked[t.by] /\ (inFlight[t.by] => t.n < asked[t.by])

Once(s) == \A i, k \in DOMAIN s : SameThought(s[i], s[k]) => i = k
Apart(s, t) == \A i \in DOMAIN s, k \in DOMAIN t : ~ SameThought(s[i], t[k])

\* What is recorded has been read: no copy of it is left.
Settled(s) ==
    \A i \in DOMAIN s : Produced(s[i]) /\ \A m \in mirrors : ~ SameThought(m, s[i])

OnceInv ==
    /\ installed \in {0, 1}
    /\ \A m \in mirrors : Produced(m)
    /\ \A m, x \in mirrors : SameThought(m, x) => m = x
    /\ \A r \in RunIds : Once(Held(r)) /\ Settled(Held(r))
    /\ \A j \in Journeys : Once(report[j]) /\ Settled(report[j])
    /\ \A r, q \in RunIds : r # q => Apart(Held(r), Held(q))
    /\ \A r \in RunIds, j \in Journeys : Apart(Held(r), report[j])
    /\ \A j, k \in Journeys : j # k => Apart(report[j], report[k])

LEMMA InOrderOnce ==
    ASSUME NEW s \in Seq(Recorded)
    PROVE  /\ \A i \in DOMAIN InOrder(s) : \E k \in DOMAIN s : InOrder(s)[i] = s[k]
           /\ \A k \in DOMAIN s : \E i \in DOMAIN InOrder(s) : InOrder(s)[i] = s[k]
           /\ Once(s) => Once(InOrder(s))
           /\ \A i, k \in DOMAIN InOrder(s) : i < k => ~ Earlier(InOrder(s)[k], InOrder(s)[i])
  <1>1. PICK p \in [DOMAIN s -> DOMAIN s] :
             /\ \A i, k \in DOMAIN s : p[i] = p[k] => i = k
             /\ \A k \in DOMAIN s : \E i \in DOMAIN s : p[i] = k
             /\ InOrder(s) = [i \in DOMAIN s |-> s[p[i]]]
             /\ \A i, k \in DOMAIN s : i < k => ~ Earlier(s[p[k]], s[p[i]])
    BY InOrderSorts
  <1>2. DOMAIN InOrder(s) = DOMAIN s /\ \A i \in DOMAIN s : InOrder(s)[i] = s[p[i]]
    BY <1>1
  <1>3. ASSUME Once(s) PROVE Once(InOrder(s))
    BY <1>1, <1>2, <1>3 DEF Once
  <1>. QED  BY <1>1, <1>2, <1>3

\* What each place holds after a step: nothing, what it held, the thought of
\* one copy more, or in another order what a capture held.
LEMMA OnceStep ==
    ASSUME TypeInv, OnceInv, [Next]_vars
    PROVE  OnceInv'
  <1>. USE DEF TypeInv
  <1>t. /\ \A j \in Journeys : asked[j] \in Nat /\ RunId[j] \in RunIds
        /\ \A m \in mirrors : m.by \in Journeys /\ m.n \in Nat
        /\ \A r \in RunIds : Held(r) \in Seq(Recorded)
        /\ \A j \in Journeys : report[j] \in Seq(Recorded)
    BY CaptureAssumption, MirrorType, HeldType DEF TypeOK
  <1>h. ASSUME NEW s \in Seq(Recorded), NEW i \in DOMAIN s
        PROVE  s[i].by \in Journeys /\ s[i].n \in Nat
    <2>1. s[i] \in Recorded
      OBVIOUS
    <2>. QED  BY <2>1 DEF Recorded
  <1>e. ASSUME NEW s, s = <<>>
        PROVE  Once(s) /\ Settled(s)' /\ (\A u : Apart(s, u) /\ Apart(u, s))
    BY <1>e DEF Once, Settled, Apart
  <1>Start. ASSUME NEW j \in Journeys, Start(j) PROVE OnceInv'
    <2>1. /\ \A r \in RunIds : Held(r)' = IF r = RunId[j] THEN <<>> ELSE Held(r)
          /\ UNCHANGED <<asked, inFlight, mirrors, report>>
      <3>1. \A r \in RunIds : captures'[r] =
                IF r = RunId[j] THEN [startedAt |-> clock, thoughts |-> <<>>] ELSE captures[r]
        BY <1>Start DEF Start, TypeOK
      <3>. QED  BY <1>Start, <3>1 DEF Start, Held
    <2>2. installed' \in {0, 1}
      BY <1>Start DEF Start, InstallReasoningCapture, OnceInv
    <2>3. \A s : Settled(s)' <=> Settled(s)
      BY <2>1 DEF Settled, Produced
    <2>4. \A r \in RunIds : Once(Held(r)') /\ Settled(Held(r))'
      BY <1>e, <2>1, <2>3 DEF OnceInv
    <2>5. \A r, q \in RunIds : r # q => Apart(Held(r)', Held(q)')
      BY <1>e, <2>1 DEF OnceInv
    <2>6. \A r \in RunIds, k \in Journeys : Apart(Held(r)', report'[k])
      BY <1>e, <2>1 DEF OnceInv
    <2>. QED  BY <2>1, <2>2, <2>3, <2>4, <2>5, <2>6 DEF OnceInv, Produced
  <1>Ask. ASSUME NEW j \in Journeys, Ask(j) PROVE OnceInv'
    <2>1. /\ asked' = [asked EXCEPT ![j] = asked[j] + 1]
          /\ inFlight' = [inFlight EXCEPT ![j] = TRUE]
          /\ UNCHANGED <<installed, captures, mirrors, report>>
      BY <1>Ask DEF Ask
    <2>2. \A t : t.by \in Journeys /\ t.n \in Nat /\ Produced(t) => Produced(t)'
      BY <1>t, <2>1 DEF Produced, TypeOK
    <2>3. \A s \in Seq(Recorded) : Settled(s) => Settled(s)'
      BY <1>h, <2>1, <2>2 DEF Settled
    <2>4. \A r \in RunIds : Held(r)' = Held(r)
      BY <2>1 DEF Held
    <2>. QED  BY <1>t, <2>1, <2>2, <2>3, <2>4 DEF OnceInv
  <1>Answer. ASSUME NEW j \in Journeys, Answer(j) PROVE OnceInv'
    <2>1. /\ inFlight[j] /\ inFlight' = [inFlight EXCEPT ![j] = FALSE]
          /\ UNCHANGED <<asked, installed, captures, report>>
      BY <1>Answer DEF Answer
    <2>2. \A t : t.by \in Journeys /\ t.n \in Nat /\ Produced(t) =>
              Produced(t)' /\ ~ (t.by = j /\ t.n = asked[j])
      BY <1>t, <2>1 DEF Produced, TypeOK
    <2>3. \A m \in mirrors' : m \in mirrors \/ (m.by = j /\ m.n = asked[j])
      BY <1>Answer, AnswerStep
    <2>4. \A s \in Seq(Recorded) : Settled(s) => Settled(s)'
      BY <1>h, <1>t, <2>2, <2>3 DEF Settled, SameThought
    <2>5. \A r \in RunIds : Held(r)' = Held(r)
      BY <2>1 DEF Held
    <2>6. \A m \in mirrors' : Produced(m)'
      <3>1. \A m : m.by = j /\ m.n = asked[j] => Produced(m)'
        BY <1>t, <2>1 DEF Produced, TypeOK
      <3>. QED  BY <1>t, <2>2, <2>3, <3>1 DEF OnceInv
    <2>7. ASSUME NEW m \in mirrors', NEW x \in mirrors', SameThought(m, x) PROVE m = x
      <3>1. CASE m \in mirrors /\ x \in mirrors
        BY <2>7, <3>1 DEF OnceInv
      <3>2. CASE ~ (m \in mirrors <=> x \in mirrors)
        BY <1>t, <2>2, <2>3, <2>7, <3>2 DEF OnceInv, SameThought
      <3>3. CASE m \notin mirrors /\ x \notin mirrors
        <4>1. m.wrapper = x.wrapper
          BY <1>Answer, <3>3, AnswerStep DEF OnceInv
        <4>2. m.by = x.by /\ m.n = x.n /\ m.runId = x.runId /\ m.at = x.at
          BY <1>Answer, <3>3, AnswerStep
        <4>3. /\ m = [by |-> m.by, n |-> m.n, runId |-> m.runId, at |-> m.at,
                      wrapper |-> m.wrapper]
              /\ x = [by |-> x.by, n |-> x.n, runId |-> x.runId, at |-> x.at,
                      wrapper |-> x.wrapper]
          BY <1>Answer, <3>3, AnswerStep
        <4>. QED  BY <4>1, <4>2, <4>3
      <3>. QED  BY <3>1, <3>2, <3>3
    <2>. QED  BY <1>t, <2>1, <2>4, <2>5, <2>6, <2>7 DEF OnceInv
  <1>Drain. ASSUME NEW m \in mirrors, Drain(m) PROVE OnceInv'
    <2>1. mirrors' = mirrors \ {m} /\ UNCHANGED <<asked, inFlight, installed, report>>
      BY <1>Drain DEF Drain
    <2>2. \A s : Settled(s) => Settled(s)'
      BY <2>1 DEF Settled, Produced
    <2>3. \A x \in mirrors' : Produced(x)'
      BY <2>1 DEF OnceInv, Produced
    <2>4. CASE captures[m.runId] = None
      <3>1. \A r \in RunIds : Held(r)' = Held(r)
        BY <1>Drain, <2>4 DEF Drain, Held
      <3>. QED  BY <2>1, <2>2, <2>3, <3>1 DEF OnceInv
    <2>5. CASE captures[m.runId] # None
      <3>q. PICK q : q = m.runId
        OBVIOUS
      <3>s. PICK s : s = Held(q)
        OBVIOUS
      <3>e. PICK e : e = Entry(m)
        OBVIOUS
      <3>t. PICK t : t = Append(s, e)
        OBVIOUS
      <3>0. q \in RunIds /\ s \in Seq(Recorded) /\ e \in Recorded
        BY <1>t, <2>5, <3>q, <3>s, <3>e, MirrorType
      <3>1. \A r \in RunIds : Held(r)' = IF r = q THEN t ELSE Held(r)
        <4>1. captures'[q] # None /\ captures'[q].thoughts = t
          BY <1>Drain, <2>5, <3>q, <3>s, <3>e, <3>t, RecordStep DEF Drain, Held
        <4>2. \A r \in RunIds : r # q => captures'[r] = captures[r]
          BY <1>Drain, <2>5, <3>q, RecordStep DEF Drain
        <4>. QED  BY <4>1, <4>2 DEF Held
      <3>2. /\ DOMAIN t = 1 .. Len(s) + 1 /\ DOMAIN s = 1 .. Len(s) /\ Len(s) \in Nat
            /\ \A i \in DOMAIN s : t[i] = s[i]
            /\ t[Len(s) + 1] = e
        BY <3>0, <3>t
      <3>3. \A i \in DOMAIN t : \/ i \in DOMAIN s /\ t[i] = s[i]
                                \/ i = Len(s) + 1 /\ t[i] = e
        BY <3>2
      <3>4. \A x : SameThought(x, e) <=> SameThought(x, m)
        BY <3>e DEF SameThought, Entry
      <3>5. \A x, y : SameThought(x, y) <=> SameThought(y, x)
        BY DEF SameThought
      <3>6. Produced(e)' /\ \A x \in mirrors' : ~ SameThought(x, e)
        BY <2>1, <3>e, <3>4 DEF OnceInv, Produced, Entry
      <3>7. Once(s) /\ Settled(s) /\ Settled(s)'
        BY <2>2, <3>0, <3>s DEF OnceInv
      <3>8. \A i \in DOMAIN s : ~ SameThought(s[i], e)
        BY <3>4, <3>5, <3>7 DEF Settled
      <3>9. Once(t)
        BY <3>3, <3>5, <3>7, <3>8 DEF Once
      <3>10. Settled(t)'
        BY <3>3, <3>6, <3>7 DEF Settled
      <3>11. ASSUME NEW u, Settled(u), Apart(s, u) \/ Apart(u, s)
             PROVE  Apart(t, u) /\ Apart(u, t)
        BY <3>3, <3>4, <3>5, <3>11 DEF Apart, Settled
      <3>12. ASSUME NEW r \in RunIds PROVE Once(Held(r)') /\ Settled(Held(r))'
        <4>1. CASE r = q
          BY <3>1, <3>9, <3>10, <4>1 DEF Settled
        <4>2. CASE r # q
          BY <2>2, <3>1, <4>2 DEF OnceInv, Settled
        <4>. QED  BY <4>1, <4>2
      <3>13. \A r, z \in RunIds : r # z => Apart(Held(r)', Held(z)')
        BY <3>0, <3>1, <3>11, <3>s DEF OnceInv
      <3>14. \A r \in RunIds, k \in Journeys : Apart(Held(r)', report'[k])
        BY <2>1, <3>0, <3>1, <3>11, <3>s DEF OnceInv
      <3>. QED  BY <2>1, <2>2, <2>3, <3>12, <3>13, <3>14 DEF OnceInv
    <2>. QED  BY <2>4, <2>5
  <1>Return. ASSUME NEW j \in Journeys, Return(j) PROVE OnceInv'
    <2>. DEFINE q == RunId[j]
                s == Held(q)
                t == InOrder(s)
    <2>0. q \in RunIds /\ s \in Seq(Recorded)
      BY <1>t
    <2>1. UNCHANGED <<asked, inFlight, installed, mirrors>>
      BY <1>Return DEF Return
    <2>2. \A r \in RunIds : Held(r)' = IF r = q THEN <<>> ELSE Held(r)
      BY <1>Return, <2>0 DEF Return, TakeRunReasoning, TypeOK, Held
    <2>3. \A k \in Journeys : k # j => report'[k] = report[k]
      BY <1>Return DEF Return, TakeRunReasoning, TypeOK
    <2>4. report'[j] = <<>> \/ report'[j] = t
      BY <1>Return DEF Return, TakeRunReasoning, TypeOK, Held
    <2>5. \A u : Settled(u)' <=> Settled(u)
      BY <2>1 DEF Settled, Produced
    <2>6. /\ \A i \in DOMAIN t : \E k \in DOMAIN s : t[i] = s[k]
          /\ Once(s) => Once(t)
      BY <2>0, InOrderOnce
    <2>7. Once(s) /\ Settled(s)
      BY <2>0 DEF OnceInv
    <2>. HIDE DEF t
    <2>8. Once(report'[j]) /\ Settled(report[j])'
      BY <1>e, <2>4, <2>5, <2>6, <2>7 DEF Settled
    <2>9. ASSUME NEW u, Apart(s, u) \/ Apart(u, s)
          PROVE  Apart(report'[j], u) /\ Apart(u, report'[j])
      <3>1. Apart(t, u) /\ Apart(u, t)
        BY <2>6, <2>9 DEF Apart, SameThought
      <3>. QED  BY <1>e, <2>4, <3>1
    <2>10. \A r \in RunIds : Once(Held(r)') /\ Settled(Held(r))'
      BY <1>e, <2>2, <2>5 DEF OnceInv
    <2>11. \A k \in Journeys : Once(report'[k]) /\ Settled(report[k])'
      BY <2>3, <2>5, <2>8 DEF OnceInv
    <2>12. \A r, z \in RunIds : r # z => Apart(Held(r)', Held(z)')
      BY <1>e, <2>2 DEF OnceInv
    <2>13. \A r \in RunIds, k \in Journeys : Apart(Held(r)', report'[k])
      BY <1>e, <2>0, <2>2, <2>3, <2>9 DEF OnceInv
    <2>14. \A k, z \in Journeys : k # z => Apart(report'[k], report'[z])
      BY <2>0, <2>3, <2>9 DEF OnceInv
    <2>. QED  BY <2>1, <2>10, <2>11, <2>12, <2>13, <2>14 DEF OnceInv, Produced
  <1>same. CASE (\E j \in Journeys : Throw(j)) \/ UNCHANGED vars
    <2>1. UNCHANGED <<asked, inFlight, installed, captures, mirrors, report>>
      BY <1>same DEF Throw, vars
    <2>. QED  BY <2>1 DEF OnceInv, Held, Settled, Produced
  <1>. QED
    BY <1>Start, <1>Ask, <1>Answer, <1>Drain, <1>Return, <1>same DEF Next

LEMMA OnceInit == Init => OnceInv
  BY DEF Init, OnceInv, Held, Once, Settled, Apart

\* Whatever runs overlap, end under one another's run id or throw, the
\* reasoning of a completion is in at most one place and there once: it is
\* read by one wrapper, recorded when its copy is gone, and leaves the capture
\* with the report.
THEOREM ThoughtsOnceAlways == Spec => []ThoughtsOnce
  <1>1. Init => TypeInv /\ OnceInv
    BY CaptureAssumption, OnceInit DEF Init, TypeInv, TypeOK
  <1>2. TypeInv /\ OnceInv /\ [Next]_vars => TypeInv' /\ OnceInv'
    BY TypeStep, OnceStep
  <1>3. TypeInv /\ OnceInv => ThoughtsOnce
    <2>. SUFFICES ASSUME TypeInv, OnceInv PROVE ThoughtsOnce
      OBVIOUS
    <2>. DEFINE Place == [x \in RunIds \cup Journeys |->
                  IF x \in RunIds THEN CaptureOf(x) ELSE ThoughtsOf(report[x])]
                Source(x) == IF x \in RunIds THEN Held(x) ELSE report[x]
    <2>1. \A x \in RunIds \cup Journeys : Place[x] = ThoughtsOf(Source(x))
      BY DEF CaptureOf, ThoughtsOf, Held
    <2>2. \A x \in RunIds \cup Journeys : Once(Source(x))
      BY DEF OnceInv
    <2>3. \A x, y \in RunIds \cup Journeys : x # y => Apart(Source(x), Source(y))
      BY DEF OnceInv, Apart, SameThought
    <2>. HIDE DEF Place, Source
    <2>4. ASSUME NEW x \in RunIds \cup Journeys, NEW y \in RunIds \cup Journeys,
                 NEW i \in DOMAIN Place[x], NEW k \in DOMAIN Place[y],
                 Place[x][i] = Place[y][k]
          PROVE  x = y /\ i = k
      <3>1. i \in DOMAIN Source(x) /\ k \in DOMAIN Source(y)
        BY <2>1 DEF ThoughtsOf
      <3>2. SameThought(Source(x)[i], Source(y)[k])
        <4>1. \A z, n : n \in DOMAIN z => ThoughtsOf(z)[n] = [by |-> z[n].by, n |-> z[n].n]
          BY DEF ThoughtsOf
        <4>2. ThoughtsOf(Source(x))[i] = ThoughtsOf(Source(y))[k]
          BY <2>1, <2>4
        <4>5. ThoughtsOf(Source(x))[i] = [by |-> Source(x)[i].by, n |-> Source(x)[i].n]
          BY ONLY <3>1, <4>1, Zenon
        <4>6. ThoughtsOf(Source(y))[k] = [by |-> Source(y)[k].by, n |-> Source(y)[k].n]
          BY ONLY <3>1, <4>1, Zenon
        <4>3. [by |-> Source(x)[i].by, n |-> Source(x)[i].n]
                = [by |-> Source(y)[k].by, n |-> Source(y)[k].n]
          BY <4>2, <4>5, <4>6
        <4>4. \A t, u : [by |-> t.by, n |-> t.n] = [by |-> u.by, n |-> u.n] => SameThought(t, u)
          BY DEF SameThought
        <4>. QED  BY <4>3, <4>4
      <3>. QED  BY <2>2, <2>3, <3>1, <3>2 DEF Once, Apart
    <2>. QED  BY <2>4 DEF ThoughtsOnce, Place
  <1>. QED  BY <1>1, <1>2, <1>3, PTL DEF Spec

-----------------------------------------------------------------------------
(* A journey alone.                                                        *)

\* When the completions of j were answered, of those read and those recorded.
Timeline(j) ==
    LET c == captures[RunId[j]] IN
    {<<m.n, m.at>> : m \in mirrors}
      \cup {<<c.thoughts[i].n, c.startedAt + c.thoughts[i].elapsedMs>> : i \in DOMAIN c.thoughts}

Alone == Running \ overlapped

\* Of a journey that has shared its time with no other: all that is in flight,
\* read or recorded is its own and credited to it, and the later completion
\* was answered later.
AloneSound(j) ==
    /\ \A k \in Journeys : k # j => journey[k] # "running" /\ ~ inFlight[k]
    /\ installed = 1 /\ activeRunId = RunId[j] /\ captures[RunId[j]] # None
    /\ captures[RunId[j]].startedAt <= clock
    /\ \A m \in mirrors : m.by = j /\ m.runId = RunId[j]
                          /\ captures[RunId[j]].startedAt < m.at
    /\ \A i \in DOMAIN captures[RunId[j]].thoughts : captures[RunId[j]].thoughts[i].by = j
    /\ \A p \in Timeline(j) : p[2] <= clock
    /\ \A p, q \in Timeline(j) : p[1] < q[1] => p[2] < q[2]
    /\ \A n \in 1 .. asked[j] : n < asked[j] \/ ~ inFlight[j] =>
          \E p \in Timeline(j) : p[1] = n

AloneInv ==
    /\ \A j \in Journeys : journey[j] = "new" => asked[j] = 0
    /\ \A t \in late : journey[t.by] = "returned"
    /\ \A j \in Alone : AloneSound(j)
    /\ AloneReportsItsOwn

LEMMA TimelineElement ==
    ASSUME NEW j, NEW p
    PROVE  p \in Timeline(j) <=>
             \/ \E m \in mirrors : p = <<m.n, m.at>>
             \/ \E i \in DOMAIN captures[RunId[j]].thoughts :
                  p = <<captures[RunId[j]].thoughts[i].n,
                        captures[RunId[j]].startedAt + captures[RunId[j]].thoughts[i].elapsedMs>>
  BY DEF Timeline

LEMMA TimelineType ==
    ASSUME TypeInv, OnceInv, NEW j \in Journeys, AloneSound(j), NEW p \in Timeline(j)
    PROVE  /\ p[1] \in Nat /\ p[2] \in Nat
           /\ p[1] <= asked[j] /\ (inFlight[j] => p[1] < asked[j])
  <1>. DEFINE c == captures[RunId[j]]
  <1>1. RunId[j] \in RunIds /\ asked[j] \in Nat
    BY CaptureAssumption DEF TypeInv, TypeOK
  <1>2. c.startedAt \in Nat /\ c.thoughts \in Seq(Recorded) /\ c.thoughts = Held(RunId[j])
    BY <1>1, HeldType DEF AloneSound, TypeInv
  <1>3. CASE \E m \in mirrors : p = <<m.n, m.at>>
    BY <1>3, MirrorType DEF AloneSound, OnceInv, Produced, TypeInv
  <1>4. ASSUME NEW i \in DOMAIN c.thoughts,
               p = <<c.thoughts[i].n, c.startedAt + c.thoughts[i].elapsedMs>>
        PROVE  /\ p[1] \in Nat /\ p[2] \in Nat
               /\ p[1] <= asked[j] /\ (inFlight[j] => p[1] < asked[j])
    <2>1. c.thoughts[i] \in Recorded
      BY <1>2
    <2>2. c.thoughts[i].n \in Nat /\ c.thoughts[i].elapsedMs \in Nat
      BY <2>1 DEF Recorded
    <2>3. Produced(c.thoughts[i]) /\ c.thoughts[i].by = j
      BY <1>1, <1>2 DEF AloneSound, OnceInv, Settled
    <2>. QED  BY <1>2, <1>4, <2>2, <2>3 DEF Produced
  <1>. QED  BY <1>3, <1>4, TimelineElement

\* A report stays what it was while late is told of other journeys only.
LEMMA OwnReportStays ==
    ASSUME NEW k, OwnReport(k), report'[k] = report[k], asked'[k] = asked[k],
           \A t : t.by = k => (t \in late' <=> t \in late)
    PROVE  OwnReport(k)'
  <1>1. [by : {k}, n : 1 .. asked'[k]] \ late' = [by : {k}, n : 1 .. asked[k]] \ late
    OBVIOUS
  <1>. QED  BY <1>1 DEF OwnReport, ThoughtsOf

\* The report of a journey that returns alone.
LEMMA ReturnAlone ==
    ASSUME TypeInv, OnceInv, AloneInv, NEW j \in Alone, Return(j)
    PROVE  OwnReport(j)'
  <1>. USE DEF TypeInv
  <1>. DEFINE c == captures[RunId[j]]
  <1>s. PICK s : s = Held(RunId[j])
    OBVIOUS
  <1>t. PICK t : t = InOrder(s)
    OBVIOUS
  <1>0. j \in Journeys /\ RunId[j] \in RunIds /\ journey[j] = "running" /\ asked[j] \in Nat
    BY CaptureAssumption DEF Alone, Running, TypeOK
  <1>1. AloneSound(j) /\ c # None
    BY DEF AloneInv, AloneSound
  <1>2. s = c.thoughts /\ s \in Seq(Recorded) /\ c.startedAt \in Nat
    BY <1>0, <1>1, <1>s, HeldType
  <1>3. report'[j] = t /\ asked' = asked /\ late' = late \cup Unread(j) /\ ~ inFlight[j]
    BY <1>0, <1>1, <1>2, <1>t DEF Return, TakeRunReasoning, TypeOK
  <1>4. \A i \in DOMAIN s : /\ s[i].by = j /\ s[i].n \in Nat \ {0} /\ s[i].elapsedMs \in Nat
                            /\ s[i].n <= asked[j]
    <2>. TAKE i \in DOMAIN s
    <2>1. s[i] \in Recorded
      BY <1>2
    <2>2. s[i].by = j /\ Produced(s[i])
      BY <1>0, <1>1, <1>2, <1>s DEF AloneSound, OnceInv, Settled
    <2>. QED  BY <2>1, <2>2 DEF Recorded, Produced
  <1>5. Once(s) /\ \A i \in DOMAIN s, m \in mirrors : ~ SameThought(m, s[i])
    BY <1>0, <1>s DEF OnceInv, Settled
  <1>6. /\ \A i \in DOMAIN t : \E k \in DOMAIN s : t[i] = s[k]
        /\ \A k \in DOMAIN s : \E i \in DOMAIN t : t[i] = s[k]
        /\ Once(t)
        /\ \A i, k \in DOMAIN t : i < k => ~ Earlier(t[k], t[i])
    BY <1>2, <1>5, <1>t, InOrderOnce
  <1>7. t \in Seq(Recorded)
    BY <1>2, <1>t, InOrderType
  <1>. DEFINE own == [by : {j}, n : 1 .. asked[j]] \ late'
              told == ThoughtsOf(t)
  <1>8. DOMAIN told = DOMAIN t /\ \A i \in DOMAIN t : told[i] = [by |-> t[i].by, n |-> t[i].n]
    BY DEF ThoughtsOf
  <1>9. ASSUME NEW i \in DOMAIN t PROVE told[i] \in own
    <2>1. PICK k \in DOMAIN s : t[i] = s[k]
      BY <1>6
    <2>2. told[i] = [by |-> j, n |-> s[k].n] /\ s[k].n \in 1 .. asked[j]
      BY <1>0, <1>4, <1>8, <2>1
    <2>3. told[i] \notin late
      BY <1>0, <2>2 DEF AloneInv
    <2>4. told[i] \notin Unread(j)
      <3>1. ASSUME told[i] \in Unread(j) PROVE FALSE
        <4>1. PICK m \in mirrors : told[i] = [by |-> m.by, n |-> m.n]
          BY <3>1 DEF Unread
        <4>2. told[i].by = j /\ told[i].n = s[k].n
          BY <2>2
        <4>3. m.by = j /\ m.n = s[k].n
          BY <4>1, <4>2
        <4>. QED  BY <1>4, <1>5, <4>3 DEF SameThought
      <3>. QED  BY <3>1
    <2>. QED  BY <1>3, <2>2, <2>3, <2>4
  <1>10. ASSUME NEW x \in own PROVE \E i \in DOMAIN t : told[i] = x
    <2>1. x = [by |-> j, n |-> x.n] /\ x.n \in 1 .. asked[j] /\ x \notin Unread(j)
      BY <1>3
    <2>2. PICK p \in Timeline(j) : p[1] = x.n
      BY <1>1, <1>3, <2>1 DEF AloneSound
    <2>3. ~ \E m \in mirrors : p = <<m.n, m.at>>
      <3>1. ASSUME NEW m \in mirrors, p = <<m.n, m.at>> PROVE x \in Unread(j)
        <4>1. m.by = j /\ m.n = x.n
          BY <1>1, <2>2, <3>1 DEF AloneSound
        <4>. QED  BY <2>1, <4>1 DEF Unread
      <3>. QED  BY <2>1, <3>1
    <2>4. PICK k \in DOMAIN s : s[k].n = x.n
      BY <1>2, <2>2, <2>3, TimelineElement
    <2>5. PICK i \in DOMAIN t : t[i] = s[k]
      BY <1>6
    <2>. QED  BY <1>4, <1>8, <2>1, <2>4, <2>5
  <1>11. ASSUME NEW i \in DOMAIN t, NEW k \in DOMAIN t, i < k
         PROVE  told[i].n < told[k].n
    <2>1. PICK a \in DOMAIN s : t[i] = s[a]
      BY <1>6
    <2>2. PICK b \in DOMAIN s : t[k] = s[b]
      BY <1>6
    <2>3. s[a].elapsedMs <= s[b].elapsedMs
      BY <1>4, <1>6, <1>11, <2>1, <2>2 DEF Earlier
    <2>4. s[a].n # s[b].n
      <3>1. i # k
        BY <1>7, <1>11
      <3>. QED  BY <1>4, <1>6, <2>1, <2>2, <3>1 DEF Once, SameThought
    <2>5. ~ (s[b].n < s[a].n)
      <3>. DEFINE p == <<s[a].n, c.startedAt + s[a].elapsedMs>>
                  q == <<s[b].n, c.startedAt + s[b].elapsedMs>>
      <3>1. p \in Timeline(j) /\ q \in Timeline(j)
        BY <1>2, TimelineElement
      <3>2. q[1] < p[1] => q[2] < p[2]
        BY <1>1, <3>1 DEF AloneSound
      <3>3. s[b].n < s[a].n => c.startedAt + s[b].elapsedMs < c.startedAt + s[a].elapsedMs
        BY <3>2
      <3>4. c.startedAt \in Nat /\ s[a].elapsedMs \in Nat /\ s[b].elapsedMs \in Nat
        BY <1>2, <1>4
      <3>. HIDE DEF c
      <3>. QED  BY <2>3, <3>3, <3>4
    <2>. QED  BY <1>4, <1>8, <2>1, <2>2, <2>4, <2>5
  <1>. HIDE DEF own, told
  <1>12. ToSet(told) = own
    BY <1>8, <1>9, <1>10 DEF ToSet
  <1>. QED  BY <1>3, <1>8, <1>11, <1>12 DEF OwnReport, own, told

\* The reading of a copy moves its time from the copy to the capture.
LEMMA DrainKeepsTimeline ==
    ASSUME TypeInv, NEW j \in Journeys, AloneSound(j), NEW m \in mirrors, Drain(m)
    PROVE  AloneSound(j)'
  <1>. USE DEF TypeInv
  <1>q. PICK q : q = RunId[j]
    OBVIOUS
  <1>s. PICK s : s = captures[q].thoughts
    OBVIOUS
  <1>a. PICK since : since = captures[q].startedAt
    OBVIOUS
  <1>e. PICK e : e = Entry(m)
    OBVIOUS
  <1>0. /\ q \in RunIds /\ m.runId = q /\ m.by = j /\ captures[q] # None /\ since < m.at
        /\ since \in Nat /\ s \in Seq(Recorded) /\ e \in Recorded /\ m.at \in Nat
    BY <1>q, <1>s, <1>a, <1>e, CaptureAssumption, MirrorType, HeldType DEF AloneSound
  <1>1. /\ captures'[q] # None /\ captures'[q].startedAt = since
        /\ captures'[q].thoughts = Append(s, e)
    BY <1>0, <1>s, <1>a, <1>e, RecordStep DEF Drain
  <1>2. mirrors' = mirrors \ {m}
        /\ UNCHANGED <<journey, asked, inFlight, installed, activeRunId, clock>>
    BY DEF Drain
  <1>t. PICK t : t = Append(s, e)
    OBVIOUS
  <1>3. /\ \A i \in DOMAIN s : i \in DOMAIN t /\ t[i] = s[i]
        /\ Len(s) + 1 \in DOMAIN t /\ t[Len(s) + 1] = e
        /\ \A i \in DOMAIN t : t[i] = e \/ (i \in DOMAIN s /\ t[i] = s[i])
    BY <1>0, <1>t
  <1>4. e.by = j /\ e.n = m.n /\ since + e.elapsedMs = m.at
    <2>1. e.elapsedMs = m.at - since
      BY <1>0, <1>a, <1>e DEF Entry, Elapsed
    <2>. QED  BY <1>0, <1>e, <2>1 DEF Entry
  <1>5. ASSUME NEW p
        PROVE  p \in Timeline(j) <=>
                 \/ \E x \in mirrors : p = <<x.n, x.at>>
                 \/ \E i \in DOMAIN s : p = <<s[i].n, since + s[i].elapsedMs>>
    BY <1>q, <1>s, <1>a, TimelineElement
  <1>6. ASSUME NEW p
        PROVE  p \in Timeline(j)' <=>
                 \/ \E x \in mirrors' : p = <<x.n, x.at>>
                 \/ \E i \in DOMAIN t : p = <<t[i].n, since + t[i].elapsedMs>>
    BY <1>q, <1>1, <1>t DEF Timeline
  <1>7. ASSUME NEW p PROVE p \in Timeline(j)' <=> p \in Timeline(j)
    <2>1. \A i \in DOMAIN t : t[i] = e =>
              <<t[i].n, since + t[i].elapsedMs>> = <<m.n, m.at>>
      BY <1>4
    <2>2. p \in Timeline(j)' => p \in Timeline(j)
      BY <1>2, <1>3, <1>5, <1>6, <2>1
    <2>3. p = <<m.n, m.at>> => p \in Timeline(j)'
      BY <1>3, <1>6, <2>1
    <2>4. p \in Timeline(j) => p \in Timeline(j)'
      BY <1>2, <1>3, <1>5, <1>6, <2>3
    <2>. QED  BY <2>2, <2>4
  <1>8. Timeline(j)' = Timeline(j)
    BY <1>7
  <1>9. \A i \in DOMAIN captures'[q].thoughts : captures'[q].thoughts[i].by = j
    BY <1>q, <1>s, <1>t, <1>1, <1>3, <1>4 DEF AloneSound
  <1>. QED  BY <1>q, <1>a, <1>1, <1>2, <1>8, <1>9 DEF AloneSound

\* An answer is the latest completion, and later than all before it.
LEMMA AnswerExtendsTimeline ==
    ASSUME TypeInv, OnceInv, NEW j \in Journeys, AloneSound(j), Answer(j)
    PROVE  AloneSound(j)'
  <1>. USE DEF TypeInv
  <1>q. PICK q : q = RunId[j]
    OBVIOUS
  <1>0. /\ q \in RunIds /\ clock \in Nat /\ asked[j] \in Nat /\ installed = 1
        /\ activeRunId = q /\ captures[q] # None
        /\ captures[q].startedAt \in Nat /\ captures[q].startedAt <= clock
    BY <1>q, CaptureAssumption, HeldType DEF AloneSound, TypeOK
  <1>1. /\ inFlight[j] /\ inFlight' = [inFlight EXCEPT ![j] = FALSE] /\ clock' = clock + 1
        /\ UNCHANGED <<journey, asked, installed, captures, activeRunId>>
    BY DEF Answer
  <1>. DEFINE new == [by |-> j, n |-> asked[j], runId |-> q, at |-> clock + 1, wrapper |-> 1]
              last == <<asked[j], clock + 1>>
  <1>2. new \in mirrors'
    BY <1>0, AnswerStep
  <1>3. \A m \in mirrors' : \/ m \in mirrors
                            \/ m.by = j /\ m.n = asked[j] /\ m.runId = q /\ m.at = clock + 1
    BY <1>0, AnswerStep
  <1>4. mirrors \subseteq mirrors'
    BY AnswerStep
  <1>5. \A p : p \in Timeline(j)' <=>
             \/ \E m \in mirrors' : p = <<m.n, m.at>>
             \/ \E i \in DOMAIN captures[q].thoughts :
                  p = <<captures[q].thoughts[i].n,
                        captures[q].startedAt + captures[q].thoughts[i].elapsedMs>>
    BY <1>q, <1>1 DEF Timeline
  <1>6. \A p : p \in Timeline(j)' <=> p \in Timeline(j) \/ p = last
    <2>1. last \in Timeline(j)'
      BY <1>2, <1>5
    <2>2. \A p : p \in Timeline(j) => p \in Timeline(j)'
      BY <1>q, <1>4, <1>5, TimelineElement
    <2>3. \A p : p \in Timeline(j)' => p \in Timeline(j) \/ p = last
      BY <1>q, <1>3, <1>5, TimelineElement
    <2>. QED  BY <2>1, <2>2, <2>3
  <1>7. \A p \in Timeline(j) : /\ p[1] \in Nat /\ p[2] \in Nat /\ p[1] < asked[j]
                               /\ p[2] <= clock
    BY <1>1, TimelineType DEF AloneSound
  <1>8. last[1] = asked[j] /\ last[2] = clock + 1
    OBVIOUS
  <1>. HIDE DEF last, new
  <1>9. \A p \in Timeline(j)' : p[2] <= clock'
    BY <1>0, <1>1, <1>6, <1>7, <1>8
  <1>10. \A p, r \in Timeline(j)' : p[1] < r[1] => p[2] < r[2]
    BY <1>0, <1>6, <1>7, <1>8 DEF AloneSound
  <1>11. \A n \in 1 .. asked[j] : \E p \in Timeline(j)' : p[1] = n
    <2>1. \A n \in 1 .. asked[j] : n < asked[j] \/ n = asked[j]
      BY <1>0
    <2>. QED  BY <1>6, <1>8, <2>1 DEF AloneSound
  <1>12. \A m \in mirrors' : m.by = j /\ m.runId = q /\ captures[q].startedAt < m.at
    BY <1>q, <1>0, <1>3 DEF AloneSound
  <1>13. \A k \in Journeys : k # j => journey'[k] # "running" /\ ~ inFlight'[k]
    BY <1>1 DEF AloneSound, TypeOK
  <1>14. captures[q].startedAt <= clock'
    BY <1>0, <1>1
  <1>15. \A i \in DOMAIN captures[q].thoughts : captures[q].thoughts[i].by = j
    BY <1>q DEF AloneSound
  <1>. QED
    BY <1>q, <1>0, <1>1, <1>9, <1>10, <1>11, <1>12, <1>13, <1>14, <1>15 DEF AloneSound

LEMMA AloneStep ==
    ASSUME TypeInv, OnceInv, AloneInv, [Next]_vars
    PROVE  AloneInv'
  <1>. USE DEF TypeInv
  <1>r. ASSUME NEW k \in Journeys \ overlapped, journey[k] = "returned" PROVE OwnReport(k)
    BY <1>r DEF AloneInv, AloneReportsItsOwn
  <1>l. \A t \in late : t.by \in Journeys
    BY DEF TypeOK, Thought
  <1>a. ASSUME NEW k \in Alone PROVE AloneSound(k) /\ k \in Journeys
    BY DEF AloneInv, Alone, Running
  <1>Start. ASSUME NEW j \in Journeys, Start(j) PROVE AloneInv'
    <2>1. /\ journey[j] = "new" /\ journey'[j] = "running"
          /\ \A k \in Journeys : k # j => journey'[k] = journey[k]
          /\ UNCHANGED <<asked, inFlight, clock, mirrors, report, late>>
      BY <1>Start DEF Start, TypeOK
    <2>2. \A k \in Journeys : journey'[k] = "new" => asked'[k] = 0
      BY <2>1 DEF AloneInv
    <2>3. \A t \in late' : journey'[t.by] = "returned"
      BY <1>l, <2>1 DEF AloneInv
    <2>4. ASSUME NEW k \in Alone' PROVE AloneSound(k)'
      <3>1. k = j /\ Running = {} /\ Lingering = {}
        BY <1>Start, <2>1, <2>4 DEF Start, Alone, Running
      <3>2. /\ \A x \in Journeys : journey[x] # "running" /\ ~ inFlight[x]
            /\ \A m \in mirrors : m.by \notin Journeys
        BY <3>1 DEF Lingering, Running
      <3>3. mirrors = {}
        BY <3>2, MirrorType
      <3>4. RunId[j] \in RunIds /\ clock \in Nat /\ asked'[j] = 0
        BY <2>1, CaptureAssumption DEF AloneInv, TypeOK
      <3>5. captures'[RunId[j]] = [startedAt |-> clock, thoughts |-> <<>>]
        BY <1>Start, <3>4 DEF Start, TypeOK
      <3>6. [startedAt |-> clock, thoughts |-> <<>>] # None
        <4>1. <<>> \in Seq(Recorded)
          OBVIOUS
        <4>2. [startedAt |-> clock, thoughts |-> <<>>] \in Capture
          BY <3>4, <4>1 DEF Capture
        <4>. QED  BY <4>2, CaptureAssumption
      <3>7. Timeline(j)' = {}
        BY <2>1, <3>3, <3>5 DEF Timeline
      <3>8. installed' = 1 /\ activeRunId' = RunId[j]
        BY <1>Start DEF Start, InstallReasoningCapture, OnceInv
      <3>9. 1 .. asked'[j] = {}
        BY <3>4
      <3>. QED
        BY <2>1, <3>1, <3>2, <3>3, <3>4, <3>5, <3>6, <3>7, <3>8, <3>9 DEF AloneSound
    <2>5. ASSUME NEW k \in Journeys \ overlapped', journey'[k] = "returned"
          PROVE  OwnReport(k)'
      <3>1. k \in Journeys \ overlapped /\ journey[k] = "returned"
        BY <1>Start, <2>1, <2>5 DEF Start
      <3>. QED  BY <1>r, <2>1, <3>1, OwnReportStays
    <2>. QED  BY <2>2, <2>3, <2>4, <2>5 DEF AloneInv, AloneReportsItsOwn
  <1>Ask. ASSUME NEW j \in Journeys, Ask(j) PROVE AloneInv'
    <2>1. /\ journey[j] = "running" /\ ~ inFlight[j] /\ asked[j] \in Nat
          /\ asked' = [asked EXCEPT ![j] = asked[j] + 1]
          /\ inFlight' = [inFlight EXCEPT ![j] = TRUE]
          /\ UNCHANGED <<journey, installed, captures, activeRunId, clock, mirrors, report,
                         overlapped, late>>
      BY <1>Ask DEF Ask, Running, TypeOK
    <2>2. ASSUME NEW k \in Alone' PROVE AloneSound(k)'
      <3>1. k = j /\ AloneSound(j)
        BY <1>a, <2>1 DEF Alone, Running, AloneSound
      <3>2. Timeline(j)' = Timeline(j)
        BY <2>1 DEF Timeline
      <3>3. asked'[j] = asked[j] + 1 /\ inFlight'[j]
            /\ \A x \in Journeys : x # j => inFlight'[x] = inFlight[x]
        BY <2>1 DEF TypeOK
      <3>4. \A n \in 1 .. asked[j] + 1 : n < asked[j] + 1 => n \in 1 .. asked[j]
        BY <2>1
      <3>. QED  BY <2>1, <3>1, <3>2, <3>3, <3>4 DEF AloneSound
    <2>3. ASSUME NEW k \in Journeys \ overlapped', journey'[k] = "returned"
          PROVE  OwnReport(k)'
      <3>1. k \in Journeys \ overlapped /\ journey[k] = "returned" /\ k # j
        BY <2>1, <2>3
      <3>2. asked'[k] = asked[k]
        BY <2>1, <3>1 DEF TypeOK
      <3>. QED  BY <1>r, <2>1, <3>1, <3>2, OwnReportStays
    <2>4. \A k \in Journeys : journey'[k] = "new" => asked'[k] = 0
      BY <2>1 DEF AloneInv, TypeOK
    <2>5. \A t \in late' : journey'[t.by] = "returned"
      BY <2>1 DEF AloneInv
    <2>. QED  BY <2>2, <2>3, <2>4, <2>5 DEF AloneInv, AloneReportsItsOwn
  <1>Answer. ASSUME NEW j \in Journeys, Answer(j) PROVE AloneInv'
    <2>1. inFlight[j] /\ UNCHANGED <<journey, asked, report, overlapped, late>>
      BY <1>Answer DEF Answer
    <2>2. ASSUME NEW k \in Alone' PROVE AloneSound(k)'
      <3>1. k = j /\ AloneSound(j)
        BY <1>a, <2>1 DEF Alone, Running, AloneSound
      <3>. QED  BY <1>Answer, <3>1, AnswerExtendsTimeline
    <2>3. ASSUME NEW k \in Journeys \ overlapped', journey'[k] = "returned"
          PROVE  OwnReport(k)'
      BY <1>r, <2>1, <2>3, OwnReportStays
    <2>. QED  BY <2>1, <2>2, <2>3 DEF AloneInv, AloneReportsItsOwn
  <1>Drain. ASSUME NEW m \in mirrors, Drain(m) PROVE AloneInv'
    <2>1. UNCHANGED <<journey, asked, report, overlapped, late>>
      BY <1>Drain DEF Drain
    <2>2. ASSUME NEW k \in Alone' PROVE AloneSound(k)'
      BY <1>a, <1>Drain, <2>1, DrainKeepsTimeline DEF Alone, Running
    <2>3. ASSUME NEW k \in Journeys \ overlapped', journey'[k] = "returned"
          PROVE  OwnReport(k)'
      BY <1>r, <2>1, <2>3, OwnReportStays
    <2>. QED  BY <2>1, <2>2, <2>3 DEF AloneInv, AloneReportsItsOwn
  <1>Return. ASSUME NEW j \in Journeys, Return(j) PROVE AloneInv'
    <2>1. /\ journey[j] = "running" /\ journey'[j] = "returned"
          /\ \A k \in Journeys : k # j => journey'[k] = journey[k] /\ report'[k] = report[k]
          /\ late' = late \cup Unread(j) /\ UNCHANGED <<asked, overlapped>>
      BY <1>Return DEF Return, Running, TakeRunReasoning, TypeOK
    <2>2. \A t \in Unread(j) : t.by = j
      BY DEF Unread
    <2>3. Alone' = {}
      <3>1. ASSUME NEW k \in Alone' PROVE FALSE
        <4>1. k \in Alone /\ k # j
          BY <2>1 DEF Alone, Running
        <4>. QED  BY <1>a, <2>1, <4>1 DEF AloneSound
      <3>. QED  BY <3>1
    <2>4. ASSUME NEW k \in Journeys \ overlapped', journey'[k] = "returned"
          PROVE  OwnReport(k)'
      <3>1. CASE k = j
        <4>1. j \in Alone
          BY <2>1, <2>4, <3>1 DEF Alone, Running
        <4>. QED  BY <1>Return, <3>1, <4>1, ReturnAlone
      <3>2. CASE k # j
        <4>1. OwnReport(k)
          BY <1>r, <2>1, <2>4, <3>2
        <4>. QED  BY <2>1, <2>2, <3>2, <4>1, OwnReportStays
      <3>. QED  BY <3>1, <3>2
    <2>5. \A t \in late' : journey'[t.by] = "returned"
      BY <1>l, <2>1, <2>2 DEF AloneInv
    <2>6. \A k \in Journeys : journey'[k] = "new" => asked'[k] = 0
      BY <2>1 DEF AloneInv
    <2>. QED  BY <2>3, <2>4, <2>5, <2>6 DEF AloneInv, AloneReportsItsOwn
  <1>Throw. ASSUME NEW j \in Journeys, Throw(j) PROVE AloneInv'
    <2>1. /\ journey[j] = "running" /\ journey'[j] = "failed"
          /\ \A k \in Journeys : k # j => journey'[k] = journey[k]
          /\ UNCHANGED <<asked, report, overlapped, late>>
      BY <1>Throw DEF Throw, Running, TypeOK
    <2>2. Alone' = {}
      <3>1. ASSUME NEW k \in Alone' PROVE FALSE
        <4>1. k \in Alone /\ k # j
          BY <2>1 DEF Alone, Running
        <4>. QED  BY <1>a, <2>1, <4>1 DEF AloneSound
      <3>. QED  BY <3>1
    <2>3. ASSUME NEW k \in Journeys \ overlapped', journey'[k] = "returned"
          PROVE  OwnReport(k)'
      <3>1. k # j /\ journey[k] = "returned" /\ k \in Journeys \ overlapped
        BY <2>1, <2>3
      <3>. QED  BY <1>r, <2>1, <3>1, OwnReportStays
    <2>4. \A t \in late' : journey'[t.by] = "returned"
      BY <1>l, <2>1 DEF AloneInv
    <2>5. \A k \in Journeys : journey'[k] = "new" => asked'[k] = 0
      BY <2>1 DEF AloneInv
    <2>. QED  BY <2>2, <2>3, <2>4, <2>5 DEF AloneInv, AloneReportsItsOwn
  <1>idle. CASE UNCHANGED vars
    <2>1. UNCHANGED <<journey, asked, inFlight, installed, captures, activeRunId, clock, mirrors,
                      report, overlapped, late>>
      BY <1>idle DEF vars
    <2>2. ASSUME NEW j PROVE AloneSound(j) => AloneSound(j)'
      <3>1. Timeline(j)' = Timeline(j)
        BY <2>1 DEF Timeline
      <3>. QED  BY ONLY <2>1, <3>1 DEF AloneSound
    <2>3. Alone' = Alone
      BY <2>1 DEF Alone, Running
    <2>4. ASSUME NEW k, OwnReport(k) PROVE OwnReport(k)'
      BY <2>1, <2>4, OwnReportStays
    <2>. QED  BY ONLY <2>1, <2>2, <2>3, <2>4, AloneInv DEF AloneInv, AloneReportsItsOwn
  <1>. QED
    BY <1>Start, <1>Ask, <1>Answer, <1>Drain, <1>Return, <1>Throw, <1>idle DEF Next

\* A journey that shared its time with no other reports the reasoning of all
\* its completions that was read before it returned, each once, in the order
\* the model produced it, and none of another journey: its capture is the one
\* registered and active, and the time since it began orders the completions.
THEOREM AloneReportsItsOwnAlways == Spec => []AloneReportsItsOwn
  <1>1. Init => TypeInv /\ OnceInv /\ AloneInv
    <2>1. Init => TypeInv
      BY CaptureAssumption DEF Init, TypeInv, TypeOK
    <2>2. Init => AloneInv
      BY DEF Init, AloneInv, Alone, Running, AloneReportsItsOwn
    <2>. QED  BY <2>1, <2>2, OnceInit
  <1>2. TypeInv /\ OnceInv /\ AloneInv /\ [Next]_vars => TypeInv' /\ OnceInv' /\ AloneInv'
    BY TypeStep, OnceStep, AloneStep
  <1>3. AloneInv => AloneReportsItsOwn
    BY DEF AloneInv
  <1>. QED  BY <1>1, <1>2, <1>3, PTL DEF Spec
=============================================================================
