--------------------------- MODULE WorkbenchProofs ---------------------------
(***************************************************************************)
(* Theorems about Workbench, a browser tab at work on its personas beside  *)
(* an API client, and about PersonaRuntime, which serves both: for every   *)
(* set of workspaces, every pool, every number of personas and every       *)
(* number of mishaps.                                                      *)
(***************************************************************************)
EXTENDS Workbench, FiniteSetTheorems, SequenceTheorems, TLAPS

-----------------------------------------------------------------------------
(* The order of a list.                                                    *)

\* In a finite strict total order the number of elements before each one runs
\* from 0 to one less than the size of the set, without a repetition.
LEMMA Ranks ==
    ASSUME NEW D, IsFiniteSet(D), NEW before \in [D -> SUBSET D],
           \A i \in D : i \notin before[i],
           \A i, k \in D : i # k => k \in before[i] \/ i \in before[k],
           \A i, k \in D : k \in before[i] => before[k] \subseteq before[i]
    PROVE  /\ Cardinality(D) \in Nat
           /\ \A i \in D : IsFiniteSet(before[i]) /\ Cardinality(before[i]) \in Nat
           /\ \A i \in D : Cardinality(before[i]) < Cardinality(D)
           /\ \A i, k \in D : k \in before[i] => Cardinality(before[k]) < Cardinality(before[i])
           /\ \A i, k \in D : Cardinality(before[i]) = Cardinality(before[k]) => i = k
           /\ \A m \in 1 .. Cardinality(D) : \E i \in D : Cardinality(before[i]) = m - 1
  <1>n. PICK n : n = Cardinality(D)
    OBVIOUS
  <1>0. n \in Nat
    BY <1>n, FS_CardinalityType
  <1>1. ASSUME NEW i \in D
        PROVE  IsFiniteSet(before[i]) /\ Cardinality(before[i]) \in Nat /\ Cardinality(before[i]) < n
    <2>1. before[i] \in SUBSET D /\ before[i] # D
      OBVIOUS
    <2>. QED  BY <1>0, <1>n, <2>1, FS_Subset, FS_CardinalityType
  <1>2. ASSUME NEW i \in D, NEW k \in D, k \in before[i]
        PROVE  Cardinality(before[k]) < Cardinality(before[i])
    <2>1. before[k] \in SUBSET before[i] /\ before[k] # before[i]
      BY <1>2
    <2>. QED  BY <1>1, <2>1, FS_Subset
  <1>3. \A i, k \in D : Cardinality(before[i]) = Cardinality(before[k]) => i = k
    BY <1>1, <1>2
  <1>. DEFINE rank == [i \in D |-> Cardinality(before[i]) + 1]
  <1>4. rank \in Injection(D, 1 .. n)
    <2>1. rank \in [D -> 1 .. n]
      BY <1>0, <1>1
    <2>2. \A i, k \in D : rank[i] = rank[k] => i = k
      BY <1>1, <1>3
    <2>. QED  BY <2>1, <2>2 DEF Injection, IsInjective
  <1>5. rank \in Surjection(D, 1 .. n)
    <2>1. IsFiniteSet(1 .. n) /\ Cardinality(1 .. n) = n
      BY <1>0, FS_Interval
    <2>. HIDE DEF rank
    <2>. QED  BY <1>4, <1>n, <2>1, FS_Injection
  <1>6. ASSUME NEW m \in 1 .. n PROVE \E i \in D : Cardinality(before[i]) = m - 1
    <2>1. PICK i \in D : rank[i] = m
      BY <1>5 DEF Surjection
    <2>2. Cardinality(before[i]) = m - 1
      BY <1>1, <2>1
    <2>. QED  BY <2>2
  <1>. QED  BY <1>0, <1>1, <1>2, <1>3, <1>6, <1>n

\* In a finite set of integers, the numbers of smaller ones tell its elements
\* apart, and every number below that of all is taken.
LEMMA IntegerRanks ==
    ASSUME NEW D, \A i \in D : i \in Int, IsFiniteSet(D)
    PROVE  /\ Cardinality(D) \in Nat
           /\ \A i \in D : Cardinality({j \in D : j < i}) \in Nat
           /\ \A i \in D : Cardinality({j \in D : j < i}) < Cardinality(D)
           /\ \A i, k \in D : k < i =>
                Cardinality({j \in D : j < k}) < Cardinality({j \in D : j < i})
           /\ \A n \in 1 .. Cardinality(D) : \E i \in D : Cardinality({j \in D : j < i}) = n - 1
  <1>b. PICK before : before = [i \in D |-> {j \in D : j < i}]
    OBVIOUS
  <1>i. \A i \in D : i \in Int
    OBVIOUS
  <1>a. before \in [D -> SUBSET D] /\ \A i, k \in D : k \in before[i] <=> k < i
    BY <1>b
  <1>r. \A i \in D : i \notin before[i]
    BY <1>i, <1>a
  <1>o. \A i, k \in D : i # k => k \in before[i] \/ i \in before[k]
    BY <1>i, <1>a
  <1>t. \A i, k \in D : k \in before[i] => before[k] \subseteq before[i]
    <2>1. \A i, k, j \in D : k < i /\ j < k => j < i
      BY <1>i
    <2>. QED  BY <1>a, <2>1
  <1>1. /\ Cardinality(D) \in Nat
        /\ \A i \in D : Cardinality(before[i]) \in Nat
        /\ \A i \in D : Cardinality(before[i]) < Cardinality(D)
        /\ \A i, k \in D : k \in before[i] => Cardinality(before[k]) < Cardinality(before[i])
        /\ \A m \in 1 .. Cardinality(D) : \E i \in D : Cardinality(before[i]) = m - 1
    BY <1>a, <1>r, <1>o, <1>t, Ranks
  <1>2. \A i, k \in D : (k \in before[i] <=> k < i) /\ before[i] = {j \in D : j < i}
    BY <1>a, <1>b
  <1>. HIDE <1>b
  <1>. QED  BY <1>1, <1>2

-----------------------------------------------------------------------------
(* The persona runtime.                                                    *)

ProfileType == [id : Nat, rev : Nat]

CallFields == {"op", "workspace", "count", "profile", "allow", "step", "attempt", "people",
               "queued", "round", "bad", "mock", "chosen", "out", "saved", "result"}

CallType(call) ==
    /\ DOMAIN call = CallFields
    /\ call.op \in Ops /\ call.workspace \in Workspaces
    /\ call.count \in Nat \ {0} /\ call.people \in Nat
    /\ call.profile \in ProfileType
    /\ call.result \in {"none", "ok", "error"}
    /\ call.attempt \in 0 .. BatchAttempts /\ call.round \in 0 .. Attempts
    /\ call.out \in Seq(Nat) /\ call.saved \in Seq(ProfileType)

\* A request as the client sends it.
Posted(call) ==
    /\ CallType(call)
    /\ call.step = call.op /\ call.result = "none"
    /\ call.attempt = 0 /\ call.round = 0
    /\ call.out = <<>> /\ call.saved = <<>>
    /\ ~call.bad

\* What a request at a step has and has not done.
CallProgress(call) ==
    /\ call.step \in {"people", "compile", "save", "index", "adopt", "list", "patch", "done"}
    /\ call.result = "none" <=> call.step # "done"
    /\ call.step = "people" => call.attempt < BatchAttempts /\ call.op = "generate"
    /\ call.step = "compile" =>
         call.people > 0 /\ call.op \in {"generate", "compile"}
    /\ call.step \in {"people", "compile"} => call.saved = <<>>
    /\ call.step = "save" => call.out # <<>> /\ call.op \in {"generate", "compile", "patch"}
    /\ call.step \in {"index", "adopt"} => call.op = "lookup"
    /\ call.step = "list" => call.op = "list"
    /\ call.step = "patch" => call.op = "patch"
    /\ call.op \in {"generate", "compile", "patch"} /\ call.result = "ok" => call.saved # <<>>
    /\ call.bad => call.step = "done" /\ call.saved = <<>>

CallInv(call) == CallType(call) /\ CallProgress(call)

LEMMA CallIsPosted ==
    ASSUME NEW op \in Ops, NEW w \in Workspaces, NEW n \in Nat \ {0}
    PROVE  /\ op \in {"compile", "lookup", "list", "generate"} => Posted(Call(op, w, n))
           /\ Call(op, w, n).op = op
           /\ \A allow \in BOOLEAN :
                op = "generate" =>
                  /\ Posted([Call(op, w, n) EXCEPT !.allow = allow])
                  /\ [Call(op, w, n) EXCEPT !.allow = allow].op = op
           /\ \A p \in ProfileType :
                op = "patch" =>
                  /\ Posted([Call(op, w, n) EXCEPT !.profile = p])
                  /\ [Call(op, w, n) EXCEPT !.profile = p].op = op
  <1>0. <<>> \in Seq(Nat) /\ <<>> \in Seq(ProfileType)
    OBVIOUS
  <1>1. Profile(0, 0) \in ProfileType
    BY DEF Profile, ProfileType
  <1>2. 0 \in 0 .. BatchAttempts /\ 0 \in 0 .. Attempts
    BY AttemptsAssumption
  <1>3. op \in {"compile", "lookup", "list", "generate"} => Posted(Call(op, w, n))
    BY <1>0, <1>1, <1>2 DEF Posted, CallType, CallFields, Call, Ops
  <1>. QED  BY <1>0, <1>1, <1>2, <1>3 DEF Posted, CallType, CallFields, Call, Ops

LEMMA ReceivedInv ==
    ASSUME NEW call, Posted(call)
    PROVE  /\ CallInv(Received(call))
           /\ Received(call).op = call.op
           /\ Received(call).out = <<>> /\ Received(call).saved = <<>>
  <1>1. 1 \in 0 .. Attempts /\ 0 < BatchAttempts
    BY AttemptsAssumption
  <1>2. CASE call.op = "generate" /\ tinytroupe
    BY <1>1, <1>2 DEF Posted, CallInv, CallType, CallProgress, CallFields, Received, Ops
  <1>3. CASE call.op = "generate" /\ ~tinytroupe
    <2>1. Received(call) = [call EXCEPT !.step = "compile", !.people = 1 + (call.count - 1),
                                        !.queued = call.count - 1, !.round = 1, !.mock = FALSE]
      BY <1>3 DEF Received, Offline, Compiling
    <2>2. 1 + (call.count - 1) \in Nat /\ 1 + (call.count - 1) > 0
      BY DEF Posted, CallType
    <2>3. PICK r : r = Received(call)
      OBVIOUS
    <2>4. /\ DOMAIN r = CallFields /\ r.people = 1 + (call.count - 1)
          /\ r.step = "compile" /\ r.round = 1
          /\ \A f \in CallFields \ {"step", "people", "queued", "round", "mock"} : r[f] = call[f]
      BY <2>1, <2>3 DEF Posted, CallType, CallFields
    <2>. HIDE <2>1, <2>3
    <2>5. CallInv(r)
      BY <1>1, <1>3, <2>2, <2>4 DEF Posted, CallInv, CallType, CallProgress, CallFields, Ops
    <2>. QED  BY <2>3, <2>4, <2>5 DEF CallFields, Posted
  <1>4. CASE call.op = "compile"
    <2>1. Received(call) = [call EXCEPT !.step = "compile", !.people = 1 + 0,
                                        !.queued = 0, !.round = 1]
      BY <1>4 DEF Received, Compiling
    <2>3. PICK r : r = Received(call)
      OBVIOUS
    <2>4. /\ DOMAIN r = CallFields /\ r.people = 1 + 0
          /\ r.step = "compile" /\ r.round = 1
          /\ \A f \in CallFields \ {"step", "people", "queued", "round"} : r[f] = call[f]
      BY <2>1, <2>3 DEF Posted, CallType, CallFields
    <2>. HIDE <2>3
    <2>2. 1 + 0 \in Nat /\ 1 + 0 > 0
      OBVIOUS
    <2>5. CallInv(r)
      BY <1>1, <1>4, <2>2, <2>4 DEF Posted, CallInv, CallType, CallProgress, CallFields, Ops
    <2>. QED  BY <2>3, <2>4, <2>5 DEF CallFields, Posted
  <1>5. CASE call.op = "lookup"
    BY <1>1, <1>5 DEF Posted, CallInv, CallType, CallProgress, CallFields, Received, Ops
  <1>6. CASE call.op \in {"list", "patch"}
    BY <1>1, <1>6 DEF Posted, CallInv, CallType, CallProgress, CallFields, Received, Ops
  <1>. QED  BY <1>2, <1>3, <1>4, <1>5, <1>6 DEF Posted, CallType, Ops

-----------------------------------------------------------------------------
(* Sequences of any kind of thing.                                         *)

Sequence(s) == s \in Seq(ToSet(s))

LEMMA SequenceFacts ==
    ASSUME NEW s, Sequence(s)
    PROVE  /\ Len(s) \in Nat /\ DOMAIN s = 1 .. Len(s)
           /\ \A e : /\ Sequence(Append(s, e))
                     /\ Len(Append(s, e)) = Len(s) + 1
                     /\ DOMAIN Append(s, e) = DOMAIN s \cup {Len(s) + 1}
                     /\ \A i \in DOMAIN s : Append(s, e)[i] = s[i]
                     /\ Append(s, e)[Len(s) + 1] = e
           /\ \A e : \A i \in DOMAIN s : /\ Sequence([s EXCEPT ![i] = e])
                                         /\ Len([s EXCEPT ![i] = e]) = Len(s)
                                         /\ DOMAIN [s EXCEPT ![i] = e] = DOMAIN s
  <1>1. Len(s) \in Nat /\ DOMAIN s = 1 .. Len(s)
    BY DEF Sequence
  <1>2. ASSUME NEW e
        PROVE  /\ Sequence(Append(s, e))
               /\ Len(Append(s, e)) = Len(s) + 1
               /\ DOMAIN Append(s, e) = DOMAIN s \cup {Len(s) + 1}
               /\ \A i \in DOMAIN s : Append(s, e)[i] = s[i]
               /\ Append(s, e)[Len(s) + 1] = e
    <2>. DEFINE S == ToSet(s) \cup {e}
    <2>1. s \in Seq(S) /\ e \in S
      BY DEF Sequence
    <2>. HIDE DEF S
    <2>2. /\ Append(s, e) \in Seq(S)
          /\ Len(Append(s, e)) = Len(s) + 1
          /\ \A i \in 1 .. Len(s) : Append(s, e)[i] = s[i]
          /\ Append(s, e)[Len(s) + 1] = e
      BY <2>1
    <2>3. DOMAIN Append(s, e) = 1 .. (Len(s) + 1)
      BY <2>2
    <2>4. DOMAIN Append(s, e) = DOMAIN s \cup {Len(s) + 1}
      BY <1>1, <2>3
    <2>5. Sequence(Append(s, e))
      <3>1. \A i \in 1 .. Len(Append(s, e)) : Append(s, e)[i] \in ToSet(Append(s, e))
        BY <2>2, <2>3 DEF ToSet
      <3>. QED  BY <2>2, <3>1 DEF Sequence
    <2>. QED  BY <1>1, <2>2, <2>4, <2>5
  <1>3. ASSUME NEW i \in DOMAIN s, NEW e
        PROVE  /\ Sequence([s EXCEPT ![i] = e])
               /\ Len([s EXCEPT ![i] = e]) = Len(s)
               /\ DOMAIN [s EXCEPT ![i] = e] = DOMAIN s
    <2>. DEFINE S == ToSet(s) \cup {e}
    <2>1. s \in Seq(S) /\ e \in S
      BY DEF Sequence
    <2>. HIDE DEF S
    <2>2. PICK t : t = [s EXCEPT ![i] = e]
      OBVIOUS
    <2>3. t \in Seq(S) /\ Len(t) = Len(s) /\ DOMAIN t = DOMAIN s
      BY <2>1, <2>2
    <2>4. Sequence(t)
      <3>1. \A k \in 1 .. Len(t) : t[k] \in ToSet(t)
        BY <1>1, <2>3 DEF ToSet
      <3>. QED  BY <2>3, <3>1 DEF Sequence
    <2>. QED  BY <2>2, <2>3, <2>4
  <1>. QED  BY <1>1, <1>2, <1>3

-----------------------------------------------------------------------------
(* What the runtime keeps of its requests.                                 *)

\* The requests that make profiles of their own.
New == {"generate", "compile", "lookup"}

\* The profiles a request has stored, and those it is about to store.
Holds(c) == Ids(calls[c].saved) \cup ToSet(calls[c].out)

RowsInv ==
    /\ minted \in Nat
    /\ DOMAIN rows \subseteq 1 .. minted
    /\ \A id \in DOMAIN rows : rows[id] \in Row

CallSound(c) ==
    /\ CallInv(calls[c])
    /\ Ids(calls[c].saved) \subseteq OwnIds(calls[c].workspace)
    /\ ToSet(calls[c].out) \subseteq 1 .. minted
    /\ calls[c].op = "patch" => ToSet(calls[c].out) \subseteq OwnIds(calls[c].workspace)
    /\ calls[c].op \in New =>
         IsInjective(calls[c].out) /\ ToSet(calls[c].out) \cap DOMAIN rows = {}

RuntimeInv ==
    /\ tinytroupe \in BOOLEAN
    /\ cache \in Published \cup {Missing}
    /\ mishaps \in 0 .. MaxMishaps
    /\ RowsInv /\ Sequence(calls)
    /\ \A c \in DOMAIN calls : CallSound(c)
    /\ \A c, d \in DOMAIN calls :
         c # d /\ calls[c].op \in New /\ calls[d].op \in New => Holds(c) \cap Holds(d) = {}

\* What no step of the runtime takes away.
Grows ==
    /\ \A id \in DOMAIN rows : id \in DOMAIN rows' /\ rows'[id].workspace = rows[id].workspace
    /\ Len(calls) \in Nat /\ Len(calls') \in Nat /\ Len(calls) <= Len(calls')
    /\ \A c \in DOMAIN calls : c \in DOMAIN calls' /\ calls'[c].op = calls[c].op

Kept == cache' \in Published \cup {Missing} /\ mishaps' \in 0 .. MaxMishaps /\ tinytroupe' \in BOOLEAN

\* A request that goes on without breaking what is kept of it keeps it of all.
LEMMA CallStep ==
    ASSUME RuntimeInv, NEW c \in DOMAIN calls, NEW call, Becomes(c, call),
           Kept, RowsInv', minted <= minted',
           \A id \in DOMAIN rows : id \in DOMAIN rows' /\ rows'[id].workspace = rows[id].workspace,
           CallInv(call), call.op = calls[c].op, call.workspace = calls[c].workspace,
           Ids(call.saved) \subseteq OwnIds(call.workspace)',
           ToSet(call.out) \subseteq 1 .. minted',
           call.op = "patch" => ToSet(call.out) \subseteq OwnIds(call.workspace)',
           call.op \in New =>
             /\ IsInjective(call.out) /\ ToSet(call.out) \cap DOMAIN rows' = {}
             /\ \A id \in Ids(call.saved) \cup ToSet(call.out) : id \in Holds(c) \/ id \notin 1 .. minted,
           \A d \in DOMAIN calls \ {c} : calls[d].op \in New =>
             \A id \in ToSet(calls[d].out) : id \in DOMAIN rows' => id \in DOMAIN rows
    PROVE  RuntimeInv' /\ Grows
  <1>1. /\ Sequence(calls') /\ Len(calls') = Len(calls) /\ DOMAIN calls' = DOMAIN calls
        /\ calls'[c] = call /\ \A d \in DOMAIN calls \ {c} : calls'[d] = calls[d]
        /\ Len(calls) \in Nat
    BY SequenceFacts DEF Becomes, RuntimeInv, Sequence
  <1>2. Grows
    BY <1>1 DEF Grows
  <1>3. \A w : OwnIds(w) \subseteq OwnIds(w)'
    BY DEF OwnIds
  <1>4. minted \in Nat /\ minted' \in Nat /\ 1 .. minted \subseteq 1 .. minted'
    BY DEF RuntimeInv, RowsInv
  <1>5. ASSUME NEW d \in DOMAIN calls PROVE CallSound(d)'
    <2>1. CASE d = c
      BY <1>1, <2>1 DEF CallSound
    <2>2. CASE d # c
      <3>1. calls'[d] = calls[d] /\ CallSound(d)
        BY <1>1, <2>2 DEF RuntimeInv
      <3>2. Ids(calls[d].saved) \subseteq OwnIds(calls[d].workspace)'
        BY <1>3, <3>1 DEF CallSound
      <3>3. ToSet(calls[d].out) \subseteq 1 .. minted'
        BY <1>4, <3>1 DEF CallSound
      <3>4. calls[d].op = "patch" => ToSet(calls[d].out) \subseteq OwnIds(calls[d].workspace)'
        BY <1>3, <3>1 DEF CallSound
      <3>5. calls[d].op \in New =>
              IsInjective(calls[d].out) /\ ToSet(calls[d].out) \cap DOMAIN rows' = {}
        BY <2>2, <3>1 DEF CallSound
      <3>6. CallInv(calls[d])
        BY <3>1 DEF CallSound
      <3>. QED  BY <3>1, <3>2, <3>3, <3>4, <3>5, <3>6 DEF CallSound
    <2>. QED  BY <2>1, <2>2
  <1>6. ASSUME NEW d \in DOMAIN calls, calls[d].op \in New PROVE Holds(d) \subseteq 1 .. minted
    <2>1. CallSound(d) /\ RowsInv
      BY DEF RuntimeInv
    <2>. QED  BY <2>1 DEF CallSound, RowsInv, Holds, OwnIds
  <1>7. ASSUME NEW d \in DOMAIN calls, NEW e \in DOMAIN calls, d # e,
               calls'[d].op \in New, calls'[e].op \in New
        PROVE  Holds(d)' \cap Holds(e)' = {}
    <2>1. calls[d].op \in New /\ calls[e].op \in New
      BY <1>1, <1>7
    <2>2. \A x \in DOMAIN calls \ {c} : Holds(x)' = Holds(x)
      BY <1>1 DEF Holds
    <2>3. Holds(d) \cap Holds(e) = {}
      BY <1>7, <2>1 DEF RuntimeInv
    <2>4. CASE d # c /\ e # c
      BY <2>2, <2>3, <2>4
    <2>5. call.op \in New => \A id \in Holds(c)' : id \in Holds(c) \/ id \notin 1 .. minted
      BY <1>1 DEF Holds
    <2>6. CASE d = c
      BY <1>1, <1>6, <1>7, <2>1, <2>2, <2>3, <2>5, <2>6
    <2>7. CASE e = c
      BY <1>1, <1>6, <1>7, <2>1, <2>2, <2>3, <2>5, <2>7
    <2>. QED  BY <2>4, <2>6, <2>7
  <1>. QED  BY <1>1, <1>2, <1>5, <1>7 DEF RuntimeInv, Kept

\* A request that arrives does so, too.
LEMMA AskStep ==
    ASSUME RuntimeInv, NEW call, Posted(call), Ask(call),
           UNCHANGED <<tinytroupe, rows, minted, cache, mishaps>>
    PROVE  /\ RuntimeInv' /\ Grows
           /\ Len(calls) + 1 \in DOMAIN calls' /\ calls'[Len(calls) + 1].op = call.op
           /\ Len(calls') = Len(calls) + 1
  <1>p. PICK new, n : new = Received(call) /\ n = Len(calls) + 1
    OBVIOUS
  <1>r. CallInv(new) /\ new.op = call.op /\ new.out = <<>> /\ new.saved = <<>>
    BY <1>p, ReceivedInv
  <1>u. calls' = Append(calls, new)
    BY <1>p DEF Ask
  <1>1. /\ Sequence(calls') /\ Len(calls') = n /\ DOMAIN calls' = DOMAIN calls \cup {n}
        /\ calls'[n] = new /\ \A d \in DOMAIN calls : calls'[d] = calls[d]
        /\ Len(calls) \in Nat /\ n \notin DOMAIN calls
    BY <1>p, <1>u, SequenceFacts DEF RuntimeInv
  <1>2. Ids(new.saved) = {} /\ ToSet(new.out) = {} /\ IsInjective(new.out)
    BY <1>r DEF Ids, ToSet, IsInjective
  <1>3. CallSound(n)'
    BY <1>1, <1>2, <1>r DEF CallSound
  <1>4. ASSUME NEW d \in DOMAIN calls PROVE CallSound(d)' /\ Holds(d)' = Holds(d)
    BY <1>1 DEF RuntimeInv, CallSound, Holds, OwnIds
  <1>5. Holds(n)' = {}
    BY <1>1, <1>2 DEF Holds
  <1>6. Grows
    BY <1>1, <1>p DEF Grows
  <1>7. \A d, e \in DOMAIN calls' :
          d # e /\ calls'[d].op \in New /\ calls'[e].op \in New => Holds(d)' \cap Holds(e)' = {}
    BY <1>1, <1>4, <1>5 DEF RuntimeInv
  <1>8. RuntimeInv'
    BY <1>1, <1>3, <1>4, <1>7 DEF RuntimeInv, RowsInv
  <1>. QED  BY <1>1, <1>6, <1>8, <1>p, <1>r

\* So does one that stores nothing in the step.
LEMMA CallGoesOn ==
    ASSUME RuntimeInv, NEW c \in DOMAIN calls, NEW call, Becomes(c, call),
           Kept, UNCHANGED <<rows, minted>>,
           CallInv(call), call.op = calls[c].op, call.workspace = calls[c].workspace,
           call.saved = calls[c].saved, call.out = calls[c].out
    PROVE  RuntimeInv' /\ Grows
  <1>1. CallSound(c) /\ RowsInv
    BY DEF RuntimeInv
  <1>2. RowsInv' /\ minted <= minted'
    BY <1>1 DEF RowsInv
  <1>3. \A w : OwnIds(w)' = OwnIds(w)
    BY DEF OwnIds
  <1>4. Holds(c) = Ids(call.saved) \cup ToSet(call.out)
    BY DEF Holds
  <1>. QED  BY <1>1, <1>2, <1>3, <1>4, CallStep DEF CallSound

\* An answer.
LEMMA AnsweredInv ==
    ASSUME NEW call, CallType(call), NEW result \in {"ok", "error"},
           result = "ok" /\ call.op \in {"generate", "compile", "patch"} => call.saved # <<>>,
           call.bad => call.saved = <<>>
    PROVE  /\ CallInv(Answered(call, result))
           /\ \A f \in CallFields \ {"step", "result", "attempt", "round"} :
                Answered(call, result)[f] = call[f]
  <1>p. PICK r : r = Answered(call, result)
    OBVIOUS
  <1>1. /\ DOMAIN r = CallFields
        /\ r.step = "done" /\ r.result = result /\ r.attempt = 0 /\ r.round = 0
        /\ \A f \in CallFields \ {"step", "result", "attempt", "round"} : r[f] = call[f]
    BY <1>p DEF Answered, CallType, CallFields
  <1>2. 0 \in 0 .. BatchAttempts /\ 0 \in 0 .. Attempts
    BY AttemptsAssumption
  <1>. HIDE <1>p
  <1>3. CallType(r)
    BY <1>1, <1>2 DEF CallType, CallFields
  <1>4. CallProgress(r)
    BY <1>1 DEF CallProgress, CallFields
  <1>. QED  BY <1>1, <1>3, <1>4, <1>p DEF CallInv

LEMMA PeopleStep ==
    ASSUME RuntimeInv, NEW c \in DOMAIN calls, People(c)
    PROVE  RuntimeInv' /\ Grows
  <1>. DEFINE call == calls[c]
  <1>0. CallInv(call) /\ call.step = "people"
    BY DEF People, Serving, RuntimeInv, CallSound
  <1>k. Kept /\ UNCHANGED <<rows, minted>>
    BY DEF Kept, People, RuntimeInv
  <1>n. PICK n \in 0 .. call.count :
          LET best == IF n > call.people THEN n ELSE call.people
              tried == [call EXCEPT !.attempt = @ + 1, !.people = best]
          IN  Becomes(c,
                IF best < call.count /\ tried.attempt < BatchAttempts THEN tried
                ELSE IF best > 0 THEN Compiling(tried, best, 0)
                ELSE IF call.allow THEN Offline(tried, TRUE)
                ELSE Answered(tried, "error"))
    BY DEF People
  <1>p. PICK best, tried : /\ best = IF n > call.people THEN n ELSE call.people
                           /\ tried = [call EXCEPT !.attempt = @ + 1, !.people = best]
    OBVIOUS
  <1>1. best \in Nat
    BY <1>0, <1>p DEF CallInv, CallType
  <1>2. /\ DOMAIN tried = CallFields
        /\ tried.attempt = call.attempt + 1 /\ tried.people = best
        /\ \A f \in CallFields \ {"attempt", "people"} : tried[f] = call[f]
    BY <1>0, <1>p DEF CallInv, CallType, CallFields
  <1>a. call.attempt + 1 \in 0 .. BatchAttempts
    BY <1>0, AttemptsAssumption DEF CallInv, CallType, CallProgress
  <1>3. CallType(tried)
    BY <1>0, <1>1, <1>2, <1>a DEF CallInv, CallType, CallFields
  <1>4. /\ tried.saved = <<>> /\ tried.op = "generate" /\ tried.step = "people" /\ ~tried.bad
        /\ tried.result = "none"
    BY <1>0, <1>2 DEF CallInv, CallProgress, CallFields
  <1>5. PICK next : /\ Becomes(c, next)
                    /\ next = IF best < call.count /\ tried.attempt < BatchAttempts THEN tried
                              ELSE IF best > 0 THEN Compiling(tried, best, 0)
                              ELSE IF call.allow THEN Offline(tried, TRUE)
                              ELSE Answered(tried, "error")
    BY <1>n, <1>p
  <1>s. \A f \in {"op", "workspace", "saved", "out"} : tried[f] = call[f]
    BY <1>2 DEF CallFields
  <1>6. CASE next = tried /\ tried.attempt < BatchAttempts
    <2>1. CallInv(next)
      BY <1>3, <1>4, <1>6 DEF CallInv, CallProgress
    <2>. QED  BY <1>k, <1>5, <1>6, <1>s, <2>1, CallGoesOn
  <1>7. CASE next = Compiling(tried, best, 0) /\ best > 0
    <2>1. next = [tried EXCEPT !.step = "compile", !.people = best + 0, !.queued = 0, !.round = 1]
      BY <1>7 DEF Compiling
    <2>2. /\ DOMAIN next = CallFields /\ next.step = "compile" /\ next.round = 1
          /\ next.people = best + 0
          /\ \A f \in CallFields \ {"step", "people", "queued", "round"} : next[f] = tried[f]
      BY <1>2, <2>1 DEF CallFields
    <2>3. best + 0 \in Nat /\ best + 0 > 0 /\ 1 \in 0 .. Attempts
      BY <1>1, <1>7, AttemptsAssumption
    <2>4. CallType(next)
      BY <1>3, <2>2, <2>3 DEF CallType, CallFields
    <2>5. CallProgress(next)
      BY <1>4, <2>2, <2>3 DEF CallProgress, CallFields
    <2>6. \A f \in {"op", "workspace", "saved", "out"} : next[f] = tried[f]
      BY <2>2 DEF CallFields
    <2>. QED  BY <1>k, <1>5, <1>s, <2>4, <2>5, <2>6, CallGoesOn DEF CallInv
  <1>8. CASE next = Offline(tried, TRUE)
    <2>1. next = [tried EXCEPT !.step = "compile", !.people = 1 + (tried.count - 1),
                               !.queued = tried.count - 1, !.round = 1, !.mock = TRUE]
      BY <1>8 DEF Offline, Compiling
    <2>2. /\ DOMAIN next = CallFields /\ next.step = "compile" /\ next.round = 1
          /\ next.people = 1 + (tried.count - 1)
          /\ \A f \in CallFields \ {"step", "people", "queued", "round", "mock"} : next[f] = tried[f]
      BY <1>2, <2>1 DEF CallFields
    <2>3. 1 + (tried.count - 1) \in Nat /\ 1 + (tried.count - 1) > 0 /\ 1 \in 0 .. Attempts
      BY <1>3, AttemptsAssumption DEF CallType
    <2>4. CallType(next)
      BY <1>3, <2>2, <2>3 DEF CallType, CallFields
    <2>5. CallProgress(next)
      BY <1>4, <2>2, <2>3 DEF CallProgress, CallFields
    <2>6. \A f \in {"op", "workspace", "saved", "out"} : next[f] = tried[f]
      BY <2>2 DEF CallFields
    <2>. QED  BY <1>k, <1>5, <1>s, <2>4, <2>5, <2>6, CallGoesOn DEF CallInv
  <1>9. CASE next = Answered(tried, "error")
    <2>1. CallInv(next) /\ \A f \in {"op", "workspace", "saved", "out"} : next[f] = tried[f]
      BY <1>3, <1>4, <1>9, AnsweredInv DEF CallFields
    <2>. QED  BY <1>k, <1>5, <1>s, <2>1, CallGoesOn
  <1>. QED  BY <1>5, <1>6, <1>7, <1>8, <1>9

LEMMA HeadAndTail ==
    ASSUME NEW s \in Seq(Nat), s # <<>>
    PROVE  /\ Head(s) \in Nat /\ Tail(s) \in Seq(Nat)
           /\ ToSet(s) = {Head(s)} \cup ToSet(Tail(s))
           /\ IsInjective(s) => IsInjective(Tail(s)) /\ Head(s) \notin ToSet(Tail(s))
  <1>1. /\ Len(s) \in Nat /\ Len(s) > 0
        /\ Head(s) = s[1] /\ Tail(s) \in Seq(Nat) /\ Len(Tail(s)) = Len(s) - 1
        /\ \A i \in 1 .. Len(s) - 1 : Tail(s)[i] = s[i + 1]
    OBVIOUS
  <1>2. DOMAIN s = 1 .. Len(s) /\ DOMAIN Tail(s) = 1 .. Len(s) - 1
    BY <1>1
  <1>3. Head(s) \in Nat
    BY <1>1
  <1>4. ToSet(s) = {Head(s)} \cup ToSet(Tail(s))
    <2>1. ASSUME NEW i \in 1 .. Len(s) PROVE s[i] \in {Head(s)} \cup ToSet(Tail(s))
      <3>1. CASE i = 1
        BY <1>1, <3>1
      <3>2. CASE i # 1
        <4>1. i - 1 \in 1 .. Len(s) - 1 /\ (i - 1) + 1 = i
          BY <1>1, <3>2
        <4>. QED  BY <1>1, <1>2, <4>1 DEF ToSet
      <3>. QED  BY <3>1, <3>2
    <2>2. \A i \in 1 .. Len(s) - 1 : i + 1 \in 1 .. Len(s)
      BY <1>1
    <2>3. ToSet(Tail(s)) \subseteq ToSet(s)
      BY <1>1, <1>2, <2>2 DEF ToSet
    <2>4. Head(s) \in ToSet(s)
      BY <1>1, <1>2 DEF ToSet
    <2>. QED  BY <1>2, <2>1, <2>3, <2>4 DEF ToSet
  <1>5. ASSUME IsInjective(s) PROVE IsInjective(Tail(s)) /\ Head(s) \notin ToSet(Tail(s))
    <2>1. \A i \in 1 .. Len(s) - 1 : i + 1 \in 1 .. Len(s) /\ i + 1 # 1
      BY <1>1
    <2>2. \A i, k \in 1 .. Len(s) : s[i] = s[k] => i = k
      BY <1>2, <1>5 DEF IsInjective
    <2>3. \A i, k \in 1 .. Len(s) - 1 : i + 1 = k + 1 => i = k
      BY <1>1
    <2>4. IsInjective(Tail(s))
      BY <1>1, <1>2, <2>1, <2>2, <2>3 DEF IsInjective
    <2>5. 1 \in 1 .. Len(s)
      BY <1>1
    <2>. QED  BY <1>1, <1>2, <2>1, <2>2, <2>4, <2>5 DEF ToSet
  <1>. QED  BY <1>1, <1>3, <1>4, <1>5

LEMMA SavedAnother ==
    ASSUME NEW saved \in Seq(ProfileType), NEW p \in ProfileType
    PROVE  /\ Append(saved, p) \in Seq(ProfileType) /\ Append(saved, p) # <<>>
           /\ Ids(Append(saved, p)) = Ids(saved) \cup {p.id}
  <1>1. Append(saved, p) \in Seq(ProfileType) /\ Append(saved, p) # <<>>
    BY AppendProperties
  <1>2. Sequence(saved)
    BY DEF Sequence, ToSet
  <1>3. ToSet(Append(saved, p)) = ToSet(saved) \cup {p}
    BY <1>2, SequenceFacts DEF ToSet
  <1>. QED  BY <1>1, <1>3 DEF Ids

LEMMA UpsertStep ==
    ASSUME RowsInv, NEW w \in Workspaces, NEW rev \in Nat,
           minted' \in Nat, minted <= minted', NEW id \in 1 .. minted',
           Upsert(id, w, rev), id \in DOMAIN rows => rows[id].workspace = w
    PROVE  /\ RowsInv'
           /\ DOMAIN rows' = DOMAIN rows \cup {id}
           /\ \A i \in DOMAIN rows : i \in DOMAIN rows' /\ rows'[i].workspace = rows[i].workspace
           /\ id \in OwnIds(w)' /\ \A x : OwnIds(x) \subseteq OwnIds(x)'
  <1>1. DOMAIN rows' = DOMAIN rows \cup {id}
    BY DEF Upsert
  <1>2. /\ rows'[id] = [workspace |-> w, rev |-> rev]
        /\ \A i \in DOMAIN rows \ {id} : rows'[i] = rows[i]
    BY DEF Upsert
  <1>3. rows'[id] \in Row /\ rows'[id].workspace = w
    BY <1>2 DEF Row
  <1>4. DOMAIN rows' \subseteq 1 .. minted'
    BY <1>1 DEF RowsInv
  <1>5. RowsInv'
    BY <1>1, <1>2, <1>3, <1>4 DEF RowsInv
  <1>6. \A i \in DOMAIN rows : i \in DOMAIN rows' /\ rows'[i].workspace = rows[i].workspace
    BY <1>1, <1>2, <1>3
  <1>. QED  BY <1>1, <1>3, <1>5, <1>6 DEF OwnIds

LEMMA CompleteStep ==
    ASSUME RuntimeInv, NEW c \in DOMAIN calls, Complete(c)
    PROVE  RuntimeInv' /\ Grows
  <1>p. PICK call : call = calls[c]
    OBVIOUS
  <1>0. CallInv(call) /\ CallSound(c) /\ call.step = "compile" /\ RowsInv
    BY <1>p DEF Complete, Serving, RuntimeInv, CallSound
  <1>k. Kept /\ UNCHANGED rows
    BY DEF Kept, Complete, Compiled, Uncompiled, RuntimeInv
  <1>1. ASSUME Uncompiled(c) PROVE RuntimeInv' /\ Grows
    <2>u. UNCHANGED <<rows, minted>>
      BY <1>1 DEF Uncompiled
    <2>p. PICK bad : bad = [call EXCEPT !.bad = TRUE]
      OBVIOUS
    <2>1. PICK next : Becomes(c, next) /\ next \in Retried(call) \cup {Answered(bad, "error")}
      BY <1>1, <1>p, <2>p DEF Uncompiled
    <2>2. CASE next \in Retried(call)
      <3>1. next = [call EXCEPT !.round = @ + 1] /\ call.round < Attempts
        BY <2>2 DEF Retried
      <3>2. /\ DOMAIN next = CallFields /\ next.round = call.round + 1
            /\ \A f \in CallFields \ {"round"} : next[f] = call[f]
        BY <1>0, <3>1 DEF CallInv, CallType, CallFields
      <3>3. next.round \in 0 .. Attempts
        BY <1>0, <3>1, <3>2, AttemptsAssumption DEF CallInv, CallType
      <3>4. CallType(next)
        BY <1>0, <3>2, <3>3 DEF CallInv, CallType, CallFields
      <3>5. CallProgress(next)
        BY <1>0, <3>2 DEF CallInv, CallProgress, CallFields
      <3>6. \A f \in {"op", "workspace", "saved", "out"} : next[f] = call[f]
        BY <3>2 DEF CallFields
      <3>. QED  BY <1>k, <1>p, <2>1, <2>u, <3>4, <3>5, <3>6, CallGoesOn DEF CallInv
    <2>3. CASE next = Answered(bad, "error")
      <3>1. DOMAIN bad = CallFields /\ \A f \in CallFields \ {"bad"} : bad[f] = call[f]
        BY <1>0, <2>p DEF CallInv, CallType, CallFields
      <3>2. CallType(bad) /\ bad.saved = <<>>
        BY <1>0, <3>1 DEF CallInv, CallType, CallProgress, CallFields
      <3>3. CallInv(next) /\ \A f \in {"op", "workspace", "saved", "out"} : next[f] = bad[f]
        BY <2>3, <3>2, AnsweredInv DEF CallFields
      <3>4. \A f \in {"op", "workspace", "saved", "out"} : bad[f] = call[f]
        BY <3>1 DEF CallFields
      <3>. QED  BY <1>k, <1>p, <2>1, <2>u, <3>3, <3>4, CallGoesOn
    <2>. QED  BY <2>1, <2>2, <2>3
  <1>2. ASSUME Compiled(c), call.queued > 0 PROVE RuntimeInv' /\ Grows
    <2>p. PICK next : next = [call EXCEPT !.queued = @ - 1, !.round = 1]
      OBVIOUS
    <2>1. Becomes(c, next) /\ UNCHANGED <<rows, minted>>
      BY <1>2, <1>p, <2>p DEF Compiled
    <2>2. /\ DOMAIN next = CallFields /\ next.round = 1
          /\ \A f \in CallFields \ {"queued", "round"} : next[f] = call[f]
      BY <1>0, <2>p DEF CallInv, CallType, CallFields
    <2>3. 1 \in 0 .. Attempts
      BY AttemptsAssumption
    <2>4. CallType(next)
      BY <1>0, <2>2, <2>3 DEF CallInv, CallType, CallFields
    <2>5. CallProgress(next)
      BY <1>0, <2>2 DEF CallInv, CallProgress, CallFields
    <2>6. \A f \in {"op", "workspace", "saved", "out"} : next[f] = call[f]
      BY <2>2 DEF CallFields
    <2>. QED  BY <1>k, <1>p, <2>1, <2>4, <2>5, <2>6, CallGoesOn DEF CallInv
  <1>3. ASSUME Compiled(c), ~(call.queued > 0) PROVE RuntimeInv' /\ Grows
    <2>p. PICK out, next : /\ out = [n \in 1 .. call.people |-> minted + n]
                           /\ next = [call EXCEPT !.step = "save", !.out = out]
      OBVIOUS
    <2>1. Becomes(c, next) /\ minted' = minted + call.people /\ UNCHANGED rows
      BY <1>3, <1>p, <2>p DEF Compiled
    <2>2. call.people \in Nat /\ call.people > 0 /\ minted \in Nat
      BY <1>0 DEF CallInv, CallType, CallProgress, RowsInv
    <2>3. /\ minted' \in Nat /\ minted <= minted'
          /\ \A n \in 1 .. call.people : minted + n \in 1 .. minted' /\ minted + n \notin 1 .. minted
          /\ \A n \in 1 .. call.people : minted + n \in Nat
          /\ \A m, n \in 1 .. call.people : minted + m = minted + n => m = n
          /\ 1 \in 1 .. call.people
      BY <2>1, <2>2
    <2>4. /\ out \in Seq(Nat) /\ DOMAIN out = 1 .. call.people
          /\ \A n \in 1 .. call.people : out[n] = minted + n
      <3>1. out = [n \in 1 .. call.people |-> minted + n]
        BY <2>p
      <3>2. PICK k : k = call.people
        OBVIOUS
      <3>3. out \in [1 .. k -> Nat] /\ k \in Nat
        BY <2>2, <2>3, <3>1, <3>2
      <3>4. \A n \in 1 .. k : out[n] = minted + n
        BY <3>1, <3>2
      <3>. HIDE <3>1
      <3>. QED  BY <3>2, <3>3, <3>4
    <2>5. out # <<>>
      <3>1. DOMAIN <<>> = {}
        OBVIOUS
      <3>. QED  BY <2>3, <2>4, <3>1
    <2>6. /\ ToSet(out) \subseteq 1 .. minted' /\ IsInjective(out)
          /\ \A id \in ToSet(out) : id \notin 1 .. minted
      BY <2>3, <2>4 DEF ToSet, IsInjective
    <2>7. /\ DOMAIN next = CallFields /\ next.step = "save" /\ next.out = out
          /\ \A f \in CallFields \ {"step", "out"} : next[f] = call[f]
      BY <1>0, <2>p DEF CallInv, CallType, CallFields
    <2>8. CallType(next)
      BY <1>0, <2>4, <2>7 DEF CallInv, CallType, CallFields
    <2>9. CallProgress(next)
      BY <1>0, <2>5, <2>7 DEF CallInv, CallProgress, CallFields
    <2>10. \A f \in {"op", "workspace", "saved"} : next[f] = call[f]
      BY <2>7 DEF CallFields
    <2>11. call.saved = <<>> /\ call.op \in {"generate", "compile"}
      BY <1>0 DEF CallInv, CallProgress
    <2>12. Ids(next.saved) = {}
      BY <2>10, <2>11 DEF Ids, ToSet
    <2>13. RowsInv'
      BY <1>0, <2>1, <2>2, <2>3 DEF RowsInv
    <2>14. ToSet(out) \cap DOMAIN rows' = {}
      BY <1>0, <2>1, <2>6 DEF RowsInv
    <2>15. CallInv(next)
      BY <2>8, <2>9 DEF CallInv
    <2>16. next.op = calls[c].op /\ next.workspace = calls[c].workspace /\ next.op # "patch"
      BY <1>p, <2>10, <2>11
    <2>. QED  BY <1>k, <2>1, <2>3, <2>6, <2>7, <2>12, <2>13, <2>14, <2>15, <2>16, CallStep
  <1>. QED  BY <1>1, <1>2, <1>3 DEF Complete

LEMMA MishapKept ==
    ASSUME RuntimeInv, Mishap \/ UNCHANGED mishaps
    PROVE  mishaps' \in 0 .. MaxMishaps
  <1>1. mishaps \in 0 .. MaxMishaps
    BY DEF RuntimeInv
  <1>. QED  BY <1>1, AttemptsAssumption DEF Mishap

LEMMA SaveStep ==
    ASSUME RuntimeInv, NEW c \in DOMAIN calls, Save(c)
    PROVE  RuntimeInv' /\ Grows
  <1>p. PICK call, head : call = calls[c] /\ head = Head(call.out)
    OBVIOUS
  <1>0. CallInv(call) /\ CallSound(c) /\ call.step = "save" /\ RowsInv
    BY <1>p DEF Save, Serving, RuntimeInv, CallSound
  <1>k. Kept /\ UNCHANGED minted
    <2>1. Mishap \/ UNCHANGED mishaps
      BY DEF Save
    <2>2. UNCHANGED <<tinytroupe, minted, cache>>
      BY DEF Save
    <2>. QED  BY <2>1, <2>2, MishapKept DEF Kept, RuntimeInv
  <1>1. ASSUME Becomes(c, Answered(call, "error")), UNCHANGED rows PROVE RuntimeInv' /\ Grows
    <2>1. CallType(call) /\ ~call.bad
      BY <1>0 DEF CallInv, CallProgress
    <2>2. /\ CallInv(Answered(call, "error"))
          /\ \A f \in {"op", "workspace", "saved", "out"} : Answered(call, "error")[f] = call[f]
      BY <2>1, AnsweredInv DEF CallFields
    <2>. QED  BY <1>1, <1>k, <1>p, <2>2, CallGoesOn
  <1>2. ASSUME NEW one,
               one = [call EXCEPT !.out = Tail(@), !.saved = Append(@, Profile(head, call.profile.rev))],
               Upsert(head, call.workspace, call.profile.rev),
               Becomes(c, IF one.out = <<>> THEN Answered(one, "ok") ELSE one)
        PROVE  RuntimeInv' /\ Grows
    <2>0. /\ call.out \in Seq(Nat) /\ call.saved \in Seq(ProfileType) /\ call.out # <<>>
          /\ call.workspace \in Workspaces /\ call.profile.rev \in Nat
          /\ call.op \in {"generate", "compile", "patch"} /\ ~call.bad
      BY <1>0 DEF CallInv, CallType, CallProgress, ProfileType
    <2>1. /\ head \in Nat /\ Tail(call.out) \in Seq(Nat)
          /\ ToSet(call.out) = {head} \cup ToSet(Tail(call.out))
          /\ IsInjective(call.out) => IsInjective(Tail(call.out)) /\ head \notin ToSet(Tail(call.out))
      BY <1>p, <2>0, HeadAndTail
    <2>2. PICK p : p = Profile(head, call.profile.rev) /\ p \in ProfileType /\ p.id = head
      <3>1. Profile(head, call.profile.rev) \in ProfileType /\ Profile(head, call.profile.rev).id = head
        BY <2>0, <2>1 DEF Profile, ProfileType
      <3>. QED  BY <3>1
    <2>3. /\ Append(call.saved, p) \in Seq(ProfileType) /\ Append(call.saved, p) # <<>>
          /\ Ids(Append(call.saved, p)) = Ids(call.saved) \cup {head}
      BY <2>0, <2>2, SavedAnother
    <2>4. /\ DOMAIN one = CallFields /\ one.out = Tail(call.out) /\ one.saved = Append(call.saved, p)
          /\ \A f \in CallFields \ {"out", "saved"} : one[f] = call[f]
      BY <1>0, <1>2, <2>2 DEF CallInv, CallType, CallFields
    <2>5. CallType(one)
      BY <1>0, <2>1, <2>3, <2>4 DEF CallInv, CallType, CallFields
    <2>6. PICK next : /\ Becomes(c, next)
                      /\ next = IF one.out = <<>> THEN Answered(one, "ok") ELSE one
      BY <1>2
    <2>7. CallInv(next) /\ \A f \in {"op", "workspace", "saved", "out"} : next[f] = one[f]
      <3>1. CASE one.out = <<>>
        <4>1. ~one.bad
          BY <2>0, <2>4 DEF CallFields
        <4>. QED  BY <2>3, <2>4, <2>5, <2>6, <3>1, <4>1, AnsweredInv DEF CallFields
      <3>2. CASE one.out # <<>>
        <4>1. CallProgress(one)
          BY <1>0, <2>0, <2>4, <3>2 DEF CallInv, CallProgress, CallFields
        <4>. QED  BY <2>5, <2>6, <3>2, <4>1 DEF CallInv
      <3>. QED  BY <3>1, <3>2
    <2>8. /\ next.op = call.op /\ next.workspace = call.workspace
          /\ next.out = Tail(call.out) /\ Ids(next.saved) = Ids(call.saved) \cup {head}
      BY <2>3, <2>4, <2>7 DEF CallFields
    <2>9. /\ ToSet(call.out) \subseteq 1 .. minted /\ Ids(call.saved) \subseteq OwnIds(call.workspace)
          /\ call.op = "patch" => ToSet(call.out) \subseteq OwnIds(call.workspace)
          /\ call.op \in New => IsInjective(call.out) /\ ToSet(call.out) \cap DOMAIN rows = {}
      BY <1>0, <1>p DEF CallSound
    <2>10. head \in DOMAIN rows => rows[head].workspace = call.workspace
      BY <2>0, <2>1, <2>9 DEF New, OwnIds
    <2>11. minted' \in Nat /\ minted <= minted' /\ head \in 1 .. minted'
      BY <1>0, <1>k, <2>1, <2>9 DEF RowsInv
    <2>12. /\ RowsInv' /\ DOMAIN rows' = DOMAIN rows \cup {head}
           /\ \A i \in DOMAIN rows : i \in DOMAIN rows' /\ rows'[i].workspace = rows[i].workspace
           /\ head \in OwnIds(call.workspace)' /\ \A x : OwnIds(x) \subseteq OwnIds(x)'
      BY <1>0, <1>2, <2>0, <2>10, <2>11, UpsertStep
    <2>13. Ids(next.saved) \subseteq OwnIds(next.workspace)'
      BY <2>8, <2>9, <2>12
    <2>14. ToSet(next.out) \subseteq 1 .. minted'
      BY <1>k, <2>1, <2>8, <2>9
    <2>15. next.op = "patch" => ToSet(next.out) \subseteq OwnIds(next.workspace)'
      BY <2>1, <2>8, <2>9, <2>12
    <2>16. ASSUME next.op \in New
           PROVE  /\ IsInjective(next.out) /\ ToSet(next.out) \cap DOMAIN rows' = {}
                  /\ \A id \in Ids(next.saved) \cup ToSet(next.out) : id \in Holds(c)
      <3>1. IsInjective(next.out) /\ head \notin ToSet(next.out)
        BY <2>1, <2>8, <2>9, <2>16
      <3>2. ToSet(next.out) \cap DOMAIN rows' = {}
        BY <2>1, <2>8, <2>9, <2>12, <2>16, <3>1
      <3>. QED  BY <1>p, <2>1, <2>8, <3>1, <3>2 DEF Holds
    <2>17. ASSUME NEW d \in DOMAIN calls \ {c}, calls[d].op \in New, NEW id \in ToSet(calls[d].out),
                  id \in DOMAIN rows'
           PROVE  id \in DOMAIN rows
      <3>1. CASE id # head
        BY <2>12, <2>17, <3>1
      <3>2. CASE call.op = "patch"
        BY <2>1, <2>9, <2>12, <2>17, <3>2 DEF OwnIds
      <3>3. CASE id = head /\ call.op # "patch"
        <4>1. call.op \in New
          BY <2>0, <3>3 DEF New
        <4>2. id \in Holds(c) /\ id \in Holds(d)
          BY <1>p, <2>1, <2>17, <3>3 DEF Holds
        <4>. QED  BY <1>p, <2>17, <4>1, <4>2 DEF RuntimeInv
      <3>. QED  BY <3>1, <3>2, <3>3
    <2>. QED  BY <1>k, <1>p, <2>6, <2>7, <2>8, <2>11, <2>12, <2>13, <2>14, <2>15, <2>16, <2>17, CallStep
  <1>. QED  BY <1>1, <1>2, <1>p DEF Save

LEMMA PatchStep ==
    ASSUME RuntimeInv, NEW c \in DOMAIN calls, Patch(c)
    PROVE  RuntimeInv' /\ Grows
  <1>p. PICK call, next :
          /\ call = calls[c] /\ Becomes(c, next)
          /\ next = IF call.profile.id \in OwnIds(call.workspace)
                    THEN [call EXCEPT !.step = "save", !.out = <<call.profile.id>>]
                    ELSE Answered(call, "error")
    BY DEF Patch
  <1>0. CallInv(call) /\ CallSound(c) /\ call.step = "patch" /\ RowsInv
    BY <1>p DEF Patch, Serving, RuntimeInv, CallSound
  <1>k. Kept /\ UNCHANGED <<rows, minted>>
    BY DEF Kept, Patch, RuntimeInv
  <1>1. CASE next = Answered(call, "error")
    <2>1. CallType(call) /\ ~call.bad
      BY <1>0 DEF CallInv, CallProgress
    <2>2. CallInv(next) /\ \A f \in {"op", "workspace", "saved", "out"} : next[f] = call[f]
      BY <1>1, <2>1, AnsweredInv DEF CallFields
    <2>. QED  BY <1>k, <1>p, <2>2, CallGoesOn
  <1>2. CASE /\ next = [call EXCEPT !.step = "save", !.out = <<call.profile.id>>]
             /\ call.profile.id \in OwnIds(call.workspace)
    <2>0. call.profile.id \in Nat /\ call.op = "patch"
      BY <1>0 DEF CallInv, CallType, CallProgress, ProfileType
    <2>1. PICK out : /\ out = <<call.profile.id>> /\ out \in Seq(Nat) /\ out # <<>>
                     /\ ToSet(out) = {call.profile.id}
      <3>1. ToSet(<<call.profile.id>>) = {call.profile.id}
        BY DEF ToSet
      <3>2. <<call.profile.id>> \in Seq(Nat) /\ <<call.profile.id>> # <<>>
        BY <2>0
      <3>. QED  BY <3>1, <3>2
    <2>2. /\ DOMAIN next = CallFields /\ next.step = "save" /\ next.out = out
          /\ \A f \in CallFields \ {"step", "out"} : next[f] = call[f]
      BY <1>0, <1>2, <2>1 DEF CallInv, CallType, CallFields
    <2>3. CallType(next)
      BY <1>0, <2>1, <2>2 DEF CallInv, CallType, CallFields
    <2>4. CallProgress(next)
      BY <1>0, <2>0, <2>1, <2>2 DEF CallInv, CallProgress, CallFields
    <2>5. next.op = call.op /\ next.workspace = call.workspace /\ next.saved = call.saved
      BY <2>2 DEF CallFields
    <2>6. \A x : OwnIds(x)' = OwnIds(x)
      BY <1>k DEF OwnIds
    <2>7. ToSet(next.out) \subseteq OwnIds(next.workspace)' /\ ToSet(next.out) \subseteq 1 .. minted'
      BY <1>0, <1>2, <1>k, <2>1, <2>2, <2>5, <2>6 DEF RowsInv, OwnIds
    <2>8. Ids(next.saved) \subseteq OwnIds(next.workspace)'
      BY <1>0, <1>p, <2>5, <2>6 DEF CallSound
    <2>9. RowsInv' /\ minted <= minted' /\ next.op \notin New
      BY <1>0, <1>k, <2>0, <2>5 DEF RowsInv, New
    <2>. QED  BY <1>k, <1>p, <2>3, <2>4, <2>5, <2>7, <2>8, <2>9, CallStep DEF CallInv
  <1>. QED  BY <1>1, <1>2, <1>p

LEMMA ListStep ==
    ASSUME RuntimeInv, NEW c \in DOMAIN calls, List(c)
    PROVE  RuntimeInv' /\ Grows
  <1>q. PICK call, own : call = calls[c] /\ own = OwnIds(call.workspace)
    OBVIOUS
  <1>s. PICK saved : saved = [n \in 1 .. Cardinality(own) |->
               LET id == CHOOSE i \in own : Cardinality({k \in own : k < i}) = n - 1
               IN  Profile(id, rows[id].rev)]
    OBVIOUS
  <1>n. PICK next : next = [Answered(call, "ok") EXCEPT !.saved = saved]
    OBVIOUS
  <1>b. Becomes(c, next)
    BY <1>q, <1>s, <1>n DEF List
  <1>0. CallInv(call) /\ CallSound(c) /\ call.step = "list" /\ RowsInv
    BY <1>q DEF List, Serving, RuntimeInv, CallSound
  <1>k. Kept /\ UNCHANGED <<rows, minted>>
    BY DEF Kept, List, RuntimeInv
  <1>1. IsFiniteSet(own) /\ own \subseteq DOMAIN rows /\ \A i \in own : i \in Nat
    <2>1. own \subseteq 1 .. minted /\ own \subseteq DOMAIN rows /\ minted \in Nat
      BY <1>0, <1>q DEF OwnIds, RowsInv
    <2>2. IsFiniteSet(1 .. minted)
      BY <2>1, FS_Interval
    <2>3. IsFiniteSet(own)
      BY <2>1, <2>2, FS_Subset
    <2>. QED  BY <2>1, <2>3
  <1>2. /\ Cardinality(own) \in Nat
        /\ \A n \in 1 .. Cardinality(own) : \E i \in own : Cardinality({k \in own : k < i}) = n - 1
    <2>1. \A i \in own : i \in Int
      BY <1>1
    <2>. QED  BY <1>1, <2>1, IntegerRanks
  <1>. DEFINE Nth(n) == CHOOSE i \in own : Cardinality({k \in own : k < i}) = n - 1
  <1>3. ASSUME NEW n \in 1 .. Cardinality(own) PROVE Nth(n) \in own
    BY <1>2
  <1>4. saved = [n \in 1 .. Cardinality(own) |-> Profile(Nth(n), rows[Nth(n)].rev)]
    BY <1>s
  <1>. HIDE DEF Nth
  <1>5. ASSUME NEW n \in 1 .. Cardinality(own)
        PROVE  Profile(Nth(n), rows[Nth(n)].rev) \in ProfileType /\ Profile(Nth(n), rows[Nth(n)].rev).id \in own
    <2>1. Nth(n) \in own /\ Nth(n) \in Nat /\ rows[Nth(n)].rev \in Nat
      BY <1>0, <1>1, <1>3 DEF RowsInv, Row
    <2>. QED  BY <2>1 DEF Profile, ProfileType
  <1>6. saved \in Seq(ProfileType) /\ Ids(saved) \subseteq own
    <2>1. PICK m : m = Cardinality(own) /\ m \in Nat
      BY <1>2
    <2>2. saved \in [1 .. m -> ProfileType] /\ \A n \in 1 .. m : saved[n].id \in own
      BY <1>4, <1>5, <2>1
    <2>. QED  BY <2>1, <2>2 DEF Ids, ToSet
  <1>7. PICK answer : /\ answer = Answered(call, "ok") /\ CallInv(answer)
                      /\ answer.step = "done" /\ answer.op = "list" /\ ~answer.bad
                      /\ answer.out = call.out /\ answer.workspace = call.workspace
                      /\ answer.result = "ok"
    <2>1. CallType(call) /\ call.op = "list" /\ ~call.bad
      BY <1>0 DEF CallInv, CallProgress
    <2>2. /\ CallInv(Answered(call, "ok"))
          /\ \A f \in CallFields \ {"step", "result", "attempt", "round"} : Answered(call, "ok")[f] = call[f]
      BY <2>1, AnsweredInv
    <2>3. Answered(call, "ok").step = "done" /\ Answered(call, "ok").result = "ok"
      BY <2>1 DEF Answered, CallType, CallFields
    <2>. QED  BY <2>1, <2>2, <2>3 DEF CallFields
  <1>8. DOMAIN next = CallFields /\ next.saved = saved /\ \A f \in CallFields \ {"saved"} : next[f] = answer[f]
    BY <1>7, <1>n DEF CallInv, CallType, CallFields
  <1>9. CallType(next)
    BY <1>6, <1>7, <1>8 DEF CallInv, CallType, CallFields
  <1>10. CallProgress(next)
    BY <1>7, <1>8 DEF CallInv, CallProgress, CallFields
  <1>11. next.op = call.op /\ next.workspace = call.workspace /\ next.out = call.out /\ next.op = "list"
    <2>1. call.op = "list"
      BY <1>0 DEF CallInv, CallProgress
    <2>. QED  BY <1>7, <1>8, <2>1 DEF CallFields
  <1>12. \A x : OwnIds(x)' = OwnIds(x)
    BY <1>k DEF OwnIds
  <1>13. Ids(next.saved) \subseteq OwnIds(next.workspace)'
    BY <1>6, <1>8, <1>11, <1>12, <1>q
  <1>14. ToSet(next.out) \subseteq 1 .. minted' /\ RowsInv' /\ minted <= minted'
    BY <1>0, <1>11, <1>k, <1>q DEF CallSound, RowsInv
  <1>15. next.op # "patch" /\ next.op \notin New
    BY <1>11 DEF New
  <1>. QED  BY <1>9, <1>10, <1>11, <1>13, <1>14, <1>15, <1>b, <1>k, <1>q, CallStep DEF CallInv

LEMMA FetchIndexStep ==
    ASSUME RuntimeInv, NEW c \in DOMAIN calls, FetchIndex(c)
    PROVE  RuntimeInv' /\ Grows
  <1>p. PICK call : call = calls[c]
    OBVIOUS
  <1>0. CallInv(call) /\ call.step = "index"
    BY <1>p DEF FetchIndex, Serving, RuntimeInv, CallSound
  <1>k. Kept /\ UNCHANGED <<rows, minted>>
    <2>1. Mishap \/ UNCHANGED mishaps
      BY DEF FetchIndex
    <2>2. UNCHANGED <<tinytroupe, rows, minted>> /\ (cache' \in Published \/ UNCHANGED cache)
      BY DEF FetchIndex
    <2>. QED  BY <2>1, <2>2, MishapKept DEF Kept, RuntimeInv
  <1>g. PICK group :
          \E result \in {"ok", "error"} :
            \/ Becomes(c, Answered(call, result))
            \/ Becomes(c, [call EXCEPT !.step = "adopt", !.chosen = group])
    BY <1>p DEF FetchIndex
  <1>1. PICK result \in {"ok", "error"} :
          \/ Becomes(c, Answered(call, result))
          \/ Becomes(c, [call EXCEPT !.step = "adopt", !.chosen = group])
    BY <1>g
  <1>2. CallType(call) /\ call.op = "lookup" /\ ~call.bad
    BY <1>0 DEF CallInv, CallProgress
  <1>3. CASE Becomes(c, Answered(call, result))
    <2>1. /\ CallInv(Answered(call, result))
          /\ \A f \in {"op", "workspace", "saved", "out"} : Answered(call, result)[f] = call[f]
      BY <1>2, AnsweredInv DEF CallFields
    <2>. QED  BY <1>3, <1>k, <1>p, <2>1, CallGoesOn
  <1>4. CASE Becomes(c, [call EXCEPT !.step = "adopt", !.chosen = group])
    <2>p. PICK next : next = [call EXCEPT !.step = "adopt", !.chosen = group]
      OBVIOUS
    <2>1. /\ DOMAIN next = CallFields /\ next.step = "adopt"
          /\ \A f \in CallFields \ {"step", "chosen"} : next[f] = call[f]
      BY <1>2, <2>p DEF CallType, CallFields
    <2>2. CallType(next)
      BY <1>2, <2>1 DEF CallType, CallFields
    <2>3. CallProgress(next)
      BY <1>0, <2>1 DEF CallInv, CallProgress, CallFields
    <2>4. \A f \in {"op", "workspace", "saved", "out"} : next[f] = call[f]
      BY <2>1 DEF CallFields
    <2>. QED  BY <1>4, <1>k, <1>p, <2>p, <2>2, <2>3, <2>4, CallGoesOn DEF CallInv
  <1>. QED  BY <1>1, <1>3, <1>4

LEMMA AdoptStep ==
    ASSUME RuntimeInv, NEW c \in DOMAIN calls, Adopt(c)
    PROVE  RuntimeInv' /\ Grows
  <1>p. PICK call, rest, id : /\ call = calls[c] /\ id = minted + 1
                              /\ rest = [call EXCEPT !.chosen = Tail(@)]
    OBVIOUS
  <1>0. CallInv(call) /\ CallSound(c) /\ call.step = "adopt" /\ RowsInv
    BY <1>p DEF Adopt, Serving, RuntimeInv, CallSound
  <1>k. Kept
    <2>1. Mishap \/ UNCHANGED mishaps
      BY DEF Adopt
    <2>2. UNCHANGED <<tinytroupe, cache>>
      BY DEF Adopt
    <2>. QED  BY <2>1, <2>2, MishapKept DEF Kept, RuntimeInv
  <1>2. CallType(call) /\ call.op = "lookup" /\ ~call.bad
    BY <1>0 DEF CallInv, CallProgress
  <1>3. /\ DOMAIN rest = CallFields /\ \A f \in CallFields \ {"chosen"} : rest[f] = call[f]
    BY <1>2, <1>p DEF CallType, CallFields
  <1>4. CallType(rest)
    BY <1>2, <1>3 DEF CallType, CallFields
  <1>5. CallInv(rest) /\ \A f \in {"op", "workspace", "saved", "out", "bad", "step"} : rest[f] = call[f]
    <2>1. CallProgress(rest)
      BY <1>0, <1>3 DEF CallInv, CallProgress, CallFields
    <2>. QED  BY <1>3, <1>4, <2>1 DEF CallInv, CallFields
  <1>6. ASSUME NEW made, CallInv(made), made.op = "lookup", ~made.bad
        PROVE  /\ CallInv(Answered(made, "ok"))
               /\ \A f \in {"op", "workspace", "saved", "out"} : Answered(made, "ok")[f] = made[f]
    <2>1. CallType(made)
      BY <1>6 DEF CallInv
    <2>. QED  BY <1>6, <2>1, AnsweredInv DEF CallFields
  <1>7. ASSUME Becomes(c, Answered(call, "error")), UNCHANGED <<rows, minted>>
        PROVE  RuntimeInv' /\ Grows
    <2>1. /\ CallInv(Answered(call, "error"))
          /\ \A f \in {"op", "workspace", "saved", "out"} : Answered(call, "error")[f] = call[f]
      BY <1>2, AnsweredInv DEF CallFields
    <2>. QED  BY <1>7, <1>k, <1>p, <2>1, CallGoesOn
  <1>8. ASSUME Becomes(c, IF rest.chosen = <<>> THEN Answered(rest, "ok") ELSE rest),
               UNCHANGED <<rows, minted>>
        PROVE  RuntimeInv' /\ Grows
    <2>1. PICK next : Becomes(c, next) /\ next \in {rest, Answered(rest, "ok")}
      BY <1>8
    <2>2. CallInv(next) /\ \A f \in {"op", "workspace", "saved", "out"} : next[f] = call[f]
      BY <1>2, <1>5, <1>6, <2>1
    <2>. QED  BY <1>8, <1>k, <1>p, <2>1, <2>2, CallGoesOn
  <1>9. ASSUME NEW one, one = [rest EXCEPT !.saved = Append(@, Profile(id, 0))],
               Becomes(c, IF one.chosen = <<>> THEN Answered(one, "ok") ELSE one),
               Upsert(id, call.workspace, 0), minted' = IF id > minted THEN id ELSE minted
        PROVE  RuntimeInv' /\ Grows
    <2>0. call.saved \in Seq(ProfileType) /\ call.workspace \in Workspaces /\ minted \in Nat
      BY <1>0, <1>2 DEF CallType, RowsInv
    <2>1. /\ id \in Nat /\ id \notin 1 .. minted /\ minted' = id /\ minted <= minted'
          /\ id \in 1 .. minted' /\ 1 .. minted \subseteq 1 .. minted'
      BY <1>9, <1>p, <2>0
    <2>2. PICK p : p = Profile(id, 0) /\ p \in ProfileType /\ p.id = id
      <3>1. Profile(id, 0) \in ProfileType /\ Profile(id, 0).id = id
        BY <2>1 DEF Profile, ProfileType
      <3>. QED  BY <3>1
    <2>3. /\ Append(call.saved, p) \in Seq(ProfileType) /\ Append(call.saved, p) # <<>>
          /\ Ids(Append(call.saved, p)) = Ids(call.saved) \cup {id}
      BY <2>0, <2>2, SavedAnother
    <2>4. rest.saved = call.saved
      BY <1>5
    <2>5. /\ DOMAIN one = CallFields /\ one.saved = Append(call.saved, p)
          /\ \A f \in CallFields \ {"saved"} : one[f] = rest[f]
      BY <1>3, <1>9, <2>2, <2>4 DEF CallFields
    <2>6. CallType(one)
      BY <1>4, <2>3, <2>5 DEF CallType, CallFields
    <2>7. one.op = "lookup" /\ ~one.bad /\ one.step = "adopt"
      BY <1>0, <1>2, <1>5, <2>5 DEF CallFields
    <2>8. CallInv(one)
      <3>1. CallProgress(one)
        BY <1>5, <2>5, <2>7 DEF CallInv, CallProgress, CallFields
      <3>. QED  BY <2>6, <3>1 DEF CallInv
    <2>9. PICK next : Becomes(c, next) /\ next \in {one, Answered(one, "ok")}
      BY <1>9
    <2>10. CallInv(next) /\ \A f \in {"op", "workspace", "saved", "out"} : next[f] = one[f]
      BY <1>6, <2>7, <2>8, <2>9
    <2>11. /\ next.op = call.op /\ next.workspace = call.workspace /\ next.op = "lookup"
           /\ next.out = call.out /\ Ids(next.saved) = Ids(call.saved) \cup {id}
      BY <1>2, <1>5, <2>3, <2>5, <2>10 DEF CallFields
    <2>12. id \notin DOMAIN rows
      BY <1>0, <2>1 DEF RowsInv
    <2>13. /\ RowsInv' /\ DOMAIN rows' = DOMAIN rows \cup {id}
           /\ \A i \in DOMAIN rows : i \in DOMAIN rows' /\ rows'[i].workspace = rows[i].workspace
           /\ id \in OwnIds(call.workspace)' /\ \A x : OwnIds(x) \subseteq OwnIds(x)'
      <3>1. id \in DOMAIN rows => rows[id].workspace = call.workspace
        BY <2>12
      <3>2. minted' \in Nat
        BY <2>1
      <3>. QED  BY <1>0, <1>9, <2>0, <2>1, <3>1, <3>2, UpsertStep
    <2>14. /\ ToSet(call.out) \subseteq 1 .. minted /\ Ids(call.saved) \subseteq OwnIds(call.workspace)
           /\ IsInjective(call.out) /\ ToSet(call.out) \cap DOMAIN rows = {}
      BY <1>0, <1>2, <1>p DEF CallSound, New
    <2>15. Ids(next.saved) \subseteq OwnIds(next.workspace)' /\ ToSet(next.out) \subseteq 1 .. minted'
      BY <2>1, <2>11, <2>13, <2>14
    <2>16. /\ IsInjective(next.out) /\ ToSet(next.out) \cap DOMAIN rows' = {}
           /\ \A i \in Ids(next.saved) \cup ToSet(next.out) : i \in Holds(c) \/ i \notin 1 .. minted
      BY <1>p, <2>1, <2>11, <2>13, <2>14 DEF Holds
    <2>17. \A d \in DOMAIN calls : id \notin ToSet(calls[d].out)
      BY <2>1 DEF RuntimeInv, CallSound
    <2>18. next.op # "patch"
      BY <2>11
    <2>. QED  BY <1>k, <1>p, <2>1, <2>9, <2>10, <2>11, <2>13, <2>15, <2>16, <2>17, <2>18, CallStep, ZenonT(30)
  <1>. QED  BY <1>7, <1>8, <1>9, <1>p DEF Adopt, AdoptedId

LEMMA RestartStep ==
    ASSUME RuntimeInv, Restart
    PROVE  RuntimeInv' /\ Grows
  <1>k. Kept /\ UNCHANGED <<rows, minted>>
    BY MishapKept DEF Kept, Restart, RuntimeInv
  <1>1. calls' = [c \in DOMAIN calls |->
                    IF calls[c].step = "done" THEN calls[c] ELSE Answered(calls[c], "error")]
    BY DEF Restart
  <1>2. Len(calls) \in Nat /\ DOMAIN calls = 1 .. Len(calls)
    BY SequenceFacts DEF RuntimeInv
  <1>3. DOMAIN calls' = DOMAIN calls /\ Len(calls') = Len(calls) /\ Sequence(calls')
    <2>. DEFINE S == ToSet(calls')
    <2>1. \A c \in 1 .. Len(calls) : calls'[c] \in S
      BY <1>1, <1>2 DEF ToSet
    <2>2. calls' = [c \in 1 .. Len(calls) |-> calls'[c]]
      BY <1>1, <1>2
    <2>. HIDE DEF S
    <2>3. calls' \in [1 .. Len(calls) -> S]
      BY <2>1, <2>2
    <2>4. calls' \in Seq(S) /\ Len(calls') = Len(calls)
      BY <1>2, <2>3
    <2>. QED  BY <1>2, <2>3, <2>4 DEF Sequence, S
  <1>4. \A w : OwnIds(w)' = OwnIds(w)
    BY <1>k DEF OwnIds
  <1>5. ASSUME NEW c \in DOMAIN calls
        PROVE  /\ CallInv(calls'[c])
               /\ \A f \in {"op", "workspace", "saved", "out"} : calls'[c][f] = calls[c][f]
    <2>p. PICK call : call = calls[c]
      OBVIOUS
    <2>0. CallInv(call)
      BY <2>p DEF RuntimeInv, CallSound
    <2>1. CASE call.step = "done"
      BY <1>1, <2>0, <2>1, <2>p
    <2>2. CASE call.step # "done"
      <3>1. CallType(call) /\ ~call.bad /\ calls'[c] = Answered(call, "error")
        BY <1>1, <2>0, <2>2, <2>p DEF CallInv, CallProgress
      <3>. QED  BY <2>p, <3>1, AnsweredInv DEF CallFields
    <2>. QED  BY <2>1, <2>2
  <1>6. ASSUME NEW c \in DOMAIN calls
        PROVE  CallSound(c)' /\ Holds(c)' = Holds(c) /\ calls'[c].op = calls[c].op
    <2>1. CallSound(c)
      BY DEF RuntimeInv
    <2>. QED  BY <1>4, <1>5, <1>k, <2>1 DEF CallSound, Holds
  <1>7. Grows
    BY <1>2, <1>3, <1>6, <1>k DEF Grows
  <1>8. RowsInv'
    BY <1>k DEF RuntimeInv, RowsInv
  <1>9. \A c, d \in DOMAIN calls' :
          c # d /\ calls'[c].op \in New /\ calls'[d].op \in New => Holds(c)' \cap Holds(d)' = {}
    BY <1>3, <1>6 DEF RuntimeInv
  <1>. QED  BY <1>3, <1>6, <1>7, <1>8, <1>9, <1>k DEF RuntimeInv, Kept

\* The runtime's own steps.
LEMMA ServeStep ==
    ASSUME RuntimeInv, (\E c \in DOMAIN calls : Serve(c)) \/ Restart
    PROVE  RuntimeInv' /\ Grows
  BY PeopleStep, CompleteStep, SaveStep, PatchStep, ListStep, FetchIndexStep, AdoptStep, RestartStep
     DEF Serve

-----------------------------------------------------------------------------
(* The tab and its callbacks.                                              *)

\* Profiles that the runtime has stored.
Stored(profiles) == profiles \in Seq(ProfileType) /\ Ids(profiles) \subseteq DOMAIN rows

CallbackFields == {"pc", "workspace", "method", "count", "got", "call", "personas", "tasks",
                   "profile", "index", "session", "job", "attempt", "judged", "allow"}

CallbackType(callback) ==
    /\ DOMAIN callback = CallbackFields
    /\ callback.pc # "idle" /\ callback.workspace \in Workspaces
    /\ callback.count \in Nat /\ callback.tasks \in Nat /\ callback.index \in Nat
    /\ callback.allow \in BOOLEAN
    /\ callback.profile \in ProfileType \cup {Missing}

\* What a callback has captured and gathered is stored.
CallbackInv(h, callback) ==
    /\ CallbackType(callback)
    /\ Stored(callback.got) /\ Stored(callback.personas)
    /\ callback.profile # Missing => callback.profile.id \in DOMAIN rows
    /\ callback.call \in 0 .. Len(calls)
    /\ h = "generate" =>
         /\ callback.count > 0 /\ callback.method \in Methods
         /\ callback.method = "TinyTroupe" => callback.count <= LiveCap
         /\ callback.pc \in {"tasks", "pool"} => callback.got = <<>>
         /\ callback.pc = "judge" => callback.call > 0
         /\ callback.tasks \in TaskCounts \cup {0, 10}
    /\ h = "save" /\ callback.call > 0 => calls[callback.call].op = "patch"
    /\ h \in {"start", "api"} => callback.tasks # 0
    /\ h = "start" => callback.personas # <<>>

HandlerInv(h) == busy[h] = Idle \/ CallbackInv(h, busy[h])

Callers == Handlers \ {"follow"}

HandlersInv ==
    /\ DOMAIN busy = Handlers
    /\ busy["follow"] \in {Idle, [pc |-> "loaded"]}
    /\ \A h \in Callers : HandlerInv(h)

TabInv ==
    /\ workspace \in Workspaces
    /\ Stored(display)
    /\ tasks \in TaskCounts \cup {0, 10}
    /\ index \in Nat
    /\ editor \in ProfileType \cup {Missing}
    /\ editor # Missing => editor.id \in DOMAIN rows
    /\ \E scene \in Scenes : clicks \subseteq scene.buttons

JobType == [session : Nat, personas : Seq(ProfileType), tasks : Nat \ {0},
            status : {"queued", "ended"}, source : {"gradio", "api"}]

\* Both start an analysis: the tab's button and the workflow of the API.
Starters == {"start", "api"}

Snapshotting(h) == busy[h].pc = "snapshot"

\* The snapshots of a callback are the first of its personas, in a session
\* that no job has.
StarterInv(h) ==
    /\ Snapshotting(h) =>
         /\ busy[h].session \in DOMAIN snapshots
         /\ Len(snapshots[busy[h].session]) <= Len(busy[h].personas)
         /\ \A n \in 1 .. Len(snapshots[busy[h].session]) :
              snapshots[busy[h].session][n] = busy[h].personas[n]
         /\ \A j \in DOMAIN jobs : jobs[j].session # busy[h].session
    /\ busy[h].pc = "wait" =>
         busy[h].session \in DOMAIN snapshots /\ busy[h].job \in DOMAIN jobs

PlaneInv ==
    /\ snapshots \in Seq(Seq(ProfileType))
    /\ \A s \in DOMAIN snapshots : Stored(snapshots[s])
    /\ jobs \in Seq(JobType)
    /\ \A j \in DOMAIN jobs : jobs[j].session \in DOMAIN snapshots /\ Stored(jobs[j].personas)
    /\ JobIsWhole
    /\ shown # Nowhere => shown.session \in DOMAIN snapshots /\ shown.job \in DOMAIN jobs
    /\ \A h \in Starters : StarterInv(h)
    /\ Snapshotting("start") /\ Snapshotting("api") => busy["start"].session # busy["api"].session

BenchInv == RuntimeInv /\ TabInv /\ HandlersInv /\ PlaneInv

-----------------------------------------------------------------------------
(* What the steps have in common.                                          *)

LEMMA StoredStays ==
    ASSUME Grows
    PROVE  \A s : Stored(s) => Stored(s)'
  BY DEF Grows, Stored

LEMMA StoredFacts ==
    /\ Stored(<<>>)
    /\ \A s, t : Stored(s) /\ Stored(t) => Stored(s \o t) /\ Len(s \o t) = Len(s) + Len(t)
    /\ \A s : Stored(s) => Len(s) \in Nat /\ DOMAIN s = 1 .. Len(s)
    /\ \A s : Stored(s) => \A i \in DOMAIN s : s[i] \in ProfileType /\ s[i].id \in DOMAIN rows
    /\ \A s, p : Stored(s) /\ p \in ProfileType /\ p.id \in DOMAIN rows =>
         Stored(Append(s, p)) /\ \A i \in DOMAIN s : Stored([s EXCEPT ![i] = p])
  <1>1. Stored(<<>>)
    BY DEF Stored, Ids, ToSet
  <1>2. ASSUME NEW s, Stored(s)
        PROVE  /\ Len(s) \in Nat /\ DOMAIN s = 1 .. Len(s)
               /\ \A i \in DOMAIN s : s[i] \in ProfileType /\ s[i].id \in DOMAIN rows
    BY <1>2 DEF Stored, Ids, ToSet
  <1>a. ASSUME NEW s \in Seq(ProfileType), \A i \in DOMAIN s : s[i].id \in DOMAIN rows
        PROVE  Stored(s)
    BY <1>a DEF Stored, Ids, ToSet
  <1>3. ASSUME NEW s, NEW t, Stored(s), Stored(t)
        PROVE  Stored(s \o t) /\ Len(s \o t) = Len(s) + Len(t)
    <2>1. s \in Seq(ProfileType) /\ t \in Seq(ProfileType)
      BY <1>3 DEF Stored
    <2>2. /\ s \o t \in Seq(ProfileType) /\ Len(s \o t) = Len(s) + Len(t)
          /\ \A i \in DOMAIN (s \o t) : (s \o t)[i] = IF i <= Len(s) THEN s[i] ELSE t[i - Len(s)]
      BY <2>1
    <2>3. \A i \in DOMAIN (s \o t) : (s \o t)[i].id \in DOMAIN rows
      <3>1. \A i \in DOMAIN (s \o t) :
              IF i <= Len(s) THEN i \in DOMAIN s ELSE i - Len(s) \in DOMAIN t
        BY <1>2, <1>3, <2>2
      <3>. QED  BY <1>2, <1>3, <2>2, <3>1
    <2>. QED  BY <1>a, <2>2, <2>3
  <1>4. ASSUME NEW s, NEW p, Stored(s), p \in ProfileType, p.id \in DOMAIN rows
        PROVE  Stored(Append(s, p)) /\ \A i \in DOMAIN s : Stored([s EXCEPT ![i] = p])
    <2>1. s \in Seq(ProfileType)
      BY <1>4 DEF Stored
    <2>2. Stored(Append(s, p))
      <3>1. Append(s, p) \in Seq(ProfileType) /\ Ids(Append(s, p)) = Ids(s) \cup {p.id}
        BY <1>4, <2>1, SavedAnother
      <3>. QED  BY <1>4, <3>1 DEF Stored
    <2>3. ASSUME NEW i \in DOMAIN s PROVE Stored([s EXCEPT ![i] = p])
      <3>1. [s EXCEPT ![i] = p] \in Seq(ProfileType) /\ DOMAIN [s EXCEPT ![i] = p] = DOMAIN s
        BY <1>4, <2>1
      <3>2. \A k \in DOMAIN s : [s EXCEPT ![i] = p][k].id \in DOMAIN rows
        BY <1>2, <1>4
      <3>. QED  BY <1>a, <3>1, <3>2
    <2>. QED  BY <2>2, <2>3
  <1>. QED  BY <1>1, <1>2, <1>3, <1>4

\* A step that leaves the runtime alone.
LEMMA QuietStep ==
    ASSUME RuntimeInv, UNCHANGED runtimeVars
    PROVE  RuntimeInv' /\ Grows
  <1>1. UNCHANGED <<tinytroupe, rows, minted, calls, cache, mishaps>>
    BY DEF runtimeVars
  <1>2. Len(calls) \in Nat
    BY SequenceFacts DEF RuntimeInv
  <1>3. Grows
    BY <1>1, <1>2 DEF Grows
  <1>4. \A c \in DOMAIN calls : CallSound(c)' /\ Holds(c)' = Holds(c)
    BY <1>1 DEF RuntimeInv, CallSound, Holds, OwnIds
  <1>. QED  BY <1>1, <1>3, <1>4 DEF RuntimeInv, RowsInv

\* A mishap that leaves it alone otherwise.
LEMMA MishapStep ==
    ASSUME RuntimeInv, Mishap, UNCHANGED <<tinytroupe, rows, minted, calls, cache>>
    PROVE  RuntimeInv' /\ Grows
  <1>2. Len(calls) \in Nat
    BY SequenceFacts DEF RuntimeInv
  <1>3. Grows
    BY <1>2 DEF Grows
  <1>4. \A c \in DOMAIN calls : CallSound(c)' /\ Holds(c)' = Holds(c)
    BY DEF RuntimeInv, CallSound, Holds, OwnIds
  <1>5. mishaps' \in 0 .. MaxMishaps
    BY MishapKept
  <1>. QED  BY <1>3, <1>4, <1>5 DEF RuntimeInv, RowsInv

\* A callback that a step leaves alone.
LEMMA CallbackStays ==
    ASSUME Grows, DOMAIN calls = 1 .. Len(calls), NEW h, NEW callback, CallbackInv(h, callback)
    PROVE  CallbackInv(h, callback)'
  <1>1. Stored(callback.got)' /\ Stored(callback.personas)'
    BY StoredStays DEF CallbackInv
  <1>2. callback.call \in 0 .. Len(calls')
    BY DEF CallbackInv, Grows
  <1>3. callback.profile # Missing => callback.profile.id \in DOMAIN rows'
    BY DEF CallbackInv, Grows
  <1>4. h = "save" /\ callback.call > 0 => calls'[callback.call].op = "patch"
    <2>1. callback.call \in 0 .. Len(calls) /\ Len(calls) \in Nat
      BY DEF CallbackInv, Grows
    <2>2. callback.call > 0 => callback.call \in DOMAIN calls
      BY <2>1
    <2>. QED  BY <2>2 DEF CallbackInv, Grows
  <1>. QED  BY <1>1, <1>2, <1>3, <1>4 DEF CallbackInv

LEMMA HandlersStay ==
    ASSUME RuntimeInv, Grows, HandlersInv, DOMAIN busy' = Handlers,
           busy'["follow"] \in {Idle, [pc |-> "loaded"]},
           \A h \in Callers : busy'[h] = busy[h] \/ HandlerInv(h)'
    PROVE  HandlersInv'
  <1>1. DOMAIN calls = 1 .. Len(calls)
    BY SequenceFacts DEF RuntimeInv
  <1>2. ASSUME NEW h \in Callers PROVE HandlerInv(h)'
    <2>1. HandlerInv(h)
      BY DEF HandlersInv
    <2>2. CASE busy'[h] = busy[h] /\ busy[h] # Idle
      <3>1. CallbackInv(h, busy[h])
        BY <2>1, <2>2 DEF HandlerInv
      <3>2. PICK callback : callback = busy[h]
        OBVIOUS
      <3>3. CallbackInv(h, callback)'
        BY <1>1, <3>1, <3>2, CallbackStays
      <3>. QED  BY <2>2, <3>2, <3>3 DEF HandlerInv
    <2>3. CASE busy'[h] = busy[h] /\ busy[h] = Idle
      BY <2>3 DEF HandlerInv
    <2>. QED  BY <2>2, <2>3
  <1>. QED  BY <1>2 DEF HandlersInv

LEMMA TabStays ==
    ASSUME Grows, TabInv, UNCHANGED tabVars, clicks' \subseteq clicks
    PROVE  TabInv'
  <1>1. Stored(display)'
    BY StoredStays DEF TabInv, tabVars
  <1>. QED  BY <1>1 DEF TabInv, tabVars, Grows

\* The control plane as it was, and nobody between a session and its job who
\* was not there before.
LEMMA PlaneStays ==
    ASSUME Grows, PlaneInv, UNCHANGED planeVars,
           shown' \in {shown, Nowhere} \/ (shown'.session \in DOMAIN snapshots /\ shown'.job \in DOMAIN jobs),
           \A h \in Starters : busy'[h] = busy[h] \/ busy'[h].pc \notin {"snapshot", "wait"}
    PROVE  PlaneInv'
  <1>1. UNCHANGED <<snapshots, jobs>>
    BY DEF planeVars
  <1>2. /\ \A s \in DOMAIN snapshots : Stored(snapshots[s])'
        /\ \A j \in DOMAIN jobs : Stored(jobs[j].personas)'
    BY <1>1, StoredStays DEF PlaneInv
  <1>3. ASSUME NEW h \in Starters
        PROVE  StarterInv(h)' /\ (Snapshotting(h)' => Snapshotting(h) /\ busy'[h] = busy[h])
    <2>1. StarterInv(h)
      BY DEF PlaneInv
    <2>2. CASE busy'[h] = busy[h]
      BY <1>1, <2>1, <2>2 DEF StarterInv, Snapshotting
    <2>3. CASE busy'[h].pc \notin {"snapshot", "wait"}
      BY <2>3 DEF StarterInv, Snapshotting
    <2>. QED  BY <2>2, <2>3
  <1>4. Snapshotting("start")' /\ Snapshotting("api")' => busy'["start"].session # busy'["api"].session
    BY <1>3 DEF PlaneInv, Starters
  <1>5. JobIsWhole'
    BY <1>1 DEF PlaneInv, JobIsWhole
  <1>6. shown' # Nowhere => shown'.session \in DOMAIN snapshots /\ shown'.job \in DOMAIN jobs
    BY DEF PlaneInv
  <1>7. /\ snapshots \in Seq(Seq(ProfileType)) /\ jobs \in Seq(JobType)
        /\ \A j \in DOMAIN jobs : jobs[j].session \in DOMAIN snapshots
    BY DEF PlaneInv
  <1>. QED  BY <1>1, <1>2, <1>3, <1>4, <1>5, <1>6, <1>7 DEF PlaneInv

\* A callback begins.
LEMMA BegunInv ==
    ASSUME NEW pc, pc # "idle", NEW w \in Workspaces
    PROVE  /\ CallbackType(Begun(pc, w)) /\ Begun(pc, w).call = 0 /\ Begun(pc, w).pc = pc
           /\ Begun(pc, w).got = <<>> /\ Begun(pc, w).personas = <<>>
           /\ Begun(pc, w).profile = Missing /\ Begun(pc, w).workspace = w
  BY DEF Begun, CallbackType, CallbackFields

\* A callback posts a request and awaits it.
LEMMA RequestStep ==
    ASSUME RuntimeInv, HandlersInv, NEW h \in Callers, NEW callback, CallbackInv(h, callback),
           NEW pc, pc # "idle", h = "generate" /\ pc \in {"tasks", "pool"} => callback.got = <<>>,
           NEW call, Posted(call), h = "save" => call.op = "patch",
           Requests(h, callback, pc, call)
    PROVE  /\ RuntimeInv' /\ Grows /\ HandlersInv'
           /\ busy'[h].pc = pc /\ \A k \in Handlers \ {h} : busy'[k] = busy[k]
  <1>1. /\ RuntimeInv' /\ Grows
        /\ Len(calls) + 1 \in DOMAIN calls' /\ calls'[Len(calls) + 1].op = call.op
        /\ Len(calls') = Len(calls) + 1
    BY AskStep DEF Requests
  <1>p. PICK n, next : n = Len(calls) + 1 /\ next = [callback EXCEPT !.pc = pc, !.call = n]
    OBVIOUS
  <1>2. CallbackInv(h, callback)'
    <2>1. DOMAIN calls = 1 .. Len(calls)
      BY SequenceFacts DEF RuntimeInv
    <2>. QED  BY <1>1, <2>1, CallbackStays
  <1>3. n \in 0 .. Len(calls') /\ n > 0 /\ calls'[n].op = call.op
    BY <1>1, <1>p DEF Grows
  <1>4. /\ DOMAIN next = CallbackFields /\ next.pc = pc /\ next.call = n
        /\ \A f \in CallbackFields \ {"pc", "call"} : next[f] = callback[f]
    BY <1>p DEF CallbackInv, CallbackType, CallbackFields
  <1>5. CallbackType(next)
    BY <1>4 DEF CallbackInv, CallbackType, CallbackFields
  <1>6. CallbackInv(h, next)'
    BY <1>2, <1>3, <1>4, <1>5 DEF CallbackInv, CallbackFields
  <1>7. /\ DOMAIN busy' = Handlers /\ busy'[h] = next
        /\ \A k \in Handlers \ {h} : busy'[k] = busy[k]
    BY <1>p DEF Requests, Goes, HandlersInv, Callers
  <1>8. HandlerInv(h)'
    BY <1>6, <1>7 DEF HandlerInv
  <1>9. busy'["follow"] \in {Idle, [pc |-> "loaded"]}
    BY <1>7 DEF HandlersInv, Callers, Handlers
  <1>10. HandlersInv'
    BY <1>1, <1>7, <1>8, <1>9, HandlersStay DEF Callers
  <1>. QED  BY <1>1, <1>4, <1>7, <1>10

\* A callback goes on without one.
LEMMA GoesStep ==
    ASSUME RuntimeInv, Grows, HandlersInv, NEW h \in Callers, NEW next, Goes(h, next),
           next = Idle \/ CallbackInv(h, next)
    PROVE  HandlersInv' /\ busy'[h] = next /\ \A k \in Handlers \ {h} : busy'[k] = busy[k]
  <1>1. /\ DOMAIN busy' = Handlers /\ busy'[h] = next
        /\ \A k \in Handlers \ {h} : busy'[k] = busy[k]
    BY DEF Goes, HandlersInv, Callers
  <1>2. HandlerInv(h)'
    <2>1. DOMAIN calls = 1 .. Len(calls)
      BY SequenceFacts DEF RuntimeInv
    <2>. QED  BY <1>1, <2>1, CallbackStays DEF HandlerInv
  <1>3. busy'["follow"] \in {Idle, [pc |-> "loaded"]}
    BY <1>1 DEF HandlersInv, Callers, Handlers
  <1>. QED  BY <1>1, <1>2, <1>3, HandlersStay DEF Callers

\* What a callback hears is stored.
LEMMA AnswerStored ==
    ASSUME RuntimeInv, HandlersInv, NEW h \in Callers, busy[h] # Idle, Hears(h)
    PROVE  /\ CallbackInv(h, busy[h]) /\ Stored(Answer(h))
           /\ h = "save" => Answer(h) # <<>>
  <1>1. CallbackInv(h, busy[h])
    BY DEF HandlersInv, HandlerInv
  <1>2. busy[h].call # 0 /\ busy[h].call \in DOMAIN calls /\ calls[busy[h].call].result = "ok"
    <2>1. busy[h].call # 0 /\ calls[busy[h].call].result = "ok"
      BY DEF Hears, Result
    <2>2. busy[h].call \in 0 .. Len(calls) /\ DOMAIN calls = 1 .. Len(calls) /\ Len(calls) \in Nat
      BY <1>1, SequenceFacts DEF CallbackInv, RuntimeInv
    <2>. QED  BY <2>1, <2>2
  <1>3. CallSound(busy[h].call)
    BY <1>2 DEF RuntimeInv
  <1>4. Stored(Answer(h))
    BY <1>3 DEF Stored, Answer, CallSound, CallInv, CallType, OwnIds
  <1>5. h = "save" => calls[busy[h].call].op = "patch"
    <2>1. busy[h].call > 0
      BY <1>1, <1>2 DEF CallbackInv
    <2>. QED  BY <1>1, <2>1 DEF CallbackInv
  <1>. QED  BY <1>1, <1>2, <1>3, <1>4, <1>5 DEF CallSound, CallInv, CallProgress, Answer

\* What a step writes to the tab.
LEMMA TabChanges ==
    ASSUME Grows, TabInv, workspace' \in Workspaces, Stored(display)',
           tasks' \in TaskCounts \cup {0, 10}, index' \in Nat,
           \/ UNCHANGED editor
           \/ editor' \in ProfileType \cup {Missing} /\ (editor' # Missing => editor'.id \in DOMAIN rows'),
           clicks' \subseteq clicks
    PROVE  TabInv'
  <1>1. editor' \in ProfileType \cup {Missing} /\ (editor' # Missing => editor'.id \in DOMAIN rows')
    BY DEF TabInv, Grows
  <1>. QED  BY <1>1 DEF TabInv

-----------------------------------------------------------------------------
(* handle_generate.                                                        *)

LEMMA GenerationGoesOn ==
    ASSUME NEW callback, CallbackInv("generate", callback), NEW next,
           DOMAIN next = CallbackFields, next.pc # "idle", Stored(next.got),
           next.pc \in {"tasks", "pool"} => next.got = <<>>, next.pc = "judge" => next.call > 0,
           next.tasks \in TaskCounts \cup {0, 10},
           \A f \in CallbackFields \ {"pc", "got", "tasks", "attempt", "judged"} : next[f] = callback[f]
    PROVE  CallbackInv("generate", next)
  <1>1. next.tasks \in Nat
    <2>1. TaskCounts \subseteq Nat
      BY CountsAssumption
    <2>2. {0, 10} \subseteq Nat
      OBVIOUS
    <2>. QED  BY <2>1, <2>2
  <1>2. CallbackType(next)
    BY <1>1 DEF CallbackInv, CallbackType, CallbackFields
  <1>. QED  BY <1>2 DEF CallbackInv, CallbackFields

LEMMA ClickGenerateStep ==
    ASSUME BenchInv, NEW method \in Methods, NEW n \in Counts, ClickGenerate(method, n)
    PROVE  BenchInv'
  <1>1. RuntimeInv' /\ Grows
    BY QuietStep DEF BenchInv, ClickGenerate
  <1>p. PICK next : next = [Begun("tasks", workspace) EXCEPT
                              !.method = method, !.count = Requested(method, n)]
    OBVIOUS
  <1>2. Requested(method, n) \in Nat /\ Requested(method, n) > 0
        /\ (method = "TinyTroupe" => Requested(method, n) <= LiveCap)
    <2>1. n \in Nat /\ n > 0 /\ LiveCap \in Nat /\ LiveCap > 0
      BY CountsAssumption
    <2>. QED  BY <2>1 DEF Requested
  <1>b. PICK begun : begun = Begun("tasks", workspace)
    OBVIOUS
  <1>3. /\ CallbackType(begun) /\ begun.call = 0 /\ begun.pc = "tasks" /\ begun.got = <<>>
        /\ begun.personas = <<>> /\ begun.profile = Missing
    BY <1>b, BegunInv DEF BenchInv, TabInv
  <1>t. begun.tasks = 0
    BY <1>b DEF Begun
  <1>4. /\ DOMAIN next = CallbackFields /\ next.method = method /\ next.count = Requested(method, n)
        /\ \A f \in CallbackFields \ {"method", "count"} : next[f] = begun[f]
    BY <1>3, <1>b, <1>p DEF CallbackType, CallbackFields
  <1>5. CallbackType(next)
    BY <1>2, <1>3, <1>4 DEF CallbackType, CallbackFields
  <1>l. Len(calls) \in Nat
    BY <1>1 DEF Grows
  <1>6. CallbackInv("generate", next)
    BY <1>2, <1>3, <1>4, <1>5, <1>l, <1>t, StoredFacts DEF CallbackInv, CallbackFields
  <1>7. HandlersInv' /\ \A k \in Handlers \ {"generate"} : busy'[k] = busy[k]
    <2>1. Goes("generate", next) /\ "generate" \in Callers
      BY <1>p DEF ClickGenerate, Callers, Handlers
    <2>. QED  BY <1>1, <1>6, <2>1, GoesStep DEF BenchInv
  <1>8. TabInv'
    <2>1. Stored(<<>>)'
      BY <1>1, StoredFacts, StoredStays
    <2>2. display' = <<>> /\ tasks' = 0 /\ UNCHANGED <<workspace, index, editor>> /\ clicks' \subseteq clicks
      BY DEF ClickGenerate, Click
    <2>3. Stored(display)'
      BY <2>1, <2>2 DEF Stored
    <2>. QED  BY <1>1, <2>2, <2>3, TabChanges DEF BenchInv, TabInv
  <1>9. PlaneInv'
    <2>1. UNCHANGED planeVars /\ UNCHANGED shown
      BY DEF ClickGenerate
    <2>. QED  BY <1>1, <1>7, <2>1, PlaneStays DEF BenchInv, Starters, Handlers
  <1>. QED  BY <1>1, <1>7, <1>8, <1>9 DEF BenchInv

LEMMA FirstRequestStep ==
    ASSUME RuntimeInv, HandlersInv, NEW h \in {"generate", "api"}, NEW callback, CallbackInv(h, callback),
           callback.count > 0, callback.got = <<>>, callback.method \in Methods, FirstRequest(h, callback)
    PROVE  /\ RuntimeInv' /\ Grows /\ HandlersInv'
           /\ busy'[h].pc \notin {"snapshot", "wait"} /\ \A k \in Handlers \ {h} : busy'[k] = busy[k]
  <1>0. h \in Callers /\ callback.workspace \in Workspaces /\ callback.count \in Nat \ {0}
        /\ callback.allow \in BOOLEAN
    BY DEF Callers, Handlers, CallbackInv, CallbackType
  <1>s. h # "save"
    OBVIOUS
  <1>1. CASE callback.method = "Example Persona"
    <2>1. Requests(h, callback, "example", Compilation(callback))
      BY <1>1 DEF FirstRequest
    <2>2. Posted(Compilation(callback))
      BY <1>0, CallIsPosted DEF Compilation, Ops
    <2>3. /\ RuntimeInv' /\ Grows /\ HandlersInv'
          /\ busy'[h].pc = "example" /\ \A k \in Handlers \ {h} : busy'[k] = busy[k]
      BY <1>0, <1>s, <2>1, <2>2, RequestStep
    <2>. QED  BY <2>3
  <1>2. CASE callback.method = "TinyTroupe"
    <2>1. Requests(h, callback, "generate", Generation(callback, callback.count))
      BY <1>2 DEF FirstRequest
    <2>2. Posted(Generation(callback, callback.count))
      BY <1>0, CallIsPosted DEF Generation, Ops
    <2>3. /\ RuntimeInv' /\ Grows /\ HandlersInv'
          /\ busy'[h].pc = "generate" /\ \A k \in Handlers \ {h} : busy'[k] = busy[k]
      BY <1>0, <1>s, <2>1, <2>2, RequestStep
    <2>. QED  BY <2>3
  <1>3. CASE callback.method = "PersonaPool"
    <2>1. Requests(h, callback, "pool", Call("lookup", callback.workspace, callback.count))
      BY <1>3 DEF FirstRequest
    <2>2. Posted(Call("lookup", callback.workspace, callback.count))
      BY <1>0, CallIsPosted DEF Ops
    <2>3. /\ RuntimeInv' /\ Grows /\ HandlersInv'
          /\ busy'[h].pc = "pool" /\ \A k \in Handlers \ {h} : busy'[k] = busy[k]
      BY <1>0, <1>s, <2>1, <2>2, RequestStep
    <2>. QED  BY <2>3
  <1>. QED  BY <1>1, <1>2, <1>3 DEF Methods

\* A step of handle_generate writes what is stored, a number of tasks, or
\* neither, and leaves the rest alone.
LEMMA GenerateFrame ==
    ASSUME BenchInv, RuntimeInv', Grows, HandlersInv',
           \A k \in Handlers \ {"generate"} : busy'[k] = busy[k],
           Stored(display)', tasks' \in TaskCounts \cup {0, 10},
           UNCHANGED <<workspace, index, editor, shown, planeVars, clicks>>
    PROVE  BenchInv'
  <1>1. TabInv'
    BY TabChanges DEF BenchInv, TabInv
  <1>2. PlaneInv'
    BY PlaneStays DEF BenchInv, Starters, Handlers
  <1>. QED  BY <1>1, <1>2 DEF BenchInv

LEMMA GeneratorInv ==
    ASSUME BenchInv, busy["generate"].pc # "idle"
    PROVE  CallbackInv("generate", busy["generate"]) /\ busy["generate"] # Idle
  BY DEF BenchInv, HandlersInv, HandlerInv, Callers, Handlers, Idle

LEMMA WriteTasksStep ==
    ASSUME BenchInv, WriteTasks
    PROVE  BenchInv'
  <1>p. PICK callback : callback = busy["generate"]
    OBVIOUS
  <1>0. CallbackInv("generate", callback) /\ callback.pc = "tasks" /\ callback.got = <<>>
    <2>1. callback.pc = "tasks"
      BY <1>p DEF WriteTasks, At
    <2>. QED  BY <1>p, <2>1, GeneratorInv DEF CallbackInv
  <1>f. UNCHANGED <<workspace, index, editor, shown, planeVars, clicks>>
    BY DEF WriteTasks
  <1>1. ASSUME NEW n \in TaskCounts \cup {10}, display' = <<>>, tasks' = n,
               FirstRequest("generate", [callback EXCEPT !.tasks = n, !.attempt = 0])
        PROVE  BenchInv'
    <2>p. PICK next : next = [callback EXCEPT !.tasks = n, !.attempt = 0]
      OBVIOUS
    <2>1. /\ DOMAIN next = CallbackFields /\ next.tasks = n
          /\ \A f \in CallbackFields \ {"tasks", "attempt"} : next[f] = callback[f]
      BY <1>0, <2>p DEF CallbackInv, CallbackType, CallbackFields
    <2>2. next.pc = "tasks" /\ next.got = <<>> /\ next.count = callback.count /\ next.method = callback.method
      BY <1>0, <2>1 DEF CallbackFields
    <2>3. CallbackInv("generate", next)
      BY <1>0, <2>1, <2>2, StoredFacts, GenerationGoesOn
    <2>4. /\ RuntimeInv' /\ Grows /\ HandlersInv'
          /\ \A k \in Handlers \ {"generate"} : busy'[k] = busy[k]
      <3>1. next.count > 0 /\ next.method \in Methods
        BY <1>0, <2>2 DEF CallbackInv
      <3>. QED  BY <1>1, <2>2, <2>3, <2>p, <3>1, FirstRequestStep DEF BenchInv
    <2>5. Stored(display)'
      BY <1>1, <2>4, StoredFacts, StoredStays DEF Stored
    <2>. QED  BY <1>1, <1>f, <2>4, <2>5, GenerateFrame
  <1>2. ASSUME Goes("generate", [callback EXCEPT !.attempt = @ + 1]),
               UNCHANGED <<display, tasks, runtimeVars>>
        PROVE  BenchInv'
    <2>p. PICK next : next = [callback EXCEPT !.attempt = @ + 1]
      OBVIOUS
    <2>1. DOMAIN next = CallbackFields /\ \A f \in CallbackFields \ {"attempt"} : next[f] = callback[f]
      BY <1>0, <2>p DEF CallbackInv, CallbackType, CallbackFields
    <2>2. next.pc = "tasks" /\ next.got = <<>> /\ next.tasks = callback.tasks
      BY <1>0, <2>1 DEF CallbackFields
    <2>3. CallbackInv("generate", next)
      <3>1. callback.tasks \in TaskCounts \cup {0, 10}
        BY <1>0 DEF CallbackInv
      <3>. QED  BY <1>0, <2>1, <2>2, <3>1, StoredFacts, GenerationGoesOn
    <2>4. RuntimeInv' /\ Grows
      BY <1>2, QuietStep DEF BenchInv
    <2>5. HandlersInv' /\ \A k \in Handlers \ {"generate"} : busy'[k] = busy[k]
      BY <1>2, <2>3, <2>4, <2>p, GoesStep DEF BenchInv, Callers, Handlers
    <2>6. Stored(display)' /\ tasks' \in TaskCounts \cup {0, 10}
      BY <1>2, <2>4, StoredStays DEF BenchInv, TabInv
    <2>. QED  BY <1>f, <2>4, <2>5, <2>6, GenerateFrame
  <1>. QED  BY <1>1, <1>2, <1>p DEF WriteTasks

LEMMA RequestsPosted ==
    ASSUME NEW callback, CallbackType(callback)
    PROVE  /\ \A n \in Nat \ {0} : Posted(Generation(callback, n))
           /\ Posted(Compilation(callback)) /\ Posted(Call("list", callback.workspace, 1))
  <1>1. callback.workspace \in Workspaces /\ callback.allow \in BOOLEAN
    BY DEF CallbackType
  <1>2. \A n \in Nat \ {0} : Posted(Generation(callback, n))
    BY <1>1, CallIsPosted DEF Generation, Ops
  <1>3. Posted(Call("compile", callback.workspace, 1)) /\ Posted(Call("list", callback.workspace, 1))
    BY <1>1, CallIsPosted DEF Ops
  <1>. QED  BY <1>2, <1>3 DEF Compilation

LEMMA GenerateRequests ==
    ASSUME BenchInv, NEW callback, CallbackInv("generate", callback),
           NEW pc \in {"example", "generate", "list"}, NEW call, Posted(call),
           Requests("generate", callback, pc, call), UNCHANGED <<display, tasks>>,
           UNCHANGED <<workspace, index, editor, shown, planeVars, clicks>>
    PROVE  BenchInv'
  <1>1. "generate" \in Callers /\ "generate" # "save" /\ pc # "idle" /\ pc \notin {"tasks", "pool"}
    BY DEF Callers, Handlers
  <1>2. /\ RuntimeInv' /\ Grows /\ HandlersInv'
        /\ \A k \in Handlers \ {"generate"} : busy'[k] = busy[k]
    BY <1>1, RequestStep DEF BenchInv
  <1>3. Stored(display)' /\ tasks' \in TaskCounts \cup {0, 10}
    BY <1>2, StoredStays DEF BenchInv, TabInv
  <1>. QED  BY <1>2, <1>3, GenerateFrame

LEMMA GeneratedStep ==
    ASSUME BenchInv, busy["generate"].pc # "idle", NEW personas, Stored(personas), Generated(personas),
           UNCHANGED <<workspace, index, editor, shown, planeVars, clicks>>
    PROVE  BenchInv'
  <1>p. PICK callback, next : /\ callback = busy["generate"]
                              /\ next = [callback EXCEPT !.pc = "choices", !.got = personas]
    OBVIOUS
  <1>0. CallbackInv("generate", callback)
    BY <1>p, GeneratorInv
  <1>1. /\ DOMAIN next = CallbackFields /\ next.pc = "choices" /\ next.got = personas
        /\ \A f \in CallbackFields \ {"pc", "got"} : next[f] = callback[f]
    BY <1>0, <1>p DEF CallbackInv, CallbackType, CallbackFields
  <1>2. next.tasks \in TaskCounts \cup {0, 10}
    BY <1>0, <1>1 DEF CallbackInv, CallbackFields
  <1>3. CallbackInv("generate", next)
    BY <1>0, <1>1, <1>2, GenerationGoesOn
  <1>4. RuntimeInv' /\ Grows
    BY QuietStep DEF BenchInv, Generated
  <1>5. HandlersInv' /\ \A k \in Handlers \ {"generate"} : busy'[k] = busy[k]
    <2>1. Goes("generate", next) /\ "generate" \in Callers
      BY <1>p DEF Generated, Callers, Handlers
    <2>. QED  BY <1>3, <1>4, <2>1, GoesStep DEF BenchInv
  <1>6. Stored(display)' /\ tasks' \in TaskCounts \cup {0, 10}
    <2>1. display' = personas /\ tasks' = callback.tasks
      BY <1>p DEF Generated
    <2>2. Stored(personas)'
      BY <1>4, StoredStays
    <2>. QED  BY <1>0, <2>1, <2>2 DEF Stored, CallbackInv
  <1>. QED  BY <1>4, <1>5, <1>6, GenerateFrame

LEMMA FailsStep ==
    ASSUME BenchInv, busy["generate"].pc # "idle", Fails,
           UNCHANGED <<workspace, index, editor, shown, planeVars, clicks>>
    PROVE  BenchInv'
  <1>p. PICK callback, next : /\ callback = busy["generate"]
                              /\ next = [callback EXCEPT !.pc = "choices", !.got = <<>>]
    OBVIOUS
  <1>0. CallbackInv("generate", callback)
    BY <1>p, GeneratorInv
  <1>1. /\ DOMAIN next = CallbackFields /\ next.pc = "choices" /\ next.got = <<>>
        /\ \A f \in CallbackFields \ {"pc", "got"} : next[f] = callback[f]
    BY <1>0, <1>p DEF CallbackInv, CallbackType, CallbackFields
  <1>2. next.tasks \in TaskCounts \cup {0, 10}
    BY <1>0, <1>1 DEF CallbackInv, CallbackFields
  <1>3. CallbackInv("generate", next)
    BY <1>0, <1>1, <1>2, StoredFacts, GenerationGoesOn
  <1>4. RuntimeInv' /\ Grows
    BY QuietStep DEF BenchInv, Fails
  <1>5. HandlersInv' /\ \A k \in Handlers \ {"generate"} : busy'[k] = busy[k]
    <2>1. Goes("generate", next) /\ "generate" \in Callers
      BY <1>p DEF Fails, Callers, Handlers
    <2>. QED  BY <1>3, <1>4, <2>1, GoesStep DEF BenchInv
  <1>6. Stored(display)' /\ tasks' \in TaskCounts \cup {0, 10}
    <2>1. display' = <<>> /\ tasks' = 0
      BY DEF Fails
    <2>2. Stored(<<>>)'
      BY <1>4, StoredFacts, StoredStays
    <2>. QED  BY <2>1, <2>2 DEF Stored
  <1>. QED  BY <1>4, <1>5, <1>6, GenerateFrame

LEMMA ProgressStep ==
    ASSUME BenchInv, Progress
    PROVE  BenchInv'
  <1>1. RuntimeInv' /\ Grows
    BY QuietStep DEF BenchInv, Progress
  <1>2. HandlersInv'
    <2>1. \A k \in Callers : busy'[k] = busy[k]
      BY DEF Progress
    <2>2. DOMAIN busy' = Handlers /\ busy'["follow"] \in {Idle, [pc |-> "loaded"]}
      BY DEF Progress, BenchInv, HandlersInv
    <2>. QED  BY <1>1, <2>1, <2>2, HandlersStay DEF BenchInv
  <1>3. Stored(display)' /\ tasks' \in TaskCounts \cup {0, 10}
    <2>1. busy["generate"].pc # "idle"
      BY DEF Progress, At
    <2>2. busy["generate"].tasks \in TaskCounts \cup {0, 10}
      BY <2>1, GeneratorInv DEF CallbackInv
    <2>3. Stored(<<>>)'
      BY <1>1, StoredFacts, StoredStays
    <2>. QED  BY <2>2, <2>3 DEF Progress, Stored
  <1>4. UNCHANGED <<workspace, index, editor, shown, planeVars, clicks>>
    BY DEF Progress
  <1>5. \A k \in Handlers \ {"generate"} : busy'[k] = busy[k]
    BY DEF Progress
  <1>. QED  BY <1>1, <1>2, <1>3, <1>4, <1>5, GenerateFrame

\* A callback of handle_generate with what it has gathered.
LEMMA GatheredInv ==
    ASSUME NEW callback, CallbackInv("generate", callback), callback.pc \notin {"tasks", "pool"},
           NEW got, Stored(got)
    PROVE  /\ CallbackInv("generate", [callback EXCEPT !.got = got])
           /\ [callback EXCEPT !.got = got].got = got
           /\ \A f \in CallbackFields \ {"got"} : [callback EXCEPT !.got = got][f] = callback[f]
  <1>p. PICK next : next = [callback EXCEPT !.got = got]
    OBVIOUS
  <1>1. /\ DOMAIN next = CallbackFields /\ next.got = got
        /\ \A f \in CallbackFields \ {"got"} : next[f] = callback[f]
    BY <1>p DEF CallbackInv, CallbackType, CallbackFields
  <1>2. /\ next.tasks \in TaskCounts \cup {0, 10} /\ next.pc = callback.pc /\ next.pc # "idle"
        /\ next.pc = "judge" => next.call > 0
    BY <1>1 DEF CallbackInv, CallbackType, CallbackFields
  <1>3. CallbackInv("generate", next)
    BY <1>1, <1>2, GenerationGoesOn
  <1>. QED  BY <1>1, <1>3, <1>p

\* What the callback has gathered when its request is answered.
LEMMA HeardInv ==
    ASSUME BenchInv, busy["generate"].pc # "idle", Hears("generate"), NEW gathered,
           gathered = [busy["generate"] EXCEPT !.got = @ \o Answer("generate")]
    PROVE  /\ Stored(Answer("generate")) /\ Stored(gathered.got) /\ CallbackType(gathered)
           /\ \A f \in CallbackFields \ {"got"} : gathered[f] = busy["generate"][f]
           /\ gathered.pc \notin {"tasks", "pool"} => CallbackInv("generate", gathered)
  <1>p. PICK callback, got : callback = busy["generate"] /\ got = callback.got \o Answer("generate")
    OBVIOUS
  <1>1. CallbackInv("generate", callback) /\ busy["generate"] # Idle
    BY <1>p, GeneratorInv
  <1>2. Stored(Answer("generate"))
    BY <1>1, AnswerStored DEF BenchInv, Callers, Handlers
  <1>3. Stored(got)
    BY <1>1, <1>2, <1>p, StoredFacts DEF CallbackInv
  <1>4. gathered = [callback EXCEPT !.got = got]
    BY <1>p
  <1>5. /\ DOMAIN gathered = CallbackFields /\ gathered.got = got
        /\ \A f \in CallbackFields \ {"got"} : gathered[f] = callback[f]
    BY <1>1, <1>4 DEF CallbackInv, CallbackType, CallbackFields
  <1>6. CallbackType(gathered)
    BY <1>1, <1>5 DEF CallbackInv, CallbackType, CallbackFields
  <1>7. gathered.pc = callback.pc
    BY <1>5 DEF CallbackFields
  <1>8. ASSUME gathered.pc \notin {"tasks", "pool"} PROVE CallbackInv("generate", gathered)
    <2>1. callback.pc \notin {"tasks", "pool"}
      BY <1>7, <1>8
    <2>2. CallbackInv("generate", [callback EXCEPT !.got = got])
      BY <1>1, <1>3, <2>1, GatheredInv
    <2>. QED  BY <1>4, <2>2
  <1>. QED  BY <1>2, <1>3, <1>5, <1>6, <1>8, <1>p

\* The rest of what the pool did not cover is generated.
LEMMA PoolRequests ==
    ASSUME BenchInv, busy["generate"].pc # "idle", NEW gathered, Stored(gathered.got), CallbackType(gathered),
           \A f \in CallbackFields \ {"got"} : gathered[f] = busy["generate"][f],
           NEW n \in Nat \ {0}, Request(gathered, "generate", Generation(gathered, n)),
           UNCHANGED <<workspace, index, editor, shown, planeVars, clicks>>
    PROVE  BenchInv'
  <1>p. PICK callback, next : callback = busy["generate"] /\ next = [gathered EXCEPT !.pc = "generate"]
    OBVIOUS
  <1>1. CallbackInv("generate", callback)
    BY <1>p, GeneratorInv
  <1>2. /\ DOMAIN next = CallbackFields /\ next.pc = "generate"
        /\ \A f \in CallbackFields \ {"pc"} : next[f] = gathered[f]
    BY <1>p DEF CallbackType, CallbackFields
  <1>3. /\ next.got = gathered.got /\ next.workspace = gathered.workspace /\ next.allow = gathered.allow
        /\ next.tasks = callback.tasks
        /\ \A f \in CallbackFields \ {"pc", "got"} : next[f] = callback[f]
    BY <1>2, <1>p DEF CallbackFields
  <1>4. next.tasks \in TaskCounts \cup {0, 10}
    BY <1>1, <1>3 DEF CallbackInv
  <1>5. CallbackInv("generate", next)
    BY <1>1, <1>2, <1>3, <1>4, GenerationGoesOn
  <1>6. Generation(gathered, n) = Generation(next, n)
    BY <1>3 DEF Generation
  <1>7. \A k : [next EXCEPT !.pc = "generate", !.call = k] = [gathered EXCEPT !.pc = "generate", !.call = k]
    BY <1>p DEF CallbackType, CallbackFields
  <1>8. Requests("generate", next, "generate", Generation(next, n)) /\ UNCHANGED <<display, tasks>>
    BY <1>6, <1>7 DEF Request, Requests
  <1>9. Posted(Generation(next, n))
    BY <1>5, RequestsPosted DEF CallbackInv
  <1>. QED  BY <1>5, <1>8, <1>9, GenerateRequests

LEMMA GenerateHearsStep ==
    ASSUME BenchInv, GenerateHears
    PROVE  BenchInv'
  <1>p. PICK callback, gathered :
             /\ callback = busy["generate"]
             /\ gathered = [callback EXCEPT !.got = @ \o Answer("generate")]
    OBVIOUS
  <1>f. UNCHANGED <<workspace, index, editor, shown, planeVars, clicks>>
    BY DEF GenerateHears
  <1>0. callback.pc \in {"example", "pool", "generate", "list"} /\ busy["generate"].pc # "idle"
    BY <1>p DEF GenerateHears, At
  <1>1. CallbackInv("generate", callback) /\ CallbackType(callback)
    BY <1>p, <1>0, GeneratorInv DEF CallbackInv
  <1>2. callback.count \in Nat \ {0} /\ Stored(callback.got)
    BY <1>1 DEF CallbackInv, CallbackType
  <1>h. Hears("generate") =>
          /\ Stored(Answer("generate")) /\ Stored(gathered.got) /\ CallbackType(gathered)
          /\ \A f \in CallbackFields \ {"got"} : gathered[f] = callback[f]
          /\ gathered.pc \notin {"tasks", "pool"} => CallbackInv("generate", gathered)
    BY <1>0, <1>p, HeardInv
  <1>c. Hears("generate") => gathered.count = callback.count /\ gathered.pc = callback.pc
    BY <1>h DEF CallbackFields
  <1>n. PICK none : none = [callback EXCEPT !.got = <<>>]
    OBVIOUS
  <1>e. callback.pc # "pool" => CallbackInv("generate", none) /\ none.workspace = callback.workspace
    <2>1. callback.pc # "pool" => callback.pc \notin {"tasks", "pool"}
      BY <1>0
    <2>. QED  BY <1>1, <1>n, <2>1, StoredFacts, GatheredInv DEF CallbackFields
  <1>3. ASSUME callback.pc = "example", Hears("generate"), ExampleHeard PROVE BenchInv'
    <2>1. CallbackInv("generate", gathered) /\ Stored(gathered.got)
      BY <1>3, <1>c, <1>h
    <2>2. Generated(gathered.got) \/ (Requests("generate", gathered, "example", Compilation(gathered))
                                      /\ UNCHANGED <<display, tasks>>)
      BY <1>3, <1>p DEF ExampleHeard
    <2>3. Posted(Compilation(gathered))
      BY <2>1, RequestsPosted DEF CallbackInv
    <2>. QED  BY <1>0, <1>f, <2>1, <2>2, <2>3, GeneratedStep, GenerateRequests
  <1>4. ASSUME callback.pc = "example", Request(none, "list", Call("list", callback.workspace, 1))
        PROVE  BenchInv'
    <2>1. CallbackInv("generate", none) /\ Posted(Call("list", callback.workspace, 1))
      BY <1>1, <1>4, <1>e, RequestsPosted
    <2>. QED  BY <1>4, <1>f, <2>1, GenerateRequests DEF Request
  <1>5. ASSUME callback.pc = "example", Request(none, "generate", Generation(callback, callback.count))
        PROVE  BenchInv'
    <2>1. CallbackInv("generate", none) /\ Posted(Generation(callback, callback.count))
      BY <1>1, <1>2, <1>5, <1>e, RequestsPosted
    <2>. QED  BY <1>5, <1>f, <2>1, GenerateRequests DEF Request
  <1>6. ASSUME callback.pc = "pool", Hears("generate"),
               IF Remaining(gathered) > 0
               THEN Request(gathered, "generate", Generation(gathered, Remaining(gathered)))
               ELSE Generated(gathered.got)
        PROVE  BenchInv'
    <2>1. Remaining(gathered) \in Int
      BY <1>2, <1>6, <1>c, <1>h, StoredFacts DEF Remaining
    <2>2. CASE Remaining(gathered) > 0
      <3>1. PICK n : n = Remaining(gathered)
        OBVIOUS
      <3>2. n \in Nat \ {0} /\ Request(gathered, "generate", Generation(gathered, n))
        BY <1>6, <2>1, <2>2, <3>1
      <3>3. /\ Stored(gathered.got) /\ CallbackType(gathered)
            /\ \A f \in CallbackFields \ {"got"} : gathered[f] = busy["generate"][f]
        BY <1>6, <1>h, <1>p
      <3>. QED  BY <1>0, <1>f, <3>2, <3>3, PoolRequests
    <2>3. CASE ~(Remaining(gathered) > 0)
      BY <1>0, <1>6, <1>f, <1>h, <2>3, GeneratedStep
    <2>. QED  BY <2>2, <2>3
  <1>7. ASSUME callback.pc = "pool", Request(callback, "generate", Generation(callback, Remaining(callback)))
        PROVE  BenchInv'
    <2>1. callback.got = <<>>
      BY <1>1, <1>7 DEF CallbackInv
    <2>2. Remaining(callback) \in Nat \ {0}
      BY <1>2, <2>1 DEF Remaining
    <2>. QED  BY <1>0, <1>1, <1>2, <1>7, <1>f, <1>p, <2>2, PoolRequests
  <1>8. ASSUME callback.pc = "generate", Hears("generate"), Generated(gathered.got) PROVE BenchInv'
    BY <1>0, <1>8, <1>f, <1>h, GeneratedStep
  <1>9. ASSUME Fails PROVE BenchInv'
    BY <1>0, <1>9, <1>f, FailsStep
  <1>10. ASSUME callback.pc = "list", Request(callback, "generate", Generation(callback, callback.count))
         PROVE  BenchInv'
    <2>1. Posted(Generation(callback, callback.count))
      BY <1>1, <1>2, RequestsPosted
    <2>. QED  BY <1>1, <1>10, <1>f, <2>1, GenerateRequests DEF Request
  <1>11. ASSUME callback.pc = "list", Hears("generate"), Goes("generate", [callback EXCEPT !.pc = "judge", !.judged = TRUE]),
                UNCHANGED <<runtimeVars, display, tasks>>
         PROVE  BenchInv'
    <2>p. PICK next : next = [callback EXCEPT !.pc = "judge", !.judged = TRUE]
      OBVIOUS
    <2>1. /\ DOMAIN next = CallbackFields /\ next.pc = "judge"
          /\ \A f \in CallbackFields \ {"pc", "judged"} : next[f] = callback[f]
      BY <1>1, <2>p DEF CallbackType, CallbackFields
    <2>2. next.got = callback.got /\ next.tasks = callback.tasks
      BY <2>1 DEF CallbackFields
    <2>3. next.tasks \in TaskCounts \cup {0, 10} /\ next.call > 0
      <3>1. callback.call # 0 /\ callback.call \in 0 .. Len(calls) /\ next.call = callback.call
        BY <1>1, <1>11, <1>p, <2>1 DEF Hears, Result, CallbackInv, CallbackFields
      <3>2. Len(calls) \in Nat
        BY SequenceFacts DEF BenchInv, RuntimeInv
      <3>. QED  BY <1>1, <2>2, <3>1, <3>2 DEF CallbackInv
    <2>4. CallbackInv("generate", next)
      BY <1>1, <1>2, <2>1, <2>2, <2>3, GenerationGoesOn
    <2>5. RuntimeInv' /\ Grows
      BY <1>11, QuietStep DEF BenchInv
    <2>6. HandlersInv' /\ \A k \in Handlers \ {"generate"} : busy'[k] = busy[k]
      BY <1>11, <2>4, <2>5, <2>p, GoesStep DEF BenchInv, Callers, Handlers
    <2>7. Stored(display)' /\ tasks' \in TaskCounts \cup {0, 10}
      BY <1>11, <2>5, StoredStays DEF BenchInv, TabInv
    <2>. QED  BY <1>f, <2>5, <2>6, <2>7, GenerateFrame
  <1>12. \/ callback.pc = "example" /\ Hears("generate") /\ ExampleHeard
         \/ callback.pc = "example" /\ Request(none, "list", Call("list", callback.workspace, 1))
         \/ callback.pc = "example" /\ Request(none, "generate", Generation(callback, callback.count))
         \/ /\ callback.pc = "pool" /\ Hears("generate")
            /\ IF Remaining(gathered) > 0
               THEN Request(gathered, "generate", Generation(gathered, Remaining(gathered)))
               ELSE Generated(gathered.got)
         \/ callback.pc = "pool" /\ Request(callback, "generate", Generation(callback, Remaining(callback)))
         \/ callback.pc = "generate" /\ Hears("generate") /\ Generated(gathered.got)
         \/ Fails
         \/ callback.pc = "list" /\ Request(callback, "generate", Generation(callback, callback.count))
         \/ /\ callback.pc = "list" /\ Hears("generate")
            /\ Goes("generate", [callback EXCEPT !.pc = "judge", !.judged = TRUE])
            /\ UNCHANGED <<runtimeVars, display, tasks>>
    BY <1>n, <1>p, Zenon DEF GenerateHears, At
  <1>. QED  BY <1>3, <1>4, <1>5, <1>6, <1>7, <1>8, <1>9, <1>10, <1>11, <1>12

LEMMA JudgeStep ==
    ASSUME BenchInv, Judge
    PROVE  BenchInv'
  <1>p. PICK callback, pool : callback = busy["generate"] /\ pool = ToSet(Answer("generate"))
    OBVIOUS
  <1>f. UNCHANGED <<workspace, index, editor, shown, planeVars, clicks>>
    BY DEF Judge
  <1>0. callback.pc = "judge" /\ busy["generate"].pc # "idle"
    BY <1>p DEF Judge, At
  <1>1. CallbackInv("generate", callback) /\ callback.count \in Nat
    BY <1>p, <1>0, GeneratorInv DEF CallbackInv, CallbackType
  <1>2. PICK used \in SeqOf(pool, callback.count), created \in 0 .. callback.count :
             IF created > 0
             THEN Request([callback EXCEPT !.got = used], "generate", Generation(callback, created))
             ELSE Generated(used)
    BY <1>p DEF Judge
  <1>3. callback.call \in DOMAIN calls /\ CallSound(callback.call)
    <2>1. callback.call \in 0 .. Len(calls) /\ callback.call > 0
      BY <1>0, <1>1 DEF CallbackInv
    <2>2. Len(calls) \in Nat /\ DOMAIN calls = 1 .. Len(calls)
      BY SequenceFacts DEF BenchInv, RuntimeInv
    <2>3. callback.call \in DOMAIN calls
      BY <2>1, <2>2
    <2>. QED  BY <2>3 DEF BenchInv, RuntimeInv
  <1>4. Stored(Answer("generate"))
    BY <1>3, <1>p DEF Stored, Answer, CallSound, CallInv, CallType, OwnIds
  <1>5. Stored(used)
    <2>1. PICK m \in 0 .. callback.count : used \in [1 .. m -> pool]
      BY <1>2 DEF SeqOf
    <2>2. \A q \in pool : q \in ProfileType /\ q.id \in DOMAIN rows
      BY <1>4, <1>p, StoredFacts DEF ToSet
    <2>3. m \in Nat /\ used \in [1 .. m -> ProfileType]
      BY <1>1, <2>1, <2>2
    <2>4. used \in Seq(ProfileType)
      BY <2>3
    <2>5. \A i \in DOMAIN used : used[i].id \in DOMAIN rows
      BY <2>1, <2>2
    <2>. QED  BY <2>4, <2>5 DEF Stored, Ids, ToSet
  <1>6. CASE created > 0
    <2>1. /\ CallbackInv("generate", [callback EXCEPT !.got = used])
          /\ created \in Nat \ {0} /\ Posted(Generation(callback, created))
      <3>1. created \in Nat \ {0}
        BY <1>1, <1>6
      <3>2. callback.pc \notin {"tasks", "pool"}
        BY <1>0
      <3>. QED  BY <1>1, <1>5, <3>1, <3>2, GatheredInv, RequestsPosted DEF CallbackInv
    <2>. QED  BY <1>2, <1>6, <1>f, <2>1, GenerateRequests DEF Request
  <1>7. CASE ~(created > 0)
    BY <1>0, <1>2, <1>5, <1>7, <1>f, GeneratedStep
  <1>. QED  BY <1>6, <1>7

-----------------------------------------------------------------------------
(* The Persona Studio.                                                     *)

\* A step of the tab alone: what it displays and edits is stored.
LEMMA TabFrame ==
    ASSUME BenchInv, UNCHANGED <<runtimeVars, planeVars>>, Grows => HandlersInv',
           shown' \in {shown, Nowhere}, clicks' \subseteq clicks,
           \A h \in Starters : busy'[h] = busy[h] \/ busy'[h].pc \notin {"snapshot", "wait"},
           workspace' \in Workspaces, NEW profiles, Stored(profiles), display' = profiles,
           tasks' \in TaskCounts \cup {0, 10}, index' \in Nat, editor' \in ProfileType \cup {Missing},
           editor' # Missing => editor'.id \in DOMAIN rows
    PROVE  BenchInv'
  <1>1. RuntimeInv' /\ Grows
    BY QuietStep DEF BenchInv
  <1>2. Stored(display)'
    <2>1. Stored(profiles)'
      BY <1>1, StoredStays
    <2>. QED  BY <2>1 DEF Stored
  <1>3. rows' = rows
    BY DEF runtimeVars
  <1>4. TabInv'
    BY <1>1, <1>2, <1>3, TabChanges DEF BenchInv
  <1>5. PlaneInv'
    BY <1>1, PlaneStays DEF BenchInv
  <1>. QED  BY <1>1, <1>4, <1>5 DEF BenchInv

\* The callbacks go on, or some return; the editor's begins or not.
LEMMA CallbacksReturnInv ==
    ASSUME BenchInv, Grows, DOMAIN busy' = Handlers, busy'["follow"] \in {busy["follow"], Idle, [pc |-> "loaded"]},
           \A h \in Callers : busy'[h] \in {busy[h], Idle}
    PROVE  HandlersInv'
  <1>1. \A h \in Callers : busy'[h] = busy[h] \/ HandlerInv(h)'
    BY DEF HandlerInv
  <1>2. busy'["follow"] \in {Idle, [pc |-> "loaded"]}
    BY DEF BenchInv, HandlersInv
  <1>. QED  BY <1>1, <1>2, HandlersStay DEF BenchInv

LEMMA ChooseStep ==
    ASSUME BenchInv, NEW i \in Nat, NEW callbacks, callbacks \in {busy, [busy EXCEPT !["generate"] = Idle]},
           Index(i, callbacks), clicks' \subseteq clicks,
           UNCHANGED <<runtimeVars, workspace, display, tasks, editor, shown, planeVars>>
    PROVE  BenchInv'
  <1>0. DOMAIN busy = Handlers
    BY DEF BenchInv, HandlersInv
  <1>1. /\ DOMAIN busy' = Handlers /\ busy'["follow"] \in {busy["follow"], [pc |-> "loaded"]}
        /\ \A h \in Callers : busy'[h] \in {busy[h], Idle} /\ (h \in Starters => busy'[h] = busy[h])
    BY <1>0 DEF Index, Callers, Handlers, Starters
  <1>2. Grows => HandlersInv'
    BY <1>1, CallbacksReturnInv
  <1>3. \A h \in Starters : busy'[h] = busy[h]
    BY <1>1 DEF Callers, Handlers, Starters
  <1>4. index' \in Nat
    BY DEF Index
  <1>5. /\ workspace' \in Workspaces /\ Stored(display) /\ tasks' \in TaskCounts \cup {0, 10}
        /\ editor' \in ProfileType \cup {Missing} /\ (editor' # Missing => editor'.id \in DOMAIN rows)
    BY DEF BenchInv, TabInv
  <1>. QED  BY <1>2, <1>3, <1>4, <1>5, TabFrame

LEMMA StudioStep ==
    ASSUME BenchInv, Choose \/ RefreshPersonas \/ (\E i \in 1 .. Len(display) : ChoosePersona(i))
    PROVE  BenchInv'
  <1>1. ASSUME NEW i \in 1 .. Len(display), ChoosePersona(i) PROVE BenchInv'
    <2>1. i \in Nat
      BY StoredFacts DEF BenchInv, TabInv
    <2>. QED  BY <1>1, <2>1, ChooseStep DEF ChoosePersona, Click
  <1>2. CASE Choose \/ RefreshPersonas
    <2>1. PICK i : i = IF display = <<>> THEN 0 ELSE 1
      OBVIOUS
    <2>2. i \in Nat
      BY <2>1
    <2>. QED  BY <1>2, <2>1, <2>2, ChooseStep DEF Choose, RefreshPersonas, Click
  <1>. QED  BY <1>1, <1>2

LEMMA LoadPersonaStep ==
    ASSUME BenchInv, LoadPersona
    PROVE  BenchInv'
  <1>0. DOMAIN busy = Handlers /\ Stored(display) /\ TabInv
    BY DEF BenchInv, HandlersInv, TabInv
  <1>1. Goes("follow", Idle)
    BY DEF LoadPersona, Returns
  <1>2. /\ DOMAIN busy' = Handlers /\ busy'["follow"] = Idle
        /\ \A h \in Callers : busy'[h] = busy[h]
    BY <1>0, <1>1 DEF Goes, Callers, Handlers
  <1>3. Grows => HandlersInv'
    BY <1>2, CallbacksReturnInv
  <1>4. \A h \in Starters : busy'[h] = busy[h]
    BY <1>2 DEF Callers, Handlers, Starters
  <1>5. editor' = Missing \/ (editor' \in ProfileType /\ editor'.id \in DOMAIN rows)
    <2>1. CASE display = <<>>
      BY <2>1 DEF LoadPersona, Loaded
    <2>2. CASE display # <<>>
      <3>1. 1 \in DOMAIN display
        BY <1>0, <2>2 DEF Stored
      <3>2. \E i \in DOMAIN display : editor' = display[i]
        BY <2>2, <3>1 DEF LoadPersona, Loaded
      <3>. QED  BY <1>0, <3>2, StoredFacts
    <2>. QED  BY <2>1, <2>2
  <1>. QED  BY <1>0, <1>3, <1>4, <1>5, TabFrame DEF LoadPersona, TabInv

LEMMA EditStep ==
    ASSUME BenchInv, Tweak \/ (\E n \in TaskCounts \cup {0} : SaveTasks(n))
                     \/ (\E w \in Workspaces : SelectWorkspace(w))
    PROVE  BenchInv'
  <1>0. TabInv /\ Stored(display) /\ DOMAIN busy = Handlers
    BY DEF BenchInv, TabInv, HandlersInv
  <1>1. UNCHANGED <<runtimeVars, planeVars, display, index, shown, busy>> /\ clicks' \subseteq clicks
    BY DEF Tweak, SaveTasks, SelectWorkspace, Click
  <1>2. Grows => HandlersInv'
    BY <1>0, <1>1, CallbacksReturnInv
  <1>3. workspace' \in Workspaces /\ tasks' \in TaskCounts \cup {0, 10}
    BY <1>0 DEF Tweak, SaveTasks, SelectWorkspace, TabInv
  <1>4. editor' \in ProfileType \cup {Missing} /\ (editor' # Missing => editor'.id \in DOMAIN rows)
    <2>1. CASE editor' = editor
      BY <1>0, <2>1 DEF TabInv
    <2>2. CASE Tweak
      <3>1. editor \in ProfileType /\ editor.id \in DOMAIN rows /\ editor' = [editor EXCEPT !.rev = @ + 1]
        BY <1>0, <2>2 DEF Tweak, TabInv
      <3>2. editor' \in ProfileType /\ editor'.id = editor.id
        BY <3>1 DEF ProfileType
      <3>. QED  BY <3>1, <3>2
    <2>. QED  BY <2>1, <2>2 DEF SaveTasks, SelectWorkspace
  <1>. QED  BY <1>0, <1>1, <1>2, <1>3, <1>4, TabFrame DEF TabInv

\* A button of the Studio posts a request.
LEMMA StudioRequests ==
    ASSUME BenchInv, NEW h \in {"load", "save"}, NEW callback, CallbackInv(h, callback),
           NEW pc, pc # "idle", NEW call, Posted(call), h = "save" => call.op = "patch",
           Requests(h, callback, pc, call), clicks' \subseteq clicks, UNCHANGED <<tabVars, planeVars>>
    PROVE  BenchInv'
  <1>0. h \in Callers /\ h # "generate" /\ h \notin Starters /\ RuntimeInv /\ HandlersInv
    BY DEF Callers, Handlers, Starters, BenchInv
  <1>1. /\ RuntimeInv' /\ Grows /\ HandlersInv'
        /\ \A k \in Handlers \ {h} : busy'[k] = busy[k]
    BY <1>0, RequestStep
  <1>2. TabInv'
    BY <1>1, TabStays DEF BenchInv
  <1>3. PlaneInv'
    <2>1. \A k \in Starters : busy'[k] = busy[k]
      BY <1>0, <1>1 DEF Starters, Handlers
    <2>2. shown' = shown
      BY DEF tabVars
    <2>. QED  BY <1>1, <2>1, <2>2, PlaneStays DEF BenchInv
  <1>. QED  BY <1>1, <1>2, <1>3 DEF BenchInv

LEMMA ClickLoadStep ==
    ASSUME BenchInv, ClickLoad
    PROVE  BenchInv'
  <1>0. workspace \in Workspaces /\ Stored(display) /\ Stored(<<>>) /\ Len(calls) \in Nat
    BY StoredFacts, SequenceFacts DEF BenchInv, TabInv, RuntimeInv
  <1>p. PICK begun, next : begun = Begun("", workspace) /\ next = [begun EXCEPT !.personas = display]
    OBVIOUS
  <1>1. /\ CallbackType(begun) /\ begun.call = 0 /\ begun.got = <<>> /\ begun.profile = Missing
        /\ begun.workspace = workspace
    BY <1>0, <1>p, BegunInv
  <1>2. /\ DOMAIN next = CallbackFields /\ next.personas = display
        /\ \A f \in CallbackFields \ {"personas"} : next[f] = begun[f]
    BY <1>1, <1>p DEF CallbackType, CallbackFields
  <1>3. CallbackInv("load", next)
    <2>1. CallbackType(next)
      BY <1>1, <1>2 DEF CallbackType, CallbackFields
    <2>. QED  BY <1>0, <1>1, <1>2, <2>1 DEF CallbackInv, CallbackFields
  <1>4. Posted(Compilation(begun))
    BY <1>1, RequestsPosted
  <1>5. /\ Requests("load", next, "compile", Compilation(begun)) /\ clicks' \subseteq clicks
        /\ UNCHANGED <<tabVars, planeVars>>
    BY <1>p DEF ClickLoad, Click
  <1>. QED  BY <1>3, <1>4, <1>5, StudioRequests

LEMMA ClickSaveStep ==
    ASSUME BenchInv, ClickSave
    PROVE  BenchInv'
  <1>0. /\ workspace \in Workspaces /\ Stored(display) /\ Stored(<<>>) /\ Len(calls) \in Nat /\ index \in Nat
        /\ editor \in ProfileType /\ editor.id \in DOMAIN rows
    BY StoredFacts, SequenceFacts DEF BenchInv, TabInv, RuntimeInv, ClickSave
  <1>p. PICK begun, next :
             /\ begun = Begun("", workspace)
             /\ next = [begun EXCEPT !.personas = display, !.profile = editor, !.index = index]
    OBVIOUS
  <1>1. /\ CallbackType(begun) /\ begun.call = 0 /\ begun.got = <<>>
    BY <1>0, <1>p, BegunInv
  <1>2. /\ DOMAIN next = CallbackFields
        /\ next.personas = display /\ next.profile = editor /\ next.index = index
        /\ \A f \in CallbackFields \ {"personas", "profile", "index"} : next[f] = begun[f]
    BY <1>1, <1>p DEF CallbackType, CallbackFields
  <1>3. CallbackInv("save", next)
    <2>1. CallbackType(next)
      BY <1>0, <1>1, <1>2 DEF CallbackType, CallbackFields
    <2>. QED  BY <1>0, <1>1, <1>2, <2>1 DEF CallbackInv, CallbackFields
  <1>p2. PICK call : call = [Call("patch", workspace, 1) EXCEPT !.profile = editor]
    OBVIOUS
  <1>4. Posted(call) /\ call.op = "patch"
    BY <1>0, <1>p2, CallIsPosted DEF Ops
  <1>5. /\ Requests("save", next, "patch", call) /\ clicks' \subseteq clicks
        /\ UNCHANGED <<tabVars, planeVars>>
    BY <1>p, <1>p2 DEF ClickSave, Click
  <1>. QED  BY <1>3, <1>4, <1>5, StudioRequests

LEMMA LoadHearsStep ==
    ASSUME BenchInv, LoadHears
    PROVE  BenchInv'
  <1>p. PICK callback : callback = busy["load"]
    OBVIOUS
  <1>0. /\ DOMAIN busy = Handlers /\ TabInv /\ busy["load"].pc = "compile"
        /\ UNCHANGED <<runtimeVars, planeVars, workspace, tasks, editor, shown, clicks>>
    BY DEF BenchInv, HandlersInv, LoadHears, At
  <1>1. CallbackInv("load", callback) /\ busy["load"] # Idle
    BY <1>0, <1>p DEF BenchInv, HandlersInv, HandlerInv, Callers, Handlers, Idle
  <1>2. /\ DOMAIN busy' = Handlers /\ busy'["follow"] = [pc |-> "loaded"] /\ busy'["load"] = Idle
        /\ \A h \in Handlers \ {"load", "follow"} : busy'[h] = busy[h]
    BY <1>0 DEF LoadHears, Handlers
  <1>3. Grows => HandlersInv'
    BY <1>2, CallbacksReturnInv DEF Callers
  <1>4. \A h \in Starters : busy'[h] = busy[h]
    BY <1>2 DEF Handlers, Starters
  <1>5. PICK profiles : Stored(profiles) /\ display' = profiles /\ index' \in Nat
    <2>1. ASSUME Hears("load"), NEW updated, updated = callback.personas \o Answer("load")
          PROVE  Stored(updated) /\ Len(updated) \in Nat
      <3>1. Stored(Answer("load"))
        BY <1>1, <2>1, AnswerStored DEF BenchInv, Callers, Handlers
      <3>2. Stored(updated)
        BY <1>1, <2>1, <3>1, StoredFacts DEF CallbackInv
      <3>. QED  BY <3>2, StoredFacts
    <2>2. Stored(callback.personas) /\ index \in Nat
      BY <1>0, <1>1 DEF CallbackInv, TabInv
    <2>. QED  BY <1>p, <2>1, <2>2 DEF LoadHears, WithLoaded
  <1>. QED  BY <1>0, <1>3, <1>4, <1>5, TabFrame DEF TabInv

LEMMA SaveHearsStep ==
    ASSUME BenchInv, SaveHears
    PROVE  BenchInv'
  <1>p. PICK callback : callback = busy["save"]
    OBVIOUS
  <1>0. /\ DOMAIN busy = Handlers /\ TabInv /\ Stored(display) /\ busy["save"].pc = "patch"
        /\ Goes("save", Idle)
        /\ UNCHANGED <<runtimeVars, planeVars, workspace, tasks, index, shown, clicks>>
    BY DEF BenchInv, HandlersInv, TabInv, SaveHears, At, Returns
  <1>1. CallbackInv("save", callback) /\ busy["save"] # Idle
    BY <1>0, <1>p DEF BenchInv, HandlersInv, HandlerInv, Callers, Handlers, Idle
  <1>2. /\ DOMAIN busy' = Handlers /\ busy'["save"] = Idle
        /\ \A h \in Handlers \ {"save"} : busy'[h] = busy[h]
    BY <1>0 DEF Goes, Handlers
  <1>3. Grows => HandlersInv'
    BY <1>2, CallbacksReturnInv DEF Callers, Handlers
  <1>4. \A h \in Starters : busy'[h] = busy[h]
    BY <1>2 DEF Handlers, Starters
  <1>5. PICK profiles : /\ Stored(profiles) /\ display' = profiles
                        /\ editor' \in ProfileType \cup {Missing}
                        /\ editor' # Missing => editor'.id \in DOMAIN rows
    <2>1. CASE UNCHANGED <<display, editor>>
      BY <1>0, <2>1 DEF TabInv
    <2>2. CASE display' = callback.personas /\ editor' = callback.profile
      BY <1>1, <2>2 DEF CallbackInv, CallbackType
    <2>3. ASSUME Hears("save"), NEW i \in DOMAIN callback.personas,
                 display' = [callback.personas EXCEPT ![i] = Head(Answer("save"))],
                 editor' = Head(Answer("save"))
          PROVE  /\ Stored(display') /\ editor' \in ProfileType /\ editor'.id \in DOMAIN rows
      <3>p. PICK answer, saved : answer = Answer("save") /\ saved = Head(answer)
        OBVIOUS
      <3>1. Stored(answer) /\ answer # <<>>
        BY <1>1, <2>3, <3>p, AnswerStored DEF BenchInv, Callers, Handlers
      <3>2. 1 \in DOMAIN answer /\ saved = answer[1]
        BY <3>1, <3>p DEF Stored
      <3>3. saved \in ProfileType /\ saved.id \in DOMAIN rows
        BY <3>1, <3>2, StoredFacts
      <3>4. Stored(callback.personas)
        BY <1>1 DEF CallbackInv
      <3>. QED  BY <2>3, <3>3, <3>4, <3>p, StoredFacts
    <2>4. \/ UNCHANGED <<display, editor>>
          \/ display' = callback.personas /\ editor' = callback.profile
          \/ /\ Hears("save")
             /\ \E i \in DOMAIN callback.personas :
                  display' = [callback.personas EXCEPT ![i] = Head(Answer("save"))]
                  /\ editor' = Head(Answer("save"))
      BY <1>p DEF SaveHears
    <2>. QED  BY <2>1, <2>2, <2>3, <2>4
  <1>. QED  BY <1>0, <1>3, <1>4, <1>5, TabFrame DEF TabInv

-----------------------------------------------------------------------------
(* Starting an analysis.                                                   *)

\* A callback of an analysis, which the tab's own requests do not concern.
LEMMA StarterGoesOn ==
    ASSUME NEW h \in Starters, NEW callback, CallbackInv(h, callback), NEW next,
           DOMAIN next = CallbackFields, next.pc # "idle", Stored(next.got), Stored(next.personas),
           next.personas = callback.personas \/ h = "api",
           \A f \in CallbackFields \ {"pc", "got", "personas", "session", "job"} : next[f] = callback[f]
    PROVE  CallbackInv(h, next)
  <1>1. CallbackType(next)
    BY DEF CallbackInv, CallbackType, CallbackFields
  <1>. QED  BY <1>1 DEF CallbackInv, CallbackFields, Starters

LEMMA StarterCallback ==
    ASSUME BenchInv, NEW h \in Starters, busy[h].pc # "idle"
    PROVE  CallbackInv(h, busy[h]) /\ CallbackType(busy[h]) /\ busy[h] # Idle /\ h \in Callers
           /\ Stored(busy[h].got) /\ Stored(busy[h].personas)
  <1>1. h \in Callers /\ busy[h] # Idle
    BY DEF Starters, Callers, Handlers, Idle
  <1>2. CallbackInv(h, busy[h])
    BY <1>1 DEF BenchInv, HandlersInv, HandlerInv
  <1>. QED  BY <1>1, <1>2 DEF CallbackInv

\* A step that keeps the runtime, the tab and the callbacks as they should be,
\* and touches the control plane no more than to show an id.
LEMMA StarterFrame ==
    ASSUME BenchInv, RuntimeInv', Grows, HandlersInv', UNCHANGED <<workspace, display, tasks, index, editor>>,
           clicks' \subseteq clicks, UNCHANGED planeVars,
           shown' \in {shown, Nowhere} \/ (shown'.session \in DOMAIN snapshots /\ shown'.job \in DOMAIN jobs),
           \A h \in Starters : busy'[h] = busy[h] \/ busy'[h].pc \notin {"snapshot", "wait"}
    PROVE  BenchInv'
  <1>1. Stored(display)'
    BY StoredStays DEF BenchInv, TabInv
  <1>2. TabInv'
    BY <1>1, TabChanges DEF BenchInv, TabInv
  <1>3. PlaneInv'
    BY PlaneStays DEF BenchInv
  <1>. QED  BY <1>2, <1>3 DEF BenchInv

LEMMA ClickStartStep ==
    ASSUME BenchInv, ClickStart
    PROVE  BenchInv'
  <1>0. RuntimeInv' /\ Grows /\ TabInv /\ Stored(<<>>) /\ Len(calls) \in Nat /\ DOMAIN busy = Handlers
    BY QuietStep, StoredFacts, SequenceFacts DEF BenchInv, ClickStart, RuntimeInv, HandlersInv
  <1>f. /\ UNCHANGED <<workspace, display, tasks, index, editor>> /\ clicks' \subseteq clicks
        /\ UNCHANGED planeVars
    BY DEF ClickStart, Click
  <1>1. CASE display = <<>> \/ tasks = 0
    <2>1. busy' = busy /\ shown' = Nowhere
      BY <1>1 DEF ClickStart
    <2>2. HandlersInv'
      BY <1>0, <2>1, CallbacksReturnInv
    <2>. QED  BY <1>0, <1>f, <2>1, <2>2, StarterFrame
  <1>2. CASE ~(display = <<>> \/ tasks = 0)
    <2>p. PICK begun, next :
               /\ begun = Begun("session", workspace)
               /\ next = [begun EXCEPT !.personas = display, !.tasks = tasks]
      OBVIOUS
    <2>1. /\ CallbackType(begun) /\ begun.call = 0 /\ begun.got = <<>> /\ begun.profile = Missing
          /\ begun.pc = "session"
      BY <1>0, <2>p, BegunInv DEF TabInv
    <2>2. /\ DOMAIN next = CallbackFields /\ next.personas = display /\ next.tasks = tasks
          /\ \A f \in CallbackFields \ {"personas", "tasks"} : next[f] = begun[f]
      BY <2>1, <2>p DEF CallbackType, CallbackFields
    <2>3. next.tasks \in Nat /\ next.tasks # 0 /\ next.personas # <<>> /\ Stored(next.personas)
          /\ next.got = <<>> /\ next.call = 0 /\ next.profile = Missing /\ next.pc = "session"
      <3>1. tasks \in Nat
        BY <1>0, CountsAssumption DEF TabInv
      <3>. QED  BY <1>0, <1>2, <2>1, <2>2, <3>1 DEF CallbackFields, TabInv
    <2>4. CallbackType(next)
      BY <2>1, <2>2, <2>3 DEF CallbackType, CallbackFields
    <2>5. CallbackInv("start", next)
      BY <1>0, <2>3, <2>4 DEF CallbackInv
    <2>6. Goes("start", next) /\ shown' = shown
      BY <1>2, <2>p DEF ClickStart
    <2>7. HandlersInv' /\ busy'["start"] = next /\ \A k \in Handlers \ {"start"} : busy'[k] = busy[k]
      BY <1>0, <2>5, <2>6, GoesStep DEF BenchInv, Callers, Handlers
    <2>8. \A h \in Starters : busy'[h] = busy[h] \/ busy'[h].pc \notin {"snapshot", "wait"}
      BY <2>3, <2>7 DEF Starters, Handlers
    <2>. QED  BY <1>0, <1>f, <2>6, <2>7, <2>8, StarterFrame
  <1>. QED  BY <1>1, <1>2

LEMMA ClickApiStep ==
    ASSUME BenchInv, NEW method \in Methods, NEW n \in ApiCounts, NEW allow \in BOOLEAN,
           ClickApi(method, n, allow)
    PROVE  BenchInv'
  <1>0. /\ n \in Nat /\ n > 0 /\ ApiWorkspace \in Workspaces /\ Stored(<<>>) /\ Len(calls) \in Nat
        /\ clicks' \subseteq clicks /\ UNCHANGED <<tabVars, planeVars>>
    BY CountsAssumption, StoredFacts, SequenceFacts DEF ClickApi, Click, BenchInv, RuntimeInv
  <1>p. PICK begun, next :
             /\ begun = Begun("", ApiWorkspace)
             /\ next = [begun EXCEPT !.method = method, !.count = n, !.allow = allow, !.tasks = 5]
    OBVIOUS
  <1>1. /\ CallbackType(begun) /\ begun.call = 0 /\ begun.got = <<>> /\ begun.profile = Missing
        /\ begun.personas = <<>>
    BY <1>0, <1>p, BegunInv, ZenonT(30)
  <1>2. /\ DOMAIN next = CallbackFields /\ next.method = method /\ next.count = n
        /\ next.allow = allow /\ next.tasks = 5
        /\ \A f \in CallbackFields \ {"method", "count", "allow", "tasks"} : next[f] = begun[f]
    BY <1>1, <1>p DEF CallbackType, CallbackFields
  <1>3. CallbackType(next)
    BY <1>0, <1>1, <1>2 DEF CallbackType, CallbackFields
  <1>4. CallbackInv("api", next) /\ next.got = <<>>
    BY <1>0, <1>1, <1>2, <1>3 DEF CallbackInv, CallbackFields
  <1>5. FirstRequest("api", next)
    BY <1>p DEF ClickApi
  <1>6. /\ RuntimeInv' /\ Grows /\ HandlersInv'
        /\ busy'["api"].pc \notin {"snapshot", "wait"} /\ \A k \in Handlers \ {"api"} : busy'[k] = busy[k]
    BY <1>0, <1>2, <1>4, <1>5, FirstRequestStep DEF BenchInv
  <1>7. UNCHANGED <<workspace, display, tasks, index, editor, shown>>
    BY <1>0 DEF tabVars
  <1>8. \A h \in Starters : busy'[h] = busy[h] \/ busy'[h].pc \notin {"snapshot", "wait"}
    BY <1>6 DEF Starters, Handlers
  <1>. QED  BY <1>0, <1>6, <1>7, <1>8, StarterFrame

LEMMA ClickApiForNoneStep ==
    ASSUME BenchInv, ClickApiForNone
    PROVE  BenchInv'
  <1>0. /\ RuntimeInv' /\ Grows /\ Stored(<<>>) /\ Len(calls) \in Nat /\ ApiWorkspace \in Workspaces
        /\ clicks' \subseteq clicks /\ UNCHANGED planeVars
        /\ UNCHANGED <<workspace, display, tasks, index, editor, shown>>
    BY CountsAssumption, QuietStep, StoredFacts, SequenceFacts
    DEF ClickApiForNone, Click, BenchInv, RuntimeInv, tabVars
  <1>p. PICK begun, next :
             /\ begun = Begun("session", ApiWorkspace)
             /\ next = [begun EXCEPT !.method = "Example Persona", !.tasks = 5]
    OBVIOUS
  <1>1. /\ CallbackType(begun) /\ begun.call = 0 /\ begun.got = <<>> /\ begun.profile = Missing
        /\ begun.personas = <<>> /\ begun.pc = "session"
    BY <1>0, <1>p, BegunInv
  <1>2. /\ DOMAIN next = CallbackFields /\ next.tasks = 5
        /\ \A f \in CallbackFields \ {"method", "tasks"} : next[f] = begun[f]
    BY <1>1, <1>p DEF CallbackType, CallbackFields
  <1>3. CallbackType(next)
    BY <1>1, <1>2 DEF CallbackType, CallbackFields
  <1>4. CallbackInv("api", next) /\ next.pc = "session"
    BY <1>0, <1>1, <1>2, <1>3 DEF CallbackInv, CallbackFields
  <1>5. HandlersInv' /\ busy'["api"] = next /\ \A k \in Handlers \ {"api"} : busy'[k] = busy[k]
    BY <1>0, <1>4, <1>p, GoesStep DEF ClickApiForNone, BenchInv, Callers, Handlers
  <1>6. \A h \in Starters : busy'[h] = busy[h] \/ busy'[h].pc \notin {"snapshot", "wait"}
    BY <1>4, <1>5 DEF Starters, Handlers
  <1>. QED  BY <1>0, <1>5, <1>6, StarterFrame

LEMMA ApiHearsStep ==
    ASSUME BenchInv, ApiHears
    PROVE  BenchInv'
  <1>p. PICK callback, got : callback = busy["api"] /\ got = callback.got \o Answer("api")
    OBVIOUS
  <1>0. /\ callback.pc \in {"example", "generate"} /\ "api" \in Starters
        /\ clicks' \subseteq clicks /\ UNCHANGED planeVars
        /\ UNCHANGED <<workspace, display, tasks, index, editor, shown>>
    BY <1>p DEF ApiHears, tabVars, Starters
  <1>1. /\ CallbackInv("api", callback) /\ CallbackType(callback) /\ busy["api"] # Idle /\ "api" \in Callers
        /\ Stored(callback.got) /\ Stored(callback.personas)
    BY <1>0, <1>p, StarterCallback
  <1>g. PICK gathered : gathered = [callback EXCEPT !.got = got]
    OBVIOUS
  <1>2. /\ DOMAIN gathered = CallbackFields /\ gathered.got = got
        /\ \A f \in CallbackFields \ {"got"} : gathered[f] = callback[f]
    BY <1>1, <1>g DEF CallbackType, CallbackFields
  <1>3. Hears("api") => Stored(got)
    BY <1>1, <1>p, AnswerStored, StoredFacts DEF BenchInv
  <1>4. ASSUME Hears("api"), Requests("api", gathered, "example", Compilation(callback))
        PROVE  BenchInv'
    <2>1. gathered.pc # "idle" /\ gathered.personas = callback.personas
      BY <1>0, <1>2 DEF CallbackFields
    <2>2. CallbackInv("api", gathered)
      BY <1>0, <1>1, <1>2, <1>3, <1>4, <2>1, StarterGoesOn
    <2>3. Posted(Compilation(callback))
      BY <1>1, RequestsPosted
    <2>4. /\ RuntimeInv' /\ Grows /\ HandlersInv'
          /\ busy'["api"].pc = "example" /\ \A k \in Handlers \ {"api"} : busy'[k] = busy[k]
      BY <1>1, <1>4, <2>2, <2>3, RequestStep DEF BenchInv
    <2>5. \A h \in Starters : busy'[h] = busy[h] \/ busy'[h].pc \notin {"snapshot", "wait"}
      BY <2>4 DEF Starters, Handlers
    <2>. QED  BY <1>0, <2>4, <2>5, StarterFrame
  <1>5. ASSUME NEW next, next = Idle \/ (CallbackInv("api", next) /\ next.pc \notin {"snapshot", "wait"}),
               Goes("api", next), UNCHANGED runtimeVars
        PROVE  BenchInv'
    <2>1. RuntimeInv' /\ Grows
      BY <1>5, QuietStep DEF BenchInv
    <2>2. HandlersInv' /\ busy'["api"] = next /\ \A k \in Handlers \ {"api"} : busy'[k] = busy[k]
      BY <1>1, <1>5, <2>1, GoesStep DEF BenchInv
    <2>3. \A h \in Starters : busy'[h] = busy[h] \/ busy'[h].pc \notin {"snapshot", "wait"}
      BY <1>5, <2>2 DEF Starters, Handlers, Idle
    <2>. QED  BY <1>0, <2>1, <2>2, <2>3, StarterFrame
  <1>6. ASSUME Hears("api"), NEW next, next = [gathered EXCEPT !.pc = "session", !.personas = gathered.got]
        PROVE  CallbackInv("api", next) /\ next.pc = "session"
    <2>1. /\ DOMAIN next = CallbackFields /\ next.pc = "session" /\ next.personas = got
          /\ \A f \in CallbackFields \ {"pc", "personas"} : next[f] = gathered[f]
      BY <1>2, <1>6 DEF CallbackFields
    <2>2. next.got = got /\ \A f \in CallbackFields \ {"pc", "got", "personas", "session", "job"} :
                              next[f] = callback[f]
      BY <1>2, <2>1 DEF CallbackFields
    <2>3. Stored(next.got) /\ Stored(next.personas) /\ next.pc # "idle"
      BY <1>3, <1>6, <2>1, <2>2
    <2>4. CallbackInv("api", next)
      BY <1>0, <1>1, <2>1, <2>2, <2>3, StarterGoesOn
    <2>. QED  BY <2>1, <2>4
  <1>7. \/ Hears("api") /\ Requests("api", gathered, "example", Compilation(callback))
        \/ /\ Hears("api") /\ Goes("api", [gathered EXCEPT !.pc = "session", !.personas = gathered.got])
           /\ UNCHANGED runtimeVars
        \/ Goes("api", Idle) /\ UNCHANGED runtimeVars
    <2>1. gathered = [busy["api"] EXCEPT !.got = @ \o Answer("api")]
      BY <1>g, <1>p
    <2>. QED  BY <1>p, <2>1 DEF ApiHears, Returns
  <1>8. CASE Hears("api") /\ Goes("api", [gathered EXCEPT !.pc = "session", !.personas = gathered.got])
             /\ UNCHANGED runtimeVars
    <2>1. PICK next : next = [gathered EXCEPT !.pc = "session", !.personas = gathered.got]
      OBVIOUS
    <2>2. CallbackInv("api", next) /\ next.pc = "session"
      BY <1>6, <1>8, <2>1
    <2>. QED  BY <1>5, <1>8, <2>1, <2>2
  <1>. QED  BY <1>4, <1>5, <1>7, <1>8

\* A callback that goes on without a request, and what stays as it is.
LEMMA StarterMoves ==
    ASSUME BenchInv, NEW h \in Starters, busy[h].pc # "idle", NEW next, Goes(h, next),
           next = Idle \/ CallbackInv(h, next), RuntimeInv', Grows,
           UNCHANGED <<workspace, display, tasks, index, editor, clicks>>
    PROVE  /\ HandlersInv' /\ TabInv'
           /\ busy'[h] = next /\ \A k \in Starters \ {h} : busy'[k] = busy[k]
  <1>1. HandlersInv' /\ busy'[h] = next /\ \A k \in Handlers \ {h} : busy'[k] = busy[k]
    BY GoesStep, StarterCallback DEF BenchInv
  <1>2. Stored(display)'
    BY StoredStays DEF BenchInv, TabInv
  <1>3. TabInv'
    BY <1>2, TabChanges DEF BenchInv, TabInv
  <1>. QED  BY <1>1, <1>3 DEF Starters, Handlers

\* A session of its own callback grows.
LEMMA SessionGrows ==
    ASSUME Grows, PlaneInv, NEW s \in DOMAIN snapshots', UNCHANGED <<jobs, shown>>,
           snapshots' \in Seq(Seq(ProfileType)), DOMAIN snapshots' = DOMAIN snapshots \cup {s},
           \A r \in DOMAIN snapshots \ {s} : snapshots'[r] = snapshots[r],
           NEW personas, Stored(personas), snapshots'[s] = personas,
           \A j \in DOMAIN jobs : jobs[j].session # s,
           NEW h \in Starters, StarterInv(h)', busy'[h].session = s,
           \A k \in Starters \ {h} : busy'[k] = busy[k] /\ (Snapshotting(k) => busy[k].session # s)
    PROVE  PlaneInv'
  <1>1. Stored(personas)'
    BY StoredStays
  <1>2. ASSUME NEW r \in DOMAIN snapshots' PROVE Stored(snapshots[r])'
    <2>1. CASE r = s
      BY <1>1, <2>1 DEF Stored
    <2>2. CASE r # s
      <3>1. Stored(snapshots[r]) /\ snapshots'[r] = snapshots[r]
        BY <2>2 DEF PlaneInv
      <3>2. PICK q : q = snapshots[r]
        OBVIOUS
      <3>3. Stored(q)'
        BY <3>1, <3>2, StoredStays
      <3>. QED  BY <3>1, <3>2, <3>3 DEF Stored
    <2>. QED  BY <2>1, <2>2
  <1>3. \A j \in DOMAIN jobs : jobs[j].session \in DOMAIN snapshots' /\ Stored(jobs[j].personas)'
    BY StoredStays DEF PlaneInv
  <1>4. JobIsWhole'
    BY DEF PlaneInv, JobIsWhole
  <1>5. shown # Nowhere => shown.session \in DOMAIN snapshots' /\ shown.job \in DOMAIN jobs
    BY DEF PlaneInv
  <1>6. ASSUME NEW k \in Starters PROVE StarterInv(k)'
    <2>1. CASE k = h
      BY <2>1
    <2>2. CASE k # h
      <3>1. StarterInv(k) /\ busy'[k] = busy[k] /\ (Snapshotting(k) => busy[k].session # s)
        BY <2>2 DEF PlaneInv
      <3>. QED  BY <3>1 DEF StarterInv, Snapshotting
    <2>. QED  BY <2>1, <2>2
  <1>7. Snapshotting("start")' /\ Snapshotting("api")' => busy'["start"].session # busy'["api"].session
    BY DEF Starters, Snapshotting
  <1>8. jobs' \in Seq(JobType)
    BY DEF PlaneInv
  <1>. QED  BY <1>2, <1>3, <1>4, <1>5, <1>6, <1>7, <1>8 DEF PlaneInv

LEMMA CreateSessionStep ==
    ASSUME BenchInv, NEW h \in Starters, CreateSession(h)
    PROVE  BenchInv'
  <1>p. PICK callback, n, next :
             /\ callback = busy[h] /\ n = Len(snapshots) + 1
             /\ next = [callback EXCEPT !.pc = "snapshot", !.session = n]
    OBVIOUS
  <1>0. /\ RuntimeInv' /\ Grows /\ busy[h].pc = "session" /\ Goes(h, next)
        /\ snapshots' = Append(snapshots, <<>>)
        /\ UNCHANGED <<workspace, display, tasks, index, editor, shown, jobs, clicks>>
    BY <1>p, QuietStep DEF BenchInv, CreateSession, At, tabVars
  <1>1. /\ CallbackInv(h, callback) /\ CallbackType(callback)
        /\ Stored(callback.got) /\ Stored(callback.personas)
    BY <1>0, <1>p, StarterCallback
  <1>2. /\ DOMAIN next = CallbackFields /\ next.pc = "snapshot" /\ next.session = n
        /\ \A f \in CallbackFields \ {"pc", "session"} : next[f] = callback[f]
    BY <1>1, <1>p DEF CallbackType, CallbackFields
  <1>3. next.personas = callback.personas /\ next.got = callback.got
    BY <1>2 DEF CallbackFields
  <1>4. CallbackInv(h, next)
    BY <1>1, <1>2, <1>3, StarterGoesOn
  <1>5. /\ HandlersInv' /\ TabInv'
        /\ busy'[h] = next /\ \A k \in Starters \ {h} : busy'[k] = busy[k]
    BY <1>0, <1>4, StarterMoves
  <1>6. /\ snapshots \in Seq(Seq(ProfileType)) /\ DOMAIN snapshots = 1 .. Len(snapshots)
        /\ Len(snapshots) \in Nat /\ <<>> \in Seq(ProfileType)
    BY DEF BenchInv, PlaneInv
  <1>7. /\ snapshots' \in Seq(Seq(ProfileType)) /\ DOMAIN snapshots' = DOMAIN snapshots \cup {n}
        /\ snapshots'[n] = <<>> /\ \A r \in DOMAIN snapshots \ {n} : snapshots'[r] = snapshots[r]
        /\ n \notin DOMAIN snapshots
    BY <1>0, <1>6, <1>p
  <1>8. \A j \in DOMAIN jobs : jobs[j].session # n
    BY <1>7 DEF BenchInv, PlaneInv
  <1>9. \A k \in Starters : Snapshotting(k) => busy[k].session # n
    BY <1>7 DEF BenchInv, PlaneInv, StarterInv
  <1>10. StarterInv(h)'
    <2>1. Len(<<>>) = 0 /\ Len(callback.personas) \in Nat
      BY <1>1, StoredFacts
    <2>. QED  BY <1>0, <1>2, <1>3, <1>5, <1>7, <1>8, <2>1 DEF StarterInv, Snapshotting
  <1>11. PlaneInv'
    BY <1>0, <1>2, <1>5, <1>7, <1>8, <1>9, <1>10, StoredFacts, SessionGrows DEF BenchInv
  <1>. QED  BY <1>0, <1>5, <1>11 DEF BenchInv

LEMMA SnapshotStep ==
    ASSUME BenchInv, NEW h \in Starters, Snapshot(h)
    PROVE  BenchInv'
  <1>p. PICK callback, s, taken, p :
             /\ callback = busy[h] /\ s = callback.session /\ taken = snapshots[s]
             /\ p = callback.personas[Len(taken) + 1]
    OBVIOUS
  <1>0. /\ RuntimeInv' /\ Grows /\ busy[h].pc = "snapshot" /\ Snapshotting(h)
        /\ Len(taken) < Len(callback.personas)
        /\ snapshots' = [snapshots EXCEPT ![s] = Append(taken, p)]
        /\ UNCHANGED <<tabVars, busy, shown, jobs, clicks>>
    BY <1>p, QuietStep DEF BenchInv, Snapshot, At, tabVars, Snapshotting
  <1>1. /\ CallbackInv(h, callback) /\ Stored(callback.personas)
        /\ StarterInv(h) /\ snapshots \in Seq(Seq(ProfileType)) /\ s \in DOMAIN snapshots /\ Stored(taken)
    BY <1>0, <1>p, StarterCallback DEF BenchInv, PlaneInv, StarterInv
  <1>2. Len(taken) \in Nat /\ Len(taken) + 1 \in DOMAIN callback.personas
    <2>1. /\ Len(taken) \in Nat /\ Len(callback.personas) \in Nat
          /\ DOMAIN callback.personas = 1 .. Len(callback.personas)
      BY <1>1, StoredFacts
    <2>. QED  BY <1>0, <2>1
  <1>3. p \in ProfileType /\ p.id \in DOMAIN rows
    BY <1>1, <1>2, <1>p, StoredFacts
  <1>t. PICK more : more = Append(taken, p)
    OBVIOUS
  <1>4. Stored(more)
    BY <1>1, <1>3, <1>t, StoredFacts
  <1>5. /\ Len(more) = Len(taken) + 1 /\ more[Len(taken) + 1] = p
        /\ \A n \in 1 .. Len(taken) : more[n] = taken[n]
    <2>1. taken \in Seq(ProfileType)
      BY <1>1 DEF Stored
    <2>. QED  BY <1>3, <1>t, <2>1
  <1>6. /\ snapshots' \in Seq(Seq(ProfileType)) /\ DOMAIN snapshots' = DOMAIN snapshots
        /\ snapshots'[s] = more /\ \A r \in DOMAIN snapshots \ {s} : snapshots'[r] = snapshots[r]
    <2>1. more \in Seq(ProfileType)
      BY <1>4 DEF Stored
    <2>. QED  BY <1>0, <1>1, <1>t, <2>1
  <1>7. \A j \in DOMAIN jobs : jobs[j].session # s
    BY <1>0, <1>1, <1>p DEF StarterInv
  <1>8. \A k \in Starters \ {h} : busy'[k] = busy[k] /\ (Snapshotting(k) => busy[k].session # s)
    <2>1. Snapshotting("start") /\ Snapshotting("api") => busy["start"].session # busy["api"].session
      BY DEF BenchInv, PlaneInv
    <2>. QED  BY <1>0, <1>p, <2>1 DEF Starters
  <1>9. StarterInv(h)'
    <2>1. \A n \in 1 .. Len(more) : more[n] = callback.personas[n]
      <3>1. \A n \in 1 .. Len(taken) : taken[n] = callback.personas[n]
        BY <1>0, <1>1, <1>p DEF StarterInv
      <3>2. \A n \in 1 .. Len(more) : n \in 1 .. Len(taken) \/ n = Len(taken) + 1
        BY <1>2, <1>5
      <3>. QED  BY <1>5, <1>p, <3>1, <3>2
    <2>2. Len(more) <= Len(callback.personas)
      <3>1. Len(callback.personas) \in Nat
        BY <1>1, StoredFacts
      <3>. QED  BY <1>0, <1>2, <1>5, <3>1
    <2>3. busy'[h] = callback /\ callback.pc = "snapshot" /\ callback.session = s /\ jobs' = jobs
      BY <1>0, <1>p
    <2>4. s \in DOMAIN snapshots' /\ snapshots'[s] = more
      BY <1>1, <1>6
    <2>. QED  BY <1>7, <2>1, <2>2, <2>3, <2>4 DEF StarterInv, Snapshotting
  <1>10. PlaneInv'
    <2>1. DOMAIN snapshots' = DOMAIN snapshots \cup {s} /\ s \in DOMAIN snapshots'
      BY <1>1, <1>6
    <2>2. busy'[h].session = s
      BY <1>0, <1>p
    <2>. QED  BY <1>0, <1>4, <1>6, <1>7, <1>8, <1>9, <2>1, <2>2, SessionGrows DEF BenchInv
  <1>11. HandlersInv'
    BY <1>0, CallbacksReturnInv DEF BenchInv, HandlersInv
  <1>12. TabInv'
    BY <1>0, TabStays DEF BenchInv
  <1>. QED  BY <1>0, <1>10, <1>11, <1>12 DEF BenchInv

LEMMA CreateJobStep ==
    ASSUME BenchInv, NEW h \in Starters, CreateJob(h)
    PROVE  BenchInv'
  <1>p. PICK callback, s, n, next, job :
             /\ callback = busy[h] /\ s = callback.session /\ n = Len(jobs) + 1
             /\ next = [callback EXCEPT !.pc = "wait", !.job = n]
             /\ job = [session |-> s, personas |-> callback.personas, tasks |-> callback.tasks,
                       status |-> "queued", source |-> IF h = "api" THEN "api" ELSE "gradio"]
    OBVIOUS
  <1>0. /\ RuntimeInv' /\ Grows /\ busy[h].pc = "snapshot" /\ Goes(h, next)
        /\ Len(snapshots[s]) = Len(callback.personas)
        /\ jobs' = Append(jobs, job)
        /\ shown' = shown \/ (shown'.session = s /\ shown'.job = n)
        /\ UNCHANGED <<workspace, display, tasks, index, editor, snapshots, clicks>>
    BY <1>p, QuietStep DEF BenchInv, CreateJob, At
  <1>1. /\ CallbackInv(h, callback) /\ CallbackType(callback)
        /\ Stored(callback.got) /\ Stored(callback.personas)
        /\ StarterInv(h) /\ s \in DOMAIN snapshots /\ Stored(snapshots[s])
    BY <1>0, <1>p, StarterCallback DEF BenchInv, PlaneInv, StarterInv, Snapshotting
  <1>2. /\ DOMAIN next = CallbackFields /\ next.pc = "wait" /\ next.job = n
        /\ \A f \in CallbackFields \ {"pc", "job"} : next[f] = callback[f]
    BY <1>1, <1>p DEF CallbackType, CallbackFields
  <1>3. next.personas = callback.personas /\ next.got = callback.got /\ next.session = s
    BY <1>2, <1>p DEF CallbackFields
  <1>4. CallbackInv(h, next)
    BY <1>1, <1>2, <1>3, StarterGoesOn
  <1>5. /\ HandlersInv' /\ TabInv'
        /\ busy'[h] = next /\ \A k \in Starters \ {h} : busy'[k] = busy[k]
    BY <1>0, <1>4, StarterMoves
  <1>6. \A j \in DOMAIN jobs : jobs[j].session # s
    BY <1>0, <1>1, <1>p DEF StarterInv, Snapshotting
  <1>7. snapshots[s] = callback.personas
    <2>1. \A i \in 1 .. Len(snapshots[s]) : snapshots[s][i] = callback.personas[i]
      BY <1>0, <1>1, <1>p DEF StarterInv, Snapshotting
    <2>2. snapshots[s] \in Seq(ProfileType) /\ callback.personas \in Seq(ProfileType)
      BY <1>1 DEF Stored
    <2>. QED  BY <1>0, <2>1, <2>2
  <1>8. /\ job \in JobType /\ job.session = s /\ job.personas = callback.personas /\ job.tasks # 0
        /\ job.source = "gradio" => job.personas # <<>>
    <2>1. callback.tasks \in Nat \ {0}
      BY <1>1 DEF CallbackInv, CallbackType, Starters
    <2>2. s \in Nat
      BY <1>1 DEF BenchInv, PlaneInv
    <2>3. callback.personas \in Seq(ProfileType)
      BY <1>1 DEF Stored
    <2>4. h # "api" => callback.personas # <<>>
      BY <1>1 DEF CallbackInv, Starters
    <2>5. job.source = "gradio" => h # "api"
      BY <1>p
    <2>6. job.source \in {"gradio", "api"}
      BY <1>p
    <2>. QED  BY <1>p, <2>1, <2>2, <2>3, <2>4, <2>5, <2>6 DEF JobType
  <1>9. /\ jobs' \in Seq(JobType) /\ DOMAIN jobs' = DOMAIN jobs \cup {n} /\ n \notin DOMAIN jobs
        /\ jobs'[n] = job /\ \A j \in DOMAIN jobs : jobs'[j] = jobs[j]
    <2>1. jobs \in Seq(JobType)
      BY DEF BenchInv, PlaneInv
    <2>. QED  BY <1>0, <1>8, <1>p, <2>1
  <1>10. \A j \in DOMAIN jobs' : jobs'[j].session \in DOMAIN snapshots /\ Stored(jobs[j].personas)'
    <2>1. Stored(callback.personas)'
      BY <1>0, <1>1, StoredStays
    <2>2. \A j \in DOMAIN jobs : Stored(jobs[j].personas)' /\ jobs[j].session \in DOMAIN snapshots
      <3>1. ASSUME NEW j \in DOMAIN jobs PROVE Stored(jobs[j].personas)' /\ jobs[j].session \in DOMAIN snapshots
        <4>1. PICK q : q = jobs[j].personas
          OBVIOUS
        <4>2. Stored(q)'
          BY <1>0, <4>1, StoredStays DEF BenchInv, PlaneInv
        <4>3. jobs'[j].personas = q
          BY <1>9, <4>1
        <4>. QED  BY <4>2, <4>3 DEF BenchInv, PlaneInv, Stored
      <3>. QED  BY <3>1
    <2>. QED  BY <1>1, <1>8, <1>9, <2>1, <2>2 DEF Stored
  <1>11. JobIsWhole'
    <2>1. JobIsWhole
      BY DEF BenchInv, PlaneInv
    <2>2. \A j \in DOMAIN jobs' :
            /\ snapshots[jobs'[j].session] = jobs'[j].personas
            /\ jobs'[j].source = "gradio" => jobs'[j].personas # <<>>
            /\ jobs'[j].tasks # 0
      BY <1>7, <1>8, <1>9, <2>1 DEF JobIsWhole
    <2>3. \A j \in DOMAIN jobs' : \A k \in DOMAIN jobs' \ {j} : jobs'[k].session # jobs'[j].session
      BY <1>6, <1>8, <1>9, <2>1 DEF JobIsWhole
    <2>. QED  BY <1>0, <2>2, <2>3 DEF JobIsWhole
  <1>12. shown' # Nowhere => shown'.session \in DOMAIN snapshots /\ shown'.job \in DOMAIN jobs'
    BY <1>0, <1>1, <1>9 DEF BenchInv, PlaneInv
  <1>13. ASSUME NEW k \in Starters PROVE StarterInv(k)' /\ (Snapshotting(k)' => k # h /\ Snapshotting(k))
    <2>1. CASE k = h
      BY <1>0, <1>1, <1>2, <1>3, <1>5, <1>9, <2>1 DEF StarterInv, Snapshotting
    <2>2. CASE k # h
      <3>1. StarterInv(k) /\ busy'[k] = busy[k]
        BY <1>5, <2>2 DEF BenchInv, PlaneInv
      <3>2. Snapshotting(k) => busy[k].session # s
        BY <1>0, <1>p, <2>2 DEF BenchInv, PlaneInv, Starters, Snapshotting
      <3>3. Snapshotting(k) => \A j \in DOMAIN jobs' : jobs'[j].session # busy[k].session
        BY <1>8, <1>9, <3>1, <3>2 DEF StarterInv
      <3>. QED  BY <1>0, <1>9, <2>2, <3>1, <3>3 DEF StarterInv, Snapshotting
    <2>. QED  BY <2>1, <2>2
  <1>14. ~(Snapshotting("start")' /\ Snapshotting("api")')
    BY <1>13 DEF Starters
  <1>15. snapshots \in Seq(Seq(ProfileType)) /\ \A r \in DOMAIN snapshots : Stored(snapshots[r])'
    <2>1. \A r \in DOMAIN snapshots : Stored(snapshots[r])
      BY DEF BenchInv, PlaneInv
    <2>. QED  BY <1>0, <2>1, StoredStays DEF BenchInv, PlaneInv
  <1>16. PlaneInv'
    BY <1>0, <1>9, <1>10, <1>11, <1>12, <1>13, <1>14, <1>15 DEF PlaneInv
  <1>. QED  BY <1>0, <1>5, <1>16 DEF BenchInv

\* The wait is over, one way or another.
LEMMA StarterReturns ==
    ASSUME BenchInv, NEW h \in Starters, JobSeen(h) \/ Deadline(h) \/ PlaneFails(h)
    PROVE  BenchInv'
  <1>1. /\ busy[h].pc \in {"session", "snapshot", "wait"} /\ Goes(h, Idle)
        /\ UNCHANGED <<workspace, display, tasks, index, editor, planeVars, clicks>>
    BY DEF JobSeen, Deadline, PlaneFails, At, Returns
  <1>2. RuntimeInv' /\ Grows
    BY QuietStep, MishapStep DEF BenchInv, JobSeen, Deadline, PlaneFails
  <1>3. shown' \in {shown, Nowhere} \/ (shown'.session \in DOMAIN snapshots /\ shown'.job \in DOMAIN jobs)
    <2>1. StarterInv(h)
      BY DEF BenchInv, PlaneInv
    <2>. QED  BY <2>1 DEF JobSeen, Deadline, PlaneFails, At, StarterInv
  <1>4. HandlersInv' /\ busy'[h] = Idle /\ \A k \in Starters \ {h} : busy'[k] = busy[k]
    BY <1>1, <1>2, StarterMoves
  <1>5. \A k \in Starters : busy'[k] = busy[k] \/ busy'[k].pc \notin {"snapshot", "wait"}
    BY <1>4 DEF Idle
  <1>. QED  BY <1>1, <1>2, <1>3, <1>4, <1>5, StarterFrame

LEMMA JobEndsStep ==
    ASSUME BenchInv, NEW j \in DOMAIN jobs, JobEnds(j)
    PROVE  BenchInv'
  <1>0. /\ RuntimeInv' /\ Grows /\ UNCHANGED <<tabVars, shown, busy, snapshots, clicks>>
        /\ jobs' = [jobs EXCEPT ![j].status = "ended"]
    BY QuietStep DEF BenchInv, JobEnds, tabVars
  <1>1. HandlersInv' /\ TabInv'
    BY <1>0, CallbacksReturnInv, TabStays DEF BenchInv, HandlersInv
  <1>2. jobs \in Seq(JobType)
    BY DEF BenchInv, PlaneInv
  <1>p. PICK job : job = [jobs[j] EXCEPT !.status = "ended"]
    OBVIOUS
  <1>3. /\ job \in JobType /\ job.session = jobs[j].session /\ job.personas = jobs[j].personas
        /\ job.tasks = jobs[j].tasks /\ job.source = jobs[j].source
    <2>1. jobs[j] \in JobType
      BY <1>2
    <2>. QED  BY <1>p, <2>1 DEF JobType
  <1>4. /\ jobs' \in Seq(JobType) /\ DOMAIN jobs' = DOMAIN jobs /\ jobs'[j] = job
        /\ \A k \in DOMAIN jobs \ {j} : jobs'[k] = jobs[k]
    BY <1>0, <1>2, <1>3, <1>p
  <1>5. \A k \in DOMAIN jobs : /\ jobs'[k].session = jobs[k].session /\ jobs'[k].personas = jobs[k].personas
                               /\ jobs'[k].tasks = jobs[k].tasks /\ jobs'[k].source = jobs[k].source
    BY <1>3, <1>4
  <1>6. JobIsWhole'
    <2>1. JobIsWhole /\ snapshots' = snapshots /\ DOMAIN jobs' = DOMAIN jobs
      BY <1>0, <1>4 DEF BenchInv, PlaneInv
    <2>2. \A k \in DOMAIN jobs' :
            /\ snapshots'[jobs'[k].session] = jobs'[k].personas
            /\ jobs'[k].source = "gradio" => jobs'[k].personas # <<>>
            /\ jobs'[k].tasks # 0
      BY <1>5, <2>1 DEF JobIsWhole
    <2>3. \A k \in DOMAIN jobs' : \A l \in DOMAIN jobs' \ {k} : jobs'[l].session # jobs'[k].session
      BY <1>5, <2>1 DEF JobIsWhole
    <2>. QED  BY <2>2, <2>3 DEF JobIsWhole
  <1>7. /\ \A r \in DOMAIN snapshots : Stored(snapshots[r])'
        /\ \A k \in DOMAIN jobs : Stored(jobs[k].personas)'
    <2>1. \A r \in DOMAIN snapshots : Stored(snapshots[r])
      BY DEF BenchInv, PlaneInv
    <2>2. \A k \in DOMAIN jobs : Stored(jobs[k].personas)
      BY DEF BenchInv, PlaneInv
    <2>3. rows' = rows
      BY DEF JobEnds, runtimeVars
    <2>. QED  BY <1>0, <1>5, <2>1, <2>2, <2>3 DEF Stored
  <1>8. \A h \in Starters : StarterInv(h)' /\ (Snapshotting(h)' <=> Snapshotting(h))
    BY <1>0, <1>4, <1>5 DEF BenchInv, PlaneInv, StarterInv, Snapshotting
  <1>9. PlaneInv'
    BY <1>0, <1>4, <1>5, <1>6, <1>7, <1>8 DEF BenchInv, PlaneInv, Starters
  <1>. QED  BY <1>0, <1>1, <1>9 DEF BenchInv

-----------------------------------------------------------------------------
(* The clients and the runtime.                                            *)

LEMMA TimeoutStep ==
    ASSUME BenchInv, NEW h \in Handlers, Timeout(h)
    PROVE  BenchInv'
  <1>p. PICK callback, next : callback = busy[h] /\ next = [callback EXCEPT !.call = 0]
    OBVIOUS
  <1>0. /\ RuntimeInv' /\ Grows /\ busy[h].pc \in Awaiting /\ Goes(h, next)
        /\ UNCHANGED <<tabVars, planeVars, clicks>>
    BY <1>p, MishapStep DEF BenchInv, Timeout
  <1>1. h \in Callers /\ busy[h] # Idle
    BY <1>0 DEF BenchInv, HandlersInv, Callers, Awaiting, Idle
  <1>2. CallbackInv(h, callback)
    BY <1>1, <1>p DEF BenchInv, HandlersInv, HandlerInv
  <1>3. /\ DOMAIN next = CallbackFields /\ next.call = 0
        /\ \A f \in CallbackFields \ {"call"} : next[f] = callback[f]
    BY <1>2, <1>p DEF CallbackInv, CallbackType, CallbackFields
  <1>4. callback.pc # "judge" /\ callback.pc \notin {"snapshot", "wait"}
    BY <1>0, <1>p DEF Awaiting
  <1>5. CallbackInv(h, next)
    <2>1. CallbackType(next)
      BY <1>2, <1>3 DEF CallbackInv, CallbackType, CallbackFields
    <2>2. Len(calls) \in Nat
      BY SequenceFacts DEF BenchInv, RuntimeInv
    <2>. QED  BY <1>2, <1>3, <1>4, <2>1, <2>2 DEF CallbackInv, CallbackFields
  <1>6. HandlersInv' /\ busy'[h] = next /\ \A k \in Handlers \ {h} : busy'[k] = busy[k]
    BY <1>0, <1>1, <1>5, GoesStep DEF BenchInv
  <1>7. \A k \in Starters : busy'[k] = busy[k] \/ busy'[k].pc \notin {"snapshot", "wait"}
    BY <1>3, <1>4, <1>6 DEF Starters, Handlers, CallbackFields
  <1>8. UNCHANGED <<workspace, display, tasks, index, editor, shown>>
    BY <1>0 DEF tabVars
  <1>. QED  BY <1>0, <1>6, <1>7, <1>8, StarterFrame

LEMMA RuntimeStep ==
    ASSUME BenchInv, (\E c \in DOMAIN calls : Serve(c)) \/ Restart,
           UNCHANGED <<tabVars, busy, planeVars, clicks>>
    PROVE  BenchInv'
  <1>1. RuntimeInv' /\ Grows
    BY ServeStep DEF BenchInv
  <1>2. HandlersInv'
    BY <1>1, CallbacksReturnInv DEF BenchInv, HandlersInv
  <1>3. UNCHANGED <<workspace, display, tasks, index, editor, shown>>
    BY DEF tabVars
  <1>. QED  BY <1>1, <1>2, <1>3, StarterFrame

-----------------------------------------------------------------------------
(* The invariant.                                                          *)

LEMMA BenchInit ==
    ASSUME Init
    PROVE  BenchInv
  <1>1. RuntimeInv
    <2>1. Sequence(<<>>)
      BY DEF Sequence
    <2>2. mishaps \in 0 .. MaxMishaps
      BY DEF Init, RuntimeInit
    <2>. QED  BY <2>1, <2>2 DEF Init, RuntimeInit, RuntimeInv, RowsInv
  <1>2. TabInv
    <2>1. Stored(display)
      BY StoredFacts DEF Init
    <2>2. \E scene \in Scenes : clicks \subseteq scene.buttons
      BY DEF Init
    <2>. QED  BY <2>1, <2>2 DEF Init, TabInv
  <1>3. HandlersInv
    BY DEF Init, HandlersInv, HandlerInv, Callers, Handlers
  <1>4. PlaneInv
    <2>1. /\ snapshots = <<>> /\ jobs = <<>> /\ shown = Nowhere
          /\ \A h \in Starters : busy[h].pc = "idle"
      BY DEF Init, Starters, Handlers, Idle
    <2>2. JobIsWhole
      BY <2>1 DEF JobIsWhole
    <2>. QED  BY <2>1, <2>2 DEF PlaneInv, StarterInv, Snapshotting, Starters
  <1>. QED  BY <1>1, <1>2, <1>3, <1>4 DEF BenchInv

\* What the user does, and what the callbacks do.
LEMMA UserStep ==
    ASSUME BenchInv, User
    PROVE  BenchInv'
  <1>1. ASSUME NEW method \in Methods, NEW n \in Counts, ClickGenerate(method, n) PROVE BenchInv'
    BY <1>1, ClickGenerateStep
  <1>2. ASSUME NEW allow \in BOOLEAN, NEW n \in ApiCounts,
               ClickApi("TinyTroupe", n, allow) \/ ClickApi("Example Persona", n, FALSE)
        PROVE  BenchInv'
    BY <1>2, ClickApiStep DEF Methods
  <1>3. CASE ClickApiForNone \/ ClickLoad \/ ClickSave \/ ClickStart
    BY <1>3, ClickApiForNoneStep, ClickLoadStep, ClickSaveStep, ClickStartStep
  <1>4. CASE Tweak \/ RefreshPersonas \/ (\E i \in 1 .. Len(display) : ChoosePersona(i))
             \/ (\E n \in TaskCounts \cup {0} : SaveTasks(n)) \/ (\E w \in Workspaces : SelectWorkspace(w))
    BY <1>4, EditStep, StudioStep
  <1>. QED  BY <1>1, <1>2, <1>3, <1>4 DEF User

LEMMA BenchStep ==
    ASSUME BenchInv, Next
    PROVE  BenchInv'
  <1>1. CASE User
    BY <1>1, UserStep
  <1>2. CASE Tab
    BY <1>2, WriteTasksStep, ProgressStep, GenerateHearsStep, JudgeStep, StudioStep, LoadHearsStep,
       LoadPersonaStep, SaveHearsStep, ApiHearsStep DEF Tab
  <1>3. ASSUME NEW h \in {"start", "api"}, Plane(h) PROVE BenchInv'
    BY <1>3, CreateSessionStep, SnapshotStep, CreateJobStep, StarterReturns DEF Plane, Starters
  <1>4. CASE \E h \in Handlers : Timeout(h)
    BY <1>4, TimeoutStep
  <1>5. CASE \E j \in DOMAIN jobs : JobEnds(j)
    BY <1>5, JobEndsStep
  <1>6. CASE Served \/ (Restart /\ UNCHANGED <<tabVars, busy, planeVars, clicks>>)
    BY <1>6, RuntimeStep DEF Served
  <1>. QED  BY <1>1, <1>2, <1>3, <1>4, <1>5, <1>6 DEF Next

LEMMA BenchStutters ==
    ASSUME BenchInv, UNCHANGED benchVars
    PROVE  BenchInv'
  <1>1. UNCHANGED runtimeVars /\ UNCHANGED tabVars /\ UNCHANGED planeVars /\ UNCHANGED <<busy, clicks>>
    BY DEF benchVars
  <1>2. RuntimeInv' /\ Grows
    BY <1>1, QuietStep DEF BenchInv
  <1>3. HandlersInv'
    BY <1>1, <1>2, CallbacksReturnInv DEF BenchInv, HandlersInv
  <1>4. UNCHANGED <<workspace, display, tasks, index, editor, shown>>
    BY <1>1 DEF tabVars
  <1>. QED  BY <1>1, <1>2, <1>3, <1>4, StarterFrame

-----------------------------------------------------------------------------
(* The theorems.                                                           *)

\* In every behaviour of the workbench the inductive invariant holds: of the
\* runtime's rows and requests, of the tab, of the callbacks under way and of
\* the control plane.
THEOREM BenchInvAlways == Init /\ [][Next]_benchVars => []BenchInv
  <1>1. Init => BenchInv
    BY BenchInit
  <1>2. BenchInv /\ [Next]_benchVars => BenchInv'
    BY BenchStep, BenchStutters
  <1>. QED  BY <1>1, <1>2, PTL

LEMMA BenchIsTyped ==
    ASSUME BenchInv
    PROVE  TypeOK
  <1>0. minted \in Nat /\ DOMAIN rows \subseteq 1 .. minted
    BY DEF BenchInv, RuntimeInv, RowsInv
  <1>1. ASSUME NEW s, Stored(s) PROVE ToSet(s) \subseteq ProfileSet
    <2>1. \A i \in DOMAIN s : s[i] \in ProfileType /\ s[i].id \in DOMAIN rows
      BY <1>1, StoredFacts
    <2>2. \A i \in DOMAIN s : s[i] \in ProfileSet
      BY <1>0, <2>1 DEF ProfileType, ProfileSet
    <2>. QED  BY <2>2 DEF ToSet
  <1>2. RuntimeTypeOK
    <2>1. ASSUME NEW c \in DOMAIN calls
          PROVE  /\ CallInv(calls[c]) /\ ToSet(calls[c].out) \subseteq 1 .. minted
                 /\ ToSet(calls[c].saved) \subseteq [id : 1 .. minted, rev : Nat]
      <3>1. CallSound(c) /\ CallInv(calls[c])
        BY DEF BenchInv, RuntimeInv, CallSound
      <3>2. Stored(calls[c].saved)
        BY <3>1 DEF CallSound, CallInv, CallType, Stored, OwnIds
      <3>. QED  BY <1>1, <3>1, <3>2 DEF CallSound, ProfileSet
    <2>. QED  BY <2>1 DEF BenchInv, RuntimeInv, RowsInv, RuntimeTypeOK, CallInv, CallType, CallProgress
  <1>3. ToSet(display) \subseteq ProfileSet /\ \A s \in DOMAIN snapshots : ToSet(snapshots[s]) \subseteq ProfileSet
    BY <1>1 DEF BenchInv, TabInv, PlaneInv
  <1>4. editor \in ProfileSet \cup {Missing}
    BY <1>0 DEF BenchInv, TabInv, ProfileType, ProfileSet
  <1>5. \A h \in Callers : busy[h] = Idle \/ busy[h].call \in 0 .. Len(calls)
    BY DEF BenchInv, HandlersInv, HandlerInv, CallbackInv
  <1>6. busy["generate"] # Idle /\ busy["generate"].method = "TinyTroupe" => busy["generate"].count <= LiveCap
    BY DEF BenchInv, HandlersInv, HandlerInv, CallbackInv, Callers, Handlers
  <1>. QED  BY <1>2, <1>3, <1>4, <1>5, <1>6 DEF TypeOK, BenchInv, TabInv, PlaneInv, Callers

\* The state of the runtime, the tab and the control plane is well typed: every
\* id that a callback, the editor or a job goes by was given out by the
\* runtime, and a live generation is never of more than the cap.
THEOREM BenchTypeCorrect == Spec => []TypeOK
  <1>1. BenchInv => TypeOK
    BY BenchIsTyped
  <1>. QED  BY <1>1, BenchInvAlways, PTL DEF Spec

LEMMA BenchPromises ==
    ASSUME BenchInv
    PROVE  AnswersAreStored /\ DisplayIsStored /\ JobIsWhole
  <1>1. AnswersAreStored
    <2>1. ASSUME NEW c \in DOMAIN calls
          PROVE  /\ Ids(calls[c].saved) \subseteq OwnIds(calls[c].workspace)
                 /\ calls[c].bad => calls[c].saved = <<>>
      <3>1. CallSound(c)
        BY DEF BenchInv, RuntimeInv
      <3>. QED  BY <3>1 DEF CallSound, CallInv, CallProgress
    <2>2. ASSUME NEW c \in DOMAIN calls, NEW d \in DOMAIN calls \ {c},
                 calls[c].op \in New, calls[d].op \in New
          PROVE  Ids(calls[c].saved) \cap Ids(calls[d].saved) = {}
      BY <2>2 DEF BenchInv, RuntimeInv, Holds
    <2>. QED  BY <2>1, <2>2 DEF AnswersAreStored, New
  <1>2. DisplayIsStored
    BY DEF BenchInv, TabInv, PlaneInv, Stored, DisplayIsStored
  <1>3. JobIsWhole
    BY DEF BenchInv, PlaneInv
  <1>. QED  BY <1>1, <1>2, <1>3

\* A request answered with profiles has stored each of them for its own
\* workspace and shares none with another that makes new ones; one that failed
\* for want of a usable completion has stored nothing (persona_service).
THEOREM AnswersAreStoredAlways == Spec => []AnswersAreStored
  <1>1. BenchInv => AnswersAreStored
    BY BenchPromises
  <1>. QED  BY <1>1, BenchInvAlways, PTL DEF Spec

\* Whatever the tab displays, edits or has sent off to be tested is a profile
\* that the runtime has stored, however its callbacks overlap (app.py).
THEOREM DisplayIsStoredAlways == Spec => []DisplayIsStored
  <1>1. BenchInv => DisplayIsStored
    BY BenchPromises
  <1>. QED  BY <1>1, BenchInvAlways, PTL DEF Spec

\* A job has a session of its own, and in it exactly the personas displayed at
\* the click, in order and in their revision of then, however the tab went on
\* meanwhile (start_and_monitor_sessions, api_usability_workflow).
THEOREM JobIsWholeAlways == Spec => []JobIsWhole
  <1>1. BenchInv => JobIsWhole
    BY BenchPromises
  <1>. QED  BY <1>1, BenchInvAlways, PTL DEF Spec

LEMMA FirstRequestRows ==
    ASSUME NEW h, NEW callback, callback.method \in Methods, FirstRequest(h, callback)
    PROVE  rows' = rows
  BY DEF FirstRequest, Methods, Requests

\* Only the runtime's own steps touch its rows.
LEMMA RowsStay ==
    ASSUME BenchInv, Next
    PROVE  rows' = rows \/ (\E c \in DOMAIN calls : Serve(c))
  <1>1. ASSUME NEW method \in Methods, NEW n, NEW allow, ClickApi(method, n, allow) PROVE rows' = rows
    <2>p. PICK next : next = [Begun("", ApiWorkspace) EXCEPT
                                !.method = method, !.count = n, !.allow = allow, !.tasks = 5]
      OBVIOUS
    <2>1. next.method = method
      BY <2>p DEF Begun
    <2>. QED  BY <1>1, <2>1, <2>p, FirstRequestRows DEF ClickApi
  <1>2. CASE User
    BY <1>1, <1>2 DEF User, Methods, ClickGenerate, ClickApiForNone, Requests, ClickLoad, ClickSave,
       ClickStart, Tweak, RefreshPersonas, ChoosePersona, SaveTasks, SelectWorkspace, runtimeVars
  <1>3. CASE WriteTasks
    <2>p. PICK callback : callback = busy["generate"]
      OBVIOUS
    <2>1. callback.method \in Methods /\ CallbackType(callback)
      BY <1>3, <2>p, GeneratorInv DEF WriteTasks, At, CallbackInv
    <2>2. \A n : [callback EXCEPT !.tasks = n, !.attempt = 0].method = callback.method
      BY <2>1 DEF CallbackType, CallbackFields
    <2>3. \/ \E n : FirstRequest("generate", [callback EXCEPT !.tasks = n, !.attempt = 0])
          \/ UNCHANGED runtimeVars
      BY <1>3, <2>p DEF WriteTasks
    <2>. QED  BY <2>1, <2>2, <2>3, FirstRequestRows DEF runtimeVars
  <1>4. CASE GenerateHears \/ Judge
    BY <1>4 DEF GenerateHears, Judge, ExampleHeard, Request, Requests, Generated, Fails, runtimeVars
  <1>5. CASE Progress \/ Choose \/ LoadHears \/ LoadPersona \/ SaveHears \/ ApiHears
    BY <1>5 DEF Progress, Choose, LoadHears, LoadPersona, SaveHears, ApiHears, Requests, runtimeVars
  <1>6. CASE \E h \in {"start", "api"} : Plane(h)
    BY <1>6 DEF Plane, CreateSession, Snapshot, CreateJob, JobSeen, Deadline, PlaneFails, runtimeVars
  <1>7. CASE (\E h \in Handlers : Timeout(h)) \/ (\E j \in DOMAIN jobs : JobEnds(j)) \/ Served
             \/ (Restart /\ UNCHANGED <<tabVars, busy, planeVars, clicks>>)
    BY <1>7 DEF Timeout, JobEnds, Served, Restart, runtimeVars
  <1>. QED  BY <1>2, <1>3, <1>4, <1>5, <1>6, <1>7 DEF Next, Tab

LEMMA ProfilesStay ==
    ASSUME BenchInv, [Next]_benchVars
    PROVE  \A id \in DOMAIN rows : id \in DOMAIN rows' /\ rows'[id].workspace = rows[id].workspace
  <1>1. CASE rows' = rows
    BY <1>1
  <1>2. CASE \E c \in DOMAIN calls : Serve(c)
    BY <1>2, ServeStep DEF BenchInv, Grows
  <1>. QED  BY <1>1, <1>2, RowsStay DEF benchVars, runtimeVars

\* A profile never leaves the workspace that made it, whoever generates,
\* adopts or edits at the same time (PersonaStore.save is an upsert on the id).
THEOREM RowsKeepWorkspaceAlways == Spec => RowsKeepWorkspace
  <1>. DEFINE Stay == \A id \in DOMAIN rows :
                        id \in DOMAIN rows' /\ rows'[id].workspace = rows[id].workspace
  <1>1. BenchInv /\ [Next]_benchVars => Stay
    BY ProfilesStay
  <1>. QED  BY <1>1, BenchInvAlways, PTL DEF Spec, RowsKeepWorkspace

-----------------------------------------------------------------------------
(* The group a lookup adopts.                                              *)

Entries == [id : Nat, distance : Int, trait : Int]

\* An index that lists no entry twice.
Indexed(pool) ==
    /\ pool \in Seq(Entries)
    /\ \A i, k \in DOMAIN pool : pool[i] = pool[k] => i = k

LEMMA PublishedIndexes == \A pool \in Published : Indexed(pool)
  <1>1. ASSUME NEW pool \in Published PROVE Indexed(pool)
    <2>1. /\ pool \in Seq(Entries)
          /\ \A i, k \in DOMAIN pool : pool[i].id = pool[k].id => i = k
      BY PublishedAssumption DEF Entries
    <2>. QED  BY <2>1 DEF Indexed
  <1>. QED  BY <1>1

\* scored names each position of the index once, the nearest first.
LEMMA ScoredRanks ==
    ASSUME NEW pool, Indexed(pool)
    PROVE  LET n == Len(pool)
               Before(i) == {k \in DOMAIN pool : Nearer(pool, k, i)}
           IN  /\ n \in Nat /\ DOMAIN pool = 1 .. n
               /\ Scored(pool) \in [1 .. n -> 1 .. n]
               /\ \A r \in 1 .. n : Cardinality(Before(Scored(pool)[r])) = r - 1
               /\ \A i \in 1 .. n : \E r \in 1 .. n : Scored(pool)[r] = i
               /\ \A r, s \in 1 .. n : r < s => pool[Scored(pool)[r]].distance <= pool[Scored(pool)[s]].distance
  <1>n. PICK n : n = Len(pool)
    OBVIOUS
  <1>0. n \in Nat /\ DOMAIN pool = 1 .. n /\ \A i \in 1 .. n : pool[i].distance \in Int
    <2>1. n \in Nat /\ DOMAIN pool = 1 .. n /\ \A i \in 1 .. n : pool[i] \in Entries
      BY <1>n DEF Indexed
    <2>. QED  BY <2>1 DEF Entries
  <1>b. PICK before : before = [i \in 1 .. n |-> {k \in 1 .. n : Nearer(pool, k, i)}]
    OBVIOUS
  <1>1. before \in [1 .. n -> SUBSET (1 .. n)] /\ \A i, k \in 1 .. n : k \in before[i] <=> Nearer(pool, k, i)
    BY <1>b
  <1>2. \A i \in 1 .. n : i \notin before[i]
    BY <1>0, <1>1 DEF Nearer
  <1>3. \A i, k \in 1 .. n : i # k => k \in before[i] \/ i \in before[k]
    BY <1>0, <1>1 DEF Nearer
  <1>4. ASSUME NEW i \in 1 .. n, NEW k \in 1 .. n, k \in before[i] PROVE before[k] \subseteq before[i]
    <2>1. \A j \in 1 .. n : Nearer(pool, j, k) => Nearer(pool, j, i)
      BY <1>0, <1>1, <1>4 DEF Nearer
    <2>. QED  BY <1>1, <2>1
  <1>5. IsFiniteSet(1 .. n) /\ Cardinality(1 .. n) = n
    BY <1>0, FS_Interval
  <1>r. PICK rank : rank = [i \in 1 .. n |-> Cardinality(before[i])]
    OBVIOUS
  <1>d. PICK D : D = 1 .. n
    OBVIOUS
  <1>e. /\ \A i \in D : Cardinality(before[i]) \in Nat /\ Cardinality(before[i]) < Cardinality(D)
        /\ \A i, k \in D : k \in before[i] => Cardinality(before[k]) < Cardinality(before[i])
        /\ \A i, k \in D : Cardinality(before[i]) = Cardinality(before[k]) => i = k
        /\ \A m \in 1 .. Cardinality(D) : \E i \in D : Cardinality(before[i]) = m - 1
    <2>1. /\ IsFiniteSet(D) /\ before \in [D -> SUBSET D]
          /\ \A i \in D : i \notin before[i]
          /\ \A i, k \in D : i # k => k \in before[i] \/ i \in before[k]
          /\ \A i, k \in D : k \in before[i] => before[k] \subseteq before[i]
      BY <1>1, <1>2, <1>3, <1>4, <1>5, <1>d
    <2>. QED  BY <2>1, Ranks
  <1>6. /\ \A i \in 1 .. n : rank[i] \in Nat /\ rank[i] < n
        /\ \A i, k \in 1 .. n : k \in before[i] => rank[k] < rank[i]
        /\ \A i, k \in 1 .. n : rank[i] = rank[k] => i = k
        /\ \A m \in 1 .. n : \E i \in 1 .. n : rank[i] = m - 1
    BY <1>5, <1>d, <1>e, <1>r
  <1>7. \A i \in 1 .. n : Cardinality({k \in DOMAIN pool : Nearer(pool, k, i)}) = rank[i]
    BY <1>0, <1>b, <1>r
  <1>. DEFINE Place(r) == CHOOSE i \in 1 .. n : rank[i] = r - 1
  <1>s. PICK scored : scored = Scored(pool)
    OBVIOUS
  <1>8. \A r \in 1 .. n : Place(r) \in 1 .. n /\ rank[Place(r)] = r - 1
    BY <1>6
  <1>9. scored = [r \in 1 .. n |-> Place(r)]
    <2>1. \A r \in 1 .. n : Place(r) = CHOOSE i \in DOMAIN pool :
                                Cardinality({k \in DOMAIN pool : Nearer(pool, k, i)}) = r - 1
      BY <1>0, <1>7
    <2>. HIDE DEF Place
    <2>. QED  BY <1>0, <1>s, <2>1 DEF Scored
  <1>. HIDE DEF Place
  <1>10. scored \in [1 .. n -> 1 .. n] /\ \A r \in 1 .. n : rank[scored[r]] = r - 1
    BY <1>8, <1>9
  <1>11. ASSUME NEW i \in 1 .. n PROVE \E r \in 1 .. n : scored[r] = i
    <2>r. PICK r : r = rank[i] + 1
      OBVIOUS
    <2>0. rank[i] \in Nat /\ rank[i] < n
      BY <1>6
    <2>1. r \in 1 .. n /\ r - 1 = rank[i]
      BY <1>0, <2>0, <2>r, SMTT(30)
    <2>2. scored[r] \in 1 .. n /\ rank[scored[r]] = rank[i]
      BY <1>10, <2>1
    <2>3. scored[r] = i
      BY <1>6, <2>2
    <2>. QED  BY <2>1, <2>3
  <1>12. ASSUME NEW r \in 1 .. n, NEW s \in 1 .. n, r < s
         PROVE  pool[scored[r]].distance <= pool[scored[s]].distance
    <2>1. scored[r] \in 1 .. n /\ scored[s] \in 1 .. n /\ rank[scored[r]] < rank[scored[s]]
      <3>1. rank[scored[r]] = r - 1 /\ rank[scored[s]] = s - 1 /\ r - 1 < s - 1
        BY ONLY <1>0, <1>10, <1>12
      <3>. QED  BY <1>10, <3>1
    <2>3. rank[scored[r]] \in Nat /\ rank[scored[s]] \in Nat
      BY <1>6, <2>1
    <2>4. scored[s] \notin before[scored[r]]
      <3>1. ~(rank[scored[s]] < rank[scored[r]])
        BY <2>1, <2>3
      <3>. QED  BY <1>6, <2>1, <3>1
    <2>2. ~Nearer(pool, scored[s], scored[r])
      BY <1>1, <2>1, <2>4
    <2>. QED  BY <1>0, <2>1, <2>2 DEF Nearer
  <1>13. \A r \in 1 .. n : Cardinality({k \in DOMAIN pool : Nearer(pool, k, scored[r])}) = r - 1
    BY <1>7, <1>10
  <1>. QED  BY <1>0, <1>10, <1>11, <1>12, <1>13, <1>n, <1>s

\* The candidates are the entries of the range, each once, the nearest first.
Ranging(c, pool, count) ==
    LET range == {i \in DOMAIN pool :
                    Cardinality({k \in DOMAIN pool : Nearer(pool, k, i)}) < TopK(count)}
        width == IF Len(pool) < TopK(count) THEN Len(pool) ELSE TopK(count)
    IN  /\ width \in Nat /\ Len(c) = width /\ DOMAIN c = 1 .. width /\ c \in Seq(Entries)
        /\ \A r, s \in 1 .. width : c[r] = c[s] => r = s
        /\ Cardinality(range) = width
        /\ {pool[i] : i \in range} = {c[r] : r \in 1 .. width}
        /\ \A r \in 1 .. width : c[1].distance <= c[r].distance

LEMMA CandidatesRange ==
    ASSUME NEW pool, Indexed(pool), NEW count \in Nat \ {0}
    PROVE  Ranging(Candidates(pool, count), pool, count)
  <1>n. PICK n : n = Len(pool)
    OBVIOUS
  <1>k. PICK topK : topK = TopK(count)
    OBVIOUS
  <1>w. PICK width : width = IF n < topK THEN n ELSE topK
    OBVIOUS
  <1>s. PICK scored : scored = Scored(pool)
    OBVIOUS
  <1>b. PICK rank : rank = [i \in DOMAIN pool |-> Cardinality({k \in DOMAIN pool : Nearer(pool, k, i)})]
    OBVIOUS
  <1>r. PICK range : range = {i \in DOMAIN pool : rank[i] < topK}
    OBVIOUS
  <1>c. PICK c : c = [r \in 1 .. width |-> pool[scored[r]]]
    OBVIOUS
  <1>0. /\ n \in Nat /\ DOMAIN pool = 1 .. n
        /\ scored \in [1 .. n -> 1 .. n]
        /\ \A r \in 1 .. n : Cardinality({k \in DOMAIN pool : Nearer(pool, k, scored[r])}) = r - 1
        /\ \A i \in 1 .. n : \E r \in 1 .. n : scored[r] = i
        /\ \A r, s \in 1 .. n : r < s => pool[scored[r]].distance <= pool[scored[s]].distance
    BY <1>n, <1>s, ScoredRanks
  <1>1. /\ topK \in Nat \ {0} /\ width \in Nat /\ width <= n /\ width <= topK
        /\ \A r \in 1 .. n : r <= topK => r \in 1 .. width
        /\ \A r \in 1 .. width : r \in 1 .. n
    <2>1. topK \in Nat \ {0} /\ n \in Nat
      BY <1>0, <1>k DEF TopK
    <2>. QED  BY ONLY <1>w, <2>1
  <1>2. \A r \in 1 .. n : scored[r] \in 1 .. n /\ rank[scored[r]] = r - 1
    BY <1>0, <1>b
  <1>3. \A r, s \in 1 .. n : scored[r] = scored[s] => r = s
    <2>1. \A r, s \in 1 .. n : r - 1 = s - 1 => r = s
      OBVIOUS
    <2>. QED  BY <1>2, <2>1
  <1>4. \A r \in 1 .. width : scored[r] \in range
    <2>1. \A r \in 1 .. width : r - 1 < topK
      BY <1>1
    <2>. QED  BY <1>0, <1>1, <1>2, <1>r, <2>1
  <1>5. ASSUME NEW i \in range PROVE \E r \in 1 .. width : scored[r] = i
    <2>1. i \in 1 .. n /\ rank[i] < topK
      BY <1>0, <1>r
    <2>2. PICK r \in 1 .. n : scored[r] = i
      BY <1>0, <2>1
    <2>3. r - 1 < topK
      BY <1>2, <2>1, <2>2
    <2>4. r \in 1 .. width
      BY <1>1, <2>3
    <2>. QED  BY <2>2, <2>4
  <1>6. Cardinality(range) = width
    <2>f. PICK f : f = [r \in 1 .. width |-> scored[r]]
      OBVIOUS
    <2>1. f \in [1 .. width -> range] /\ \A r \in 1 .. width : f[r] = scored[r]
      BY <1>4, <2>f
    <2>2. f \in Injection(1 .. width, range)
      <3>1. \A r, s \in 1 .. width : f[r] = f[s] => r = s
        BY <1>1, <1>3, <2>1
      <3>. QED  BY <2>1, <3>1 DEF Injection, IsInjective
    <2>3. f \in Surjection(1 .. width, range)
      BY <1>5, <2>1 DEF Surjection
    <2>4. f \in Bijection(1 .. width, range)
      BY <2>2, <2>3 DEF Bijection
    <2>5. ExistsBijection(1 .. width, range)
      BY <2>4 DEF ExistsBijection
    <2>. QED  BY <1>1, <2>5, FS_CountingElements
  <1>7. \A r \in 1 .. width : c[r] = pool[scored[r]]
    BY <1>c
  <1>8. {pool[i] : i \in range} = {c[r] : r \in 1 .. width}
    <2>1. ASSUME NEW i \in range PROVE pool[i] \in {c[r] : r \in 1 .. width}
      BY <1>5, <1>7
    <2>2. ASSUME NEW r \in 1 .. width PROVE c[r] \in {pool[i] : i \in range}
      BY <1>4, <1>7
    <2>. QED  BY <2>1, <2>2
  <1>9. ASSUME NEW r \in 1 .. width PROVE pool[scored[1]].distance <= pool[scored[r]].distance
    <2>1. 1 \in 1 .. n /\ r \in 1 .. n
      BY <1>1
    <2>2. CASE r = 1
      <3>1. pool[scored[1]].distance \in Int
        <4>1. pool[scored[1]] \in Entries
          BY <1>0, <2>1 DEF Indexed
        <4>. QED  BY <4>1 DEF Entries
      <3>. QED  BY <2>2, <3>1
    <2>3. CASE 1 < r
      BY <1>0, <2>1, <2>3
    <2>. QED  BY <2>1, <2>2, <2>3
  <1>10. \A r, s \in 1 .. width : c[r] = c[s] => r = s
    <2>1. \A i, k \in 1 .. n : pool[i] = pool[k] => i = k
      BY <1>0 DEF Indexed
    <2>. QED  BY <1>1, <1>2, <1>3, <1>7, <2>1
  <1>11. c \in Seq(Entries) /\ Len(c) = width /\ DOMAIN c = 1 .. width
    <2>1. \A r \in 1 .. width : c[r] \in Entries
      <3>1. \A i \in 1 .. n : pool[i] \in Entries
        BY <1>0 DEF Indexed
      <3>. QED  BY <1>1, <1>2, <1>7, <3>1
    <2>2. c \in [1 .. width -> Entries]
      BY <1>c, <1>7, <2>1
    <2>. QED  BY <1>1, <2>2
  <1>12. \A r \in 1 .. width : c[1].distance <= c[r].distance
    <2>1. \A r \in 1 .. width : 1 \in 1 .. width
      BY <1>1
    <2>. QED  BY <1>7, <1>9, <2>1
  <1>13. c = Candidates(pool, count)
    BY <1>c, <1>k, <1>n, <1>s, <1>w DEF Candidates
  <1>14. range = {i \in DOMAIN pool : Cardinality({k \in DOMAIN pool : Nearer(pool, k, i)}) < TopK(count)}
    BY <1>b, <1>k, <1>r
  <1>15. width = IF Len(pool) < TopK(count) THEN Len(pool) ELSE TopK(count)
    BY <1>k, <1>n, <1>w
  <1>16. /\ width \in Nat /\ Len(c) = width /\ DOMAIN c = 1 .. width /\ c \in Seq(Entries)
         /\ \A r, s \in 1 .. width : c[r] = c[s] => r = s
         /\ Cardinality(range) = width
         /\ {pool[i] : i \in range} = {c[r] : r \in 1 .. width}
         /\ \A r \in 1 .. width : c[1].distance <= c[r].distance
    BY <1>1, <1>6, <1>8, <1>10, <1>11, <1>12
  <1>17. Ranging(c, pool, count)
    <2>. HIDE <1>b, <1>r, <1>c, <1>w
    <2>. QED  BY ONLY <1>14, <1>15, <1>16 DEF Ranging
  <1>. QED  BY <1>13, <1>17

\* The gap of each candidate to those selected.
Gaps(c, s) == [r \in DOMAIN c |-> Min({Separation(c[r], c[x]) : x \in ToSet(s)})]

\* A finite set of numbers has a least.
LEMMA LeastOf ==
    ASSUME NEW S, IsFiniteSet(S), S # {}, \A x \in S : x \in Int
    PROVE  Min(S) \in S /\ \A x \in S : Min(S) <= x
  <1>1. \E x \in S : \A y \in S : x <= y
    <2>n. PICK n : n = Cardinality(S)
      OBVIOUS
    <2>1. n \in Nat \ {0}
      BY <2>n, FS_EmptySet, FS_CardinalityType
    <2>2. 1 \in 1 .. n
      BY <2>1
    <2>3. \E i \in S : Cardinality({j \in S : j < i}) = 1 - 1
      BY <2>2, <2>n, IntegerRanks
    <2>4. PICK i \in S : Cardinality({j \in S : j < i}) = 0
      BY <2>3
    <2>5. IsFiniteSet({j \in S : j < i})
      BY FS_Subset
    <2>6. {j \in S : j < i} = {}
      BY <2>4, <2>5, FS_EmptySet
    <2>7. \A y \in S : ~(y < i)
      BY <2>6
    <2>. QED  BY <2>7
  <1>. QED  BY <1>1 DEF Min

\* The values of a function on a finite set are finitely many.
LEMMA FiniteValues ==
    ASSUME NEW S, IsFiniteSet(S), NEW f, DOMAIN f = S
    PROVE  IsFiniteSet({f[x] : x \in S})
  <1>t. PICK T : T = {f[x] : x \in S}
    OBVIOUS
  <1>g. PICK g : g = [x \in S |-> f[x]]
    OBVIOUS
  <1>1. g \in [S -> T] /\ \A y \in T : \E x \in S : g[x] = y
    BY <1>t, <1>g
  <1>2. g \in Surjection(S, T)
    BY <1>1 DEF Surjection
  <1>3. IsFiniteSet(T)
    BY <1>2, FS_Surjection
  <1>. QED  BY <1>3, <1>t

\* The gaps are numbers.
LEMMA GapIsNumber ==
    ASSUME NEW c \in Seq(Entries), NEW s \in Seq(DOMAIN c), s # <<>>, NEW r \in DOMAIN c
    PROVE  Gaps(c, s)[r] \in Int
  <1>x. PICK X : X = ToSet(s)
    OBVIOUS
  <1>1. IsFiniteSet(X) /\ X # {} /\ X \subseteq DOMAIN c
    <2>1. X \subseteq DOMAIN c /\ X # {}
      <3>d. PICK D : D = DOMAIN c
        OBVIOUS
      <3>1. s \in Seq(D) /\ s # <<>> /\ X = {s[i] : i \in DOMAIN s}
        BY <1>x, <3>d DEF ToSet
      <3>2. X \subseteq D /\ X # {}
        <4>. HIDE <3>d, <1>x
        <4>1. 1 \in DOMAIN s /\ \A i \in DOMAIN s : s[i] \in D
          BY <3>1
        <4>. QED  BY <3>1, <4>1
      <3>. QED  BY <3>2, <3>d
    <2>2. IsFiniteSet(DOMAIN c)
      <3>1. Len(c) \in Nat /\ DOMAIN c = 1 .. Len(c)
        OBVIOUS
      <3>2. IsFiniteSet(1 .. Len(c))
        BY <3>1, FS_Interval
      <3>. QED  BY <3>1, <3>2
    <2>. QED  BY <2>1, <2>2, FS_Subset
  <1>f. PICK f : f = [x \in X |-> Separation(c[r], c[x])]
    OBVIOUS
  <1>2. \A x \in X : f[x] \in Int
    <2>1. \A x \in DOMAIN c : c[x].trait \in Int
      <3>1. \A x \in DOMAIN c : c[x] \in Entries
        OBVIOUS
      <3>. QED  BY <3>1 DEF Entries
    <2>. QED  BY <1>1, <1>f, <2>1 DEF Separation
  <1>v. PICK V : V = {f[x] : x \in X}
    OBVIOUS
  <1>3. IsFiniteSet(V) /\ V # {} /\ \A v \in V : v \in Int
    <2>1. IsFiniteSet(V)
      BY <1>1, <1>f, <1>v, FiniteValues
    <2>. QED  BY <1>1, <1>2, <1>v, <2>1
  <1>4. Min(V) \in Int
    BY <1>3, LeastOf
  <1>5. Gaps(c, s)[r] = Min(V)
    <2>1. V = {Separation(c[r], c[x]) : x \in ToSet(s)}
      BY <1>f, <1>v, <1>x
    <2>. QED  BY <2>1 DEF Gaps
  <1>. QED  BY <1>4, <1>5

\* What is added is not selected yet, and no gap is wider.
LEMMA FarthestIsWidest ==
    ASSUME NEW c \in Seq(Entries), NEW s \in Seq(DOMAIN c), s # <<>>,
           NEW rest, rest = DOMAIN c \ ToSet(s), rest # {}
    PROVE  /\ Farthest(c, s) \in rest
           /\ \A k \in rest : Gaps(c, s)[k] <= Gaps(c, s)[Farthest(c, s)]
  <1>g. PICK gap : gap = Gaps(c, s)
    OBVIOUS
  <1>0. Len(c) \in Nat /\ DOMAIN c = 1 .. Len(c)
    OBVIOUS
  <1>1. \A r \in rest : gap[r] \in Int /\ r \in Int
    BY <1>0, <1>g, GapIsNumber
  <1>2. IsFiniteSet(rest)
    <2>1. IsFiniteSet(1 .. Len(c)) /\ rest \in SUBSET (1 .. Len(c))
      BY <1>0, FS_Interval
    <2>. QED  BY <2>1, FS_Subset
  <1>w. PICK widest : widest = {r \in rest : \A k \in rest : gap[k] <= gap[r]}
    OBVIOUS
  <1>3. widest # {}
    <2>f. PICK f : f = [r \in rest |-> 0 - gap[r]]
      OBVIOUS
    <2>v. PICK V : V = {f[r] : r \in rest}
      OBVIOUS
    <2>1. IsFiniteSet(V) /\ V # {} /\ \A v \in V : v \in Int
      <3>1. IsFiniteSet(V)
        <4>1. DOMAIN f = rest /\ IsFiniteSet(rest)
          BY <1>2, <2>f
        <4>2. IsFiniteSet({f[r] : r \in rest})
          <5>. HIDE <2>f
          <5>. QED  BY ONLY <4>1, FiniteValues
        <4>. QED  BY <2>v, <4>2
      <3>2. \A r \in rest : f[r] \in Int
        BY <1>1, <2>f
      <3>. QED  BY <2>v, <3>1, <3>2
    <2>2. Min(V) \in V /\ \A v \in V : Min(V) <= v
      BY <2>1, LeastOf
    <2>3. PICK r \in rest : f[r] = Min(V)
      BY <2>2, <2>v
    <2>4. \A k \in rest : f[r] <= f[k]
      BY <2>2, <2>3, <2>v
    <2>5. \A k \in rest : gap[k] <= gap[r]
      BY <1>1, <2>f, <2>4
    <2>. QED  BY <1>w, <2>5
  <1>4. IsFiniteSet(widest) /\ \A r \in widest : r \in Int
    <2>1. IsFiniteSet(widest)
      BY <1>2, <1>w, FS_Subset
    <2>. QED  BY <1>1, <1>w, <2>1
  <1>5. Min(widest) \in widest
    BY <1>3, <1>4, LeastOf
  <1>6. Farthest(c, s) = Min(widest)
    <2>1. gap = [r \in DOMAIN c |-> Min({Separation(c[r], c[x]) : x \in ToSet(s)})]
      BY <1>g DEF Gaps
    <2>2. widest = {r \in DOMAIN c \ ToSet(s) : \A k \in DOMAIN c \ ToSet(s) : gap[k] <= gap[r]}
      BY <1>w
    <2>. QED  BY <2>1, <2>2 DEF Farthest
  <1>7. Farthest(c, s) \in widest
    BY <1>5, <1>6
  <1>. QED  BY <1>7, <1>g, <1>w

\* Induction up to a number, for membership of a set.
LEMMA UpTheNumbers ==
    ASSUME NEW n \in Nat, NEW Good, 0 \in Good, \A i \in 0 .. (n - 1) : i \in Good => i + 1 \in Good
    PROVE  \A i \in 0 .. n : i \in Good
  <1>b. PICK bad : bad = {i \in 0 .. n : i \notin Good}
    OBVIOUS
  <1>1. ASSUME bad # {} PROVE FALSE
    <2>1. IsFiniteSet(0 .. n) /\ bad \in SUBSET (0 .. n) /\ \A i \in bad : i \in Int
      BY <1>b, FS_Interval
    <2>2. IsFiniteSet(bad)
      BY <2>1, FS_Subset
    <2>m. PICK m : m = Min(bad)
      OBVIOUS
    <2>3. m \in bad /\ \A i \in bad : m <= i
      BY <1>1, <2>1, <2>2, <2>m, LeastOf
    <2>4. m \in 0 .. n /\ m \notin Good
      BY <1>b, <2>3
    <2>5. m - 1 \in 0 .. (n - 1) /\ (m - 1) + 1 = m
      BY <2>4
    <2>6. m - 1 \in 0 .. n /\ ~(m <= m - 1)
      BY <2>4, <2>5
    <2>7. m - 1 \in Good
      BY <1>b, <2>3, <2>6
    <2>. QED  BY <2>4, <2>5, <2>7
  <1>. QED  BY <1>1, <1>b

\* A list shorter than another does not name each of its places.
LEMMA RoomLeft ==
    ASSUME NEW D, NEW n \in Nat, D = 1 .. n, NEW s \in Seq(D), Len(s) < n
    PROVE  D \ ToSet(s) # {}
  <1>x. PICK X : X = ToSet(s)
    OBVIOUS
  <1>1. /\ Len(s) \in Nat /\ DOMAIN s = 1 .. Len(s)
        /\ s \in [1 .. Len(s) -> X] /\ \A y \in X : \E i \in 1 .. Len(s) : s[i] = y
    BY <1>x DEF ToSet
  <1>2. s \in Surjection(1 .. Len(s), X)
    BY <1>1 DEF Surjection
  <1>3. IsFiniteSet(1 .. Len(s)) /\ Cardinality(1 .. Len(s)) = Len(s)
    <2>l. PICK l : l = Len(s)
      OBVIOUS
    <2>1. l \in Nat
      BY <1>1, <2>l
    <2>2. IsFiniteSet(1 .. l) /\ Cardinality(1 .. l) = l
      <3>1. IsFiniteSet(1 .. l) /\ Cardinality(1 .. l) = IF 1 > l THEN 0 ELSE l - 1 + 1
        BY ONLY <2>1, FS_Interval
      <3>. QED  BY <2>1, <3>1
    <2>. QED  BY <2>2, <2>l
  <1>4. IsFiniteSet(X) /\ Cardinality(X) <= Len(s)
    BY <1>2, <1>3, FS_Surjection
  <1>5. IsFiniteSet(1 .. n) /\ Cardinality(1 .. n) = n
    BY FS_Interval
  <1>6. ASSUME D \subseteq X PROVE FALSE
    <2>1. Cardinality(D) <= Cardinality(X)
      BY <1>4, <1>6, FS_Subset
    <2>2. Cardinality(X) \in Nat
      BY <1>4, FS_CardinalityType
    <2>. QED  BY <1>1, <1>4, <1>5, <2>1, <2>2
  <1>. QED  BY <1>6, <1>x

\* One rank after the other is selected, each once.
Selecting(f, c, count) ==
    f = [n \in 1 .. count |-> IF n = 1 THEN <<1>> ELSE Append(f[n - 1], Farthest(c, f[n - 1]))]

\* A sample of n ranks of c.
Sampled(s, c, n) ==
    /\ s \in Seq(DOMAIN c) /\ Len(s) = n /\ s[1] = 1
    /\ \A i, k \in 1 .. n : s[i] = s[k] => i = k

LEMMA SelectionExists ==
    ASSUME NEW c, NEW count \in Nat
    PROVE  \E f : Selecting(f, c, count)
  <1>g. PICK good : good = {m \in 0 .. count : \E f : Selecting(f, c, m)}
    OBVIOUS
  <1>1. 0 \in good
    <2>1. PICK f : f = [n \in 1 .. 0 |-> <<1>>]
      OBVIOUS
    <2>2. f = [n \in 1 .. 0 |-> IF n = 1 THEN <<1>> ELSE Append(f[n - 1], Farthest(c, f[n - 1]))]
      BY <2>1
    <2>3. Selecting(f, c, 0)
      BY <2>2 DEF Selecting
    <2>. QED  BY <1>g, <2>3
  <1>2. ASSUME NEW m \in 0 .. (count - 1), m \in good PROVE m + 1 \in good
    <2>1. PICK f : Selecting(f, c, m)
      BY <1>2, <1>g
    <2>2. \A i \in 1 .. m : f[i] = IF i = 1 THEN <<1>> ELSE Append(f[i - 1], Farthest(c, f[i - 1]))
      BY <2>1 DEF Selecting
    <2>3. PICK g : g = [i \in 1 .. (m + 1) |->
                          IF i <= m THEN f[i] ELSE IF i = 1 THEN <<1>> ELSE Append(f[m], Farthest(c, f[m]))]
      OBVIOUS
    <2>4. ASSUME NEW i \in 1 .. (m + 1)
          PROVE  g[i] = IF i = 1 THEN <<1>> ELSE Append(g[i - 1], Farthest(c, g[i - 1]))
      <3>1. CASE i <= m
        <4>1. i \in 1 .. m /\ g[i] = f[i]
          BY <2>3, <3>1
        <4>2. i # 1 => i - 1 \in 1 .. (m + 1) /\ i - 1 <= m
          BY <3>1
        <4>3. i # 1 => g[i - 1] = f[i - 1]
          BY <2>3, <4>2
        <4>. QED  BY <2>2, <4>1, <4>3
      <3>2. CASE i = m + 1
        <4>1. i # 1 => m \in 1 .. (m + 1) /\ i - 1 = m /\ g[m] = f[m]
          BY <2>3, <3>2
        <4>2. g[i] = IF i = 1 THEN <<1>> ELSE Append(f[m], Farthest(c, f[m]))
          BY <2>3, <3>2
        <4>. QED  BY <4>1, <4>2
      <3>. QED  BY <3>1, <3>2
    <2>5. g = [i \in 1 .. (m + 1) |-> g[i]]
      BY <2>3
    <2>6. Selecting(g, c, m + 1)
      BY <2>4, <2>5 DEF Selecting
    <2>. QED  BY <1>g, <2>6
  <1>. QED  BY <1>1, <1>2, <1>g, UpTheNumbers

LEMMA SelectionSamples ==
    ASSUME NEW c \in Seq(Entries), NEW count \in Nat \ {0}, count < Len(c), NEW f, Selecting(f, c, count)
    PROVE  /\ \A n \in 1 .. count : Sampled(f[n], c, n)
           /\ \A n \in 2 .. count : f[n] = Append(f[n - 1], Farthest(c, f[n - 1]))
  <1>l. PICK len : len = Len(c)
    OBVIOUS
  <1>d. PICK D : D = DOMAIN c
    OBVIOUS
  <1>0. len \in Nat /\ D = 1 .. len /\ count < len /\ 1 \in D
    BY <1>l, <1>d
  <1>1. /\ f[1] = <<1>>
        /\ \A n \in 2 .. count : f[n] = Append(f[n - 1], Farthest(c, f[n - 1]))
    <2>1. 1 \in 1 .. count /\ \A n \in 2 .. count : n \in 1 .. count /\ n # 1
      OBVIOUS
    <2>. QED  BY <2>1 DEF Selecting
  <1>g. PICK good : good = {0} \cup {n \in 1 .. count : Sampled(f[n], c, n)}
    OBVIOUS
  <1>2. ASSUME NEW m \in 0 .. (count - 1), m \in good PROVE m + 1 \in good
    <2>1. CASE m = 0
      <3>1. Sampled(<<1>>, c, 1)
        BY <1>0, <1>d DEF Sampled
      <3>2. m + 1 = 1 /\ 1 \in 1 .. count
        BY <2>1
      <3>. QED  BY <1>1, <1>g, <3>1, <3>2
    <2>2. CASE m # 0
      <3>s. PICK s : s = f[m]
        OBVIOUS
      <3>1. /\ m \in 1 .. count /\ m + 1 \in 2 .. count /\ (m + 1) - 1 = m
            /\ s \in Seq(D) /\ Len(s) = m /\ s[1] = 1
            /\ \A i, k \in 1 .. m : s[i] = s[k] => i = k
        BY <1>2, <1>d, <1>g, <2>2, <3>s DEF Sampled
      <3>x. PICK x : x = Farthest(c, s)
        OBVIOUS
      <3>2. x \in D \ ToSet(s)
        <4>1. D \ ToSet(s) # {}
          <5>1. Len(s) < len
            BY <1>0, <3>1
          <5>. QED  BY <1>0, <3>1, <5>1, RoomLeft
        <4>2. s # <<>>
          BY <3>1
        <4>. QED  BY <1>d, <3>1, <3>x, <4>1, <4>2, FarthestIsWidest
      <3>t. PICK t : t = Append(s, x)
        OBVIOUS
      <3>3. f[m + 1] = t
        BY <1>1, <3>1, <3>s, <3>t, <3>x
      <3>4. /\ t \in Seq(D) /\ Len(t) = m + 1 /\ t[m + 1] = x
            /\ \A i \in 1 .. m : t[i] = s[i] /\ s[i] \in ToSet(s)
        BY <3>1, <3>2, <3>t DEF ToSet
      <3>5. \A i, k \in 1 .. (m + 1) : t[i] = t[k] => i = k
        <4>1. \A i \in 1 .. (m + 1) : i \in 1 .. m \/ i = m + 1
          BY <3>1
        <4>. QED  BY <3>1, <3>2, <3>4, <4>1
      <3>6. t[1] = 1
        BY <3>1, <3>4
      <3>7. Sampled(t, c, m + 1)
        BY <1>d, <3>4, <3>5, <3>6 DEF Sampled
      <3>. QED  BY <1>g, <3>1, <3>3, <3>7
    <2>. QED  BY <2>1, <2>2
  <1>3. \A n \in 0 .. count : n \in good
    <2>1. 0 \in good
      BY <1>g
    <2>. QED  BY <1>2, <2>1, UpTheNumbers
  <1>4. \A n \in 1 .. count : Sampled(f[n], c, n)
    BY <1>3, <1>g
  <1>. QED  BY <1>1, <1>4

\* A list that names nothing twice has as many members as places.
LEMMA Distinct ==
    ASSUME NEW X, NEW s \in Seq(X), \A i, k \in DOMAIN s : s[i] = s[k] => i = k
    PROVE  Cardinality(ToSet(s)) = Len(s)
  <1>n. PICK n : n = Len(s)
    OBVIOUS
  <1>x. PICK Y : Y = ToSet(s)
    OBVIOUS
  <1>1. /\ n \in Nat /\ DOMAIN s = 1 .. n
        /\ s \in [1 .. n -> Y] /\ \A y \in Y : \E i \in 1 .. n : s[i] = y
    BY <1>n, <1>x DEF ToSet
  <1>2. s \in Bijection(1 .. n, Y)
    BY <1>1 DEF Bijection, Injection, Surjection, IsInjective
  <1>3. ExistsBijection(1 .. n, Y)
    BY <1>2 DEF ExistsBijection
  <1>4. Cardinality(Y) = n
    BY ONLY <1>1, <1>3, FS_CountingElements
  <1>. QED  BY <1>4, <1>n, <1>x

\* What IsRangedGroup says, of what its names stand for.
GroupOf(g, n, count, members, before, width) ==
    LET Gap(entry, others) == Min({Separation(entry, o) : o \in others})
    IN  /\ Len(g) = IF n < count THEN n ELSE count
        /\ Cardinality(ToSet(g)) = Len(g)
        /\ ToSet(g) \subseteq members
        /\ \A m \in members : g[1].distance <= m.distance
        /\ Len(g) > 1 /\ Len(g) < width =>
             \A m \in members \ ToSet(g) : Gap(m, before) <= Gap(g[Len(g)], before)

\* The selection, and what is selected of the candidates when there are any.
Selection(c, count) == CHOOSE selected : Selecting(selected, c, count)
Selected(c, count) == [n \in 1 .. count |-> c[Selection(c, count)[count][n]]]

LEMMA GroupOfCandidates ==
    ASSUME NEW pool, pool # <<>>, NEW count \in Nat \ {0}, NEW c, c = Candidates(pool, count)
    PROVE  SelectPoolGroup(pool, count) = IF Len(c) <= count THEN c ELSE Selected(c, count)
  <1>1. ~(count <= 0 \/ pool = <<>>)
    OBVIOUS
  <1>. QED  BY <1>1 DEF SelectPoolGroup, Selected, Selection, Selecting

\* The group of a lookup that finds some.
LEMMA GroupIsRanged ==
    ASSUME NEW pool, Indexed(pool), NEW count \in Nat \ {0}, pool # <<>>
    PROVE  IsRangedGroup(SelectPoolGroup(pool, count), pool, count)
  <1>g. PICK g : g = SelectPoolGroup(pool, count)
    OBVIOUS
  <1>c. PICK c : c = Candidates(pool, count)
    OBVIOUS
  <1>n. PICK n : n = Len(pool)
    OBVIOUS
  <1>w. PICK width : width = IF n < TopK(count) THEN n ELSE TopK(count)
    OBVIOUS
  <1>r. PICK range : range = {i \in DOMAIN pool :
                                Cardinality({k \in DOMAIN pool : Nearer(pool, k, i)}) < TopK(count)}
    OBVIOUS
  <1>m. PICK members : members = {pool[i] : i \in range}
    OBVIOUS
  <1>0. /\ width \in Nat /\ Len(c) = width /\ DOMAIN c = 1 .. width /\ c \in Seq(Entries)
        /\ \A r, s \in 1 .. width : c[r] = c[s] => r = s
        /\ Cardinality(range) = width
        /\ members = {c[r] : r \in 1 .. width}
        /\ \A r \in 1 .. width : c[1].distance <= c[r].distance
    <2>1. Ranging(c, pool, count)
      BY CandidatesRange, <1>c
    <2>. QED  BY ONLY <2>1, <1>m, <1>n, <1>r, <1>w DEF Ranging
  <1>1. n \in Nat \ {0} /\ TopK(count) \in Nat /\ TopK(count) > count /\ width \in Nat \ {0}
    <2>1. n \in Nat \ {0}
      BY <1>n, EmptySeq DEF Indexed
    <2>. QED  BY <1>w, <2>1 DEF TopK
  <1>. DEFINE Gap(entry, others) == Min({Separation(entry, o) : o \in others})
  <1>b. PICK before : before = ToSet(SubSeq(g, 1, Len(g) - 1))
    OBVIOUS
  <1>2. ASSUME GroupOf(g, n, count, members, before, width) PROVE IsRangedGroup(g, pool, count)
    <2>1. Cardinality(range) = width
      BY <1>0
    <2>. HIDE DEF Gap
    <2>. QED  BY ONLY <1>2, <2>1, <1>b, <1>m, <1>n, <1>r DEF IsRangedGroup, GroupOf
  <1>. SUFFICES GroupOf(g, n, count, members, before, width)
    BY <1>2, <1>g
  <1>3. CASE width <= count
    <2>1. g = c
      <3>1. Len(c) <= count
        BY <1>0, <1>3
      <3>2. SelectPoolGroup(pool, count) = IF Len(c) <= count THEN c ELSE Selected(c, count)
        BY <1>c, GroupOfCandidates
      <3>. QED  BY ONLY <1>g, <3>1, <3>2
    <2>2. n = width /\ Len(g) = width
      BY <1>0, <1>1, <1>3, <1>w, <2>1
    <2>3. Cardinality(ToSet(c)) = Len(c)
      BY <1>0, Distinct
    <2>4. ToSet(c) = members
      BY <1>0 DEF ToSet
    <2>. QED  BY <1>0, <1>1, <1>3, <2>1, <2>2, <2>3, <2>4 DEF GroupOf
  <1>4. CASE count < width
    <2>f. PICK f : f = Selection(c, count)
      OBVIOUS
    <2>1. Selecting(f, c, count)
      BY <2>f, SelectionExists DEF Selection
    <2>2. /\ \A k \in 1 .. count : Sampled(f[k], c, k)
          /\ \A k \in 2 .. count : f[k] = Append(f[k - 1], Farthest(c, f[k - 1]))
      BY <1>0, <1>4, <2>1, SelectionSamples
    <2>s. PICK s : s = f[count]
      OBVIOUS
    <2>3. g = [k \in 1 .. count |-> c[s[k]]]
      <3>1. ~(Len(c) <= count)
        BY <1>0, <1>4
      <3>2. SelectPoolGroup(pool, count) = IF Len(c) <= count THEN c ELSE Selected(c, count)
        BY <1>c, GroupOfCandidates
      <3>. QED  BY ONLY <1>g, <2>f, <2>s, <3>1, <3>2 DEF Selected
    <2>4. /\ \A k \in 1 .. count : s[k] \in 1 .. width
          /\ s[1] = 1 /\ \A i, k \in 1 .. count : s[i] = s[k] => i = k
          /\ Len(s) = count /\ s \in Seq(1 .. width)
      <3>1. Sampled(s, c, count)
        BY <2>2, <2>s
      <3>. QED  BY <1>0, <3>1 DEF Sampled
    <2>5. g \in Seq(Entries) /\ Len(g) = count /\ DOMAIN g = 1 .. count /\ \A k \in 1 .. count : g[k] = c[s[k]]
      <3>1. \A r \in 1 .. width : c[r] \in Entries
        BY <1>0
      <3>2. g \in [1 .. count -> Entries]
        BY <2>3, <2>4, <3>1
      <3>. QED  BY <2>3, <3>2
    <2>6. Cardinality(ToSet(g)) = Len(g)
      <3>1. \A i, k \in DOMAIN g : g[i] = g[k] => i = k
        BY <1>0, <2>4, <2>5
      <3>. QED  BY <2>5, <3>1, Distinct
    <2>7. ToSet(g) = {c[s[k]] : k \in 1 .. count} /\ ToSet(g) \subseteq members
      <3>1. ToSet(g) = {c[s[k]] : k \in 1 .. count}
        BY <2>5 DEF ToSet
      <3>. QED  BY <1>0, <2>4, <3>1
    <2>8. \A m \in members : g[1].distance <= m.distance
      <3>1. g[1] = c[1]
        BY <2>4, <2>5
      <3>. QED  BY <1>0, <3>1
    <2>9. n >= count
      BY <1>1, <1>4, <1>w
    <2>10. ASSUME count > 1, NEW m \in members \ ToSet(g) PROVE Gap(m, before) <= Gap(g[count], before)
      <3>p. PICK p : p = f[count - 1]
        OBVIOUS
      <3>x. PICK x : x = Farthest(c, p)
        OBVIOUS
      <3>1. count \in 2 .. count /\ count - 1 \in 1 .. count /\ count - 1 \in Nat \ {0}
        BY <2>10
      <3>2. s = Append(p, x) /\ p \in Seq(1 .. width) /\ Len(p) = count - 1
        <4>1. Sampled(p, c, count - 1)
          BY <2>2, <3>1, <3>p
        <4>. QED  BY <1>0, <2>2, <2>s, <3>1, <3>p, <3>x, <4>1 DEF Sampled
      <3>3. s[count] = x /\ \A k \in 1 .. (count - 1) : s[k] = p[k]
        BY <3>1, <3>2
      <3>4. PICK r \in 1 .. width : m = c[r]
        BY <1>0
      <3>5. \A y \in ToSet(p) : \E k \in 1 .. count : y = s[k]
        <4>1. \A y \in ToSet(p) : \E k \in 1 .. (count - 1) : y = p[k]
          BY <3>2 DEF ToSet
        <4>. QED  BY <3>1, <3>3, <4>1
      <3>6. r \in DOMAIN c \ ToSet(p)
        <4>1. \A k \in 1 .. count : r # s[k]
          BY <2>7, <2>10, <3>4
        <4>. QED  BY <1>0, <3>5, <4>1
      <3>7. Gaps(c, p)[r] <= Gaps(c, p)[x] /\ x \in DOMAIN c
        <4>1. p # <<>>
          BY <3>1, <3>2
        <4>2. p \in Seq(DOMAIN c)
          BY <1>0, <3>2
        <4>3. PICK rest : rest = DOMAIN c \ ToSet(p)
          OBVIOUS
        <4>4. c \in Seq(Entries) /\ r \in rest
          BY <1>0, <3>6, <4>3
        <4>5. x \in rest /\ \A k \in rest : Gaps(c, p)[k] <= Gaps(c, p)[x]
          BY ONLY <3>x, <4>1, <4>2, <4>3, <4>4, FarthestIsWidest
        <4>. QED  BY <4>3, <4>4, <4>5
      <3>8. before = {c[y] : y \in ToSet(p)}
        <4>q. PICK q : q = SubSeq(g, 1, count - 1)
          OBVIOUS
        <4>1. Len(q) = count - 1 /\ DOMAIN q = 1 .. (count - 1) /\ \A k \in 1 .. (count - 1) : q[k] = g[k]
          BY <2>5, <3>1, <4>q
        <4>2. \A k \in 1 .. (count - 1) : k \in 1 .. count
          BY <3>1
        <4>3. \A k \in 1 .. (count - 1) : q[k] = c[p[k]]
          BY <2>5, <3>3, <4>1, <4>2
        <4>4. ToSet(q) = {c[p[k]] : k \in 1 .. (count - 1)}
          BY <4>1, <4>3 DEF ToSet
        <4>5. ToSet(p) = {p[k] : k \in 1 .. (count - 1)}
          BY <3>1, <3>2 DEF ToSet
        <4>6. before = ToSet(q)
          BY <1>b, <2>5, <4>q
        <4>. QED  BY <4>4, <4>5, <4>6
      <3>9. ASSUME NEW y \in DOMAIN c PROVE Gap(c[y], before) = Gaps(c, p)[y]
        <4>1. {Separation(c[y], o) : o \in before} = {Separation(c[y], c[z]) : z \in ToSet(p)}
          BY <3>8
        <4>. QED  BY <4>1 DEF Gaps
      <3>10. Gap(m, before) = Gaps(c, p)[r] /\ Gap(g[count], before) = Gaps(c, p)[x]
        <4>1. g[count] = c[x] /\ m = c[r] /\ r \in DOMAIN c
          BY <2>5, <3>1, <3>3, <3>4, <3>6
        <4>. HIDE DEF Gap
        <4>. QED  BY <3>7, <3>9, <4>1
      <3>. HIDE DEF Gap
      <3>. QED  BY <3>7, <3>10
    <2>11. Len(g) = IF n < count THEN n ELSE count
      BY <1>1, <2>5, <2>9
    <2>. QED  BY <2>5, <2>6, <2>7, <2>8, <2>10, <2>11 DEF GroupOf
  <1>. QED  BY <1>0, <1>3, <1>4

LEMMA IndexAdopts ==
    ASSUME RuntimeInv, NEW c \in DOMAIN calls, FetchIndex(c), calls'[c].step = "adopt"
    PROVE  IsRangedGroup(calls'[c].chosen, cache', calls[c].count)
  <1>p. PICK call : call = calls[c]
    OBVIOUS
  <1>0. CallType(call) /\ call.step = "index" /\ call.count \in Nat \ {0}
    BY <1>p DEF FetchIndex, Serving, RuntimeInv, CallSound, CallInv, CallType
  <1>. DEFINE Adopting(pool) ==
                LET group == SelectPoolGroup(pool, call.count) IN
                Becomes(c, IF group = <<>> THEN Answered(call, "ok")
                           ELSE [call EXCEPT !.step = "adopt", !.chosen = group])
  <1>1. \/ \E pool \in Published : cache' = pool /\ Adopting(pool)
        \/ Becomes(c, Answered(call, "error"))
    <2>1. cache \in Published \cup {Missing}
      BY DEF RuntimeInv
    <2>2. \/ cache # Missing /\ Adopting(cache) /\ UNCHANGED cache
          \/ \E pool \in Published : cache' = pool /\ Adopting(pool)
          \/ Becomes(c, Answered(call, "error"))
      BY <1>p DEF FetchIndex
    <2>. HIDE DEF Adopting
    <2>. QED  BY <2>1, <2>2
  <1>2. ASSUME NEW result PROVE ~Becomes(c, Answered(call, result))
    <2>1. Answered(call, result).step = "done"
      BY <1>0 DEF Answered, CallType, CallFields
    <2>. QED  BY <2>1 DEF Becomes
  <1>3. PICK pool \in Published : cache' = pool /\ Adopting(pool)
    BY <1>1, <1>2
  <1>g. PICK group : group = SelectPoolGroup(pool, call.count)
    OBVIOUS
  <1>4. group # <<>> /\ Becomes(c, [call EXCEPT !.step = "adopt", !.chosen = group])
    BY <1>2, <1>3, <1>g
  <1>5. calls'[c].chosen = group
    <2>1. calls'[c] = [call EXCEPT !.step = "adopt", !.chosen = group]
      BY <1>4 DEF Becomes
    <2>. QED  BY <1>0, <2>1 DEF CallType, CallFields
  <1>6. pool # <<>>
    BY <1>4, <1>g DEF SelectPoolGroup
  <1>7. IsRangedGroup(group, pool, call.count)
    BY <1>0, <1>6, <1>g, PublishedIndexes, GroupIsRanged
  <1>. QED  BY <1>3, <1>5, <1>7, <1>p

\* A step of the runtime for a request changes what it knows of no other.
LEMMA ServeOne ==
    ASSUME NEW d \in DOMAIN calls, Serve(d)
    PROVE  \A c \in DOMAIN calls \ {d} : calls'[c] = calls[c]
  <1>1. ASSUME NEW call, Becomes(d, call) PROVE \A c \in DOMAIN calls \ {d} : calls'[c] = calls[c]
    BY <1>1 DEF Becomes
  <1>2. CASE People(d)
    BY <1>1, <1>2 DEF People
  <1>3. CASE Complete(d)
    BY <1>1, <1>3 DEF Complete, Compiled, Uncompiled
  <1>4. CASE Save(d)
    BY <1>1, <1>4 DEF Save
  <1>5. CASE Patch(d)
    BY <1>1, <1>5 DEF Patch
  <1>6. CASE List(d)
    BY <1>1, <1>6 DEF List
  <1>7. CASE FetchIndex(d)
    BY <1>1, <1>7 DEF FetchIndex
  <1>8. CASE Adopt(d)
    BY <1>1, <1>8 DEF Adopt
  <1>. QED  BY <1>2, <1>3, <1>4, <1>5, <1>6, <1>7, <1>8 DEF Serve

\* A request nothing has been done for.
Fresh(call) ==
    /\ DOMAIN call = CallFields /\ call.step = call.op /\ call.result = "none"
    /\ call.people = 0 /\ call.saved = <<>>

LEMMA FreshCalls ==
    /\ \A op, w, n : Fresh(Call(op, w, n)) /\ Call(op, w, n).op = op /\ Call(op, w, n).count = n
    /\ \A callback : Fresh(Compilation(callback)) /\ Compilation(callback).op = "compile"
    /\ \A callback, n : /\ Fresh(Generation(callback, n))
                        /\ Generation(callback, n).op = "generate" /\ Generation(callback, n).count = n
    /\ \A w, p : Fresh([Call("patch", w, 1) EXCEPT !.profile = p])
  BY DEF Fresh, Call, Compilation, Generation, CallFields

LEMMA FirstRequestAsks ==
    ASSUME NEW h, NEW callback, callback.method \in Methods, FirstRequest(h, callback)
    PROVE  \E call : Fresh(call) /\ Ask(call)
  BY FreshCalls DEF FirstRequest, Methods, Requests

\* What happens to the requests: one arrives, one goes on, or all are lost.
LEMMA CallsChange ==
    ASSUME BenchInv, Next
    PROVE  \/ calls' = calls
           \/ \E call : Fresh(call) /\ Ask(call)
           \/ \E c \in DOMAIN calls : Serve(c)
           \/ Restart
  <1>1. ASSUME NEW method \in Methods, NEW n, NEW allow, ClickApi(method, n, allow) PROVE \E call : Fresh(call) /\ Ask(call)
    <2>p. PICK next : next = [Begun("", ApiWorkspace) EXCEPT
                                !.method = method, !.count = n, !.allow = allow, !.tasks = 5]
      OBVIOUS
    <2>1. next.method = method
      BY <2>p DEF Begun
    <2>. QED  BY <1>1, <2>1, <2>p, FirstRequestAsks DEF ClickApi
  <1>2. CASE User
    <2>1. \/ \E method \in Methods : \E n, allow : ClickApi(method, n, allow)
          \/ \E call : Fresh(call) /\ Ask(call)
          \/ UNCHANGED runtimeVars
      BY <1>2, FreshCalls DEF User, Methods, ClickGenerate, ClickApiForNone, Requests, ClickLoad, ClickSave,
         ClickStart, Tweak, RefreshPersonas, ChoosePersona, SaveTasks, SelectWorkspace
    <2>. QED  BY <1>1, <2>1 DEF runtimeVars
  <1>3. CASE WriteTasks
    <2>p. PICK callback : callback = busy["generate"]
      OBVIOUS
    <2>1. callback.method \in Methods /\ CallbackType(callback)
      BY <1>3, <2>p, GeneratorInv DEF WriteTasks, At, CallbackInv
    <2>2. \A n : [callback EXCEPT !.tasks = n, !.attempt = 0].method = callback.method
      BY <2>1 DEF CallbackType, CallbackFields
    <2>3. \/ \E n : FirstRequest("generate", [callback EXCEPT !.tasks = n, !.attempt = 0])
          \/ UNCHANGED runtimeVars
      BY <1>3, <2>p DEF WriteTasks
    <2>. QED  BY <2>1, <2>2, <2>3, FirstRequestAsks DEF runtimeVars
  <1>4. CASE GenerateHears \/ Judge
    <2>1. (\E call : Fresh(call) /\ Ask(call)) \/ UNCHANGED runtimeVars
      BY <1>4, FreshCalls DEF GenerateHears, Judge, ExampleHeard, Request, Requests, Generated, Fails
    <2>. QED  BY <2>1 DEF runtimeVars
  <1>5. CASE Progress \/ Choose \/ LoadHears \/ LoadPersona \/ SaveHears \/ ApiHears
    <2>1. (\E call : Fresh(call) /\ Ask(call)) \/ UNCHANGED runtimeVars
      BY <1>5, FreshCalls DEF Progress, Choose, LoadHears, LoadPersona, SaveHears, ApiHears, Requests
    <2>. QED  BY <2>1 DEF runtimeVars
  <1>6. CASE \E h \in {"start", "api"} : Plane(h)
    BY <1>6 DEF Plane, CreateSession, Snapshot, CreateJob, JobSeen, Deadline, PlaneFails, runtimeVars
  <1>7. CASE (\E h \in Handlers : Timeout(h)) \/ (\E j \in DOMAIN jobs : JobEnds(j)) \/ Served
             \/ (Restart /\ UNCHANGED <<tabVars, busy, planeVars, clicks>>)
    BY <1>7 DEF Timeout, JobEnds, Served, runtimeVars
  <1>. QED  BY <1>2, <1>3, <1>4, <1>5, <1>6, <1>7 DEF Next, Tab

\* Only fetch_index takes a lookup to its adoptions.
LEMMA OnlyIndexAdopts ==
    ASSUME BenchInv, Next, NEW c \in DOMAIN calls, calls[c].step = "index", calls'[c].step = "adopt"
    PROVE  FetchIndex(c)
  <1>0. calls[c].step # calls'[c].step
    OBVIOUS
  <1>1. ASSUME NEW call, Ask(call) PROVE FALSE
    <2>1. calls'[c] = calls[c]
      BY <1>1, SequenceFacts DEF Ask, BenchInv, RuntimeInv
    <2>. QED  BY <1>0, <2>1
  <1>2. ASSUME NEW d \in DOMAIN calls, Serve(d) PROVE FetchIndex(c)
    <2>1. d = c
      BY <1>0, <1>2, ServeOne
    <2>. QED  BY <1>2, <2>1 DEF Serve, Serving, People, Complete, Save, Patch, List, Adopt
  <1>3. CASE Restart
    <2>1. CallType(calls[c])
      BY DEF BenchInv, RuntimeInv, CallSound, CallInv
    <2>2. Answered(calls[c], "error").step = "done"
      BY <2>1 DEF Answered, CallType, CallFields
    <2>3. calls'[c] \in {calls[c], Answered(calls[c], "error")}
      BY <1>3 DEF Restart
    <2>. QED  BY <1>0, <2>2, <2>3
  <1>4. calls' # calls
    BY <1>0
  <1>. QED  BY <1>1, <1>2, <1>3, <1>4, CallsChange

\* Whatever the pool lists, what a lookup goes on to adopt is as many entries
\* as can be, none twice, out of the range of the nearest, the nearest first,
\* and no candidate passed over lies farther from those picked before than the
\* one picked last (select_pool_group, pool_lookup).
THEOREM AdoptsRangedGroupAlways == Init /\ [][Next]_benchVars => AdoptsRangedGroup
  <1>. DEFINE Adopts == \A c \in DOMAIN calls : calls[c].step = "index" /\ calls'[c].step = "adopt" =>
                          IsRangedGroup(calls'[c].chosen, cache', calls[c].count)
  <1>1. BenchInv /\ [Next]_benchVars => [Adopts]_calls
    <2>. SUFFICES ASSUME BenchInv, [Next]_benchVars, calls' # calls,
                         NEW c \in DOMAIN calls, calls[c].step = "index", calls'[c].step = "adopt"
                  PROVE  IsRangedGroup(calls'[c].chosen, cache', calls[c].count)
      OBVIOUS
    <2>1. Next
      BY DEF benchVars, runtimeVars
    <2>2. FetchIndex(c)
      BY <2>1, OnlyIndexAdopts
    <2>. QED  BY <2>2, IndexAdopts DEF BenchInv
  <1>. QED  BY <1>1, BenchInvAlways, PTL DEF AdoptsRangedGroup

-----------------------------------------------------------------------------
(* How many profiles a request stores.                                     *)

\* No profile is listed twice.
Once(profiles) == \A i, k \in DOMAIN profiles : profiles[i].id = profiles[k].id => i = k

\* What a request has stored and what it is about to come to no more than it
\* asked for, and, once it is answered, to as many as its people were.
Counted(call) ==
    /\ call.op \in New => Once(call.saved)
    /\ call.op \in {"generate", "compile"} =>
         /\ call.people <= call.count
         /\ call.step = "save" => Len(call.saved) + Len(call.out) = call.people
         /\ call.result = "ok" => Len(call.saved) = call.people
    /\ call.op = "lookup" =>
         /\ call.step = "index" => call.saved = <<>>
         /\ call.step = "adopt" =>
              /\ Sequence(call.chosen) /\ call.chosen # <<>>
              /\ Len(call.saved) + Len(call.chosen) <= call.count
         /\ call.step = "done" => Len(call.saved) <= call.count

\* What a request keeps as it goes on.
Continues(call, next) ==
    /\ next.op = call.op /\ next.count = call.count
    /\ call.op \in New => Ids(call.saved) \subseteq Ids(next.saved)

LEMMA OnceFacts ==
    /\ Once(<<>>)
    /\ \A saved \in Seq(ProfileType), p \in ProfileType :
         Once(saved) /\ p.id \notin Ids(saved) =>
           Once(Append(saved, p)) /\ Len(Append(saved, p)) = Len(saved) + 1
  <1>1. ASSUME NEW saved \in Seq(ProfileType), NEW p \in ProfileType, Once(saved), p.id \notin Ids(saved)
        PROVE  Once(Append(saved, p)) /\ Len(Append(saved, p)) = Len(saved) + 1
    <2>t. PICK t : t = Append(saved, p)
      OBVIOUS
    <2>1. Sequence(saved) /\ \A i \in DOMAIN saved : saved[i].id \in Ids(saved)
      BY DEF Sequence, Ids, ToSet
    <2>2. /\ DOMAIN t = DOMAIN saved \cup {Len(saved) + 1} /\ Len(t) = Len(saved) + 1
          /\ \A i \in DOMAIN saved : t[i] = saved[i]
          /\ t[Len(saved) + 1] = p
      BY <2>1, <2>t, SequenceFacts
    <2>3. \A i, k \in DOMAIN t : t[i].id = t[k].id => i = k
      BY <1>1, <2>1, <2>2 DEF Once
    <2>. QED  BY <2>2, <2>3, <2>t DEF Once
  <1>2. Once(<<>>)
    BY DEF Once
  <1>. QED  BY <1>1, <1>2

LEMMA TailOf ==
    ASSUME NEW s, Sequence(s), s # <<>>
    PROVE  Sequence(Tail(s)) /\ Len(Tail(s)) = Len(s) - 1 /\ Len(s) \in Nat \ {0}
  <1>1. s \in Seq(ToSet(s))
    BY DEF Sequence
  <1>2. Len(Tail(s)) = Len(s) - 1 /\ Len(s) \in Nat \ {0} /\ Tail(s) \in Seq(ToSet(s))
    BY <1>1
  <1>3. Tail(s) \in Seq(ToSet(Tail(s)))
    <2>t. PICK t : t = Tail(s)
      OBVIOUS
    <2>1. t \in Seq(ToSet(s))
      BY <1>2, <2>t
    <2>2. \A i \in 1 .. Len(t) : t[i] \in ToSet(t)
      BY <2>1 DEF ToSet
    <2>3. t \in Seq(ToSet(t))
      BY <2>1, <2>2
    <2>. QED  BY <2>3, <2>t
  <1>. QED  BY <1>2, <1>3 DEF Sequence

LEMMA AnsweredFields ==
    ASSUME NEW call, CallType(call), NEW result
    PROVE  /\ Answered(call, result).step = "done" /\ Answered(call, result).result = result
           /\ \A f \in {"op", "count", "people", "saved", "out", "chosen"} : Answered(call, result)[f] = call[f]
  BY DEF Answered, CallType, CallFields

\* A request ends in an error with what it has stored.
LEMMA ErrorCounted ==
    ASSUME NEW call, CallInv(call), Counted(call)
    PROVE  Counted(Answered(call, "error")) /\ Continues(call, Answered(call, "error"))
  <1>r. PICK r : r = Answered(call, "error")
    OBVIOUS
  <1>0. CallType(call) /\ CallProgress(call)
    BY DEF CallInv
  <1>1. /\ r.step = "done" /\ r.result = "error"
        /\ \A f \in {"op", "count", "people", "saved", "out", "chosen"} : r[f] = call[f]
    BY <1>0, <1>r, AnsweredFields
  <1>2. call.op = "lookup" => Len(call.saved) <= call.count
    <2>1. /\ call.op = "lookup" => call.step \in {"index", "adopt", "done"}
          /\ Len(call.saved) \in Nat /\ call.count \in Nat
      BY <1>0 DEF CallType, CallProgress
    <2>2. call.op = "lookup" /\ call.step = "adopt" => Len(call.chosen) \in Nat
      BY SequenceFacts DEF Counted
    <2>. SUFFICES ASSUME call.op = "lookup" PROVE Len(call.saved) <= call.count
      OBVIOUS
    <2>3. CASE call.step = "index"
      <3>1. Len(<<>>) = 0
        OBVIOUS
      <3>2. call.saved = <<>>
        BY <2>3 DEF Counted
      <3>. QED  BY ONLY <2>1, <3>1, <3>2
    <2>4. CASE call.step = "adopt"
      <3>p. PICK saved, chosen, count : saved = Len(call.saved) /\ chosen = Len(call.chosen) /\ count = call.count
        OBVIOUS
      <3>1. saved + chosen <= count
        BY <2>4, <3>p DEF Counted
      <3>2. saved \in Nat /\ chosen \in Nat /\ count \in Nat
        BY <2>1, <2>2, <2>4, <3>p
      <3>3. saved <= count
        BY ONLY <3>1, <3>2
      <3>. QED  BY <3>3, <3>p
    <2>5. CASE call.step = "done"
      BY <2>5 DEF Counted
    <2>. QED  BY <2>1, <2>3, <2>4, <2>5
  <1>3. Counted(r) /\ Continues(call, r)
    BY <1>1, <1>2 DEF Counted, Continues
  <1>. QED  BY <1>3, <1>r

\* A request that goes on where it is, asks again or waits.
LEMMA SameCounted ==
    ASSUME NEW call, Counted(call), NEW next,
           \A f \in {"op", "count", "people", "saved", "out", "chosen", "step", "result"} : next[f] = call[f]
    PROVE  Counted(next) /\ Continues(call, next)
  BY DEF Counted, Continues

\* A request whose people are to be compiled, or are to be had.
LEMMA PeopleCounted ==
    ASSUME NEW call, call.op \in {"generate", "compile"}, call.saved = <<>>, NEW next,
           \A f \in {"op", "count", "saved"} : next[f] = call[f],
           next.step # "save", next.result # "ok", next.people <= next.count
    PROVE  Counted(next) /\ Continues(call, next)
  BY OnceFacts DEF Counted, Continues

LEMMA PeopleCounts ==
    ASSUME RuntimeInv, NEW c \in DOMAIN calls, Counted(calls[c]), People(c)
    PROVE  Counted(calls'[c]) /\ Continues(calls[c], calls'[c])
  <1>p. PICK call : call = calls[c]
    OBVIOUS
  <1>0. CallInv(call) /\ call.step = "people" /\ Counted(call)
    BY <1>p DEF People, Serving, RuntimeInv, CallSound
  <1>1. /\ CallType(call) /\ call.op = "generate" /\ call.saved = <<>> /\ call.result = "none"
        /\ call.people \in Nat /\ call.count \in Nat \ {0} /\ call.people <= call.count
    BY <1>0 DEF CallInv, CallType, CallProgress, Counted
  <1>n. PICK n, best, tried :
          /\ n \in 0 .. call.count
          /\ best = IF n > call.people THEN n ELSE call.people
          /\ tried = [call EXCEPT !.attempt = @ + 1, !.people = best]
          /\ Becomes(c,
                IF best < call.count /\ tried.attempt < BatchAttempts THEN tried
                ELSE IF best > 0 THEN Compiling(tried, best, 0)
                ELSE IF call.allow THEN Offline(tried, TRUE)
                ELSE Answered(tried, "error"))
    BY <1>p DEF People
  <1>2. best \in Nat /\ best <= call.count
    BY <1>1, <1>n
  <1>3. /\ DOMAIN tried = CallFields /\ tried.people = best
        /\ \A f \in CallFields \ {"attempt", "people"} : tried[f] = call[f]
    BY <1>1, <1>n DEF CallType, CallFields
  <1>4. PICK next : /\ calls'[c] = next
                    /\ next \in {tried, Compiling(tried, best, 0), Offline(tried, TRUE), Answered(tried, "error")}
    BY <1>n DEF Becomes
  <1>5. /\ \A f \in {"op", "count", "saved"} : next[f] = call[f]
        /\ next.step # "save" /\ next.result # "ok" /\ next.people <= next.count
    <2>1. CASE next = tried
      BY <1>0, <1>1, <1>2, <1>3, <2>1 DEF CallFields
    <2>2. CASE next = Compiling(tried, best, 0)
      <3>1. /\ next.step = "compile" /\ next.people = best + 0
            /\ \A f \in {"op", "count", "saved", "result"} : next[f] = tried[f]
        BY <1>3, <2>2 DEF Compiling, CallFields
      <3>. QED  BY <1>1, <1>2, <1>3, <3>1 DEF CallFields
    <2>3. CASE next = Offline(tried, TRUE)
      <3>1. /\ next.step = "compile" /\ next.people = 1 + (tried.count - 1)
            /\ \A f \in {"op", "count", "saved", "result"} : next[f] = tried[f]
        BY <1>3, <2>3 DEF Offline, Compiling, CallFields
      <3>. QED  BY <1>1, <1>3, <3>1 DEF CallFields
    <2>4. CASE next = Answered(tried, "error")
      <3>1. /\ next.step = "done" /\ next.result = "error"
            /\ \A f \in {"op", "count", "saved", "people"} : next[f] = tried[f]
        BY <1>3, <2>4 DEF Answered, CallFields
      <3>. QED  BY <1>1, <1>2, <1>3, <3>1 DEF CallFields
    <2>. QED  BY <1>4, <2>1, <2>2, <2>3, <2>4
  <1>. QED  BY <1>1, <1>4, <1>5, <1>p, PeopleCounted

LEMMA CompleteCounts ==
    ASSUME RuntimeInv, NEW c \in DOMAIN calls, Counted(calls[c]), Complete(c)
    PROVE  Counted(calls'[c]) /\ Continues(calls[c], calls'[c])
  <1>p. PICK call : call = calls[c]
    OBVIOUS
  <1>0. CallInv(call) /\ call.step = "compile" /\ Counted(call)
    BY <1>p DEF Complete, Serving, RuntimeInv, CallSound
  <1>1. /\ CallType(call) /\ call.op \in {"generate", "compile"} /\ call.saved = <<>> /\ call.result = "none"
        /\ call.people \in Nat /\ call.count \in Nat \ {0} /\ call.people <= call.count
    BY <1>0 DEF CallInv, CallType, CallProgress, Counted
  <1>2. ASSUME Uncompiled(c) PROVE Counted(calls'[c]) /\ Continues(call, calls'[c])
    <2>1. PICK next : /\ calls'[c] = next
                      /\ next \in Retried(call) \cup {Answered([call EXCEPT !.bad = TRUE], "error")}
      BY <1>2, <1>p DEF Uncompiled, Becomes
    <2>2. CASE next \in Retried(call)
      <3>1. next = [call EXCEPT !.round = @ + 1]
        BY <2>2 DEF Retried
      <3>2. \A f \in {"op", "count", "people", "saved", "out", "chosen", "step", "result"} : next[f] = call[f]
        BY <1>1, <3>1 DEF CallType, CallFields
      <3>. QED  BY <1>0, <2>1, <3>2, SameCounted
    <2>3. CASE next = Answered([call EXCEPT !.bad = TRUE], "error")
      <3>1. /\ next.step = "done" /\ next.result = "error"
            /\ \A f \in {"op", "count", "saved", "people"} : next[f] = call[f]
        BY <1>1, <2>3 DEF Answered, CallType, CallFields
      <3>. QED  BY <1>1, <2>1, <3>1, PeopleCounted
    <2>. QED  BY <2>1, <2>2, <2>3
  <1>3. ASSUME Compiled(c), call.queued > 0 PROVE Counted(calls'[c]) /\ Continues(call, calls'[c])
    <2>1. calls'[c] = [call EXCEPT !.queued = @ - 1, !.round = 1]
      BY <1>3, <1>p DEF Compiled, Becomes
    <2>2. \A f \in {"op", "count", "people", "saved", "out", "chosen", "step", "result"} : calls'[c][f] = call[f]
      BY <1>1, <2>1 DEF CallType, CallFields
    <2>. QED  BY <1>0, <2>2, SameCounted
  <1>4. ASSUME Compiled(c), ~(call.queued > 0) PROVE Counted(calls'[c]) /\ Continues(call, calls'[c])
    <2>p. PICK out, next : out = [n \in 1 .. call.people |-> minted + n] /\ next = calls'[c]
      OBVIOUS
    <2>1. next = [call EXCEPT !.step = "save", !.out = out]
      BY <1>4, <1>p, <2>p DEF Compiled, Becomes
    <2>2. /\ next.step = "save" /\ next.out = out
          /\ \A f \in {"op", "count", "people", "saved", "result"} : next[f] = call[f]
      BY <1>1, <2>1 DEF CallType, CallFields
    <2>3. Len(out) = call.people
      BY <1>1, <2>p
    <2>4. Len(next.saved) + Len(next.out) = next.people
      <3>1. Len(<<>>) = 0
        OBVIOUS
      <3>. QED  BY <1>1, <2>2, <2>3, <3>1
    <2>5. Counted(next) /\ Continues(call, next)
      BY <1>1, <2>2, <2>4, OnceFacts DEF Counted, Continues
    <2>. QED  BY <2>5, <2>p
  <1>. QED  BY <1>2, <1>3, <1>4, <1>p DEF Complete

LEMMA SaveCounts ==
    ASSUME RuntimeInv, NEW c \in DOMAIN calls, Counted(calls[c]), Save(c)
    PROVE  Counted(calls'[c]) /\ Continues(calls[c], calls'[c])
  <1>p. PICK call, head : call = calls[c] /\ head = Head(call.out)
    OBVIOUS
  <1>0. CallInv(call) /\ CallSound(c) /\ call.step = "save" /\ Counted(call)
    BY <1>p DEF Save, Serving, RuntimeInv, CallSound
  <1>1. CASE Becomes(c, Answered(call, "error"))
    <2>1. calls'[c] = Answered(call, "error")
      BY <1>1 DEF Becomes
    <2>. QED  BY <1>0, <1>p, <2>1, ErrorCounted
  <1>2. ASSUME NEW one,
               one = [call EXCEPT !.out = Tail(@), !.saved = Append(@, Profile(head, call.profile.rev))],
               Becomes(c, IF one.out = <<>> THEN Answered(one, "ok") ELSE one)
        PROVE  Counted(calls'[c]) /\ Continues(call, calls'[c])
    <2>0. /\ call.out \in Seq(Nat) /\ call.saved \in Seq(ProfileType) /\ call.out # <<>>
          /\ call.profile.rev \in Nat /\ call.result = "none"
          /\ call.op \in {"generate", "compile", "patch"} /\ DOMAIN call = CallFields
          /\ call.people \in Nat /\ call.count \in Nat
      BY <1>0 DEF CallInv, CallType, CallProgress, ProfileType
    <2>1. /\ head \in Nat /\ head \in ToSet(call.out)
          /\ Tail(call.out) \in Seq(Nat) /\ Len(Tail(call.out)) = Len(call.out) - 1
          /\ Len(call.out) \in Nat \ {0} /\ Len(call.saved) \in Nat
      BY <1>p, <2>0, HeadAndTail
    <2>2. PICK p : p = Profile(head, call.profile.rev) /\ p \in ProfileType /\ p.id = head
      <3>1. Profile(head, call.profile.rev) \in ProfileType /\ Profile(head, call.profile.rev).id = head
        BY <2>0, <2>1 DEF Profile, ProfileType
      <3>. QED  BY <3>1
    <2>3. PICK saved, out : saved = Append(call.saved, p) /\ out = Tail(call.out)
      OBVIOUS
    <2>4. /\ Ids(saved) = Ids(call.saved) \cup {head}
          /\ Len(saved) = Len(call.saved) + 1 /\ Len(out) = Len(call.out) - 1
          /\ out = <<>> => Len(out) = 0
      <3>1. Ids(saved) = Ids(call.saved) \cup {head}
        BY <2>0, <2>2, <2>3, SavedAnother
      <3>2. Len(saved) = Len(call.saved) + 1
        BY ONLY <2>0, <2>2, <2>3
      <3>3. Len(<<>>) = 0
        OBVIOUS
      <3>. QED  BY <2>1, <2>3, <3>1, <3>2, <3>3
    <2>5. call.op \in New => Once(saved)
      <3>1. call.op \in New => head \notin Ids(call.saved)
        BY <1>0, <1>p, <2>1 DEF CallSound, OwnIds
      <3>. QED  BY <1>0, <2>0, <2>2, <2>3, <3>1, OnceFacts DEF Counted
    <2>6. /\ DOMAIN one = CallFields /\ one.out = out /\ one.saved = saved
          /\ \A f \in CallFields \ {"out", "saved"} : one[f] = call[f]
      BY <1>2, <2>0, <2>2, <2>3 DEF CallFields
    <2>7. PICK next : next = calls'[c]
      OBVIOUS
    <2>8. next = IF one.out = <<>> THEN Answered(one, "ok") ELSE one
      BY <1>2, <2>7 DEF Becomes
    <2>9. /\ next.saved = saved /\ next.out = out
          /\ \A f \in {"op", "count", "people"} : next[f] = call[f]
          /\ next.result = "ok" => out = <<>>
          /\ next.step \in {"save", "done"}
      <3>1. CASE one.out = <<>>
        BY <2>6, <2>8, <3>1 DEF Answered, CallFields
      <3>2. CASE one.out # <<>>
        BY <1>0, <2>0, <2>6, <2>8, <3>2 DEF CallFields
      <3>. QED  BY <3>1, <3>2
    <2>10. call.op \in {"generate", "compile"} =>
             /\ Len(saved) + Len(out) = call.people
             /\ out = <<>> => Len(saved) = call.people
      <3>p. PICK a, b, x, y : a = Len(call.saved) /\ b = Len(call.out) /\ x = Len(saved) /\ y = Len(out)
        OBVIOUS
      <3>1. call.op \in {"generate", "compile"} => a + b = call.people
        BY <1>0, <3>p DEF Counted
      <3>2. a \in Nat /\ b \in Nat \ {0} /\ x = a + 1 /\ y = b - 1 /\ (out = <<>> => y = 0)
        BY <2>1, <2>4, <3>p
      <3>3. x + y = a + b /\ (y = 0 => x = a + b)
        BY ONLY <3>2
      <3>. QED  BY <3>1, <3>2, <3>3, <3>p
    <2>11. Counted(next) /\ Continues(call, next)
      BY <1>0, <2>0, <2>4, <2>5, <2>9, <2>10 DEF Counted, Continues
    <2>. QED  BY <2>7, <2>11
  <1>. QED  BY <1>1, <1>2, <1>p DEF Save

LEMMA PatchAndListCount ==
    ASSUME RuntimeInv, NEW c \in DOMAIN calls, Patch(c) \/ List(c)
    PROVE  Counted(calls'[c]) /\ Continues(calls[c], calls'[c])
  <1>p. PICK call, next : call = calls[c] /\ next = calls'[c]
    OBVIOUS
  <1>0. CallInv(call) /\ call.step \in {"patch", "list"}
    BY <1>p DEF Patch, List, Serving, RuntimeInv, CallSound
  <1>1. CallType(call) /\ call.op \in {"patch", "list"}
    BY <1>0 DEF CallInv, CallProgress
  <1>2. next.op = call.op /\ next.count = call.count
    <2>1. CASE Patch(c)
      <3>1. \/ next = [call EXCEPT !.step = "save", !.out = <<call.profile.id>>]
            \/ next = Answered(call, "error")
        BY <1>p, <2>1 DEF Patch, Becomes
      <3>. QED  BY <1>1, <3>1 DEF Answered, CallType, CallFields
    <2>2. CASE List(c)
      <3>1. \E saved : next = [Answered(call, "ok") EXCEPT !.saved = saved]
        BY <1>p, <2>2 DEF List, Becomes
      <3>. QED  BY <1>1, <3>1 DEF Answered, CallType, CallFields
    <2>. QED  BY <2>1, <2>2
  <1>3. Counted(next) /\ Continues(call, next)
    BY <1>1, <1>2 DEF Counted, Continues, New
  <1>. QED  BY <1>3, <1>p

\* The group selected is no larger than what was asked for.
LEMMA GroupFits ==
    ASSUME NEW pool, Indexed(pool), NEW count \in Nat \ {0}
    PROVE  /\ Sequence(SelectPoolGroup(pool, count)) /\ Len(SelectPoolGroup(pool, count)) \in Nat
           /\ Len(SelectPoolGroup(pool, count)) <= count
  <1>c. PICK candidates : candidates = Candidates(pool, count)
    OBVIOUS
  <1>1. candidates \in Seq(Entries)
    BY <1>c, CandidatesRange DEF Ranging
  <1>f. PICK f : f = Selection(candidates, count)
    OBVIOUS
  <1>s. PICK g, group : /\ g = [n \in 1 .. count |-> candidates[f[count][n]]]
                        /\ group = SelectPoolGroup(pool, count)
    OBVIOUS
  <1>2. ~(count <= 0)
    OBVIOUS
  <1>g. /\ group = SelectPoolGroup(pool, count)
        /\ group = <<>> \/ (group = candidates /\ Len(candidates) <= count) \/ group = [n \in 1 .. count |-> g[n]]
    <2>1. CASE pool = <<>>
      BY <1>s, <2>1 DEF SelectPoolGroup
    <2>p. ASSUME pool # <<>>
          PROVE  group = IF Len(candidates) <= count THEN candidates
                         ELSE [n \in 1 .. count |-> candidates[f[count][n]]]
      <3>1. SelectPoolGroup(pool, count) =
              IF Len(candidates) <= count THEN candidates ELSE Selected(candidates, count)
        BY <2>p, <1>c, GroupOfCandidates
      <3>. QED  BY ONLY <1>f, <1>s, <3>1 DEF Selected
    <2>2. CASE pool # <<>> /\ Len(candidates) <= count
      BY <1>s, <2>2, <2>p
    <2>3. CASE pool # <<>> /\ ~(Len(candidates) <= count)
      <3>1. group = g
        BY ONLY <1>s, <2>3, <2>p
      <3>2. g = [n \in 1 .. count |-> g[n]]
        BY <1>s
      <3>. QED  BY <1>s, <3>1, <3>2
    <2>. QED  BY <2>1, <2>2, <2>3
  <1>3. CASE group = <<>>
    <2>1. Sequence(<<>>) /\ Len(<<>>) = 0
      BY DEF Sequence
    <2>. QED  BY <1>3, <1>g, <2>1
  <1>4. CASE group = candidates /\ Len(candidates) <= count
    <2>1. Sequence(candidates) /\ Len(candidates) \in Nat
      BY <1>1 DEF Sequence, ToSet
    <2>. QED  BY <1>4, <1>g, <2>1
  <1>5. CASE group = [n \in 1 .. count |-> g[n]]
    <2>. DEFINE S == {g[n] : n \in 1 .. count}
    <2>1. \A n \in 1 .. count : g[n] \in S
      OBVIOUS
    <2>2. S = ToSet(group)
      BY <1>5 DEF ToSet
    <2>. HIDE DEF S
    <2>3. group \in [1 .. count -> S]
      BY <1>5, <2>1
    <2>4. group \in Seq(S) /\ Len(group) = count
      BY <2>3
    <2>. QED  BY <1>g, <2>2, <2>4 DEF Sequence
  <1>. QED  BY <1>3, <1>4, <1>5, <1>g

LEMMA FetchIndexCounts ==
    ASSUME RuntimeInv, NEW c \in DOMAIN calls, Counted(calls[c]), FetchIndex(c)
    PROVE  Counted(calls'[c]) /\ Continues(calls[c], calls'[c])
  <1>p. PICK call, next : call = calls[c] /\ next = calls'[c]
    OBVIOUS
  <1>0. CallInv(call) /\ call.step = "index" /\ Counted(call)
    BY <1>p DEF FetchIndex, Serving, RuntimeInv, CallSound
  <1>1. CallType(call) /\ call.op = "lookup" /\ call.saved = <<>> /\ call.count \in Nat \ {0}
    BY <1>0 DEF CallInv, CallType, CallProgress, Counted
  <1>. DEFINE Adopting(pool) ==
                LET group == SelectPoolGroup(pool, call.count) IN
                Becomes(c, IF group = <<>> THEN Answered(call, "ok")
                           ELSE [call EXCEPT !.step = "adopt", !.chosen = group])
  <1>2. (\E pool \in Published : Adopting(pool)) \/ Becomes(c, Answered(call, "error"))
    <2>1. cache \in Published \cup {Missing}
      BY DEF RuntimeInv
    <2>2. \/ cache # Missing /\ Adopting(cache)
          \/ \E pool \in Published : Adopting(pool)
          \/ Becomes(c, Answered(call, "error"))
      BY <1>p DEF FetchIndex
    <2>. HIDE DEF Adopting
    <2>. QED  BY <2>1, <2>2
  <1>3. CASE Becomes(c, Answered(call, "error"))
    <2>1. next = Answered(call, "error")
      BY <1>3, <1>p DEF Becomes
    <2>. QED  BY <1>0, <1>p, <2>1, ErrorCounted
  <1>4. ASSUME NEW pool \in Published, Adopting(pool) PROVE Counted(next) /\ Continues(call, next)
    <2>g. PICK group : group = SelectPoolGroup(pool, call.count)
      OBVIOUS
    <2>1. Sequence(group) /\ Len(group) \in Nat /\ Len(group) <= call.count
      BY <1>1, <2>g, GroupFits, PublishedIndexes
    <2>2. next = IF group = <<>> THEN Answered(call, "ok")
                 ELSE [call EXCEPT !.step = "adopt", !.chosen = group]
      BY <1>4, <1>p, <2>g DEF Becomes
    <2>3. Len(<<>>) = 0 /\ 0 + Len(group) <= call.count /\ 0 <= call.count
      BY <1>1, <2>1
    <2>4. CASE group = <<>>
      <3>1. /\ next.step = "done"
            /\ \A f \in {"op", "count", "saved"} : next[f] = call[f]
        BY <1>1, <2>2, <2>4 DEF Answered, CallType, CallFields
      <3>. QED  BY <1>1, <2>3, <3>1, OnceFacts DEF Counted, Continues
    <2>5. CASE group # <<>>
      <3>1. /\ next.step = "adopt" /\ next.chosen = group
            /\ \A f \in {"op", "count", "saved"} : next[f] = call[f]
        BY <1>1, <2>2, <2>5 DEF CallType, CallFields
      <3>. QED  BY <1>1, <2>1, <2>3, <2>5, <3>1, OnceFacts DEF Counted, Continues
    <2>. QED  BY <2>4, <2>5
  <1>. QED  BY <1>2, <1>3, <1>4, <1>p

LEMMA AdoptCounts ==
    ASSUME RuntimeInv, NEW c \in DOMAIN calls, Counted(calls[c]), Adopt(c)
    PROVE  Counted(calls'[c]) /\ Continues(calls[c], calls'[c])
  <1>p. PICK call, next, chosen, id : /\ call = calls[c] /\ next = calls'[c] /\ id = minted + 1
                                      /\ chosen = Tail(call.chosen)
    OBVIOUS
  <1>0. CallInv(call) /\ CallSound(c) /\ call.step = "adopt" /\ Counted(call) /\ RowsInv
    BY <1>p DEF Adopt, Serving, RuntimeInv, CallSound
  <1>1. /\ CallType(call) /\ DOMAIN call = CallFields /\ call.op = "lookup"
        /\ call.count \in Nat /\ call.saved \in Seq(ProfileType)
    BY <1>0 DEF CallInv, CallType, CallProgress
  <1>2. PICK x, y : x = Len(call.saved) /\ y = Len(chosen) /\ x \in Nat /\ y \in Nat
                    /\ x + y + 1 <= call.count /\ Sequence(chosen) /\ (chosen # <<>> => y # 0)
    <2>1. Sequence(call.chosen) /\ call.chosen # <<>> /\ Len(call.saved) + Len(call.chosen) <= call.count
      BY <1>0, <1>1 DEF Counted
    <2>2. Sequence(chosen) /\ Len(chosen) = Len(call.chosen) - 1 /\ Len(call.chosen) \in Nat \ {0}
      BY <1>p, <2>1, TailOf
    <2>3. PICK x, y, z : x = Len(call.saved) /\ y = Len(chosen) /\ z = Len(call.chosen)
      OBVIOUS
    <2>4. x \in Nat /\ z \in Nat \ {0} /\ y = z - 1 /\ x + z <= call.count
      <3>1. Len(call.saved) \in Nat
        BY <1>1
      <3>. QED  BY ONLY <2>1, <2>2, <2>3, <3>1
    <2>5. y \in Nat /\ x + y + 1 <= call.count
      BY ONLY <1>1, <2>4
    <2>6. chosen # <<>> => y # 0
      <3>1. chosen \in Seq(ToSet(chosen))
        BY <2>2 DEF Sequence
      <3>. QED  BY <2>3, <3>1
    <2>. QED  BY <2>2, <2>3, <2>4, <2>5, <2>6
  <1>3. CASE next = Answered(call, "error")
    BY <1>0, <1>3, <1>p, ErrorCounted
  <1>4. ASSUME NEW saved, Once(saved), Len(saved) \in {x, x + 1}, Ids(call.saved) \subseteq Ids(saved),
               NEW made, DOMAIN made = CallFields, made.saved = saved, made.chosen = chosen,
               \A f \in {"op", "count", "step"} : made[f] = call[f],
               next = IF made.chosen = <<>> THEN Answered(made, "ok") ELSE made
        PROVE  Counted(next) /\ Continues(call, next)
    <2>1. Len(saved) + y <= call.count /\ Len(saved) <= call.count
      <3>1. PICK l : l = Len(saved)
        OBVIOUS
      <3>2. l \in {x, x + 1}
        BY <1>4, <3>1
      <3>3. l + y <= call.count /\ l <= call.count
        BY ONLY <1>1, <1>2, <3>2
      <3>. QED  BY <3>1, <3>3
    <2>2. /\ next.saved = saved /\ next.op = "lookup" /\ next.count = call.count
          /\ next.step = "adopt" \/ next.step = "done"
          /\ next.step = "adopt" => next.chosen = chosen /\ chosen # <<>>
      <3>1. CASE made.chosen = <<>>
        BY <1>1, <1>4, <3>1 DEF Answered, CallFields
      <3>2. CASE made.chosen # <<>>
        BY <1>0, <1>1, <1>4, <3>2
      <3>. QED  BY <3>1, <3>2
    <2>. QED  BY <1>1, <1>2, <1>4, <2>1, <2>2 DEF Counted, Continues
  <1>r. PICK rest : rest = [call EXCEPT !.chosen = Tail(@)]
    OBVIOUS
  <1>5. /\ DOMAIN rest = CallFields /\ rest.chosen = chosen
        /\ \A f \in CallFields \ {"chosen"} : rest[f] = call[f]
    BY <1>1, <1>p, <1>r DEF CallFields
  <1>6. Once(call.saved) /\ id \notin Ids(call.saved) /\ Profile(id, 0) \in ProfileType /\ Profile(id, 0).id = id
    <2>1. Once(call.saved)
      BY <1>0, <1>1 DEF Counted, New
    <2>2. minted \in Nat /\ Ids(call.saved) \subseteq 1 .. minted
      BY <1>0, <1>p DEF CallSound, OwnIds, RowsInv
    <2>3. id \in Nat /\ id \notin 1 .. minted
      BY <1>p, <2>2
    <2>. QED  BY <2>1, <2>2, <2>3 DEF Profile, ProfileType
  <1>7. CASE next = IF rest.chosen = <<>> THEN Answered(rest, "ok") ELSE rest
    <2>1. rest.saved = call.saved /\ \A f \in {"op", "count", "step"} : rest[f] = call[f]
      BY <1>5 DEF CallFields
    <2>. QED  BY <1>2, <1>4, <1>5, <1>6, <1>7, <1>p, <2>1
  <1>8. ASSUME NEW one, one = [rest EXCEPT !.saved = Append(@, Profile(id, 0))],
               next = IF one.chosen = <<>> THEN Answered(one, "ok") ELSE one
        PROVE  Counted(next) /\ Continues(call, next)
    <2>s. PICK p, saved : p = Profile(id, 0) /\ saved = Append(call.saved, p)
      OBVIOUS
    <2>1. p \in ProfileType /\ p.id = id
      BY <1>6, <2>s
    <2>2. Once(saved) /\ Len(saved) = Len(call.saved) + 1
      BY <1>1, <1>6, <2>1, <2>s, OnceFacts
    <2>3. Ids(call.saved) \subseteq Ids(saved)
      BY <1>1, <2>1, <2>s, SavedAnother
    <2>4. rest.saved = call.saved
      BY <1>5 DEF CallFields
    <2>5. /\ DOMAIN one = CallFields /\ one.saved = saved /\ one.chosen = chosen
          /\ \A f \in {"op", "count", "step"} : one[f] = call[f]
      BY <1>5, <1>8, <2>4, <2>s DEF CallFields
    <2>6. Len(saved) \in {x, x + 1}
      BY <1>2, <2>2
    <2>. QED  BY <1>4, <1>8, <2>2, <2>3, <2>5, <2>6
  <1>9. \/ next = Answered(call, "error")
        \/ next = IF rest.chosen = <<>> THEN Answered(rest, "ok") ELSE rest
        \/ \E one : /\ one = [rest EXCEPT !.saved = Append(@, Profile(id, 0))]
                    /\ next = IF one.chosen = <<>> THEN Answered(one, "ok") ELSE one
    BY <1>p, <1>r DEF Adopt, AdoptedId, Becomes
  <1>. QED  BY <1>3, <1>7, <1>8, <1>9, <1>p

LEMMA ServeCounts ==
    ASSUME RuntimeInv, NEW c \in DOMAIN calls, Counted(calls[c]), Serve(c)
    PROVE  Counted(calls'[c]) /\ Continues(calls[c], calls'[c])
  BY PeopleCounts, CompleteCounts, SaveCounts, PatchAndListCount, FetchIndexCounts, AdoptCounts DEF Serve

\* A request as it is received.
LEMMA FreshCounts ==
    ASSUME NEW call, Fresh(call), CallInv(Received(call))
    PROVE  /\ Counted(Received(call))
           /\ Received(call).op = call.op /\ Received(call).count = call.count
  <1>r. PICK new : new = Received(call)
    OBVIOUS
  <1>1. /\ new.op = call.op /\ new.count = call.count /\ new.saved = <<>> /\ new.result = "none"
        /\ new.people \in {0, 1, 1 + 0, 1 + (call.count - 1)}
        /\ call.op \in {"generate", "compile"} => new.step \in {"people", "compile"}
        /\ call.op = "lookup" => new.step = "index"
    BY <1>r DEF Received, Offline, Compiling, Fresh, CallFields
  <1>2. new.count \in Nat \ {0}
    BY <1>r DEF CallInv, CallType
  <1>3. new.people <= new.count
    BY <1>1, <1>2
  <1>. QED  BY <1>1, <1>3, <1>r, OnceFacts DEF Counted, New

LEMMA ContinuesItself == \A call : Continues(call, call)
  BY DEF Continues

AllCounted == \A c \in DOMAIN calls : Counted(calls[c])
AllContinue == \A c \in DOMAIN calls : c \in DOMAIN calls' /\ Continues(calls[c], calls'[c])

LEMMA RequestsCount ==
    ASSUME BenchInv, BenchInv', Next, AllCounted
    PROVE  AllCounted' /\ AllContinue
  <1>1. Sequence(calls) /\ \A c \in DOMAIN calls' : CallInv(calls'[c])
    BY DEF BenchInv, RuntimeInv, CallSound
  <1>2. ASSUME NEW call, Fresh(call), Ask(call) PROVE AllCounted' /\ AllContinue
    <2>p. PICK n : n = Len(calls) + 1
      OBVIOUS
    <2>1. /\ DOMAIN calls' = DOMAIN calls \cup {n} /\ calls'[n] = Received(call)
          /\ \A c \in DOMAIN calls : calls'[c] = calls[c]
      BY <1>1, <1>2, <2>p, SequenceFacts DEF Ask
    <2>2. Counted(calls'[n])
      BY <1>1, <1>2, <2>1, FreshCounts
    <2>. QED  BY <2>1, <2>2, ContinuesItself DEF AllCounted, AllContinue
  <1>3. ASSUME NEW d \in DOMAIN calls, Serve(d) PROVE AllCounted' /\ AllContinue
    <2>1. Counted(calls'[d]) /\ Continues(calls[d], calls'[d])
      BY <1>3, ServeCounts DEF BenchInv, AllCounted
    <2>2. \A c \in DOMAIN calls \ {d} : calls'[c] = calls[c]
      BY <1>3, ServeOne
    <2>3. DOMAIN calls' = DOMAIN calls
      <3>1. \A call : Becomes(d, call) => DOMAIN calls' = DOMAIN calls
        BY DEF Becomes
      <3>. QED  BY <1>3, <3>1 DEF Serve, People, Complete, Compiled, Uncompiled, Save, Patch, List, FetchIndex, Adopt
    <2>. QED  BY <2>1, <2>2, <2>3, ContinuesItself DEF AllCounted, AllContinue
  <1>4. CASE Restart
    <2>1. /\ DOMAIN calls' = DOMAIN calls
          /\ \A c \in DOMAIN calls : calls'[c] = calls[c] \/ calls'[c] = Answered(calls[c], "error")
      BY <1>4 DEF Restart
    <2>2. \A c \in DOMAIN calls : CallInv(calls[c]) /\ Counted(calls[c])
      BY DEF BenchInv, RuntimeInv, CallSound, AllCounted
    <2>. QED  BY <2>1, <2>2, ErrorCounted, ContinuesItself DEF AllCounted, AllContinue
  <1>5. CASE calls' = calls
    BY <1>5, ContinuesItself DEF AllCounted, AllContinue
  <1>. QED  BY <1>2, <1>3, <1>4, <1>5, CallsChange

-----------------------------------------------------------------------------
(* How many personas handle_generate gathers.                              *)

\* What is gathered is of other requests than the pending one, none twice.
Gathered(got, pending) ==
    /\ Once(got)
    /\ \A id \in Ids(got) :
         \E c \in DOMAIN calls \ {pending} : calls[c].op \in New /\ id \in Ids(calls[c].saved)

\* The request a callback awaits, if it still does.
Awaits(callback, op, count) ==
    callback.call # 0 => calls[callback.call].op = op /\ calls[callback.call].count = count

\* While no model is to choose, what is gathered and what is asked for make up
\* the number of the click.
GatherInv(callback) ==
    ~callback.judged =>
      /\ callback.pc # "judge"
      /\ callback.pc \in {"example", "pool", "generate", "list"} => Gathered(callback.got, callback.call)
      /\ callback.pc = "example" => Len(callback.got) < callback.count /\ Awaits(callback, "compile", 1)
      /\ callback.pc = "pool" => Awaits(callback, "lookup", callback.count)
      /\ callback.pc = "generate" /\ callback.call # 0 =>
           /\ calls[callback.call].op = "generate"
           /\ Len(callback.got) + calls[callback.call].count = callback.count
      /\ callback.pc = "list" => callback.got = <<>>

GeneratorGathers == busy["generate"].pc # "idle" => GatherInv(busy["generate"])

LEMMA NothingGathered == \A pending : Gathered(<<>>, pending)
  BY OnceFacts DEF Gathered, Ids, ToSet

\* Nothing gathered is lost as the requests go on.
LEMMA GatheredStays ==
    ASSUME AllContinue, NEW got, NEW pending, Gathered(got, pending),
           NEW next, next \in {0, pending} \/ next \notin DOMAIN calls, 0 \notin DOMAIN calls
    PROVE  Gathered(got, next)'
  <1>1. ASSUME NEW id \in Ids(got)
        PROVE  \E c \in DOMAIN calls' \ {next} : calls'[c].op \in New /\ id \in Ids(calls'[c].saved)
    <2>1. PICK c \in DOMAIN calls \ {pending} : calls[c].op \in New /\ id \in Ids(calls[c].saved)
      BY DEF Gathered
    <2>2. c \in DOMAIN calls' /\ Continues(calls[c], calls'[c])
      BY DEF AllContinue
    <2>3. calls'[c].op \in New /\ id \in Ids(calls'[c].saved) /\ c # next
      BY <2>1, <2>2 DEF Continues
    <2>. QED  BY <2>2, <2>3
  <1>. QED  BY <1>1 DEF Gathered

\* What a request is answered with is added.
LEMMA Gathering ==
    ASSUME RuntimeInv, AllCounted, NEW c \in DOMAIN calls, calls[c].op \in New,
           NEW got, Stored(got), Gathered(got, c), Stored(calls[c].saved), 0 \notin DOMAIN calls
    PROVE  /\ Gathered(got \o calls[c].saved, 0)
           /\ Len(got \o calls[c].saved) = Len(got) + Len(calls[c].saved)
           /\ Len(got) \in Nat /\ Len(calls[c].saved) \in Nat
  <1>p. PICK saved, t, m, n : /\ saved = calls[c].saved /\ t = got \o saved
                              /\ m = Len(got) /\ n = Len(saved)
    OBVIOUS
  <1>1. /\ m \in Nat /\ n \in Nat /\ DOMAIN got = 1 .. m /\ DOMAIN saved = 1 .. n
        /\ got \in Seq(ProfileType) /\ saved \in Seq(ProfileType)
    BY <1>p, StoredFacts DEF Stored
  <1>2. /\ Len(t) = m + n /\ DOMAIN t = 1 .. (m + n)
        /\ \A i \in 1 .. (m + n) : IF i <= m THEN i \in DOMAIN got /\ t[i] = got[i]
                                   ELSE i - m \in DOMAIN saved /\ t[i] = saved[i - m]
    <2>1. /\ Len(t) = m + n /\ DOMAIN t = 1 .. (m + n)
          /\ \A i \in 1 .. (m + n) : t[i] = IF i <= m THEN got[i] ELSE saved[i - m]
      BY <1>1, <1>p
    <2>2. \A i \in 1 .. (m + n) : IF i <= m THEN i \in 1 .. m ELSE i - m \in 1 .. n
      BY <1>1
    <2>. QED  BY <1>1, <2>1, <2>2
  <1>3. /\ \A i \in DOMAIN got : got[i].id \in Ids(got)
        /\ \A i \in DOMAIN saved : saved[i].id \in Ids(saved)
    BY DEF Ids, ToSet
  <1>4. Ids(got) \cap Ids(saved) = {}
    <2>1. ASSUME NEW id \in Ids(got), id \in Ids(saved) PROVE FALSE
      <3>1. PICK d \in DOMAIN calls \ {c} : calls[d].op \in New /\ id \in Ids(calls[d].saved)
        BY DEF Gathered
      <3>2. id \in Holds(c) /\ id \in Holds(d)
        BY <1>p, <2>1, <3>1 DEF Holds
      <3>. QED  BY <3>1, <3>2 DEF RuntimeInv
    <2>. QED  BY <2>1
  <1>5. Once(got) /\ Once(saved)
    BY <1>p DEF Gathered, AllCounted, Counted
  <1>6. Once(t)
    <2>1. ASSUME NEW i \in 1 .. (m + n), NEW k \in 1 .. (m + n), t[i].id = t[k].id PROVE i = k
      <3>1. CASE i <= m /\ k <= m
        BY <1>2, <1>5, <2>1, <3>1 DEF Once
      <3>2. CASE ~(i <= m) /\ ~(k <= m)
        <4>1. i - m = k - m
          BY <1>2, <1>5, <2>1, <3>2 DEF Once
        <4>. QED  BY <1>1, <4>1
      <3>3. CASE (i <= m) # (k <= m)
        BY <1>2, <1>3, <1>4, <2>1, <3>3
      <3>. QED  BY <3>1, <3>2, <3>3
    <2>. QED  BY <1>2, <2>1 DEF Once
  <1>7. ASSUME NEW id \in Ids(t) PROVE id \in Ids(got) \/ id \in Ids(saved)
    <2>1. PICK i \in 1 .. (m + n) : t[i].id = id
      BY <1>2 DEF Ids, ToSet
    <2>. QED  BY <1>2, <1>3, <2>1
  <1>8. Gathered(t, 0)
    <2>1. ASSUME NEW id \in Ids(t)
          PROVE  \E d \in DOMAIN calls \ {0} : calls[d].op \in New /\ id \in Ids(calls[d].saved)
      BY <1>7, <1>p DEF Gathered
    <2>. QED  BY <1>6, <2>1 DEF Gathered
  <1>. QED  BY <1>1, <1>2, <1>8, <1>p

\* What is displayed, if a callback of handle_generate goes on to the choices.
Arrives(callback) ==
    display' # <<>> =>
      /\ Cardinality(Ids(display')) = Len(display')
      /\ Len(display') <= callback.count
      /\ Len(display') < callback.count =>
           /\ At("generate", "generate")
           /\ calls[callback.call].people < calls[callback.call].count

\* As many ids as profiles, when none is listed twice.
LEMMA OnceCounts ==
    ASSUME NEW got, got \in Seq(ProfileType), Once(got)
    PROVE  Cardinality(Ids(got)) = Len(got)
  <1>s. PICK n, s : n = Len(got) /\ s = [i \in 1 .. n |-> got[i].id]
    OBVIOUS
  <1>1. n \in Nat /\ DOMAIN got = 1 .. n /\ \A i \in 1 .. n : got[i] \in ProfileType
    BY <1>s
  <1>2. \A i \in 1 .. n : got[i].id \in Nat
    BY <1>1 DEF ProfileType
  <1>3. s \in [1 .. n -> Nat]
    BY <1>2, <1>s
  <1>4. s \in Seq(Nat) /\ Len(s) = n /\ DOMAIN s = 1 .. n
    BY <1>1, <1>3
  <1>5. \A i, k \in DOMAIN s : s[i] = s[k] => i = k
    BY <1>1, <1>4, <1>s DEF Once
  <1>6. ToSet(s) = Ids(got)
    <2>1. \A i \in 1 .. n : s[i] = got[i].id
      BY <1>s
    <2>. QED  BY <1>1, <1>4, <2>1 DEF Ids, ToSet
  <1>. QED  BY <1>4, <1>5, <1>6, <1>s, Distinct

\* Whoever goes on to the choices without a model's choice has what was asked for.
ArrivesWhole ==
    busy'["generate"].pc = "choices" /\ ~At("generate", "choices") /\ ~busy["generate"].judged =>
      Arrives(busy["generate"])

\* The numbers of the requests begin with 1.
LEMMA RequestNumbers ==
    ASSUME BenchInv
    PROVE  /\ Len(calls) \in Nat /\ DOMAIN calls = 1 .. Len(calls) /\ 0 \notin DOMAIN calls
           /\ Len(calls) + 1 \notin DOMAIN calls /\ Len(calls) + 1 # 0
           /\ \A c \in 0 .. Len(calls) : c # 0 => c \in DOMAIN calls
  <1>1. Len(calls) \in Nat /\ DOMAIN calls = 1 .. Len(calls)
    BY SequenceFacts DEF BenchInv, RuntimeInv
  <1>. QED  BY <1>1

LEMMA RequestGathers ==
    ASSUME BenchInv, BenchInv', AllContinue, NEW callback, CallbackType(callback),
           NEW pc \in {"example", "pool", "generate", "list"}, NEW call, Fresh(call),
           Requests("generate", callback, pc, call),
           ~callback.judged =>
             /\ \E pending : Gathered(callback.got, pending)
             /\ pc = "example" => Len(callback.got) < callback.count /\ call.op = "compile" /\ call.count = 1
             /\ pc = "pool" => call.op = "lookup" /\ call.count = callback.count
             /\ pc = "generate" => call.op = "generate" /\ Len(callback.got) + call.count = callback.count
             /\ pc = "list" => callback.got = <<>>
    PROVE  GeneratorGathers' /\ ArrivesWhole
  <1>p. PICK n, next : n = Len(calls) + 1 /\ next = [callback EXCEPT !.pc = pc, !.call = n]
    OBVIOUS
  <1>1. n \notin DOMAIN calls /\ n # 0 /\ 0 \notin DOMAIN calls
    BY <1>p, RequestNumbers
  <1>2. calls'[n] = Received(call) /\ n \in DOMAIN calls'
    BY <1>p, SequenceFacts DEF Requests, Ask, BenchInv, RuntimeInv
  <1>3. calls'[n].op = call.op /\ calls'[n].count = call.count
    <2>1. CallInv(calls'[n])
      BY <1>2 DEF BenchInv, RuntimeInv, CallSound
    <2>. QED  BY <1>2, <2>1, FreshCounts
  <1>4. /\ next.pc = pc /\ next.call = n
        /\ \A f \in CallbackFields \ {"pc", "call"} : next[f] = callback[f]
    BY <1>p DEF CallbackType, CallbackFields
  <1>5. next.judged = callback.judged /\ next.got = callback.got /\ next.count = callback.count
    BY <1>4 DEF CallbackFields
  <1>6. busy'["generate"] = next
    BY <1>p DEF Requests, Goes, BenchInv, HandlersInv, Handlers
  <1>7. ~callback.judged => Gathered(callback.got, n)'
    BY <1>1, GatheredStays
  <1>8. GatherInv(next)'
    BY <1>1, <1>3, <1>4, <1>5, <1>7 DEF GatherInv, Awaits
  <1>. QED  BY <1>4, <1>6, <1>8 DEF GeneratorGathers, ArrivesWhole

LEMMA GeneratedArrives ==
    ASSUME BenchInv, NEW callback, callback = busy["generate"], CallbackType(callback),
           NEW personas, Generated(personas),
           ~callback.judged =>
             /\ personas \in Seq(ProfileType) /\ Once(personas)
             /\ Len(personas) <= callback.count
             /\ Len(personas) < callback.count =>
                  /\ At("generate", "generate")
                  /\ calls[callback.call].people < calls[callback.call].count
    PROVE  GeneratorGathers' /\ ArrivesWhole
  <1>p. PICK next : next = [callback EXCEPT !.pc = "choices", !.got = personas]
    OBVIOUS
  <1>1. next.pc = "choices"
    BY <1>p DEF CallbackType, CallbackFields
  <1>2. busy'["generate"] = next /\ display' = personas
    BY <1>p DEF Generated, Goes, BenchInv, HandlersInv, Handlers
  <1>3. GatherInv(next)'
    BY <1>1 DEF GatherInv
  <1>4. ~callback.judged => Cardinality(Ids(personas)) = Len(personas)
    BY OnceCounts
  <1>. QED  BY <1>2, <1>3, <1>4 DEF GeneratorGathers, ArrivesWhole, Arrives

\* What has been gathered with the answer to the pending request.
LEMMA AnswerGathers ==
    ASSUME BenchInv, AllCounted, GeneratorGathers, NEW callback, callback = busy["generate"],
           callback.pc \in {"example", "pool", "generate"}, ~callback.judged, Hears("generate"),
           NEW gathered, gathered = [callback EXCEPT !.got = @ \o Answer("generate")]
    PROVE  /\ callback.call # 0 /\ callback.call \in DOMAIN calls
           /\ Gathered(gathered.got, 0) /\ gathered.got \in Seq(ProfileType)
           /\ Len(gathered.got) = Len(callback.got) + Len(calls[callback.call].saved)
           /\ Len(callback.got) \in Nat /\ Len(calls[callback.call].saved) \in Nat
           /\ callback.pc # "pool" =>
                /\ Len(calls[callback.call].saved) = calls[callback.call].people
                /\ calls[callback.call].people <= calls[callback.call].count
           /\ callback.pc = "pool" => Len(calls[callback.call].saved) <= callback.count
           /\ calls[callback.call].count \in Nat /\ calls[callback.call].people \in Nat
  <1>c. PICK c, call : c = callback.call /\ call = calls[c]
    OBVIOUS
  <1>0. busy["generate"].pc # "idle" /\ busy["generate"] # Idle
    BY DEF Idle
  <1>1. CallbackInv("generate", callback) /\ CallbackType(callback) /\ Stored(callback.got)
    BY <1>0, GeneratorInv DEF CallbackInv
  <1>2. c # 0 /\ c \in DOMAIN calls /\ call.result = "ok"
    <2>1. c # 0 /\ call.result = "ok"
      BY <1>c DEF Hears, Result
    <2>2. c \in 0 .. Len(calls)
      BY <1>1, <1>c DEF CallbackInv
    <2>. QED  BY <2>1, <2>2, RequestNumbers
  <1>3. CallInv(call) /\ CallSound(c) /\ Counted(call) /\ call.step = "done"
    <2>1. CallInv(call) /\ CallSound(c) /\ Counted(call)
      BY <1>2, <1>c DEF BenchInv, RuntimeInv, CallSound, AllCounted
    <2>. QED  BY <1>2, <2>1 DEF CallInv, CallProgress
  <1>4. Answer("generate") = call.saved /\ Stored(call.saved)
    <2>1. Answer("generate") = call.saved
      BY <1>c DEF Answer
    <2>. QED  BY <1>0, <2>1, AnswerStored DEF BenchInv, Callers, Handlers
  <1>5. gathered.got = callback.got \o call.saved
    BY <1>1, <1>4 DEF CallbackType, CallbackFields
  <1>6. /\ Gathered(callback.got, c)
        /\ callback.pc = "example" => call.op = "compile"
        /\ callback.pc = "pool" => call.op = "lookup" /\ call.count = callback.count
        /\ callback.pc = "generate" => call.op = "generate"
    BY <1>0, <1>2, <1>c DEF GeneratorGathers, GatherInv, Awaits
  <1>7. call.op \in New
    BY <1>6 DEF New
  <1>8. /\ Gathered(gathered.got, 0) /\ Len(gathered.got) = Len(callback.got) + Len(call.saved)
        /\ Len(callback.got) \in Nat /\ Len(call.saved) \in Nat
    <2>1. RuntimeInv /\ 0 \notin DOMAIN calls /\ calls[c].op \in New /\ Stored(calls[c].saved)
      BY <1>4, <1>7, <1>c, RequestNumbers DEF BenchInv
    <2>2. /\ Gathered(callback.got \o calls[c].saved, 0)
          /\ Len(callback.got \o calls[c].saved) = Len(callback.got) + Len(calls[c].saved)
          /\ Len(callback.got) \in Nat /\ Len(calls[c].saved) \in Nat
      BY <1>1, <1>2, <1>6, <2>1, Gathering
    <2>. QED  BY <1>5, <1>c, <2>2
  <1>9. gathered.got \in Seq(ProfileType)
    BY <1>1, <1>4, <1>5 DEF Stored
  <1>10. /\ callback.pc # "pool" => Len(call.saved) = call.people /\ call.people <= call.count
         /\ callback.pc = "pool" => Len(call.saved) <= callback.count
    BY <1>2, <1>3, <1>6 DEF Counted
  <1>11. call.count \in Nat /\ call.people \in Nat
    BY <1>3 DEF CallInv, CallType
  <1>. QED  BY <1>2, <1>8, <1>9, <1>10, <1>11, <1>c

LEMMA GenerateHearsGathers ==
    ASSUME BenchInv, BenchInv', AllCounted, AllContinue, GeneratorGathers, GenerateHears
    PROVE  GeneratorGathers' /\ ArrivesWhole
  <1>p. PICK callback, gathered, none :
             /\ callback = busy["generate"]
             /\ gathered = [callback EXCEPT !.got = @ \o Answer("generate")]
             /\ none = [callback EXCEPT !.got = <<>>]
    OBVIOUS
  <1>0. callback.pc \in {"example", "pool", "generate", "list"} /\ busy["generate"].pc # "idle"
    BY <1>p DEF GenerateHears, At
  <1>1. CallbackInv("generate", callback) /\ CallbackType(callback) /\ callback.count \in Nat \ {0}
    BY <1>p, <1>0, GeneratorInv DEF CallbackInv, CallbackType
  <1>2. GatherInv(callback)
    BY <1>0, <1>p DEF GeneratorGathers
  <1>3. /\ CallbackType(gathered) /\ gathered.judged = callback.judged /\ gathered.count = callback.count
        /\ gathered.workspace = callback.workspace
    BY <1>1, <1>p DEF CallbackType, CallbackFields
  <1>4. /\ CallbackType(none) /\ none.judged = callback.judged /\ none.count = callback.count
        /\ none.got = <<>>
    BY <1>1, <1>p DEF CallbackType, CallbackFields
  <1>e. Len(<<>>) = 0 /\ 0 + callback.count = callback.count
    BY <1>1
  <1>5. ASSUME callback.pc = "example", Hears("generate"), ExampleHeard
        PROVE  GeneratorGathers' /\ ArrivesWhole
    <2>1. ~callback.judged =>
            /\ Gathered(gathered.got, 0) /\ gathered.got \in Seq(ProfileType)
            /\ Len(gathered.got) \in Nat /\ Len(gathered.got) <= callback.count
      <3>. SUFFICES ASSUME ~callback.judged
                    PROVE  /\ Gathered(gathered.got, 0) /\ gathered.got \in Seq(ProfileType)
                           /\ Len(gathered.got) \in Nat /\ Len(gathered.got) <= callback.count
        OBVIOUS
      <3>1. /\ callback.call # 0 /\ Gathered(gathered.got, 0) /\ gathered.got \in Seq(ProfileType)
            /\ Len(gathered.got) = Len(callback.got) + Len(calls[callback.call].saved)
            /\ Len(callback.got) \in Nat /\ Len(calls[callback.call].saved) \in Nat
            /\ Len(calls[callback.call].saved) = calls[callback.call].people
            /\ calls[callback.call].people <= calls[callback.call].count
        BY <1>5, <1>p, AnswerGathers
      <3>2. Len(callback.got) < callback.count /\ calls[callback.call].count = 1
        BY <1>2, <1>5, <3>1 DEF GatherInv, Awaits
      <3>. QED  BY <1>1, <3>1, <3>2
    <2>2. IF Len(gathered.got) = gathered.count THEN Generated(gathered.got)
          ELSE Requests("generate", gathered, "example", Compilation(gathered))
      BY <1>5, <1>p DEF ExampleHeard
    <2>3. CASE Len(gathered.got) = gathered.count
      <3>1. ~callback.judged => Once(gathered.got)
        BY <2>1 DEF Gathered
      <3>2. ~callback.judged => ~(Len(gathered.got) < callback.count)
        BY <1>1, <1>3, <2>3
      <3>3. Generated(gathered.got)
        BY <2>2, <2>3
      <3>. QED  BY <1>1, <1>p, <2>1, <3>1, <3>2, <3>3, GeneratedArrives
    <2>4. CASE Len(gathered.got) # gathered.count
      <3>1. ~callback.judged => Len(gathered.got) < gathered.count
        BY <1>1, <1>3, <2>1, <2>4
      <3>2. Fresh(Compilation(gathered)) /\ Compilation(gathered).op = "compile"
            /\ Compilation(gathered).count = 1
        BY FreshCalls DEF Compilation
      <3>. QED  BY <1>3, <2>1, <2>2, <2>4, <3>1, <3>2, RequestGathers
    <2>. QED  BY <2>3, <2>4
  <1>6. ASSUME callback.pc = "example", Request(none, "list", Call("list", callback.workspace, 1))
        PROVE  GeneratorGathers' /\ ArrivesWhole
    BY <1>4, <1>6, FreshCalls, NothingGathered, RequestGathers DEF Request
  <1>7. ASSUME NEW empty, CallbackType(empty), empty.judged = callback.judged, empty.count = callback.count,
               ~callback.judged => empty.got = <<>>,
               Request(empty, "generate", Generation(callback, callback.count))
        PROVE  GeneratorGathers' /\ ArrivesWhole
    <2>1. /\ Fresh(Generation(callback, callback.count)) /\ Generation(callback, callback.count).op = "generate"
          /\ Generation(callback, callback.count).count = callback.count
      BY FreshCalls
    <2>2. ~callback.judged =>
            (\E pending : Gathered(empty.got, pending)) /\ Len(empty.got) + callback.count = callback.count
      BY <1>7, <1>e, NothingGathered
    <2>. QED  BY <1>7, <2>1, <2>2, RequestGathers DEF Request
  <1>8. ASSUME callback.pc = "pool", Hears("generate"),
               IF Remaining(gathered) > 0
               THEN Request(gathered, "generate", Generation(gathered, Remaining(gathered)))
               ELSE Generated(gathered.got)
        PROVE  GeneratorGathers' /\ ArrivesWhole
    <2>1. ~callback.judged =>
            /\ Gathered(gathered.got, 0) /\ gathered.got \in Seq(ProfileType)
            /\ Len(gathered.got) \in Nat /\ Len(gathered.got) <= callback.count
      <3>. SUFFICES ASSUME ~callback.judged
                    PROVE  /\ Gathered(gathered.got, 0) /\ gathered.got \in Seq(ProfileType)
                           /\ Len(gathered.got) \in Nat /\ Len(gathered.got) <= callback.count
        OBVIOUS
      <3>1. /\ Gathered(gathered.got, 0) /\ gathered.got \in Seq(ProfileType)
            /\ Len(gathered.got) = Len(callback.got) + Len(calls[callback.call].saved)
            /\ Len(calls[callback.call].saved) \in Nat
            /\ Len(calls[callback.call].saved) <= callback.count
        BY <1>8, <1>p, AnswerGathers
      <3>2. callback.got = <<>>
        BY <1>1, <1>8 DEF CallbackInv
      <3>3. Len(callback.got) = 0
        BY <1>e, <3>2
      <3>p. PICK all, saved : all = Len(gathered.got) /\ saved = Len(calls[callback.call].saved)
        OBVIOUS
      <3>4. all = 0 + saved /\ saved \in Nat /\ saved <= callback.count
        BY <3>1, <3>3, <3>p
      <3>5. all \in Nat /\ all <= callback.count
        BY ONLY <3>4
      <3>. QED  BY <3>1, <3>5, <3>p
    <2>2. Remaining(gathered) = callback.count - Len(gathered.got)
      BY <1>3 DEF Remaining
    <2>3. CASE Remaining(gathered) > 0
      <3>1. PICK n : n = Remaining(gathered)
        OBVIOUS
      <3>2. /\ Fresh(Generation(gathered, n)) /\ Generation(gathered, n).op = "generate"
            /\ Generation(gathered, n).count = n
        BY FreshCalls
      <3>3. ~callback.judged => Len(gathered.got) + n = callback.count
        BY <1>1, <2>1, <2>2, <3>1
      <3>4. Requests("generate", gathered, "generate", Generation(gathered, n))
        BY <1>8, <2>3, <3>1 DEF Request
      <3>. QED  BY <1>3, <2>1, <3>2, <3>3, <3>4, RequestGathers
    <2>4. CASE ~(Remaining(gathered) > 0)
      <3>1. ~callback.judged => Once(gathered.got) /\ ~(Len(gathered.got) < callback.count)
        BY <1>1, <2>1, <2>2, <2>4 DEF Gathered
      <3>. QED  BY <1>1, <1>8, <1>p, <2>1, <2>4, <3>1, GeneratedArrives
    <2>. QED  BY <2>3, <2>4
  <1>9. ASSUME callback.pc = "pool", Request(callback, "generate", Generation(callback, Remaining(callback)))
        PROVE  GeneratorGathers' /\ ArrivesWhole
    <2>1. callback.got = <<>>
      BY <1>1, <1>9 DEF CallbackInv
    <2>2. Remaining(callback) = callback.count
      BY <1>1, <1>e, <2>1 DEF Remaining
    <2>. QED  BY <1>1, <1>7, <1>9, <2>1, <2>2
  <1>10. ASSUME callback.pc = "generate", Hears("generate"), Generated(gathered.got)
         PROVE  GeneratorGathers' /\ ArrivesWhole
    <2>1. ~callback.judged =>
            /\ Gathered(gathered.got, 0) /\ gathered.got \in Seq(ProfileType)
            /\ Len(gathered.got) <= callback.count
            /\ Len(gathered.got) < callback.count => calls[callback.call].people < calls[callback.call].count
      <3>. SUFFICES ASSUME ~callback.judged
                    PROVE  /\ Gathered(gathered.got, 0) /\ gathered.got \in Seq(ProfileType)
                           /\ Len(gathered.got) <= callback.count
                           /\ Len(gathered.got) < callback.count =>
                                calls[callback.call].people < calls[callback.call].count
        OBVIOUS
      <3>1. /\ callback.call # 0 /\ Gathered(gathered.got, 0) /\ gathered.got \in Seq(ProfileType)
            /\ Len(gathered.got) = Len(callback.got) + Len(calls[callback.call].saved)
            /\ Len(callback.got) \in Nat /\ calls[callback.call].people \in Nat /\ calls[callback.call].count \in Nat
            /\ Len(calls[callback.call].saved) = calls[callback.call].people
            /\ calls[callback.call].people <= calls[callback.call].count
        BY <1>10, <1>p, AnswerGathers
      <3>2. Len(callback.got) + calls[callback.call].count = callback.count
        BY <1>2, <1>10, <3>1 DEF GatherInv
      <3>p. PICK had, all, people, count :
              /\ had = Len(callback.got) /\ all = Len(gathered.got)
              /\ people = calls[callback.call].people /\ count = calls[callback.call].count
        OBVIOUS
      <3>3. all = had + people /\ had + count = callback.count /\ people <= count
            /\ had \in Nat /\ people \in Nat /\ count \in Nat
        BY <3>1, <3>2, <3>p
      <3>4. all <= callback.count /\ (all < callback.count => people < count)
        BY ONLY <3>3
      <3>. QED  BY <3>1, <3>4, <3>p
    <2>2. ~callback.judged => Once(gathered.got) /\ At("generate", "generate")
      BY <1>10, <1>p, <2>1 DEF Gathered, At
    <2>. QED  BY <1>1, <1>10, <1>p, <2>1, <2>2, GeneratedArrives
  <1>11. ASSUME Fails PROVE GeneratorGathers' /\ ArrivesWhole
    <2>1. [callback EXCEPT !.pc = "choices", !.got = <<>>].pc = "choices"
      BY <1>1 DEF CallbackType, CallbackFields
    <2>2. busy'["generate"].pc = "choices" /\ display' = <<>>
      BY <1>11, <1>p, <2>1 DEF Fails, Goes, BenchInv, HandlersInv, Handlers
    <2>. QED  BY <2>2 DEF GeneratorGathers, GatherInv, ArrivesWhole, Arrives
  <1>12. ASSUME callback.pc = "list", Request(callback, "generate", Generation(callback, callback.count))
         PROVE  GeneratorGathers' /\ ArrivesWhole
    <2>1. ~callback.judged => callback.got = <<>>
      BY <1>2, <1>12 DEF GatherInv
    <2>. QED  BY <1>1, <1>7, <1>12, <2>1
  <1>13. ASSUME Goes("generate", [callback EXCEPT !.pc = "judge", !.judged = TRUE])
         PROVE  GeneratorGathers' /\ ArrivesWhole
    <2>1. /\ [callback EXCEPT !.pc = "judge", !.judged = TRUE].pc = "judge"
          /\ [callback EXCEPT !.pc = "judge", !.judged = TRUE].judged
      BY <1>1 DEF CallbackType, CallbackFields
    <2>2. busy'["generate"].pc = "judge" /\ busy'["generate"].judged
      BY <1>13, <2>1 DEF Goes, BenchInv, HandlersInv, Handlers
    <2>. QED  BY <2>2 DEF GeneratorGathers, GatherInv, ArrivesWhole
  <1>14. \/ callback.pc = "example" /\ Hears("generate") /\ ExampleHeard
         \/ callback.pc = "example" /\ Request(none, "list", Call("list", callback.workspace, 1))
         \/ callback.pc = "example" /\ Request(none, "generate", Generation(callback, callback.count))
         \/ /\ callback.pc = "pool" /\ Hears("generate")
            /\ IF Remaining(gathered) > 0
               THEN Request(gathered, "generate", Generation(gathered, Remaining(gathered)))
               ELSE Generated(gathered.got)
         \/ callback.pc = "pool" /\ Request(callback, "generate", Generation(callback, Remaining(callback)))
         \/ callback.pc = "generate" /\ Hears("generate") /\ Generated(gathered.got)
         \/ Fails
         \/ callback.pc = "list" /\ Request(callback, "generate", Generation(callback, callback.count))
         \/ Goes("generate", [callback EXCEPT !.pc = "judge", !.judged = TRUE])
    BY <1>p, Zenon DEF GenerateHears, At
  <1>15. callback.pc = "example" /\ Request(none, "generate", Generation(callback, callback.count)) =>
           GeneratorGathers' /\ ArrivesWhole
    BY <1>4, <1>7
  <1>. QED  BY <1>5, <1>6, <1>8, <1>9, <1>10, <1>11, <1>12, <1>13, <1>14, <1>15

LEMMA WriteTasksGathers ==
    ASSUME BenchInv, BenchInv', AllContinue, GeneratorGathers, WriteTasks
    PROVE  GeneratorGathers' /\ ArrivesWhole
  <1>p. PICK callback : callback = busy["generate"]
    OBVIOUS
  <1>0. callback.pc = "tasks" /\ busy["generate"].pc # "idle"
    BY <1>p DEF WriteTasks, At
  <1>1. /\ CallbackInv("generate", callback) /\ CallbackType(callback) /\ callback.count \in Nat \ {0}
        /\ callback.got = <<>> /\ callback.method \in Methods
    BY <1>p, <1>0, GeneratorInv DEF CallbackInv, CallbackType
  <1>2. ASSUME NEW n, FirstRequest("generate", [callback EXCEPT !.tasks = n, !.attempt = 0])
        PROVE  GeneratorGathers' /\ ArrivesWhole
    <2>p. PICK next : next = [callback EXCEPT !.tasks = n, !.attempt = 0]
      OBVIOUS
    <2>1. /\ DOMAIN next = CallbackFields
          /\ \A f \in CallbackFields \ {"tasks", "attempt"} : next[f] = callback[f]
      BY <1>1, <2>p DEF CallbackType, CallbackFields
    <2>2. next.count = callback.count /\ next.got = <<>> /\ next.method = callback.method
      BY <1>1, <2>1 DEF CallbackFields
    <2>3. (\E pending : Gathered(next.got, pending)) /\ Len(next.got) = 0
      BY <2>2, NothingGathered
    <2>. DEFINE Q == GeneratorGathers' /\ ArrivesWhole
    <2>4. ASSUME NEW pc \in {"example", "pool", "generate", "list"}, NEW call, Fresh(call),
                 Requests("generate", next, pc, call),
                 pc = "example" => call.op = "compile" /\ call.count = 1,
                 pc = "pool" => call.op = "lookup" /\ call.count = callback.count,
                 pc = "generate" => call.op = "generate" /\ call.count = callback.count
          PROVE  Q
      <3>n. PICK fresh : fresh = Len(calls) + 1
        OBVIOUS
      <3>1. busy'["generate"] = [next EXCEPT !.pc = pc, !.call = fresh]
        BY <2>4, <3>n DEF Requests, Goes, BenchInv, HandlersInv, Handlers
      <3>t. PICK tasked : tasked = busy'["generate"]
        OBVIOUS
      <3>2. /\ tasked.pc = pc /\ tasked.call = fresh
            /\ tasked.got = <<>> /\ tasked.count = callback.count
        BY <2>1, <2>2, <3>1, <3>t DEF CallbackFields
      <3>3. calls'[fresh].op = call.op /\ calls'[fresh].count = call.count
        <4>1. calls'[fresh] = Received(call) /\ fresh \in DOMAIN calls'
          BY <2>4, <3>n, SequenceFacts DEF Requests, Ask, BenchInv, RuntimeInv
        <4>2. CallInv(calls'[fresh])
          BY <4>1 DEF BenchInv, RuntimeInv, CallSound
        <4>. QED  BY <2>4, <4>1, <4>2, FreshCounts
      <3>4. Gathered(<<>>, fresh)'
        <4>1. 0 \notin DOMAIN calls
          BY RequestNumbers
        <4>2. fresh \notin DOMAIN calls
          BY <3>n, RequestNumbers
        <4>. QED  BY <4>1, <4>2, NothingGathered, GatheredStays
      <3>5. Len(<<>>) = 0 /\ 0 + callback.count = callback.count /\ 0 < callback.count
        BY <1>1
      <3>6. GatherInv(tasked)'
        BY <2>4, <3>2, <3>3, <3>4, <3>5 DEF GatherInv, Awaits
      <3>. QED  BY <3>2, <3>6, <3>t DEF GeneratorGathers, ArrivesWhole
    <2>. HIDE DEF Q
    <2>5. /\ Fresh(Compilation(next)) /\ Compilation(next).op = "compile" /\ Compilation(next).count = 1
          /\ \A w, k : Fresh(Call("lookup", w, k)) /\ Call("lookup", w, k).op = "lookup" /\ Call("lookup", w, k).count = k
          /\ \A k : Fresh(Generation(next, k)) /\ Generation(next, k).op = "generate" /\ Generation(next, k).count = k
      BY FreshCalls DEF Compilation
    <2>6. \/ Requests("generate", next, "example", Compilation(next))
          \/ Requests("generate", next, "generate", Generation(next, next.count))
          \/ Requests("generate", next, "pool", Call("lookup", next.workspace, next.count))
      BY <1>1, <1>2, <2>2, <2>p DEF FirstRequest, Methods
    <2>7. Q
      BY <2>2, <2>4, <2>5, <2>6
    <2>. QED  BY <2>7 DEF Q
  <1>3. ASSUME Goes("generate", [callback EXCEPT !.attempt = @ + 1])
        PROVE  GeneratorGathers' /\ ArrivesWhole
    <2>1. [callback EXCEPT !.attempt = @ + 1].pc = "tasks"
      BY <1>0, <1>1 DEF CallbackType, CallbackFields
    <2>2. busy'["generate"].pc = "tasks"
      BY <1>3, <2>1 DEF Goes, BenchInv, HandlersInv, Handlers
    <2>. QED  BY <2>2 DEF GeneratorGathers, GatherInv, ArrivesWhole
  <1>. QED  BY <1>2, <1>3, <1>p DEF WriteTasks

\* A model chooses.
LEMMA JudgeGathers ==
    ASSUME BenchInv, GeneratorGathers, Judge
    PROVE  GeneratorGathers' /\ ArrivesWhole
  <1>p. PICK callback : callback = busy["generate"]
    OBVIOUS
  <1>0. callback.pc = "judge" /\ busy["generate"].pc # "idle"
    BY <1>p DEF Judge, At
  <1>1. CallbackType(callback)
    BY <1>p, <1>0, GeneratorInv DEF CallbackInv
  <1>2. callback.judged
    BY <1>0, <1>p DEF GeneratorGathers, GatherInv
  <1>3. PICK used, n :
          \/ Request([callback EXCEPT !.got = used], "generate", Generation(callback, n))
          \/ Generated(used)
    BY <1>p DEF Judge
  <1>u. PICK given, fresh : given = [callback EXCEPT !.got = used] /\ fresh = Len(calls) + 1
    OBVIOUS
  <1>d. /\ "generate" \in DOMAIN busy
        /\ DOMAIN callback = CallbackFields /\ DOMAIN given = CallbackFields
        /\ given.judged = callback.judged
    BY <1>1, <1>u DEF BenchInv, HandlersInv, Handlers, CallbackType, CallbackFields
  <1>4. busy'["generate"].judged
    <2>1. CASE Request(given, "generate", Generation(callback, n))
      <3>1. busy' = [busy EXCEPT !["generate"] = [given EXCEPT !.pc = "generate", !.call = fresh]]
        BY <1>u, <2>1 DEF Request, Requests, Goes
      <3>2. [given EXCEPT !.pc = "generate", !.call = fresh].judged = given.judged
        BY <1>d DEF CallbackFields
      <3>. QED  BY <1>2, <1>d, <3>1, <3>2
    <2>2. CASE Generated(used)
      <3>1. busy' = [busy EXCEPT !["generate"] = [callback EXCEPT !.pc = "choices", !.got = used]]
        BY <1>p, <2>2 DEF Generated, Goes
      <3>2. [callback EXCEPT !.pc = "choices", !.got = used].judged = callback.judged
        BY <1>d DEF CallbackFields
      <3>. QED  BY <1>2, <1>d, <3>1, <3>2
    <2>. QED  BY <1>3, <1>u, <2>1, <2>2
  <1>. QED  BY <1>2, <1>4, <1>p DEF GeneratorGathers, GatherInv, ArrivesWhole

\* The request goes on, and is waited for or no more.
LEMMA WaitingGathers ==
    ASSUME BenchInv, AllContinue, GeneratorGathers,
           \/ busy'["generate"] = busy["generate"]
           \/ /\ busy["generate"].pc \in Awaiting
              /\ busy'["generate"] = [busy["generate"] EXCEPT !.call = 0]
    PROVE  GeneratorGathers' /\ ArrivesWhole
  <1>p. PICK callback, next : callback = busy["generate"] /\ next = busy'["generate"]
    OBVIOUS
  <1>1. CASE callback.pc = "idle"
    <2>1. next.pc = "idle"
      BY <1>1, <1>p DEF Awaiting
    <2>. QED  BY <1>p, <2>1 DEF GeneratorGathers, ArrivesWhole
  <1>2. CASE callback.pc # "idle"
    <2>1. CallbackInv("generate", callback) /\ CallbackType(callback) /\ GatherInv(callback)
      BY <1>2, <1>p, GeneratorInv DEF CallbackInv, GeneratorGathers
    <2>2. /\ next.call \in {0, callback.call}
          /\ \A f \in {"pc", "judged", "got", "count"} : next[f] = callback[f]
      BY <1>p, <2>1 DEF CallbackType, CallbackFields
    <2>3. 0 \notin DOMAIN calls /\ (callback.call # 0 => callback.call \in DOMAIN calls)
      BY <2>1, RequestNumbers DEF CallbackInv
    <2>4. Gathered(callback.got, callback.call) => Gathered(callback.got, next.call)'
      BY <2>2, <2>3, GatheredStays
    <2>5. next.call # 0 =>
            /\ next.call = callback.call /\ callback.call # 0
            /\ calls'[next.call].op = calls[callback.call].op
            /\ calls'[next.call].count = calls[callback.call].count
      BY <2>2, <2>3 DEF AllContinue, Continues
    <2>6. GatherInv(next)'
      BY <2>1, <2>2, <2>4, <2>5 DEF GatherInv, Awaits
    <2>7. next.pc = "choices" => At("generate", "choices")
      BY <1>p, <2>2 DEF At
    <2>. QED  BY <1>p, <2>6, <2>7 DEF GeneratorGathers, ArrivesWhole
  <1>. QED  BY <1>1, <1>2

\* The other steps begin a callback, end it or leave it alone.
LEMMA OtherSteps ==
    ASSUME BenchInv, Next
    PROVE  \/ WriteTasks \/ GenerateHears \/ Judge
           \/ busy'["generate"].pc \in {"idle", "tasks"}
           \/ busy'["generate"] = busy["generate"]
           \/ /\ busy["generate"].pc \in Awaiting
              /\ busy'["generate"] = [busy["generate"] EXCEPT !.call = 0]
  <1>0. DOMAIN busy = Handlers /\ "generate" \in Handlers
    BY DEF BenchInv, HandlersInv, Handlers
  <1>1. ASSUME NEW h \in Handlers \ {"generate"}, NEW callback, Goes(h, callback)
        PROVE  busy'["generate"] = busy["generate"]
    BY <1>0, <1>1 DEF Goes
  <1>a. {"load", "follow", "save", "start", "api"} = Handlers \ {"generate"}
    BY DEF Handlers
  <1>2. ASSUME NEW method, NEW n, ClickGenerate(method, n) PROVE busy'["generate"].pc = "tasks"
    <2>1. \E callback : busy' = [busy EXCEPT !["generate"] = callback] /\ callback.pc = "tasks"
      <3>1. [Begun("tasks", workspace) EXCEPT !.method = method, !.count = Requested(method, n)].pc = "tasks"
        BY DEF Begun
      <3>. QED  BY <1>2, <3>1 DEF ClickGenerate, Goes
    <2>. QED  BY <1>0, <2>1
  <1>3. CASE Choose
    <2>1. busy'["generate"] = Idle
      BY <1>0, <1>3 DEF Choose, Index
    <2>. QED  BY <2>1 DEF Idle
  <1>4. CASE RefreshPersonas \/ (\E i \in 1 .. Len(display) : ChoosePersona(i)) \/ LoadHears
    BY <1>0, <1>4 DEF RefreshPersonas, ChoosePersona, LoadHears, Index
  <1>5. ASSUME NEW method, NEW n, NEW allow, ClickApi(method, n, allow), method \in Methods
        PROVE  busy'["generate"] = busy["generate"]
    <2>p. PICK next : next = [Begun("", ApiWorkspace) EXCEPT
                                !.method = method, !.count = n, !.allow = allow, !.tasks = 5]
      OBVIOUS
    <2>1. next.method = method
      BY <2>p DEF Begun
    <2>2. FirstRequest("api", next)
      BY <1>5, <2>p DEF ClickApi
    <2>3. \E callback : Goes("api", callback)
      BY <1>5, <2>1, <2>2 DEF FirstRequest, Requests, Methods
    <2>. QED  BY <1>1, <1>a, <2>3
  <1>6. CASE ClickApiForNone \/ ClickLoad \/ ClickSave \/ ClickStart \/ Tweak
             \/ (\E n \in TaskCounts \cup {0} : SaveTasks(n)) \/ (\E w \in Workspaces : SelectWorkspace(w))
    <2>1. UNCHANGED busy \/ (\E h \in Handlers \ {"generate"} : \E callback : Goes(h, callback))
      BY <1>6, <1>a DEF ClickApiForNone, ClickLoad, ClickSave, ClickStart, Tweak, SaveTasks, SelectWorkspace, Requests
    <2>. QED  BY <1>1, <2>1
  <1>7. CASE Progress \/ LoadPersona \/ SaveHears \/ ApiHears
    <2>1. UNCHANGED busy \/ (\E h \in Handlers \ {"generate"} : \E callback : Goes(h, callback))
      BY <1>7, <1>a DEF Progress, LoadPersona, SaveHears, ApiHears, Requests, Returns
    <2>. QED  BY <1>1, <2>1
  <1>8. ASSUME NEW h \in {"start", "api"}, Plane(h) PROVE busy'["generate"] = busy["generate"]
    <2>1. UNCHANGED busy \/ (\E callback : Goes(h, callback))
      BY <1>8 DEF Plane, CreateSession, Snapshot, CreateJob, JobSeen, Deadline, PlaneFails, Returns
    <2>. QED  BY <1>1, <1>a, <2>1
  <1>9. ASSUME NEW h \in Handlers, Timeout(h)
        PROVE  \/ busy'["generate"] = busy["generate"]
               \/ /\ busy["generate"].pc \in Awaiting
                  /\ busy'["generate"] = [busy["generate"] EXCEPT !.call = 0]
    BY <1>0, <1>9 DEF Timeout, Goes
  <1>10. CASE (\E j \in DOMAIN jobs : JobEnds(j)) \/ Served
              \/ (Restart /\ UNCHANGED <<tabVars, busy, planeVars, clicks>>)
    BY <1>10 DEF JobEnds, Served
  <1>11. CASE User
    BY <1>2, <1>4, <1>5, <1>6, <1>11 DEF User, Methods
  <1>. QED  BY <1>3, <1>4, <1>7, <1>8, <1>9, <1>10, <1>11 DEF Next, Tab

GatheringInv == AllCounted /\ GeneratorGathers

LEMMA GatheringStep ==
    ASSUME BenchInv, BenchInv', GatheringInv, Next
    PROVE  GatheringInv' /\ ArrivesWhole
  <1>1. AllCounted' /\ AllContinue
    BY RequestsCount DEF GatheringInv
  <1>2. ASSUME busy'["generate"].pc \in {"idle", "tasks"}
        PROVE  GeneratorGathers' /\ ArrivesWhole
    BY <1>2 DEF GeneratorGathers, GatherInv, ArrivesWhole
  <1>3. GeneratorGathers' /\ ArrivesWhole
    BY <1>1, <1>2, OtherSteps, WriteTasksGathers, GenerateHearsGathers, JudgeGathers, WaitingGathers
       DEF GatheringInv
  <1>. QED  BY <1>1, <1>3 DEF GatheringInv

\* Beside what BenchInv says, no request stores more than it asked for, and
\* what a callback of handle_generate has gathered and still asks for make up
\* the number of the click.
THEOREM GatheringInvAlways == Init /\ [][Next]_benchVars => []GatheringInv
  <1>1. Init => GatheringInv
    BY DEF Init, RuntimeInit, GatheringInv, AllCounted, GeneratorGathers, Handlers, Idle
  <1>2. BenchInv /\ BenchInv' /\ GatheringInv /\ [Next]_benchVars => GatheringInv'
    <2>1. ASSUME BenchInv, GatheringInv, UNCHANGED benchVars PROVE GatheringInv'
      <3>1. UNCHANGED <<calls, busy>>
        BY <2>1 DEF benchVars, runtimeVars
      <3>2. AllContinue /\ AllCounted'
        BY <2>1, <3>1, ContinuesItself DEF AllContinue, AllCounted, GatheringInv
      <3>. QED  BY <2>1, <3>1, <3>2, WaitingGathers DEF GatheringInv
    <2>. QED  BY <2>1, GatheringStep
  <1>. QED  BY <1>1, <1>2, BenchInvAlways, PTL

\* Whatever is asked for, of whom and in how many requests, a generation that
\* does not leave the choice to a model displays as many personas as were asked
\* for, none twice, or fewer only for want of people (select_or_create_personas,
\* handle_generate).
THEOREM AskedForArriveAlways == Init /\ [][Next]_benchVars => AskedForArrive
  <1>. DEFINE Arriving == LET callback == busy["generate"] IN
         busy'["generate"].pc = "choices" /\ ~At("generate", "choices") /\ display' # <<>> /\ ~callback.judged =>
           /\ Cardinality(Ids(display')) = Len(display')
           /\ Len(display') <= callback.count
           /\ Len(display') < callback.count =>
                /\ At("generate", "generate")
                /\ calls[callback.call].people < calls[callback.call].count
  <1>1. BenchInv /\ BenchInv' /\ GatheringInv /\ [Next]_benchVars => [Arriving]_busy
    <2>1. ArrivesWhole => Arriving
      BY DEF ArrivesWhole, Arrives
    <2>2. UNCHANGED benchVars => UNCHANGED busy
      BY DEF benchVars
    <2>. HIDE DEF Arriving
    <2>. QED  BY <2>1, <2>2, GatheringStep
  <1>. QED  BY <1>1, BenchInvAlways, GatheringInvAlways, PTL DEF AskedForArrive
=============================================================================
