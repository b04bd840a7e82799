----------------------------- MODULE PersonaPool -----------------------------
(***************************************************************************)
(* The group of pool entries a lookup adopts (github_pool.py): of the      *)
(* entries nearest to the request, a group spread out in the space of      *)
(* traits.  An entry of index.json has a distance to the request           *)
(* (_combined_distance) and a place in the space of traits; both are given *)
(* with it.                                                                *)
(***************************************************************************)
EXTENDS Integers, Sequences, FiniteSets, SequencesExt

\* scored: a stable order by distance, of positions in the index.
Nearer(index, i, k) ==
    \/ index[i].distance < index[k].distance
    \/ index[i].distance = index[k].distance /\ i < k

Scored(index) ==
    [rank \in DOMAIN index |->
        CHOOSE i \in DOMAIN index :
          Cardinality({k \in DOMAIN index : Nearer(index, k, i)}) = rank - 1]

\* candidates: the top_k nearest.
TopK(count) == IF 3 * count > 8 THEN 3 * count ELSE 8

Candidates(index, count) ==
    LET scored == Scored(index)
        width == IF Len(index) < TopK(count) THEN Len(index) ELSE TopK(count)
    IN  [rank \in 1..width |-> index[scored[rank]]]

\* _trait_vector_distance, on a line.
Separation(a, b) == IF a.trait < b.trait THEN b.trait - a.trait ELSE a.trait - b.trait

\* The first of the remaining ranks that is farthest from those selected.
Farthest(candidates, selected) ==
    LET gap == [r \in DOMAIN candidates |->
                  Min({Separation(candidates[r], candidates[s]) : s \in ToSet(selected)})]
        remaining == DOMAIN candidates \ ToSet(selected)
        widest == {r \in remaining : \A k \in remaining : gap[k] <= gap[r]}
    IN  Min(widest)

\* Mutant of SelectPoolGroup: the diversified sample is drawn from every entry.
SelectAnywhere(index, count) ==
    LET selected[n \in 1..count] ==
          IF n = 1 THEN <<1>> ELSE Append(selected[n - 1], Farthest(index, selected[n - 1]))
    IN  IF count <= 0 \/ index = <<>> THEN <<>>
        ELSE IF Len(index) <= count THEN index
        ELSE [n \in 1..count |-> index[selected[count][n]]]

SelectPoolGroup(index, count) ==
    LET candidates == Candidates(index, count)
        selected[n \in 1..count] ==
          IF n = 1 THEN <<1>> ELSE Append(selected[n - 1], Farthest(candidates, selected[n - 1]))
    IN  IF count <= 0 \/ index = <<>> THEN <<>>
        ELSE IF Len(candidates) <= count THEN candidates
        ELSE [n \in 1..count |-> candidates[selected[count][n]]]

-----------------------------------------------------------------------------
\* The reference: what "a diversified sample drawn from the smallest range of
\* nearest candidates" means of a group, however it is found.  As many as can
\* be, none twice, the nearest first, none farther than the range reaches; and
\* no entry of the range that was passed over lies farther from the group
\* picked before than the one picked last.
IsRangedGroup(group, index, count) ==
    LET range == {i \in DOMAIN index :
                    Cardinality({k \in DOMAIN index : Nearer(index, k, i)}) < TopK(count)}
        members == {index[i] : i \in range}
        Gap(entry, others) == Min({Separation(entry, o) : o \in others})
        before == ToSet(SubSeq(group, 1, Len(group) - 1))
    IN  /\ Len(group) = IF Len(index) < count THEN Len(index) ELSE count
        /\ Cardinality(ToSet(group)) = Len(group)
        /\ ToSet(group) \subseteq members
        /\ group # <<>> => \A m \in members : group[1].distance <= m.distance
        /\ Len(group) > 1 /\ Len(group) < Cardinality(range) =>
             \A m \in members \ ToSet(group) :
               Gap(m, before) <= Gap(group[Len(group)], before)
=============================================================================
