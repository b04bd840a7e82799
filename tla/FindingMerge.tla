---------------------------- MODULE FindingMerge ----------------------------
(***************************************************************************)
(* How the report's texts are compared, grouped and merged (executor.py)   *)
(* and how the eyeson worker groups the pain points of a cohort            *)
(* (aggregate.js).  A text is the set of its words; what the code decides  *)
(* with regular expressions is membership of one of the vocabularies       *)
(* below.  A quoted literal counts as one word.                            *)
(***************************************************************************)
EXTENDS Integers, Sequences, FiniteSets, SequencesExt

CONSTANTS Praise, Problem,      \* _PRAISE_MARKERS and _PROBLEM_MARKERS
          Harness,              \* _RUN_DIAGNOSTIC_PATTERNS
          Stopwords, Quality,   \* words not compared in a title or a praise
          Quoted,               \* literals between quotation marks
          SeenAcross,           \* the words of "Seen across n of the tested personas"
          None

ASSUME SeenAcrossAssumption == IsFiniteSet(SeenAcross)

Severities == <<"low", "medium", "high", "critical">>

Rank(severity) == CHOOSE r \in DOMAIN Severities : Severities[r] = severity

\* A finite set in an order, given by what comes before each element.
Ordered(S, before) == [k \in 1..Cardinality(S) |-> CHOOSE x \in S : Cardinality(before[x]) = k - 1]

Ascending(S) == Ordered(S, [i \in S |-> {j \in S : j < i}])

\* Python's comprehension with an "if": the items at some places, in their order.
Those(s, places) ==
    LET kept == Ascending(places)
    IN  [k \in DOMAIN kept |-> s[kept[k]]]

\* Python's max: the first place of a nonempty sequence whose key no other exceeds.
MaxBy(s, key) ==
    s[CHOOSE i \in DOMAIN s : /\ \A j \in DOMAIN s : key[j] <= key[i]
                              /\ \A j \in 1..(i - 1) : key[j] < key[i]]

\* Python's stable sort, by decreasing key.
SortedBy(s, key) ==
    LET before == [i \in DOMAIN s |-> {j \in DOMAIN s : key[j] > key[i] \/ (key[j] = key[i] /\ j < i)}]
        order == Ordered(DOMAIN s, before)
    IN  [k \in DOMAIN s |-> s[order[k]]]

-----------------------------------------------------------------------------
ReadsAsPraise(item) ==
    LET text == item.title \cup item.summary
    IN  text \cap Praise # {} /\ text \cap Problem = {}

IsRunDiagnostic(item) == (item.title \cup item.summary) \cap Harness # {}

TitleTokens(text, drop) == text \ (Stopwords \cup drop)

TextTokens(text) == text \ Stopwords

\* _jaccard(left, right) >= percent / 100; the jaccard of two empty texts is 0.
Alike(left, right, percent) ==
    /\ left \cup right # {}
    /\ 100 * Cardinality(left \cap right) >= percent * Cardinality(left \cup right)

SameIssue(l, r) ==
    \/ Alike(TitleTokens(l.title, {}), TitleTokens(r.title, {}), 33)
    \/ Alike(TextTokens(l.summary), TextTokens(r.summary), 18)

SamePraise(l, r) == Alike(TitleTokens(l.title, Quality), TitleTokens(r.title, Quality), 25)

\* The pairs _cluster_by_title compares and finds alike.
IssuePairs(items) ==
    {p \in (DOMAIN items) \X (DOMAIN items) : p[1] < p[2] /\ SameIssue(items[p[1]], items[p[2]])}

PraisePairs(items) ==
    {p \in (DOMAIN items) \X (DOMAIN items) : p[1] < p[2] /\ SamePraise(items[p[1]], items[p[2]])}

\* Mutant: one greedy pass, each item into the first block that has one like it.
GreedyBlocks(items, pairs) ==
    LET place(i, blocks) ==
            LET like == {b \in blocks : \E j \in b : <<j, i>> \in pairs}
                home == CHOOSE b \in like : TRUE
            IN  IF like = {} THEN blocks \cup {{i}} ELSE (blocks \ {home}) \cup {home \cup {i}}
    IN  FoldLeft(LAMBDA blocks, i : place(i, blocks), {}, [i \in DOMAIN items |-> i])

\* The sets of the union-find once every pair has been joined.
Blocks(items, pairs) ==
    LET join(pair, blocks) ==
            LET joined == {b \in blocks : b \cap {pair[1], pair[2]} # {}}
            IN  (blocks \ joined) \cup {UNION joined}
    IN  FoldSet(join, {{i} : i \in DOMAIN items}, pairs)

\* The clusters, in the order their first items appear in.
Clusters(items, pairs) ==
    LET blocks == Blocks(items, pairs)
        first == [b \in blocks |-> CHOOSE i \in b : \A j \in b : i <= j]
        order == Ordered(blocks, [b \in blocks |-> {a \in blocks : first[a] < first[b]}])
    IN  [k \in DOMAIN order |-> Those(items, order[k])]

-----------------------------------------------------------------------------
Severity(items) == [k \in DOMAIN items |-> Rank(items[k].severity)]

\* "from" is the verification's own trace of the observations behind a finding.
MergeCluster(cluster) ==
    LET having == Those(cluster, {k \in DOMAIN cluster : cluster[k].crop # None})
    IN  IF Len(cluster) = 1 THEN cluster[1]
        ELSE [MaxBy(cluster, Severity(cluster)) EXCEPT
                !.personas = UNION {item.personas : item \in ToSet(cluster)},
                !.crop = IF @ = None /\ having # <<>> THEN having[1].crop ELSE @,
                !.region = \E item \in ToSet(cluster) : item.region,
                !.from = UNION {item.from : item \in ToSet(cluster)}]

MergeSimilarFindings(findings) ==
    LET clusters == Clusters(findings, IssuePairs(findings))
    IN  [k \in DOMAIN clusters |-> MergeCluster(clusters[k])]

\* One entry for what several of the cohort praise, in the fullest words.
MergePraise(cluster) ==
    LET primary == MaxBy(cluster, [k \in DOMAIN cluster |-> Cardinality(cluster[k].summary)])
    IN  [title |-> primary.title, summary |-> primary.summary,
         personas |-> UNION {item.personas : item \in ToSet(cluster)},
         from |-> UNION {item.from : item \in ToSet(cluster)}]

MergeStrengths(strengths) ==
    LET titled == Those(strengths, {k \in DOMAIN strengths : strengths[k].title # {}})
        clusters == Clusters(titled, PraisePairs(titled))
        entries == [k \in DOMAIN clusters |-> MergePraise(clusters[k])]
    IN  SortedBy(entries, [k \in DOMAIN entries |-> Cardinality(entries[k].personas)])

-----------------------------------------------------------------------------
\* aggregateCohort: one group per signature, in order of first appearance.
Signature(point) == <<point.element, point.summary>>

Alikes(points, i) == {j \in DOMAIN points : Signature(points[j]) = Signature(points[i])}

RootCauses(points) ==
    LET firsts == Ascending({i \in DOMAIN points : \A j \in Alikes(points, i) : i <= j})
        cause(i) == [ids |-> LET members == Those(points, Alikes(points, i))
                             IN  [m \in DOMAIN members |-> members[m].id],
                     users |-> {points[j].persona : j \in Alikes(points, i)}]
    IN  [k \in DOMAIN firsts |-> cause(firsts[k])]

\* pain_point_by_id: the last of several points with one id is the one found.
ById(points, id) == points[SelectLastInSeq(points, LAMBDA p : p.id = id)]

\* _synthesize_pain_points: what a root cause is reported as.
Synthesis(points, cause) ==
    LET members == [m \in DOMAIN cause.ids |-> ById(points, cause.ids[m])]
        lead == members[1]
        shared == IF Cardinality(cause.users) > 1 THEN SeenAcross ELSE {}
    IN  [title |-> lead.title, summary |-> lead.summary \cup shared,
         severity |-> MaxBy(members, Severity(members)).severity, source |-> "vision",
         run |-> None, persona |-> None, personas |-> cause.users,
         cited |-> None, crop |-> lead.shot, region |-> lead.element # None,
         flow |-> "route", quotes |-> {}, redesign |-> FALSE,
         from |-> {m.id : m \in ToSet(members)}]

Synthesized(points) ==
    LET causes == RootCauses(points)
    IN  [k \in DOMAIN causes |-> Synthesis(points, causes[k])]
=============================================================================
