--------------------------- MODULE ReportPipeline ---------------------------
(***************************************************************************)
(* A combined_test job (apps/api/executor.py, JobExecutor._combined_test): *)
(* it drives one journey per persona, has the journeys' screenshots        *)
(* critiqued by the eyeson worker, aggregates the critiques over the       *)
(* personas, and compiles what both stages observed into one report, a     *)
(* slide deck and the artifacts of the job.                                *)
(***************************************************************************)
EXTENDS FindingMerge

CONSTANTS Cohort,          \* the job's persona_artifacts: a sequence of personas
          Tasks,           \* the job's tasks, each a text
          Outcomes,        \* the runs a journey worker may answer with
          Critiques,       \* the critiques the eyeson worker may answer with
          SampleLimit,     \* EYESON_VISION_SCREENSHOT_LIMIT
          ThoughtLimit,    \* the limit of _persona_thoughts
          RedesignLimit,   \* EYESON_REDESIGN_LIMIT
          PriorityLimit, PreserveLimit

ASSUME LimitAssumption ==
    /\ SampleLimit \in Int
    /\ ThoughtLimit \in Nat \ {0}
    /\ RedesignLimit \in Int
    /\ PriorityLimit \in Nat \ {0}
    /\ PreserveLimit \in Nat

Listed(s) == s \in Seq(ToSet(s))

\* A list of items whose texts are finite.
Texts(items) == Listed(items) /\ \A k \in DOMAIN items : IsFiniteSet(items[k].title) /\ IsFiniteSet(items[k].summary)

ASSUME CohortAssumption == Listed(Cohort) /\ None \notin ToSet(Cohort)

ASSUME TasksAssumption == Listed(Tasks) /\ \A k \in DOMAIN Tasks : IsFiniteSet(Tasks[k])

ASSUME OutcomesAssumption ==
    \A outcome \in Outcomes :
        LET verdict == outcome.verdict
        IN  /\ DOMAIN outcome = {"verdict", "shots", "doms", "seen", "reasoning", "timeline"}
            /\ Texts(verdict.blockers) /\ Texts(verdict.uxFindings) /\ Texts(verdict.suggestedImprovements)
            /\ Listed(verdict.criteria)
            /\ \A k \in DOMAIN verdict.criteria : IsFiniteSet(verdict.criteria[k].explanation)
            /\ IsFiniteSet(verdict.account)
            /\ Listed(outcome.shots) /\ Listed(outcome.reasoning) /\ Listed(outcome.timeline)
            /\ \A s \in ToSet(outcome.reasoning) \cup ToSet(outcome.timeline) : IsFiniteSet(s.text) /\ s.at \in Int

\* The worker leaves out what comes without a title (normalizeIssues, normalizeStrengths).
ASSUME CritiquesAssumption ==
    \A answer \in Critiques :
        /\ Texts(answer.issues) /\ Texts(answer.strengths)
        /\ \A item \in ToSet(answer.issues) \cup ToSet(answer.strengths) : item.title # {}
        /\ \A k \in DOMAIN answer.issues : answer.issues[k].severity \in ToSet(Severities)

VARIABLES pc, observed, journeys, toCritique, points, strengths, refused,
          synthesis, findings, preserve, diagnostics, unverified, limitation, narration, outputs

vars == <<pc, observed, journeys, toCritique, points, strengths, refused,
          synthesis, findings, preserve, diagnostics, unverified, limitation, narration, outputs>>

vision == <<toCritique, points, strengths, refused, synthesis>>
report == <<findings, preserve, diagnostics, unverified, limitation, narration, outputs>>

Init ==
    /\ pc = "load"
    /\ observed \in BOOLEAN                \* JOURNEY_WORKER_URL is set
    /\ journeys = <<>> /\ toCritique = <<>>
    /\ points = <<>> /\ strengths = <<>> /\ refused = FALSE /\ synthesis = <<>>
    /\ findings = <<>> /\ preserve = <<>> /\ diagnostics = <<>> /\ unverified = <<>>
    /\ limitation = None /\ narration = <<>> /\ outputs = {}

-----------------------------------------------------------------------------
(* Captures.  A capture is <<run, stem>>; a stem is [action, phase], where *)
(* the framing shots have the phases "initial-view" and "final-view".      *)

\* The DOM captures in capture order: by action, "before" first.
CaptureOrder(doms) ==
    LET first(a, b) == a.action < b.action \/ (a.action = b.action /\ a.phase = "before" /\ b.phase = "after")
    IN  Ordered(doms, [d \in doms |-> {c \in doms : first(c, d)}])

\* _elements_for_screenshot: the DOM capture that describes a screenshot, or None.
DomFor(stem, doms) ==
    LET other(phase) == [action |-> stem.action, phase |-> phase]
        ordered == CaptureOrder(doms)
    IN  CASE doms = {} -> None
          [] stem \in doms -> stem
          [] stem.phase = "initial-view" -> ordered[1]
          [] stem.phase = "final-view" -> ordered[Len(ordered)]
          [] other("after") \in doms -> other("after")
          [] other("before") \in doms -> other("before")
          [] OTHER -> None

\* limit of the items, from the first on, at equal distances.
EvenlySpaced(items, limit) ==
    IF Len(items) <= limit \/ limit <= 0 THEN items
    ELSE [k \in 1..limit |-> items[(((k - 1) * Len(items)) \div limit) + 1]]

Sampled(journey) ==
    LET paired == Those(journey.shots, {k \in DOMAIN journey.shots : DomFor(journey.shots[k], journey.doms) # None})
        limit == IF SampleLimit > 1 THEN SampleLimit ELSE 1
        chosen == EvenlySpaced(IF paired # <<>> THEN paired ELSE journey.shots, limit)
    IN  [k \in DOMAIN chosen |-> [persona |-> journey.persona, run |-> journey.run, stem |-> chosen[k],
                                  dom |-> DomFor(chosen[k], journey.doms)]]

-----------------------------------------------------------------------------
(* What a verdict says. *)

\* Mutant: the journey worker's own severity goes through.
UnmappedSeverity(note, fallback) == note.severity

SeverityOf(note, fallback) ==
    CASE note.severity = "info" -> "low"
      [] note.severity = "minor" -> "medium"
      [] note.severity = "major" -> "high"
      [] note.severity = "critical" -> "critical"
      [] OTHER -> fallback

\* A finding of the first stage names its run and one persona.
Observation(journey, source, at, severity, title, summary, category, cited) ==
    [title |-> title, summary |-> summary, severity |-> severity, source |-> source,
     run |-> journey.run, persona |-> journey.persona, personas |-> {}, cited |-> cited,
     crop |-> None, region |-> FALSE, flow |-> category, quotes |-> {}, redesign |-> FALSE,
     from |-> {[run |-> journey.run, bucket |-> source, at |-> at]}]

\* The notes a bucket reports: uxFindings is mixed, and its praise is not a problem.
Reported(source, notes) == {n \in DOMAIN notes : ~(source = "uxFindings" /\ ReadsAsPraise(notes[n]))}

\* What a note is called that comes without a title.
Titled(note, otherwise) == IF note.title = {} THEN otherwise ELSE note.title

Bucket(journey, source, notes, fallback) ==
    LET about(n) == Observation(journey, source, n, SeverityOf(notes[n], fallback),
                                Titled(notes[n], {source, "finding"}), notes[n].summary,
                                notes[n].category, notes[n].cited)
        reported == Ascending(Reported(source, notes))
    IN  [k \in DOMAIN reported |-> about(reported[k])]

\* Bad when met for the fail criterion, when not met for the pass criterion,
\* and for both when it could not be judged.
IsPainPoint(criterion) ==
    criterion.result \in {"blocked", IF criterion.id = "tasks-blocked" THEN "met" ELSE "not-met"}

CriterionTitle(criterion) ==
    IF criterion.id = "tasks-blocked" THEN {"journey", "blocked", "before", "completion"}
    ELSE IF criterion.result = "blocked" THEN {"journey", "blocked", "before", "tasks", "could", "judged"}
    ELSE {"users", "could", "finish", "tasks", "they", "came"}

FailedCriteria(journey) ==
    LET criteria == journey.verdict.criteria
        bad == Ascending({n \in DOMAIN criteria : IsPainPoint(criteria[n])})
        grave(c) == c.result = "blocked" \/ c.id = "tasks-blocked"
        about(n) == Observation(journey, "criteria", n, IF grave(criteria[n]) THEN "critical" ELSE "high",
                                CriterionTitle(criteria[n]), criteria[n].explanation,
                                IF grave(criteria[n]) THEN "blocker" ELSE "ux", None)
    IN  [k \in DOMAIN bad |-> about(bad[k])]

PainPointsFromJourney(journey) ==
    Bucket(journey, "blockers", journey.verdict.blockers, "critical")
    \o Bucket(journey, "uxFindings", journey.verdict.uxFindings, "medium")
    \o Bucket(journey, "suggestedImprovements", journey.verdict.suggestedImprovements, "low")
    \o FailedCriteria(journey)

PraiseFromVerdict(journey) ==
    LET notes == journey.verdict.uxFindings
        praise == Ascending({n \in DOMAIN notes : ReadsAsPraise(notes[n])})
    IN  [k \in DOMAIN praise |->
           [title |-> Titled(notes[praise[k]], {"Design", "decision", "that", "works"}),
            summary |-> notes[praise[k]].summary, personas |-> {journey.persona},
            from |-> {[run |-> journey.run, bucket |-> "uxFindings", at |-> praise[k]]}]]

\* One strength per persona the synthesis credits with a finding that is praise.
PraiseAsStrengths(finding) ==
    LET credited == SetToSeq(finding.personas)
    IN  [k \in DOMAIN credited |-> [title |-> finding.title, summary |-> finding.summary,
                                    personas |-> {credited[k]}, from |-> finding.from]]

\* Pass criteria that were met, one entry each, with the personas that met it.
PreservedFromVerdicts ==
    LET met == {j \in ToSet(journeys) : \E c \in ToSet(j.verdict.criteria) :
                    c.id = "tasks-completed" /\ c.result = "met"}
    IN  IF met = {} THEN <<>>
        ELSE <<[title |-> {"Users", "can", "finish", "tasks"}, summary |-> {},
                personas |-> {j.persona : j \in met}, from |-> {}]>>

Each(s, Op(_)) == FlattenSeq([k \in DOMAIN s |-> Op(s[k])])

-----------------------------------------------------------------------------
(* The persona's account of its run. *)

\* The items that say something.
Told(items) == Those(items, {k \in DOMAIN items : items[k].text # {}})

Thought(kind, source, said) == [kind |-> kind, source |-> source, text |-> said.text, at |-> said.at]

VerdictThoughts(journey) ==
    LET verdict == journey.verdict
        written(text) == [text |-> text, at |-> 0]
        prose == Told(<<written(verdict.account)>>
                      \o [n \in DOMAIN verdict.blockers |-> written(verdict.blockers[n].summary)]
                      \o [n \in DOMAIN verdict.uxFindings |-> written(verdict.uxFindings[n].summary)])
    IN  [k \in DOMAIN prose |-> Thought("reasoning", "verdict", prose[k])]

AllThoughts(journey) ==
    LET live == Told(journey.reasoning)
        loud == Told(journey.timeline)
        told == [k \in DOMAIN live |-> Thought("reasoning", "model.reasoning", live[k])]
                \o [k \in DOMAIN loud |-> Thought(loud[k].kind, "timeline", loud[k])]
    IN  IF \E t \in ToSet(told) : t.kind = "reasoning" THEN told ELSE told \o VerdictThoughts(journey)

Chronological(items) == SortedBy(items, [k \in DOMAIN items |-> -items[k].at])

\* The first of some items, as many as a limit allows.
UpTo(limit, items) == SubSeq(items, 1, IF Len(items) < limit THEN Len(items) ELSE limit)

\* Mutant: the first thoughts of the run, whatever they are.
EarliestThoughts(journey) == UpTo(ThoughtLimit, Chronological(AllThoughts(journey)))

PersonaThoughts(journey) ==
    LET all == AllThoughts(journey)
        reasoning == Those(all, {k \in DOMAIN all : all[k].kind # "action"})
        actions == Those(all, {k \in DOMAIN all : all[k].kind = "action"})
    IN  IF Len(all) <= ThoughtLimit THEN all
        ELSE IF Len(reasoning) >= ThoughtLimit THEN UpTo(ThoughtLimit, reasoning)
        ELSE Chronological(reasoning \o UpTo(ThoughtLimit - Len(reasoning), actions))

\* thoughts_by_persona: a dictionary, where the last run of a persona stays.
ThoughtsByPersona(runs) ==
    [p \in {j.persona : j \in ToSet(runs)} |->
        PersonaThoughts(runs[SelectLastInSeq(runs, LAMBDA j : j.persona = p)])]

Narration == ThoughtsByPersona(journeys)

-----------------------------------------------------------------------------
(* The stages of the job.  Everything that raises fails it. *)

Running(stage) == pc = stage

Fail == pc' = "failed" /\ UNCHANGED <<observed, journeys, vision, report>>

Load ==
    /\ Running("load") /\ Cohort # <<>> /\ Tasks # <<>>
    /\ pc' = IF observed THEN "journeys" ELSE "infer"
    /\ UNCHANGED <<observed, journeys, vision, report>>

\* A persona artifact has expired, belongs to another session or is of another kind.
LoadFails == Running("load") /\ Fail

\* A run is known by the persona that made it.
Journey(p, outcome) ==
    [field \in DOMAIN outcome \cup {"persona", "run"} |-> IF field \in DOMAIN outcome THEN outcome[field] ELSE p]

RunJourney(outcome) ==
    LET next == Len(journeys) + 1
    IN  /\ Running("journeys") /\ next <= Len(Cohort)
        /\ journeys' = Append(journeys, Journey(Cohort[next], outcome))
        /\ UNCHANGED <<pc, observed, vision, report>>

\* One refused or failed journey fails the job, and the earlier ones with it.
JourneyFails == Running("journeys") /\ Len(journeys) < Len(Cohort) /\ Fail

JourneysDone ==
    /\ Running("journeys") /\ Len(journeys) = Len(Cohort)
    /\ toCritique' = Each(journeys, Sampled)
    /\ pc' = "critique"
    /\ UNCHANGED <<observed, journeys, points, strengths, refused, synthesis, report>>

PointsOf(capture, critique) ==
    [n \in DOMAIN critique.issues |-> LET issue == critique.issues[n]
                                         element == IF capture.dom = None THEN None ELSE issue.element
                                     IN
        [id |-> [run |-> capture.run, title |-> issue.title, element |-> element],
         persona |-> capture.persona, title |-> issue.title, summary |-> issue.summary,
         severity |-> issue.severity, element |-> element, shot |-> <<capture.run, capture.stem>>]]

StrengthsOf(capture, critique) ==
    [n \in DOMAIN critique.strengths |->
        [title |-> critique.strengths[n].title, summary |-> critique.strengths[n].summary,
         personas |-> {capture.persona},
         from |-> {[run |-> capture.run, stem |-> capture.stem, strength |-> n]}]]

Critique(answer) ==
    /\ Running("critique") /\ toCritique # <<>>
    /\ points' = points \o PointsOf(Head(toCritique), answer)
    /\ strengths' = strengths \o StrengthsOf(Head(toCritique), answer)
    /\ toCritique' = Tail(toCritique)
    /\ UNCHANGED <<pc, observed, journeys, refused, synthesis, report>>

\* The capture cannot be read, or the worker refuses it: the next one is tried.
CritiqueRefused ==
    /\ Running("critique") /\ toCritique # <<>>
    /\ toCritique' = Tail(toCritique)
    /\ refused' = TRUE
    /\ UNCHANGED <<pc, observed, journeys, points, strengths, synthesis, report>>

\* An answer of the worker, a critique or the aggregation, breaks off:
\* http.client.IncompleteRead is none of the errors caught.
CritiqueBreaksOff == Running("critique") /\ (\E j \in ToSet(journeys) : j.shots # <<>>) /\ Fail

\* A failed aggregation is printed and leaves no finding of the second stage.
Aggregate ==
    /\ Running("critique") /\ toCritique = <<>>
    /\ synthesis' \in {<<>>, Synthesized(points)}
    /\ pc' = "compile"
    /\ UNCHANGED <<observed, journeys, toCritique, points, strengths, refused, report>>

Blank == [title |-> {"no", "pain", "points"}, summary |-> {}, severity |-> "low", source |-> "none",
          run |-> None, persona |-> None, personas |-> {}, cited |-> None, crop |-> None, region |-> FALSE,
          flow |-> "ux", quotes |-> {}, redesign |-> FALSE, from |-> {}]

IsPlaceholder(finding) == finding.title = Blank.title

\* Mutant: praise of the synthesis stays among the issues.
AllSynthesized == synthesis

VisionFindings == Those(synthesis, {k \in DOMAIN synthesis : ~ReadsAsPraise(synthesis[k])})

VisionPraise == Those(synthesis, {k \in DOMAIN synthesis : ReadsAsPraise(synthesis[k])})

Gathered == LET all == Each(journeys, PainPointsFromJourney) \o VisionFindings
            IN  IF all = <<>> THEN <<Blank>> ELSE all

Compile ==
    /\ Running("compile")
    /\ findings' = Gathered
    /\ preserve' = MergeStrengths(strengths \o Each(journeys, PraiseFromVerdict)
                                  \o Each(VisionPraise, PraiseAsStrengths))
                   \o PreservedFromVerdicts
    /\ limitation' = IF VisionFindings # <<>> THEN "synthesized"
                     ELSE IF refused /\ points = <<>> THEN "attempt failed" ELSE "not configured"
    /\ pc' = "merge"
    /\ UNCHANGED <<observed, journeys, vision, diagnostics, unverified, narration, outputs>>

\* Without a journey worker the findings are inferred from the tasks.
Infer ==
    /\ Running("infer")
    /\ findings' = [n \in DOMAIN Tasks |->
            [Blank EXCEPT !.title = {"Validate", "task", "clarity"} \cup Tasks[n], !.severity = "medium",
                          !.source = "task_text"]]
    /\ limitation' = "inferred"
    /\ pc' = "merge"
    /\ UNCHANGED <<observed, journeys, vision, preserve, diagnostics, unverified, narration, outputs>>

\* What is merged: the findings that are not of the harness.
Issues(items) == Those(items, {k \in DOMAIN items : ~IsRunDiagnostic(items[k])})

Merge ==
    /\ Running("merge")
    /\ diagnostics' = Those(findings, {k \in DOMAIN findings : IsRunDiagnostic(findings[k])})
    /\ findings' = MergeSimilarFindings(Issues(findings))
    /\ pc' = "verify"
    /\ UNCHANGED <<observed, journeys, vision, preserve, unverified, limitation, narration, outputs>>

\* The literals a text quotes that no captured text is or begins with.
Corpus == UNION {j.seen : j \in ToSet(journeys)}

Invented(finding) ==
    IF Corpus = {} THEN {} ELSE ((finding.title \cup finding.summary) \cap Quoted) \ Corpus

DropUnverifiableQuotes ==
    /\ Running("verify")
    /\ findings' = Those(findings, {k \in DOMAIN findings : Invented(findings[k]) = {}})
    /\ unverified' = Those(findings, {k \in DOMAIN findings : Invented(findings[k]) # {}})
    /\ narration' = Narration
    /\ pc' = "attach"
    /\ UNCHANGED <<observed, journeys, vision, preserve, diagnostics, limitation, outputs>>

-----------------------------------------------------------------------------
\* The personas a finding is shown to concern.
Affected(f) == IF f.personas # {} THEN f.personas ELSE {f.persona} \ {None}

\* What a persona thought that covers most of a text, where it covers enough of it.
Covered(subject, text) == Cardinality(subject \cap TextTokens(text))

BestThought(subject, thoughts) ==
    MaxBy(thoughts, [k \in DOMAIN thoughts |-> Covered(subject, thoughts[k].text)])

PersonaEvidence(f) ==
    LET subject == TextTokens(f.title) \cup TextTokens(f.summary)
        reasoning(p) == Those(narration[p], {k \in DOMAIN narration[p] : narration[p][k].kind = "reasoning"})
        quoted == {p \in Affected(f) \cap DOMAIN narration :
                     /\ reasoning(p) # <<>> /\ subject # {}
                     /\ 100 * Covered(subject, BestThought(subject, reasoning(p)).text) >= 35 * Cardinality(subject)}
    IN  {[persona |-> p, text |-> BestThought(subject, reasoning(p)).text] : p \in quoted}

\* Mutant: the framing shot of the last run.
LastScreenshot(f) ==
    LET shots == IF journeys = <<>> THEN <<>> ELSE journeys[Len(journeys)].shots
    IN  CASE f.crop # None -> f.crop
          [] f.crop = None /\ f.cited # None -> <<f.run, f.cited>>
          [] f.crop = None /\ f.cited = None /\ shots # <<>> -> <<journeys[Len(journeys)].run, Last(shots)>>
          [] OTHER -> None

\* The run's own framing shot, else its last, where the verdict cites none.
VerdictScreenshot(f) ==
    LET index == SelectLastInSeq(journeys, LAMBDA j : j.run = f.run)
        shots == IF index = 0 THEN <<>> ELSE journeys[index].shots
        framing == IF f.source \in {"blockers", "criteria"} THEN "final-view" ELSE "initial-view"
        framed == Those(shots, {k \in DOMAIN shots : shots[k].phase = framing})
    IN  CASE f.crop # None -> f.crop
          [] f.crop = None /\ f.cited # None -> <<f.run, f.cited>>
          [] f.crop = None /\ f.cited = None /\ framed # <<>> -> <<f.run, framed[1]>>
          [] f.crop = None /\ f.cited = None /\ framed = <<>> /\ shots # <<>> -> <<f.run, Last(shots)>>
          [] OTHER -> None

Attach ==
    /\ Running("attach")
    /\ findings' = [k \in DOMAIN findings |->
            [findings[k] EXCEPT !.quotes = PersonaEvidence(findings[k]),
                                !.region = @ /\ findings[k].crop # None,
                                !.crop = VerdictScreenshot(findings[k])]]
    /\ pc' = "redesign"
    /\ UNCHANGED <<observed, journeys, vision, preserve, diagnostics, unverified, limitation, narration, outputs>>

\* The most severe findings, each with a model call that may yield nothing.
Worst ==
    LET ranked == SortedBy([k \in DOMAIN findings |-> k], Severity(findings))
    IN  {ranked[n] : n \in {m \in DOMAIN ranked : m <= RedesignLimit}}

AttachRedesigns ==
    /\ Running("redesign")
    /\ \E drawn \in SUBSET {k \in Worst : ~IsPlaceholder(findings[k])} :
          findings' = [k \in DOMAIN findings |-> [findings[k] EXCEPT !.redesign = k \in drawn]]
    /\ pc' = "publish"
    /\ UNCHANGED <<observed, journeys, vision, preserve, diagnostics, unverified, limitation, narration, outputs>>

-----------------------------------------------------------------------------
(* What the report, the deck and the artifacts are made of. *)

\* The sections of the report, the longest first: a flow and the findings that belong to it.
FlowGroups ==
    LET sharing(k) == {j \in DOMAIN findings : findings[j].flow = findings[k].flow}
        firsts == Ascending({k \in DOMAIN findings : \A j \in sharing(k) : k <= j})
        groups == [n \in DOMAIN firsts |-> [flow |-> findings[firsts[n]].flow, of |-> Ascending(sharing(firsts[n]))]]
    IN  SortedBy(groups, [n \in DOMAIN groups |-> Len(groups[n].of)])

\* By severity, then by the number of personas affected, who are of the cohort.
PriorityOrder ==
    LET weight(f) == (Len(Cohort) + 1) * Rank(f.severity) + Cardinality(f.personas)
    IN  UpTo(PriorityLimit, SortedBy(findings, [k \in DOMAIN findings |-> weight(findings[k])]))

IsBlocking(finding) == finding.severity \in {"critical", "high"}

BlockingCount == Cardinality({k \in DOMAIN findings : IsBlocking(findings[k])})

\* Mutant: the entry that stands for no issue is counted as one.
SummaryOfAll == [issues |-> Len(findings), working |-> Len(preserve), blocking |-> BlockingCount]

\* The findings that are issues.
Real == Those(findings, {k \in DOMAIN findings : ~IsPlaceholder(findings[k])})

\* The figures of _executive_summary.
Summary ==
    [issues |-> Len(Real), working |-> Len(preserve),
     blocking |-> Cardinality({k \in DOMAIN Real : IsBlocking(Real[k])})]

\* One slide: what it shows, and of which finding or strength.
Slide(shows, of) == [shows |-> shows, of |-> of]

Slides ==
    LET kept == UpTo(PreserveLimit, preserve)
        one(shows) == <<Slide(shows, 0)>>
        only(condition, slides) == IF condition THEN slides ELSE <<>>
    IN  one("title") \o one("contents") \o one("introduction") \o one("method") \o one("user issues")
        \o FlattenSeq([k \in DOMAIN Real |-> <<Slide("issue title", k), Slide("issue", k)>>])
        \o only(preserve # <<>>, one("elements to preserve"))
        \o only(Len(preserve) > Len(kept), one("what is working"))
        \o [k \in DOMAIN kept |-> Slide("keep", k)]
        \o only(Real = <<>> /\ preserve = <<>>, one("no findings"))
        \o only(PriorityOrder # <<>>, one("what to fix first"))
        \o one("credits")

\* _presentation: the page lists every entry, with at most two quotes of each.
Quotes(f) == IF Cardinality(f.quotes) < 2 THEN Cardinality(f.quotes) ELSE 2

Presentation ==
    [entries |-> [k \in DOMAIN findings |-> [of |-> k, quotes |-> Quotes(findings[k])]],
     none |-> findings = <<>>,
     first |-> [k \in DOMAIN PriorityOrder |-> PriorityOrder[k].title],
     preserve |-> [k \in DOMAIN preserve |-> preserve[k].title]]

\* format_ux_report (app.py): the same, less the entry that stands for no issue.
Review ==
    LET issues == Ascending({k \in DOMAIN findings : ~IsPlaceholder(findings[k])})
    IN  [issues |-> [n \in DOMAIN issues |-> [of |-> issues[n], quotes |-> Quotes(findings[issues[n]])]],
         language |-> IF observed THEN "observed" ELSE "inferred",
         first |-> Presentation.first, preserve |-> Presentation.preserve]

\* generate_design_agent_brief (app.py): what a design agent is told to change, the gravest first.
Brief ==
    LET ranked == SortedBy(findings, Severity(findings))
    IN  IF ranked = <<>> \/ IsPlaceholder(ranked[1]) THEN <<>> ELSE ranked

\* format_persona_thought_log (app.py): a run's events and captured reasoning
\* in one order of time, and what its verdict says.
ThoughtLog(journey) ==
    LET timeline == journey.timeline
        shown == Those(timeline, {k \in DOMAIN timeline : timeline[k].kind = "action" \/ timeline[k].text # {}})
        described(notes) == [n \in DOMAIN notes |-> notes[n].summary]
    IN  [events |-> Chronological(shown \o Told(journey.reasoning)), summary |-> journey.verdict.account,
         blockers |-> described(journey.verdict.blockers), issues |-> described(journey.verdict.uxFindings)]

\* The artifacts of the job.
Document(kind) == [kind |-> kind, run |-> None, stem |-> None]

BrowserOutputs ==
    UNION {[kind : {"browser.screenshot"}, run : {j.run}, stem : ToSet(j.shots)]
           \cup [kind : {"browser.snapshot"}, run : {j.run}, stem : j.doms] : j \in ToSet(journeys)}

Publish ==
    /\ Running("publish")
    /\ outputs' = {Document(kind) : kind \in {"ux.report", "ux.presentation", "ux.slides", "journey.log"}}
                  \cup BrowserOutputs
    /\ pc' = "done"
    /\ UNCHANGED <<observed, journeys, vision, findings, preserve, diagnostics, unverified, limitation, narration>>

-----------------------------------------------------------------------------
JourneyStage ==
    \/ Load \/ LoadFails
    \/ \E outcome \in Outcomes : RunJourney(outcome)
    \/ JourneyFails \/ JourneysDone

CritiqueStage ==
    \/ \E answer \in Critiques : Critique(answer)
    \/ CritiqueRefused \/ CritiqueBreaksOff \/ Aggregate

CompileStage ==
    \/ Compile \/ Infer \/ Merge \/ DropUnverifiableQuotes \/ Attach \/ AttachRedesigns \/ Publish

Next == JourneyStage \/ CritiqueStage \/ CompileStage

Spec == Init /\ [][Next]_vars

-----------------------------------------------------------------------------
(* Properties *)

Stages == {"load", "journeys", "critique", "compile", "infer", "merge", "verify", "attach", "redesign", "publish"}

\* Runs the journeys in the order of the cohort, one per persona, and reports
\* only what its own runs and their critiques contain.
TypeOK ==
    /\ pc \in Stages \cup {"done", "failed"}
    /\ observed \in BOOLEAN /\ refused \in BOOLEAN
    /\ Len(journeys) <= Len(Cohort)
    /\ \A k \in DOMAIN journeys : journeys[k].persona = Cohort[k]
    /\ \A p \in ToSet(points) : \E j \in ToSet(journeys) : p.persona = j.persona /\ p.shot[2] \in ToSet(j.shots)
    /\ \A k \in DOMAIN findings : findings[k].severity \in ToSet(Severities)
    /\ limitation \in {None, "synthesized", "attempt failed", "not configured", "inferred"}

Origins(items) == UNION {item.from : item \in ToSet(items)}

Compiled == pc \in {"attach", "redesign", "publish", "done"}

\* Whatever happens to the critiques, each thing a verdict or a synthesis says
\* is in the report: as an issue, a diagnostic, an unverifiable claim or a
\* strength, and never as an issue and a strength at once
\* (_combined_test, _merge_similar_findings, _praise_from_verdicts).
AccountedOnce ==
    Compiled /\ observed =>
        LET issues == Origins(findings) \cup Origins(unverified) \cup Origins(diagnostics)
            said == Origins(Each(journeys, PainPointsFromJourney) \o Each(journeys, PraiseFromVerdict)
                            \o strengths \o synthesis)
        IN  issues \cup Origins(preserve) = said /\ issues \cap Origins(preserve) = {}

\* Two findings share a cluster exactly when a chain of like ones links them:
\* the transitive closure _cluster_by_title's comment promises, whatever the
\* order the findings come in.
ClustersAreClosed ==
    pc = "merge" /\ observed =>
        LET issues == Issues(Gathered)
            blocks == Blocks(issues, IssuePairs(issues))
            like == {p \in (DOMAIN issues) \X (DOMAIN issues) : SameIssue(issues[p[1]], issues[p[2]])}
            linked(A, B) == \E p \in like : p[1] \in A /\ p[2] \in B
        IN  /\ UNION blocks = DOMAIN issues
            /\ \A a, b \in blocks : a # b => ~linked(a, b) /\ a \cap b = {}
            /\ \A b \in blocks : \A part \in (SUBSET b) \ {{}, b} : linked(part, b \ part)

RunsBehind(f) == {origin.run : origin \in f.from}

\* The quote under an issue is what one of its personas thought in a run the
\* issue was observed in, and the picture beside it was taken in such a run
\* (_attach_persona_evidence, _attach_verdict_screenshots).
EvidenceIsItsOwn ==
    Compiled => \A f \in ToSet(findings) :
        /\ f.crop # None => f.crop[1] \in RunsBehind(f)
        /\ \A q \in f.quotes : \E j \in ToSet(journeys) :
              /\ j.run \in RunsBehind(f) /\ j.persona = q.persona
              /\ \E t \in ToSet(AllThoughts(j)) : t.kind = "reasoning" /\ t.text = q.text

\* The narration fits its limit and gives up actions before it gives up
\* reasoning, and the log of the run prints what it quotes
\* (_persona_thoughts, format_persona_thought_log).
ReasoningIsKept ==
    \A p \in DOMAIN narration : \E j \in ToSet(journeys) :
        LET all == ToSet(AllThoughts(j))
            spoken == {t \in all : t.kind # "action"}
            kept == ToSet(narration[p])
        IN  /\ j.persona = p /\ kept \subseteq all
            /\ Len(narration[p]) <= ThoughtLimit
            /\ spoken \subseteq kept \/ kept \subseteq spoken
            /\ LET log == ThoughtLog(j)
                   printed == {e.text : e \in ToSet(log.events)} \cup {log.summary}
                              \cup ToSet(log.blockers) \cup ToSet(log.issues)
               IN  {t.text : t \in kept} \subseteq printed

\* The sections, the figures of the summary, the slides, the page, the review
\* and the design agent's brief speak of the same issues: each is in one
\* section, has its two slides, is counted, and is in the brief, where none
\* comes before a graver one.
ViewsAgree ==
    pc = "done" =>
        LET issues == DOMAIN Real
            issueSlides == Those(Slides, {k \in DOMAIN Slides : Slides[k].shows = "issue"})
            sections(k) == {n \in DOMAIN FlowGroups : k \in ToSet(FlowGroups[n].of)}
        IN  /\ \A k \in DOMAIN findings : Cardinality(sections(k)) = 1
            /\ [n \in DOMAIN issueSlides |-> issueSlides[n].of] = [n \in issues |-> n]
            /\ Summary.blocking = BlockingCount
            /\ Summary.issues = 0 /\ Summary.working = 0 <=> \E s \in ToSet(Slides) : s.shows = "no findings"
            /\ BlockingCount > 0 => IsBlocking(PriorityOrder[1])
            /\ DOMAIN Review.issues = issues /\ Review.first = Presentation.first
            /\ \A n \in issues : /\ Real[n] = findings[Review.issues[n].of]
                                 /\ Review.issues[n] = Presentation.entries[Review.issues[n].of]
            /\ Len(Brief) = Summary.issues
            /\ \A m, n \in DOMAIN Brief : m < n => Rank(Brief[n].severity) <= Rank(Brief[m].severity)
=============================================================================
