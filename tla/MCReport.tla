------------------------------ MODULE MCReport ------------------------------
(* A cohort of two personas on a small vocabulary. *)
EXTENDS ReportPipeline

CONSTANTS p1, p2

MCCohort == <<p1, p2>>
MCTasks == <<{"sign", "up"}, {"find", "price"}>>

MCPraise == {"clear", "clean"}
MCProblem == {"missing", "hidden", "broken", "slow"}
MCHarness == {"director"}
MCStopwords == {"the"}
MCQuality == {"clear", "clean"}
MCQuoted == {"'Sign up'", "'navbar.'"}
MCSeenAcross == {"seen", "across", "tested", "persona", "run"}

Note(title, summary, severity, cited) ==
    [title |-> title, summary |-> summary, severity |-> severity, category |-> "ux", cited |-> cited]

Initial == [action |-> 0, phase |-> "initial-view"]
Click == [action |-> 1, phase |-> "after"]
Change == [action |-> 1, phase |-> "change"]
Final == [action |-> 2, phase |-> "final-view"]

Criteria(completed, blocked) ==
    <<[id |-> "tasks-completed", result |-> completed, explanation |-> {"tasks"}],
      [id |-> "tasks-blocked", result |-> blocked, explanation |-> {}]>>

Verdict(blockers, ux, suggestions, criteria) ==
    [blockers |-> blockers, uxFindings |-> ux, suggestedImprovements |-> suggestions,
     criteria |-> criteria, account |-> {"form", "missing", "label"}]

Said(kind, text, at) == [kind |-> kind, text |-> text, at |-> at]

\* A journey that went well: praise beside a problem; its reasoning was captured.
Smooth == [
    verdict |-> Verdict(<<>>, <<Note({"clear", "form"}, {"clear"}, "minor", None),
                                Note({"missing", "label", "form"}, {"label", "missing", "form", "field"}, "minor", Click)>>,
                        <<>>, Criteria("met", "not-met")),
    shots |-> <<Initial, Click, Final>>, doms |-> {[action |-> 1, phase |-> "before"], Click},
    seen |-> {"'Sign up'", "welcome"},
    reasoning |-> <<Said("reasoning", {"label", "missing", "field", "form"}, 2), Said("reasoning", {"price"}, 4)>>,
    timeline |-> <<Said("action", {"click"}, 1), Said("action", {"type"}, 3)>>]

\* A journey that was blocked: an invented quote, a failure of the harness, no live reasoning.
Stuck == [
    verdict |-> Verdict(<<Note({"hidden", "menu", "'navbar.'"}, {"menu", "hidden"}, "critical", None),
                          Note({"director", "error"}, {}, "major", None)>>,
                        <<Note({"missing", "label"}, {"field", "label", "missing", "form", "broken"}, "major", None)>>,
                        <<Note({"hidden", "menu"}, {"menu"}, "info", None)>>, Criteria("blocked", "met")),
    shots |-> <<Change, Final>>, doms |-> {[action |-> 1, phase |-> "before"]},
    seen |-> {"welcome"}, reasoning |-> <<>>,
    timeline |-> <<Said("error", {"broken"}, 1), Said("action", {"click"}, 2)>>]

\* A journey of which nothing was captured.
Silent == [verdict |-> [blockers |-> <<>>, uxFindings |-> <<>>, suggestedImprovements |-> <<>>,
                        criteria |-> <<>>, account |-> {}],
           shots |-> <<>>, doms |-> {}, seen |-> {}, reasoning |-> <<>>, timeline |-> <<>>]

MCOutcomes == {Smooth, Stuck, Silent}

Issue(title, summary, severity, element) ==
    [title |-> title, summary |-> summary, severity |-> severity, element |-> element]

MCCritiques == {
    [issues |-> <<Issue({"low", "contrast"}, {"footer", "grey", "text", "slow"}, "high", "a#footer"),
                  Issue({"hidden", "menu"}, {"nav", "under", "icon", "hidden"}, "medium", "nav")>>,
     strengths |-> <<>>],
    [issues |-> <<Issue({"clean", "layout"}, {"clean", "grid"}, "medium", None)>>,
     strengths |-> <<[title |-> {"clear", "layout"}, summary |-> {"grid"}]>>],
    [issues |-> <<>>, strengths |-> <<>>]}
=============================================================================
