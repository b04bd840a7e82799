------------------------------ MODULE Recordings ------------------------------
(***************************************************************************)
(* The Recordings tab of the Gradio application (app.py).  It plays the    *)
(* recordings a session has stored, one at a time or several side by side, *)
(* and it follows a journey while it runs: a timer polls the journey       *)
(* worker (liveRun.js), and once the run has finished the view is handed   *)
(* off to its recording.  A session has one job here, and a run is         *)
(* <<session, position of its persona in the cohort>>.                     *)
(***************************************************************************)
EXTENDS Integers, Sequences, FiniteSets, SequencesExt

CONSTANTS Sessions, Cohort,  \* the number of personas of each one's job
          Earlier,         \* the sessions whose jobs completed before
          CompareLimit,    \* recordings played side by side, 4
          Viewings,        \* bound on what happens: the controls used, once each, and the troubles
          None

VARIABLES stage,           \* each run, in the journey worker
          dirs,            \* the runs that have begun their output directory
          outcome,         \* each session's job, in the control plane
          videos,          \* the runs whose recording is stored
          tab,             \* the components of the tab
          busy,            \* its callbacks under way: what they captured
          clicks,          \* the controls still to be used
          troubles         \* the requests that may still fail

world == <<stage, dirs, outcome, videos>>
vars == <<world, tab, busy, clicks, troubles>>

RunsOf(s) == {s} \X (1..Cohort[s])
Runs == UNION {RunsOf(s) : s \in Sessions}
Modes == {"Video", "Live", "Screenshot gallery"}
Handlers == {"switch", "poll", "handoff", "discover", "show", "compare"}
Idle == [pc |-> "idle"]

Init ==
    /\ stage = [r \in Runs |-> IF r[1] \in Earlier THEN "over" ELSE "waiting"]
    /\ outcome = [s \in Sessions |-> IF s \in Earlier THEN "stored" ELSE "running"]
    /\ dirs = UNION {RunsOf(s) : s \in Earlier} /\ videos = dirs
    /\ tab = [mode |-> "Video", following |-> TRUE, timer |-> FALSE, live |-> None, note |-> "",
              journey |-> None, session |-> None, list |-> <<>>, video |-> None,
              picked |-> {}, compared |-> {}]
    /\ busy = [h \in Handlers |-> Idle]
    /\ \E viewing \in Viewings : clicks = viewing.buttons /\ troubles = viewing.troubles

-----------------------------------------------------------------------------
(* The journeys of a job, one after the other, and what it stores at its end. *)

Before(r) == {q \in Runs : q[1] = r[1] /\ q[2] < r[2]}

\* The run is registered for the live view: it is in flight.
Register(r) ==
    /\ stage[r] = "waiting" /\ outcome[r[1]] = "running"
    /\ \A q \in Before(r) : stage[q] = "over"
    /\ stage' = [stage EXCEPT ![r] = "registered"]
    /\ UNCHANGED <<dirs, outcome, videos>>

\* Its directory and its first frame are there.
Drive(r) ==
    /\ stage[r] = "registered"
    /\ stage' = [stage EXCEPT ![r] = "driving"] /\ dirs' = dirs \cup {r}
    /\ UNCHANGED <<outcome, videos>>

Finish(r) ==
    /\ stage[r] = "driving"
    /\ stage' = [stage EXCEPT ![r] = "over"]
    /\ UNCHANGED <<dirs, outcome, videos>>

\* The journey throws: the job fails, and the run stays registered.
Break(r) ==
    /\ stage[r] \in {"registered", "driving"}
    /\ stage' = [stage EXCEPT ![r] = "broken"]
    /\ outcome' = [outcome EXCEPT ![r[1]] = "failed"]
    /\ UNCHANGED <<dirs, videos>>

\* The artifacts of all its runs are stored when the whole job completes; a
\* run may be without a recording.
Publish(s) ==
    /\ outcome[s] = "running" /\ \A r \in RunsOf(s) : stage[r] = "over"
    /\ outcome' = [outcome EXCEPT ![s] = "stored"]
    /\ \E filmed \in SUBSET RunsOf(s) : videos' = videos \cup filmed
    /\ UNCHANGED <<stage, dirs>>

\* The retention sweep.
Expire(r) == r \in videos /\ videos' = videos \ {r} /\ UNCHANGED <<stage, dirs, outcome>>

InFlight == {r \in Runs : stage[r] \in {"registered", "driving", "broken"}}

\* The personas of one job share the suffix of their directories: it is the
\* one begun nearest the run's registration.
Directory(r) ==
    LET begun == {q \in dirs : q = r \/ q \in Before(r)}
    IN  IF begun = {} THEN None ELSE CHOOSE q \in begun : \A p \in begun : p[2] <= q[2]

\* The runs a session has artifacts of, by their ids, and which have a recording.
Listing(s) ==
    IF outcome[s] # "stored" THEN <<>>
    ELSE [n \in 1..Cohort[s] |-> [run |-> <<s, n>>, video |-> <<s, n>> \in videos]]

-----------------------------------------------------------------------------
(* Clicks and callbacks *)

Click(button) == button \in clicks /\ clicks' = clicks \ {button}
Trouble == troubles > 0 /\ troubles' = troubles - 1
Well == UNCHANGED troubles

Begins(h, captured) == [busy EXCEPT ![h] = [pc |-> "called"] @@ captured]
Ends(h) == busy' = [busy EXCEPT ![h] = Idle]
Called(h) == busy[h] # Idle

\* A change of the mode or of Follow calls the handler that sets the timer;
\* of several such calls the last one's values are written last.
Switching(mode, following) == [mode |-> mode, following |-> following]

ChangeMode(m) ==
    /\ Click("mode") /\ m # tab.mode
    /\ tab' = [tab EXCEPT !.mode = m]
    /\ busy' = Begins("switch", Switching(m, tab.following))
    /\ UNCHANGED <<world, troubles>>

ChangeFollow ==
    /\ Click("follow")
    /\ tab' = [tab EXCEPT !.following = ~@]
    /\ busy' = Begins("switch", Switching(tab.mode, ~tab.following))
    /\ UNCHANGED <<world, troubles>>

\* switch_recordings_mode, and the same of live_follow's change.
Switch ==
    /\ Called("switch")
    /\ tab' = [tab EXCEPT !.timer = busy["switch"].mode = "Live" /\ busy["switch"].following]
    /\ Ends("switch")
    /\ UNCHANGED <<world, clicks, troubles>>

\* live_run_choices: the first run in flight; none if the worker cannot be reached.
FindLive ==
    /\ Click("find")
    /\ \/ Well /\ InFlight # {} /\ \E r \in InFlight : tab' = [tab EXCEPT !.live = r, !.note = ""]
       \/ ((Well /\ InFlight = {}) \/ Trouble) /\ tab' = [tab EXCEPT !.live = None, !.note = ""]
    /\ UNCHANGED <<world, busy>>

\* go_to_live_session: the tab is opened on it, polling.
GoLive ==
    /\ Click("go")
    /\ \E r \in InFlight : tab' = [tab EXCEPT !.mode = "Live", !.live = r, !.timer = TRUE, !.note = ""]
    /\ busy' = IF tab.mode = "Live" THEN busy ELSE Begins("switch", Switching("Live", tab.following))
    /\ UNCHANGED <<world, troubles>>

-----------------------------------------------------------------------------
(* Following a run *)

\* The timer ticks: poll_live_run is called.
Tick ==
    /\ tab.timer /\ ~Called("poll")
    /\ busy' = Begins("poll", [run |-> tab.live, following |-> tab.following, journey |-> tab.journey])
    /\ UNCHANGED <<world, tab, clicks, troubles>>

\* The worker knows of no such run in flight: it has finished.
PollFinished(c) == tab' = [tab EXCEPT !.note = "finished", !.timer = FALSE]

PollLive(c) ==
    LET found == Directory(c.run) IN
    tab' = [tab EXCEPT !.note = "live", !.timer = c.following,
                       !.journey = IF found = None THEN c.journey ELSE found]

\* The answer, and hand_off_finished_run called on what the tab shows by then:
\* the journey it was last told of.  "followed", the run that was polled, is
\* not passed on by the code and serves PlaysTheFollowed only.
PollAnswers ==
    LET c == busy["poll"]
        idle == [busy EXCEPT !["poll"] = Idle]
        ended == c.run # None /\ c.run \notin InFlight
    IN
    /\ Called("poll")
    /\ \/ c.run = None /\ Well /\ tab' = [tab EXCEPT !.note = ""]
       \/ c.run # None /\ Trouble /\ tab' = [tab EXCEPT !.note = "unreachable", !.timer = FALSE]
       \/ ended /\ Well /\ PollFinished(c)
       \/ c.run \in InFlight /\ Well /\ PollLive(c)
    /\ busy' = IF tab'.note = "finished" /\ tab.session # None /\ ~Called("handoff")
               THEN [idle EXCEPT !["handoff"] = [pc |-> "list", run |-> tab'.journey,
                                                 session |-> tab.session, followed |-> c.run]]
               ELSE idle
    /\ UNCHANGED <<world, clicks>>

\* The recording of the run is on the list.
Playable(list, run) == \E n \in DOMAIN list : list[n].run = run /\ list[n].video

\* discover_recordings within the hand-off: it stays put unless the recording is there.
HandOffLists ==
    LET c == busy["handoff"] IN
    /\ Called("handoff") /\ c.pc = "list"
    /\ \/ /\ Playable(Listing(c.session), c.run) /\ Well
          /\ busy' = [busy EXCEPT !["handoff"] = [c EXCEPT !.pc = "show"] @@ [list |-> Listing(c.session)]]
       \/ ((~Playable(Listing(c.session), c.run) /\ Well) \/ Trouble) /\ Ends("handoff")
    /\ UNCHANGED <<world, tab, clicks>>

\* show_recording within the hand-off: the recording is looked up again and downloaded.
HandOffShows ==
    LET c == busy["handoff"] IN
    /\ Called("handoff") /\ c.pc = "show"
    /\ \E shown \in {None} \cup ({c.run} \cap videos) :
         /\ IF shown = None /\ c.run \in videos THEN Trouble ELSE Well
         /\ tab' = [tab EXCEPT !.mode = "Video", !.list = c.list, !.picked = {}, !.video = shown]
    /\ busy' = LET over == [busy EXCEPT !["handoff"] = Idle] IN
               IF tab.mode = "Video" THEN over
               ELSE [over EXCEPT !["switch"] = [pc |-> "called"] @@ Switching("Video", tab.following)]
    /\ UNCHANGED <<world, clicks>>

-----------------------------------------------------------------------------
(* Playing what is stored *)

\* discover_recordings, at the choice of a session; chosen anew meanwhile, it
\* is called again with the last.
ChooseSession(s) ==
    /\ Click("session") /\ s # tab.session
    /\ tab' = [tab EXCEPT !.session = s]
    /\ busy' = Begins("discover", [session |-> s])
    /\ UNCHANGED <<world, troubles>>

Discovered ==
    /\ Called("discover")
    /\ \/ Well /\ tab' = [tab EXCEPT !.list = Listing(busy["discover"].session), !.picked = {}]
       \/ Trouble /\ tab' = [tab EXCEPT !.list = <<>>, !.picked = {}]
    /\ Ends("discover")
    /\ UNCHANGED <<world, clicks>>

\* show_recording, when the slider is released at a position.
Slide(n) ==
    /\ Click("slide") /\ ~Called("show")
    /\ busy' = Begins("show", [entry |-> tab.list[n], session |-> tab.session])
    /\ UNCHANGED <<world, tab, troubles>>

StillThere(run, session) == run[1] = session /\ run \in videos

Shown ==
    LET c == busy["show"] IN
    /\ Called("show")
    /\ \/ /\ Well
          /\ tab' = [tab EXCEPT !.video = IF c.entry.video /\ StillThere(c.entry.run, c.session)
                                         THEN c.entry.run ELSE None]
       \/ c.entry.video /\ Trouble /\ tab' = [tab EXCEPT !.video = None]
    /\ Ends("show")
    /\ UNCHANGED <<world, clicks>>

\* compare_recordings, at a choice of several.
Compare(choice) ==
    /\ Click("compare") /\ ~Called("compare") /\ choice # {}
    /\ busy' = Begins("compare", [choice |-> choice, list |-> tab.list, session |-> tab.session])
    /\ tab' = [tab EXCEPT !.picked = choice]
    /\ UNCHANGED <<world, troubles>>

\* The first four are held, and those of them that can be had are played.
Compared ==
    LET c == busy["compare"]
        held == {n \in c.choice : Cardinality({m \in c.choice : m < n}) < CompareLimit}
        stored == {n \in held : c.list[n].video /\ StillThere(c.list[n].run, c.session)}
    IN
    /\ Called("compare")
    /\ \/ \E got \in SUBSET stored :
            /\ IF got = stored THEN Well ELSE Trouble
            /\ tab' = [tab EXCEPT !.compared = {c.list[n].run : n \in got}, !.picked = held]
       \/ Trouble /\ tab' = [tab EXCEPT !.compared = {}]
    /\ Ends("compare")
    /\ UNCHANGED <<world, clicks>>

-----------------------------------------------------------------------------
Elsewhere ==
    /\ \/ \E r \in Runs : Register(r) \/ Drive(r) \/ Finish(r) \/ Break(r) \/ Expire(r)
       \/ \E s \in Sessions : Publish(s)
    /\ UNCHANGED <<tab, busy, clicks, troubles>>

User ==
    \/ \E m \in Modes : ChangeMode(m)
    \/ ChangeFollow \/ FindLive \/ GoLive
    \/ \E s \in Sessions : ChooseSession(s)
    \/ \E n \in DOMAIN tab.list : Slide(n)
    \/ \E choice \in SUBSET (DOMAIN tab.list) : Compare(choice)

\* What goes on without the user.
Callbacks ==
    \/ Switch \/ Tick \/ PollAnswers \/ HandOffLists \/ HandOffShows
    \/ Discovered \/ Shown \/ Compared

Next == Elsewhere \/ User \/ Callbacks

-----------------------------------------------------------------------------
(* Properties *)

\* A run that has finished is not polled for ever.
PollingEnds == []<>~(tab.timer /\ tab.live # None /\ stage[tab.live] = "over")

-----------------------------------------------------------------------------
(* What the source says and the code does not do *)

\* "The timer only ticks while Live is on screen and Follow is checked -- a
\* poll every two seconds is cheap, but not while nobody is looking."
\* (switch_recordings_mode, app.py:1681).
TicksOnlyOnScreen == tab.timer /\ (\A h \in Handlers : ~Called(h)) => tab.mode = "Live"

\* "When the stream ends, become the ordinary recording of that run."
\* (hand_off_finished_run, app.py:1897): what the hand-off plays is the run
\* that was followed, or nothing.
PlaysTheFollowed ==
    [][LET c == busy["handoff"] IN
       c.pc = "show" /\ busy'["handoff"] = Idle => tab'.video \in {None, c.followed}]_<<tab, busy>>
=============================================================================
