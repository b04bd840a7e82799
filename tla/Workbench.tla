------------------------------ MODULE Workbench ------------------------------
(***************************************************************************)
(* A browser tab of the Gradio application (app.py) at work on its         *)
(* personas, and a client of its HTTP API: generating synthetic users and  *)
(* tasks, loading and editing profiles in the Persona Studio, starting an  *)
(* analysis.  A callback reads the components that are its inputs when it  *)
(* is clicked, works for as long as its requests take, and then writes     *)
(* whole components; of each callback one run is under way at a time, but  *)
(* different ones overlap.                                                 *)
(***************************************************************************)
EXTENDS PersonaRuntime

CONSTANTS Counts,          \* personas a user may ask for
          ApiCounts,       \* and an API client
          LiveCap,         \* TINYTROUPE_MAX_PERSONAS
          TaskAttempts,    \* attempts of generate_tasks
          TaskCounts,      \* tasks a model may answer with, 5 to 10
          ApiWorkspace,    \* the workspace the API client works in
          Scenes           \* bound on what happens: the buttons used, once each, and the mishaps

\* The number field has a minimum of 1; the workflow's route checks nothing.
ASSUME CountsAssumption ==
    /\ Counts \subseteq Nat \ {0} /\ ApiCounts \subseteq Nat
    /\ LiveCap \in Nat \ {0} /\ TaskCounts \subseteq Nat
    /\ ApiWorkspace \in Workspaces

VARIABLES workspace,       \* workspace_selector
          display,         \* persona_display
          tasks,           \* last_generated_tasks_state: how many, 0 for none
          index,           \* persona_index, 0 for none
          editor,          \* persona_editor: a profile or Missing
          shown,           \* active_session_state and active_jules_uuid_state
          busy,            \* the callbacks under way
          snapshots,       \* the control plane: the persona artifacts of each session
          jobs,            \* and the jobs created
          clicks           \* the buttons still to be clicked

tabVars == <<workspace, display, tasks, index, editor, shown>>
planeVars == <<snapshots, jobs>>
benchVars == <<runtimeVars, tabVars, busy, planeVars, clicks>>

Handlers == {"generate", "load", "follow", "save", "start", "api"}
Methods == {"Example Persona", "TinyTroupe", "PersonaPool"}
Idle == [pc |-> "idle"]
Awaiting == {"example", "generate", "pool", "list", "compile", "patch"}
Nowhere == [session |-> 0, job |-> 0]

\* A callback: where it is, the inputs it captured and what it has gathered.
Begun(pc, w) ==
    [pc |-> pc, workspace |-> w, method |-> "", count |-> 0, got |-> <<>>, call |-> 0,
     personas |-> <<>>, tasks |-> 0, profile |-> Missing, index |-> 0, session |-> 0, job |-> 0,
     attempt |-> 0, judged |-> FALSE, allow |-> FALSE]

ProfileSet == [id : 1..minted, rev : Nat]

TypeOK ==
    /\ RuntimeTypeOK
    /\ workspace \in Workspaces
    /\ ToSet(display) \subseteq ProfileSet
    /\ tasks \in TaskCounts \cup {0, 10}
    /\ index \in Nat
    /\ editor \in ProfileSet \cup {Missing}
    /\ shown # Nowhere => shown.session \in DOMAIN snapshots /\ shown.job \in DOMAIN jobs
    /\ \A h \in Handlers : busy[h] = Idle \/ h = "follow" \/ busy[h].call \in 0..Len(calls)
    /\ busy["generate"] # Idle /\ busy["generate"].method = "TinyTroupe" =>
         busy["generate"].count <= LiveCap
    /\ \A s \in DOMAIN snapshots : ToSet(snapshots[s]) \subseteq ProfileSet
    /\ \A j \in DOMAIN jobs : jobs[j].session \in DOMAIN snapshots
    /\ \E scene \in Scenes : clicks \subseteq scene.buttons

Init ==
    /\ \E scene \in Scenes : clicks = scene.buttons /\ mishaps = scene.mishaps
    /\ RuntimeInit
    /\ workspace \in Workspaces \ {ApiWorkspace}
    /\ display = <<>> /\ tasks = 0 /\ index = 0 /\ editor = Missing /\ shown = Nowhere
    /\ busy = [h \in Handlers |-> Idle]
    /\ snapshots = <<>> /\ jobs = <<>>

-----------------------------------------------------------------------------
(* Callbacks and their requests *)

Click(button) == button \in clicks /\ clicks' = clicks \ {button}
At(h, pc) == busy[h].pc = pc
Goes(h, callback) == busy' = [busy EXCEPT ![h] = callback]
Returns(h) == Goes(h, Idle)

\* The callback posts a request and awaits it at pc.
Requests(h, callback, pc, call) ==
    /\ Ask(call)
    /\ Goes(h, [callback EXCEPT !.pc = pc, !.call = Len(calls) + 1])
    /\ UNCHANGED <<tinytroupe, rows, minted, cache, mishaps>>

Generation(callback, n) ==
    [Call("generate", callback.workspace, n) EXCEPT !.allow = callback.allow]
Compilation(callback) == Call("compile", callback.workspace, 1)

\* The answer to its request is there; or an error; or the client has stopped
\* waiting for it.
Result(h) == IF busy[h].call = 0 THEN "error" ELSE calls[busy[h].call].result
Hears(h) == Result(h) = "ok"
GivesUp(h) == Result(h) = "error"
Answer(h) == calls[busy[h].call].saved

\* The client's timeout: the runtime goes on with the request.
Timeout(h) ==
    /\ busy[h].pc \in Awaiting /\ busy[h].call > 0
    /\ calls[busy[h].call].result = "none"
    /\ Mishap
    /\ Goes(h, [busy[h] EXCEPT !.call = 0])
    /\ UNCHANGED <<tinytroupe, rows, minted, calls, cache, tabVars, planeVars, clicks>>

-----------------------------------------------------------------------------
(* handle_generate *)

\* Mutant of Requested: the cap is forgotten.
RequestedAll(method, n) == n

\* Live generation is capped.
Requested(method, n) == IF method = "TinyTroupe" /\ n > LiveCap THEN LiveCap ELSE n

\* The click, with a method chosen: the outputs are cleared.
ClickGenerate(method, n) ==
    /\ Click(method) /\ At("generate", "idle")
    /\ Goes("generate", [Begun("tasks", workspace) EXCEPT
         !.method = method, !.count = Requested(method, n)])
    /\ display' = <<>> /\ tasks' = 0
    /\ UNCHANGED <<runtimeVars, workspace, index, editor, shown, planeVars>>

\* The first request of each method (select_or_create_personas).
FirstRequest(h, callback) ==
    CASE callback.method = "Example Persona" -> Requests(h, callback, "example", Compilation(callback))
      [] callback.method = "TinyTroupe"      -> Requests(h, callback, "generate", Generation(callback, callback.count))
      [] callback.method = "PersonaPool"     -> Requests(h, callback, "pool", Call("lookup", callback.workspace, callback.count))

\* generate_tasks: the model answers with enough tasks, or is asked again, or
\* after the last attempt ten are made up.  They are shown, with no persona yet.
WriteTasks ==
    LET callback == busy["generate"]
        last == callback.attempt = TaskAttempts - 1
    IN
    /\ At("generate", "tasks")
    /\ \/ \E n \in TaskCounts \cup (IF last THEN {10} ELSE {}) :
            /\ display' = <<>> /\ tasks' = n
            /\ FirstRequest("generate", [callback EXCEPT !.tasks = n, !.attempt = 0])
       \/ /\ ~last
          /\ Goes("generate", [callback EXCEPT !.attempt = @ + 1])
          /\ UNCHANGED <<display, tasks, runtimeVars>>
    /\ UNCHANGED <<workspace, index, editor, shown, planeVars, clicks>>

\* Live generation is waited for in turns of three seconds, and each writes
\* its outputs again.
Progress ==
    /\ At("generate", "generate") /\ busy["generate"].method = "TinyTroupe"
    /\ <<display, tasks>> # <<<<>>, busy["generate"].tasks>>
    /\ display' = <<>> /\ tasks' = busy["generate"].tasks
    /\ UNCHANGED <<runtimeVars, workspace, index, editor, shown, busy, planeVars, clicks>>

\* Generation complete: personas and tasks are written, choices follow.
Generated(personas) ==
    /\ display' = personas /\ tasks' = busy["generate"].tasks
    /\ Goes("generate", [busy["generate"] EXCEPT !.pc = "choices", !.got = personas])
    /\ UNCHANGED runtimeVars

\* Error during generation: every output is cleared.
Fails ==
    /\ display' = <<>> /\ tasks' = 0
    /\ Goes("generate", [busy["generate"] EXCEPT !.pc = "choices", !.got = <<>>])
    /\ UNCHANGED runtimeVars

\* Mutant of Remaining: what is skipped counts as matched.
RemainingOfMatched(callback) == IF callback.got = <<>> THEN callback.count ELSE 0

\* What the pool did not cover.
Remaining(callback) == callback.count - Len(callback.got)

\* One compilation of the example with its own seed for each persona.
ExampleHeard ==
    LET callback == [busy["generate"] EXCEPT !.got = @ \o Answer("generate")] IN
    IF Len(callback.got) = callback.count THEN Generated(callback.got)
    ELSE Requests("generate", callback, "example", Compilation(callback)) /\ UNCHANGED <<display, tasks>>

Request(callback, pc, call) ==
    Requests("generate", callback, pc, call) /\ UNCHANGED <<display, tasks>>

\* A request of handle_generate is over, and what follows from it.
GenerateHears ==
    LET callback == busy["generate"]
        gathered == [callback EXCEPT !.got = @ \o Answer("generate")]
    IN
    /\ \/ At("generate", "example") /\ Hears("generate") /\ ExampleHeard
       \/ /\ At("generate", "example") /\ GivesUp("generate")   \* on to the judged pool
          /\ \/ Request([callback EXCEPT !.got = <<>>], "list", Call("list", callback.workspace, 1))
             \/ /\ callback.tasks = 10                           \* without a model to judge
                /\ Request([callback EXCEPT !.got = <<>>], "generate", Generation(callback, callback.count))
       \/ /\ At("generate", "pool") /\ Hears("generate")
          /\ IF Remaining(gathered) > 0
             THEN Request(gathered, "generate", Generation(gathered, Remaining(gathered)))
             ELSE Generated(gathered.got)
       \/ /\ At("generate", "pool") /\ GivesUp("generate")
          /\ Request(callback, "generate", Generation(callback, Remaining(callback)))
       \/ At("generate", "generate") /\ Hears("generate") /\ Generated(gathered.got)
       \/ At("generate", "generate") /\ GivesUp("generate") /\ Fails
       \/ At("generate", "list") /\ GivesUp("generate") /\ Fails
       \/ /\ At("generate", "list") /\ Hears("generate")
          /\ IF Answer("generate") = <<>>
             THEN Request(callback, "generate", Generation(callback, callback.count))
             ELSE /\ Goes("generate", [callback EXCEPT !.pc = "judge", !.judged = TRUE])
                  /\ UNCHANGED <<runtimeVars, display, tasks>>
    /\ UNCHANGED <<workspace, index, editor, shown, planeVars, clicks>>

\* The model decides which stored personas to use, any of them as often as it
\* likes, and how many to create; or its answer is of no use.
Judge ==
    LET callback == busy["generate"] pool == ToSet(Answer("generate")) IN
    /\ At("generate", "judge")
    /\ \E used \in SeqOf(pool, callback.count), created \in 0..callback.count :
         IF created > 0
         THEN Request([callback EXCEPT !.got = used], "generate", Generation(callback, created))
         ELSE Generated(used)
    /\ UNCHANGED <<workspace, index, editor, shown, planeVars, clicks>>

\* persona_index is written; its change, if it is one, loads the persona.
Index(i, callbacks) ==
    /\ index' = i
    /\ busy' = IF i = index THEN callbacks
               ELSE [callbacks EXCEPT !["follow"] = [pc |-> "loaded"]]

\* persona_choices, of what is displayed by then.
Choose ==
    /\ At("generate", "choices")
    /\ Index(IF display = <<>> THEN 0 ELSE 1, [busy EXCEPT !["generate"] = Idle])
    /\ UNCHANGED <<runtimeVars, workspace, display, tasks, editor, shown, planeVars, clicks>>

-----------------------------------------------------------------------------
(* Persona Studio *)

\* load_persona: the profile at the index, or the first.
Loaded(personas, i) ==
    IF personas = <<>> THEN Missing
    ELSE IF i \in DOMAIN personas THEN personas[i] ELSE personas[1]

\* load_example_persona_into_studio, at its click.
ClickLoad ==
    /\ Click("load") /\ At("load", "idle")
    /\ Requests("load", [Begun("", workspace) EXCEPT !.personas = display], "compile",
                Compilation(Begun("", workspace)))
    /\ UNCHANGED <<tabVars, planeVars>>

\* What the tab displays once the persona is loaded.
WithLoaded(callback, loaded) == callback.personas \o loaded

\* It is appended to the personas of the click; if it cannot be had they are
\* written back.
LoadHears ==
    LET callback == busy["load"] IN
    /\ At("load", "compile")
    /\ \/ Hears("load") /\ LET updated == WithLoaded(callback, Answer("load")) IN
          display' = updated /\ index' = Len(updated)
       \/ GivesUp("load") /\ display' = callback.personas /\ UNCHANGED index
    /\ busy' = [busy EXCEPT !["load"] = Idle, !["follow"] = [pc |-> "loaded"]]
    /\ UNCHANGED <<runtimeVars, workspace, tasks, editor, shown, planeVars, clicks>>

\* The editor follows: after a load, or when another persona is chosen.
LoadPersona ==
    /\ At("follow", "loaded")
    /\ editor' = Loaded(display, index)
    /\ Returns("follow")
    /\ UNCHANGED <<runtimeVars, workspace, display, tasks, index, shown, planeVars, clicks>>

ChoosePersona(i) ==
    /\ Click("choose")
    /\ i \in DOMAIN display \ {index}
    /\ Index(i, busy)
    /\ UNCHANGED <<runtimeVars, workspace, display, tasks, editor, shown, planeVars>>

\* The choices are read again.
RefreshPersonas ==
    /\ Click("choose")
    /\ Index(IF display = <<>> THEN 0 ELSE 1, busy)
    /\ UNCHANGED <<runtimeVars, workspace, display, tasks, editor, shown, planeVars>>

\* apply_persona_tweaks, or an edit by hand.
Tweak ==
    /\ Click("tweak") /\ editor # Missing
    /\ editor' = [editor EXCEPT !.rev = @ + 1]
    /\ UNCHANGED <<runtimeVars, workspace, display, tasks, index, shown, busy, planeVars>>

\* save_manual_persona, at its click.
ClickSave ==
    /\ Click("save") /\ At("save", "idle") /\ editor # Missing
    /\ Requests("save", [Begun("", workspace) EXCEPT !.personas = display, !.profile = editor, !.index = index],
                "patch", [Call("patch", workspace, 1) EXCEPT !.profile = editor])
    /\ UNCHANGED <<tabVars, planeVars>>

\* The saved profile replaces the one at the index of the click (an index out
\* of range is an error, and nothing is written); otherwise the inputs are
\* written back.
SaveHears ==
    LET callback == busy["save"] IN
    /\ At("save", "patch")
    /\ \/ /\ Hears("save")
          /\ LET saved == Head(Answer("save"))
                 i == IF callback.index = 0 THEN 1 ELSE callback.index
             IN  IF i \in DOMAIN callback.personas
                 THEN display' = [callback.personas EXCEPT ![i] = saved] /\ editor' = saved
                 ELSE UNCHANGED <<display, editor>>
       \/ GivesUp("save") /\ display' = callback.personas /\ editor' = callback.profile
    /\ Returns("save")
    /\ UNCHANGED <<runtimeVars, workspace, tasks, index, shown, planeVars, clicks>>

\* save_tasks: the task list as edited by hand.
SaveTasks(n) ==
    /\ Click("tasks") /\ n # tasks /\ tasks' = n
    /\ UNCHANGED <<runtimeVars, workspace, display, index, editor, shown, busy, planeVars>>

SelectWorkspace(w) ==
    /\ Click("workspace") /\ w # workspace /\ workspace' = w
    /\ UNCHANGED <<runtimeVars, display, tasks, index, editor, shown, busy, planeVars>>

-----------------------------------------------------------------------------
(* start_and_monitor_sessions and api_usability_workflow *)

\* The personas and tasks of the click; without them, an error and no ids.
ClickStart ==
    /\ Click("start") /\ At("start", "idle")
    /\ IF display = <<>> \/ tasks = 0
       THEN shown' = Nowhere /\ UNCHANGED busy
       ELSE /\ Goes("start", [Begun("session", workspace) EXCEPT !.personas = display, !.tasks = tasks])
            /\ UNCHANGED shown
    /\ UNCHANGED <<runtimeVars, workspace, display, tasks, index, editor, planeVars>>

\* The API client asks for a whole workflow: the bundled example, or people
\* generated with an offline fallback allowed or not (none: 422).
ClickApi(method, n, allow) ==
    /\ Click("api") /\ At("api", "idle") /\ n > 0
    /\ FirstRequest("api", [Begun("", ApiWorkspace) EXCEPT
         !.method = method, !.count = n, !.allow = allow, !.tasks = 5])
    /\ UNCHANGED <<tabVars, planeVars>>

\* Of the bundled example it may ask for none, and no request is sent.
ClickApiForNone ==
    /\ Click("api") /\ At("api", "idle") /\ 0 \in ApiCounts
    /\ Goes("api", [Begun("session", ApiWorkspace) EXCEPT !.method = "Example Persona", !.tasks = 5])
    /\ UNCHANGED <<runtimeVars, tabVars, planeVars>>

\* Its personas, from one request or several; a failed one ends it (502).
ApiHears ==
    LET callback == busy["api"]
        gathered == [callback EXCEPT !.got = @ \o Answer("api")]
    IN
    /\ busy["api"].pc \in {"example", "generate"}
    /\ \/ /\ Hears("api")
          /\ IF At("api", "example") /\ Len(gathered.got) < callback.count
             THEN Requests("api", gathered, "example", Compilation(callback))
             ELSE /\ Goes("api", [gathered EXCEPT !.pc = "session", !.personas = gathered.got])
                  /\ UNCHANGED runtimeVars
       \/ GivesUp("api") /\ Returns("api") /\ UNCHANGED runtimeVars
    /\ UNCHANGED <<tabVars, planeVars, clicks>>

\* create_session.
CreateSession(h) ==
    /\ At(h, "session")
    /\ snapshots' = Append(snapshots, <<>>)
    /\ Goes(h, [busy[h] EXCEPT !.pc = "snapshot", !.session = Len(snapshots) + 1])
    /\ UNCHANGED <<runtimeVars, tabVars, jobs, clicks>>

\* Mutant of Snapshot: the personas displayed by now.
SnapshotDisplayed(h) ==
    LET callback == busy[h]
        stored == Len(snapshots[callback.session])
    IN
    /\ At(h, "snapshot") /\ stored < Len(callback.personas) /\ stored < Len(display)
    /\ snapshots' = [snapshots EXCEPT ![callback.session] = Append(@, display[stored + 1])]
    /\ UNCHANGED <<runtimeVars, tabVars, busy, jobs, clicks>>

\* create_artifact: an immutable snapshot of the next persona.
Snapshot(h) ==
    LET callback == busy[h]
        stored == Len(snapshots[callback.session])
    IN
    /\ At(h, "snapshot") /\ stored < Len(callback.personas)
    /\ snapshots' = [snapshots EXCEPT ![callback.session] = Append(@, callback.personas[stored + 1])]
    /\ UNCHANGED <<runtimeVars, tabVars, busy, jobs, clicks>>

\* create_job over all of them; the tab shows its ids from here on.
CreateJob(h) ==
    LET callback == busy[h] IN
    /\ At(h, "snapshot")
    /\ Len(snapshots[callback.session]) = Len(callback.personas)
    /\ jobs' = Append(jobs, [session |-> callback.session, personas |-> callback.personas,
                             tasks |-> callback.tasks, status |-> "queued",
                             source |-> IF h = "api" THEN "api" ELSE "gradio"])
    /\ Goes(h, [callback EXCEPT !.pc = "wait", !.job = Len(jobs) + 1])
    /\ shown' = IF h = "start" THEN [session |-> callback.session, job |-> Len(jobs) + 1] ELSE shown
    /\ UNCHANGED <<runtimeVars, workspace, display, tasks, index, editor, snapshots, clicks>>

\* The control plane settles the job, one way or another, or never does
\* (JobLifecycle).
JobEnds(j) ==
    /\ jobs[j].status = "queued"
    /\ jobs' = [jobs EXCEPT ![j].status = "ended"]
    /\ UNCHANGED <<runtimeVars, tabVars, busy, snapshots, clicks>>

\* wait_for_job sees a terminal status: the ids are written again.
JobSeen(h) ==
    LET callback == busy[h] IN
    /\ At(h, "wait") /\ jobs[callback.job].status # "queued"
    /\ Returns(h)
    /\ shown' = IF h = "start" THEN [session |-> callback.session, job |-> callback.job] ELSE shown
    /\ UNCHANGED <<runtimeVars, workspace, display, tasks, index, editor, planeVars, clicks>>

\* wait_for_job's deadline passes; the tab's ids are cleared with the error.
Deadline(h) ==
    /\ At(h, "wait") /\ jobs[busy[h].job].status = "queued"
    /\ Returns(h)
    /\ shown' = IF h = "start" THEN Nowhere ELSE shown
    /\ UNCHANGED <<runtimeVars, workspace, display, tasks, index, editor, planeVars, clicks>>

\* A request to the control plane fails: on the way to a job, while it is
\* waited for, or when its report is read.
PlaneFails(h) ==
    /\ busy[h].pc \in {"session", "snapshot", "wait"}
    /\ Mishap
    /\ Returns(h)
    /\ shown' = IF h = "start" THEN Nowhere ELSE shown
    /\ UNCHANGED <<tinytroupe, rows, minted, calls, cache,
                   workspace, display, tasks, index, editor, planeVars, clicks>>

-----------------------------------------------------------------------------
User ==
    \/ \E method \in Methods, n \in Counts : ClickGenerate(method, n)
    \/ \E allow \in BOOLEAN, n \in ApiCounts : ClickApi("TinyTroupe", n, allow)
    \/ \E n \in ApiCounts : ClickApi("Example Persona", n, FALSE)
    \/ ClickApiForNone
    \/ ClickLoad \/ ClickSave \/ ClickStart \/ Tweak \/ RefreshPersonas
    \/ \E i \in 1..Len(display) : ChoosePersona(i)
    \/ \E n \in TaskCounts \cup {0} : SaveTasks(n)
    \/ \E w \in Workspaces : SelectWorkspace(w)

Tab == WriteTasks \/ Progress \/ GenerateHears \/ Judge \/ Choose \/ LoadHears \/ LoadPersona \/ SaveHears \/ ApiHears

Plane(h) == CreateSession(h) \/ Snapshot(h) \/ CreateJob(h) \/ JobSeen(h) \/ Deadline(h) \/ PlaneFails(h)

Served == (\E c \in DOMAIN calls : Serve(c)) /\ UNCHANGED <<tabVars, busy, planeVars, clicks>>

Next ==
    \/ User \/ Tab
    \/ \E h \in {"start", "api"} : Plane(h)
    \/ \E h \in Handlers : Timeout(h)
    \/ \E j \in DOMAIN jobs : JobEnds(j)
    \/ Served
    \/ Restart /\ UNCHANGED <<tabVars, busy, planeVars, clicks>>

\* What goes on without the user: the callbacks, and the requests received.
\* Nobody has to click, no job has to end, and whose turn it is is left open.
Work == Tab \/ (\E h \in {"start", "api"} : Plane(h)) \/ Served

Spec == Init /\ [][Next]_benchVars /\ WF_benchVars(Work)

-----------------------------------------------------------------------------
(* Properties *)

\* Whatever the tab displays, edits or has sent off to be tested is a profile
\* the runtime has stored: overlapping callbacks may write back what they
\* captured, but never a persona that is not there to be saved or found again.
DisplayIsStored ==
    /\ Ids(display) \subseteq DOMAIN rows
    /\ editor # Missing => editor.id \in DOMAIN rows
    /\ \A j \in DOMAIN jobs : Ids(jobs[j].personas) \subseteq DOMAIN rows

\* A job has a session of its own, and in it one snapshot of each persona that
\* was displayed at the click, in order and in the revision displayed, however
\* the tab went on since.
JobIsWhole ==
    \A j \in DOMAIN jobs :
      /\ snapshots[jobs[j].session] = jobs[j].personas
      /\ jobs[j].source = "gradio" => jobs[j].personas # <<>>
      /\ jobs[j].tasks # 0
      /\ \A k \in DOMAIN jobs \ {j} : jobs[k].session # jobs[j].session

\* A generation that does not leave the choice to a model displays as many
\* personas as were asked for, none of them twice; fewer only if the runtime
\* was short of people, never for what the pool lacked.
AskedForArrive ==
    [][LET callback == busy["generate"] IN
       busy'["generate"].pc = "choices" /\ ~At("generate", "choices") /\ display' # <<>> /\ ~callback.judged =>
         /\ Cardinality(Ids(display')) = Len(display')
         /\ Len(display') <= callback.count
         /\ Len(display') < callback.count =>
              /\ At("generate", "generate")
              /\ calls[callback.call].people < calls[callback.call].count]_busy

\* Every callback returns and every request is answered, however often the
\* model fails it and also when a job never ends.
CallbacksReturn ==
    []<>(/\ \A h \in Handlers : busy[h] = Idle
         /\ \A c \in DOMAIN calls : calls[c].step = "done")
=============================================================================
