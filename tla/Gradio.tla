-------------------------------- MODULE Gradio --------------------------------
(***************************************************************************)
(* The Gradio application.  Its personas and analyses (Workbench), its UI  *)
(* adaptations (Adaptation), its recordings (Recordings) and its backups   *)
(* to GitHub (Backup) share no state but the choice of a session, so that  *)
(* a behaviour is of one area.                                             *)
(***************************************************************************)
EXTENDS Workbench

CONSTANTS Tabs, Repos, Paths, MaxArtifacts, MaxClicks, MaxTroubles, None
CONSTANTS MaxTurns
CONSTANTS Sessions, Earlier, Cohort, CompareLimit, Viewings

VARIABLES area
VARIABLES session, gone, writable, files, tabs, syncs, done, backupClicks, backupTroubles
VARIABLES uiJobs, stamped, stored, turn, uiShown, asked, uiTroubles
VARIABLES stage, dirs, outcome, videos, tab, viewer, viewerClicks, viewerTroubles

Sync == INSTANCE Backup WITH clicks <- backupClicks, troubles <- backupTroubles
Chat == INSTANCE Adaptation WITH jobs <- uiJobs, shown <- uiShown, troubles <- uiTroubles
Player == INSTANCE Recordings WITH busy <- viewer, clicks <- viewerClicks, troubles <- viewerTroubles

backupVars == <<session, gone, writable, files, tabs, syncs, done, backupClicks, backupTroubles>>
chatVars == <<uiJobs, stamped, stored, turn, uiShown, asked, uiTroubles>>
playerVars == <<stage, dirs, outcome, videos, tab, viewer, viewerClicks, viewerTroubles>>
gradioVars == <<area, benchVars, backupVars, chatVars, playerVars>>

\* In the other areas nothing may happen, so that each has one initial state.
GradioInit ==
    /\ area \in {"workbench", "backup", "adaptation", "recordings"}
    /\ Init /\ Sync!Init /\ Chat!Init /\ Player!Init
    /\ area # "workbench" => clicks = {} /\ ~tinytroupe
    /\ area # "backup" => writable = {}
    /\ area # "recordings" => viewerClicks = {}

Of(name, elsewhere) == area = name /\ UNCHANGED <<area, elsewhere>>

InWorkbench == Of("workbench", <<backupVars, chatVars, playerVars>>)
InBackup == Of("backup", <<benchVars, chatVars, playerVars>>)
InAdaptation == Of("adaptation", <<benchVars, backupVars, playerVars>>)
InRecordings == Of("recordings", <<benchVars, backupVars, chatVars>>)

GradioNext ==
    \/ InWorkbench /\ Next
    \/ InBackup /\ Sync!Next
    \/ InAdaptation /\ Chat!Next
    \/ InRecordings /\ Player!Next

\* The callbacks of the workbench and of the recordings go on by themselves;
\* a backup or an adaptation may stop at any time.
GradioSpec ==
    /\ GradioInit /\ [][GradioNext]_gradioVars
    /\ WF_gradioVars(\/ InWorkbench /\ Work
                     \/ InRecordings /\ Player!Callbacks)

-----------------------------------------------------------------------------
\* Backups that report no error hold what was newest (push_session_to_github).
BackupIsNewest == Sync!BackupIsNewest

\* A turn of the chat never goes back behind what its tab had been shown
\* (llm_chat_adaptation).
TurnsGoForward == Chat!TurnsGoForward

\* Every callback of the workbench returns and every request it sent is
\* answered, and a run that has finished is not polled for ever.
EverythingReturns == CallbacksReturn /\ Player!PollingEnds

\* The timer of the live view ticks only while it is on screen, which the code
\* says (app.py:1681) and does not do.
TicksOnlyOnScreen == Player!TicksOnlyOnScreen

\* The hand-off of the live view plays the run that was followed, which the
\* code says (app.py:1897) and does not do.
PlaysTheFollowed == Player!PlaysTheFollowed
=============================================================================
