-------------------------------- MODULE Backup --------------------------------
(***************************************************************************)
(* The backup of a session's artifacts to a repository of the user's own   *)
(* (apps/gradio/github_backup.py and its callbacks in app.py).  A tab      *)
(* connects a token, fixes a repository that it has verified, and pushes   *)
(* the artifacts it lists one by one, each over the version it has just    *)
(* read.  Several tabs may do so at once, while the session goes on.       *)
(*                                                                         *)
(* An artifact is its position in the session, oldest first; GitHub names  *)
(* a version of a file by its content, so that here the artifact is the    *)
(* sha as well.                                                            *)
(***************************************************************************)
EXTENDS Integers, Sequences, FiniteSets, SequencesExt

CONSTANTS Tabs, Repos,
          Paths,           \* the paths a session's artifacts are kept at
          MaxArtifacts,    \* bound on the artifacts of the session
          MaxClicks,       \* bound on the user's actions, in all tabs
          MaxTroubles,     \* bound on what goes wrong
          None

VARIABLES session,         \* the path of each artifact
          gone,            \* artifacts swept since
          writable,        \* the repositories that accept the token's pushes
          files,           \* files[r][path]: an artifact, 0 for no file
          tabs,            \* the GitHub controls of each tab
          syncs,           \* the backup under way in each tab
          done,            \* the backups over since one was last alone
          clicks, troubles

vars == <<session, gone, writable, files, tabs, syncs, done, clicks, troubles>>

Artifacts == 1..MaxArtifacts
Resting == [pc |-> "idle"]

Init ==
    /\ session \in {<<p>> : p \in Paths}
    /\ gone = {}
    /\ writable \in SUBSET Repos
    /\ files = [r \in Repos |-> [p \in Paths |-> 0]]
    /\ tabs = [t \in Tabs |-> [connected |-> FALSE, selected |-> None, changed |-> FALSE,
                               verifying |-> None, locked |-> None]]
    /\ syncs = [t \in Tabs |-> Resting]
    /\ done = {}
    /\ clicks = 0 /\ troubles = 0

Click == clicks < MaxClicks /\ clicks' = clicks + 1
Trouble == troubles < MaxTroubles /\ troubles' = troubles + 1

-----------------------------------------------------------------------------
(* The controls *)

\* The dropdown's value; its change, if it is one, unlocks.
Selecting(tab, r) == [tab EXCEPT !.selected = r, !.changed = @ \/ r # tab.selected]

\* connect_github: the first repository the token can push to; without one
\* the token is kept, and a token that is refused is forgotten.
Connect(t) ==
    /\ Click
    /\ \/ \E r \in IF writable = {} THEN {None} ELSE writable :
            tabs' = [tabs EXCEPT ![t] = [Selecting(@, r) EXCEPT !.connected = TRUE]]
       \/ tabs' = [tabs EXCEPT ![t] = [Selecting(@, None) EXCEPT !.connected = FALSE]]
    /\ UNCHANGED <<session, gone, writable, files, syncs, done, troubles>>

Select(t, r) ==
    /\ Click /\ tabs[t].connected
    /\ tabs' = [tabs EXCEPT ![t] = Selecting(@, r)]
    /\ UNCHANGED <<session, gone, writable, files, syncs, done, troubles>>

\* unlock_backup_repo, whenever its turn comes.
Unlock(t) ==
    /\ tabs[t].changed
    /\ tabs' = [tabs EXCEPT ![t].changed = FALSE, ![t].locked = None]
    /\ UNCHANGED <<session, gone, writable, files, syncs, done, clicks, troubles>>

\* lock_backup_repo, at its click, of the repository selected then.
ClickLock(t) ==
    /\ Click /\ tabs[t].connected /\ tabs[t].selected # None /\ tabs[t].verifying = None
    /\ tabs' = [tabs EXCEPT ![t].verifying = tabs[t].selected]
    /\ UNCHANGED <<session, gone, writable, files, syncs, done, troubles>>

\* confirm_backup_repo has answered: the repository is fixed, or none is.
Lock(t) ==
    LET r == tabs[t].verifying IN
    /\ r # None
    /\ tabs' = [tabs EXCEPT ![t].verifying = None, ![t].locked = IF r \in writable THEN r ELSE None]
    /\ UNCHANGED <<session, gone, writable, files, syncs, done, clicks, troubles>>

-----------------------------------------------------------------------------
(* sync_session_to_github *)

ClickSync(t) ==
    /\ Click /\ tabs[t].connected /\ tabs[t].locked # None /\ syncs[t] = Resting
    /\ syncs' = [syncs EXCEPT ![t] = [pc |-> "list", repo |-> tabs[t].locked, listed |-> <<>>,
                                      at |-> 1, sha |-> 0, errors |-> {}]]
    /\ done' = IF \A u \in Tabs : syncs[u] = Resting THEN {} ELSE done
    /\ UNCHANGED <<session, gone, writable, files, tabs, troubles>>

\* ORDER BY created_at.
OldestFirst(artifacts) ==
    [n \in 1..Cardinality(artifacts) |->
       CHOOSE a \in artifacts : Cardinality({b \in artifacts : b < a}) = n - 1]

\* Mutant: newest first.
ListedBackwards == Reverse(OldestFirst(DOMAIN session \ gone))

\* list_artifacts: the session's artifacts that are still there.
Listed == OldestFirst(DOMAIN session \ gone)

\* The sync goes on with its next artifact, or ends.
Continue(t, sync) ==
    IF sync.at > Len(sync.listed)
    THEN /\ syncs' = [syncs EXCEPT ![t] = Resting]
         /\ done' = done \cup {[repo |-> sync.repo, listed |-> sync.listed, errors |-> sync.errors]}
    ELSE syncs' = [syncs EXCEPT ![t] = sync] /\ UNCHANGED done

Advanced(sync) == [sync EXCEPT !.pc = "read", !.at = @ + 1]
Failed(sync) == [Advanced(sync) EXCEPT !.errors = @ \cup {sync.at}]
Under(t, pc) == syncs[t].pc = pc
Artifact(sync) == sync.listed[sync.at]

\* The session's artifacts of the kinds that are backed up; or nothing can be
\* listed, and the sync ends with a message.
List(t) ==
    /\ Under(t, "list")
    /\ \/ Continue(t, [syncs[t] EXCEPT !.pc = "read", !.listed = Listed]) /\ UNCHANGED troubles
       \/ Trouble /\ syncs' = [syncs EXCEPT ![t] = Resting] /\ UNCHANGED done
    /\ UNCHANGED <<session, gone, writable, files, tabs, clicks>>

\* The content, and the version of the file that is there (_existing_file_sha).
Read(t) ==
    LET sync == syncs[t] IN
    /\ Under(t, "read")
    /\ \/ /\ Artifact(sync) \notin gone
          /\ Continue(t, [sync EXCEPT !.pc = "put", !.sha = files[sync.repo][session[Artifact(sync)]]])
          /\ UNCHANGED troubles
       \/ Artifact(sync) \in gone /\ Continue(t, Failed(sync)) /\ UNCHANGED troubles
       \/ Trouble /\ Continue(t, Failed(sync))
    /\ UNCHANGED <<session, gone, writable, files, tabs, clicks>>

\* GitHub takes a push over the version it names, of a repository that is
\* writable, and of no other.
Accepts(r, path, sha) == r \in writable /\ files[r][path] = sha

Written(sync) == [files EXCEPT ![sync.repo][session[Artifact(sync)]] = Artifact(sync)]

\* push_file's second call: accepted, refused, or its answer is lost.
Put(t) ==
    LET sync == syncs[t]
        accepted == Accepts(sync.repo, session[Artifact(sync)], sync.sha)
    IN
    /\ Under(t, "put")
    /\ \/ accepted /\ files' = Written(sync) /\ Continue(t, Advanced(sync)) /\ UNCHANGED troubles
       \/ ~accepted /\ Continue(t, Failed(sync)) /\ UNCHANGED <<files, troubles>>
       \/ Trouble /\ files' \in {files, IF accepted THEN Written(sync) ELSE files} /\ Continue(t, Failed(sync))
    /\ UNCHANGED <<session, gone, writable, tabs, clicks>>

-----------------------------------------------------------------------------
(* The rest of the world *)

\* A job publishes an artifact, at a path of its own or at an earlier one's.
Publish(p) ==
    /\ Len(session) < MaxArtifacts
    /\ session' = Append(session, p)
    /\ UNCHANGED <<gone, writable, files, tabs, syncs, done, clicks, troubles>>

\* Retention, or an archived repository.
Sweep(a) ==
    /\ Trouble /\ a \in DOMAIN session \ gone /\ gone' = gone \cup {a}
    /\ UNCHANGED <<session, writable, files, tabs, syncs, done, clicks>>

Archive(r) ==
    /\ Trouble /\ r \in writable /\ writable' = writable \ {r}
    /\ UNCHANGED <<session, gone, files, tabs, syncs, done, clicks>>

Controls(t) == Connect(t) \/ (\E r \in Repos : Select(t, r)) \/ Unlock(t) \/ ClickLock(t) \/ Lock(t)

Sync(t) == ClickSync(t) \/ List(t) \/ Read(t) \/ Put(t)

Next ==
    \/ \E t \in Tabs : Controls(t) \/ Sync(t)
    \/ \E p \in Paths : Publish(p)
    \/ \E a \in Artifacts : Sweep(a)
    \/ \E r \in Repos : Archive(r)

Spec == Init /\ [][Next]_vars

-----------------------------------------------------------------------------
(* Properties *)

At(listed, p) == {a \in ToSet(listed) : session[a] = p}
Newest(listed, p) == CHOOSE a \in At(listed, p) : \A b \in At(listed, p) : b <= a

\* When the backups that ran at once are all over and reported no error, each
\* file they pushed is, for one of them, the newest artifact it listed: for a
\* backup that ran alone, exactly that (push_session_to_github).
BackupIsNewest ==
    (\A t \in Tabs : syncs[t] = Resting) /\ (\A sync \in done : sync.errors = {}) =>
        \A sync \in done : \A p \in Paths :
            At(sync.listed, p) # {} =>
                files[sync.repo][p] \in
                    {Newest(other.listed, p) : other \in {o \in done : o.repo = sync.repo /\ At(o.listed, p) # {}}}
=============================================================================
