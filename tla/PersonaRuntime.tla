---------------------------- MODULE PersonaRuntime ----------------------------
(***************************************************************************)
(* The persona runtime (services/persona_service): requests that generate, *)
(* compile, adopt, list and edit synthetic users, and the store that keeps *)
(* them.  Requests run at once, each in steps: the model is asked again    *)
(* when it fails, a profile is saved when all of the request are compiled, *)
(* and a client that gives up is not noticed.                              *)
(*                                                                         *)
(* A profile is an id and a revision: 0 as compiled, more when edited.     *)
(***************************************************************************)
EXTENDS PersonaPool

CONSTANTS Workspaces,
          Published,       \* the index.json the pool's repository may hold
          BatchAttempts,   \* PERSONA_BATCH_RETRY_ATTEMPTS
          Attempts,        \* SEMANTIC_ENGINE_MAX_ATTEMPTS
          MaxMishaps,      \* bound on lost connections, timeouts, store errors and restarts
          Missing

\* The attempts are positive whatever the environment says (_int_env_override).
ASSUME AttemptsAssumption ==
    BatchAttempts \in Nat \ {0} /\ Attempts \in Nat \ {0} /\ MaxMishaps \in Nat

\* The workflow that writes an index lists each profile once
\* (generate_persona_pool_batch.py).
ASSUME PublishedAssumption ==
    \A pool \in Published :
        /\ pool \in Seq([id : Nat, distance : Int, trait : Int])
        /\ \A i, k \in DOMAIN pool : pool[i].id = pool[k].id => i = k

VARIABLES tinytroupe,      \* PERSONA_GENERATOR = tinytroupe
          rows,            \* the store: by id
          minted,          \* ids given out so far
          calls,           \* the requests, in the order they arrived
          cache,           \* _index_cache
          mishaps

runtimeVars == <<tinytroupe, rows, minted, calls, cache, mishaps>>

Ops == {"generate", "compile", "lookup", "list", "patch"}
Row == [workspace : Workspaces, rev : Nat]

Profile(id, rev) == [id |-> id, rev |-> rev]
Ids(profiles) == {p.id : p \in ToSet(profiles)}

RuntimeTypeOK ==
    /\ tinytroupe \in BOOLEAN
    /\ DOMAIN rows \subseteq 1..minted /\ \A id \in DOMAIN rows : rows[id] \in Row
    /\ \A c \in DOMAIN calls :
         /\ calls[c].op \in Ops /\ calls[c].workspace \in Workspaces
         /\ calls[c].step \in {"people", "compile", "save", "index", "adopt", "list", "patch", "done"}
         /\ calls[c].result \in {"none", "ok", "error"}
         /\ calls[c].result = "none" <=> calls[c].step # "done"
         /\ calls[c].attempt \in 0..BatchAttempts
         /\ calls[c].round \in 0..Attempts
         /\ ToSet(calls[c].out) \subseteq 1..minted
         /\ ToSet(calls[c].saved) \subseteq [id : 1..minted, rev : Nat]
    /\ cache \in Published \cup {Missing}
    /\ mishaps \in 0..MaxMishaps

RuntimeInit ==
    /\ tinytroupe \in BOOLEAN
    /\ rows = <<>> /\ minted = 0 /\ calls = <<>>
    /\ cache = Missing
    /\ mishaps \in 0..MaxMishaps

-----------------------------------------------------------------------------
(* Requests *)

\* A request: what it asks for, and how far it is.
Call(op, workspace, count) ==
    [op |-> op, workspace |-> workspace, count |-> count, profile |-> Profile(0, 0),
     allow |-> FALSE, step |-> op, attempt |-> 0, people |-> 0, queued |-> 0, round |-> 0,
     bad |-> FALSE, mock |-> FALSE, chosen |-> <<>>, out |-> <<>>, saved |-> <<>>,
     result |-> "none"]

\* n people whose behaviour and abilities are compiled at once, others after them.
Compiling(call, atOnce, later) ==
    [call EXCEPT !.step = "compile", !.people = atOnce + later, !.queued = later, !.round = 1]

\* _offline_profiles: one after the other.
Offline(call, mock) == [Compiling(call, 1, call.count - 1) EXCEPT !.mock = mock]

Received(call) ==
    CASE call.op = "generate" -> IF tinytroupe THEN [call EXCEPT !.step = "people"]
                                 ELSE Offline(call, FALSE)
      [] call.op = "compile"  -> Compiling(call, 1, 0)
      [] call.op = "lookup"   -> [call EXCEPT !.step = "index"]
      [] OTHER                -> call

\* A client posts a request.
Ask(call) == calls' = Append(calls, Received(call))

Serving(c, step) == c \in DOMAIN calls /\ calls[c].step = step
Becomes(c, call) == calls' = [calls EXCEPT ![c] = call]
Answered(call, result) ==
    [call EXCEPT !.step = "done", !.result = result, !.attempt = 0, !.round = 0]
Mishap == mishaps > 0 /\ mishaps' = mishaps - 1

-----------------------------------------------------------------------------
(* Generation and compilation *)

\* A batch of TinyTroupe people is whole, short, empty or raises; the best of
\* the attempts is kept (_generate_people_with_retry, generate).
People(c) ==
    /\ Serving(c, "people")
    /\ \E n \in 0..calls[c].count :
         LET call == calls[c]
             best == IF n > call.people THEN n ELSE call.people
             tried == [call EXCEPT !.attempt = @ + 1, !.people = best]
         IN  Becomes(c,
               IF best < call.count /\ tried.attempt < BatchAttempts THEN tried
               ELSE IF best > 0 THEN Compiling(tried, best, 0)
               ELSE IF call.allow THEN Offline(tried, TRUE)
               ELSE Answered(tried, "error"))
    /\ UNCHANGED <<tinytroupe, rows, minted, cache, mishaps>>

\* Mutant of Retried: without the bound.
RetriedForEver(call) == {[call EXCEPT !.round = 1 + (@ % Attempts)]}

\* _complete: the same request again, while attempts remain.
Retried(call) == {[call EXCEPT !.round = @ + 1] : k \in {k \in {1} : call.round < Attempts}}

\* A round of completions is lost or empty in part; of another schema, or out
\* of attempts, it ends the request with nothing saved, unless a mock stands in.
Uncompiled(c) ==
    LET call == calls[c]
        bad == Answered([call EXCEPT !.bad = TRUE], "error")
    IN
    /\ ~call.mock
    /\ \E next \in Retried(call) \cup {bad} : Becomes(c, next)
    /\ UNCHANGED <<minted, rows>>

\* The people compiled at once are done (_profile): the others of the request
\* follow, and when every profile is there each has its id.
Compiled(c) ==
    LET call == calls[c] IN
    /\ IF call.queued > 0
       THEN Becomes(c, [call EXCEPT !.queued = @ - 1, !.round = 1]) /\ UNCHANGED minted
       ELSE /\ Becomes(c, [call EXCEPT !.step = "save",
                                       !.out = [n \in 1..call.people |-> minted + n]])
            /\ minted' = minted + call.people
    /\ UNCHANGED rows

\* The completions of those compiled at once, two for each, run concurrently
\* and all of them are awaited: a round of them returns.
Complete(c) ==
    /\ Serving(c, "compile")
    /\ Compiled(c) \/ Uncompiled(c)
    /\ UNCHANGED <<tinytroupe, cache, mishaps>>

-----------------------------------------------------------------------------
(* The store *)

\* PersonaStore.save: an upsert on the id alone.
Upsert(id, workspace, rev) ==
    rows' = [i \in DOMAIN rows \cup {id} |->
               IF i = id THEN [workspace |-> workspace, rev |-> rev] ELSE rows[i]]

\* Mutant of Save: a profile that cannot be saved is answered all the same.
SaveTolerant(c) ==
    LET call == calls[c]
        one == [call EXCEPT !.out = Tail(@), !.saved = Append(@, Profile(Head(call.out), call.profile.rev))]
    IN
    /\ Serving(c, "save")
    /\ \/ Upsert(Head(call.out), call.workspace, call.profile.rev) /\ UNCHANGED mishaps
       \/ Mishap /\ UNCHANGED rows
    /\ Becomes(c, IF one.out = <<>> THEN Answered(one, "ok") ELSE one)
    /\ UNCHANGED <<tinytroupe, minted, cache>>

\* generate, compile_existing and patch save what they answer, one by one.
Save(c) ==
    LET call == calls[c] IN
    /\ Serving(c, "save")
    /\ \/ LET one == [call EXCEPT !.out = Tail(@), !.saved = Append(@, Profile(Head(call.out), call.profile.rev))] IN
          /\ Upsert(Head(call.out), call.workspace, call.profile.rev)
          /\ Becomes(c, IF one.out = <<>> THEN Answered(one, "ok") ELSE one)
          /\ UNCHANGED mishaps
       \/ Mishap /\ Becomes(c, Answered(call, "error")) /\ UNCHANGED rows
    /\ UNCHANGED <<tinytroupe, minted, cache>>

OwnIds(workspace) == {id \in DOMAIN rows : rows[id].workspace = workspace}

\* Mutant of Patch: without get_for_workspace.
PatchAny(c) ==
    LET call == calls[c] IN
    /\ Serving(c, "patch")
    /\ Becomes(c, [call EXCEPT !.step = "save", !.out = <<call.profile.id>>])
    /\ UNCHANGED <<tinytroupe, rows, minted, cache, mishaps>>

\* patch: a profile of the workspace, which must still be one after the edit.
Patch(c) ==
    LET call == calls[c] IN
    /\ Serving(c, "patch")
    /\ Becomes(c, IF call.profile.id \in OwnIds(call.workspace)
                  THEN [call EXCEPT !.step = "save", !.out = <<call.profile.id>>]
                  ELSE Answered(call, "error"))
    /\ UNCHANGED <<tinytroupe, rows, minted, cache, mishaps>>

\* list_personas, oldest first.
List(c) ==
    LET call == calls[c] own == OwnIds(call.workspace) IN
    /\ Serving(c, "list")
    /\ Becomes(c, [Answered(call, "ok") EXCEPT
         !.saved = [n \in 1..Cardinality(own) |->
           LET id == CHOOSE i \in own : Cardinality({k \in own : k < i}) = n - 1
           IN  Profile(id, rows[id].rev)]])
    /\ UNCHANGED <<tinytroupe, rows, minted, cache, mishaps>>

-----------------------------------------------------------------------------
(* The pool *)

\* fetch_index, from the cache or, when that is empty or past its ttl_seconds,
\* from the repository, where its own workflow commits another from time to
\* time; and the group chosen of it.  (No pool
\* and no index are an empty one.)
FetchIndex(c) ==
    LET Adopting(index) ==
          LET group == SelectPoolGroup(index, calls[c].count) IN
          Becomes(c, IF group = <<>> THEN Answered(calls[c], "ok")
                     ELSE [calls[c] EXCEPT !.step = "adopt", !.chosen = group])
    IN
    /\ Serving(c, "index")
    /\ \/ cache # Missing /\ Adopting(cache) /\ UNCHANGED <<cache, mishaps>>
       \/ /\ \E index \in Published : cache' = index /\ Adopting(index)
          /\ UNCHANGED mishaps
       \/ Mishap /\ Becomes(c, Answered(calls[c], "error")) /\ UNCHANGED cache
    /\ UNCHANGED <<tinytroupe, rows, minted>>

\* Mutant of AdoptedId: the id in the pool's file.
FileId(entry) == entry.id

\* A fresh id for each adoption.
AdoptedId(entry) == minted + 1

\* pool_lookup's loop: an entry is fetched and saved under its new id, or
\* skipped: its file is gone or no profile, or cannot be had.
Adopt(c) ==
    LET call == calls[c]
        entry == Head(call.chosen)
        Then(next) == Becomes(c, IF next.chosen = <<>> THEN Answered(next, "ok") ELSE next)
        rest == [call EXCEPT !.chosen = Tail(@)]
    IN
    /\ Serving(c, "adopt")
    /\ \/ LET id == AdoptedId(entry) IN
          /\ minted' = IF id > minted THEN id ELSE minted
          /\ Upsert(id, call.workspace, 0)
          /\ Then([rest EXCEPT !.saved = Append(@, Profile(id, 0))])
          /\ UNCHANGED mishaps
       \/ Then(rest) /\ UNCHANGED <<rows, minted, mishaps>>
       \/ Mishap /\ Becomes(c, Answered(call, "error")) /\ UNCHANGED <<rows, minted>>
    /\ UNCHANGED <<tinytroupe, cache>>

\* The process restarts: its requests are lost, its rows are not.
Restart ==
    /\ Mishap
    /\ \E c \in DOMAIN calls : calls[c].step # "done"
    /\ calls' = [c \in DOMAIN calls |->
                   IF calls[c].step = "done" THEN calls[c] ELSE Answered(calls[c], "error")]
    /\ cache' = Missing
    /\ UNCHANGED <<tinytroupe, rows, minted>>

Serve(c) ==
    \/ People(c) \/ Complete(c) \/ Save(c)
    \/ Patch(c) \/ List(c) \/ FetchIndex(c) \/ Adopt(c)

-----------------------------------------------------------------------------
(* Properties *)

\* A profile never leaves the workspace that made it, whoever generates,
\* adopts or edits at the same time (save is an upsert on the id alone).
RowsKeepWorkspace ==
    [][\A id \in DOMAIN rows :
         id \in DOMAIN rows' /\ rows'[id].workspace = rows[id].workspace]_rows

\* A request answered with profiles has stored each of them, for its own
\* workspace; one that was to make new ones shares none with another request;
\* and one that fails for want of a usable completion has stored nothing,
\* however many of its people were compiled before.
AnswersAreStored ==
    \A c \in DOMAIN calls :
      /\ calls[c].result = "ok" =>
           /\ Ids(calls[c].saved) \subseteq OwnIds(calls[c].workspace)
           /\ calls[c].op \in {"generate", "compile", "lookup"} =>
                \A d \in DOMAIN calls \ {c} : calls[d].op \in {"generate", "compile", "lookup"} =>
                  Ids(calls[c].saved) \cap Ids(calls[d].saved) = {}
      /\ calls[c].result = "error" /\ calls[c].bad => calls[c].saved = <<>>

\* What a lookup goes on to adopt is a ranged, diversified group of the index
\* it read, be that fresh or cached.
AdoptsRangedGroup ==
    [][\A c \in DOMAIN calls : calls[c].step = "index" /\ calls'[c].step = "adopt" =>
         IsRangedGroup(calls'[c].chosen, cache', calls[c].count)]_calls
=============================================================================
