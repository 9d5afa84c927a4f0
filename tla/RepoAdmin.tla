------------------------------- MODULE RepoAdmin -------------------------------
(***************************************************************************)
(* Repositories and presets, administered while runs are filed and walked: *)
(* src/api/repos.py, src/api/presets.py, the three handlers that file a    *)
(* run (api/runs.py, api/transform.py, api/devops.py) and the tables they  *)
(* share (src/db.py and the keys of the migrations).  A handler is cut at  *)
(* its awaits; a statement a key refuses raises, and the request ends      *)
(* there with what it has done so far; one that is never continued stands  *)
(* for a web process that died.                                            *)
(*                                                                         *)
(* How a run is walked is RunControl's: here it is active or stopped.      *)
(* Names, branches, clone URLs and the context of a repository are left    *)
(* out, with the handlers that only change those.                          *)
(***************************************************************************)
EXTENDS AgentConfig, Integers, FiniteSets

CONSTANTS Projects,    \* of GitLab
          Repos, Presets, Runs,   \* the ids the SERIAL columns will hand out
          Users,       \* each with at most one HTTP request in flight
          Configs,     \* the overrides presets are saved with
          Seeds,       \* those of the presets there are at first, by id
          Base,        \* agents.yaml
          Budget       \* how often each of BudgetOps may happen (bounds the model)

\* "any" bounds all of them together.
BudgetOps == {"edit", "disconnect", "revive", "any"}

ASSUME ProjectsAssumption == {"none", "gone"} \cap Projects = {}
ASSUME BaseAssumption == \A a \in DOMAIN Base \ {"pipeline"} : IsDict(Base[a])
ASSUME IdsAssumption == Repos \cup Presets \cup Runs \subseteq Nat \ {0}
ASSUME SeedsAssumption == \A p \in DOMAIN Seeds : p \in Presets /\ Seeds[p] \in Configs
ASSUME BudgetAssumption == Budget \in [BudgetOps -> Nat]

VARIABLES
    repo,      \* repos: the project and the preset of each
    preset,    \* agent_presets: the overrides of each
    run,       \* pipeline_runs
    request,   \* what is in flight for each user
    left

vars == <<repo, preset, run, request, left>>

NoId    == 0
NoRepo  == [project |-> "none", preset |-> NoId]
GoneRepo == [project |-> "gone", preset |-> NoId]
NoRun   == [status |-> "unborn", repo |-> NoId, source |-> NoId, snapshot |-> NoKeys,
            read |-> NoKeys]
Gone    == [NoRun EXCEPT !.status = "deleted"]
Preset(state, c) == [state |-> state, configs |-> c]
NoPreset   == Preset("none", NoKeys)
GonePreset == Preset("gone", NoKeys)

Connected(i) == repo[i].project \in Projects
Saved(p)     == preset[p].state = "saved"
Stored(r)    == run[r].status \notin {"unborn", "deleted"}
RefersTo(r, i) == Stored(r) /\ (run[r].repo = i \/ run[r].source = i)

\* A run that is waited for, walked or parked.
Active == {"pending", "running", "awaiting_checkpoint"}

\* A request and its local variables: the repository, the preset and the
\* source it is about, what it read, the runs it listed and is to delete, the
\* ids there were when it listed them, and those of its runs that were active
\* again since (both history).
Ask(pc, i) == [pc |-> pc, repo |-> i, source |-> NoId, preset |-> NoId,
               snapshot |-> NoKeys, read |-> NoKeys, project |-> "none",
               todo |-> {}, known |-> {}, again |-> {}]
Idle == Ask("idle", NoId)

Free(u)       == request[u] = Idle
InFlight(u, pc) == request[u].pc = pc
Then(u, req)  == request' = [request EXCEPT ![u] = req]
Done(u)       == Then(u, Idle)
Spend(op)     == /\ left[op] > 0 /\ left["any"] > 0
                 /\ left' = [left EXCEPT ![op] = @ - 1, !["any"] = @ - 1]

Init ==
    /\ repo = [i \in Repos |-> NoRepo]
    /\ preset = [p \in Presets |-> IF p \in DOMAIN Seeds THEN Preset("saved", Seeds[p])
                                   ELSE NoPreset]
    /\ run = [r \in Runs |-> NoRun]
    /\ request = [u \in Users |-> Idle]
    /\ left = Budget

-------------------------------------------------------------------------------
\* A SERIAL column hands out the smallest id it has not handed out yet.
NextId(unused) == {i \in unused : \A j \in unused : i <= j}

\* connect_repo: a project that is connected already is only shown.
AskConnect(u, p) ==
    /\ Free(u)
    /\ \A i \in Repos : repo[i].project # p
    /\ Then(u, [Ask("insertRepo", NoId) EXCEPT !.project = p])
    /\ UNCHANGED <<repo, preset, run, left>>

\* Mutant: the column is not unique.
MutantIsConnected(p) == FALSE

\* The key of gitlab_project_id: GitLab was asked in between.
IsConnected(p) == \E i \in Repos : repo[i].project = p

InsertRepo(u) ==
    LET p == request[u].project IN
    /\ InFlight(u, "insertRepo")
    /\ IF IsConnected(p) THEN repo' = repo
       ELSE \E i \in NextId({j \in Repos : repo[j] = NoRepo}) :
               repo' = [repo EXCEPT ![i] = [project |-> p, preset |-> NoId]]
    /\ Done(u)
    /\ UNCHANGED <<preset, run, left>>

-------------------------------------------------------------------------------
\* Presets: created or cloned, saved, deleted (ON DELETE SET NULL), and chosen
\* for a repository.  Each is one statement.
CreatePreset(c) ==
    /\ Spend("edit")
    /\ \E p \in NextId({q \in Presets : preset[q] = NoPreset}) :
          preset' = [preset EXCEPT ![p] = Preset("saved", c)]
    /\ UNCHANGED <<repo, run, request>>

UpdatePreset(p, c) ==
    /\ Spend("edit")
    /\ Saved(p) /\ preset[p].configs # c
    /\ preset' = [preset EXCEPT ![p] = Preset("saved", c)]
    /\ UNCHANGED <<repo, run, request>>

\* Mutant: the repositories that have the preset keep it.
MutantWithout(p) == repo

Without(p) == [i \in Repos |-> IF repo[i].preset = p THEN [repo[i] EXCEPT !.preset = NoId]
                               ELSE repo[i]]

DeletePreset(p) ==
    /\ Spend("edit")
    /\ Saved(p)
    /\ preset' = [preset EXCEPT ![p] = GonePreset]
    /\ repo' = Without(p)
    /\ UNCHANGED <<run, request>>

SetRepoPreset(i, p) ==
    /\ Connected(i) /\ repo[i].preset # p
    /\ p = NoId \/ (p \in Presets /\ Saved(p))
    /\ Spend("edit")
    /\ repo' = [repo EXCEPT ![i].preset = p]
    /\ UNCHANGED <<preset, run, request>>

-------------------------------------------------------------------------------
\* POST /runs, /transform (with a source) and /devops: the repository is read,
\* then its preset if it has one, then the row is inserted.
AskFile(u, i, s) ==
    /\ Free(u)
    /\ Connected(i) /\ (s = NoId \/ (s \in Repos \ {i} /\ Connected(s)))
    /\ LET pc == IF repo[i].preset = NoId THEN "insertRun" ELSE "getPreset" IN
       Then(u, [Ask(pc, i) EXCEPT !.source = s, !.preset = repo[i].preset])
    /\ UNCHANGED <<repo, preset, run, left>>

\* The preset as it is by now, or nothing if it was deleted.
GetPreset(u) ==
    LET c == preset[request[u].preset].configs IN
    /\ InFlight(u, "getPreset")
    /\ Then(u, [request[u] EXCEPT !.pc = "insertRun", !.read = c,
                                  !.snapshot = BuildPresetSnapshot(c)])
    /\ UNCHANGED <<repo, preset, run, left>>

\* Mutant: only the repository of the run has a foreign key.
MutantKeysHold(u) == Connected(request[u].repo)

\* The foreign keys of repo_id and source_repo_id.
KeysHold(u) ==
    /\ Connected(request[u].repo)
    /\ request[u].source = NoId \/ Connected(request[u].source)

InsertRun(u) ==
    LET q == request[u] IN
    /\ InFlight(u, "insertRun")
    /\ IF KeysHold(u)
       THEN \E r \in NextId({x \in Runs : run[x] = NoRun}) :
               run' = [run EXCEPT ![r] = [NoRun EXCEPT
                         !.status = "pending", !.repo = q.repo, !.source = q.source,
                         !.snapshot = q.snapshot, !.read = q.read]]
       ELSE run' = run
    /\ Done(u)
    /\ UNCHANGED <<repo, preset, left>>

-------------------------------------------------------------------------------
\* disconnect_repo: the runs of the repository are listed; if none is active
\* they are deleted one by one, runs it was the source of forget it, and the
\* row goes unless a run refers to it.
RunsOf(i) == {r \in Runs : Stored(r) /\ run[r].repo = i}

\* Mutant: a run that awaits its reviewer does not count.
MutantBlocks(r) == run[r].status \in {"pending", "running"}

Blocks(r) == run[r].status \in {"pending", "running", "awaiting_checkpoint"}

AskDisconnect(u, i) ==
    /\ Free(u) /\ Connected(i)
    /\ Spend("disconnect")
    /\ IF \E r \in RunsOf(i) : Blocks(r) THEN request' = request
       ELSE Then(u, [Ask("deleteRuns", i) EXCEPT !.todo = RunsOf(i),
                                                 !.known = {r \in Runs : run[r] # NoRun}])
    /\ UNCHANGED <<repo, preset, run>>

\* Newest first.
DeleteNextRun(u) ==
    LET q == request[u]
        r == CHOOSE x \in q.todo : \A y \in q.todo : y <= x IN
    /\ InFlight(u, "deleteRuns") /\ q.todo # {}
    /\ run' = [run EXCEPT ![r] = Gone]
    /\ Then(u, [q EXCEPT !.todo = @ \ {r}])
    /\ UNCHANGED <<repo, preset, left>>

\* Mutant: the source references stay.
MutantForget(i) == run' = run

Forget(i) == run' = [r \in Runs |-> IF run[r].source = i THEN [run[r] EXCEPT !.source = NoId]
                                    ELSE run[r]]

ClearSources(u) ==
    LET q == request[u] IN
    /\ InFlight(u, "deleteRuns") /\ q.todo = {}
    /\ Forget(q.repo)
    /\ Then(u, [q EXCEPT !.pc = "deleteRepo"])
    /\ UNCHANGED <<repo, preset, left>>

DeleteRepo(u) ==
    LET i == request[u].repo IN
    /\ InFlight(u, "deleteRepo")
    /\ repo' = IF \E r \in Runs : RefersTo(r, i) THEN repo ELSE [repo EXCEPT ![i] = GoneRepo]
    /\ Done(u)
    /\ UNCHANGED <<preset, run, left>>

-------------------------------------------------------------------------------
\* What the other parts do to the status of a run (RunControl): a run taken up
\* counts as active as it did when it was pending, then parks, goes on or stops.
Walk(r) ==
    /\ run[r].status \in Active
    /\ \E s \in {"awaiting_checkpoint", "completed"} \ {run[r].status} :
          run' = [run EXCEPT ![r].status = s]
    /\ UNCHANGED <<repo, preset, request, left>>

\* A stopped run is active again.
Revive(r, status) ==
    /\ run[r].status = "completed"
    /\ Spend("revive")
    /\ run' = [run EXCEPT ![r].status = status]
    /\ request' = [u \in Users |->
                     [request[u] EXCEPT !.again = @ \cup ({r} \cap request[u].todo)]]
    /\ UNCHANGED <<repo, preset>>

\* A user restarts it.
Restart(r) == Revive(r, "pending")

\* Nobody restarts it: a checkpoint that was left pending is approved and its walk
\* resumed, or the walker of a cancelled run stores its own status over that.
GoOn(r) == Revive(r, "running")

-------------------------------------------------------------------------------
Next ==
    \/ \E u \in Users :
          \/ \E p \in Projects : AskConnect(u, p)
          \/ \E i \in Repos, s \in Repos \cup {NoId} : AskFile(u, i, s)
          \/ \E i \in Repos : AskDisconnect(u, i)
          \/ InsertRepo(u) \/ GetPreset(u) \/ InsertRun(u)
          \/ DeleteNextRun(u) \/ ClearSources(u) \/ DeleteRepo(u)
    \/ \E c \in Configs : CreatePreset(c) \/ \E p \in Presets : UpdatePreset(p, c)
    \/ \E p \in Presets : DeletePreset(p)
    \/ \E i \in Repos, p \in Presets \cup {NoId} : SetRepoPreset(i, p)
    \/ \E r \in Runs : Walk(r) \/ Restart(r) \/ GoOn(r)

Spec == Init /\ [][Next]_vars

-------------------------------------------------------------------------------
Statuses   == Active \cup {"completed", "unborn", "deleted"}
Overrides  == Configs \cup {NoKeys}
Snapshots  == {BuildPresetSnapshot(c) : c \in Overrides}
IdsOr0(ids) == ids \cup {NoId}
RepoRows   == [project : Projects \cup {"none", "gone"}, preset : IdsOr0(Presets)]
PresetRows == [state : {"none", "saved", "gone"}, configs : Overrides]
RunRows    == [status : Statuses, repo : IdsOr0(Repos), source : IdsOr0(Repos),
               snapshot : Snapshots, read : Overrides]
Requests   == [pc : {"idle", "insertRepo", "getPreset", "insertRun", "deleteRuns", "deleteRepo"},
               repo : IdsOr0(Repos), source : IdsOr0(Repos), preset : IdsOr0(Presets),
               snapshot : Snapshots, read : Overrides, project : Projects \cup {"none"},
               todo : SUBSET Runs, known : SUBSET Runs, again : SUBSET Runs]

\* A repository has no preset or one that is saved (ON DELETE SET NULL).
PresetsSaved == \A i \in Repos : repo[i].preset # NoId => Saved(repo[i].preset)

\* A request has what it needs for its next statement.
RequestSound(q) ==
    /\ q.pc = "insertRepo" => q.project \in Projects
    /\ q.pc = "getPreset" => q.preset # NoId
    /\ q.pc \in {"getPreset", "insertRun", "deleteRuns", "deleteRepo"} => q.repo # NoId

\* Every variable has its type, the references to presets included.
TypeOK ==
    /\ repo \in [Repos -> RepoRows]
    /\ preset \in [Presets -> PresetRows]
    /\ run \in [Runs -> RunRows]
    /\ request \in [Users -> Requests]
    /\ left \in [BudgetOps -> Nat]
    /\ PresetsSaved
    /\ \A u \in Users : RequestSound(request[u])

\* A run refers to repositories that are connected, so that its walker finds
\* what it is to clone, however filing and disconnecting fall.
RunsHaveTheirRepos ==
    \A r \in Runs : Stored(r) =>
        /\ run[r].repo # NoId /\ Connected(run[r].repo)
        /\ run[r].source = NoId \/ Connected(run[r].source)

\* A project is connected once, although two requests can both have looked.
OneRepoPerProject ==
    \A i, j \in Repos : Connected(i) /\ repo[i].project = repo[j].project => i = j

\* Disconnecting a repository never deletes a run that is active, unless the run
\* stopped and became active again after the repository's runs were looked at.
ActiveRunsSurvive ==
    \A u \in Users : \A r \in request[u].todo :
        run[r].status \in Active => r \in request[u].again

\* Once its runs are deleted nothing stands in the way of a disconnect but runs
\* filed since then: their history is not deleted for a repository that stays.
DisconnectCompletes ==
    \A u \in Users : InFlight(u, "deleteRepo") =>
        \A r \in request[u].known : ~RefersTo(r, request[u].repo)

\* Whatever happens to the preset later, the jobs of a run get the configuration
\* resolve_agent_config gives for the overrides that were read when it was filed.
RunsAsResolved ==
    \A r \in Runs : Stored(r) => \A a \in DOMAIN Base \ {"pipeline"} :
        JobConfig(Base, run[r].snapshot, a) = ResolveAgentConfig(Base, run[r].read)[a]
===============================================================================
