---------------------------- MODULE RepoAdminProofs ----------------------------
(***************************************************************************)
(* Theorems about RepoAdmin, for any numbers of projects, repositories,    *)
(* presets, runs and users, any presets and any agents.yaml, and about the *)
(* configuration an agent is run with, for any presets and snapshots.      *)
(***************************************************************************)
EXTENDS RepoAdmin, TLAPS

-------------------------------------------------------------------------------
\* The snapshot of a preset.

\* Fields that may not be overridden play no role.
LEMMA OverOnlyOverridden ==
    ASSUME NEW defaults, NEW overrides, NEW kept,
           kept = [k \in Overridden(overrides) |-> overrides[k]]
    PROVE  Over(defaults, kept) = Over(defaults, overrides)
  <1>1. Overridden(kept) = Overridden(overrides)
    BY DEF Overridden
  <1>2. \A k \in Overridden(overrides) : kept[k] = overrides[k]
    OBVIOUS
  <1> QED BY <1>1, <1>2 DEF Over

\* Where nothing is overridden the defaults stay.
LEMMA OverNothing ==
    ASSUME NEW defaults, IsDict(defaults), NEW overrides, Overridden(overrides) = {}
    PROVE  Over(defaults, overrides) = defaults
  <1>1. Over(defaults, overrides) = [k \in DOMAIN defaults |-> defaults[k]]
    BY DEF Over
  <1> QED BY <1>1 DEF IsDict

\* A run without a preset keeps the empty snapshot, which is that of no override.
LEMMA EmptySnapshot == BuildPresetSnapshot(NoKeys) = NoKeys
  BY DEF BuildPresetSnapshot, NoKeys

\* For every base configuration, every overrides and every agent: the job gets
\* what resolve_agent_config returns, whatever else the overrides name.
THEOREM SnapshotResolves ==
    ASSUME NEW base, NEW configs, NEW a \in DOMAIN base \ {"pipeline"}, IsDict(base[a])
    PROVE  JobConfig(base, BuildPresetSnapshot(configs), a)
               = ResolveAgentConfig(base, configs)[a]
  <1> DEFINE snapshot == BuildPresetSnapshot(configs)
  <1>1. ResolveAgentConfig(base, configs)[a] = Over(base[a], GetKey(configs, a))
    BY DEF ResolveAgentConfig
  <1>2. CASE a \in DOMAIN snapshot
    <2>1. a \in DOMAIN configs /\ snapshot[a] = [k \in Overridden(configs[a]) |-> configs[a][k]]
      BY <1>2 DEF BuildPresetSnapshot
    <2>2. Over(base[a], snapshot[a]) = Over(base[a], configs[a])
      BY <2>1, OverOnlyOverridden
    <2> QED BY <1>1, <1>2, <2>1, <2>2 DEF JobConfig, GetKey
  <1>3. CASE a \notin DOMAIN snapshot
    <2>1. Overridden(GetKey(configs, a)) = {}
      BY <1>3 DEF BuildPresetSnapshot, GetKey, Overridden, NoKeys
    <2>2. Over(base[a], GetKey(configs, a)) = base[a]
      BY <2>1, OverNothing
    <2> QED BY <1>1, <1>3, <2>2 DEF JobConfig
  <1> QED BY <1>2, <1>3

-------------------------------------------------------------------------------
\* What the steps of RepoAdmin keep.

\* The snapshot is that of the overrides it was read with.
SnapshotsKept ==
    /\ \A r \in Runs : run[r].snapshot = BuildPresetSnapshot(run[r].read)
    /\ \A u \in Users : request[u].snapshot = BuildPresetSnapshot(request[u].read)

\* Ids are handed out once.
UnbornIsNew == \A r \in Runs : run[r].status = "unborn" => run[r] = NoRun

\* What a disconnect knows: the runs it has still to delete are all the stored
\* ones of the repository among those there were when it listed them.
Lists(q) ==
    /\ q.todo \subseteq q.known
    /\ \A r \in q.known : run[r].status # "unborn"
    /\ q.pc \in {"deleteRuns", "deleteRepo"} =>
          \A r \in q.known : Stored(r) /\ run[r].repo = q.repo => r \in q.todo
    /\ q.pc = "deleteRepo" => q.todo = {}

ListsKept == \A u \in Users : Lists(request[u])

IInv == /\ TypeOK /\ SnapshotsKept /\ UnbornIsNew /\ ListsKept
        /\ RunsHaveTheirRepos /\ OneRepoPerProject
        /\ ActiveRunsSurvive /\ DisconnectCompletes

-------------------------------------------------------------------------------
\* Types.

LEMMA NoKeysTyped == NoKeys \in Overrides /\ NoKeys \in Snapshots
  BY EmptySnapshot DEF Overrides, Snapshots

LEMMA RowsTyped ==
    /\ NoRepo \in RepoRows /\ GoneRepo \in RepoRows
    /\ NoPreset \in PresetRows /\ GonePreset \in PresetRows
    /\ \A c \in Configs : Preset("saved", c) \in PresetRows
    /\ NoRun \in RunRows /\ Gone \in RunRows
    /\ Idle \in Requests /\ RequestSound(Idle)
  BY NoKeysTyped DEF NoRepo, GoneRepo, RepoRows, NoPreset, GonePreset, Preset, PresetRows,
     NoRun, Gone, RunRows, Idle, Ask, Requests, RequestSound, IdsOr0, NoId, Overrides,
     Statuses

LEMMA IdsOfRows ==
    ASSUME TypeOK
    PROVE  /\ NoId \notin Repos /\ NoId \notin Presets
           /\ \A i \in Repos : repo[i] \in RepoRows
           /\ \A p \in Presets : preset[p] \in PresetRows
           /\ \A r \in Runs : run[r] \in RunRows
           /\ \A u \in Users : request[u] \in Requests
  BY IdsAssumption DEF TypeOK, NoId

LEMMA TypeInit == Init => TypeOK
  <1> SUFFICES ASSUME Init PROVE TypeOK
    OBVIOUS
  <1>1. repo \in [Repos -> RepoRows] /\ run \in [Runs -> RunRows]
        /\ request \in [Users -> Requests] /\ left \in [BudgetOps -> Nat]
    BY RowsTyped, BudgetAssumption DEF Init
  <1>2. preset \in [Presets -> PresetRows]
    BY RowsTyped, SeedsAssumption DEF Init
  <1>3. PresetsSaved
    BY DEF Init, PresetsSaved, NoRepo
  <1>4. \A u \in Users : RequestSound(request[u])
    BY RowsTyped DEF Init
  <1> QED BY <1>1, <1>2, <1>3, <1>4 DEF TypeOK

\* What a request goes on with, and what a new one starts with, is a request.
LEMMA RequestTyped ==
    /\ \A q \in Requests : /\ q \in Requests
                            /\ [q EXCEPT !.pc = "deleteRepo"] \in Requests
                            /\ \A r \in Runs : [q EXCEPT !.todo = @ \ {r}] \in Requests
    /\ \A q \in Requests : \A c \in Overrides :
          [q EXCEPT !.pc = "insertRun", !.read = c, !.snapshot = BuildPresetSnapshot(c)]
              \in Requests
    /\ \A p \in Projects : [Ask("insertRepo", NoId) EXCEPT !.project = p] \in Requests
    /\ \A pc \in {"insertRun", "getPreset"} : \A i \in Repos : \A s \in IdsOr0(Repos) :
       \A p \in IdsOr0(Presets) :
          [Ask(pc, i) EXCEPT !.source = s, !.preset = p] \in Requests
    /\ \A q \in Requests : \A r \in Runs :
          [q EXCEPT !.again = @ \cup ({r} \cap q.todo)] \in Requests
    /\ \A i \in Repos : \A todo, known \in SUBSET Runs :
          [Ask("deleteRuns", i) EXCEPT !.todo = todo, !.known = known] \in Requests
  <1>1. \A pc \in {"insertRepo", "insertRun", "getPreset", "deleteRuns"} :
        \A i \in IdsOr0(Repos) : Ask(pc, i) \in Requests
    BY NoKeysTyped DEF Ask, Requests, IdsOr0, NoId
  <1>2. \A c \in Overrides : BuildPresetSnapshot(c) \in Snapshots
    BY DEF Snapshots
  <1>3. ASSUME NEW q \in Requests
        PROVE  /\ [q EXCEPT !.pc = "deleteRepo"] \in Requests
               /\ \A r \in Runs : [q EXCEPT !.todo = @ \ {r}] \in Requests
               /\ \A r \in Runs : [q EXCEPT !.again = @ \cup ({r} \cap q.todo)] \in Requests
    BY DEF Requests
  <1>4. ASSUME NEW q \in Requests, NEW c \in Overrides
        PROVE  [q EXCEPT !.pc = "insertRun", !.read = c,
                         !.snapshot = BuildPresetSnapshot(c)] \in Requests
    BY <1>2 DEF Requests
  <1>5. \A p \in Projects : [Ask("insertRepo", NoId) EXCEPT !.project = p] \in Requests
    BY <1>1 DEF Requests, IdsOr0
  <1>6. ASSUME NEW pc \in {"insertRun", "getPreset"}, NEW i \in Repos,
               NEW s \in IdsOr0(Repos), NEW p \in IdsOr0(Presets)
        PROVE  [Ask(pc, i) EXCEPT !.source = s, !.preset = p] \in Requests
    <2>1. PICK q \in Requests : q = Ask(pc, i)
      BY <1>1 DEF IdsOr0
    <2>2. [q EXCEPT !.source = s, !.preset = p] \in Requests
      BY DEF Requests
    <2> QED BY <2>1, <2>2
  <1>7. ASSUME NEW i \in Repos, NEW todo \in SUBSET Runs, NEW known \in SUBSET Runs
        PROVE  [Ask("deleteRuns", i) EXCEPT !.todo = todo, !.known = known] \in Requests
    <2>1. PICK q \in Requests : q = Ask("deleteRuns", i)
      BY <1>1 DEF IdsOr0
    <2>2. [q EXCEPT !.todo = todo, !.known = known] \in Requests
      BY DEF Requests
    <2> QED BY <2>1, <2>2
  <1> QED BY <1>3, <1>4, <1>5, <1>6, <1>7

\* The references to presets stay sound when no preset goes and no
\* repository gets another one.
LEMMA RequestsKept ==
    ASSUME TypeOK, NEW u \in Users, NEW q \in Requests, RequestSound(q), Then(u, q)
    PROVE  request' \in [Users -> Requests] /\ \A w \in Users : RequestSound(request[w])'
  BY DEF TypeOK, Then

LEMMA TypeStep == TypeOK /\ [Next]_vars => TypeOK'
  <1> SUFFICES ASSUME TypeOK, [Next]_vars PROVE TypeOK'
    OBVIOUS
  <1> USE IdsOfRows
  <1>1. ASSUME NEW u \in Users, NEW p \in Projects, AskConnect(u, p)
        PROVE  TypeOK'
    BY <1>1, RequestTyped, RequestsKept
       DEF AskConnect, Ask, RequestSound, TypeOK, PresetsSaved, Saved
  <1>2. ASSUME NEW u \in Users, InsertRepo(u)
        PROVE  TypeOK'
    <2>1. request[u].project \in Projects
      BY <1>2 DEF InsertRepo, InFlight, TypeOK, RequestSound
    <2>2. repo' \in [Repos -> RepoRows] /\ PresetsSaved'
      BY <1>2, <2>1 DEF InsertRepo, NextId, RepoRows, IdsOr0, PresetsSaved, Saved, TypeOK
    <2> QED BY <1>2, <2>2, RowsTyped, RequestsKept DEF InsertRepo, Done, TypeOK
  <1>3. ASSUME NEW c \in Configs, CreatePreset(c)
        PROVE  TypeOK'
    <2>1. preset' \in [Presets -> PresetRows] /\ PresetsSaved'
      BY <1>3, RowsTyped
         DEF CreatePreset, NextId, Preset, PresetsSaved, Saved, TypeOK, RepoRows, IdsOr0
    <2> QED BY <1>3, <2>1 DEF CreatePreset, Spend, BudgetOps, TypeOK
  <1>4. ASSUME NEW p \in Presets, NEW c \in Configs, UpdatePreset(p, c)
        PROVE  TypeOK'
    <2>1. preset' \in [Presets -> PresetRows] /\ PresetsSaved'
      BY <1>4, RowsTyped
         DEF UpdatePreset, Preset, PresetsSaved, Saved, TypeOK, RepoRows, IdsOr0
    <2> QED BY <1>4, <2>1 DEF UpdatePreset, Spend, BudgetOps, TypeOK
  <1>5. ASSUME NEW p \in Presets, DeletePreset(p)
        PROVE  TypeOK'
    <2>1. preset' \in [Presets -> PresetRows] /\ repo' \in [Repos -> RepoRows]
      BY <1>5, RowsTyped DEF DeletePreset, Without, TypeOK, RepoRows, IdsOr0
    <2>2. PresetsSaved'
      BY <1>5, RowsTyped
         DEF DeletePreset, Without, PresetsSaved, Saved, TypeOK, RepoRows, IdsOr0
    <2> QED BY <1>5, <2>1, <2>2 DEF DeletePreset, Spend, BudgetOps, TypeOK
  <1>6. ASSUME NEW i \in Repos, NEW p \in Presets \cup {NoId}, SetRepoPreset(i, p)
        PROVE  TypeOK'
    <2>1. repo' \in [Repos -> RepoRows] /\ PresetsSaved'
      BY <1>6 DEF SetRepoPreset, PresetsSaved, Saved, TypeOK, RepoRows, IdsOr0
    <2> QED BY <1>6, <2>1 DEF SetRepoPreset, Spend, BudgetOps, TypeOK
  <1>7. ASSUME NEW u \in Users, NEW i \in Repos, NEW s \in Repos \cup {NoId},
               AskFile(u, i, s)
        PROVE  TypeOK'
    <2> DEFINE pc == IF repo[i].preset = NoId THEN "insertRun" ELSE "getPreset"
               q  == [Ask(pc, i) EXCEPT !.source = s, !.preset = repo[i].preset]
    <2>1. q \in Requests
      BY RequestTyped DEF RepoRows, IdsOr0
    <2>2. RequestSound(q)
      BY DEF Ask, RequestSound
    <2> QED BY <1>7, <2>1, <2>2, RequestsKept DEF AskFile, TypeOK, PresetsSaved, Saved
  <1>8. ASSUME NEW u \in Users, GetPreset(u)
        PROVE  TypeOK'
    <2> DEFINE c == preset[request[u].preset].configs
               q == [request[u] EXCEPT !.pc = "insertRun", !.read = c,
                                       !.snapshot = BuildPresetSnapshot(c)]
    <2>1. c \in Overrides
      BY <1>8 DEF GetPreset, InFlight, TypeOK, RequestSound, Requests, IdsOr0, PresetRows
    <2>2. q \in Requests
      BY <2>1, RequestTyped
    <2>3. RequestSound(q)
      BY <1>8 DEF GetPreset, InFlight, RequestSound, TypeOK, Requests
    <2> QED BY <1>8, <2>2, <2>3, RequestsKept DEF GetPreset, TypeOK, PresetsSaved, Saved
  <1>9. ASSUME NEW u \in Users, InsertRun(u)
        PROVE  TypeOK'
    <2> DEFINE q == request[u]
               x == [NoRun EXCEPT !.status = "pending", !.repo = q.repo, !.source = q.source,
                                  !.snapshot = q.snapshot, !.read = q.read]
    <2>0. x \in RunRows
      BY RowsTyped DEF RunRows, Statuses, Active, Requests
    <2>1. run' \in [Runs -> RunRows]
      BY <1>9, <2>0 DEF InsertRun, NextId, TypeOK
    <2> QED BY <1>9, <2>1, RowsTyped, RequestsKept DEF InsertRun, Done, TypeOK, PresetsSaved, Saved
  <1>10. ASSUME NEW u \in Users, NEW i \in Repos, AskDisconnect(u, i)
         PROVE  TypeOK'
    <2> DEFINE q == [Ask("deleteRuns", i) EXCEPT !.todo = RunsOf(i),
                                                 !.known = {r \in Runs : run[r] # NoRun}]
    <2>1. q \in Requests /\ RequestSound(q)
      BY RequestTyped DEF RunsOf, Ask, RequestSound
    <2>2. request' \in [Users -> Requests] /\ \A w \in Users : RequestSound(request[w])'
      BY <1>10, <2>1, RequestsKept DEF AskDisconnect, TypeOK
    <2> QED BY <1>10, <2>2 DEF AskDisconnect, Spend, BudgetOps, TypeOK, PresetsSaved, Saved
  <1>11. ASSUME NEW u \in Users, DeleteNextRun(u)
         PROVE  TypeOK'
    <2> DEFINE r == CHOOSE x \in request[u].todo : \A y \in request[u].todo : y <= x
               q == [request[u] EXCEPT !.todo = @ \ {r}]
    <2>1. q \in Requests /\ RequestSound(q)
      BY <1>11 DEF DeleteNextRun, InFlight, TypeOK, Requests, RequestSound
    <2>2. run' \in [Runs -> RunRows]
      BY <1>11, RowsTyped DEF DeleteNextRun, TypeOK
    <2> QED BY <1>11, <2>1, <2>2, RequestsKept DEF DeleteNextRun, TypeOK, PresetsSaved, Saved
  <1>12. ASSUME NEW u \in Users, ClearSources(u)
         PROVE  TypeOK'
    <2> DEFINE q == [request[u] EXCEPT !.pc = "deleteRepo"]
    <2>0. request[u].repo # NoId
      BY <1>12 DEF ClearSources, InFlight, TypeOK, RequestSound
    <2>1. q \in Requests
      BY RequestTyped
    <2>2. RequestSound(q)
      BY <2>0 DEF Requests, RequestSound
    <2>3. run' \in [Runs -> RunRows]
      BY <1>12 DEF ClearSources, Forget, TypeOK, RunRows, IdsOr0
    <2> QED BY <1>12, <2>1, <2>2, <2>3, RequestsKept DEF ClearSources, TypeOK, PresetsSaved, Saved
  <1>13. ASSUME NEW u \in Users, DeleteRepo(u)
         PROVE  TypeOK'
    <2>1. repo' \in [Repos -> RepoRows] /\ PresetsSaved'
      BY <1>13, RowsTyped DEF DeleteRepo, TypeOK, PresetsSaved, Saved, GoneRepo
    <2> QED BY <1>13, <2>1, RowsTyped, RequestsKept DEF DeleteRepo, Done, TypeOK
  <1>14. ASSUME NEW r \in Runs, Walk(r) \/ Restart(r) \/ GoOn(r)
         PROVE  TypeOK'
    <2>1. run' \in [Runs -> RunRows]
      <3>1. \E status \in Statuses : run' = [run EXCEPT ![r].status = status]
        <4>1. CASE Walk(r)
          BY <4>1 DEF Walk, Statuses, Active
        <4>2. CASE Restart(r) \/ GoOn(r)
          BY <4>2 DEF Restart, GoOn, Revive, Statuses, Active
        <4> QED BY <1>14, <4>1, <4>2
      <3> QED BY <3>1 DEF TypeOK, RunRows
    <2>2. left' \in [BudgetOps -> Nat]
      BY <1>14 DEF Walk, Restart, GoOn, Revive, Spend, BudgetOps, TypeOK
    <2>3. request' \in [Users -> Requests] /\ \A u \in Users : RequestSound(request[u])'
      <3>1. CASE Walk(r)
        BY <3>1 DEF Walk, TypeOK
      <3>2. CASE Restart(r) \/ GoOn(r)
        <4>1. ASSUME NEW u \in Users
              PROVE  request'[u] \in Requests /\ RequestSound(request'[u])
          <5>1. request'[u] = [request[u] EXCEPT !.again = @ \cup ({r} \cap request[u].todo)]
            BY <3>2 DEF Restart, GoOn, Revive
          <5>2. request'[u] \in Requests
            BY <5>1, RequestTyped
          <5>3. /\ request'[u].pc = request[u].pc /\ request'[u].repo = request[u].repo
                /\ request'[u].preset = request[u].preset
                /\ request'[u].project = request[u].project
            BY <5>1 DEF Requests
          <5> QED BY <5>2, <5>3 DEF TypeOK, RequestSound
        <4>2. request' = [u \in Users |-> request'[u]]
          BY <3>2 DEF Restart, GoOn, Revive
        <4> QED BY <4>1, <4>2
      <3> QED BY <1>14, <3>1, <3>2
    <2>4. repo' = repo /\ preset' = preset
      BY <1>14 DEF Walk, Restart, GoOn, Revive
    <2> QED BY <2>1, <2>2, <2>3, <2>4 DEF TypeOK, PresetsSaved, Saved
  <1>15. CASE UNCHANGED vars
    BY <1>15 DEF vars, TypeOK, PresetsSaved, Saved
  <1> QED BY <1>1, <1>2, <1>3, <1>4, <1>5, <1>6, <1>7, <1>8, <1>9, <1>10, <1>11, <1>12,
             <1>13, <1>14, <1>15 DEF Next

-------------------------------------------------------------------------------
\* What a step can do to a run: it is filed, it is deleted, or it stays the run
\* it is, with the source it had or none, and active only if it was or if every
\* disconnect that has it still to delete is told.
Filed(r) ==
    /\ run[r] = NoRun /\ repo' = repo
    /\ \E u \in Users :
          /\ InFlight(u, "insertRun") /\ KeysHold(u)
          /\ run'[r] = [NoRun EXCEPT
                !.status = "pending", !.repo = request[u].repo, !.source = request[u].source,
                !.snapshot = request[u].snapshot, !.read = request[u].read]

Told(r) == \A u \in Users : r \in request[u].todo => r \in request'[u].again

StaysTheRun(r) ==
    /\ run'[r].repo = run[r].repo
    /\ run'[r].snapshot = run[r].snapshot /\ run'[r].read = run[r].read
    /\ run'[r].source \in {run[r].source, NoId}
    /\ \/ run'[r].status = run[r].status
       \/ run[r].status \notin {"unborn", "deleted"}
          /\ run'[r].status \notin {"unborn", "deleted"}
    /\ run'[r].status \in Active => run[r].status \in Active \/ Told(r)
    /\ run[r] = NoRun => run'[r] = NoRun

LEMMA RunStep ==
    ASSUME TypeOK, [Next]_vars, NEW r \in Runs
    PROVE  Filed(r) \/ run'[r] = Gone \/ StaysTheRun(r)
  <1> USE IdsOfRows
  <1>1. ASSUME run' = run
        PROVE  StaysTheRun(r)
    BY <1>1 DEF StaysTheRun
  <1>2. ASSUME NEW u \in Users, InsertRun(u)
        PROVE  Filed(r) \/ StaysTheRun(r)
    <2>1. CASE run'[r] = run[r]
      BY <2>1 DEF StaysTheRun
    <2>2. CASE run'[r] # run[r]
      BY <1>2, <2>2 DEF InsertRun, NextId, Filed, TypeOK
    <2> QED BY <2>1, <2>2
  <1>3. ASSUME NEW u \in Users, DeleteNextRun(u)
        PROVE  run'[r] = Gone \/ StaysTheRun(r)
    BY <1>3 DEF DeleteNextRun, StaysTheRun, TypeOK
  <1>4. ASSUME NEW u \in Users, ClearSources(u)
        PROVE  StaysTheRun(r)
    <2>1. request[u].repo # NoId
      BY <1>4 DEF ClearSources, InFlight, TypeOK, RequestSound
    <2>2. run'[r] = run[r] \/ (run[r].source # NoId /\ run'[r] = [run[r] EXCEPT !.source = NoId])
      BY <1>4, <2>1 DEF ClearSources, Forget
    <2> QED BY <2>2 DEF StaysTheRun, NoRun, RunRows
  <1>5. ASSUME NEW s \in Runs, Walk(s)
        PROVE  StaysTheRun(r)
    <2>1. CASE r = s
      BY <1>5, <2>1 DEF Walk, StaysTheRun, TypeOK, RunRows, Active, NoRun
    <2>2. CASE r # s
      BY <1>5, <2>2 DEF Walk, TypeOK, StaysTheRun
    <2> QED BY <2>1, <2>2
  <1>6. ASSUME NEW s \in Runs, Restart(s) \/ GoOn(s)
        PROVE  StaysTheRun(r)
    <2>1. CASE r = s
      <3>1. Told(r)
        <4>1. ASSUME NEW u \in Users, r \in request[u].todo PROVE r \in request'[u].again
          <5>1. request'[u] = [request[u] EXCEPT !.again = @ \cup ({r} \cap request[u].todo)]
            BY <1>6, <2>1 DEF Restart, GoOn, Revive
          <5>2. request'[u].again = request[u].again \cup ({r} \cap request[u].todo)
            BY <5>1 DEF Requests
          <5> QED BY <4>1, <5>2
        <4> QED BY <4>1 DEF Told
      <3>2. \E status \in {"pending", "running"} :
               run'[r] = [run[r] EXCEPT !.status = status] /\ run[r].status = "completed"
        BY <1>6, <2>1 DEF Restart, GoOn, Revive, TypeOK
      <3> QED BY <3>1, <3>2 DEF StaysTheRun, RunRows, NoRun
    <2>2. CASE r # s
      BY <1>6, <2>2 DEF Restart, GoOn, Revive, TypeOK, StaysTheRun
    <2> QED BY <2>1, <2>2
  <1> QED BY <1>1, <1>2, <1>3, <1>4, <1>5, <1>6
          DEF Next, vars, AskConnect, AskFile, AskDisconnect, InsertRepo, GetPreset,
              DeleteRepo, CreatePreset, UpdatePreset, DeletePreset, SetRepoPreset

\* The request is where it was, and knows at least what it knew.
Kept(u) ==
    /\ request'[u].pc = request[u].pc /\ request'[u].repo = request[u].repo
    /\ request'[u].snapshot = request[u].snapshot /\ request'[u].read = request[u].read
    /\ request'[u].todo = request[u].todo /\ request'[u].known = request[u].known
    /\ request[u].again \subseteq request'[u].again

\* What a step can do to a request: it ends, it is a new one, or it goes on
\* about the same repository.
LEMMA RequestStep ==
    ASSUME TypeOK, [Next]_vars, NEW u \in Users
    PROVE  \/ Kept(u) \/ request'[u] = Idle
           \/ request'[u].snapshot = NoKeys /\ request'[u].read = NoKeys
              /\ request'[u].pc \in {"insertRepo", "getPreset", "insertRun"}
              /\ request'[u].todo = {} /\ request'[u].known = {}
           \/ GetPreset(u) \/ DeleteNextRun(u) \/ ClearSources(u)
           \/ \E i \in Repos : AskDisconnect(u, i)
  <1>1. ASSUME NEW v \in Users, NEW q, Then(v, q), v # u
        PROVE  request'[u] = request[u]
    BY <1>1 DEF Then, TypeOK
  <1>2. ASSUME NEW v \in Users, NEW p \in Projects, AskConnect(v, p)
        PROVE  \/ request'[u] = request[u]
               \/ request'[u].snapshot = NoKeys /\ request'[u].read = NoKeys
                  /\ request'[u].pc \in {"insertRepo", "getPreset", "insertRun"}
                  /\ request'[u].todo = {} /\ request'[u].known = {}
    BY <1>1, <1>2 DEF AskConnect, Ask, Then, TypeOK
  <1>3. ASSUME NEW v \in Users, NEW i \in Repos, NEW s \in Repos \cup {NoId}, AskFile(v, i, s)
        PROVE  \/ request'[u] = request[u]
               \/ request'[u].snapshot = NoKeys /\ request'[u].read = NoKeys
                  /\ request'[u].pc \in {"insertRepo", "getPreset", "insertRun"}
                  /\ request'[u].todo = {} /\ request'[u].known = {}
    BY <1>1, <1>3 DEF AskFile, Ask, Then, TypeOK
  <1>4. ASSUME NEW v \in Users, InsertRepo(v) \/ InsertRun(v) \/ DeleteRepo(v)
        PROVE  request'[u] = request[u] \/ request'[u] = Idle
    BY <1>1, <1>4 DEF InsertRepo, InsertRun, DeleteRepo, Done, Then, TypeOK
  <1>5. ASSUME NEW v \in Users, v # u, NEW i \in Repos,
               GetPreset(v) \/ DeleteNextRun(v) \/ ClearSources(v) \/ AskDisconnect(v, i)
        PROVE  request'[u] = request[u]
    BY <1>1, <1>5 DEF GetPreset, DeleteNextRun, ClearSources, AskDisconnect
  <1>6. ASSUME request' = request
        PROVE  request'[u] = request[u]
    BY <1>6
  <1>7. ASSUME NEW v \in Users, v # u, GetPreset(v) \/ DeleteNextRun(v) \/ ClearSources(v)
        PROVE  request'[u] = request[u]
    BY <1>1, <1>7 DEF GetPreset, DeleteNextRun, ClearSources
  <1>8. ASSUME NEW r \in Runs, Restart(r) \/ GoOn(r)
        PROVE  Kept(u)
    <2>1. request'[u] = [request[u] EXCEPT !.again = @ \cup ({r} \cap request[u].todo)]
      BY <1>8 DEF Restart, GoOn, Revive
    <2> QED BY <2>1, IdsOfRows DEF Kept, Requests
  <1>9. request'[u] = request[u] => Kept(u)
    BY DEF Kept
  <1> QED BY <1>2, <1>3, <1>4, <1>5, <1>6, <1>7, <1>8, <1>9
          DEF Next, vars, CreatePreset, UpdatePreset, DeletePreset, SetRepoPreset, Walk

\* What a disconnect that goes on has listed.
LEMMA RunsListed ==
    ASSUME TypeOK, NEW u \in Users, NEW i \in Repos, AskDisconnect(u, i),
           request'[u] # request[u]
    PROVE  /\ request'[u].todo = RunsOf(i) /\ request'[u].repo = i
           /\ request'[u].known = {r \in Runs : run[r] # NoRun}
           /\ request'[u].pc = "deleteRuns" /\ run' = run
           /\ request'[u].snapshot = NoKeys /\ request'[u].read = NoKeys
  <1> DEFINE q == [Ask("deleteRuns", i) EXCEPT !.todo = RunsOf(i),
                                               !.known = {r \in Runs : run[r] # NoRun}]
  <1>1. /\ q.todo = RunsOf(i) /\ q.repo = i /\ q.pc = "deleteRuns"
        /\ q.known = {r \in Runs : run[r] # NoRun}
        /\ q.snapshot = NoKeys /\ q.read = NoKeys
    BY DEF Ask
  <1>2. request' = [request EXCEPT ![u] = q] /\ run' = run
    BY DEF AskDisconnect, Then
  <1> HIDE DEF q
  <1> QED BY <1>1, <1>2 DEF TypeOK

-------------------------------------------------------------------------------
\* The configuration of a run.

LEMMA SnapshotsStep == ASSUME IInv, [Next]_vars PROVE SnapshotsKept'
  <1>0. TypeOK /\ SnapshotsKept
    BY DEF IInv
  <1>1. ASSUME NEW r \in Runs
        PROVE  run'[r].snapshot = BuildPresetSnapshot(run'[r].read)
    <2>1. CASE Filed(r)
      BY <1>0, <2>1 DEF Filed, SnapshotsKept, NoRun
    <2>2. CASE run'[r] = Gone
      BY <2>2, EmptySnapshot DEF Gone, NoRun
    <2>3. CASE StaysTheRun(r)
      BY <1>0, <2>3 DEF StaysTheRun, SnapshotsKept
    <2> QED BY <1>0, <2>1, <2>2, <2>3, RunStep
  <1>2. ASSUME NEW u \in Users
        PROVE  request'[u].snapshot = BuildPresetSnapshot(request'[u].read)
    <2> USE IdsOfRows
    <2>1. CASE request'[u] = Idle \/ (request'[u].snapshot = NoKeys /\ request'[u].read = NoKeys)
      BY <2>1, EmptySnapshot DEF Idle, Ask
    <2>2. CASE GetPreset(u)
      BY <1>0, <2>2 DEF GetPreset, Then, TypeOK, Requests
    <2>3. CASE DeleteNextRun(u) \/ ClearSources(u)
      BY <1>0, <2>3 DEF DeleteNextRun, ClearSources, Then, TypeOK, Requests, SnapshotsKept
    <2>4. ASSUME NEW i \in Repos, AskDisconnect(u, i)
          PROVE  request'[u] = request[u] \/ (request'[u].snapshot = NoKeys
                                               /\ request'[u].read = NoKeys)
      BY <1>0, <2>4, RunsListed
    <2>5. CASE Kept(u)
      BY <1>0, <2>5 DEF SnapshotsKept, Kept
    <2>6. request'[u] = request[u] => Kept(u)
      BY DEF Kept
    <2> QED BY <1>0, <2>1, <2>2, <2>3, <2>4, <2>5, <2>6, RequestStep
  <1> QED BY <1>1, <1>2 DEF SnapshotsKept

-------------------------------------------------------------------------------
\* Which runs there are.

LEMMA UnbornStep == ASSUME IInv, [Next]_vars PROVE UnbornIsNew'
  <1>1. TypeOK /\ UnbornIsNew
    BY DEF IInv
  <1>2. ASSUME NEW r \in Runs, run'[r].status = "unborn"
        PROVE  run'[r] = NoRun
    <2>1. CASE Filed(r)
      BY <1>2, <2>1 DEF Filed, NoRun
    <2>2. CASE run'[r] = Gone
      BY <1>2, <2>2 DEF Gone, NoRun
    <2>3. CASE StaysTheRun(r)
      BY <1>1, <1>2, <2>3 DEF StaysTheRun, UnbornIsNew
    <2> QED BY <1>1, <2>1, <2>2, <2>3, RunStep
  <1> QED BY <1>2 DEF UnbornIsNew

\* A run that was known is never filed again: if it is still stored it is the
\* run it was.
LEMMA KnownStays ==
    ASSUME IInv, [Next]_vars, NEW r \in Runs, run[r].status # "unborn"
    PROVE  /\ run'[r].status # "unborn"
           /\ Stored(r)' => Stored(r) /\ StaysTheRun(r)
  <1>1. run[r] # NoRun
    BY DEF NoRun
  <1>2. CASE run'[r] = Gone
    BY <1>2 DEF Gone, NoRun, Stored
  <1>3. CASE StaysTheRun(r)
    BY <1>3 DEF StaysTheRun, Stored
  <1> QED BY <1>1, <1>2, <1>3, RunStep DEF IInv, Filed

LEMMA ListsStep == ASSUME IInv, [Next]_vars PROVE ListsKept'
  <1>0. TypeOK /\ ListsKept /\ UnbornIsNew
    BY DEF IInv
  <1> USE <1>0, IdsOfRows
  <1> SUFFICES ASSUME NEW u \in Users PROVE Lists(request[u])'
    BY DEF ListsKept
  <1>1. CASE Kept(u)
    <2>1. \A r \in request[u].known : r \in Runs /\ run[r].status # "unborn"
      BY DEF ListsKept, Lists, Requests
    <2> DEFINE q == request[u]
    <2>2. ASSUME NEW r \in q.known
          PROVE  run'[r].status # "unborn"
      BY <2>1, KnownStays
    <2>3. Lists(q)
      BY DEF ListsKept
    <2>4. ASSUME NEW r \in q.known, run'[r].status \notin {"unborn", "deleted"}
          PROVE  Stored(r) /\ run[r].repo = run'[r].repo
      BY <2>1, <2>4, KnownStays DEF StaysTheRun, Stored
    <2> HIDE DEF q
    <2>6. /\ request'[u].pc = q.pc /\ request'[u].repo = q.repo
          /\ request'[u].todo = q.todo /\ request'[u].known = q.known
      BY <1>1 DEF q, Kept
    <2> QED BY <2>2, <2>3, <2>4, <2>6 DEF Lists, Stored
  <1>2. CASE request'[u] = Idle \/ (/\ request'[u].pc \in {"insertRepo", "getPreset", "insertRun"}
                                    /\ request'[u].todo = {} /\ request'[u].known = {})
    BY <1>2 DEF Lists, Idle, Ask
  <1>3. CASE GetPreset(u)
    BY <1>3 DEF GetPreset, InFlight, Then, TypeOK, Requests, ListsKept, Lists
  <1>4. CASE DeleteNextRun(u)
    <2> DEFINE q == request[u]
               r == CHOOSE x \in q.todo : \A y \in q.todo : y <= x
    <2>1. q.pc = "deleteRuns" /\ q \in Requests /\ Lists(q)
      BY <1>4 DEF DeleteNextRun, InFlight, ListsKept
    <2>2. run' = [run EXCEPT ![r] = Gone] /\ request'[u] = [q EXCEPT !.todo = @ \ {r}]
      BY <1>4 DEF DeleteNextRun, Then, TypeOK
    <2> HIDE DEF r
    <2>3. /\ request'[u].todo = q.todo \ {r} /\ request'[u].known = q.known
          /\ request'[u].pc = q.pc /\ request'[u].repo = q.repo
      BY <2>1, <2>2 DEF Requests
    <2>4. \A x \in q.known : run'[x].status # "unborn"
             /\ (Stored(x)' => x # r /\ Stored(x) /\ run'[x].repo = run[x].repo)
      BY <2>1, <2>2 DEF Lists, Requests, Stored, Gone, NoRun, TypeOK
    <2> QED BY <2>1, <2>3, <2>4 DEF Lists
  <1>5. CASE ClearSources(u)
    <2> DEFINE q == request[u]
    <2>1. q.pc = "deleteRuns" /\ q.todo = {} /\ q \in Requests /\ Lists(q)
      BY <1>5 DEF ClearSources, InFlight, ListsKept
    <2>2. request'[u] = [q EXCEPT !.pc = "deleteRepo"]
      BY <1>5 DEF ClearSources, Then, TypeOK
    <2>3. /\ request'[u].todo = {} /\ request'[u].known = q.known
          /\ request'[u].repo = q.repo
      BY <2>1, <2>2 DEF Requests
    <2>4. \A x \in q.known : x \in Runs /\ run[x].status # "unborn"
      BY <2>1 DEF Lists, Requests
    <2>5. \A x \in q.known : run'[x].status # "unborn"
             /\ (Stored(x)' => Stored(x) /\ run'[x].repo = run[x].repo)
      BY <2>4, KnownStays DEF StaysTheRun
    <2> QED BY <2>1, <2>3, <2>5 DEF Lists
  <1>6. ASSUME NEW i \in Repos, AskDisconnect(u, i), request'[u] # request[u]
        PROVE  Lists(request[u])'
    <2>1. /\ request'[u].todo = RunsOf(i) /\ request'[u].repo = i
          /\ request'[u].known = {r \in Runs : run[r] # NoRun}
          /\ request'[u].pc = "deleteRuns" /\ run' = run
      BY <1>6, RunsListed
    <2>2. RunsOf(i) \subseteq {r \in Runs : run[r] # NoRun}
      BY DEF RunsOf, Stored, NoRun
    <2> QED BY <2>1, <2>2 DEF Lists, RunsOf, Stored, UnbornIsNew
  <1>7. request'[u] = request[u] => Kept(u)
    BY DEF Kept
  <1> QED BY <1>1, <1>2, <1>3, <1>4, <1>5, <1>6, <1>7, RequestStep

-------------------------------------------------------------------------------
\* Repositories.

\* A step that does not take the repository away leaves it connected.
LEMMA ConnectedStays ==
    ASSUME TypeOK, [Next]_vars, NEW i \in Repos, Connected(i),
           \A u \in Users : DeleteRepo(u) => request[u].repo # i \/ \E r \in Runs : RefersTo(r, i)
    PROVE  Connected(i)'
  <1> USE IdsOfRows
  <1>1. repo[i] # NoRepo
    BY ProjectsAssumption DEF Connected, NoRepo
  <1>2. ASSUME NEW u \in Users, InsertRepo(u)
        PROVE  Connected(i)'
    BY <1>1, <1>2 DEF InsertRepo, NextId, Connected, TypeOK
  <1>3. ASSUME NEW u \in Users, DeleteRepo(u)
        PROVE  Connected(i)'
    BY <1>3 DEF DeleteRepo, Connected, TypeOK
  <1>4. ASSUME NEW p \in Presets, DeletePreset(p)
        PROVE  Connected(i)'
    BY <1>4 DEF DeletePreset, Without, Connected, TypeOK, RepoRows
  <1>5. ASSUME NEW j \in Repos, NEW p \in Presets \cup {NoId}, SetRepoPreset(j, p)
        PROVE  Connected(i)'
    BY <1>5 DEF SetRepoPreset, Connected, TypeOK, RepoRows
  <1>6. ASSUME repo' = repo
        PROVE  Connected(i)'
    BY <1>6 DEF Connected
  <1> QED BY <1>2, <1>3, <1>4, <1>5, <1>6
          DEF Next, vars, AskConnect, AskFile, AskDisconnect, GetPreset, InsertRun,
              DeleteNextRun, ClearSources, CreatePreset, UpdatePreset, Walk, Restart, GoOn, Revive

LEMMA RunsReposStep == ASSUME IInv, [Next]_vars PROVE RunsHaveTheirRepos'
  <1>0. TypeOK /\ RunsHaveTheirRepos
    BY DEF IInv
  <1> USE <1>0, IdsOfRows
  <1> SUFFICES ASSUME NEW r \in Runs, Stored(r)'
               PROVE  /\ run'[r].repo # NoId /\ Connected(run[r].repo)'
                      /\ run'[r].source = NoId \/ Connected(run[r].source)'
    BY DEF RunsHaveTheirRepos
  <1>1. CASE Filed(r)
    <2>1. PICK u \in Users :
             /\ InFlight(u, "insertRun") /\ KeysHold(u)
             /\ run'[r] = [NoRun EXCEPT
                   !.status = "pending", !.repo = request[u].repo, !.source = request[u].source,
                   !.snapshot = request[u].snapshot, !.read = request[u].read]
      BY <1>1 DEF Filed
    <2>2. run'[r].repo = request[u].repo /\ run'[r].source = request[u].source /\ repo' = repo
      BY <1>1, <2>1 DEF Filed, NoRun
    <2>3. request[u].repo # NoId
      BY <2>1 DEF InFlight, TypeOK, RequestSound
    <2> QED BY <2>1, <2>2, <2>3 DEF KeysHold, Connected
  <1>2. CASE StaysTheRun(r)
    <2>1. Stored(r)
      BY <1>2 DEF StaysTheRun, Stored
    <2>2. ASSUME NEW i \in {run[r].repo, run[r].source} \ {NoId}
          PROVE  Connected(i)'
      <3>1. i \in Repos
        BY <2>2 DEF RunRows, IdsOr0
      <3>2. RefersTo(r, i) /\ Connected(i)
        BY <2>1, <2>2 DEF RefersTo, RunsHaveTheirRepos
      <3> QED BY <3>1, <3>2, ConnectedStays
    <2>3. run[r].repo # NoId
      BY <2>1 DEF RunsHaveTheirRepos
    <2> QED BY <1>2, <2>2, <2>3 DEF StaysTheRun
  <1>3. CASE run'[r] = Gone
    BY <1>3 DEF Gone, NoRun, Stored
  <1> QED BY <1>1, <1>2, <1>3, RunStep

LEMMA OnePerProjectStep == ASSUME IInv, [Next]_vars PROVE OneRepoPerProject'
  <1>0. TypeOK /\ OneRepoPerProject
    BY DEF IInv
  <1> USE <1>0, IdsOfRows
  <1>1. ASSUME NEW u \in Users, InsertRepo(u)
        PROVE  OneRepoPerProject'
    <2> DEFINE p == request[u].project
    <2>1. CASE IsConnected(p)
      BY <1>1, <2>1 DEF InsertRepo, OneRepoPerProject, Connected
    <2>2. CASE ~IsConnected(p)
      <3>1. PICK i \in Repos : repo' = [repo EXCEPT ![i] = [project |-> p, preset |-> NoId]]
        BY <1>1, <2>2 DEF InsertRepo, NextId
      <3>2. \A j \in Repos : repo[j].project # p
        BY <2>2 DEF IsConnected
      <3> HIDE DEF p
      <3> QED BY <3>1, <3>2 DEF OneRepoPerProject, Connected, TypeOK
    <2> QED BY <2>1, <2>2
  <1>2. ASSUME NEW u \in Users, DeleteRepo(u)
        PROVE  OneRepoPerProject'
    BY <1>2, ProjectsAssumption DEF DeleteRepo, OneRepoPerProject, Connected, TypeOK, GoneRepo
  <1>3. ASSUME \A i \in Repos : repo'[i].project = repo[i].project
        PROVE  OneRepoPerProject'
    BY <1>3 DEF OneRepoPerProject, Connected
  <1>4. ASSUME NEW p \in Presets, DeletePreset(p)
        PROVE  OneRepoPerProject'
    BY <1>3, <1>4 DEF DeletePreset, Without, TypeOK, RepoRows
  <1>5. ASSUME NEW j \in Repos, NEW p \in Presets \cup {NoId}, SetRepoPreset(j, p)
        PROVE  OneRepoPerProject'
    BY <1>3, <1>5 DEF SetRepoPreset, TypeOK, RepoRows
  <1>6. ASSUME repo' = repo
        PROVE  OneRepoPerProject'
    BY <1>3, <1>6
  <1> QED BY <1>1, <1>2, <1>4, <1>5, <1>6
          DEF Next, vars, AskConnect, AskFile, AskDisconnect, GetPreset, InsertRun,
              DeleteNextRun, ClearSources, CreatePreset, UpdatePreset, Walk, Restart, GoOn, Revive

-------------------------------------------------------------------------------
\* Disconnecting.

LEMMA SurviveStep == ASSUME IInv, [Next]_vars PROVE ActiveRunsSurvive'
  <1>0. TypeOK /\ ListsKept /\ UnbornIsNew /\ ActiveRunsSurvive
    BY DEF IInv
  <1> USE <1>0, IdsOfRows
  <1> SUFFICES ASSUME NEW u \in Users, NEW r \in request'[u].todo, run'[r].status \in Active
               PROVE  r \in request'[u].again
    BY DEF ActiveRunsSurvive
  <1>1. ASSUME r \in request[u].todo, request[u].again \subseteq request'[u].again
        PROVE  r \in request'[u].again
    <2>1. r \in Runs /\ run[r].status # "unborn"
      BY <1>1 DEF ListsKept, Lists, Requests
    <2>2. StaysTheRun(r)
      BY <2>1, KnownStays DEF Stored, Active
    <2> QED BY <1>1, <2>1, <2>2 DEF StaysTheRun, Told, ActiveRunsSurvive
  <1>2. CASE Kept(u) \/ request'[u] = Idle \/ request'[u].todo = {}
    BY <1>1, <1>2 DEF Kept, Idle, Ask
  <1>3. CASE GetPreset(u) \/ DeleteNextRun(u) \/ ClearSources(u)
    <2> DEFINE q == request[u]
               c == preset[q.preset].configs
               gone == CHOOSE x \in q.todo : \A y \in q.todo : y <= x
    <2>0. \/ request'[u] = [q EXCEPT !.pc = "insertRun", !.read = c,
                                      !.snapshot = BuildPresetSnapshot(c)]
          \/ request'[u] = [q EXCEPT !.todo = @ \ {gone}]
          \/ request'[u] = [q EXCEPT !.pc = "deleteRepo"]
      BY <1>3 DEF GetPreset, DeleteNextRun, ClearSources, Then, TypeOK
    <2> HIDE DEF c, gone
    <2>1. request'[u].todo \subseteq q.todo /\ request'[u].again = q.again
      BY <2>0 DEF Requests
    <2> QED BY <1>1, <2>1
  <1>4. ASSUME NEW i \in Repos, AskDisconnect(u, i), request'[u] # request[u]
        PROVE  FALSE
    <2>1. r \in RunsOf(i) /\ run' = run /\ ~Blocks(r)
      BY <1>4 DEF AskDisconnect, Then, TypeOK, Ask
    <2> QED BY <2>1 DEF Blocks, Active
  <1>5. request'[u] = request[u] => Kept(u)
    BY DEF Kept
  <1> QED BY <1>2, <1>3, <1>4, <1>5, RequestStep

LEMMA CompletesStep == ASSUME IInv, [Next]_vars PROVE DisconnectCompletes'
  <1>0. TypeOK /\ TypeOK' /\ ListsKept /\ ListsKept' /\ DisconnectCompletes
    BY ListsStep, TypeStep DEF IInv
  <1> USE <1>0, IdsOfRows
  <1> SUFFICES ASSUME NEW u \in Users, request'[u].pc = "deleteRepo",
                      NEW r \in request'[u].known, Stored(r)'
               PROVE  /\ run'[r].repo # request'[u].repo
                      /\ run'[r].source # request'[u].repo
    BY DEF DisconnectCompletes, InFlight, RefersTo
  <1>1. run'[r].repo # request'[u].repo
    BY DEF ListsKept, Lists
  <1>2. r \in Runs /\ request'[u].repo # NoId
    BY DEF TypeOK, Requests, RequestSound
  <1>3. CASE Kept(u)
    <2>1. run[r].status # "unborn"
      BY <1>3 DEF Kept, ListsKept, Lists
    <2>2. Stored(r) /\ StaysTheRun(r)
      BY <1>2, <2>1, KnownStays
    <2>3. run[r].source # request[u].repo
      BY <1>3, <2>2 DEF Kept, DisconnectCompletes, InFlight, RefersTo
    <2> QED BY <1>1, <1>2, <1>3, <2>2, <2>3 DEF Kept, StaysTheRun
  <1>4. CASE ClearSources(u)
    BY <1>1, <1>2, <1>4 DEF ClearSources, Forget, Then, TypeOK, Requests, RunRows
  <1>5. CASE request'[u] = Idle \/ request'[u].pc \in {"insertRepo", "getPreset", "insertRun"}
    BY <1>5 DEF Idle, Ask
  <1>6. CASE GetPreset(u) \/ DeleteNextRun(u)
    <2> DEFINE q == request[u]
               c == preset[q.preset].configs
               gone == CHOOSE x \in q.todo : \A y \in q.todo : y <= x
    <2>1. \/ request'[u] = [q EXCEPT !.pc = "insertRun", !.read = c,
                                      !.snapshot = BuildPresetSnapshot(c)]
          \/ q.pc = "deleteRuns" /\ request'[u] = [q EXCEPT !.todo = @ \ {gone}]
      BY <1>6 DEF GetPreset, DeleteNextRun, InFlight, Then, TypeOK
    <2> HIDE DEF c, gone
    <2>2. request'[u].pc \in {"insertRun", "deleteRuns"}
      BY <2>1 DEF Requests
    <2> QED BY <2>2
  <1>7. ASSUME NEW i \in Repos, AskDisconnect(u, i), request'[u] # request[u]
        PROVE  FALSE
    BY <1>7, RunsListed
  <1>8. request'[u] = request[u] => Kept(u)
    BY DEF Kept
  <1> QED BY <1>3, <1>4, <1>5, <1>6, <1>7, <1>8, RequestStep

-------------------------------------------------------------------------------
LEMMA InvInit == Init => IInv
  <1> SUFFICES ASSUME Init PROVE IInv
    OBVIOUS
  <1>1. SnapshotsKept
    BY EmptySnapshot DEF Init, SnapshotsKept, NoRun, Idle, Ask
  <1>2. UnbornIsNew /\ RunsHaveTheirRepos
    BY DEF Init, UnbornIsNew, RunsHaveTheirRepos, Stored, NoRun
  <1>3. ListsKept /\ ActiveRunsSurvive /\ DisconnectCompletes
    BY DEF Init, ListsKept, Lists, ActiveRunsSurvive, DisconnectCompletes, InFlight, Idle, Ask
  <1>4. OneRepoPerProject
    BY ProjectsAssumption DEF Init, OneRepoPerProject, Connected, NoRepo
  <1> QED BY <1>1, <1>2, <1>3, <1>4, TypeInit DEF IInv

\* IInv is inductive.
THEOREM RepoInvariant == Spec => []IInv
  <1>1. Init => IInv
    BY InvInit
  <1>2. IInv /\ [Next]_vars => IInv'
    BY TypeStep, SnapshotsStep, UnbornStep, ListsStep, RunsReposStep, OnePerProjectStep,
       SurviveStep, CompletesStep DEF IInv
  <1> QED BY <1>1, <1>2, PTL DEF Spec

\* Every variable keeps its type, and a repository the preset it names.
THEOREM RepoTypes == Spec => []TypeOK
  <1>1. IInv => TypeOK
    BY DEF IInv
  <1> QED BY <1>1, RepoInvariant, PTL

\* A run is never without the repositories it is about.
THEOREM ReposOfRuns == Spec => []RunsHaveTheirRepos
  <1>1. IInv => RunsHaveTheirRepos
    BY DEF IInv
  <1> QED BY <1>1, RepoInvariant, PTL

\* Two requests never connect one project twice.
THEOREM OnePerProject == Spec => []OneRepoPerProject
  <1>1. IInv => OneRepoPerProject
    BY DEF IInv
  <1> QED BY <1>1, RepoInvariant, PTL

\* A disconnect deletes no active run but one that stopped and became active again,
\* restarted or not, after it looked.
THEOREM ActiveSurvive == Spec => []ActiveRunsSurvive
  <1>1. IInv => ActiveRunsSurvive
    BY DEF IInv
  <1> QED BY <1>1, RepoInvariant, PTL

\* Only runs filed since stand in the way of a disconnect.
THEOREM DisconnectsComplete == Spec => []DisconnectCompletes
  <1>1. IInv => DisconnectCompletes
    BY DEF IInv
  <1> QED BY <1>1, RepoInvariant, PTL

\* The jobs of a run are configured by what its preset was when it was filed.
THEOREM RunsConfigured == Spec => []RunsAsResolved
  <1>1. IInv => RunsAsResolved
    <2> SUFFICES ASSUME IInv, NEW r \in Runs, NEW a \in DOMAIN Base \ {"pipeline"}
                 PROVE  JobConfig(Base, run[r].snapshot, a)
                            = ResolveAgentConfig(Base, run[r].read)[a]
      BY DEF RunsAsResolved
    <2>1. run[r].snapshot = BuildPresetSnapshot(run[r].read)
      BY DEF IInv, SnapshotsKept
    <2> QED BY <2>1, SnapshotResolves, BaseAssumption
  <1> QED BY <1>1, RepoInvariant, PTL
===============================================================================
