------------------------------ MODULE Credentials ------------------------------
(***************************************************************************)
(* The credentials the services share through the settings table: the      *)
(* OAuth credentials of the agents, which the settings page stores         *)
(* (src/api/settings.py) and every worker copies to a file and refreshes   *)
(* before each job (src/shared/credentials.py, token_refresh.py,           *)
(* worker/src/main.py), and the address and token of GitLab, which the     *)
(* page stores one after the other and the orchestrator and the web        *)
(* process read one after the other, where they do not join the token with *)
(* the address a repository was connected under.                           *)
(*                                                                         *)
(* The OAuth server is external: it hands out a new refresh token with     *)
(* every refresh and then refuses the one it was given.  SSH key and       *)
(* kubeconfig are restored like the credentials and never refreshed.       *)
(***************************************************************************)
EXTENDS Naturals, Sequences

CONSTANTS Workers,
          Budget      \* how often each of Events may happen

Events == {"login", "logout", "expire", "answerLost", "storeFails", "workerCrash",
           "put", "putFails", "webCrash"}

ASSUME EventsAssumption == Budget \in [Events -> Nat]

VARIABLES
    setting,   \* settings row "claude_credentials"
    file,      \* ~/.claude/.credentials.json of each worker
    job,       \* on_job of each worker, before its agent and while it runs
    usable,    \* the server: the one generation of each login it still accepts
    expiring,  \* credentials within five minutes of their expiry
    raced,     \* a login or logout was stored while an older token was refreshed
    gitlab,    \* settings rows "gitlab_url" and "gitlab_token": versions
    puts,      \* the PUT /settings in flight: their versions and the keys stored so far
    crossed,   \* a PUT /settings came while another was in flight
    client,    \* app.state.gitlab of the web process
    repo,      \* a connected repository: the client that supplied its clone_url_http
    reader,    \* the orchestrator joining an address and a token
    left

claude == <<setting, file, job, usable, expiring, raced>>
pair   == <<gitlab, puts, crossed, client, repo, reader>>
vars   == <<claude, pair, left>>

Spend(e) == left[e] > 0 /\ left' = [left EXCEPT ![e] = @ - 1]
Unspent(es) == \A e \in es : left[e] = Budget[e]

\* Credentials are known by the login they go back to and the number of
\* refreshes since; login 0 is the empty setting.
Token(k, g) == [login |-> k, gen |-> g]
None == Token(0, 0)
Logins == 1..Budget["login"]

NoJob == [pc |-> "idle", taken |-> None, mine |-> None]
At(w, pc)   == job[w].pc = pc
Goto(w, pc) == job' = [job EXCEPT ![w].pc = pc]

\* A loop that stores the keys in the order of the form (settings.html).
MutantKeys == <<"token", "url">>
Keys == <<"url", "token">>

Unset  == [url |-> 0, token |-> 0]
Unread == [pc |-> "idle", url |-> 0, token |-> 0]

Init ==
    /\ setting = None
    /\ file = [w \in Workers |-> None]
    /\ job = [w \in Workers |-> NoJob]
    /\ usable = [k \in Logins |-> 0]
    /\ expiring = {}
    /\ raced = FALSE
    /\ gitlab = Unset /\ puts = {} /\ crossed = FALSE
    /\ client = Unset /\ repo = Unset
    /\ reader = Unread
    /\ left = Budget

-------------------------------------------------------------------------------
(***************************************************************************)
(* The settings page.  The web process writes a copy of its own first,     *)
(* which no agent reads.                                                   *)
(***************************************************************************)
Refreshing == \E w \in Workers : At(w, "post") \/ At(w, "store")

Login ==
    /\ Spend("login")
    /\ setting' = Token(Budget["login"] - left["login"] + 1, 0)
    /\ raced' = (raced \/ Refreshing)
    /\ UNCHANGED <<file, job, usable, expiring, pair>>

\* The files of the workers stay.
Logout ==
    /\ setting # None
    /\ Spend("logout")
    /\ setting' = None
    /\ raced' = (raced \/ Refreshing)
    /\ UNCHANGED <<file, job, usable, expiring, pair>>

\* Time passes.
Expire ==
    /\ setting # None /\ setting \notin expiring
    /\ Spend("expire")
    /\ expiring' = expiring \cup {setting}
    /\ UNCHANGED <<setting, file, job, usable, raced, pair>>

-------------------------------------------------------------------------------
(***************************************************************************)
(* A worker: restore_all_credentials, refresh_token_if_needed, the agent.  *)
(***************************************************************************)
\* Mutant: what is on disk is kept.
MutantRestored(w) == IF file[w] = None THEN setting ELSE file[w]

\* An empty setting does not touch the file.
Restored(w) == IF setting = None THEN file[w] ELSE setting

\* The main function and on_job both begin with it.
TakeJob(w) ==
    /\ At(w, "idle")
    /\ file' = [file EXCEPT ![w] = Restored(w)]
    /\ job' = [job EXCEPT ![w] = [NoJob EXCEPT !.pc = "check", !.taken = setting]]
    /\ UNCHANGED <<setting, usable, expiring, raced, pair, left>>

\* The setting is read again, and refreshed if it is close to its expiry.
Check(w) ==
    /\ At(w, "check")
    /\ job' = [job EXCEPT ![w].pc = IF setting \in expiring THEN "post" ELSE "run",
                          ![w].mine = setting]
    /\ UNCHANGED <<setting, file, usable, expiring, raced, pair, left>>

Accepted(t) == usable[t.login] = t.gen

\* The server answers with the next generation.
Post(w) ==
    /\ At(w, "post") /\ Accepted(job[w].mine)
    /\ usable' = [usable EXCEPT ![job[w].mine.login] = @ + 1]
    /\ Goto(w, "store")
    /\ UNCHANGED <<setting, file, expiring, raced, pair, left>>

\* Another worker was faster: a status other than 200, and the job goes on with
\* the file it has.
PostRefused(w) ==
    /\ At(w, "post") /\ ~Accepted(job[w].mine)
    /\ Goto(w, "run")
    /\ UNCHANGED <<setting, file, usable, expiring, raced, pair, left>>

\* No answer within 30 seconds, whatever the server has done.
AnswerLost(w) ==
    /\ At(w, "post")
    /\ Spend("answerLost")
    /\ usable' \in {usable, IF Accepted(job[w].mine)
                            THEN [usable EXCEPT ![job[w].mine.login] = @ + 1] ELSE usable}
    /\ Goto(w, "run")
    /\ UNCHANGED <<setting, file, expiring, raced, pair>>

\* Mutant: the refresh token of the request is kept, not that of the answer.
MutantRefreshed(t) == t

\* data.get("refresh_token", refresh_token)
Refreshed(t) == Token(t.login, t.gen + 1)

\* set_setting, whatever the row holds by now, and the file.
Store(w) ==
    /\ At(w, "store")
    /\ setting' = Refreshed(job[w].mine)
    /\ file' = [file EXCEPT ![w] = Refreshed(job[w].mine)]
    /\ Goto(w, "run")
    /\ UNCHANGED <<usable, expiring, raced, pair, left>>

\* The row cannot be written: the error is logged, and what the server gave is lost.
StoreFails(w) ==
    /\ At(w, "store")
    /\ Spend("storeFails")
    /\ Goto(w, "run")
    /\ UNCHANGED <<setting, file, usable, expiring, raced, pair>>

FinishJob(w) ==
    /\ At(w, "run")
    /\ job' = [job EXCEPT ![w] = NoJob]
    /\ UNCHANGED <<setting, file, usable, expiring, raced, pair, left>>

\* The worker dies; a new one restores the credentials before its first job.
WorkerCrash(w) ==
    /\ ~At(w, "idle")
    /\ Spend("workerCrash")
    /\ job' = [job EXCEPT ![w] = NoJob]
    /\ file' = [file EXCEPT ![w] = Restored(w)]
    /\ UNCHANGED <<setting, usable, expiring, raced, pair>>

-------------------------------------------------------------------------------
(***************************************************************************)
(* The two rows of GitLab.                                                 *)
(***************************************************************************)
\* Nothing keeps the page, or a second one, from submitting again before the
\* answer: the requests are served side by side.
PutSettings ==
    /\ Spend("put")
    /\ puts' = puts \cup {[version |-> Budget["put"] - left["put"] + 1, done |-> 0]}
    /\ crossed' = (crossed \/ puts # {})
    /\ UNCHANGED <<claude, gitlab, client, repo, reader>>

\* Mutant: the loop over the keys of a request does not end it.
MutantAfterKey(p) == {[p EXCEPT !.done = @ + 1]}

AfterKey(p) == IF p.done + 1 < Len(Keys) THEN {[p EXCEPT !.done = @ + 1]} ELSE {}

\* Mutant: the client is replaced before the rows are stored.
MutantPutKey ==
    \E p \in puts :
        /\ gitlab' = [gitlab EXCEPT ![Keys[p.done + 1]] = p.version]
        /\ puts' = (puts \ {p}) \cup AfterKey(p)
        /\ client' = [url |-> p.version, token |-> p.version]
        /\ UNCHANGED <<claude, crossed, repo, reader, left>>

\* One set_setting after the other; after the last the client is replaced.
PutKey ==
    \E p \in puts :
        /\ gitlab' = [gitlab EXCEPT ![Keys[p.done + 1]] = p.version]
        /\ puts' = (puts \ {p}) \cup AfterKey(p)
        /\ client' = IF AfterKey(p) # {} THEN client
                     ELSE [url |-> p.version, token |-> p.version]
        /\ UNCHANGED <<claude, crossed, repo, reader, left>>

\* A row cannot be written: what was stored stays stored.
PutFails ==
    /\ Spend("putFails")
    /\ \E p \in puts : puts' = puts \ {p}
    /\ UNCHANGED <<claude, gitlab, crossed, client, repo, reader>>

\* The web process dies and builds its client from the rows when it starts.
WebCrash ==
    /\ Spend("webCrash")
    /\ puts' = {}
    /\ client' = IF gitlab.token = 0 THEN Unset ELSE gitlab
    /\ UNCHANGED <<claude, gitlab, crossed, repo, reader>>

\* The clone URL is the one GitLab gives for the project, with its own address.
ConnectRepo ==
    /\ client.token > 0 /\ repo = Unset
    /\ repo' = client
    /\ UNCHANGED <<claude, gitlab, puts, crossed, client, reader, left>>

\* Its active runs block it (RepoAdmin).
DisconnectRepo ==
    /\ repo # Unset /\ reader.pc \notin {"token", "clone"}
    /\ repo' = Unset
    /\ UNCHANGED <<claude, gitlab, puts, crossed, client, reader, left>>

\* main, and process_run at its end: the token first, then the address.
ReadToken ==
    /\ reader.pc = "idle"
    /\ reader' = [pc |-> "address", url |-> 0, token |-> gitlab.token]
    /\ UNCHANGED <<claude, gitlab, puts, crossed, client, repo, left>>

ReadAddress ==
    /\ reader.pc = "address"
    /\ reader' = [reader EXCEPT !.pc = "use", !.url = gitlab.url]
    /\ UNCHANGED <<claude, gitlab, puts, crossed, client, repo, left>>

\* process_run at its beginning: the repository's row, then the newest token,
\* which goes into that row's clone URL.
ReadRepo ==
    /\ reader.pc = "idle" /\ repo # Unset
    /\ reader' = [pc |-> "token", url |-> repo.url, token |-> 0]
    /\ UNCHANGED <<claude, gitlab, puts, crossed, client, repo, left>>

ReadFreshToken ==
    /\ reader.pc = "token"
    /\ reader' = [reader EXCEPT !.pc = "clone", !.token = gitlab.token]
    /\ UNCHANGED <<claude, gitlab, puts, crossed, client, repo, left>>

UseGitLab ==
    /\ reader.pc \in {"use", "clone"}
    /\ reader' = Unread
    /\ UNCHANGED <<claude, gitlab, puts, crossed, client, repo, left>>

-------------------------------------------------------------------------------
Work(w) == TakeJob(w) \/ Check(w) \/ Post(w) \/ PostRefused(w) \/ Store(w) \/ FinishJob(w)

GitLab ==
    \/ PutSettings \/ PutKey \/ PutFails \/ WebCrash \/ ConnectRepo \/ DisconnectRepo
    \/ ReadToken \/ ReadAddress \/ ReadRepo \/ ReadFreshToken \/ UseGitLab

Next == \/ Login \/ Logout \/ Expire
        \/ \E w \in Workers : Work(w) \/ AnswerLost(w) \/ StoreFails(w) \/ WorkerCrash(w)
        \/ GitLab

Spec == Init /\ [][Next]_vars

-------------------------------------------------------------------------------
Tokens   == [login : Logins, gen : Nat] \cup {None}
Versions == [url : Nat, token : Nat]

\* Settings, files and requests keep their types.
TypeOK ==
    /\ setting \in Tokens
    /\ file \in [Workers -> Tokens]
    /\ job \in [Workers -> [pc : {"idle", "check", "post", "store", "run"},
                            taken : Tokens, mine : Tokens]]
    /\ usable \in [Logins -> Nat]
    /\ expiring \subseteq Tokens \ {None}
    /\ raced \in BOOLEAN
    /\ {gitlab, client, repo} \subseteq Versions
    /\ puts \subseteq [version : Nat, done : {0, 1}]
    /\ crossed \in BOOLEAN
    /\ reader \in [pc : {"idle", "address", "use", "token", "clone"}, url : Nat, token : Nat]
    /\ left \in [Events -> Nat]

\* However the refreshes of the workers meet, the stored refresh token is one the
\* server accepts, or the worker that used it is about to store its successor.
\* A worker that dies, an answer that is lost or cannot be stored, and a login or
\* logout during a refresh can break that, and nothing repairs it but a new login.
StoredTokenUsable ==
    Unspent({"answerLost", "storeFails", "workerCrash"}) /\ ~raced /\ setting # None =>
        \/ Accepted(setting)
        \/ \E w \in Workers : At(w, "store") /\ job[w].mine = setting

\* An agent runs with the login that was stored when its job was taken, or a
\* later one: no file of an earlier job and no other worker's refresh brings an
\* older login back, unless a refresh was in flight when the login was stored.
LoginReachesJobs ==
    \A w \in Workers : At(w, "run") /\ ~raced /\ job[w].taken # None =>
        file[w].login >= job[w].taken.login

\* What reads both rows of GitLab never joins a token with an address older than
\* itself, although they are written and read one by one, a write may fail and the
\* web process may die between the two.  PUTs that cross can leave the token of
\* the second with the address of the first, and a walk joins the newest token
\* with the address its repository was connected under, however old that is.
TokenGoesWithItsUrl ==
    ~crossed => /\ reader.pc = "use" => reader.url >= reader.token
                /\ client.url >= client.token

\* The token a walk clones with is no older than the one its repository was
\* connected with, whatever the web process and its PUTs went through since then.
WalkTokenIsFresh ==
    ~crossed /\ reader.pc = "clone" => reader.token >= repo.token
===============================================================================
