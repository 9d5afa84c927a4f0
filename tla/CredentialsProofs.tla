--------------------------- MODULE CredentialsProofs ---------------------------
(***************************************************************************)
(* Theorems about Credentials, for any number of workers and any budget of *)
(* logins, refreshes, writes and failures.                                 *)
(***************************************************************************)
EXTENDS Credentials, TLAPS

\* Budgets only shrink, and logins and versions are numbered by what was spent.
Spent(e) == Budget[e] - left[e]

BudgetsShrink == \A e \in Events : left[e] <= Budget[e]

LoginsNumbered ==
    /\ setting.login <= Spent("login")
    /\ \A w \in Workers : file[w].login <= Spent("login") /\ job[w].mine.login <= Spent("login")
    /\ \A k \in Logins : k > Spent("login") => usable[k] = 0

\* A refresh is of credentials, never of the empty setting, and as long as no
\* login or logout has met it, of the login that is stored.
RefreshesKnown ==
    \A w \in Workers : At(w, "post") \/ At(w, "store") =>
        /\ job[w].mine # None
        /\ ~raced => job[w].mine.login = setting.login

\* The stored token is the one the server accepts, unless the only worker that
\* has refreshed it is about to store its successor; the others can only ask with
\* that token or an older one.
OneSuccessor ==
    Unspent({"answerLost", "storeFails", "workerCrash"}) /\ ~raced =>
        /\ \A w \in Workers : At(w, "post") => job[w].mine.gen <= setting.gen
        /\ \A w \in Workers : At(w, "store") =>
              job[w].mine = setting /\ usable[setting.login] = setting.gen + 1
        /\ \A v, w \in Workers : At(v, "store") /\ At(w, "store") => v = w
        /\ setting # None /\ (\A w \in Workers : ~At(w, "store")) => Accepted(setting)

\* From the moment a job is taken, what is stored and what is in its worker's
\* file go back to no older login than what was stored then.
NoOlderLogin ==
    ~raced => \A w \in Workers : ~At(w, "idle") /\ job[w].taken # None =>
        /\ setting # None => setting.login >= job[w].taken.login
        /\ file[w].login >= job[w].taken.login

\* Versions are numbered by the PUTs.
PutsNumbered ==
    /\ gitlab.url <= Spent("put")
    /\ \A p \in puts : p.version <= Spent("put")

\* Until PUTs cross, the address is written before the token and read after it.
AddressFirst ==
    ~crossed =>
        /\ \A p, q \in puts : p = q
        /\ \A p \in puts : /\ p.version >= gitlab.url
                           /\ p.done = 1 => p.version = gitlab.url
        /\ gitlab.url >= gitlab.token
        /\ reader.pc = "address" => gitlab.url >= reader.token

\* ... and the token in the row is as new as that of any client there was.
TokenForward ==
    /\ ~crossed => gitlab.token >= client.token /\ gitlab.token >= repo.token
    /\ reader.pc \in {"token", "clone"} => repo # Unset

IInv == /\ TypeOK /\ BudgetsShrink /\ LoginsNumbered /\ RefreshesKnown
        /\ OneSuccessor /\ NoOlderLogin /\ PutsNumbered /\ AddressFirst /\ TokenForward
        /\ TokenGoesWithItsUrl /\ WalkTokenIsFresh
-------------------------------------------------------------------------------
\* Types.

LEMMA BudgetTyped == Budget \in [Events -> Nat]
  BY EventsAssumption

LEMMA TokensTyped ==
    /\ None \in Tokens /\ None.login = 0 /\ None = Token(0, 0)
    /\ \A k \in Logins, g \in Nat : Token(k, g) \in Tokens /\ Token(k, g) # None
    /\ \A t \in Tokens : t.login \in Nat /\ t.gen \in Nat /\ t = Token(t.login, t.gen)
    /\ \A t \in Tokens \ {None} : t.login \in Logins
    /\ \A k, g : Token(k, g).login = k /\ Token(k, g).gen = g
  <1>1. Logins \subseteq Nat /\ 0 \notin Logins
    BY BudgetTyped DEF Logins, Events
  <1>2. None \in Tokens /\ None.login = 0 /\ None.gen = 0 /\ None = Token(0, 0)
    BY DEF None, Token, Tokens
  <1>3. \A k \in Logins, g \in Nat : Token(k, g) \in Tokens /\ Token(k, g) # None
    BY <1>1 DEF None, Token, Tokens
  <1>4. ASSUME NEW t \in Tokens
        PROVE  /\ t.login \in Nat /\ t.gen \in Nat /\ t = Token(t.login, t.gen)
               /\ t # None => t.login \in Logins
    <2>1. CASE t = None
      BY <2>1, <1>2
    <2>2. CASE t \in [login : Logins, gen : Nat]
      BY <2>2, <1>1 DEF Token
    <2> QED BY <2>1, <2>2 DEF Tokens
  <1>5. \A k, g : Token(k, g).login = k /\ Token(k, g).gen = g
    BY DEF Token
  <1> QED BY <1>2, <1>3, <1>4, <1>5

\* The login of a token that is stored next is one the budget allows.
LEMMA NextLogin ==
    ASSUME TypeOK, BudgetsShrink, left["login"] > 0
    PROVE  Budget["login"] - left["login"] + 1 \in Logins
  <1>1. "login" \in Events
    BY DEF Events
  <1>2. Budget["login"] \in Nat /\ left["login"] \in Nat /\ left["login"] <= Budget["login"]
    BY <1>1, BudgetTyped DEF TypeOK, BudgetsShrink
  <1> QED BY <1>2 DEF Logins

LEMMA SpentTyped ==
    ASSUME TypeOK, NEW e \in Events, Spend(e)
    PROVE  /\ left' \in [Events -> Nat] /\ left[e] > 0 /\ left'[e] = left[e] - 1
           /\ \A d \in Events : d # e => left'[d] = left[d]
  BY DEF Spend, TypeOK

PCs     == {"idle", "check", "post", "store", "run"}
JobType == [pc : PCs, taken : Tokens, mine : Tokens]

\* What a worker's job is after a step of it, and what is in its file.
LEMMA JobMoves ==
    ASSUME TypeOK, NEW w \in Workers
    PROVE  /\ job[w] \in JobType /\ file[w] \in Tokens /\ Restored(w) \in Tokens
           /\ NoJob \in JobType /\ NoJob.pc = "idle" /\ NoJob.taken = None /\ NoJob.mine = None
           /\ job[w].mine.login \in Nat /\ job[w].mine.gen \in Nat
           /\ job[w].mine # None => job[w].mine.login \in Logins
  <1>1. job[w] \in JobType /\ file[w] \in Tokens /\ Restored(w) \in Tokens
    BY DEF TypeOK, JobType, PCs, Restored
  <1>2. NoJob \in JobType /\ NoJob.pc = "idle" /\ NoJob.taken = None /\ NoJob.mine = None
    BY TokensTyped DEF NoJob, JobType, PCs
  <1>3. job[w].mine \in Tokens
    BY <1>1 DEF JobType
  <1> QED BY <1>1, <1>2, <1>3, TokensTyped

LEMMA GotoTyped ==
    ASSUME TypeOK, NEW w \in Workers, NEW pc \in PCs, Goto(w, pc)
    PROVE  /\ job' \in [Workers -> JobType]
           /\ job'[w].pc = pc /\ job'[w].taken = job[w].taken /\ job'[w].mine = job[w].mine
           /\ \A v \in Workers : v # w => job'[v] = job[v]
  <1>1. job \in [Workers -> JobType] /\ job' = [job EXCEPT ![w] = [job[w] EXCEPT !.pc = pc]]
    BY DEF Goto, TypeOK, JobType, PCs
  <1>2. [job[w] EXCEPT !.pc = pc] \in JobType
    BY <1>1 DEF JobType
  <1> QED BY <1>1, <1>2 DEF JobType

LEMMA CheckTyped ==
    ASSUME TypeOK, NEW w \in Workers, Check(w)
    PROVE  /\ job' \in [Workers -> JobType]
           /\ job'[w].pc = IF setting \in expiring THEN "post" ELSE "run"
           /\ job'[w].taken = job[w].taken /\ job'[w].mine = setting
           /\ \A v \in Workers : v # w => job'[v] = job[v]
  <1> DEFINE q == [job[w] EXCEPT !.pc = IF setting \in expiring THEN "post" ELSE "run",
                                 !.mine = setting]
  <1>1. job[w] \in JobType /\ setting \in Tokens /\ job \in [Workers -> JobType]
    BY DEF TypeOK, JobType, PCs
  <1>2. q \in JobType /\ q.pc = (IF setting \in expiring THEN "post" ELSE "run")
        /\ q.taken = job[w].taken /\ q.mine = setting
    BY <1>1 DEF JobType, PCs
  <1>3. job' = [job EXCEPT ![w] = q]
    BY <1>1 DEF Check, JobType
  <1> HIDE DEF q
  <1> QED BY <1>1, <1>2, <1>3

LEMMA RestartTyped ==
    ASSUME TypeOK, NEW w \in Workers, NEW q \in JobType, job' = [job EXCEPT ![w] = q]
    PROVE  /\ job' \in [Workers -> JobType] /\ job'[w] = q
           /\ \A v \in Workers : v # w => job'[v] = job[v]
  BY DEF TypeOK, JobType, PCs

LEMMA TakeTyped ==
    ASSUME TypeOK, NEW w \in Workers, TakeJob(w)
    PROVE  /\ job' \in [Workers -> JobType]
           /\ job'[w].pc = "check" /\ job'[w].taken = setting /\ job'[w].mine = None
           /\ \A v \in Workers : v # w => job'[v] = job[v]
  <1> DEFINE q == [NoJob EXCEPT !.pc = "check", !.taken = setting]
  <1>1. q \in JobType /\ q.pc = "check" /\ q.taken = setting /\ q.mine = None
    BY TokensTyped DEF NoJob, JobType, PCs, TypeOK
  <1>2. job' = [job EXCEPT ![w] = q]
    BY DEF TakeJob
  <1> HIDE DEF q
  <1> QED BY <1>1, <1>2, RestartTyped

\* A refresh accepted by the server leaves every other login as it is.
LEMMA PostTyped ==
    ASSUME TypeOK, NEW w \in Workers, job[w].mine # None,
           usable' = [usable EXCEPT ![job[w].mine.login] = @ + 1]
    PROVE  /\ usable' \in [Logins -> Nat]
           /\ usable'[job[w].mine.login] = usable[job[w].mine.login] + 1
           /\ \A k \in Logins : k # job[w].mine.login => usable'[k] = usable[k]
  BY JobMoves DEF TypeOK

\* The rows of GitLab and the credentials of the agents leave each other alone.
LEMMA GitLabApart ==
    ASSUME GitLab
    PROVE  /\ UNCHANGED claude
           /\ left' = left \/ \E e \in Events : Spend(e)
  BY DEF GitLab, PutSettings, PutKey, PutFails, WebCrash, ConnectRepo, DisconnectRepo,
         ReadToken, ReadAddress, ReadRepo, ReadFreshToken, UseGitLab, claude, Events

LEMMA ClaudeApart ==
    ASSUME [Next]_vars
    PROVE  GitLab \/ UNCHANGED pair
  BY DEF Next, Work, Login, Logout, Expire, TakeJob, Check, Post, PostRefused, AnswerLost,
         Store, StoreFails, FinishJob, WorkerCrash, vars

\* What one set_setting of a request leaves.
LEMMA KeyStored ==
    ASSUME TypeOK, NEW p \in puts, gitlab' = [gitlab EXCEPT ![Keys[p.done + 1]] = p.version],
           puts' = (puts \ {p}) \cup AfterKey(p)
    PROVE  \/ /\ p.done = 0 /\ AfterKey(p) = {[version |-> p.version, done |-> 1]}
              /\ gitlab'.url = p.version /\ gitlab'.token = gitlab.token
           \/ /\ p.done = 1 /\ AfterKey(p) = {}
              /\ gitlab'.url = gitlab.url /\ gitlab'.token = p.version
  <1>1. p \in [version : Nat, done : {0, 1}] /\ gitlab \in [url : Nat, token : Nat]
    BY DEF TypeOK, Versions
  <1>2. CASE p.done = 0
    <2>1. Keys[p.done + 1] = "url" /\ AfterKey(p) = {[p EXCEPT !.done = 1]}
      BY <1>2 DEF Keys, AfterKey
    <2> QED BY <1>1, <1>2, <2>1
  <1>3. CASE p.done = 1
    <2>1. Keys[p.done + 1] = "token" /\ AfterKey(p) = {}
      BY <1>3 DEF Keys, AfterKey
    <2> QED BY <1>1, <1>3, <2>1
  <1> QED BY <1>1, <1>2, <1>3

LEMMA TypeInit == Init => TypeOK
  <1> SUFFICES ASSUME Init PROVE TypeOK
    OBVIOUS
  <1>1. left \in [Events -> Nat] /\ setting \in Tokens /\ file \in [Workers -> Tokens]
    BY BudgetTyped, TokensTyped DEF Init
  <1>2. job \in [Workers -> JobType]
    BY TokensTyped DEF Init, NoJob, JobType, PCs
  <1>3. /\ {gitlab, client, repo} \subseteq Versions /\ puts \subseteq [version : Nat, done : {0, 1}]
        /\ crossed \in BOOLEAN
        /\ reader \in [pc : {"idle", "address", "use", "token", "clone"}, url : Nat, token : Nat]
    <2>1. Unset \in Versions
      BY DEF Unset, Versions
    <2>2. Unread \in [pc : {"idle", "address", "use", "token", "clone"}, url : Nat, token : Nat]
      BY DEF Unread
    <2> QED BY <2>1, <2>2 DEF Init
  <1>4. usable \in [Logins -> Nat] /\ expiring \subseteq Tokens \ {None} /\ raced \in BOOLEAN
    BY DEF Init
  <1> QED BY <1>1, <1>2, <1>3, <1>4 DEF TypeOK, JobType, PCs

LEMMA TypeStep == ASSUME TypeOK, BudgetsShrink, RefreshesKnown, [Next]_vars PROVE TypeOK'
  <1>0. /\ setting \in Tokens /\ None \in Tokens /\ file \in [Workers -> Tokens]
        /\ job \in [Workers -> JobType] /\ left \in [Events -> Nat]
        /\ usable \in [Logins -> Nat]
    BY TokensTyped DEF TypeOK, JobType, PCs
  <1>1. CASE Login
    <2>1. setting' \in Tokens
      BY <1>1, NextLogin, TokensTyped DEF Login, Spend
    <2> QED BY <2>1, <1>1, SpentTyped DEF Login, TypeOK, pair, Events, Refreshing
  <1>2. CASE Logout
    BY <1>2, <1>0, SpentTyped DEF Logout, TypeOK, pair, Events, Refreshing
  <1>3. CASE Expire
    BY <1>3, <1>0, SpentTyped DEF Expire, TypeOK, pair, Events
  <1>4. ASSUME NEW w \in Workers, TakeJob(w) PROVE TypeOK'
    <2>1. file' \in [Workers -> Tokens] /\ job' \in [Workers -> JobType]
      BY <1>0, <1>4, TakeTyped, JobMoves DEF TakeJob
    <2> QED BY <2>1, <1>4 DEF TakeJob, TypeOK, pair, JobType, PCs
  <1>5. ASSUME NEW w \in Workers, Check(w) PROVE TypeOK'
    BY <1>5, CheckTyped DEF Check, TypeOK, pair, JobType, PCs
  <1>6. ASSUME NEW w \in Workers, Post(w) PROVE TypeOK'
    <2>1. job' \in [Workers -> JobType]
      BY <1>6, GotoTyped DEF Post, PCs
    <2>2. usable' \in [Logins -> Nat]
      BY <1>6, PostTyped DEF Post, RefreshesKnown
    <2> QED BY <2>1, <2>2, <1>6 DEF Post, TypeOK, pair, JobType, PCs
  <1>7. ASSUME NEW w \in Workers, PostRefused(w) PROVE TypeOK'
    <2>1. job' \in [Workers -> JobType]
      BY <1>7, GotoTyped DEF PostRefused, PCs
    <2> QED BY <2>1, <1>7 DEF PostRefused, TypeOK, pair, JobType, PCs
  <1>8. ASSUME NEW w \in Workers, AnswerLost(w) PROVE TypeOK'
    <2>1. job' \in [Workers -> JobType]
      BY <1>8, GotoTyped DEF AnswerLost, PCs
    <2>2. usable' \in [Logins -> Nat]
      BY <1>8, <1>0, PostTyped DEF AnswerLost, RefreshesKnown
    <2>3. left' \in [Events -> Nat]
      BY <1>8, SpentTyped DEF AnswerLost, Events
    <2> QED BY <2>1, <2>2, <2>3, <1>8 DEF AnswerLost, TypeOK, pair, JobType, PCs
  <1>9. ASSUME NEW w \in Workers, Store(w) PROVE TypeOK'
    <2>1. job' \in [Workers -> JobType]
      BY <1>9, GotoTyped DEF Store, PCs
    <2>2. Refreshed(job[w].mine) \in Tokens
      BY <1>9, JobMoves, TokensTyped DEF Store, RefreshesKnown, Refreshed
    <2>3. setting' \in Tokens /\ file' \in [Workers -> Tokens]
      BY <2>2, <1>0, <1>9 DEF Store
    <2> QED BY <2>1, <2>3, <1>9 DEF Store, TypeOK, pair, JobType, PCs
  <1>10. ASSUME NEW w \in Workers, FinishJob(w) PROVE TypeOK'
    <2>1. job' \in [Workers -> JobType]
      BY <1>10, RestartTyped, JobMoves DEF FinishJob
    <2> QED BY <2>1, <1>10 DEF FinishJob, TypeOK, pair, JobType, PCs
  <1>11. ASSUME NEW w \in Workers, WorkerCrash(w) PROVE TypeOK'
    <2>1. job' \in [Workers -> JobType] /\ file' \in [Workers -> Tokens]
      BY <1>0, <1>11, RestartTyped, JobMoves DEF WorkerCrash
    <2>2. left' \in [Events -> Nat]
      BY <1>11, SpentTyped DEF WorkerCrash, Events
    <2> QED BY <2>1, <2>2, <1>11 DEF WorkerCrash, TypeOK, pair, JobType, PCs
  <1>12. CASE PutSettings
    <2>1. left' \in [Events -> Nat] /\ Budget["put"] - left["put"] + 1 \in Nat
      BY <1>12, <1>0, SpentTyped, BudgetTyped DEF PutSettings, BudgetsShrink, Events
    <2>2. puts' \subseteq [version : Nat, done : {0, 1}] /\ crossed' \in BOOLEAN
      BY <2>1, <1>12 DEF PutSettings, TypeOK
    <2> QED BY <2>1, <2>2, <1>12 DEF PutSettings, TypeOK, claude
  <1>13. CASE PutKey
    <2>1. PICK p \in puts : /\ gitlab' = [gitlab EXCEPT ![Keys[p.done + 1]] = p.version]
                            /\ puts' = (puts \ {p}) \cup AfterKey(p)
                            /\ client' \in {client, [url |-> p.version, token |-> p.version]}
      BY <1>13 DEF PutKey
    <2>2. p.version \in Nat
      BY DEF TypeOK
    <2>3. {gitlab', client'} \subseteq Versions
      BY <2>1, <2>2 DEF TypeOK, Versions
    <2>4. puts' \subseteq [version : Nat, done : {0, 1}]
      <3>1. AfterKey(p) \subseteq {[version |-> p.version, done |-> 1]}
        BY <2>1, KeyStored
      <3> QED BY <2>1, <2>2, <3>1 DEF TypeOK
    <2> QED BY <2>3, <2>4, <1>13 DEF PutKey, TypeOK, claude
  <1>14. CASE PutFails \/ WebCrash
    <2>1. left' \in [Events -> Nat]
      BY <1>14, SpentTyped DEF PutFails, WebCrash, Events
    <2>2. client' \in Versions /\ puts' \subseteq [version : Nat, done : {0, 1}]
      BY <1>14 DEF PutFails, WebCrash, Unset, TypeOK, Versions
    <2> QED BY <2>1, <2>2, <1>14 DEF PutFails, WebCrash, TypeOK, claude
  <1>15. CASE ConnectRepo \/ DisconnectRepo \/ ReadToken \/ ReadAddress \/ ReadRepo
              \/ ReadFreshToken \/ UseGitLab
    <2>1. /\ gitlab.url \in Nat /\ gitlab.token \in Nat /\ repo.url \in Nat
          /\ Unset \in Versions /\ Unread.pc = "idle" /\ Unread.url = 0 /\ Unread.token = 0
      BY DEF TypeOK, Versions, Unset, Unread
    <2>2. reader' \in [pc : {"idle", "address", "use", "token", "clone"}, url : Nat, token : Nat]
      <3>1. reader \in [pc : {"idle", "address", "use", "token", "clone"},
                        url : Nat, token : Nat]
        BY DEF TypeOK
      <3>2. CASE ReadRepo \/ ReadToken
        BY <2>1, <3>2 DEF ReadRepo, ReadToken
      <3>3. CASE ReadAddress
        BY <2>1, <3>1, <3>3 DEF ReadAddress
      <3>4. CASE ReadFreshToken
        BY <2>1, <3>1, <3>4 DEF ReadFreshToken
      <3>5. CASE UseGitLab
        BY <3>5 DEF UseGitLab, Unread
      <3>6. CASE ConnectRepo \/ DisconnectRepo
        BY <3>1, <3>6 DEF ConnectRepo, DisconnectRepo
      <3> QED BY <1>15, <3>2, <3>3, <3>4, <3>5, <3>6
    <2>3. repo' \in Versions
      BY <2>1, <1>15 DEF ConnectRepo, DisconnectRepo, ReadToken, ReadAddress, ReadRepo,
                         ReadFreshToken, UseGitLab, TypeOK
    <2> QED BY <2>2, <2>3, <1>15
            DEF ConnectRepo, DisconnectRepo, ReadToken, ReadAddress, ReadRepo, ReadFreshToken,
                UseGitLab, TypeOK, claude
  <1>16. CASE UNCHANGED vars
    BY <1>16 DEF vars, claude, pair, TypeOK
  <1>17. ASSUME NEW w \in Workers, StoreFails(w) PROVE TypeOK'
    <2>1. job' \in [Workers -> JobType]
      BY <1>17, GotoTyped DEF StoreFails, PCs
    <2>2. left' \in [Events -> Nat]
      BY <1>17, SpentTyped DEF StoreFails, Events
    <2> QED BY <2>1, <2>2, <1>17 DEF StoreFails, TypeOK, pair, JobType, PCs
  <1> QED BY <1>1, <1>2, <1>3, <1>4, <1>5, <1>6, <1>7, <1>8, <1>9, <1>10, <1>11, <1>12,
             <1>13, <1>14, <1>15, <1>16, <1>17
          DEF Next, Work, GitLab

-------------------------------------------------------------------------------
(***************************************************************************)
(* The conjuncts of the invariant, one lemma each.  Steps fall in four     *)
(* groups: those of the settings page, of a worker, of the two rows of     *)
(* GitLab, and stuttering.                                                 *)
(***************************************************************************)
LEMMA BudgetsKept ==
    ASSUME TypeOK, BudgetsShrink, [Next]_vars
    PROVE  /\ BudgetsShrink'
           /\ \A e \in Events : Spent(e) \in Nat /\ Spent(e)' \in Nat /\ Spent(e)' >= Spent(e)
           /\ \A es \in SUBSET Events : Unspent(es)' => Unspent(es)
  <1>1. \A e \in Events : left'[e] \in Nat /\ left'[e] <= left[e]
    <2>1. \A e \in Events : left[e] \in Nat
      BY DEF TypeOK
    <2>2. ASSUME NEW e \in Events, Spend(e)
          PROVE  \A d \in Events : left'[d] \in Nat /\ left'[d] <= left[d]
      BY <2>1, <2>2, SpentTyped
    <2>3. CASE left' = left
      BY <2>1, <2>3
    <2> QED BY <2>2, <2>3, GitLabApart
            DEF Next, Work, Login, Logout, Expire, TakeJob, Check, Post, PostRefused, AnswerLost,
                Store, StoreFails, FinishJob, WorkerCrash, vars, Events
  <1>2. \A e \in Events : Budget[e] \in Nat /\ left[e] \in Nat /\ left[e] <= Budget[e]
    BY BudgetTyped DEF TypeOK, BudgetsShrink
  <1> QED BY <1>1, <1>2 DEF BudgetsShrink, Spent, Unspent

\* What a login stores, and that its number is new.
LEMMA LoginNew ==
    ASSUME TypeOK, BudgetsShrink, LoginsNumbered, Login
    PROVE  /\ setting' # None /\ setting'.login = Spent("login") + 1 /\ setting'.gen = 0
           /\ Spent("login") \in Nat /\ Spent("login")' = Spent("login") + 1
           /\ usable'[setting'.login] = 0
  <1>1. "login" \in Events
    BY DEF Events
  <1>2. Budget["login"] \in Nat /\ left["login"] \in Nat /\ left["login"] <= Budget["login"]
    BY <1>1, BudgetTyped DEF TypeOK, BudgetsShrink
  <1>3. left'["login"] = left["login"] - 1 /\ left["login"] > 0
    BY <1>1, SpentTyped DEF Login
  <1>4. setting' = Token(Spent("login") + 1, 0) /\ Spent("login") + 1 \in Logins
    BY <1>3, NextLogin DEF Login, Spent
  <1>5. usable[Spent("login") + 1] = 0
    BY <1>2, <1>4 DEF LoginsNumbered, Spent
  <1> QED BY <1>2, <1>3, <1>4, <1>5, TokensTyped DEF Login, Spent

\* What a refresh stores.
LEMMA RefreshedToken ==
    ASSUME TypeOK, RefreshesKnown, NEW w \in Workers, Store(w)
    PROVE  /\ setting' # None /\ setting' = file'[w]
           /\ setting'.login = job[w].mine.login /\ setting'.gen = job[w].mine.gen + 1
           /\ \A v \in Workers : v # w => file'[v] = file[v]
           /\ ~raced => setting # None /\ setting'.login = setting.login
  <1>1. job[w].mine # None /\ (~raced => job[w].mine.login = setting.login)
    BY DEF Store, RefreshesKnown
  <1>2. job[w].mine.login \in Logins /\ job[w].mine.gen \in Nat
    BY <1>1, JobMoves
  <1>3. setting' = Token(job[w].mine.login, job[w].mine.gen + 1)
    BY DEF Store, Refreshed
  <1>4. file' = [file EXCEPT ![w] = setting'] /\ file \in [Workers -> Tokens]
    BY DEF Store, TypeOK
  <1>5. setting'.login \in Logins /\ 0 \notin Logins
    BY <1>2, <1>3, TokensTyped DEF Logins
  <1> QED BY <1>1, <1>2, <1>3, <1>4, <1>5, TokensTyped

LEMMA LoginsStep ==
    ASSUME TypeOK, BudgetsShrink, RefreshesKnown, LoginsNumbered, [Next]_vars
    PROVE  LoginsNumbered'
  <1>0. /\ Spent("login") \in Nat /\ Spent("login")' \in Nat
        /\ Spent("login")' >= Spent("login")
    BY BudgetsKept DEF Events
  <1> DEFINE s == Spent("login")
             t == Spent("login")'
  <1>t. /\ setting.login \in Nat /\ None.login = 0
        /\ \A v \in Workers : /\ file[v].login \in Nat /\ Restored(v).login \in Nat
                              /\ job[v].mine.login \in Nat
    BY TokensTyped, JobMoves DEF TypeOK
  <1>n. /\ setting.login <= s
        /\ \A w \in Workers : file[w].login <= s /\ job[w].mine.login <= s
        /\ \A w \in Workers : Restored(w).login <= s
        /\ \A k \in Logins : k > s => usable[k] = 0
    BY DEF LoginsNumbered, Restored
  <1>1. CASE Login
    <2>1. setting'.login = t
      BY <1>1, LoginNew
    <2>2. file' = file /\ job' = job /\ usable' = usable
      BY <1>1 DEF Login
    <2> QED BY <1>0, <1>t, <1>n, <2>1, <2>2 DEF LoginsNumbered, Logins
  <1>2. CASE Logout \/ Expire
    <2>1. setting' \in {setting, None} /\ file' = file /\ job' = job /\ usable' = usable
      BY <1>2 DEF Logout, Expire
    <2> QED BY <1>0, <1>t, <1>n, <2>1 DEF LoginsNumbered, Logins
  <1>3. ASSUME NEW w \in Workers, TakeJob(w) \/ FinishJob(w) \/ WorkerCrash(w)
        PROVE  LoginsNumbered'
    <2>1. /\ setting' = setting /\ usable' = usable
          /\ job'[w].mine = None /\ \A v \in Workers : v # w => job'[v] = job[v]
      BY <1>3, TakeTyped, RestartTyped, JobMoves DEF TakeJob, FinishJob, WorkerCrash
    <2>2. \A v \in Workers : file'[v] \in {file[v], Restored(v)}
      BY <1>3 DEF TakeJob, FinishJob, WorkerCrash, TypeOK
    <2>3. \A v \in Workers : file'[v].login <= s /\ file'[v].login \in Nat
      BY <2>2, <1>n, <1>t
    <2>4. \A v \in Workers : job'[v].mine.login <= s /\ job'[v].mine.login \in Nat
      BY <2>1, <1>n, <1>t, <1>0
    <2> QED BY <1>0, <1>t, <1>n, <2>1, <2>3, <2>4 DEF LoginsNumbered, Logins
  <1>4. ASSUME NEW w \in Workers, Check(w) PROVE LoginsNumbered'
    <2>1. /\ setting' = setting /\ usable' = usable /\ file' = file
          /\ job'[w].mine = setting /\ \A v \in Workers : v # w => job'[v] = job[v]
      BY <1>4, CheckTyped DEF Check
    <2>2. \A v \in Workers : job'[v].mine.login <= s /\ job'[v].mine.login \in Nat
      BY <2>1, <1>n, <1>t
    <2> QED BY <1>0, <1>t, <1>n, <2>1, <2>2 DEF LoginsNumbered, Logins
  <1>5. ASSUME NEW w \in Workers, Post(w) \/ PostRefused(w) \/ AnswerLost(w) \/ StoreFails(w)
        PROVE  LoginsNumbered'
    <2>1. /\ setting' = setting /\ file' = file
          /\ \A v \in Workers : job'[v].mine = job[v].mine
      BY <1>5, GotoTyped DEF Post, PostRefused, AnswerLost, StoreFails, PCs
    <2>2. job[w].mine # None
      BY <1>5 DEF Post, PostRefused, AnswerLost, StoreFails, RefreshesKnown
    <2>3. \A k \in Logins : k # job[w].mine.login => usable'[k] = usable[k]
      BY <1>5, <2>2, PostTyped DEF Post, PostRefused, AnswerLost, StoreFails
    <2>4. \A k \in Logins : k > s => usable'[k] = 0
      BY <2>3, <1>n, <1>t, <1>0 DEF Logins
    <2> QED BY <1>0, <1>t, <1>n, <2>1, <2>4 DEF LoginsNumbered, Logins
  <1>6. ASSUME NEW w \in Workers, Store(w) PROVE LoginsNumbered'
    <2>1. usable' = usable /\ \A v \in Workers : job'[v].mine = job[v].mine
      BY <1>6, GotoTyped DEF Store, PCs
    <2>2. setting'.login = job[w].mine.login /\ file'[w].login = job[w].mine.login
          /\ \A v \in Workers : v # w => file'[v] = file[v]
      BY <1>6, RefreshedToken
    <2>3. \A v \in Workers : file'[v].login <= s /\ file'[v].login \in Nat
      BY <2>2, <1>n, <1>t
    <2> QED BY <1>0, <1>t, <1>n, <2>1, <2>2, <2>3 DEF LoginsNumbered, Logins
  <1>7. CASE UNCHANGED claude
    BY <1>7, <1>0, <1>t, <1>n DEF LoginsNumbered, Logins, claude
  <1> QED BY <1>1, <1>2, <1>3, <1>4, <1>5, <1>6, <1>7, GitLabApart DEF Next, Work, vars

\* A step that does not begin, or ask for, a refresh leaves those in flight alone.
LEMMA RefreshesStep ==
    ASSUME TypeOK, BudgetsShrink, RefreshesKnown, LoginsNumbered, [Next]_vars
    PROVE  RefreshesKnown'
  <1>1. CASE Login \/ Logout
    <2>1. job' = job /\ raced' = (raced \/ Refreshing)
      BY <1>1 DEF Login, Logout
    <2> QED BY <2>1 DEF RefreshesKnown, Refreshing, At
  <1>2. CASE Expire
    BY <1>2 DEF Expire, RefreshesKnown, At
  <1>3. ASSUME NEW w \in Workers, TakeJob(w) \/ FinishJob(w) \/ WorkerCrash(w)
        PROVE  RefreshesKnown'
    <2>1. /\ setting' = setting /\ raced' = raced
          /\ job'[w].pc \in {"idle", "check"}
          /\ \A v \in Workers : v # w => job'[v] = job[v]
      BY <1>3, TakeTyped, RestartTyped, JobMoves DEF TakeJob, FinishJob, WorkerCrash
    <2> QED BY <2>1 DEF RefreshesKnown, At
  <1>4. ASSUME NEW w \in Workers, Check(w) PROVE RefreshesKnown'
    <2>1. /\ job'[w].pc = IF setting \in expiring THEN "post" ELSE "run"
          /\ job'[w].mine = setting /\ \A v \in Workers : v # w => job'[v] = job[v]
      BY <1>4, CheckTyped
    <2>3. setting' = setting /\ raced' = raced
      BY <1>4 DEF Check
    <2>2. None \notin expiring
      BY DEF TypeOK
    <2> QED BY <2>1, <2>2, <2>3 DEF RefreshesKnown, At
  <1>5. ASSUME NEW w \in Workers, Post(w) \/ PostRefused(w) \/ AnswerLost(w) \/ StoreFails(w)
        PROVE  RefreshesKnown'
    <2>1. /\ setting' = setting /\ raced' = raced /\ (At(w, "post") \/ At(w, "store"))
          /\ job'[w].mine = job[w].mine /\ \A v \in Workers : v # w => job'[v] = job[v]
      BY <1>5, GotoTyped DEF Post, PostRefused, AnswerLost, StoreFails, PCs
    <2> QED BY <2>1 DEF RefreshesKnown, At
  <1>6. ASSUME NEW w \in Workers, Store(w) PROVE RefreshesKnown'
    <2>1. /\ raced' = raced /\ job'[w].pc = "run"
          /\ \A v \in Workers : v # w => job'[v] = job[v]
      BY <1>6, GotoTyped DEF Store, PCs
    <2>2. ~raced => setting'.login = setting.login
      BY <1>6, RefreshedToken
    <2> QED BY <2>1, <2>2 DEF RefreshesKnown, At
  <1>7. CASE UNCHANGED claude
    BY <1>7 DEF RefreshesKnown, At, claude
  <1> QED BY <1>1, <1>2, <1>3, <1>4, <1>5, <1>6, <1>7, GitLabApart DEF Next, Work, vars

\* A token that the server accepts while it is the oldest asked with is the stored
\* one, and nobody else is about to store a successor.
LEMMA PostFirst ==
    ASSUME TypeOK, RefreshesKnown, OneSuccessor, NEW w \in Workers, Post(w),
           Unspent({"answerLost", "storeFails", "workerCrash"}), ~raced
    PROVE  job[w].mine = setting /\ setting # None /\ \A v \in Workers : ~At(v, "store")
  <1>1. /\ job[w].mine # None /\ job[w].mine.login = setting.login
        /\ job[w].mine.gen <= setting.gen /\ usable[setting.login] = job[w].mine.gen
    BY DEF Post, Accepted, RefreshesKnown, OneSuccessor
  <1>2. /\ setting \in Tokens /\ setting.gen \in Nat /\ job[w].mine \in Tokens
        /\ job[w].mine.gen \in Nat /\ setting # None
    <2>1. job[w].mine \in Tokens /\ setting \in Tokens
      BY JobMoves DEF TypeOK, JobType
    <2>2. setting.login # 0
      BY <1>1, <2>1, TokensTyped DEF Logins
    <2> QED BY <2>1, <2>2, TokensTyped
  <1>3. ASSUME NEW v \in Workers, At(v, "store") PROVE FALSE
    <2>1. usable[setting.login] = setting.gen + 1
      BY <1>3 DEF OneSuccessor
    <2> QED BY <1>1, <1>2, <2>1
  <1>4. job[w].mine.gen = setting.gen
    BY <1>1, <1>2, <1>3 DEF OneSuccessor, Accepted
  <1> QED BY <1>1, <1>2, <1>3, <1>4, TokensTyped

LEMMA SuccessorStep ==
    ASSUME TypeOK, BudgetsShrink, RefreshesKnown, LoginsNumbered, OneSuccessor, [Next]_vars
    PROVE  OneSuccessor'
  <1> DEFINE Lost == {"answerLost", "storeFails", "workerCrash"}
  <1> SUFFICES ASSUME Unspent(Lost)', ~raced'
               PROVE  /\ \A w \in Workers : At(w, "post")' => job'[w].mine.gen <= setting'.gen
                      /\ \A w \in Workers : At(w, "store")' =>
                            /\ job'[w].mine = setting'
                            /\ usable'[setting'.login] = setting'.gen + 1
                      /\ \A v, w \in Workers : At(v, "store")' /\ At(w, "store")' => v = w
                      /\ setting' # None /\ (\A w \in Workers : ~At(w, "store")') =>
                            usable'[setting'.login] = setting'.gen
    BY DEF OneSuccessor, Accepted
  <1>u. Lost \in SUBSET Events /\ Unspent(Lost)
    BY BudgetsKept DEF Events
  <1>r. ~raced
    BY GitLabApart DEF Next, Work, Login, Logout, Expire, TakeJob, Check, Post, PostRefused,
           AnswerLost, Store, StoreFails, FinishJob, WorkerCrash, vars, claude
  <1>o. /\ \A w \in Workers : At(w, "post") => job[w].mine.gen <= setting.gen
        /\ \A w \in Workers : At(w, "store") =>
              job[w].mine = setting /\ usable[setting.login] = setting.gen + 1
        /\ \A v, w \in Workers : At(v, "store") /\ At(w, "store") => v = w
        /\ setting # None /\ (\A w \in Workers : ~At(w, "store")) =>
              usable[setting.login] = setting.gen
    BY <1>u, <1>r DEF OneSuccessor, Accepted
  <1>t. setting.gen \in Nat /\ \A v \in Workers : job[v].mine.gen \in Nat
    BY TokensTyped, JobMoves DEF TypeOK
  <1>1. CASE Login
    <2>1. job' = job /\ \A v \in Workers : ~At(v, "post") /\ ~At(v, "store")
      BY <1>1 DEF Login, Refreshing
    <2> QED BY <1>1, <2>1, LoginNew DEF At
  <1>2. CASE Logout
    <2>1. /\ job' = job /\ setting' = None
          /\ \A v \in Workers : ~At(v, "post") /\ ~At(v, "store")
      BY <1>2 DEF Logout, Refreshing
    <2> QED BY <2>1 DEF At
  <1>3. CASE Expire \/ UNCHANGED claude
    <2>1. job' = job /\ setting' = setting /\ usable' = usable
      BY <1>3 DEF Expire, claude
    <2> QED BY <2>1, <1>o DEF At
  <1>4. ASSUME NEW w \in Workers, TakeJob(w) \/ FinishJob(w) \/ PostRefused(w)
        PROVE  OneSuccessor'
    <2>1. /\ setting' = setting /\ usable' = usable
          /\ job[w].pc # "store" /\ job'[w].pc \in {"idle", "check", "run"}
          /\ \A v \in Workers : v # w => job'[v] = job[v]
      BY <1>4, TakeTyped, RestartTyped, GotoTyped, JobMoves
         DEF TakeJob, FinishJob, PostRefused, PCs, At
    <2> QED BY <2>1, <1>o DEF At, OneSuccessor, Accepted
  <1>5. ASSUME NEW w \in Workers, Check(w) PROVE OneSuccessor'
    <2>1. /\ setting' = setting /\ usable' = usable /\ job'[w].mine = setting
          /\ job[w].pc # "store" /\ job'[w].pc \in {"post", "run"}
          /\ \A v \in Workers : v # w => job'[v] = job[v]
      BY <1>5, CheckTyped DEF Check, At
    <2> QED BY <2>1, <1>o, <1>t DEF At, OneSuccessor, Accepted
  <1>6. ASSUME NEW w \in Workers, Post(w) PROVE OneSuccessor'
    <2>1. job[w].mine = setting /\ setting # None /\ \A v \in Workers : ~At(v, "store")
      BY <1>6, <1>u, <1>r, PostFirst
    <2>2. /\ setting' = setting /\ job'[w].pc = "store" /\ job'[w].mine = setting
          /\ \A v \in Workers : v # w => job'[v] = job[v]
      BY <1>6, <2>1, GotoTyped DEF Post, PCs
    <2>3. usable'[setting.login] = setting.gen + 1
      BY <1>6, <2>1, PostTyped DEF Post, Accepted
    <2> QED BY <2>1, <2>2, <2>3, <1>o DEF At, OneSuccessor, Accepted
  <1>7. ASSUME NEW w \in Workers, Store(w) PROVE OneSuccessor'
    <2>1. /\ job[w].mine = setting /\ usable[setting.login] = setting.gen + 1
          /\ \A v \in Workers : At(v, "store") => v = w
      BY <1>7, <1>o DEF Store
    <2>2. /\ usable' = usable /\ job'[w].pc = "run"
          /\ \A v \in Workers : v # w => job'[v] = job[v]
      BY <1>7, GotoTyped DEF Store, PCs
    <2>3. setting'.login = setting.login /\ setting'.gen = setting.gen + 1
      BY <1>7, <2>1, RefreshedToken
    <2> QED BY <2>1, <2>2, <2>3, <1>o, <1>t DEF At, OneSuccessor, Accepted
  <1>8. ASSUME NEW w \in Workers, AnswerLost(w) \/ StoreFails(w) \/ WorkerCrash(w)
        PROVE  FALSE
    <2>1. \E e \in Lost : Spend(e)
      BY <1>8 DEF AnswerLost, StoreFails, WorkerCrash
    <2>2. PICK e \in Lost : Spend(e)
      BY <2>1
    <2>3. e \in Events /\ left[e] = Budget[e] /\ left[e] \in Nat
      BY <1>u, <2>2 DEF Unspent, TypeOK
    <2>4. left'[e] = left[e] - 1 /\ left'[e] = Budget[e]
      BY <2>2, <2>3, SpentTyped DEF Unspent
    <2> QED BY <2>3, <2>4
  <1> QED BY <1>1, <1>2, <1>3, <1>4, <1>5, <1>6, <1>7, <1>8, GitLabApart DEF Next, Work, vars, OneSuccessor, Accepted

\* What is stored and what is in a worker's file only go forward.
LEMMA OlderStep ==
    ASSUME TypeOK, BudgetsShrink, RefreshesKnown, LoginsNumbered, NoOlderLogin, [Next]_vars
    PROVE  NoOlderLogin'
  <1> SUFFICES ASSUME ~raced', NEW v \in Workers, ~At(v, "idle")', job'[v].taken # None
               PROVE  /\ setting' # None => setting'.login >= job'[v].taken.login
                      /\ file'[v].login >= job'[v].taken.login
    BY DEF NoOlderLogin
  <1>r. ~raced
    BY GitLabApart DEF Next, Work, Login, Logout, Expire, TakeJob, Check, Post, PostRefused,
           AnswerLost, Store, StoreFails, FinishJob, WorkerCrash, vars, claude
  <1>o. ~At(v, "idle") /\ job[v].taken # None =>
            /\ setting # None => setting.login >= job[v].taken.login
            /\ file[v].login >= job[v].taken.login
    BY <1>r DEF NoOlderLogin
  <1>t. /\ setting.login \in Nat /\ file[v].login \in Nat /\ job[v].taken.login \in Nat
        /\ file[v].login <= Spent("login")
    BY TokensTyped, JobMoves DEF TypeOK, JobType, LoginsNumbered
  <1>1. CASE Login
    <2>1. job' = job /\ file' = file /\ setting'.login = Spent("login") + 1
          /\ Spent("login") \in Nat
      BY <1>1, LoginNew DEF Login
    <2> QED BY <2>1, <1>o, <1>t DEF At
  <1>2. CASE Logout
    BY <1>2, <1>o DEF Logout, At
  <1>3. CASE Expire \/ UNCHANGED claude
    BY <1>3, <1>o DEF Expire, claude, At
  <1>4. ASSUME NEW w \in Workers, TakeJob(w)
        PROVE  /\ setting' # None => setting'.login >= job'[v].taken.login
               /\ file'[v].login >= job'[v].taken.login
    <2>1. setting' = setting /\ job'[w].taken = setting
          /\ \A u \in Workers : u # w => job'[u] = job[u]
      BY <1>4, TakeTyped DEF TakeJob
    <2>2. file'[w] = Restored(w) /\ \A u \in Workers : u # w => file'[u] = file[u]
      BY <1>4 DEF TakeJob, TypeOK
    <2>3. CASE v = w
      BY <2>1, <2>2, <2>3, <1>t DEF Restored
    <2>4. CASE v # w
      BY <2>1, <2>2, <2>4, <1>o DEF At
    <2> QED BY <2>3, <2>4
  <1>5. ASSUME NEW w \in Workers, Check(w) \/ Post(w) \/ PostRefused(w) \/ AnswerLost(w) \/ StoreFails(w)
        PROVE  /\ setting' # None => setting'.login >= job'[v].taken.login
               /\ file'[v].login >= job'[v].taken.login
    <2>1. /\ setting' = setting /\ file' = file /\ ~At(w, "idle")
          /\ job'[w].taken = job[w].taken
          /\ \A u \in Workers : u # w => job'[u] = job[u]
      BY <1>5, CheckTyped, GotoTyped DEF Check, Post, PostRefused, AnswerLost, StoreFails, PCs, At
    <2> QED BY <2>1, <1>o DEF At
  <1>6. ASSUME NEW w \in Workers, Store(w)
        PROVE  /\ setting' # None => setting'.login >= job'[v].taken.login
               /\ file'[v].login >= job'[v].taken.login
    <2>1. /\ ~At(w, "idle") /\ job'[w].taken = job[w].taken
          /\ \A u \in Workers : u # w => job'[u] = job[u]
      BY <1>6, GotoTyped DEF Store, PCs, At
    <2>2. /\ setting # None /\ setting'.login = setting.login /\ file'[w] = setting'
          /\ \A u \in Workers : u # w => file'[u] = file[u]
      BY <1>6, <1>r, RefreshedToken
    <2>3. ~At(v, "idle") /\ job[v].taken = job'[v].taken
      BY <2>1 DEF At
    <2> QED BY <2>2, <2>3, <1>o
  <1>7. ASSUME NEW w \in Workers, FinishJob(w) \/ WorkerCrash(w)
        PROVE  /\ setting' # None => setting'.login >= job'[v].taken.login
               /\ file'[v].login >= job'[v].taken.login
    <2>1. /\ setting' = setting /\ job'[w].pc = "idle"
          /\ \A u \in Workers : u # w => job'[u] = job[u]
      BY <1>7, RestartTyped, JobMoves DEF FinishJob, WorkerCrash
    <2>2. \A u \in Workers : u # w => file'[u] = file[u]
      BY <1>7 DEF FinishJob, WorkerCrash, TypeOK
    <2> QED BY <2>1, <2>2, <1>o DEF At
  <1> QED BY <1>1, <1>2, <1>3, <1>4, <1>5, <1>6, <1>7, GitLabApart DEF Next, Work, vars

\* The rows, the requests that write them and those that read them.
LEMMA AddressStep ==
    ASSUME TypeOK, BudgetsShrink, PutsNumbered, AddressFirst, TokenForward,
           TokenGoesWithItsUrl, WalkTokenIsFresh, [Next]_vars
    PROVE  PutsNumbered' /\ AddressFirst' /\ TokenForward' /\ TokenGoesWithItsUrl'
           /\ WalkTokenIsFresh'
  <1> DEFINE s == Spent("put")
             t == Spent("put")'
  <1>0. s \in Nat /\ t \in Nat /\ t >= s
    BY BudgetsKept DEF Events
  <1>b. t = Budget["put"] - left'["put"] /\ s = Budget["put"] - left["put"]
    BY DEF Spent
  <1>i. /\ gitlab.url <= s /\ \A p \in puts : p.version <= s
        /\ reader.pc \in {"token", "clone"} => repo # Unset
        /\ ~crossed =>
              /\ \A p, q \in puts : p = q
              /\ \A p \in puts : /\ p.version >= gitlab.url
                                 /\ p.done = 1 => p.version = gitlab.url
              /\ gitlab.url >= gitlab.token
              /\ gitlab.token >= client.token /\ gitlab.token >= repo.token
              /\ reader.pc = "address" => gitlab.url >= reader.token
              /\ reader.pc = "use" => reader.url >= reader.token
              /\ reader.pc = "clone" => reader.token >= repo.token
              /\ client.url >= client.token
    BY DEF PutsNumbered, AddressFirst, TokenForward, TokenGoesWithItsUrl, WalkTokenIsFresh
  <1>t. /\ gitlab.url \in Nat /\ gitlab.token \in Nat /\ client.url \in Nat
        /\ client.token \in Nat /\ repo.url \in Nat /\ repo.token \in Nat
        /\ reader.url \in Nat /\ reader.token \in Nat /\ crossed \in BOOLEAN
        /\ \A p \in puts : p.version \in Nat /\ p.done \in {0, 1}
        /\ Unset.url = 0 /\ Unset.token = 0
    BY DEF TypeOK, Versions, Unset
  <1> SUFFICES
        /\ gitlab'.url <= t /\ \A p \in puts' : p.version <= t
        /\ reader'.pc \in {"token", "clone"} => repo' # Unset
        /\ ~crossed' =>
              /\ \A p, q \in puts' : p = q
              /\ \A p \in puts' : /\ p.version >= gitlab'.url
                                  /\ p.done = 1 => p.version = gitlab'.url
              /\ gitlab'.url >= gitlab'.token
              /\ gitlab'.token >= client'.token /\ gitlab'.token >= repo'.token
              /\ reader'.pc = "address" => gitlab'.url >= reader'.token
              /\ reader'.pc = "use" => reader'.url >= reader'.token
              /\ reader'.pc = "clone" => reader'.token >= repo'.token
              /\ client'.url >= client'.token
    <2>1. Unset' = Unset
      BY DEF Unset
    <2> QED BY <2>1
            DEF PutsNumbered, AddressFirst, TokenForward, TokenGoesWithItsUrl, WalkTokenIsFresh
  <1> HIDE DEF s, t
  <1>1. CASE PutSettings
    <2>1. t = s + 1
      <3>1. "put" \in Events
        BY DEF Events
      <3>2. left'["put"] = left["put"] - 1 /\ left["put"] \in Nat /\ Budget["put"] \in Nat
        BY <1>1, <3>1, SpentTyped, BudgetTyped DEF PutSettings, TypeOK
      <3> QED BY <1>b, <3>2
    <2>2. puts' = puts \cup {[version |-> t, done |-> 0]} /\ crossed' = (crossed \/ puts # {})
      BY <1>1, <1>b, <2>1 DEF PutSettings
    <2>3. gitlab' = gitlab /\ client' = client /\ repo' = repo /\ reader' = reader
      BY <1>1 DEF PutSettings
    <2>4. \A p \in puts' : p.version <= t
      BY <2>1, <2>2, <1>0, <1>i, <1>t
    <2>5. ~crossed' => ~crossed /\ puts' = {[version |-> t, done |-> 0]}
      BY <2>2
    <2> QED BY <2>1, <2>3, <2>4, <2>5, <1>0, <1>i, <1>t
  <1>2. CASE PutKey
    <2>1. PICK p \in puts :
             /\ gitlab' = [gitlab EXCEPT ![Keys[p.done + 1]] = p.version]
             /\ puts' = (puts \ {p}) \cup AfterKey(p)
             /\ client' = IF AfterKey(p) # {} THEN client
                          ELSE [url |-> p.version, token |-> p.version]
      BY <1>2 DEF PutKey
    <2>p. /\ p.version \in Nat /\ p.version <= s
          /\ ~crossed => p.version >= gitlab.url
          /\ ~crossed /\ p.done = 1 => p.version = gitlab.url
      <3>1. p.version \in Nat /\ p.version <= s
        BY <1>i, <1>t
      <3>2. ~crossed => p.version >= gitlab.url /\ (p.done = 1 => p.version = gitlab.url)
        BY DEF AddressFirst
      <3> QED BY <3>1, <3>2
    <2>2. repo' = repo /\ reader' = reader /\ crossed' = crossed /\ left' = left /\ t = s
      BY <1>2, <1>b DEF PutKey
    <2>3. CASE /\ p.done = 0 /\ AfterKey(p) = {[version |-> p.version, done |-> 1]}
               /\ gitlab'.url = p.version /\ gitlab'.token = gitlab.token
      <3>1. client' = client /\ puts' = (puts \ {p}) \cup {[version |-> p.version, done |-> 1]}
        BY <2>1, <2>3
      <3>2. \A q \in puts' : q.version <= t
        BY <2>2, <3>1, <1>i
      <3>3. ~crossed => puts' = {[version |-> p.version, done |-> 1]}
        <4>1. ~crossed => puts \ {p} = {}
          BY <1>i
        <4> QED BY <3>1, <4>1
      <3>5. ~crossed => \A q \in puts' : q.version = p.version
        BY <3>3
      <3>6. ~crossed => /\ gitlab'.url >= gitlab'.token
                        /\ reader.pc = "address" => gitlab'.url >= reader.token
        BY <2>3, <2>p, <1>i, <1>t
      <3>7. \A q \in puts' : ~crossed => q.version >= gitlab'.url /\ q.version = gitlab'.url
        BY <2>3, <2>p, <3>5
      <3>8. ~crossed => \A q, o \in puts' : q = o
        BY <3>3
      <3> QED BY <2>2, <2>3, <2>p, <3>1, <3>2, <3>6, <3>7, <3>8, <1>i
    <2>4. CASE /\ p.done = 1 /\ AfterKey(p) = {}
               /\ gitlab'.url = gitlab.url /\ gitlab'.token = p.version
      <3>1. client'.url = p.version /\ client'.token = p.version /\ puts' = puts \ {p}
        BY <2>1, <2>4
      <3>2. \A q \in puts' : q.version <= t
        BY <2>2, <3>1, <1>i
      <3>3. ~crossed => puts' = {} /\ p.version = gitlab.url
        <4>1. ~crossed => puts \ {p} = {}
          BY <1>i
        <4>2. ~crossed => p.version = gitlab.url
          BY <2>4, <2>p
        <4> QED BY <3>1, <4>1, <4>2
      <3> QED BY <2>2, <2>4, <3>1, <3>2, <3>3, <1>0, <1>i, <1>t
    <2> QED BY <2>1, <2>3, <2>4, KeyStored
  <1>3. CASE PutFails \/ WebCrash
    <2>1. /\ puts' \subseteq puts /\ gitlab' = gitlab /\ crossed' = crossed
          /\ repo' = repo /\ reader' = reader
          /\ client' = client \/ client' = Unset \/ client' = gitlab
      BY <1>3 DEF PutFails, WebCrash
    <2> QED BY <2>1, <1>0, <1>i, <1>t
  <1>4. CASE ConnectRepo \/ DisconnectRepo
    <2>1. /\ puts' = puts /\ gitlab' = gitlab /\ crossed' = crossed /\ client' = client
          /\ reader' = reader /\ reader.pc \notin {"token", "clone"}
          /\ repo' = client \/ repo' = Unset
      BY <1>4, <1>i DEF ConnectRepo, DisconnectRepo
    <2> QED BY <2>1, <1>0, <1>i, <1>t
  <1>5. CASE ReadToken \/ ReadAddress \/ ReadRepo \/ ReadFreshToken \/ UseGitLab
    <2>1. /\ puts' = puts /\ gitlab' = gitlab /\ crossed' = crossed /\ client' = client
          /\ repo' = repo
      BY <1>5 DEF ReadToken, ReadAddress, ReadRepo, ReadFreshToken, UseGitLab
    <2>2. \/ reader'.pc = "idle"
          \/ reader'.pc = "address" /\ reader'.token = gitlab.token
          \/ /\ reader.pc = "address" /\ reader'.pc = "use"
             /\ reader'.url = gitlab.url /\ reader'.token = reader.token
          \/ reader'.pc = "token" /\ repo # Unset
          \/ reader.pc = "token" /\ reader'.pc = "clone" /\ reader'.token = gitlab.token
      <3>1. reader \in [pc : {"idle", "address", "use", "token", "clone"},
                        url : Nat, token : Nat]
        BY DEF TypeOK
      <3>2. CASE ReadAddress
        BY <3>1, <3>2 DEF ReadAddress
      <3>3. CASE ReadFreshToken
        BY <3>1, <3>3 DEF ReadFreshToken
      <3> QED BY <1>5, <3>2, <3>3 DEF ReadToken, ReadRepo, UseGitLab, Unread
    <2> QED BY <2>1, <2>2, <1>0, <1>i, <1>t
  <1>6. CASE UNCHANGED pair
    <2>1. /\ puts' = puts /\ gitlab' = gitlab /\ crossed' = crossed /\ client' = client
          /\ repo' = repo /\ reader' = reader
      BY <1>6 DEF pair
    <2> QED BY <2>1, <1>0, <1>i, <1>t
  <1> QED BY <1>1, <1>2, <1>3, <1>4, <1>5, <1>6, ClaudeApart DEF GitLab

-------------------------------------------------------------------------------
(***************************************************************************)
(* Theorems.                                                               *)
(***************************************************************************)
LEMMA InvInit == Init => IInv
  <1> SUFFICES ASSUME Init PROVE IInv
    OBVIOUS
  <1>1. TypeOK
    BY TypeInit
  <1>2. left = Budget /\ \A e \in Events : Budget[e] \in Nat /\ Spent(e) = 0
    BY BudgetTyped DEF Init, Spent
  <1>3. \A w \in Workers : At(w, "idle") /\ job[w].mine = None /\ file[w] = None
    BY DEF Init, NoJob, At
  <1>4. LoginsNumbered
    BY <1>2, <1>3, TokensTyped DEF LoginsNumbered, Init, Events
  <1>5. RefreshesKnown /\ NoOlderLogin /\ OneSuccessor
    BY <1>3 DEF RefreshesKnown, NoOlderLogin, OneSuccessor, At, Init
  <1>6. /\ PutsNumbered /\ AddressFirst /\ TokenForward
        /\ TokenGoesWithItsUrl /\ WalkTokenIsFresh
    BY <1>2 DEF Init, PutsNumbered, AddressFirst, TokenForward, TokenGoesWithItsUrl,
                WalkTokenIsFresh, Unset, Unread, Events
  <1> QED BY <1>1, <1>2, <1>4, <1>5, <1>6 DEF IInv, BudgetsShrink

\* The inductive invariant holds in every reachable state.
THEOREM CredentialsInvariant == Spec => []IInv
  <1>1. IInv /\ [Next]_vars => IInv'
    BY TypeStep, BudgetsKept, LoginsStep, RefreshesStep, SuccessorStep, OlderStep, AddressStep
       DEF IInv
  <1> QED BY InvInit, <1>1, PTL DEF Spec

\* Settings, files and requests keep their types.
THEOREM CredentialsTyped == Spec => []TypeOK
  <1>1. IInv => TypeOK
    BY DEF IInv
  <1> QED BY <1>1, CredentialsInvariant, PTL

\* However the refreshes of any number of workers meet, the stored refresh token is
\* one the server accepts, or its only user is about to store its successor.
THEOREM StoredUsable == Spec => []StoredTokenUsable
  <1>1. IInv => StoredTokenUsable
    BY DEF IInv, OneSuccessor, StoredTokenUsable
  <1> QED BY <1>1, CredentialsInvariant, PTL

\* An agent runs with the login that was stored when its job was taken, or a later one.
THEOREM LoginReaches == Spec => []LoginReachesJobs
  <1>1. IInv => LoginReachesJobs
    BY DEF IInv, NoOlderLogin, LoginReachesJobs, At
  <1> QED BY <1>1, CredentialsInvariant, PTL

\* What reads both rows of GitLab joins no token with an older address, until two
\* PUT /settings cross.
THEOREM TokensGoWithUrls == Spec => []TokenGoesWithItsUrl
  <1>1. IInv => TokenGoesWithItsUrl
    BY DEF IInv
  <1> QED BY <1>1, CredentialsInvariant, PTL

\* Until then, a walk clones with no older token than its repository was connected
\* with.
THEOREM WalkTokensAreFresh == Spec => []WalkTokenIsFresh
  <1>1. IInv => WalkTokenIsFresh
    BY DEF IInv
  <1> QED BY <1>1, CredentialsInvariant, PTL
===============================================================================
