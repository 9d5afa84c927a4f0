----------------------------- MODULE MCCredentials -----------------------------
(* An instance of Credentials for TLC.                                        *)
EXTENDS Credentials, TLC

CONSTANTS w1, w2

Symmetry == Permutations(Workers)

Few == [e \in Events |-> CASE e = "login" -> 2 [] e = "put" -> 3 [] OTHER -> 1]

GitLabEvents == {"put", "putFails", "webCrash"}

\* The credentials of the agents and those of GitLab share no variable, and no
\* invariant speaks of both: one half moves at a time.
OneHalf ==
    \/ Unspent(GitLabEvents) /\ reader = Unread
    \/ Unspent(Events \ GitLabEvents) /\ \A w \in Workers : job[w] = NoJob
===============================================================================
