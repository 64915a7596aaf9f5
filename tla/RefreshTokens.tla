---------------------------- MODULE RefreshTokens ----------------------------
(***************************************************************************)
(* Refresh tokens: issued by a login, exchanged for a new one by a         *)
(* refresh.  A refresh reads the token row without a lock, deletes it and  *)
(* commits, and then inserts the new token and commits again.  The DELETE  *)
(* of a row that another request has deleted in the meantime deletes       *)
(* nothing, and SQLAlchemy only warns.                                     *)
(***************************************************************************)
EXTENDS Naturals, FiniteSets

CONSTANTS
    Tokens,      \* token strings (secrets.token_urlsafe)
    Users,
    Clients,     \* requests that run at the same time
    MaxFailures, \* bound on requests that die
    None

ASSUME FiniteTokens == IsFiniteSet(Tokens) /\ IsFiniteSet(Clients)
ASSUME FailuresAreBounded == MaxFailures \in Nat
ASSUME NoneIsNothing == None \notin Tokens \cup Users

VARIABLES
    refresh_tokens, \* the user of each stored token, None for no row
    overdue,        \* the tokens whose expires_at has passed
    request,        \* the request each client runs
    origin,         \* history: the token a token was exchanged for, if any
    logins,         \* history: the tokens issued by a login
    failures        \* number of failures so far

vars == <<refresh_tokens, overdue, request, origin, logins, failures>>

Idle == [pc |-> "idle", token |-> None, user |-> None]

TypeOK ==
    /\ refresh_tokens \in [Tokens -> Users \cup {None}]
    /\ overdue \in SUBSET Tokens
    /\ request \in [Clients -> [pc : {"idle", "deleting", "issuing"},
                                token : Tokens \cup {None}, user : Users \cup {None}]]
    /\ \A c \in Clients : request[c].pc # "idle" =>
         request[c].token \in Tokens /\ request[c].user \in Users
    /\ origin \in [Tokens -> Tokens \cup {None}]
    /\ logins \in SUBSET Tokens
    /\ failures \in 0 .. MaxFailures

Init ==
    /\ refresh_tokens = [t \in Tokens |-> None]
    /\ overdue = {}
    /\ request = [c \in Clients |-> Idle]
    /\ origin = [t \in Tokens |-> None]
    /\ logins = {}
    /\ failures = 0

\* Random strings are not issued twice.
Issued == logins \cup {t \in Tokens : origin[t] # None}

\* create_refresh_token for a login whose password was right.
Login(u, t) ==
    /\ t \notin Issued
    /\ refresh_tokens' = [refresh_tokens EXCEPT ![t] = u]
    /\ logins' = logins \cup {t}
    /\ UNCHANGED <<overdue, request, origin, failures>>

\* Mutant: the row need not exist.
NotOverdue(t) == t \notin overdue

\* refresh_access_token: the row exists and has not expired.
Valid(t) == refresh_tokens[t] # None /\ t \notin overdue

Read(c, t) ==
    /\ request[c].pc = "idle"
    /\ Valid(t)
    /\ request' = [request EXCEPT ![c] =
                     [pc |-> "deleting", token |-> t, user |-> refresh_tokens[t]]]
    /\ UNCHANGED <<refresh_tokens, overdue, origin, logins, failures>>

\* Mutant: the old token is kept.
KeepToken(c) ==
    /\ request[c].pc = "deleting"
    /\ request' = [request EXCEPT ![c].pc = "issuing"]
    /\ UNCHANGED <<refresh_tokens, overdue, origin, logins, failures>>

\* DELETE and COMMIT, whether or not the row is still there.
Delete(c) ==
    /\ request[c].pc = "deleting"
    /\ refresh_tokens' = [refresh_tokens EXCEPT ![request[c].token] = None]
    /\ request' = [request EXCEPT ![c].pc = "issuing"]
    /\ UNCHANGED <<overdue, origin, logins, failures>>

\* Mutant: the second half of a request is run again.
IssueAgain(c, t) ==
    /\ request[c].pc = "issuing"
    /\ t \notin Issued
    /\ refresh_tokens' = [refresh_tokens EXCEPT ![t] = request[c].user]
    /\ origin' = [origin EXCEPT ![t] = request[c].token]
    /\ UNCHANGED <<overdue, request, logins, failures>>

Issue(c, t) ==
    /\ request[c].pc = "issuing"
    /\ t \notin Issued
    /\ refresh_tokens' = [refresh_tokens EXCEPT ![t] = request[c].user]
    /\ origin' = [origin EXCEPT ![t] = request[c].token]
    /\ request' = [request EXCEPT ![c] = Idle]
    /\ UNCHANGED <<overdue, logins, failures>>

\* refresh_token_expire_days after the token was issued.
Expire(t) ==
    /\ t \in Issued \ overdue
    /\ overdue' = overdue \cup {t}
    /\ UNCHANGED <<refresh_tokens, request, origin, logins, failures>>

Die(c) ==
    /\ failures < MaxFailures
    /\ failures' = failures + 1
    /\ request[c].pc # "idle"
    /\ request' = [request EXCEPT ![c] = Idle]
    /\ UNCHANGED <<refresh_tokens, overdue, origin, logins>>

Refreshes ==
    \/ \E t \in Tokens : Expire(t) \/ \E c \in Clients : Read(c, t) \/ Issue(c, t)
    \/ \E c \in Clients : Delete(c) \/ Die(c)

Next == Refreshes \/ \E u \in Users, t \in Tokens : Login(u, t)

Spec == Init /\ [][Next]_vars

-----------------------------------------------------------------------------
(* Properties.                                                             *)

Successors(t) == {s \in Tokens : origin[s] = t}

Exchanging(t) == {c \in Clients : request[c].token = t}

\* A token that was exchanged is gone, although the exchange is not atomic.
ExchangedIsGone ==
    \A t \in Tokens : Successors(t) # {} => refresh_tokens[t] = None

\* A token is exchanged at most as often as requests ran at the same time.
ExchangesAreConcurrent ==
    \A t \in Tokens :
      Cardinality(Successors(t)) + Cardinality(Exchanging(t)) <= Cardinality(Clients)
=============================================================================
