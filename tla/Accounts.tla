------------------------------ MODULE Accounts ------------------------------
(***************************************************************************)
(* Sign-up, login and B2B API keys, beside the refresh tokens.  A sign-up  *)
(* looks for the email, hashes the password and inserts the user, and only *)
(* the unique index of users.email stops a second one that did so at the   *)
(* same time.  A request with an API key looks the key up among the active *)
(* ones, verifies its hash, and updates last_used_at: the row may have     *)
(* been deactivated or deleted in the meantime.                            *)
(***************************************************************************)
EXTENDS RefreshTokens

CONSTANTS
    Emails,
    ApiKeys \* API keys, each with its row and its secret

ASSUME NoneIsNoAccountData == None \notin Emails \cup ApiKeys

VARIABLES
    users,    \* the email of each user, None for no row
    api_keys, \* the rows of api_keys_b2b_partners: owner and is_active, by key
    call,     \* the sign-up, key request or deletion each client runs
    late      \* history: requests let in by a key after it was deactivated or deleted

accounts == <<users, api_keys, call, late>>
accountsVars == <<vars, accounts>>

NoCall == [pc |-> "none", about |-> None]

NoKey == [state |-> "absent", owner |-> None]

Stored(k) == api_keys[k].state \in {"active", "inactive"}

AccountsTypeOK ==
    /\ TypeOK
    /\ users \in [Users -> Emails \cup {None}]
    /\ api_keys \in [ApiKeys -> [state : {"absent", "active", "inactive", "deleted"},
                                 owner : Users \cup {None}]]
    /\ \A k \in ApiKeys : Stored(k) => api_keys[k].owner \in {u \in Users : users[u] # None}
    /\ \A t \in Tokens : refresh_tokens[t] # None => users[refresh_tokens[t]] # None
    /\ call \in [Clients -> {NoCall} \cup [pc : {"signing up"}, about : Emails]
                              \cup [pc : {"verifying", "deleting"}, about : ApiKeys]]
    /\ \A c \in Clients : call[c] = NoCall \/ request[c] = Idle
    /\ late \in [ApiKeys -> Nat]

AccountsInit ==
    /\ Init
    /\ users = [u \in Users |-> None]
    /\ api_keys = [k \in ApiKeys |-> NoKey]
    /\ call = [c \in Clients |-> NoCall]
    /\ late = [k \in ApiKeys |-> 0]

Free(c) == request[c] = Idle /\ call[c] = NoCall

Registered(e) == {u \in Users : users[u] = e}

-----------------------------------------------------------------------------
(* Users.                                                                  *)

\* create_user looks for the email ...
SignUp(c, e) ==
    /\ Free(c)
    /\ Registered(e) = {}
    /\ call' = [call EXCEPT ![c] = [pc |-> "signing up", about |-> e]]
    /\ UNCHANGED <<vars, users, api_keys, late>>

\* Mutant: users.email has no unique index.
NotIndexed(e) == TRUE

\* The unique index of users.email.
Unique(e) == Registered(e) = {}

\* ... and inserts the user.
Register(c, u) ==
    /\ call[c].pc = "signing up"
    /\ users[u] = None
    /\ Unique(call[c].about)
    /\ users' = [users EXCEPT ![u] = call[c].about]
    /\ call' = [call EXCEPT ![c] = NoCall]
    /\ UNCHANGED <<vars, api_keys, late>>

\* authenticate_user finds the user by email; the password is right.
LoginByEmail(e, t) ==
    \E u \in Registered(e) :
      /\ Registered(e) = {u}
      /\ Login(u, t)
      /\ UNCHANGED accounts

-----------------------------------------------------------------------------
(* API keys.                                                               *)

CreateKey(u, k) ==
    /\ users[u] # None
    /\ api_keys[k] = NoKey
    /\ api_keys' = [api_keys EXCEPT ![k] = [state |-> "active", owner |-> u]]
    /\ UNCHANGED <<vars, users, call, late>>

\* Mutant: keys are found whether or not they are active.
FoundAnyway(k) == Stored(k)

\* The keys authenticate_api_key_b2b_partner verifies.
Found(k) == api_keys[k].state = "active"

LookUp(c, k) ==
    /\ Free(c)
    /\ Found(k)
    /\ call' = [call EXCEPT ![c] = [pc |-> "verifying", about |-> k]]
    /\ UNCHANGED <<vars, users, api_keys, late>>

\* Mutant: last_used_at is not written.
NothingToUpdate(k) == TRUE

\* An UPDATE that matches no row raises StaleDataError.
Updated(k) == Stored(k)

\* The secret is right, last_used_at is committed and the request is let in.
LetIn(c) ==
    LET k == call[c].about IN
    /\ call[c].pc = "verifying"
    /\ Updated(k)
    /\ late' = [late EXCEPT ![k] = IF api_keys[k].state = "active" THEN @ ELSE @ + 1]
    /\ call' = [call EXCEPT ![c] = NoCall]
    /\ UNCHANGED <<vars, users, api_keys>>

\* delete_api_key_b2b_partner finds the owner's key ...
FindKey(c, k) ==
    /\ Free(c)
    /\ Stored(k)
    /\ call' = [call EXCEPT ![c] = [pc |-> "deleting", about |-> k]]
    /\ UNCHANGED <<vars, users, api_keys, late>>

\* ... and deletes it, if another request has not.
DeleteKey(c) ==
    LET k == call[c].about IN
    /\ call[c].pc = "deleting"
    /\ api_keys' = [api_keys EXCEPT ![k].state = "deleted"]
    /\ late' = IF Stored(k) THEN [late EXCEPT ![k] = 0] ELSE late
    /\ call' = [call EXCEPT ![c] = NoCall]
    /\ UNCHANGED <<vars, users>>

\* The panel's form of an API key.
SwitchKey(k) ==
    /\ Stored(k)
    /\ api_keys' = [api_keys EXCEPT ![k].state = IF @ = "active" THEN "inactive" ELSE "active"]
    /\ late' = [late EXCEPT ![k] = 0]
    /\ UNCHANGED <<vars, users, call>>

\* A wrong secret, an integrity or stale data error, a request that dies.
Fail(c) ==
    /\ call[c] # NoCall
    /\ call' = [call EXCEPT ![c] = NoCall]
    /\ UNCHANGED <<vars, users, api_keys, late>>

-----------------------------------------------------------------------------
AccountCalls ==
    \/ \E c \in Clients :
         \/ \E e \in Emails : SignUp(c, e)
         \/ \E u \in Users : Register(c, u)
         \/ \E k \in ApiKeys : LookUp(c, k) \/ FindKey(c, k)
         \/ LetIn(c) \/ DeleteKey(c) \/ Fail(c)
    \/ \E k \in ApiKeys : SwitchKey(k) \/ \E u \in Users : CreateKey(u, k)

\* A request slot runs one request.
Exchanges ==
    /\ Refreshes
    /\ \A c \in Clients : request'[c] # Idle => call[c] = NoCall
    /\ UNCHANGED accounts

AccountsNext ==
    \/ AccountCalls
    \/ Exchanges
    \/ \E e \in Emails, t \in Tokens : LoginByEmail(e, t)

AccountsSpec == AccountsInit /\ [][AccountsNext]_accountsVars

-----------------------------------------------------------------------------
(* Properties.                                                             *)

\* Two sign-ups at the same time do not both take an email, which would shut
\* both users out: login and get_current_user find the one user of an email.
EmailsIdentify == \A u, v \in Users : users[u] # None /\ users[u] = users[v] => u = v

Verifying(k) == {c \in Clients : call[c].pc = "verifying" /\ call[c].about = k}

\* A deleted key lets nobody in, not even the requests that were verifying it: the
\* update of last_used_at stops them.  A deactivated key lets in those only.
KeysStopWorking ==
    \A k \in ApiKeys :
      CASE api_keys[k].state = "deleted" -> late[k] = 0
        [] api_keys[k].state = "inactive" ->
             late[k] + Cardinality(Verifying(k)) <= Cardinality(Clients)
        [] OTHER -> TRUE
=============================================================================
