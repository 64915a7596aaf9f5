---------------------------- MODULE AccountsProofs ----------------------------
(***************************************************************************)
(* Refresh tokens, and the accounts around them, for any number of tokens, *)
(* users, emails, keys and requests.  The first half is about the tokens   *)
(* alone; that the accounts' behaviours are behaviours of the tokens       *)
(* carries it over.                                                        *)
(***************************************************************************)
EXTENDS Accounts, FiniteSetTheorems, TLAPS

\* Only issued tokens are stored, exchanged, or in a request's hands, ...
OnlyIssued ==
    /\ \A t \in Tokens : refresh_tokens[t] # None => t \in Issued
    /\ \A t \in Tokens : origin[t] # None => origin[t] \in Issued
    /\ \A c \in Clients : request[c].pc # "idle" => request[c].token \in Issued

\* ... an idle request has none, and one that has committed its DELETE finds the
\* row gone for good, because a string is not issued twice.
DeletedStaysDeleted ==
    \A c \in Clients :
      /\ request[c].pc = "idle" => request[c] = Idle
      /\ request[c].pc = "issuing" => refresh_tokens[request[c].token] = None

IInv ==
    /\ TypeOK
    /\ OnlyIssued
    /\ DeletedStaysDeleted
    /\ ExchangedIsGone
    /\ ExchangesAreConcurrent

-----------------------------------------------------------------------------
(* The sets that the bound counts.                                         *)

LEMMA CountedSetsAreFinite ==
  /\ Cardinality(Clients) \in Nat
  /\ \A t \in Tokens :
       /\ IsFiniteSet(Successors(t)) /\ Cardinality(Successors(t)) \in Nat
       /\ IsFiniteSet(Exchanging(t)) /\ Cardinality(Exchanging(t)) \in Nat
<1>1. Cardinality(Clients) \in Nat
  BY FiniteTokens, FS_CardinalityType
<1>2. ASSUME NEW t \in Tokens
      PROVE  /\ IsFiniteSet(Successors(t)) /\ Cardinality(Successors(t)) \in Nat
             /\ IsFiniteSet(Exchanging(t)) /\ Cardinality(Exchanging(t)) \in Nat
  <2>1. Successors(t) \in SUBSET Tokens /\ Exchanging(t) \in SUBSET Clients
    BY DEF Successors, Exchanging
  <2>2. IsFiniteSet(Successors(t)) /\ IsFiniteSet(Exchanging(t))
    BY <2>1, FiniteTokens, FS_Subset
  <2>3. QED
    BY <2>2, FS_CardinalityType
<1>3. QED
  BY <1>1, <1>2

\* Requests alone never exceed the bound.
LEMMA ExchangingIsBounded ==
  ASSUME NEW t \in Tokens
  PROVE  /\ Cardinality(Exchanging(t)) <= Cardinality(Clients)
         /\ Cardinality(Exchanging(t)') \in Nat
         /\ Cardinality(Exchanging(t)') <= Cardinality(Clients)
<1>1. Exchanging(t) \in SUBSET Clients /\ Exchanging(t)' \in SUBSET Clients
  BY DEF Exchanging
<1>2. QED
  BY <1>1, FiniteTokens, FS_Subset, FS_CardinalityType

\* A step that adds to neither set keeps the bound.
LEMMA BoundShrinks ==
  ASSUME ExchangesAreConcurrent, origin' = origin,
         \A t \in Tokens : Exchanging(t)' \subseteq Exchanging(t)
  PROVE  ExchangesAreConcurrent'
<1> SUFFICES ASSUME NEW t \in Tokens
             PROVE  Cardinality(Successors(t)') + Cardinality(Exchanging(t)')
                      <= Cardinality(Clients)
  BY DEF ExchangesAreConcurrent
<1>1. Successors(t)' = Successors(t)
  BY DEF Successors
<1>2. IsFiniteSet(Exchanging(t)) /\ Exchanging(t)' \in SUBSET Exchanging(t)
  BY CountedSetsAreFinite
<1>3. /\ Cardinality(Exchanging(t)') \in Nat
      /\ Cardinality(Exchanging(t)') <= Cardinality(Exchanging(t))
  BY <1>2, FS_Subset, FS_CardinalityType
<1>4. QED
  BY <1>1, <1>3, CountedSetsAreFinite DEF ExchangesAreConcurrent

-----------------------------------------------------------------------------
(* The steps of the tokens.                                                *)

LEMMA InitInv == Init => IInv
<1> SUFFICES ASSUME Init PROVE IInv
  OBVIOUS
<1>1. TypeOK
  BY FailuresAreBounded DEF Init, TypeOK, Idle
<1>2. OnlyIssued /\ DeletedStaysDeleted
  BY DEF Init, OnlyIssued, DeletedStaysDeleted, Idle
<1>3. \A t \in Tokens : Successors(t) = {} /\ Exchanging(t) = {}
  BY NoneIsNothing DEF Init, Successors, Exchanging, Idle
<1>4. ExchangedIsGone /\ ExchangesAreConcurrent
  BY <1>3, FS_EmptySet, CountedSetsAreFinite DEF ExchangedIsGone, ExchangesAreConcurrent
<1>5. QED
  BY <1>1, <1>2, <1>4 DEF IInv

LEMMA LoginInv ==
  ASSUME IInv, NEW u \in Users, NEW t \in Tokens, Login(u, t)
  PROVE  IInv'
<1>1. TypeOK'
  BY DEF IInv, TypeOK, Login
<1>2. Issued' = Issued \cup {t}
  BY DEF Issued, Login
<1>3. OnlyIssued'
  BY <1>2 DEF IInv, TypeOK, OnlyIssued, Login
<1>4. DeletedStaysDeleted'
  BY DEF IInv, TypeOK, OnlyIssued, DeletedStaysDeleted, Login
<1>5. Successors(t) = {}
  BY NoneIsNothing DEF IInv, OnlyIssued, Successors, Login
<1>6. ExchangedIsGone'
  BY <1>5 DEF IInv, TypeOK, ExchangedIsGone, Successors, Login
<1>7. ExchangesAreConcurrent'
  BY BoundShrinks DEF IInv, Exchanging, Login
<1>8. QED
  BY <1>1, <1>3, <1>4, <1>6, <1>7 DEF IInv

\* A token that can be read has not been exchanged: its readers alone count.
LEMMA ReadInv ==
  ASSUME IInv, NEW c \in Clients, NEW t \in Tokens, Read(c, t)
  PROVE  IInv'
<1>1. /\ refresh_tokens[t] \in Users
      /\ request' = [request EXCEPT ![c] =
                       [pc |-> "deleting", token |-> t, user |-> refresh_tokens[t]]]
      /\ request[c].pc = "idle"
      /\ UNCHANGED <<refresh_tokens, overdue, origin, logins, failures>>
  BY DEF IInv, TypeOK, Read, Valid
<1>2. TypeOK'
  BY <1>1 DEF IInv, TypeOK
<1>3. OnlyIssued' /\ DeletedStaysDeleted'
  BY <1>1, NoneIsNothing DEF IInv, TypeOK, OnlyIssued, DeletedStaysDeleted, Issued
<1>4. ExchangedIsGone'
  BY <1>1 DEF IInv, ExchangedIsGone, Successors
<1>5. ASSUME NEW s \in Tokens
      PROVE  Cardinality(Successors(s)') + Cardinality(Exchanging(s)') <= Cardinality(Clients)
  <2>1. Successors(s)' = Successors(s)
    BY <1>1 DEF Successors
  <2>2. CASE s = t
    <3>1. Successors(s) = {}
      BY <1>1, <2>2, NoneIsNothing DEF IInv, ExchangedIsGone
    <3>2. QED
      BY <2>1, <3>1, FS_EmptySet, ExchangingIsBounded
  <2>3. CASE s # t
    <3>1. Exchanging(s)' = Exchanging(s)
      BY <1>1, <2>3, NoneIsNothing
         DEF IInv, TypeOK, DeletedStaysDeleted, Exchanging, Idle
    <3>2. QED
      BY <2>1, <3>1 DEF IInv, ExchangesAreConcurrent
  <2>4. QED
    BY <2>2, <2>3
<1>6. QED
  BY <1>2, <1>3, <1>4, <1>5 DEF IInv, ExchangesAreConcurrent

LEMMA DeleteInv ==
  ASSUME IInv, NEW c \in Clients, Delete(c)
  PROVE  IInv'
<1>1. TypeOK'
  BY DEF IInv, TypeOK, Delete
<1>2. \A d \in Clients : request'[d].token = request[d].token
  BY DEF IInv, TypeOK, Delete
<1>3. OnlyIssued'
  BY DEF IInv, TypeOK, OnlyIssued, Issued, Delete
<1>4. DeletedStaysDeleted'
  BY DEF IInv, TypeOK, DeletedStaysDeleted, Delete
<1>5. ExchangedIsGone'
  BY DEF IInv, TypeOK, ExchangedIsGone, Successors, Delete
<1>6. ExchangesAreConcurrent'
  BY <1>2, BoundShrinks DEF IInv, Exchanging, Delete
<1>7. QED
  BY <1>1, <1>3, <1>4, <1>5, <1>6 DEF IInv

\* An exchange moves one unit from the requests to the successors.
LEMMA IssueInv ==
  ASSUME IInv, NEW c \in Clients, NEW t \in Tokens, Issue(c, t)
  PROVE  IInv'
<1> DEFINE old == request[c].token
<1>1. /\ old \in Tokens /\ old \in Issued /\ t # old
      /\ request[c].user \in Users
      /\ refresh_tokens[old] = None
      /\ refresh_tokens' = [refresh_tokens EXCEPT ![t] = request[c].user]
      /\ origin' = [origin EXCEPT ![t] = old]
      /\ request' = [request EXCEPT ![c] = Idle]
      /\ t \notin Issued
      /\ UNCHANGED <<overdue, logins, failures>>
  BY DEF IInv, TypeOK, OnlyIssued, DeletedStaysDeleted, Issue
<1> HIDE DEF old
<1>2. TypeOK'
  BY <1>1 DEF IInv, TypeOK, Idle
<1>3. Issued' = Issued \cup {t} /\ origin[t] = None
  BY <1>1, NoneIsNothing DEF IInv, TypeOK, Issued
<1>4. OnlyIssued'
  BY <1>1, <1>3 DEF IInv, TypeOK, OnlyIssued, Idle
<1>5. DeletedStaysDeleted'
  BY <1>1 DEF IInv, TypeOK, OnlyIssued, DeletedStaysDeleted, Idle
<1>6. \A s \in Tokens : Successors(s)' = IF s = old THEN Successors(s) \cup {t} ELSE Successors(s)
  BY <1>1, <1>3, NoneIsNothing DEF IInv, TypeOK, Successors
<1>7. Successors(t) = {} /\ t \notin Successors(old)
  BY <1>1, <1>3, NoneIsNothing DEF IInv, OnlyIssued, Successors
<1>8. ExchangedIsGone'
  BY <1>1, <1>6, <1>7 DEF IInv, TypeOK, ExchangedIsGone
<1>9. ASSUME NEW s \in Tokens
      PROVE  Cardinality(Successors(s)') + Cardinality(Exchanging(s)') <= Cardinality(Clients)
  <2>1. Exchanging(s)' = Exchanging(s) \ {c}
    BY <1>1, NoneIsNothing DEF IInv, TypeOK, Exchanging, Idle
  <2>2. CASE s = old
    <3>1. Cardinality(Successors(s)') = Cardinality(Successors(s)) + 1
      <4>1. Successors(s)' = Successors(s) \cup {t} /\ t \notin Successors(s)
        BY <1>6, <1>7, <2>2
      <4>2. IsFiniteSet(Successors(s))
        BY CountedSetsAreFinite
      <4>3. QED
        BY <4>1, <4>2, FS_AddElement
    <3>2. c \in Exchanging(s)
      BY <2>2 DEF Exchanging, old
    <3>3. Cardinality(Exchanging(s)') = Cardinality(Exchanging(s)) - 1
      BY <2>1, <3>2, CountedSetsAreFinite, FS_RemoveElement
    <3>4. QED
      BY <3>1, <3>3, CountedSetsAreFinite DEF IInv, ExchangesAreConcurrent
  <2>3. CASE s # old
    <3>1. Exchanging(s)' = Exchanging(s)
      BY <2>1, <2>3 DEF Exchanging, old
    <3>2. Successors(s)' = Successors(s)
      BY <1>6, <2>3
    <3>3. QED
      BY <3>1, <3>2 DEF IInv, ExchangesAreConcurrent
  <2>4. QED
    BY <2>2, <2>3
<1>10. QED
  BY <1>2, <1>4, <1>5, <1>8, <1>9 DEF IInv, ExchangesAreConcurrent

LEMMA ExpireInv ==
  ASSUME IInv, NEW t \in Tokens, Expire(t)
  PROVE  IInv'
<1>1. ExchangesAreConcurrent'
  BY BoundShrinks DEF IInv, Exchanging, Expire
<1>2. QED
  BY <1>1 DEF IInv, TypeOK, OnlyIssued, Issued, DeletedStaysDeleted, ExchangedIsGone, Successors,
              Expire

LEMMA DieInv ==
  ASSUME IInv, NEW c \in Clients, Die(c)
  PROVE  IInv'
<1>1. TypeOK'
  BY FailuresAreBounded DEF IInv, TypeOK, Die, Idle
<1>2. OnlyIssued' /\ DeletedStaysDeleted'
  BY DEF IInv, TypeOK, OnlyIssued, Issued, DeletedStaysDeleted, Die, Idle
<1>3. ExchangedIsGone'
  BY DEF IInv, ExchangedIsGone, Successors, Die
<1>4. ExchangesAreConcurrent'
  BY BoundShrinks, NoneIsNothing DEF IInv, TypeOK, Exchanging, Die, Idle
<1>5. QED
  BY <1>1, <1>2, <1>3, <1>4 DEF IInv

LEMMA NextInv ==
  ASSUME IInv, [Next]_vars
  PROVE  IInv'
<1>1. CASE \E u \in Users, t \in Tokens : Login(u, t)
  BY <1>1, LoginInv
<1>2. CASE \E c \in Clients, t \in Tokens : Read(c, t)
  BY <1>2, ReadInv
<1>3. CASE \E c \in Clients : Delete(c)
  BY <1>3, DeleteInv
<1>4. CASE \E c \in Clients, t \in Tokens : Issue(c, t)
  BY <1>4, IssueInv
<1>5. CASE \E t \in Tokens : Expire(t)
  BY <1>5, ExpireInv
<1>6. CASE \E c \in Clients : Die(c)
  BY <1>6, DieInv
<1>7. CASE UNCHANGED vars
  <2>1. ExchangesAreConcurrent'
    BY <1>7, BoundShrinks DEF vars, IInv, Exchanging
  <2>2. QED
    BY <1>7, <2>1 DEF vars, IInv, TypeOK, OnlyIssued, Issued, DeletedStaysDeleted,
                      ExchangedIsGone, Successors
<1>8. QED
  BY <1>1, <1>2, <1>3, <1>4, <1>5, <1>6, <1>7 DEF Next, Refreshes

LEMMA Invariance == Spec => []IInv
BY InitInv, NextInv, PTL DEF Spec

-----------------------------------------------------------------------------
(* The accounts.                                                           *)

\* What the rows and the running requests know of each other, beside the types.
NewKeysAreUnused == \A k \in ApiKeys : api_keys[k].state = "absent" => late[k] = 0

RequestsHaveUsers == \A c \in Clients : request[c].pc # "idle" => users[request[c].user] # None

AccountsInv ==
    /\ IInv
    /\ AccountsTypeOK
    /\ RequestsHaveUsers
    /\ NewKeysAreUnused
    /\ EmailsIdentify
    /\ KeysStopWorking

\* What KeysStopWorking says of one key.
Stopped(k) ==
    /\ api_keys[k].state = "deleted" => late[k] = 0
    /\ api_keys[k].state = "inactive" =>
         late[k] + Cardinality(Verifying(k)) <= Cardinality(Clients)

LEMMA StoppedKeys ==
  /\ KeysStopWorking <=> \A k \in ApiKeys : Stopped(k)
  /\ KeysStopWorking' <=> \A k \in ApiKeys : Stopped(k)'
BY DEF KeysStopWorking, Stopped

LEMMA VerifyingIsFinite ==
  /\ Cardinality(Clients) \in Nat
  /\ \A k \in ApiKeys :
       /\ IsFiniteSet(Verifying(k))
       /\ Cardinality(Verifying(k)) \in Nat
       /\ Cardinality(Verifying(k)) <= Cardinality(Clients)
       /\ Cardinality(Verifying(k)') \in Nat
       /\ Cardinality(Verifying(k)') <= Cardinality(Clients)
<1>1. \A k \in ApiKeys : Verifying(k) \in SUBSET Clients /\ Verifying(k)' \in SUBSET Clients
  BY DEF Verifying
<1>2. QED
  BY <1>1, FiniteTokens, FS_Subset, FS_CardinalityType

\* What a running call is about.
LEMMA CallSubject ==
  ASSUME AccountsTypeOK, NEW c \in Clients
  PROVE  /\ call[c] # NoCall => call[c].pc \in {"signing up", "verifying", "deleting"}
         /\ call[c].pc = "signing up" => call[c].about \in Emails
         /\ call[c].pc \in {"verifying", "deleting"} => call[c].about \in ApiKeys
<1>1. call[c] \in {NoCall} \cup [pc : {"signing up"}, about : Emails]
                        \cup [pc : {"verifying", "deleting"}, about : ApiKeys]
  BY DEF AccountsTypeOK
<1>2. CASE call[c] = NoCall
  BY <1>2 DEF NoCall
<1>3. CASE call[c] \in [pc : {"signing up"}, about : Emails]
  BY <1>3
<1>4. CASE call[c] \in [pc : {"verifying", "deleting"}, about : ApiKeys]
  BY <1>4
<1>5. QED
  BY <1>1, <1>2, <1>3, <1>4

\* A key stays stopped while its row is left alone and nobody starts to verify it.
LEMMA StoppedHolds ==
  ASSUME NEW k \in ApiKeys, Stopped(k), late[k] \in Nat,
         api_keys'[k] = api_keys[k], late'[k] = late[k], Verifying(k)' \subseteq Verifying(k)
  PROVE  Stopped(k)'
<1>1. IsFiniteSet(Verifying(k)) /\ Verifying(k)' \in SUBSET Verifying(k)
  BY VerifyingIsFinite
<1>2. Cardinality(Verifying(k)') \in Nat /\ Cardinality(Verifying(k)') <= Cardinality(Verifying(k))
  BY <1>1, FS_Subset, FS_CardinalityType
<1>3. QED
  BY <1>2, VerifyingIsFinite DEF Stopped

\* A call ends.
LEMMA EndOfCall ==
  ASSUME AccountsTypeOK, NEW c \in Clients, call' = [call EXCEPT ![c] = NoCall], NEW k \in ApiKeys
  PROVE  Verifying(k)' = Verifying(k) \ {c}
BY DEF AccountsTypeOK, Verifying, NoCall

\* Every behaviour of the accounts is one of the tokens: a request for an account
\* leaves them alone, a login issues one, and refreshes are what they were.
LEMMA StepIsStep == [AccountsNext]_accountsVars => [Next]_vars
BY DEF AccountsNext, accountsVars, AccountCalls, SignUp, Register, CreateKey, LookUp, FindKey,
       LetIn, DeleteKey, SwitchKey, Fail, Exchanges, LoginByEmail, Registered, Next, vars

LEMMA InitAccounts == AccountsInit => AccountsInv
<1> SUFFICES ASSUME AccountsInit PROVE AccountsInv
  OBVIOUS
<1>1. IInv
  BY InitInv DEF AccountsInit
<1>2. AccountsTypeOK
  BY <1>1 DEF IInv, AccountsInit, Init, AccountsTypeOK, NoKey, NoCall, Stored
<1>3. RequestsHaveUsers /\ NewKeysAreUnused /\ EmailsIdentify
  BY DEF AccountsInit, Init, RequestsHaveUsers, NewKeysAreUnused, EmailsIdentify, Idle
<1>4. \A k \in ApiKeys : Stopped(k)
  BY DEF AccountsInit, Stopped, NoKey
<1>5. QED
  BY <1>1, <1>2, <1>3, <1>4, StoppedKeys DEF AccountsInv

\* A request that starts: only the verification of an active key counts.
LEMMA StartInv ==
  ASSUME AccountsInv, IInv', NEW c \in Clients, NEW started, call' = [call EXCEPT ![c] = started],
         Free(c),
         \/ started \in [pc : {"signing up"}, about : Emails]
         \/ started \in [pc : {"deleting"}, about : ApiKeys]
         \/ started \in [pc : {"verifying"}, about : ApiKeys] /\ Found(started.about),
         UNCHANGED <<vars, users, api_keys, late>>
  PROVE  AccountsInv'
<1>1. AccountsTypeOK'
  BY DEF AccountsInv, IInv, AccountsTypeOK, vars, Stored, Free
<1>2. RequestsHaveUsers' /\ NewKeysAreUnused' /\ EmailsIdentify'
  BY DEF AccountsInv, RequestsHaveUsers, NewKeysAreUnused, EmailsIdentify, vars
<1>3. ASSUME NEW k \in ApiKeys PROVE Stopped(k)'
  <2>1. CASE started.pc = "verifying" /\ started.about = k
    BY <2>1 DEF Found, Stopped
  <2>2. CASE ~ (started.pc = "verifying" /\ started.about = k)
    <3>1. Verifying(k)' \subseteq Verifying(k)
      BY <2>2 DEF AccountsInv, AccountsTypeOK, Verifying
    <3>2. QED
      BY <3>1, StoppedHolds, StoppedKeys DEF AccountsInv, AccountsTypeOK
  <2>3. QED
    BY <2>1, <2>2
<1>4. QED
  BY <1>1, <1>2, <1>3, StoppedKeys DEF AccountsInv

\* A sign-up or a request that ends without touching the keys.
LEMMA RegisterInv ==
  ASSUME AccountsInv, IInv', NEW c \in Clients, NEW u \in Users, Register(c, u)
  PROVE  AccountsInv'
<1>1. /\ call[c].about \in Emails
      /\ call[c].about # None
  BY CallSubject, NoneIsNoAccountData DEF AccountsInv, Register
<1>2. AccountsTypeOK'
  <2>1. users' \in [Users -> Emails \cup {None}]
    BY <1>1 DEF AccountsInv, AccountsTypeOK, Register
  <2>2. \A v : v \in Users /\ users[v] # None => users'[v] # None
    BY <1>1 DEF AccountsInv, AccountsTypeOK, Register
  <2>3. /\ \A k \in ApiKeys : Stored(k) => api_keys[k].owner \in Users
        /\ \A t \in Tokens : refresh_tokens[t] # None => refresh_tokens[t] \in Users
    BY DEF AccountsInv, AccountsTypeOK, IInv, TypeOK
  <2>4. QED
    BY <2>1, <2>2, <2>3 DEF AccountsInv, IInv, AccountsTypeOK, vars, Stored, Register
<1>3. RequestsHaveUsers' /\ NewKeysAreUnused'
  BY <1>1 DEF AccountsInv, IInv, TypeOK, AccountsTypeOK, RequestsHaveUsers, NewKeysAreUnused, vars,
              Register
<1>4. EmailsIdentify'
  BY <1>1 DEF AccountsInv, AccountsTypeOK, EmailsIdentify, Register, Unique, Registered
<1>5. \A k \in ApiKeys : Stopped(k)'
  BY EndOfCall, StoppedHolds, StoppedKeys DEF AccountsInv, AccountsTypeOK, Register
<1>6. QED
  BY <1>2, <1>3, <1>4, <1>5, StoppedKeys DEF AccountsInv

LEMMA FailInv ==
  ASSUME AccountsInv, IInv', NEW c \in Clients, Fail(c)
  PROVE  AccountsInv'
<1>1. AccountsTypeOK'
  BY DEF AccountsInv, IInv, AccountsTypeOK, vars, Stored, Fail
<1>2. RequestsHaveUsers' /\ NewKeysAreUnused' /\ EmailsIdentify'
  BY DEF AccountsInv, RequestsHaveUsers, NewKeysAreUnused, EmailsIdentify, vars, Fail
<1>3. \A k \in ApiKeys : Stopped(k)'
  BY EndOfCall, StoppedHolds, StoppedKeys DEF AccountsInv, AccountsTypeOK, Fail
<1>4. QED
  BY <1>1, <1>2, <1>3, StoppedKeys DEF AccountsInv

\* A request that an inactive key lets in is one of those that were verifying it.
LEMMA LetInInv ==
  ASSUME AccountsInv, IInv', NEW c \in Clients, LetIn(c)
  PROVE  AccountsInv'
<1>0. PICK k \in ApiKeys : k = call[c].about
  BY CallSubject DEF AccountsInv, LetIn
<1>1. /\ call[c].pc = "verifying"
      /\ Stopped(k)
      /\ late' = [late EXCEPT ![k] = IF api_keys[k].state = "active" THEN @ ELSE @ + 1]
      /\ call' = [call EXCEPT ![c] = NoCall]
      /\ Stored(k)
      /\ UNCHANGED <<vars, users, api_keys>>
  BY <1>0, StoppedKeys DEF AccountsInv, LetIn, Updated
<1>2. AccountsTypeOK'
  <2>1. late' \in [ApiKeys -> Nat]
    <3>1. late \in [ApiKeys -> Nat]
      BY DEF AccountsInv, AccountsTypeOK
    <3>2. QED
      BY <1>1, <3>1
  <2>2. call' \in [Clients -> {NoCall} \cup [pc : {"signing up"}, about : Emails]
                              \cup [pc : {"verifying", "deleting"}, about : ApiKeys]]
    BY <1>1 DEF AccountsInv, AccountsTypeOK
  <2>3. \A d \in Clients : call'[d] = NoCall \/ request'[d] = Idle
    BY <1>1 DEF AccountsInv, AccountsTypeOK, vars
  <2>4. QED
    BY <1>1, <2>1, <2>2, <2>3 DEF AccountsInv, IInv, AccountsTypeOK, vars, Stored
<1>3. RequestsHaveUsers' /\ EmailsIdentify'
  BY <1>1 DEF AccountsInv, RequestsHaveUsers, EmailsIdentify, vars
<1>4. NewKeysAreUnused'
  BY <1>1 DEF AccountsInv, AccountsTypeOK, NewKeysAreUnused, Stored
<1>5. \A j \in ApiKeys : Verifying(j)' = Verifying(j) \ {c}
  BY <1>1, EndOfCall DEF AccountsInv
<1>6. ASSUME NEW j \in ApiKeys PROVE Stopped(j)'
  <2>1. CASE j = k /\ api_keys[k].state = "inactive"
    <3>1. c \in Verifying(k)
      BY <1>0, <1>1 DEF Verifying
    <3>2. Cardinality(Verifying(k)') = Cardinality(Verifying(k)) - 1
      <4>1. IsFiniteSet(Verifying(k)) /\ Verifying(k)' = Verifying(k) \ {c}
        BY <1>1, <1>5, VerifyingIsFinite
      <4>2. QED
        BY <3>1, <4>1, FS_RemoveElement
    <3>3. late'[k] = late[k] + 1 /\ late[k] \in Nat
      BY <1>1, <2>1 DEF AccountsInv, AccountsTypeOK
    <3>4. late[k] + Cardinality(Verifying(k)) <= Cardinality(Clients)
      BY <1>1, <2>1, StoppedKeys DEF AccountsInv, Stopped
    <3>5. Cardinality(Verifying(k)) \in Nat /\ Cardinality(Clients) \in Nat
      BY <1>1, VerifyingIsFinite
    <3>6. late'[k] + Cardinality(Verifying(k)') <= Cardinality(Clients)
      BY <3>2, <3>3, <3>4, <3>5
    <3>7. api_keys'[k].state = "inactive"
      BY <1>1, <2>1
    <3>8. QED
      BY <2>1, <3>6, <3>7 DEF Stopped
  <2>2. CASE j # k \/ api_keys[k].state = "active"
    <3>1. late'[j] = late[j]
      BY <1>1, <2>2 DEF AccountsInv, AccountsTypeOK
    <3>2. QED
      BY <1>1, <1>5, <3>1, StoppedHolds, StoppedKeys DEF AccountsInv, AccountsTypeOK
  <2>3. QED
    BY <1>1, <2>1, <2>2 DEF Stored
<1>7. QED
  BY <1>2, <1>3, <1>4, <1>6, StoppedKeys DEF AccountsInv

\* Every write of a key's row starts its count of late requests at zero.
LEMMA KeyWritten ==
  ASSUME AccountsInv, IInv', NEW k \in ApiKeys,
         NEW row \in [state : {"active", "inactive", "deleted"}, owner : Users \cup {None}],
         row.state # "deleted" => row.owner \in {u \in Users : users[u] # None},
         api_keys' = [api_keys EXCEPT ![k] = row],
         late' = [late EXCEPT ![k] = 0],
         call' = call \/ \E c \in Clients : call' = [call EXCEPT ![c] = NoCall],
         UNCHANGED <<vars, users>>
  PROVE  AccountsInv'
<1>1. AccountsTypeOK'
  BY DEF AccountsInv, IInv, AccountsTypeOK, vars, Stored
<1>2. RequestsHaveUsers' /\ NewKeysAreUnused' /\ EmailsIdentify'
  BY DEF AccountsInv, AccountsTypeOK, RequestsHaveUsers, NewKeysAreUnused, EmailsIdentify, vars
<1>3. ASSUME NEW j \in ApiKeys PROVE Stopped(j)'
  <2>1. CASE j = k
    <3>1. late'[k] = 0
      BY DEF AccountsInv, AccountsTypeOK
    <3>2. QED
      BY <2>1, <3>1, VerifyingIsFinite DEF Stopped
  <2>2. CASE j # k
    <3>1. Verifying(j)' \subseteq Verifying(j)
      BY EndOfCall DEF AccountsInv, Verifying
    <3>2. QED
      BY <2>2, <3>1, StoppedHolds, StoppedKeys DEF AccountsInv, AccountsTypeOK
  <2>3. QED
    BY <2>1, <2>2
<1>4. QED
  BY <1>1, <1>2, <1>3, StoppedKeys DEF AccountsInv

LEMMA CreateKeyInv ==
  ASSUME AccountsInv, IInv', NEW u \in Users, NEW k \in ApiKeys, CreateKey(u, k)
  PROVE  AccountsInv'
<1>1. late[k] = 0
  BY DEF AccountsInv, NewKeysAreUnused, NoKey, CreateKey
<1>2. late' = [late EXCEPT ![k] = 0]
  <2>1. late \in [ApiKeys -> Nat] /\ late' = late
    BY DEF AccountsInv, AccountsTypeOK, CreateKey
  <2>2. QED
    BY <1>1, <2>1
<1>3. QED
  BY <1>2, KeyWritten DEF CreateKey

LEMMA SwitchKeyInv ==
  ASSUME AccountsInv, IInv', NEW k \in ApiKeys, SwitchKey(k)
  PROVE  AccountsInv'
<1> DEFINE row == [api_keys[k] EXCEPT !.state = IF @ = "active" THEN "inactive" ELSE "active"]
<1>1. /\ row \in [state : {"active", "inactive", "deleted"}, owner : Users \cup {None}]
      /\ row.owner \in {u \in Users : users[u] # None}
      /\ api_keys' = [api_keys EXCEPT ![k] = row]
  BY DEF AccountsInv, AccountsTypeOK, SwitchKey, Stored
<1> HIDE DEF row
<1>2. QED
  BY <1>1, KeyWritten DEF SwitchKey

LEMMA DeleteKeyInv ==
  ASSUME AccountsInv, IInv', NEW c \in Clients, DeleteKey(c)
  PROVE  AccountsInv'
<1> DEFINE k == call[c].about
           row == [api_keys[k] EXCEPT !.state = "deleted"]
<1>1. k \in ApiKeys
  BY CallSubject DEF AccountsInv, DeleteKey
<1>2. /\ row \in [state : {"active", "inactive", "deleted"}, owner : Users \cup {None}]
      /\ row.state = "deleted"
      /\ api_keys' = [api_keys EXCEPT ![k] = row]
      /\ call' = [call EXCEPT ![c] = NoCall]
      /\ UNCHANGED <<vars, users>>
  <2>1. api_keys \in [ApiKeys -> [state : {"absent", "active", "inactive", "deleted"},
                                   owner : Users \cup {None}]]
    BY DEF AccountsInv, AccountsTypeOK
  <2>2. QED
    BY <1>1, <2>1 DEF DeleteKey
<1>3. late' = [late EXCEPT ![k] = 0]
  <2>1. CASE Stored(k)
    BY <2>1 DEF DeleteKey
  <2>2. CASE ~ Stored(k)
    <3>1. late[k] = 0
      BY <1>1, <2>2, StoppedKeys
         DEF AccountsInv, AccountsTypeOK, NewKeysAreUnused, Stopped, Stored
    <3>2. QED
      BY <1>1, <2>2, <3>1 DEF AccountsInv, AccountsTypeOK, DeleteKey
  <2>3. QED
    BY <2>1, <2>2
<1> HIDE DEF k, row
<1>4. QED
  BY <1>1, <1>2, <1>3, KeyWritten

\* The tokens move, the accounts do not: what is stored or read belongs to users.
LEMMA TokensMove ==
  ASSUME AccountsInv, IInv', UNCHANGED accounts,
         \A c \in Clients : call[c] = NoCall \/ request'[c] = Idle,
         \A t \in Tokens : refresh_tokens'[t] # None => users[refresh_tokens'[t]] # None,
         RequestsHaveUsers'
  PROVE  AccountsInv'
<1>1. AccountsTypeOK'
  BY DEF AccountsInv, IInv, AccountsTypeOK, accounts, Stored
<1>2. NewKeysAreUnused' /\ EmailsIdentify' /\ KeysStopWorking'
  BY DEF AccountsInv, NewKeysAreUnused, EmailsIdentify, KeysStopWorking, Verifying, accounts
<1>3. QED
  BY <1>1, <1>2 DEF AccountsInv

LEMMA ExchangesInv ==
  ASSUME AccountsInv, IInv', Exchanges
  PROVE  AccountsInv'
<1>1. /\ \A t \in Tokens : refresh_tokens'[t] # None => users[refresh_tokens'[t]] # None
      /\ \A c \in Clients : request'[c].pc # "idle" => users[request'[c].user] # None
  <2>0. /\ \A t \in Tokens : refresh_tokens[t] # None => users[refresh_tokens[t]] # None
        /\ \A c \in Clients : request[c].pc # "idle" => users[request[c].user] # None
        /\ refresh_tokens \in [Tokens -> Users \cup {None}]
        /\ request \in [Clients -> [pc : {"idle", "deleting", "issuing"},
                                    token : Tokens \cup {None}, user : Users \cup {None}]]
    BY DEF AccountsInv, IInv, TypeOK, AccountsTypeOK, RequestsHaveUsers
  <2>1. CASE \E t \in Tokens : Expire(t)
    BY <2>0, <2>1 DEF Expire
  <2>2. CASE \E c \in Clients, t \in Tokens : Read(c, t)
    BY <2>0, <2>2 DEF Read, Valid
  <2>3. CASE \E c \in Clients, t \in Tokens : Issue(c, t)
    BY <2>0, <2>3 DEF Issue, Idle
  <2>4. CASE \E c \in Clients : Delete(c)
    BY <2>0, <2>4 DEF Delete
  <2>5. CASE \E c \in Clients : Die(c)
    BY <2>0, <2>5 DEF Die, Idle
  <2>6. QED
    BY <2>1, <2>2, <2>3, <2>4, <2>5 DEF Exchanges, Refreshes
<1>2. RequestsHaveUsers'
  BY <1>1 DEF RequestsHaveUsers, Exchanges, accounts
<1>3. QED
  BY <1>1, <1>2, TokensMove DEF Exchanges

LEMMA LoginByEmailInv ==
  ASSUME AccountsInv, IInv', NEW e \in Emails, NEW t \in Tokens, LoginByEmail(e, t)
  PROVE  AccountsInv'
<1>1. PICK u \in Registered(e) : Login(u, t) /\ UNCHANGED accounts
  BY DEF LoginByEmail
<1>2. u \in Users /\ users[u] # None
  BY NoneIsNoAccountData DEF Registered
<1>3. \A s \in Tokens : refresh_tokens'[s] # None => users[refresh_tokens'[s]] # None
  BY <1>1, <1>2 DEF AccountsInv, IInv, TypeOK, AccountsTypeOK, Login
<1>4. QED
  BY <1>1, <1>3, TokensMove DEF AccountsInv, AccountsTypeOK, RequestsHaveUsers, Login, accounts

LEMMA NextAccounts ==
  ASSUME AccountsInv, [AccountsNext]_accountsVars
  PROVE  AccountsInv'
<1>1. IInv'
  BY StepIsStep, NextInv DEF AccountsInv
<1>2. CASE \E c \in Clients, e \in Emails : SignUp(c, e)
  BY <1>1, <1>2, StartInv DEF SignUp
<1>3. CASE \E c \in Clients, u \in Users : Register(c, u)
  BY <1>1, <1>3, RegisterInv
<1>4. CASE \E c \in Clients, k \in ApiKeys : LookUp(c, k)
  BY <1>1, <1>4, StartInv DEF LookUp
<1>5. CASE \E c \in Clients, k \in ApiKeys : FindKey(c, k)
  BY <1>1, <1>5, StartInv DEF FindKey
<1>6. CASE \E c \in Clients : LetIn(c)
  BY <1>1, <1>6, LetInInv
<1>7. CASE \E c \in Clients : DeleteKey(c)
  BY <1>1, <1>7, DeleteKeyInv
<1>8. CASE \E c \in Clients : Fail(c)
  BY <1>1, <1>8, FailInv
<1>9. CASE \E k \in ApiKeys : SwitchKey(k)
  BY <1>1, <1>9, SwitchKeyInv
<1>10. CASE \E k \in ApiKeys, u \in Users : CreateKey(u, k)
  BY <1>1, <1>10, CreateKeyInv
<1>11. CASE Exchanges
  BY <1>1, <1>11, ExchangesInv
<1>12. CASE \E e \in Emails, t \in Tokens : LoginByEmail(e, t)
  BY <1>1, <1>12, LoginByEmailInv
<1>13. CASE UNCHANGED accountsVars
  BY <1>1, <1>13 DEF accountsVars, vars, accounts, AccountsInv, IInv, AccountsTypeOK, Stored,
                     RequestsHaveUsers, NewKeysAreUnused, EmailsIdentify, KeysStopWorking, Verifying
<1>14. QED
  BY <1>2, <1>3, <1>4, <1>5, <1>6, <1>7, <1>8, <1>9, <1>10, <1>11, <1>12, <1>13
     DEF AccountsNext, AccountCalls

LEMMA AccountsInvariance == AccountsSpec => []AccountsInv
BY InitAccounts, NextAccounts, PTL DEF AccountsSpec

-----------------------------------------------------------------------------
(* Theorems.                                                               *)

\* With sign-ups, logins by email and API keys around them, the tokens are issued
\* and exchanged as RefreshTokens says: nothing else touches them.
THEOREM AccountsRefineTokens == AccountsSpec => Spec
<1>1. AccountsInit => Init
  BY DEF AccountsInit
<1>2. QED
  BY <1>1, StepIsStep, PTL DEF AccountsSpec, Spec

\* The types, and that rows and running requests refer to users that exist.
THEOREM AccountsAreTyped == AccountsSpec => []AccountsTypeOK
<1>1. AccountsInv => AccountsTypeOK
  BY DEF AccountsInv
<1>2. QED
  BY <1>1, AccountsInvariance, PTL

\* A token that was exchanged is gone, although its DELETE and the INSERT of its
\* successor commit apart.
THEOREM ExchangedTokensAreGone == Spec => []ExchangedIsGone
<1>1. IInv => ExchangedIsGone
  BY DEF IInv
<1>2. QED
  BY <1>1, Invariance, PTL

\* One token has at most as many successors as requests ran at the same time.
THEOREM SuccessorsAreBounded == Spec => []ExchangesAreConcurrent
<1>1. IInv => ExchangesAreConcurrent
  BY DEF IInv
<1>2. QED
  BY <1>1, Invariance, PTL

\* No two users have one email, whichever sign-ups run at the same time.
THEOREM UsersAreIdentified == AccountsSpec => []EmailsIdentify
<1>1. AccountsInv => EmailsIdentify
  BY DEF AccountsInv
<1>2. QED
  BY <1>1, AccountsInvariance, PTL

\* A deleted key lets nobody in, and a deactivated one only the requests that were
\* verifying it.
THEOREM StoppedKeysStop == AccountsSpec => []KeysStopWorking
<1>1. AccountsInv => KeysStopWorking
  BY DEF AccountsInv
<1>2. QED
  BY <1>1, AccountsInvariance, PTL
=============================================================================
