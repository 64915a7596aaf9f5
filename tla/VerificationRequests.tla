------------------------- MODULE VerificationRequests -------------------------
(***************************************************************************)
(* Requests to upgrade a user's role, and their approval in the admin      *)
(* panel.  A request is created by a check for a pending one and an insert *)
(* that nothing ties together.  The panel (sqladmin) saves the edit form   *)
(* in a session of its own: it loads the row without a lock, calls         *)
(* on_model_change, which upgrades the user in another session and commits *)
(* it, and only then writes the row and commits.                           *)
(*                                                                         *)
(* on_model_change reads and updates the user without a lock.  Two of them *)
(* have the outcome of one after the other, so each is one step.  Edits of *)
(* users in the panel are left out.                                        *)
(***************************************************************************)
EXTENDS Naturals, FiniteSets

CONSTANTS
    Users,
    TargetRoles, \* VerificationRequestCreate.target_role: no role of the staff
    FirstRole,   \* USER
    Requests,    \* ids of verification requests (uuid4)
    Clients,     \* requests to the API that run at the same time
    Admins,      \* edit forms that are saved at the same time
    MaxFailures, \* bound on requests and saves that die
    None

ASSUME FiniteRequests == IsFiniteSet(Requests) /\ IsFiniteSet(Clients)
ASSUME FailuresAreBounded == MaxFailures \in Nat
ASSUME NoneIsNothing == None \notin Users \cup TargetRoles \cup Requests

VARIABLES
    verification_requests, \* the rows, by id
    users,                 \* role and is_verified of each user
    client,                \* the upgrade request each client is creating
    form,                  \* the form each admin is saving
    granted,               \* history: requests whose user has been upgraded
    edited,                \* history: requests whose status an admin has written
    failures               \* number of failures so far

vars == <<verification_requests, users, client, form, granted, edited, failures>>

VerificationStatus == {"PENDING", "APPROVED", "REJECTED"}
NoRequest == [user |-> None, target_role |-> None, status |-> "ABSENT"]
Row == [user : Users, target_role : TargetRoles, status : VerificationStatus]
Idle == [user |-> None, target_role |-> None]
NoForm == [pc |-> "idle", request |-> None, read |-> "PENDING", status |-> "PENDING"]
Form == [pc : {"idle", "loaded", "saving"}, request : Requests \cup {None},
         read : VerificationStatus, status : VerificationStatus]

TypeOK ==
    /\ verification_requests \in [Requests -> Row \cup {NoRequest}]
    /\ users \in [Users -> [role : TargetRoles \cup {FirstRole}, is_verified : BOOLEAN]]
    /\ client \in [Clients -> [user : Users, target_role : TargetRoles] \cup {Idle}]
    /\ form \in [Admins -> Form]
    /\ \A a \in Admins : form[a].pc # "idle" =>
         /\ form[a].request \in Requests
         /\ verification_requests[form[a].request] \in Row
    /\ granted \in SUBSET Requests
    /\ edited \in SUBSET Requests
    /\ failures \in 0 .. MaxFailures

Init ==
    /\ verification_requests = [r \in Requests |-> NoRequest]
    /\ users = [u \in Users |-> [role |-> FirstRole, is_verified |-> FALSE]]
    /\ client = [c \in Clients |-> Idle]
    /\ form = [a \in Admins |-> NoForm]
    /\ granted = {}
    /\ edited = {}
    /\ failures = 0

-----------------------------------------------------------------------------
(* create_verification_request.                                            *)

RequestsOf(u) == {r \in Requests : verification_requests[r].user = u}

Pending(u) == {r \in RequestsOf(u) : verification_requests[r].status = "PENDING"}

\* Mutant: decided requests are looked up, instead of pending ones.
NoneDecided(u) == RequestsOf(u) \subseteq Pending(u)

\* One pending request is refused as a conflict, several as an error.
NonePending(u) == Pending(u) = {}

CreateCheck(c, u, target_role) ==
    /\ client[c] = Idle
    /\ NonePending(u)
    /\ client' = [client EXCEPT ![c] = [user |-> u, target_role |-> target_role]]
    /\ UNCHANGED <<verification_requests, users, form, granted, edited, failures>>

CreateCommit(c, r) ==
    /\ client[c] # Idle
    /\ verification_requests[r] = NoRequest
    /\ verification_requests' = [verification_requests EXCEPT ![r] =
         [user |-> client[c].user, target_role |-> client[c].target_role,
          status |-> "PENDING"]]
    /\ client' = [client EXCEPT ![c] = Idle]
    /\ UNCHANGED <<users, form, granted, edited, failures>>

-----------------------------------------------------------------------------
(* The edit form of a request, posted with some status: the one the admin  *)
(* chose, or the one the page showed when it was opened.                   *)

\* Mutant: the row need not exist.
AnyId(r) == r \in Requests

Exists(r) == verification_requests[r] # NoRequest

Load(a, r, status) ==
    /\ form[a].pc = "idle"
    /\ Exists(r)
    /\ form' = [form EXCEPT ![a] =
         [pc |-> IF status = "APPROVED" THEN "loaded" ELSE "saving", request |-> r,
          read |-> verification_requests[r].status, status |-> status]]
    /\ UNCHANGED <<verification_requests, users, client, granted, edited, failures>>

\* on_model_change, of a form that says APPROVED.
Grant(a) ==
    LET r == form[a].request IN
    /\ form[a].pc = "loaded"
    /\ users' = [users EXCEPT ![verification_requests[r].user] =
         [role |-> verification_requests[r].target_role, is_verified |-> TRUE]]
    /\ granted' = granted \cup {r}
    /\ form' = [form EXCEPT ![a].pc = "saving"]
    /\ UNCHANGED <<verification_requests, client, edited, failures>>

\* Mutant: the row is saved before the user is upgraded.
SaveFirst(a) ==
    LET r == form[a].request IN
    /\ form[a].pc # "idle"
    /\ form[a].read # form[a].status
    /\ verification_requests' = [verification_requests EXCEPT ![r].status = form[a].status]
    /\ edited' = edited \cup {r}
    /\ form' = [form EXCEPT ![a].read = form[a].status]
    /\ UNCHANGED <<users, client, granted, failures>>

\* The status is written if it differs from the one that was loaded.
Save(a) ==
    LET r == form[a].request
        written == form[a].read # form[a].status
    IN
    /\ form[a].pc = "saving"
    /\ verification_requests' =
         IF written THEN [verification_requests EXCEPT ![r].status = form[a].status]
         ELSE verification_requests
    /\ edited' = IF written THEN edited \cup {r} ELSE edited
    /\ form' = [form EXCEPT ![a] = NoForm]
    /\ UNCHANGED <<users, client, granted, failures>>

-----------------------------------------------------------------------------
\* The API request, or the save, dies or is refused by the database.
ClientFails(c) ==
    /\ failures < MaxFailures
    /\ failures' = failures + 1
    /\ client[c] # Idle
    /\ client' = [client EXCEPT ![c] = Idle]
    /\ UNCHANGED <<verification_requests, users, form, granted, edited>>

SaveFails(a) ==
    /\ failures < MaxFailures
    /\ failures' = failures + 1
    /\ form[a].pc # "idle"
    /\ form' = [form EXCEPT ![a] = NoForm]
    /\ UNCHANGED <<verification_requests, users, client, granted, edited>>

Next ==
    \/ \E c \in Clients :
         \/ \E u \in Users, target_role \in TargetRoles : CreateCheck(c, u, target_role)
         \/ \E r \in Requests : CreateCommit(c, r)
         \/ ClientFails(c)
    \/ \E a \in Admins :
         \/ \E r \in Requests, status \in VerificationStatus : Load(a, r, status)
         \/ Grant(a)
         \/ Save(a)
         \/ SaveFails(a)

Spec == Init /\ [][Next]_vars

-----------------------------------------------------------------------------
(* Properties.                                                             *)

\* A request that reads APPROVED has had its effect, although the two are
\* committed apart and a save can die between them, or race with another.
ApprovedIsGranted ==
    \A r \in Requests :
      verification_requests[r].status = "APPROVED" => r \in granted

\* The pending requests of a user that no admin has reopened.
Unedited(u) == Pending(u) \ edited

\* The requests a user is creating.
Creating(u) == {c \in Clients : client[c].user = u}

\* The check and the insert are not atomic, but only requests that ran at the
\* same time leave a user with several pending ones.
PendingIsBounded ==
    \A u \in Users :
      Cardinality(Unedited(u)) + Cardinality(Creating(u)) <= Cardinality(Clients)

\* A role changes to that of a request that is being changed to approved; one
\* that is approved already has no more to say.
RoleFollowsApproval ==
    [][\A u \in Users : users'[u].role # users[u].role =>
         \E r \in RequestsOf(u) :
           /\ verification_requests[r].target_role = users'[u].role
           /\ verification_requests[r].status # "APPROVED"]_vars
=============================================================================
