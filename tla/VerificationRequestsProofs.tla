---------------------- MODULE VerificationRequestsProofs ----------------------
(***************************************************************************)
(* Upgrade requests, for any number of users, requests, clients and        *)
(* admins: a form that has passed on_model_change knows that its request   *)
(* is granted, and a check that found nothing pending bounds what the      *)
(* clients are about to insert.                                            *)
(***************************************************************************)
EXTENDS VerificationRequests, FiniteSetTheorems, TLAPS

\* A form that is about to write APPROVED has upgraded the user.
SavesAreGranted ==
    \A a \in Admins :
      form[a].pc = "saving" /\ form[a].status = "APPROVED" => form[a].request \in granted

RowsAreEdited == \A r \in edited : verification_requests[r] \in Row

IInv ==
    /\ TypeOK
    /\ SavesAreGranted
    /\ RowsAreEdited
    /\ ApprovedIsGranted
    /\ PendingIsBounded

LEMMA NoRequestIsNoRow == NoRequest \notin Row /\ \A u \in Users : NoRequest.user # u
BY NoneIsNothing DEF NoRequest, Row, VerificationStatus

LEMMA IdleIsNobody == \A u \in Users : Idle.user # u
BY NoneIsNothing DEF Idle

\* The sets the bound counts are finite.
LEMMA CountedSetsAreFinite ==
  ASSUME NEW u \in Users
  PROVE  /\ IsFiniteSet(Unedited(u)) /\ Cardinality(Unedited(u)) \in Nat
         /\ IsFiniteSet(Creating(u)) /\ Cardinality(Creating(u)) \in Nat
         /\ Cardinality(Clients) \in Nat
<1>1. Unedited(u) \in SUBSET Requests /\ Creating(u) \in SUBSET Clients
  BY DEF Unedited, Pending, RequestsOf, Creating
<1>2. IsFiniteSet(Unedited(u)) /\ IsFiniteSet(Creating(u))
  BY <1>1, FiniteRequests, FS_Subset
<1>3. QED
  BY <1>2, FiniteRequests, FS_CardinalityType

LEMMA InitInv == Init => IInv
<1> SUFFICES ASSUME Init PROVE IInv
  OBVIOUS
<1>1. TypeOK
  BY FailuresAreBounded
     DEF Init, TypeOK, NoForm, Form, VerificationStatus
<1>2. SavesAreGranted /\ RowsAreEdited /\ ApprovedIsGranted
  BY DEF Init, SavesAreGranted, RowsAreEdited, ApprovedIsGranted, NoForm, NoRequest
<1>3. ASSUME NEW u \in Users
      PROVE  Cardinality(Unedited(u)) + Cardinality(Creating(u)) <= Cardinality(Clients)
  <2>1. Unedited(u) = {}
    BY NoRequestIsNoRow DEF Init, Unedited, Pending, RequestsOf
  <2>2. Creating(u) = {}
    BY IdleIsNobody DEF Init, Creating
  <2>3. QED
    BY <2>1, <2>2, FS_EmptySet, CountedSetsAreFinite
<1>4. QED
  BY <1>1, <1>2, <1>3 DEF IInv, PendingIsBounded

-----------------------------------------------------------------------------
(* The bound.                                                              *)

\* A step that adds to neither set keeps the bound.
LEMMA BoundShrinks ==
  ASSUME PendingIsBounded,
         \A u \in Users : Unedited(u)' \subseteq Unedited(u) /\ Creating(u)' \subseteq Creating(u)
  PROVE  PendingIsBounded'
<1>1. SUFFICES ASSUME NEW u \in Users
               PROVE  Cardinality(Unedited(u)') + Cardinality(Creating(u)')
                        <= Cardinality(Clients)
  BY DEF PendingIsBounded
<1>2. /\ Cardinality(Unedited(u)') \in Nat
      /\ Cardinality(Unedited(u)') <= Cardinality(Unedited(u))
  <2>1. IsFiniteSet(Unedited(u)) /\ Unedited(u)' \in SUBSET Unedited(u)
    BY CountedSetsAreFinite
  <2>2. QED
    BY <2>1, FS_Subset, FS_CardinalityType
<1>3. /\ Cardinality(Creating(u)') \in Nat
      /\ Cardinality(Creating(u)') <= Cardinality(Creating(u))
  <2>1. IsFiniteSet(Creating(u)) /\ Creating(u)' \in SUBSET Creating(u)
    BY CountedSetsAreFinite
  <2>2. QED
    BY <2>1, FS_Subset, FS_CardinalityType
<1>4. QED
  BY <1>2, <1>3, CountedSetsAreFinite DEF PendingIsBounded

\* A check that finds nothing pending: the clients alone are counted.
LEMMA CheckKeepsBound ==
  ASSUME TypeOK, PendingIsBounded, NEW c \in Clients, NEW v \in Users,
         NEW t \in TargetRoles, CreateCheck(c, v, t)
  PROVE  PendingIsBounded'
<1>1. SUFFICES ASSUME NEW u \in Users
               PROVE  Cardinality(Unedited(u)') + Cardinality(Creating(u)')
                        <= Cardinality(Clients)
  BY DEF PendingIsBounded
<1>2. Unedited(u)' = Unedited(u)
  BY DEF CreateCheck, Unedited, Pending, RequestsOf
<1>3. CASE u = v
  <2>1. Unedited(u) = {}
    BY <1>3 DEF CreateCheck, NonePending, Unedited
  <2>2. Cardinality(Creating(u)') \in Nat /\ Cardinality(Creating(u)') <= Cardinality(Clients)
    <3>1. Creating(u)' \in SUBSET Clients
      BY DEF Creating
    <3>2. QED
      BY <3>1, FiniteRequests, FS_Subset, FS_CardinalityType
  <2>3. QED
    BY <1>2, <2>1, <2>2, FS_EmptySet
<1>4. CASE u # v
  <2>1. Creating(u)' = Creating(u)
    BY <1>4, IdleIsNobody DEF CreateCheck, Creating, TypeOK
  <2>2. QED
    BY <1>2, <2>1 DEF PendingIsBounded
<1>5. QED
  BY <1>3, <1>4

\* An insert moves one unit from the clients to the rows.
LEMMA InsertKeepsBound ==
  ASSUME TypeOK, RowsAreEdited, PendingIsBounded, NEW c \in Clients, NEW r \in Requests,
         CreateCommit(c, r)
  PROVE  PendingIsBounded'
<1>1. SUFFICES ASSUME NEW u \in Users
               PROVE  Cardinality(Unedited(u)') + Cardinality(Creating(u)')
                        <= Cardinality(Clients)
  BY DEF PendingIsBounded
<1>2. /\ r \notin Unedited(u)
      /\ r \notin edited
  BY NoRequestIsNoRow DEF CreateCommit, Unedited, Pending, RequestsOf, RowsAreEdited
<1>3. Creating(u)' = Creating(u) \ {c}
  BY IdleIsNobody DEF CreateCommit, Creating, TypeOK
<1>4. CASE client[c].user = u
  <2>1. Unedited(u)' = Unedited(u) \cup {r}
    BY <1>2, <1>4 DEF CreateCommit, Unedited, Pending, RequestsOf, TypeOK
  <2>2. Cardinality(Unedited(u)') = Cardinality(Unedited(u)) + 1
    BY <1>2, <2>1, CountedSetsAreFinite, FS_AddElement
  <2>3. c \in Creating(u)
    BY <1>4 DEF Creating
  <2>4. Cardinality(Creating(u)') = Cardinality(Creating(u)) - 1
    BY <1>3, <2>3, CountedSetsAreFinite, FS_RemoveElement
  <2>5. QED
    BY <2>2, <2>4, CountedSetsAreFinite DEF PendingIsBounded
<1>5. CASE client[c].user # u
  <2>1. Unedited(u)' = Unedited(u)
    BY <1>2, <1>5 DEF CreateCommit, Unedited, Pending, RequestsOf, TypeOK
  <2>2. Creating(u)' = Creating(u)
    BY <1>3, <1>5 DEF Creating
  <2>3. QED
    BY <2>1, <2>2 DEF PendingIsBounded
<1>6. QED
  BY <1>4, <1>5

-----------------------------------------------------------------------------
(* The steps.                                                              *)

LEMMA CheckStep ==
  ASSUME IInv, NEW c \in Clients, NEW u \in Users, NEW t \in TargetRoles, CreateCheck(c, u, t)
  PROVE  IInv'
<1>1. TypeOK'
  BY DEF IInv, TypeOK, CreateCheck
<1>2. SavesAreGranted' /\ RowsAreEdited' /\ ApprovedIsGranted'
  BY DEF IInv, CreateCheck, SavesAreGranted, RowsAreEdited, ApprovedIsGranted
<1>3. PendingIsBounded'
  BY CheckKeepsBound DEF IInv
<1>4. QED
  BY <1>1, <1>2, <1>3 DEF IInv

LEMMA InsertStep ==
  ASSUME IInv, NEW c \in Clients, NEW r \in Requests, CreateCommit(c, r)
  PROVE  IInv'
<1>1. client[c] \in [user : Users, target_role : TargetRoles]
  BY DEF IInv, TypeOK, CreateCommit
<1>2. verification_requests'[r] \in Row /\ verification_requests'[r].status = "PENDING"
  BY <1>1 DEF IInv, TypeOK, CreateCommit, Row, VerificationStatus
<1>3. \A q \in Requests \ {r} : verification_requests'[q] = verification_requests[q]
  BY DEF IInv, TypeOK, CreateCommit
<1>4. TypeOK'
  BY <1>2, <1>3 DEF IInv, TypeOK, CreateCommit, Form
<1>5. SavesAreGranted' /\ RowsAreEdited' /\ ApprovedIsGranted'
  BY <1>2, <1>3
     DEF IInv, TypeOK, CreateCommit, SavesAreGranted, RowsAreEdited, ApprovedIsGranted
<1>6. PendingIsBounded'
  BY InsertKeepsBound DEF IInv
<1>7. QED
  BY <1>4, <1>5, <1>6 DEF IInv

\* Steps that change neither rows nor clients keep the bound.
LEMMA FormKeepsBound ==
  ASSUME PendingIsBounded, UNCHANGED <<verification_requests, client, edited>>
  PROVE  PendingIsBounded'
<1>1. \A u \in Users : Unedited(u)' = Unedited(u) /\ Creating(u)' = Creating(u)
  BY DEF Unedited, Pending, RequestsOf, Creating
<1>2. QED
  BY <1>1, BoundShrinks

LEMMA LoadStep ==
  ASSUME IInv, NEW a \in Admins, NEW r \in Requests, NEW status \in VerificationStatus,
         Load(a, r, status)
  PROVE  IInv'
<1>1. verification_requests[r] \in Row /\ verification_requests[r].status \in VerificationStatus
  BY DEF IInv, TypeOK, Load, Exists, Row
<1>2. TypeOK'
  BY <1>1 DEF IInv, TypeOK, Load, Exists, Form
<1>3. SavesAreGranted' /\ RowsAreEdited' /\ ApprovedIsGranted'
  BY DEF IInv, TypeOK, Load, Exists, SavesAreGranted, RowsAreEdited, ApprovedIsGranted
<1>4. PendingIsBounded'
  BY FormKeepsBound DEF IInv, Load
<1>5. QED
  BY <1>2, <1>3, <1>4 DEF IInv

LEMMA GrantStep ==
  ASSUME IInv, NEW a \in Admins, Grant(a)
  PROVE  IInv'
<1>1. verification_requests[form[a].request] \in Row /\ form[a].request \in Requests
  BY DEF IInv, TypeOK, Grant
<1>2. TypeOK'
  BY <1>1 DEF IInv, TypeOK, Grant, Form, Row
<1>3. SavesAreGranted' /\ RowsAreEdited' /\ ApprovedIsGranted'
  BY DEF IInv, TypeOK, Grant, SavesAreGranted, RowsAreEdited, ApprovedIsGranted
<1>4. PendingIsBounded'
  BY FormKeepsBound DEF IInv, Grant
<1>5. QED
  BY <1>2, <1>3, <1>4 DEF IInv

LEMMA SaveStep ==
  ASSUME IInv, NEW a \in Admins, Save(a)
  PROVE  IInv'
<1> DEFINE r == form[a].request
<1>1. verification_requests[r] \in Row /\ form[a].status \in VerificationStatus
  BY DEF IInv, TypeOK, Save, Form
<1>2. CASE form[a].read = form[a].status
  <2>1. UNCHANGED <<verification_requests, edited>>
    BY <1>2 DEF Save
  <2>2. TypeOK'
    BY <2>1 DEF IInv, TypeOK, Save, NoForm, Form, VerificationStatus
  <2>3. SavesAreGranted' /\ RowsAreEdited' /\ ApprovedIsGranted'
    BY <2>1 DEF IInv, TypeOK, Save, NoForm, SavesAreGranted, RowsAreEdited, ApprovedIsGranted
  <2>4. PendingIsBounded'
    BY <2>1, FormKeepsBound DEF IInv, Save
  <2>5. QED
    BY <2>2, <2>3, <2>4 DEF IInv
<1>3. CASE form[a].read # form[a].status
  <2>1. r \in Requests
    BY DEF IInv, TypeOK, Save
  <2>2. /\ verification_requests'[r] = [verification_requests[r] EXCEPT !.status = form[a].status]
        /\ \A q \in Requests \ {r} : verification_requests'[q] = verification_requests[q]
        /\ verification_requests' \in [Requests -> Row \cup {NoRequest}]
        /\ edited' = edited \cup {r}
    BY <1>1, <1>3, <2>1 DEF IInv, TypeOK, Save, Row
  <2>3. verification_requests'[r] \in Row /\ verification_requests'[r].status = form[a].status
    BY <1>1, <2>2 DEF Row
  <2>4. TypeOK'
    BY <2>1, <2>2, <2>3 DEF IInv, TypeOK, Save, NoForm, Form, VerificationStatus
  <2>5. SavesAreGranted'
    BY DEF IInv, TypeOK, Save, NoForm, SavesAreGranted
  <2>6. RowsAreEdited'
    BY <2>1, <2>2, <2>3 DEF IInv, TypeOK, RowsAreEdited
  <2>7. ApprovedIsGranted'
    BY <2>1, <2>2, <2>3 DEF IInv, Save, ApprovedIsGranted, SavesAreGranted
  <2>8. \A u \in Users : Unedited(u)' \subseteq Unedited(u) /\ Creating(u)' \subseteq Creating(u)
    BY <2>1, <2>2 DEF Save, Unedited, Pending, RequestsOf, Creating
  <2>9. PendingIsBounded'
    BY <2>8, BoundShrinks DEF IInv
  <2>10. QED
    BY <2>4, <2>5, <2>6, <2>7, <2>9 DEF IInv
<1>4. QED
  BY <1>2, <1>3

LEMMA FailStep ==
  ASSUME IInv,
         \/ \E c \in Clients : ClientFails(c)
         \/ \E a \in Admins : SaveFails(a)
  PROVE  IInv'
<1>1. ASSUME NEW c \in Clients, ClientFails(c) PROVE IInv'
  <2>1. TypeOK'
    BY <1>1, FailuresAreBounded DEF IInv, TypeOK, ClientFails
  <2>2. SavesAreGranted' /\ RowsAreEdited' /\ ApprovedIsGranted'
    BY <1>1 DEF IInv, ClientFails, SavesAreGranted, RowsAreEdited, ApprovedIsGranted
  <2>3. \A u \in Users : Unedited(u)' \subseteq Unedited(u) /\ Creating(u)' \subseteq Creating(u)
    BY <1>1, IdleIsNobody
       DEF IInv, TypeOK, ClientFails, Unedited, Pending, RequestsOf, Creating
  <2>4. QED
    BY <2>1, <2>2, <2>3, BoundShrinks DEF IInv
<1>2. ASSUME NEW a \in Admins, SaveFails(a) PROVE IInv'
  <2>1. TypeOK'
    BY <1>2, FailuresAreBounded
       DEF IInv, TypeOK, SaveFails, NoForm, Form, VerificationStatus
  <2>2. SavesAreGranted' /\ RowsAreEdited' /\ ApprovedIsGranted'
    BY <1>2
       DEF IInv, TypeOK, SaveFails, NoForm, SavesAreGranted, RowsAreEdited, ApprovedIsGranted
  <2>3. PendingIsBounded'
    BY <1>2, FormKeepsBound DEF IInv, SaveFails
  <2>4. QED
    BY <2>1, <2>2, <2>3 DEF IInv
<1>3. QED
  BY <1>1, <1>2

LEMMA StutterStep ==
  ASSUME IInv, UNCHANGED vars
  PROVE  IInv'
<1>1. TypeOK' /\ SavesAreGranted' /\ RowsAreEdited' /\ ApprovedIsGranted'
  BY DEF IInv, vars, TypeOK, SavesAreGranted, RowsAreEdited, ApprovedIsGranted
<1>2. PendingIsBounded'
  BY FormKeepsBound DEF IInv, vars
<1>3. QED
  BY <1>1, <1>2 DEF IInv

LEMMA NextStep == IInv /\ [Next]_vars => IInv'
<1> SUFFICES ASSUME IInv, [Next]_vars PROVE IInv'
  OBVIOUS
<1>1. ASSUME NEW c \in Clients, NEW u \in Users, NEW t \in TargetRoles, CreateCheck(c, u, t)
      PROVE  IInv'
  BY <1>1, CheckStep
<1>2. ASSUME NEW c \in Clients, NEW r \in Requests, CreateCommit(c, r) PROVE IInv'
  BY <1>2, InsertStep
<1>3. ASSUME NEW a \in Admins, NEW r \in Requests, NEW s \in VerificationStatus, Load(a, r, s)
      PROVE  IInv'
  BY <1>3, LoadStep
<1>4. ASSUME NEW a \in Admins, Grant(a) PROVE IInv'
  BY <1>4, GrantStep
<1>5. ASSUME NEW a \in Admins, Save(a) PROVE IInv'
  BY <1>5, SaveStep
<1>6. CASE UNCHANGED vars
  BY <1>6, StutterStep
<1>7. QED
  BY <1>1, <1>2, <1>3, <1>4, <1>5, <1>6, FailStep DEF Next

\* The invariant holds in every reachable state.
THEOREM RequestInvariance == Spec => []IInv
BY InitInv, NextStep, PTL DEF Spec

\* The rows, users and forms of the upgrade requests are well-formed.
THEOREM RequestTypes == Spec => []TypeOK
<1>1. IInv => TypeOK
  BY DEF IInv
<1>2. QED
  BY <1>1, RequestInvariance, PTL

\* A request that reads APPROVED has had its effect, whatever saves race or die.
THEOREM ApprovalsAreGranted == Spec => []ApprovedIsGranted
<1>1. IInv => ApprovedIsGranted
  BY DEF IInv
<1>2. QED
  BY <1>1, RequestInvariance, PTL

\* A user has at most as many pending requests as requests run at a time.
THEOREM PendingRequestsAreBounded == Spec => []PendingIsBounded
<1>1. IInv => PendingIsBounded
  BY DEF IInv
<1>2. QED
  BY <1>1, RequestInvariance, PTL
=============================================================================
