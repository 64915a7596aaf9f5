----------------------- MODULE ProductModerationProofs -----------------------
(***************************************************************************)
(* The moderation of listings, for any number of users, listings and       *)
(* requests.  The invariant says what a request knows of the row it has    *)
(* locked: the check it made when it loaded the row still holds when it    *)
(* commits.  A section of its own bounds the listings of a seller, and the *)
(* last one is about AuditTrail, which logs the same handlers.             *)
(***************************************************************************)
EXTENDS AuditTrail, FiniteSetTheorems, TLAPS

TxInv(c) ==
    tx[c].op \in Operations =>
      /\ tx[c].user \in Users
      /\ tx[c].product \in Products
      /\ lock[tx[c].product] = c
      /\ Exists(tx[c].product)
      /\ Allowed(tx[c].op, tx[c].user, tx[c].product)

CreateInv(c) == tx[c].op = "create" => tx[c].user \in Users

IInv ==
    /\ TypeOK
    /\ ModeratorAssigned
    /\ OnSaleIsApproved
    /\ \A c \in Clients : TxInv(c) /\ CreateInv(c)

LEMMA InitInv == Init => IInv
<1> SUFFICES ASSUME Init PROVE IInv
  OBVIOUS
<1>1. TypeOK
  BY LimitsAreNatural
     DEF Init, TypeOK, ProductRow, ProductStatus, RequestState, LoadedRow, NotCreated, Idle,
         Contents
<1>2. ModeratorAssigned /\ OnSaleIsApproved
  BY DEF Init, ModeratorAssigned, OnSaleIsApproved, NotCreated
<1>3. \A c \in Clients : TxInv(c) /\ CreateInv(c)
  BY DEF Init, TxInv, CreateInv, Idle, Operations
<1>4. QED
  BY <1>1, <1>2, <1>3 DEF IInv

\* A request keeps what it knows while its row and its lock are left alone.
LEMMA Bystander ==
  ASSUME NEW d \in Clients, TxInv(d), CreateInv(d), tx'[d] = tx[d],
         \A p \in Products : lock[p] = d =>
           lock'[p] = d /\ products'[p] = products[p]
  PROVE  TxInv(d)' /\ CreateInv(d)'
<1>1. CreateInv(d)'
  BY DEF CreateInv
<1>2. ASSUME tx[d].op \in Operations PROVE TxInv(d)'
  <2>1. tx[d].product \in Products /\ products'[tx[d].product] = products[tx[d].product]
    BY <1>2 DEF TxInv
  <2>2. Exists(tx[d].product)' /\ Allowed(tx[d].op, tx[d].user, tx[d].product)'
    BY <1>2, <2>1 DEF TxInv, Exists, Allowed, MayEdit, MayModerate
  <2>3. QED
    BY <1>2, <2>2 DEF TxInv
<1>3. QED
  BY <1>1, <1>2 DEF TxInv

\* Requests that only read, begin or give up.
LEMMA QuietStep ==
  ASSUME IInv, NEW c \in Clients,
         UNCHANGED <<products, panel, history>>,
         \A d \in Clients \ {c} : tx'[d] = tx[d],
         tx' \in [Clients -> RequestState],
         lock' \in [Products -> Clients \cup {None}],
         \A p \in Products : lock[p] \in Clients \ {c} => lock'[p] = lock[p],
         TxInv(c)', CreateInv(c)'
  PROVE  IInv'
<1>1. TypeOK'
  BY DEF IInv, TypeOK, panel, history
<1>2. ModeratorAssigned' /\ OnSaleIsApproved'
  BY DEF IInv, ModeratorAssigned, OnSaleIsApproved, history
<1>3. ASSUME NEW d \in Clients PROVE TxInv(d)' /\ CreateInv(d)'
  <2>1. CASE d = c
    BY <2>1
  <2>2. CASE d # c
    BY <2>2, Bystander DEF IInv
  <2>3. QED
    BY <2>1, <2>2
<1>4. QED
  BY <1>1, <1>2, <1>3 DEF IInv

LEMMA CreateCheckInv ==
  ASSUME IInv, NEW c \in Clients, NEW u \in Users, CreateCheck(c, u)
  PROVE  IInv'
<1>1. /\ tx' \in [Clients -> RequestState]
      /\ tx'[c].op = "create" /\ tx'[c].user = u
  BY DEF IInv, TypeOK, CreateCheck, RequestState
<1>2. TxInv(c)' /\ CreateInv(c)'
  BY <1>1 DEF TxInv, CreateInv, Operations
<1>3. QED
  BY <1>1, <1>2, QuietStep DEF CreateCheck, IInv, TypeOK

LEMMA LoadInv ==
  ASSUME IInv, NEW c \in Clients, NEW u \in Users, NEW p \in Products,
         NEW op \in Operations, Load(c, u, p, op)
  PROVE  IInv'
<1>1. /\ tx' \in [Clients -> RequestState]
      /\ tx'[c].op = op /\ tx'[c].user = u /\ tx'[c].product = p
  BY DEF IInv, TypeOK, Load, RequestState
<1>2. /\ lock' \in [Products -> Clients \cup {None}]
      /\ lock'[p] = c
      /\ \A q \in Products : lock[q] \in Clients \ {c} => lock'[q] = lock[q]
  BY NoneIsNobody DEF IInv, TypeOK, Load, Locking
<1>3. UNCHANGED <<products, panel, history>> /\ Exists(p) /\ Allowed(op, u, p)
  BY DEF Load
<1>4. Exists(p)' /\ Allowed(op, u, p)'
  BY <1>3 DEF Exists, Allowed, MayEdit, MayModerate
<1>5. TxInv(c)'
  BY <1>1, <1>2, <1>4 DEF TxInv
<1>6. CreateInv(c)'
  BY <1>1 DEF CreateInv, Operations
<1>7. QED
  BY <1>1, <1>2, <1>3, <1>5, <1>6, QuietStep DEF Load, IInv, TypeOK

LEMMA RollbackInv ==
  ASSUME IInv, NEW c \in Clients, Rollback(c)
  PROVE  IInv'
<1>1. tx' \in [Clients -> RequestState] /\ tx'[c].op = "idle"
  BY DEF IInv, TypeOK, Rollback, RequestState, Idle
<1>2. TxInv(c)' /\ CreateInv(c)'
  BY <1>1 DEF TxInv, CreateInv, Operations
<1>3. QED
  BY <1>1, <1>2, QuietStep DEF Rollback, IInv, TypeOK

LEMMA CreateCommitInv ==
  ASSUME IInv, NEW c \in Clients, NEW p \in Products, CreateCommit(c, p)
  PROVE  IInv'
<1>1. /\ products' = [products EXCEPT ![p] =
                       [status |-> "DRAFT", owner |-> tx[c].user,
                        moderator |-> None, content |-> 0]]
      /\ tx' = [tx EXCEPT ![c] = Idle]
      /\ tx[c].user \in Users
      /\ products[p].status = "ABSENT"
      /\ UNCHANGED <<lock, panel, history>>
  BY DEF IInv, CreateInv, CreateCommit
<1>2. TypeOK'
  BY <1>1, LimitsAreNatural
     DEF IInv, TypeOK, ProductRow, ProductStatus, RequestState, Idle, Contents, panel, history
<1>3. ModeratorAssigned' /\ OnSaleIsApproved'
  BY <1>1 DEF IInv, TypeOK, ModeratorAssigned, OnSaleIsApproved, history
<1>4. ASSUME NEW d \in Clients PROVE TxInv(d)' /\ CreateInv(d)'
  <2>1. CASE d = c
    BY <1>1, <2>1 DEF IInv, TypeOK, TxInv, CreateInv, Idle, Operations
  <2>2. CASE d # c
    <3>1. tx'[d] = tx[d] /\ TxInv(d) /\ CreateInv(d)
      BY <1>1, <2>2 DEF IInv, TypeOK
    <3>2. CreateInv(d)'
      BY <3>1 DEF CreateInv
    <3>3. ASSUME tx[d].op \in Operations
          PROVE  products'[tx[d].product] = products[tx[d].product]
      BY <1>1, <3>1, <3>3 DEF IInv, TypeOK, TxInv, Exists, ProductStatus
    <3>4. TxInv(d)'
      BY <1>1, <3>1, <3>3 DEF TxInv, Exists, Allowed, MayEdit, MayModerate
    <3>5. QED
      BY <3>2, <3>4
  <2>3. QED
    BY <2>1, <2>2
<1>5. QED
  BY <1>2, <1>3, <1>4 DEF IInv

\* What an operation leaves of a row it was allowed to change.
LEMMA WrittenRow ==
  ASSUME NEW op \in Operations, NEW u \in Users, NEW p \in Products,
         products[p] \in ProductRow, Exists(p), Allowed(op, u, p),
         NEW row \in Written(op, u, products[p])
  PROVE  /\ row \in ProductRow
         /\ row.status \in ProductStatus => row.owner = products[p].owner
         /\ row.status = "MODERATION_IN_PROGRESS" => op = "claim" /\ row.moderator = u
         /\ row.status = "ACTIVE" => op \in {"approve", "activate"}
         /\ op \in {"claim", "approve", "activate"} => row.content = products[p].content
         /\ row.status \in {"DRAFT", "PENDING_MODERATION", "REJECTED"} =>
              row.moderator = None \/ (op = "update" /\ row.status = products[p].status
                                       /\ row.moderator = products[p].moderator)
         /\ op = "claim" => products[p].status = "PENDING_MODERATION" /\ u \in Staff
         /\ op = "approve" => products[p].status = "MODERATION_IN_PROGRESS"
<1> USE DEF Written, ProductRow, ProductStatus, Exists, Allowed, Claimable, MayModerate, Users
<1>1. CASE op = "submit"
  BY <1>1 DEF Submitted
<1>2. CASE op = "update"
  <2>1. PICK n \in Contents : row = AfterEdit([products[p] EXCEPT !.content = n])
    BY <1>2
  <2>2. products[p].status \in Editable
    BY <1>2
  <2>3. QED
    BY <1>2, <2>1, <2>2 DEF AfterEdit, Editable
<1>3. CASE op = "delete"
  BY <1>3, LimitsAreNatural DEF Deleted, NotCreated, Contents
<1>4. CASE op = "activate"
  BY <1>4
<1>5. CASE op = "claim"
  BY <1>5
<1>6. CASE op = "approve" \/ op = "reject"
  BY <1>6
<1>7. QED
  BY <1>1, <1>2, <1>3, <1>4, <1>5, <1>6 DEF Operations

LEMMA CommitInv ==
  ASSUME IInv, NEW c \in Clients, Commit(c)
  PROVE  IInv'
<1>1. PICK op, u, p : op = tx[c].op /\ u = tx[c].user /\ p = tx[c].product
  OBVIOUS
<1>2. /\ op \in Operations /\ u \in Users /\ p \in Products
      /\ lock[p] = c /\ Exists(p) /\ Allowed(op, u, p)
      /\ products[p] \in ProductRow
  BY <1>1 DEF IInv, TypeOK, TxInv, Commit
<1>3. PICK row \in Written(op, u, products[p]) :
        products' = [products EXCEPT ![p] = row]
  BY <1>1 DEF Commit
<1>4. /\ row \in ProductRow
      /\ row.status \in ProductStatus => row.owner = products[p].owner
      /\ row.status = "MODERATION_IN_PROGRESS" => op = "claim" /\ row.moderator = u
      /\ row.status = "ACTIVE" => op \in {"approve", "activate"}
      /\ op \in {"claim", "approve", "activate"} => row.content = products[p].content
      /\ row.status \in {"DRAFT", "PENDING_MODERATION", "REJECTED"} =>
           row.moderator = None \/ (op = "update" /\ row.status = products[p].status
                                    /\ row.moderator = products[p].moderator)
      /\ op = "claim" => products[p].status = "PENDING_MODERATION" /\ u \in Staff
      /\ op = "approve" => products[p].status = "MODERATION_IN_PROGRESS"
  BY <1>2, WrittenRow
<1>5. /\ vetted' = IF op \in {"claim", "activate"}
                   THEN [vetted EXCEPT ![p] = products[p].content] ELSE vetted
      /\ overridden' = IF op \in {"submit", "claim", "reject", "delete"}
                       THEN overridden \ {p} ELSE overridden
      /\ lock' = [q \in Products |-> IF lock[q] = c THEN None ELSE lock[q]]
      /\ tx' = [tx EXCEPT ![c] = Idle]
      /\ UNCHANGED panel
  BY <1>1 DEF Commit
<1>6. /\ products' \in [Products -> ProductRow] /\ products'[p] = row
      /\ \A q \in Products \ {p} : products'[q] = products[q]
  BY <1>2, <1>3, <1>4 DEF IInv, TypeOK
<1>7. /\ vetted' \in [Products -> Contents]
      /\ op \in {"claim", "activate"} => vetted'[p] = products[p].content
      /\ op \notin {"claim", "activate"} => vetted'[p] = vetted[p]
      /\ \A q \in Products \ {p} : vetted'[q] = vetted[q]
  BY <1>2, <1>5 DEF IInv, TypeOK, ProductRow
<1>8. /\ overridden' \in SUBSET Products
      /\ p \in overridden => p \in overridden' \/ op \in {"submit", "claim", "reject", "delete"}
      /\ \A q \in Products \ {p} : q \in overridden' <=> q \in overridden
  BY <1>5 DEF IInv, TypeOK
<1>9. TypeOK'
  <2>1. \A q \in Products : products'[q].status \in ProductStatus => products'[q].owner \in Users
    BY <1>2, <1>4, <1>6 DEF IInv, TypeOK, Exists
  <2>2. lock' \in [Products -> Clients \cup {None}] /\ tx' \in [Clients -> RequestState]
    BY <1>5 DEF IInv, TypeOK, RequestState, Idle
  <2>3. QED
    BY <1>5, <1>6, <1>7, <1>8, <2>1, <2>2 DEF IInv, TypeOK, panel
<1>10. ModeratorAssigned'
  <2>1. ASSUME NEW q \in Products \ overridden'
        PROVE  /\ products'[q].status = "MODERATION_IN_PROGRESS" => products'[q].moderator \in Staff
               /\ products'[q].status \in {"DRAFT", "PENDING_MODERATION", "REJECTED"} =>
                    products'[q].moderator = None
    <3>1. CASE q # p
      BY <1>6, <1>8, <2>1, <3>1 DEF IInv, ModeratorAssigned
    <3>2. CASE q = p
      BY <1>2, <1>4, <1>6, <1>8, <2>1, <3>2 DEF IInv, ModeratorAssigned
    <3>3. QED
      BY <3>1, <3>2
  <2>2. QED
    BY <2>1 DEF ModeratorAssigned
<1>11. OnSaleIsApproved'
  <2>1. ASSUME NEW q \in Products \ overridden',
               products'[q].status \in {"MODERATION_IN_PROGRESS", "ACTIVE"}
        PROVE  products'[q].content = vetted'[q]
    <3>1. CASE q # p
      BY <1>6, <1>7, <1>8, <2>1, <3>1 DEF IInv, OnSaleIsApproved
    <3>2. CASE q = p
      BY <1>2, <1>4, <1>6, <1>7, <1>8, <2>1, <3>2 DEF IInv, OnSaleIsApproved
    <3>3. QED
      BY <3>1, <3>2
  <2>2. QED
    BY <2>1 DEF OnSaleIsApproved
<1>12. ASSUME NEW d \in Clients PROVE TxInv(d)' /\ CreateInv(d)'
  <2>1. CASE d = c
    BY <1>5, <2>1 DEF IInv, TypeOK, TxInv, CreateInv, Idle, Operations
  <2>2. CASE d # c
    <3>1. tx'[d] = tx[d]
      BY <1>5, <2>2 DEF IInv, TypeOK
    <3>2. \A q \in Products : lock[q] = d =>
            lock'[q] = d /\ products'[q] = products[q]
      BY <1>2, <1>5, <1>6, <2>2
    <3>3. QED
      BY <3>1, <3>2, Bystander DEF IInv
  <2>3. QED
    BY <2>1, <2>2
<1>13. QED
  BY <1>9, <1>10, <1>11, <1>12 DEF IInv

-----------------------------------------------------------------------------
(* The panel.                                                              *)

LEMMA PanelLoadInv ==
  ASSUME IInv, NEW a \in PanelUsers, NEW p \in Products, PanelLoad(a, p)
  PROVE  IInv'
<1>1. loaded' \in [PanelUsers -> LoadedRow] /\ saves' \in 0 .. MaxSaves
  BY LimitsAreNatural DEF IInv, TypeOK, PanelLoad, LoadedRow, Exists, ProductRow
<1>2. TypeOK'
  BY <1>1 DEF IInv, TypeOK, PanelLoad, history
<1>3. QED
  BY <1>2 DEF IInv, PanelLoad, ModeratorAssigned, OnSaleIsApproved, TxInv, CreateInv,
              Exists, Allowed, MayEdit, MayModerate, history

LEMMA PanelFailsInv ==
  ASSUME IInv, NEW a \in PanelUsers, PanelFails(a)
  PROVE  IInv'
<1>1. TypeOK'
  BY DEF IInv, TypeOK, PanelFails, history, LoadedRow
<1>2. QED
  BY <1>1 DEF IInv, PanelFails, ModeratorAssigned, OnSaleIsApproved, TxInv, CreateInv,
              Exists, Allowed, MayEdit, MayModerate, history

\* A save waits for the row, changes the status and the moderator only, and
\* marks the listing unless the form agreed with what was read.
LEMMA SavedRow ==
  ASSUME TypeOK, NEW a \in PanelUsers, NEW s \in ProductStatus, NEW m \in Users \cup {None},
         PanelSave(a, s, m)
  PROVE  \E p \in Products :
         /\ p = loaded[a].product /\ lock[p] = None /\ Exists(p) /\ Exists(p)'
         /\ products' \in [Products -> ProductRow]
         /\ products'[p].owner = products[p].owner
         /\ products'[p].content = products[p].content
         /\ p \in overridden' \/ products'[p] = products[p]
         /\ overridden' \in SUBSET Products
         /\ \A q \in Products \ {p} : /\ products'[q] = products[q]
                                      /\ q \in overridden' <=> q \in overridden
         /\ overridden \subseteq overridden'
<1>1. loaded[a] \in LoadedRow /\ loaded[a] # NothingLoaded
  BY DEF TypeOK, PanelSave
<1>2. PICK p \in Products : p = loaded[a].product
  BY <1>1 DEF LoadedRow
<1> DEFINE row == Overwritten(products[p], loaded[a], s, m)
<1>3. /\ lock[p] = None /\ Exists(p)
      /\ products' = [products EXCEPT ![p] = row]
      /\ overridden' = IF s = loaded[a].status /\ m = loaded[a].moderator
                       THEN overridden ELSE overridden \cup {p}
  BY <1>2 DEF PanelSave, Unlocked
<1>4. /\ products[p] \in ProductRow
      /\ products[p].status \in ProductStatus
  BY <1>2, <1>3 DEF TypeOK, Exists
<1>5. /\ row \in ProductRow
      /\ row.status \in ProductStatus
      /\ row.owner = products[p].owner /\ row.content = products[p].content
      /\ s = loaded[a].status /\ m = loaded[a].moderator => row = products[p]
  BY <1>4 DEF Overwritten, ProductRow
<1>6. products'[p] = row /\ products' \in [Products -> ProductRow]
      /\ \A q \in Products \ {p} : products'[q] = products[q]
  BY <1>2, <1>3, <1>5 DEF TypeOK
<1> HIDE DEF row
<1>7. Exists(p)'
  BY <1>5, <1>6 DEF Exists
<1>8. /\ overridden' \in SUBSET Products /\ overridden \subseteq overridden'
      /\ p \in overridden' \/ products'[p] = products[p]
      /\ \A q \in Products \ {p} : q \in overridden' <=> q \in overridden
  BY <1>2, <1>3, <1>5, <1>6 DEF TypeOK
<1>9. QED
  BY <1>2, <1>3, <1>5, <1>6, <1>7, <1>8

LEMMA PanelSaveInv ==
  ASSUME IInv, NEW a \in PanelUsers, NEW s \in ProductStatus, NEW m \in Users \cup {None},
         PanelSave(a, s, m)
  PROVE  IInv'
<1>1. PICK p \in Products :
         /\ lock[p] = None /\ Exists(p) /\ Exists(p)'
         /\ products' \in [Products -> ProductRow]
         /\ products'[p].owner = products[p].owner
         /\ p \in overridden' \/ products'[p] = products[p]
         /\ overridden' \in SUBSET Products
         /\ \A q \in Products \ {p} : /\ products'[q] = products[q]
                                      /\ q \in overridden' <=> q \in overridden
         /\ overridden \subseteq overridden'
  BY SavedRow DEF IInv
<1>2. /\ loaded' \in [PanelUsers -> LoadedRow]
      /\ UNCHANGED <<lock, tx, saves, vetted>>
  BY DEF IInv, TypeOK, PanelSave, LoadedRow
<1>3. TypeOK'
  BY <1>1, <1>2 DEF IInv, TypeOK, Exists
<1>4. ModeratorAssigned' /\ OnSaleIsApproved'
  BY <1>1, <1>2 DEF IInv, ModeratorAssigned, OnSaleIsApproved
<1>5. ASSUME NEW d \in Clients PROVE TxInv(d)' /\ CreateInv(d)'
  <2>1. \A q \in Products : lock[q] = d => lock'[q] = d /\ products'[q] = products[q]
    BY <1>1, <1>2, NoneIsNobody
  <2>2. QED
    BY <1>2, <2>1, Bystander DEF IInv
<1>6. QED
  BY <1>3, <1>4, <1>5 DEF IInv

-----------------------------------------------------------------------------
LEMMA NextInv == IInv /\ [Next]_vars => IInv'
<1> SUFFICES ASSUME IInv, [Next]_vars PROVE IInv'
  OBVIOUS
<1>1. CASE Handlers
  BY <1>1, CreateCheckInv, CreateCommitInv, LoadInv, CommitInv, RollbackInv DEF Handlers
<1>2. CASE Panel
  BY <1>2, PanelLoadInv, PanelSaveInv, PanelFailsInv DEF Panel
<1>3. CASE UNCHANGED vars
  BY <1>3 DEF vars, panel, history, IInv, TypeOK, ModeratorAssigned, OnSaleIsApproved, TxInv,
              CreateInv, Exists, Allowed, MayEdit, MayModerate
<1>4. QED
  BY <1>1, <1>2, <1>3 DEF Next

THEOREM ModerationInvariance == Spec => []IInv
BY InitInv, NextInv, PTL DEF Spec

\* The rows, the locks and the requests keep their types.
THEOREM ModerationTypes == Spec => []TypeOK
<1>1. IInv => TypeOK
  BY DEF IInv
<1>2. QED
  BY <1>1, ModerationInvariance, PTL

\* A listing under moderation has a moderator and one that waits has none, unless
\* the panel has overridden it.
THEOREM ModeratorsAreAssigned == Spec => []ModeratorAssigned
<1>1. IInv => ModeratorAssigned
  BY DEF IInv
<1>2. QED
  BY <1>1, ModerationInvariance, PTL

\* What is on sale was approved by the staff as it stands, for any number of
\* concurrent edits, submissions, claims and overrides; only panel saves are exempt.
THEOREM ContentOnSaleIsApproved == Spec => []OnSaleIsApproved
<1>1. IInv => OnSaleIsApproved
  BY DEF IInv
<1>2. QED
  BY <1>1, ModerationInvariance, PTL

\* A handler's step hands no listing that is being moderated to another moderator.
LEMMA HandlersKeepClaims ==
  ASSUME IInv, Handlers, NEW p \in Products,
         products[p].status = "MODERATION_IN_PROGRESS",
         products'[p].status = "MODERATION_IN_PROGRESS"
  PROVE  products'[p].moderator = products[p].moderator
<1>1. ASSUME NEW c \in Clients, NEW q \in Products, CreateCommit(c, q)
      PROVE  products'[p] = products[p]
  BY <1>1 DEF CreateCommit, IInv, TypeOK
<1>2. ASSUME NEW c \in Clients, Commit(c)
      PROVE  products'[p] = products[p]
  <2>1. PICK op, u, q : op = tx[c].op /\ u = tx[c].user /\ q = tx[c].product
    OBVIOUS
  <2>2. /\ op \in Operations /\ u \in Users /\ q \in Products
        /\ Exists(q) /\ Allowed(op, u, q)
        /\ products[q] \in ProductRow
    BY <1>2, <2>1 DEF IInv, TypeOK, TxInv, Commit
  <2>3. PICK row \in Written(op, u, products[q]) : products' = [products EXCEPT ![q] = row]
    BY <1>2, <2>1 DEF Commit
  <2>4. row.status = "MODERATION_IN_PROGRESS" => products[q].status = "PENDING_MODERATION"
    BY <2>2, WrittenRow
  <2>5. QED
    BY <2>2, <2>3, <2>4 DEF IInv, TypeOK
<1>3. QED
  BY <1>1, <1>2 DEF Handlers, CreateCheck, Load, Rollback

\* A claim belongs to its moderator until a decision, an override, a deletion or
\* a panel save, for any number of moderators.
THEOREM ClaimsAreExclusive == Spec => ClaimIsExclusive
<1> DEFINE Kept == \A p \in Products :
         (/\ products[p].status = "MODERATION_IN_PROGRESS"
          /\ products'[p].status = "MODERATION_IN_PROGRESS")
           => \/ products'[p].moderator = products[p].moderator
              \/ \E a \in PanelUsers : loaded[a].product = p /\ loaded'[a] = NothingLoaded
<1>1. ASSUME IInv, [Next]_vars PROVE [Kept]_vars
  <2>1. CASE Handlers
    BY <1>1, <2>1, HandlersKeepClaims
  <2>2. ASSUME NEW a \in PanelUsers, NEW s \in ProductStatus, NEW m \in Users \cup {None},
               PanelSave(a, s, m)
        PROVE  Kept
    <3>1. loaded'[a] = NothingLoaded
      BY <1>1, <2>2 DEF IInv, TypeOK, PanelSave
    <3>2. \A q \in Products : q = loaded[a].product \/ products'[q] = products[q]
      BY <1>1, <2>2, SavedRow DEF IInv
    <3>3. QED
      BY <3>1, <3>2
  <2>3. CASE UNCHANGED products
    BY <2>3
  <2>4. QED
    BY <1>1, <2>1, <2>2, <2>3 DEF Next, Panel, PanelLoad, PanelFails, vars
<1>2. QED
  BY <1>1, ModerationInvariance, PTL DEF Spec, ClaimIsExclusive

-----------------------------------------------------------------------------
(* The seller limit.  Listings and requests that will still insert one are *)
(* counted together, so that an insert moves a unit from the second to the *)
(* first.                                                                  *)

LEMMA CountedSetsAreFinite ==
  ASSUME NEW u \in Sellers
  PROVE  /\ IsFiniteSet(Owned(u)) /\ Cardinality(Owned(u)) \in Nat
         /\ IsFiniteSet(Creating(u)) /\ Cardinality(Creating(u)) \in Nat
         /\ Cardinality(Clients) \in Nat
         /\ Limit(u) \in Nat
<1>1. Owned(u) \in SUBSET Products /\ Creating(u) \in SUBSET Clients
  BY DEF Owned, Creating
<1>2. IsFiniteSet(Owned(u)) /\ IsFiniteSet(Creating(u))
  BY <1>1, FiniteListings, FS_Subset
<1>3. Limit(u) \in Nat
  BY LimitsAreNatural DEF Limit
<1>4. QED
  BY <1>2, <1>3, FiniteListings, FS_CardinalityType

\* A step that adds to neither set keeps the bound.
LEMMA OvershootShrinks ==
  ASSUME OvershootIsBounded,
         \A u \in Sellers : Owned(u)' \subseteq Owned(u) /\ Creating(u)' \subseteq Creating(u)
  PROVE  OvershootIsBounded'
<1>1. SUFFICES ASSUME NEW u \in Sellers
               PROVE  Cardinality(Owned(u)') + Cardinality(Creating(u)')
                        <= Limit(u) + Cardinality(Clients) - 1
  BY DEF OvershootIsBounded, Limit
<1>2. /\ Cardinality(Owned(u)') \in Nat
      /\ Cardinality(Owned(u)') <= Cardinality(Owned(u))
  <2>1. IsFiniteSet(Owned(u)) /\ Owned(u)' \in SUBSET Owned(u)
    BY CountedSetsAreFinite
  <2>2. QED
    BY <2>1, FS_Subset, FS_CardinalityType
<1>3. /\ Cardinality(Creating(u)') \in Nat
      /\ Cardinality(Creating(u)') <= Cardinality(Creating(u))
  <2>1. IsFiniteSet(Creating(u)) /\ Creating(u)' \in SUBSET Creating(u)
    BY CountedSetsAreFinite
  <2>2. QED
    BY <2>1, FS_Subset, FS_CardinalityType
<1>4. QED
  BY <1>2, <1>3, CountedSetsAreFinite DEF OvershootIsBounded

\* A check that finds a listing too few: the clients are all that is added.
LEMMA CheckKeepsOvershoot ==
  ASSUME TypeOK, OvershootIsBounded, NEW c \in Clients, NEW v \in Users, CreateCheck(c, v)
  PROVE  OvershootIsBounded'
<1>1. SUFFICES ASSUME NEW u \in Sellers
               PROVE  Cardinality(Owned(u)') + Cardinality(Creating(u)')
                        <= Limit(u) + Cardinality(Clients) - 1
  BY DEF OvershootIsBounded, Limit
<1>2. Owned(u)' = Owned(u)
  BY DEF CreateCheck, Owned, Exists
<1>3. CASE u = v
  <2>1. Cardinality(Owned(u)) <= Limit(u) - 1
    BY <1>3, RolesAreDistinct, CountedSetsAreFinite DEF CreateCheck, WithinLimit
  <2>2. Cardinality(Creating(u)') \in Nat /\ Cardinality(Creating(u)') <= Cardinality(Clients)
    <3>1. Creating(u)' \in SUBSET Clients
      BY DEF Creating
    <3>2. QED
      BY <3>1, FiniteListings, FS_Subset, FS_CardinalityType
  <2>3. QED
    BY <1>2, <2>1, <2>2, CountedSetsAreFinite
<1>4. CASE u # v
  <2>1. Creating(u)' = Creating(u)
    BY <1>4 DEF CreateCheck, Creating, TypeOK
  <2>2. QED
    BY <1>2, <2>1 DEF OvershootIsBounded
<1>5. QED
  BY <1>3, <1>4

LEMMA InsertKeepsOvershoot ==
  ASSUME TypeOK, OvershootIsBounded, NEW c \in Clients, NEW p \in Products, CreateCommit(c, p)
  PROVE  OvershootIsBounded'
<1>1. SUFFICES ASSUME NEW u \in Sellers
               PROVE  Cardinality(Owned(u)') + Cardinality(Creating(u)')
                        <= Limit(u) + Cardinality(Clients) - 1
  BY DEF OvershootIsBounded, Limit
<1>2. /\ p \notin Owned(u)
      /\ products'[p].status = "DRAFT" /\ products'[p].owner = tx[c].user
      /\ \A q \in Products \ {p} : products'[q] = products[q]
  BY DEF CreateCommit, Owned, Exists, ProductStatus, TypeOK
<1>3. Creating(u)' = Creating(u) \ {c}
  BY DEF CreateCommit, Creating, TypeOK, Idle
<1>4. CASE tx[c].user = u
  <2>1. Owned(u)' = Owned(u) \cup {p}
    BY <1>2, <1>4 DEF Owned, Exists, ProductStatus
  <2>2. Cardinality(Owned(u)') = Cardinality(Owned(u)) + 1
    BY <1>2, <2>1, CountedSetsAreFinite, FS_AddElement
  <2>3. c \in Creating(u)
    BY <1>4 DEF Creating, CreateCommit
  <2>4. Cardinality(Creating(u)') = Cardinality(Creating(u)) - 1
    BY <1>3, <2>3, CountedSetsAreFinite, FS_RemoveElement
  <2>5. QED
    BY <2>2, <2>4, CountedSetsAreFinite DEF OvershootIsBounded
<1>5. CASE tx[c].user # u
  <2>1. Owned(u)' = Owned(u)
    BY <1>2, <1>5 DEF Owned, Exists
  <2>2. Creating(u)' = Creating(u)
    BY <1>3, <1>5 DEF Creating
  <2>3. QED
    BY <2>1, <2>2 DEF OvershootIsBounded
<1>6. QED
  BY <1>4, <1>5

LEMMA CommitKeepsOvershoot ==
  ASSUME IInv, OvershootIsBounded, NEW c \in Clients, Commit(c)
  PROVE  OvershootIsBounded'
<1>1. PICK p \in Products : \E row \in Written(tx[c].op, tx[c].user, products[p]) :
        /\ products' = [products EXCEPT ![p] = row]
        /\ Exists(p) /\ products[p] \in ProductRow
        /\ tx[c].op \in Operations /\ tx[c].user \in Users
        /\ Allowed(tx[c].op, tx[c].user, p)
  <2>1. TxInv(c) /\ products \in [Products -> ProductRow]
    BY DEF IInv, TypeOK
  <2>2. PICK p \in Products : p = tx[c].product
    BY <2>1 DEF TxInv, Commit
  <2>3. /\ Exists(p) /\ tx[c].op \in Operations /\ tx[c].user \in Users
        /\ Allowed(tx[c].op, tx[c].user, p)
    BY <2>1, <2>2 DEF TxInv, Commit
  <2>4. QED
    BY <2>1, <2>2, <2>3 DEF Commit
<1>2. PICK row \in Written(tx[c].op, tx[c].user, products[p]) :
        products' = [products EXCEPT ![p] = row]
  BY <1>1
<1>3. row.status \in ProductStatus => row.owner = products[p].owner
  BY <1>1, <1>2, WrittenRow
<1>4. \A u \in Sellers : Owned(u)' \subseteq Owned(u)
  BY <1>1, <1>2, <1>3 DEF IInv, TypeOK, Owned, Exists
<1>5. \A u \in Sellers : Creating(u)' \subseteq Creating(u)
  BY DEF IInv, TypeOK, Commit, Creating, Idle
<1>6. QED
  BY <1>4, <1>5, OvershootShrinks

\* A seller has at most as many listings beyond the limit as requests run at a
\* time, less one, for any limits, sellers, listings and requests.
THEOREM SellersAreBounded == Spec => []OvershootIsBounded
<1>1. Init => OvershootIsBounded
  <2> SUFFICES ASSUME Init, NEW u \in Sellers
               PROVE  Cardinality(Owned(u)) + Cardinality(Creating(u))
                        <= Limit(u) + Cardinality(Clients) - 1
    BY DEF OvershootIsBounded
  <2>1. Owned(u) = {} /\ Creating(u) = {}
    BY DEF Init, Owned, Exists, NotCreated, ProductStatus, Creating, Idle
  <2>2. Cardinality(Clients) # 0
    BY SomeClients, FiniteListings, FS_EmptySet
  <2>3. QED
    BY <2>1, <2>2, FS_EmptySet, CountedSetsAreFinite
<1>2. IInv /\ OvershootIsBounded /\ [Next]_vars => OvershootIsBounded'
  <2> SUFFICES ASSUME IInv, OvershootIsBounded, [Next]_vars PROVE OvershootIsBounded'
    OBVIOUS
  <2>1. ASSUME NEW c \in Clients, NEW u \in Users, CreateCheck(c, u)
        PROVE  OvershootIsBounded'
    BY <2>1, CheckKeepsOvershoot DEF IInv
  <2>2. ASSUME NEW c \in Clients, NEW p \in Products, CreateCommit(c, p)
        PROVE  OvershootIsBounded'
    BY <2>2, InsertKeepsOvershoot DEF IInv
  <2>3. ASSUME NEW c \in Clients, NEW u \in Users, NEW p \in Products,
               NEW op \in Operations, Load(c, u, p, op)
        PROVE  OvershootIsBounded'
    <3>1. \A v \in Sellers : Owned(v)' = Owned(v)
      BY <2>3 DEF Load, Owned, Exists
    <3>2. \A v \in Sellers : Creating(v)' \subseteq Creating(v)
      BY <2>3 DEF IInv, TypeOK, Load, Creating, Operations
    <3>3. QED
      BY <3>1, <3>2, OvershootShrinks
  <2>4. ASSUME NEW c \in Clients, Commit(c) PROVE OvershootIsBounded'
    BY <2>4, CommitKeepsOvershoot
  <2>5. ASSUME NEW c \in Clients, Rollback(c) PROVE OvershootIsBounded'
    <3>1. \A v \in Sellers : Owned(v)' = Owned(v)
      BY <2>5 DEF Rollback, Owned, Exists
    <3>2. \A v \in Sellers : Creating(v)' \subseteq Creating(v)
      BY <2>5 DEF IInv, TypeOK, Rollback, Creating, Idle
    <3>3. QED
      BY <3>1, <3>2, OvershootShrinks
  <2>6. ASSUME NEW a \in PanelUsers, NEW s \in ProductStatus, NEW m \in Users \cup {None},
               PanelSave(a, s, m)
        PROVE  OvershootIsBounded'
    <3>1. \A v \in Sellers : Owned(v)' \subseteq Owned(v)
      BY <2>6, SavedRow DEF IInv, Owned, Exists
    <3>2. \A v \in Sellers : Creating(v)' = Creating(v)
      BY <2>6 DEF PanelSave, Creating
    <3>3. QED
      BY <3>1, <3>2, OvershootShrinks
  <2>7. CASE UNCHANGED <<products, tx>>
    BY <2>7, OvershootShrinks DEF Owned, Exists, Creating
  <2>8. QED
    BY <2>1, <2>2, <2>3, <2>4, <2>5, <2>6, <2>7
       DEF Next, Handlers, Panel, PanelLoad, PanelFails, vars
<1>3. QED
  BY <1>1, <1>2, ModerationInvariance, PTL DEF Spec

-----------------------------------------------------------------------------
(***************************************************************************)
(* The audit log follows the listings, for any number of them.  A request  *)
(* that has locked a row holds a snapshot of the row as it is, so that its *)
(* entry carries the replayed state from the old row to the new one.       *)
(***************************************************************************)

SnapshotInv(c) ==
    tx[c].op \in Operations => snapshot[c] = ProductRead(products[tx[c].product])

AuditInv ==
    /\ IInv
    /\ snapshot \in [Clients -> [Fields -> ProductStatus \cup {"ABSENT"} \cup Contents]]
    /\ recorded \in [Products -> [Fields -> ProductStatus \cup {"ABSENT"} \cup Contents]]
    /\ TrailIsCurrent
    /\ \A c \in Clients : SnapshotInv(c)

\* What a snapshot says.
LEMMA ReadFields ==
  ASSUME NEW row \in ProductRow, row.status \in ProductStatus
  PROVE  /\ ProductRead(row) \in [Fields -> ProductStatus \cup {"ABSENT"} \cup Contents]
         /\ ProductRead(row)["status"] = row.status
         /\ ProductRead(row)["content"] = row.content
<1>1. row["status"] = row.status /\ row["content"] = row.content
  BY DEF ProductRow
<1>2. row.status \in ProductStatus /\ row.content \in Contents
  BY DEF ProductRow
<1>3. QED
  BY <1>1, <1>2 DEF ProductRead, Fields

\* Replaying the difference of two snapshots gives the new value of a field that
\* changed, and of one that was known before.
LEMMA ReplayFollows ==
  ASSUME NEW known, NEW old, NEW new, NEW f \in Fields
  PROVE  Replay(known, GetDiff(old, new))[f] =
           IF new[f] # old[f] THEN new[f] ELSE known[f]
BY DEF Replay, GetDiff

\* The log takes nothing away from what the handlers do.
LEMMA AuditStepIsStep ==
  ASSUME [AuditNext]_auditVars PROVE [Next]_vars
BY DEF AuditNext, auditVars, LogCreate, TakeSnapshot, LogChange, DropSnapshot, Unlogged,
       Next, Handlers

LEMMA NoSnapshotType ==
  NoSnapshot \in [Fields -> ProductStatus \cup {"ABSENT"} \cup Contents]
<1>1. NotCreated["status"] = "ABSENT" /\ NotCreated["content"] = 0 /\ 0 \in Contents
  BY LimitsAreNatural DEF NotCreated, Contents
<1>2. QED
  BY <1>1 DEF NoSnapshot, ProductRead, Fields

\* Which operations change the status for certain.
LEMMA RowChanges ==
  ASSUME NEW op \in Operations, NEW u \in Users, NEW p \in Products,
         products[p] \in ProductRow, Exists(p), Allowed(op, u, p),
         NEW row \in Written(op, u, products[p])
  PROVE  /\ row \in ProductRow
         /\ op \in {"submit", "claim", "reject"} => row.status # products[p].status
         /\ op = "delete" => row.status = "DELETED"
         /\ op # "delete" => row.status \in ProductStatus
<1>1. row \in ProductRow
  BY WrittenRow
<1> USE DEF Written, ProductRow, ProductStatus, Exists, Allowed, Claimable
<1>2. CASE op = "submit"
  BY <1>1, <1>2 DEF Submitted
<1>3. CASE op = "update"
  BY <1>1, <1>3 DEF AfterEdit
<1>4. CASE op = "delete"
  BY <1>1, <1>4 DEF Deleted, NotCreated
<1>5. CASE op \in Operations \ {"submit", "update", "delete"}
  BY <1>1, <1>5 DEF Operations
<1>6. QED
  BY <1>2, <1>3, <1>4, <1>5

LEMMA InitAudit == AuditInit => AuditInv
<1> SUFFICES ASSUME AuditInit PROVE AuditInv
  OBVIOUS
<1>1. IInv
  BY InitInv DEF AuditInit
<1>2. NoSnapshot \in [Fields -> ProductStatus \cup {"ABSENT"} \cup Contents]
  BY NoSnapshotType
<1>3. TrailIsCurrent
  BY DEF AuditInit, Init, TrailIsCurrent, Exists, NotCreated, ProductStatus
<1>4. \A c \in Clients : SnapshotInv(c)
  BY DEF AuditInit, Init, SnapshotInv, Idle, Operations
<1>5. QED
  BY <1>1, <1>2, <1>3, <1>4 DEF AuditInit, AuditInv

\* A request keeps its snapshot true while its row is left alone.
LEMMA SnapshotsHold ==
  ASSUME AuditInv, NEW d \in Clients, tx'[d] = tx[d], snapshot'[d] = snapshot[d],
         \A p \in Products : lock[p] = d => products'[p] = products[p]
  PROVE  SnapshotInv(d)'
BY DEF AuditInv, IInv, TxInv, SnapshotInv

LEMMA LogCreateInv ==
  ASSUME AuditInv, NEW c \in Clients, NEW p \in Products, LogCreate(c, p), IInv'
  PROVE  AuditInv'
<1>1. /\ products[p].status = "ABSENT"
      /\ products' = [products EXCEPT ![p] =
                       [status |-> "DRAFT", owner |-> tx[c].user,
                        moderator |-> None, content |-> 0]]
      /\ tx' = [tx EXCEPT ![c] = Idle]
      /\ recorded' = [recorded EXCEPT ![p] = ProductRead(products'[p])]
      /\ UNCHANGED <<snapshot, lock, vetted, overridden>>
  BY DEF LogCreate, CreateCommit, history
<1>2. products'[p] \in ProductRow /\ products'[p].status \in ProductStatus
  BY <1>1 DEF AuditInv, IInv, TypeOK, ProductStatus
<1>3. /\ ProductRead(products'[p]) \in [Fields -> ProductStatus \cup {"ABSENT"} \cup Contents]
      /\ ProductRead(products'[p])["status"] = products'[p].status
      /\ ProductRead(products'[p])["content"] = products'[p].content
  BY <1>2, ReadFields
<1>4. TrailIsCurrent'
  BY <1>1, <1>3 DEF AuditInv, IInv, TypeOK, TrailIsCurrent, Exists
<1>5. ASSUME NEW d \in Clients PROVE SnapshotInv(d)'
  <2>1. CASE d = c
    BY <1>1, <2>1 DEF AuditInv, IInv, TypeOK, SnapshotInv, Idle, Operations
  <2>2. CASE d # c
    <3>1. ASSUME tx[d].op \in Operations
          PROVE  products'[tx[d].product] = products[tx[d].product]
      BY <1>1, <3>1 DEF AuditInv, IInv, TypeOK, TxInv, Exists, ProductStatus
    <3>2. QED
      BY <1>1, <2>2, <3>1 DEF AuditInv, IInv, TypeOK, SnapshotInv
  <2>3. QED
    BY <2>1, <2>2
<1>6. QED
  BY <1>1, <1>3, <1>4, <1>5 DEF AuditInv

LEMMA TakeSnapshotInv ==
  ASSUME AuditInv, NEW c \in Clients, NEW u \in Users, NEW p \in Products,
         NEW op \in Operations, TakeSnapshot(c, u, p, op), IInv'
  PROVE  AuditInv'
<1>1. /\ Exists(p)
      /\ tx' = [tx EXCEPT ![c] = [op |-> op, user |-> u, product |-> p]]
      /\ snapshot' = [snapshot EXCEPT ![c] = ProductRead(products[p])]
      /\ UNCHANGED <<products, recorded, overridden>>
  BY DEF TakeSnapshot, Load, history
<1>2. ProductRead(products[p]) \in [Fields -> ProductStatus \cup {"ABSENT"} \cup Contents]
  BY <1>1, ReadFields DEF AuditInv, IInv, TypeOK, Exists
<1>3. TrailIsCurrent'
  BY <1>1 DEF AuditInv, TrailIsCurrent, Exists
<1>4. ASSUME NEW d \in Clients PROVE SnapshotInv(d)'
  <2>1. CASE d = c
    BY <1>1, <2>1 DEF AuditInv, IInv, TypeOK, SnapshotInv
  <2>2. CASE d # c
    BY <1>1, <2>2, SnapshotsHold DEF AuditInv, IInv, TypeOK
  <2>3. QED
    BY <2>1, <2>2
<1>5. QED
  BY <1>1, <1>2, <1>3, <1>4 DEF AuditInv

LEMMA LogChangeInv ==
  ASSUME AuditInv, NEW c \in Clients, LogChange(c), IInv'
  PROVE  AuditInv'
<1>1. PICK op, u, p : op = tx[c].op /\ u = tx[c].user /\ p = tx[c].product
  OBVIOUS
<1>2. /\ op \in Operations /\ u \in Users /\ p \in Products
      /\ lock[p] = c /\ Exists(p) /\ Allowed(op, u, p)
      /\ products[p] \in ProductRow
      /\ snapshot[c] = ProductRead(products[p])
  BY <1>1 DEF AuditInv, IInv, TypeOK, TxInv, SnapshotInv, LogChange, Commit
<1>3. PICK row \in Written(op, u, products[p]) :
        products' = [products EXCEPT ![p] = row]
  BY <1>1 DEF LogChange, Commit
<1>4. /\ row \in ProductRow
      /\ op \in {"submit", "claim", "reject"} => row.status # products[p].status
      /\ op = "delete" => row.status = "DELETED"
      /\ op # "delete" => row.status \in ProductStatus
  BY <1>2, RowChanges
<1>5. /\ overridden' = IF op \in {"submit", "claim", "reject", "delete"}
                       THEN overridden \ {p} ELSE overridden
      /\ tx' = [tx EXCEPT ![c] = Idle]
      /\ recorded' = [recorded EXCEPT ![p] = Replay(@, GetDiff(snapshot[c], Shown(c)))]
      /\ snapshot' = [snapshot EXCEPT ![c] = NoSnapshot]
  BY <1>1 DEF LogChange, Commit
<1>6. /\ products'[p] = row
      /\ \A q \in Products \ {p} : products'[q] = products[q]
  BY <1>2, <1>3 DEF AuditInv, IInv, TypeOK
<1>7. /\ Shown(c) = ProductRead(IF op = "delete" THEN products[p] ELSE row)
      /\ recorded'[p] = Replay(recorded[p], GetDiff(snapshot[c], Shown(c)))
      /\ \A q \in Products \ {p} : recorded'[q] = recorded[q]
  BY <1>1, <1>2, <1>5, <1>6 DEF AuditInv, Shown
<1>8. /\ snapshot[c] \in [Fields -> ProductStatus \cup {"ABSENT"} \cup Contents]
      /\ Shown(c) \in [Fields -> ProductStatus \cup {"ABSENT"} \cup Contents]
      /\ snapshot[c]["status"] = products[p].status
      /\ snapshot[c]["content"] = products[p].content
      /\ op # "delete" => /\ Shown(c)["status"] = row.status
                          /\ Shown(c)["content"] = row.content
  BY <1>2, <1>4, <1>7, ReadFields DEF Exists
<1>9. \A f \in Fields : recorded'[p][f] =
        IF Shown(c)[f] # snapshot[c][f] THEN Shown(c)[f] ELSE recorded[p][f]
  BY <1>7, ReplayFollows
<1>10. recorded' \in [Products -> [Fields -> ProductStatus \cup {"ABSENT"} \cup Contents]]
  <2>1. recorded'[p] \in [Fields -> ProductStatus \cup {"ABSENT"} \cup Contents]
    <3>1. DOMAIN recorded'[p] = Fields /\ recorded'[p] = [f \in Fields |-> recorded'[p][f]]
      BY <1>7 DEF Replay
    <3>2. \A f \in Fields : recorded'[p][f] \in ProductStatus \cup {"ABSENT"} \cup Contents
      BY <1>2, <1>8, <1>9 DEF AuditInv
    <3>3. QED
      BY <3>1, <3>2
  <2>2. QED
    BY <1>2, <1>5, <1>7, <2>1 DEF AuditInv
<1>11. TrailIsCurrent'
  <2>1. ASSUME NEW q \in Products, Exists(q)'
        PROVE  /\ recorded'[q].content = products'[q].content
               /\ q \notin overridden' => recorded'[q].status = products'[q].status
    <3>1. CASE q # p
      BY <1>5, <1>6, <1>7, <2>1, <3>1 DEF AuditInv, TrailIsCurrent, Exists
    <3>2. CASE q = p
      <4>1. op # "delete"
        BY <1>4, <1>6, <2>1, <3>2 DEF Exists, ProductStatus
      <4>2. /\ recorded[p].content = products[p].content
            /\ p \notin overridden => recorded[p].status = products[p].status
        BY <1>2 DEF AuditInv, TrailIsCurrent
      <4>3. recorded'[p]["content"] = row.content
        BY <1>8, <1>9, <4>1, <4>2 DEF Fields
      <4>4. p \notin overridden' => recorded'[p]["status"] = row.status
        BY <1>4, <1>5, <1>8, <1>9, <4>1, <4>2 DEF Fields
      <4>5. QED
        BY <1>6, <3>2, <4>3, <4>4
    <3>3. QED
      BY <3>1, <3>2
  <2>2. QED
    BY <2>1 DEF TrailIsCurrent
<1>12. ASSUME NEW d \in Clients PROVE SnapshotInv(d)'
  <2>1. CASE d = c
    BY <1>5, <2>1 DEF AuditInv, IInv, TypeOK, SnapshotInv, Idle, Operations
  <2>2. CASE d # c
    <3>1. \A q \in Products : lock[q] = d => products'[q] = products[q]
      BY <1>2, <1>6, <2>2
    <3>2. tx'[d] = tx[d] /\ snapshot'[d] = snapshot[d]
      BY <1>5, <2>2 DEF AuditInv, IInv, TypeOK
    <3>3. QED
      BY <3>1, <3>2, SnapshotsHold
  <2>3. QED
    BY <2>1, <2>2
<1>13. snapshot' \in [Clients -> [Fields -> ProductStatus \cup {"ABSENT"} \cup Contents]]
  BY <1>5, NoSnapshotType DEF AuditInv
<1>14. QED
  BY <1>10, <1>11, <1>12, <1>13 DEF AuditInv

LEMMA DropSnapshotInv ==
  ASSUME AuditInv, NEW c \in Clients, DropSnapshot(c), IInv'
  PROVE  AuditInv'
<1>1. /\ tx' = [tx EXCEPT ![c] = Idle]
      /\ snapshot' = [snapshot EXCEPT ![c] = NoSnapshot]
      /\ UNCHANGED <<products, recorded, overridden>>
  BY DEF DropSnapshot, Rollback, history
<1>2. TrailIsCurrent'
  BY <1>1 DEF AuditInv, TrailIsCurrent, Exists
<1>3. ASSUME NEW d \in Clients PROVE SnapshotInv(d)'
  <2>1. CASE d = c
    BY <1>1, <2>1 DEF AuditInv, IInv, TypeOK, SnapshotInv, Idle, Operations
  <2>2. CASE d # c
    BY <1>1, <2>2, SnapshotsHold DEF AuditInv, IInv, TypeOK
  <2>3. QED
    BY <2>1, <2>2
<1>4. QED
  BY <1>1, <1>2, <1>3, NoSnapshotType DEF AuditInv

\* A panel save marks the listing it changes, and leaves what the listing says.
LEMMA UnloggedInv ==
  ASSUME AuditInv, Unlogged, IInv'
  PROVE  AuditInv'
<1>1. UNCHANGED <<snapshot, recorded>>
  BY DEF Unlogged, trail
<1>2. ASSUME NEW c \in Clients, NEW u \in Users, CreateCheck(c, u)
      PROVE  AuditInv'
  <2>1. /\ UNCHANGED <<products, overridden>>
        /\ tx' = [tx EXCEPT ![c] = [op |-> "create", user |-> u, product |-> None]]
    BY <1>2 DEF CreateCheck, history
  <2>2. \A d \in Clients : SnapshotInv(d)'
    BY <1>1, <2>1 DEF AuditInv, IInv, TypeOK, SnapshotInv, Operations
  <2>3. QED
    BY <1>1, <2>1, <2>2 DEF AuditInv, TrailIsCurrent, Exists
<1>3. CASE UNCHANGED <<products, tx, overridden>>
  BY <1>1, <1>3 DEF AuditInv, TrailIsCurrent, Exists, SnapshotInv
<1>4. ASSUME NEW a \in PanelUsers, NEW s \in ProductStatus, NEW m \in Users \cup {None},
             PanelSave(a, s, m)
      PROVE  AuditInv'
  <2>1. PICK p \in Products :
          /\ lock[p] = None /\ Exists(p)
          /\ products'[p].content = products[p].content
          /\ p \in overridden' \/ products'[p] = products[p]
          /\ \A q \in Products \ {p} : products'[q] = products[q]
          /\ overridden \subseteq overridden'
    BY <1>4, SavedRow DEF AuditInv, IInv
  <2>2. tx' = tx
    BY <1>4 DEF PanelSave
  <2>3. TrailIsCurrent'
    BY <1>1, <2>1 DEF AuditInv, TrailIsCurrent, Exists
  <2>4. ASSUME NEW d \in Clients PROVE SnapshotInv(d)'
    BY <1>1, <2>1, <2>2, NoneIsNobody, SnapshotsHold
  <2>5. QED
    BY <1>1, <2>3, <2>4 DEF AuditInv
<1>5. QED
  BY <1>2, <1>3, <1>4 DEF Unlogged, Panel, PanelLoad, PanelFails, history

THEOREM AuditInvariance == AuditSpec => []AuditInv
<1>1. ASSUME AuditInv, [AuditNext]_auditVars PROVE AuditInv'
  <2>1. IInv'
    BY <1>1, AuditStepIsStep, NextInv DEF AuditInv
  <2>2. CASE AuditNext
    BY <1>1, <2>1, <2>2, LogCreateInv, TakeSnapshotInv, LogChangeInv, DropSnapshotInv,
       UnloggedInv DEF AuditNext
  <2>3. CASE UNCHANGED auditVars
    BY <1>1, <2>1, <2>3 DEF auditVars, vars, trail, history, AuditInv, TrailIsCurrent,
                            Exists, SnapshotInv
  <2>4. QED
    BY <1>1, <2>2, <2>3
<1>2. QED
  BY <1>1, InitAudit, PTL DEF AuditSpec

\* Replaying the log gives every listing as it is, for any number of concurrent
\* requests, up to the status of those a panel save has overridden.
THEOREM TrailFollowsListings == AuditSpec => []TrailIsCurrent
<1>1. AuditInv => TrailIsCurrent
  BY DEF AuditInv
<1>2. QED
  BY <1>1, AuditInvariance, PTL

\* Keeping the log changes nothing about the listings.
THEOREM AuditedListings == AuditSpec => Spec
<1>1. AuditInit => Init
  BY DEF AuditInit
<1>2. [AuditNext]_auditVars => [Next]_vars
  BY AuditStepIsStep
<1>3. QED
  BY <1>1, <1>2, PTL DEF AuditSpec, Spec
=============================================================================
