-------------------------- MODULE ProductModeration --------------------------
(***************************************************************************)
(* The life of a product listing: created by a seller within a limit,      *)
(* submitted, claimed and decided by a moderator, edited, activated by an  *)
(* override, deleted.  Every handler but creation locks the product row    *)
(* FOR UPDATE in its first statement and commits once, so a handler is a   *)
(* Load and a Commit; creation counts the seller's listings without a lock *)
(* and inserts later.  The product form of the admin panel reads the row   *)
(* without a lock and writes the status and the moderator it was filled    *)
(* in with, whatever they have become.  What a listing says is a version   *)
(* number.                                                                 *)
(***************************************************************************)
EXTENDS Naturals, FiniteSets

CONSTANTS
    Sellers,         \* users whose role is SELLER or SELLER_B2B
    VerifiedSellers, \* those with is_verified
    Admins,
    Moderators,
    PanelUsers,      \* the admins and moderators who use the panel's product form
    Products,        \* product ids (uuid4)
    Clients,         \* API request slots, each with a database session
    UnverifiedLimit, \* settings.unverified_seller_limit
    VerifiedLimit,   \* settings.verified_seller_limit
    MaxContent,      \* bound on the versions of a listing
    MaxSaves,        \* bound on the saves of the panel's product form
    None

Staff == Admins \cup Moderators
Users == Sellers \cup Staff

ASSUME RolesAreDistinct ==
    /\ Sellers \cap Staff = {} /\ VerifiedSellers \subseteq Sellers
    /\ PanelUsers \subseteq Staff
ASSUME FiniteListings == IsFiniteSet(Products) /\ IsFiniteSet(Clients)
ASSUME SomeClients == Clients # {}
ASSUME LimitsAreNatural ==
    UnverifiedLimit \in Nat /\ VerifiedLimit \in Nat /\ MaxContent \in Nat /\ MaxSaves \in Nat
ASSUME NoneIsNobody == None \notin Users \cup Products \cup Clients

VARIABLES
    products,   \* products, by id
    lock,       \* the client that has locked each product row
    tx,         \* the request in progress in each client's session
    loaded,     \* the row each panel user's save has read, or NothingLoaded
    saves,      \* number of panel saves so far
    vetted,     \* history: what each listing said when the staff last claimed it
                \* or, by an override, activated it
    overridden  \* history: listings a panel save has changed since it was
                \* last submitted, claimed or rejected

panel == <<loaded, saves>>
history == <<vetted, overridden>>
vars == <<products, lock, tx, panel, history>>

ProductStatus == {"DRAFT", "PENDING_MODERATION", "MODERATION_IN_PROGRESS",
                  "ACTIVE", "ARCHIVED", "REJECTED"}
Contents == 0 .. MaxContent
Operations == {"submit", "update", "delete", "activate", "claim", "approve", "reject"}

NotCreated == [status |-> "ABSENT", owner |-> None, moderator |-> None, content |-> 0]
Deleted == [NotCreated EXCEPT !.status = "DELETED"]
Idle == [op |-> "idle", user |-> None, product |-> None]
NothingLoaded == [product |-> None, status |-> "ABSENT", moderator |-> None]

ProductRow == [status : ProductStatus \cup {"ABSENT", "DELETED"},
               owner : Users \cup {None}, moderator : Users \cup {None},
               content : Contents]
RequestState == [op : Operations \cup {"idle", "create"},
                 user : Users \cup {None}, product : Products \cup {None}]
LoadedRow == {NothingLoaded} \cup
             [product : Products, status : ProductStatus, moderator : Users \cup {None}]

TypeOK ==
    /\ products \in [Products -> ProductRow]
    /\ \A p \in Products : products[p].status \in ProductStatus => products[p].owner \in Users
    /\ lock \in [Products -> Clients \cup {None}]
    /\ tx \in [Clients -> RequestState]
    /\ loaded \in [PanelUsers -> LoadedRow]
    /\ saves \in 0 .. MaxSaves
    /\ vetted \in [Products -> Contents]
    /\ overridden \in SUBSET Products

Init ==
    /\ products = [p \in Products |-> NotCreated]
    /\ lock = [p \in Products |-> None]
    /\ tx = [c \in Clients |-> Idle]
    /\ loaded = [a \in PanelUsers |-> NothingLoaded]
    /\ saves = 0
    /\ vetted = [p \in Products |-> 0]
    /\ overridden = {}

Exists(p) == products[p].status \in ProductStatus

-----------------------------------------------------------------------------
(* Creation.                                                               *)

Owned(u) == {p \in Products : Exists(p) /\ products[p].owner = u}

Limit(u) == IF u \in VerifiedSellers THEN VerifiedLimit ELSE UnverifiedLimit

\* Mutant: one listing more than the limit.
AtMostLimit(u) == u \in Staff \/ Cardinality(Owned(u)) <= Limit(u)

\* _check_seller_limit
WithinLimit(u) == u \in Staff \/ Cardinality(Owned(u)) < Limit(u)

CreateCheck(c, u) ==
    /\ tx[c].op = "idle"
    /\ u \in Sellers \cup Admins
    /\ WithinLimit(u)
    /\ tx' = [tx EXCEPT ![c] = [op |-> "create", user |-> u, product |-> None]]
    /\ UNCHANGED <<products, lock, panel, history>>

CreateCommit(c, p) ==
    /\ tx[c].op = "create"
    /\ products[p].status = "ABSENT"
    /\ products' = [products EXCEPT ![p] =
                      [status |-> "DRAFT", owner |-> tx[c].user,
                       moderator |-> None, content |-> 0]]
    /\ tx' = [tx EXCEPT ![c] = Idle]
    /\ UNCHANGED <<lock, panel, history>>

-----------------------------------------------------------------------------
(* Handlers that change one listing.                                       *)

\* check_ownership
MayEdit(u, p) == u \in Staff \/ products[p].owner = u

\* Mutant: no role is required for moderation.
AnyoneModerates(u) == TRUE

\* ADMIN_DEPENDENCY
MayModerate(u) == u \in Staff

\* Mutant: a listing may be edited while a moderator has it.
EditableUnlessPending == ProductStatus \ {"PENDING_MODERATION"}

Editable == ProductStatus \ {"PENDING_MODERATION", "MODERATION_IN_PROGRESS"}

Claimable == {"PENDING_MODERATION"}

\* Who may do op to p, and in which statuses.
Allowed(op, u, p) ==
    \/ /\ op = "submit"
       /\ u \in Sellers \cup Admins /\ MayEdit(u, p)
       /\ products[p].status \in {"DRAFT", "REJECTED"}
    \/ op = "update" /\ MayEdit(u, p) /\ products[p].status \in Editable
    \/ op \in {"delete", "activate"} /\ MayModerate(u)
    \/ op = "claim" /\ MayModerate(u) /\ products[p].status \in Claimable
    \/ /\ op \in {"approve", "reject"}
       /\ MayModerate(u)
       /\ products[p].status = "MODERATION_IN_PROGRESS"

\* Mutant: the row is read without FOR UPDATE.
NotLocking(p, c) == lock

Locking(p, c) == [lock EXCEPT ![p] = c]

\* SELECT ... FOR UPDATE and the checks of the handler.
Load(c, u, p, op) ==
    /\ tx[c].op = "idle"
    /\ lock[p] = None
    /\ Exists(p)
    /\ Allowed(op, u, p)
    /\ lock' = Locking(p, c)
    /\ tx' = [tx EXCEPT ![c] = [op |-> op, user |-> u, product |-> p]]
    /\ UNCHANGED <<products, panel, history>>

\* Mutant: an edited listing keeps its moderator.
AfterEditKeepingModerator(row) ==
    IF row.status = "ACTIVE" THEN [row EXCEPT !.status = "PENDING_MODERATION"] ELSE row

\* update_product: an edited listing goes back to moderation.
AfterEdit(row) ==
    IF row.status = "ACTIVE"
    THEN [row EXCEPT !.status = "PENDING_MODERATION", !.moderator = None]
    ELSE row

Submitted(row) ==
    [row EXCEPT !.status = "PENDING_MODERATION", !.moderator = None]

\* The rows that op by u may leave of row.  An update may change nothing.
Written(op, u, row) ==
    CASE op = "submit" -> {Submitted(row)}
      [] op = "update" ->
           {AfterEdit([row EXCEPT !.content = n]) :
              n \in {row.content, row.content + 1} \cap Contents}
      [] op = "delete" -> {Deleted}
      [] op = "activate" -> {[row EXCEPT !.status = "ACTIVE"]}
      [] op = "claim" ->
           {[row EXCEPT !.status = "MODERATION_IN_PROGRESS", !.moderator = u]}
      [] op = "approve" -> {[row EXCEPT !.status = "ACTIVE", !.moderator = None]}
      [] op = "reject" -> {[row EXCEPT !.status = "REJECTED", !.moderator = None]}

\* The flush and the commit.
Commit(c) ==
    LET t == tx[c]
        p == t.product
    IN
    /\ t.op \in Operations
    /\ \E row \in Written(t.op, t.user, products[p]) :
         products' = [products EXCEPT ![p] = row]
    /\ vetted' = IF t.op \in {"claim", "activate"}
                 THEN [vetted EXCEPT ![p] = products[p].content] ELSE vetted
    /\ overridden' = IF t.op \in {"submit", "claim", "reject", "delete"}
                     THEN overridden \ {p} ELSE overridden
    /\ lock' = [q \in Products |-> IF lock[q] = c THEN None ELSE lock[q]]
    /\ tx' = [tx EXCEPT ![c] = Idle]
    /\ UNCHANGED panel

\* A request that fails is rolled back, as is the deletion of a product that was
\* ever reserved (SellerDesk says which).
Rollback(c) ==
    /\ tx[c].op # "idle"
    /\ lock' = [q \in Products |-> IF lock[q] = c THEN None ELSE lock[q]]
    /\ tx' = [tx EXCEPT ![c] = Idle]
    /\ UNCHANGED <<products, panel, history>>

-----------------------------------------------------------------------------
(* The product form of the admin panel.                                    *)

\* A save reads the row again, without a lock.
PanelLoad(a, p) ==
    /\ loaded[a] = NothingLoaded
    /\ saves < MaxSaves
    /\ Exists(p)
    /\ loaded' = [loaded EXCEPT ![a] = [product |-> p, status |-> products[p].status,
                                        moderator |-> products[p].moderator]]
    /\ saves' = saves + 1
    /\ UNCHANGED <<products, lock, tx, history>>

\* The columns of the UPDATE are those where the form differs from what was read.
Overwritten(row, read, status, moderator) ==
    [row EXCEPT !.status = IF status = read.status THEN @ ELSE status,
                !.moderator = IF moderator = read.moderator THEN @ ELSE moderator]

\* Mutant: the UPDATE does not wait for the row.
UnlockedFor(p) == TRUE

\* The UPDATE waits for the request that holds the row.
Unlocked(p) == lock[p] = None

\* The form says any status and any user: what it showed when it was opened, or
\* what was chosen then.
PanelSave(a, status, moderator) ==
    LET read == loaded[a]
        p == read.product
    IN
    /\ read # NothingLoaded
    /\ Exists(p) /\ Unlocked(p)
    /\ products' = [products EXCEPT ![p] = Overwritten(@, read, status, moderator)]
    /\ overridden' = IF status = read.status /\ moderator = read.moderator
                     THEN overridden ELSE overridden \cup {p}
    /\ loaded' = [loaded EXCEPT ![a] = NothingLoaded]
    /\ UNCHANGED <<lock, tx, saves, vetted>>

\* The listing was deleted, or the save fails.
PanelFails(a) ==
    /\ loaded[a] # NothingLoaded
    /\ loaded' = [loaded EXCEPT ![a] = NothingLoaded]
    /\ UNCHANGED <<products, lock, tx, saves, history>>

Panel ==
    \E a \in PanelUsers :
      \/ \E p \in Products : PanelLoad(a, p)
      \/ \E s \in ProductStatus, m \in Users \cup {None} : PanelSave(a, s, m)
      \/ PanelFails(a)

-----------------------------------------------------------------------------
Handlers ==
    \E c \in Clients :
      \/ \E u \in Users : CreateCheck(c, u)
      \/ \E p \in Products : CreateCommit(c, p)
      \/ \E u \in Users, p \in Products, op \in Operations : Load(c, u, p, op)
      \/ Commit(c)
      \/ Rollback(c)

Next == Handlers \/ Panel

Spec == Init /\ [][Next]_vars

-----------------------------------------------------------------------------
(* Properties.                                                             *)

\* A listing has a moderator, of the staff, while it is being moderated and none
\* while it waits for one, through resubmissions, overrides and edits.  What a panel save
\* has broken, the next submission, claim or rejection repairs.
ModeratorAssigned ==
    \A p \in Products \ overridden :
      /\ products[p].status = "MODERATION_IN_PROGRESS" => products[p].moderator \in Staff
      /\ products[p].status \in {"DRAFT", "PENDING_MODERATION", "REJECTED"} =>
           products[p].moderator = None

\* What is on sale is what the staff put on sale: the text a moderator claimed
\* and then approved, or the text an override activated.  No edit of the seller,
\* whenever it was started, gets on sale without a new decision, unless a panel
\* save with an old status lets it.
OnSaleIsApproved ==
    \A p \in Products \ overridden :
      products[p].status \in {"MODERATION_IN_PROGRESS", "ACTIVE"} =>
        products[p].content = vetted[p]

\* Of two moderators who claim a listing at the same time one is refused: a
\* claim ends with a decision, an override or a deletion, and only a panel save
\* hands it to another moderator.
ClaimIsExclusive ==
    [][\A p \in Products :
         (/\ products[p].status = "MODERATION_IN_PROGRESS"
          /\ products'[p].status = "MODERATION_IN_PROGRESS")
           => \/ products'[p].moderator = products[p].moderator
              \/ \E a \in PanelUsers : loaded[a].product = p /\ loaded'[a] = NothingLoaded]_vars

\* Requests of u that have counted and not inserted yet.
Creating(u) == {c \in Clients : tx[c].op = "create" /\ tx[c].user = u}

\* The unlocked count lets a seller exceed the limit, by at most the number of
\* requests that run at the same time, less one: those that will still insert count.
OvershootIsBounded ==
    \A u \in Sellers :
      Cardinality(Owned(u)) + Cardinality(Creating(u))
        <= Limit(u) + Cardinality(Clients) - 1
=============================================================================
