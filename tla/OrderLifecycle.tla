--------------------------- MODULE OrderLifecycle ---------------------------
(***************************************************************************)
(* Stock, reservations and orders of FairDrop, as rows of one Postgres     *)
(* database (READ COMMITTED) changed by concurrent transactions:           *)
(*                                                                         *)
(*   - API requests: InventoryService.reserve_items,                       *)
(*     OrderService.create_order_from_reservation, confirm_order_payment   *)
(*     and cancel_order, each one session and one commit;                  *)
(*   - the ARQ job release_expired_reservations ("the sweep"), one session *)
(*     for many commits, run by cron every minute.                         *)
(*                                                                         *)
(* Every row read with SELECT ... FOR UPDATE is locked until its           *)
(* transaction ends.  A transaction is cut where it may have to wait for a *)
(* row lock and between its read of a stock and the write computed from    *)
(* it.  A request that is refused (NotFoundError, ConflictError, ...)      *)
(* before it writes leaves no trace, so refusals are guards.               *)
(***************************************************************************)
EXTENDS Naturals, FiniteSets

CONSTANTS
    Users,          \* buyers
    Staff,          \* the users whose role is ADMIN or MODERATOR
    Products,       \* product rows
    Keys,           \* idempotency keys; a reservation row is named by its key
    Orders,         \* order ids (uuid4)
    Clients,        \* API request slots, each with a database session
    Workers,        \* concurrent executions of the sweep
    MaxQuantity,    \* bound on the quantity of a reservation
    Stock,          \* qty_available of each product before the first sale
    MaxFailures,    \* bound on aborted requests, failed iterations, crashes
    ExpireOnCommit, \* does a session forget its objects when it commits?
    None

ASSUME FiniteRows ==
    IsFiniteSet(Products) /\ IsFiniteSet(Keys) /\ IsFiniteSet(Orders)
ASSUME StaffAreUsers == Staff \subseteq Users
ASSUME StockIsNatural == Stock \in [Products -> Nat]
ASSUME BoundsAreNatural == MaxQuantity \in Nat /\ MaxFailures \in Nat
ASSUME ExpireOnCommitIsBoolean == ExpireOnCommit \in BOOLEAN
ASSUME RowsAreDistinct ==
    /\ Products \cap Keys = {}
    /\ Products \cap Orders = {}
    /\ Keys \cap Orders = {}
    /\ Clients \cap Workers = {}
ASSUME NoneIsNothing ==
    None \notin Users \cup Products \cup Keys \cup Orders \cup Clients \cup Workers

VARIABLES
    qty_available,  \* products.qty_available
    reservation,    \* reservations, by idempotency key
    orders,         \* orders, by id
    due,            \* the pending reservations whose expires_at has passed
    lock,           \* the transaction holding each row FOR UPDATE, or None
    tx,             \* the request in progress in each client's session
    sweep,          \* the state of each execution of the sweep
    failures        \* number of failures so far

vars == <<qty_available, reservation, orders, due, lock, tx, sweep, failures>>

Procs == Clients \cup Workers
Rows == Products \cup Keys \cup Orders
Quantities == 1 .. MaxQuantity

ReservationStatus == {"PENDING", "COMPLETED", "CANCELLED", "EXPIRED"}
OrderStatus == {"PENDING", "PAID", "CANCELLED"}

NoReservation ==
    [status |-> "ABSENT", user |-> None, product |-> None, qty |-> 0, order |-> None]
NoOrder == [status |-> "ABSENT", user |-> None]

Idle == [pc |-> "idle", user |-> None, key |-> None, order |-> None,
         product |-> None, qty |-> 0, seen |-> 0]
NotRunning == [pc |-> "off", todo |-> {}, key |-> None, seen |-> 0,
               cached |-> None, cachedQty |-> 0]

\* A row, or its absence.
ReservationRow ==
    [status : ReservationStatus \cup {"ABSENT"}, user : Users \cup {None},
     product : Products \cup {None}, qty : Quantities \cup {0},
     order : Orders \cup {None}]
OrderRow == [status : OrderStatus \cup {"ABSENT"}, user : Users \cup {None}]

\* What a request and a sweep keep in memory between two statements.
RequestState ==
    [pc : {"idle", "reserving", "ordering", "paying", "cancelling", "returning"},
     user : Users \cup {None}, key : Keys \cup {None}, order : Orders \cup {None},
     product : Products \cup {None}, qty : Quantities \cup {0}, seen : Nat]
SweepState ==
    [pc : {"off", "picking", "locking", "locked", "loaded"},
     todo : SUBSET Keys, key : Keys \cup {None}, seen : Nat,
     cached : Products \cup {None}, cachedQty : Nat]

TypeOK ==
    /\ qty_available \in [Products -> Nat]
    /\ reservation \in [Keys -> ReservationRow]
    /\ orders \in [Orders -> OrderRow]
    /\ due \in SUBSET Keys
    /\ lock \in [Rows -> Procs \cup {None}]
    /\ tx \in [Clients -> RequestState]
    /\ sweep \in [Workers -> SweepState]
    /\ failures \in Nat

Init ==
    /\ qty_available = Stock
    /\ reservation = [k \in Keys |-> NoReservation]
    /\ orders = [o \in Orders |-> NoOrder]
    /\ due = {}
    /\ lock = [r \in Rows |-> None]
    /\ tx = [c \in Clients |-> Idle]
    /\ sweep = [w \in Workers |-> NotRunning]
    /\ failures = 0

-----------------------------------------------------------------------------
(* Row locks.                                                              *)

\* p may lock r: nobody else holds it.
Free(r, p) == lock[r] \in {None, p}

\* Mutant: the product is read without FOR UPDATE.
LockingButProducts(r, p) == IF r \in Products THEN lock ELSE [lock EXCEPT ![r] = p]

\* Mutant: the reservation is read without FOR UPDATE.
LockingButReservations(r, p) == IF r \in Keys THEN lock ELSE [lock EXCEPT ![r] = p]

\* SELECT ... FOR UPDATE of one row by p.
Locking(r, p) == [lock EXCEPT ![r] = p]

\* COMMIT or ROLLBACK of p: every row it holds is unlocked.
Unlocking(p) == [r \in Rows |-> IF lock[r] = p THEN None ELSE lock[r]]

\* The reservations linked to order o (WHERE reservations.order_id = o).
LinkedTo(o) == {k \in Keys : reservation[k].order = o}

\* The rows p has to lock in its next statements.  A payment and a cancellation
\* write the order (the audit entry flushes it), then lock its reservation.
Needs(p) ==
    IF p \in Clients
    THEN CASE tx[p].pc \in {"paying", "cancelling"} ->
                {tx[p].order} \cup LinkedTo(tx[p].order)
           [] tx[p].pc = "returning" -> {tx[p].product}
           [] tx[p].pc = "ordering" -> {tx[p].product}
           [] OTHER -> {}
    ELSE CASE sweep[p].pc = "locking" -> {sweep[p].key}
           [] sweep[p].pc = "locked" -> {reservation[sweep[p].key].product}
           [] sweep[p].pc = "loaded" -> {reservation[sweep[p].key].order} \ {None}
           [] OTHER -> {}

Blockers(p) == {lock[r] : r \in Needs(p)} \ {None, p}

\* Each member of S waits for a row held by another, and all of S is waited
\* for: the waits of S form cycles, which is what Postgres looks for after
\* deadlock_timeout.
Deadlocked(S) ==
    /\ S # {}
    /\ \A p \in S : S \cap Blockers(p) # {}
    /\ \A q \in S : \E p \in S : q \in Blockers(p)

-----------------------------------------------------------------------------
(* API requests.  The end of a request leaves its session idle.            *)

Finish(c) == [tx EXCEPT ![c] = Idle]

\* Mutant: the stock is not compared with the quantity.
AnyQuantity(p, n) == TRUE

\* reserve_items, the check made under the product's lock.
Enough(p, n) == qty_available[p] >= n

ReserveRead(c, u, k, p, n) ==
    /\ tx[c].pc = "idle"
    /\ Free(p, c)
    /\ Enough(p, n)
    /\ lock' = Locking(p, c)
    /\ tx' = [tx EXCEPT ![c] =
                [pc |-> "reserving", user |-> u, key |-> k, order |-> None,
                 product |-> p, qty |-> n, seen |-> qty_available[p]]]
    /\ UNCHANGED <<qty_available, reservation, orders, due, sweep, failures>>

ReserveCommit(c) ==
    LET t == tx[c] IN
    /\ t.pc = "reserving"
    /\ reservation[t.key].status = "ABSENT"
    /\ qty_available' = [qty_available EXCEPT ![t.product] = t.seen - t.qty]
    /\ reservation' = [reservation EXCEPT ![t.key] =
                         [status |-> "PENDING", user |-> t.user,
                          product |-> t.product, qty |-> t.qty, order |-> None]]
    /\ lock' = Unlocking(c)
    /\ tx' = Finish(c)
    /\ UNCHANGED <<orders, due, sweep, failures>>

\* Mutant: the IntegrityError is taken for a passing one and the INSERT retried.
RetryInsert(c) ==
    /\ tx[c].pc = "reserving"
    /\ reservation[tx[c].key].status # "ABSENT"
    /\ tx' = [tx EXCEPT ![c].seen = qty_available[tx[c].product]]
    /\ UNCHANGED <<qty_available, reservation, orders, due, lock, sweep, failures>>

\* The unique index on idempotency_key refuses the INSERT: rollback.
ReserveConflict(c) ==
    /\ tx[c].pc = "reserving"
    /\ reservation[tx[c].key].status # "ABSENT"
    /\ lock' = Unlocking(c)
    /\ tx' = Finish(c)
    /\ UNCHANGED <<qty_available, reservation, orders, due, sweep, failures>>

\* Mutant: a reservation that has an order may get another one.
OrderableAgain(u, k) ==
    /\ reservation[k].status = "PENDING"
    /\ reservation[k].user = u
    /\ k \notin due

\* create_order_from_reservation: what the locked row must look like.
Orderable(u, k) ==
    /\ reservation[k].status = "PENDING"
    /\ reservation[k].user = u
    /\ k \notin due
    /\ reservation[k].order = None

\* uuid4 never returns an id that is stored or in use by a running request.
FreshOrder(o) ==
    /\ orders[o].status = "ABSENT"
    /\ \A c \in Clients : tx[c].pc = "ordering" => tx[c].order # o

PlaceOrderRead(c, u, k, o) ==
    /\ tx[c].pc = "idle"
    /\ Free(k, c)
    /\ Orderable(u, k)
    /\ FreshOrder(o)
    /\ lock' = Locking(k, c)
    /\ tx' = [tx EXCEPT ![c] =
                [pc |-> "ordering", user |-> u, key |-> k, order |-> o,
                 product |-> reservation[k].product, qty |-> 0, seen |-> 0]]
    /\ UNCHANGED <<qty_available, reservation, orders, due, sweep, failures>>

\* The foreign key of the new order item share-locks the product row.
PlaceOrderCommit(c) ==
    LET t == tx[c] IN
    /\ t.pc = "ordering"
    /\ Free(t.product, c)
    /\ orders' = [orders EXCEPT ![t.order] =
                    [status |-> "PENDING", user |-> t.user]]
    /\ reservation' = [reservation EXCEPT ![t.key].order = t.order]
    /\ lock' = Unlocking(c)
    /\ tx' = Finish(c)
    /\ UNCHANGED <<qty_available, due, sweep, failures>>

\* Mutant: the status of the order is not checked.
MayChangeAnyOrder(u, o) ==
    /\ u = orders[o].user \/ u \in Staff
    /\ orders[o].status # "ABSENT"

\* _get_order(for_update=True), check_ownership and the status check that
\* confirm_order_payment and cancel_order share.
MayChange(u, o) ==
    /\ u = orders[o].user \/ u \in Staff
    /\ orders[o].status = "PENDING"

LockOrder(c, u, o, pc) ==
    /\ tx[c].pc = "idle"
    /\ Free(o, c)
    /\ MayChange(u, o)
    /\ lock' = Locking(o, c)
    /\ tx' = [tx EXCEPT ![c] =
                [pc |-> pc, user |-> None, key |-> None, order |-> o,
                 product |-> None, qty |-> 0, seen |-> 0]]
    /\ UNCHANGED <<qty_available, reservation, orders, due, sweep, failures>>

PayRead(c, u, o) == LockOrder(c, u, o, "paying")

PayCommit(c) ==
    /\ tx[c].pc = "paying"
    /\ Free(tx[c].order, c)
    /\ \E k \in LinkedTo(tx[c].order) :
         /\ Free(k, c)
         /\ reservation' = [reservation EXCEPT ![k].status = "COMPLETED"]
    /\ orders' = [orders EXCEPT ![tx[c].order].status = "PAID"]
    /\ lock' = Unlocking(c)
    /\ tx' = Finish(c)
    /\ UNCHANGED <<qty_available, due, sweep, failures>>

\* Mutant: a cancellation locks the reservation before the order, as the sweep does.
CancelReservationFirst(c, u, o) ==
    /\ tx[c].pc = "idle"
    /\ MayChange(u, o)
    /\ \E k \in LinkedTo(o) : Free(k, c) /\ lock' = Locking(k, c)
    /\ tx' = [tx EXCEPT ![c] =
                [pc |-> "cancelling", user |-> None, key |-> None, order |-> o,
                 product |-> None, qty |-> 0, seen |-> 0]]
    /\ UNCHANGED <<qty_available, reservation, orders, due, sweep, failures>>

CancelRead(c, u, o) == LockOrder(c, u, o, "cancelling")

CancelLockReservation(c) ==
    /\ tx[c].pc = "cancelling"
    /\ Free(tx[c].order, c)
    /\ \E k \in LinkedTo(tx[c].order) :
         /\ Free(k, c)
         /\ lock' = Locking(k, c)
         /\ tx' = [tx EXCEPT ![c] =
                     [pc |-> "returning", user |-> None, key |-> k,
                      order |-> tx[c].order, product |-> reservation[k].product,
                      qty |-> 0, seen |-> 0]]
    /\ UNCHANGED <<qty_available, reservation, orders, due, sweep, failures>>

\* The product is locked, read and written, and the transaction commits:
\* once the lock is granted nothing else can wait or intervene.
CancelCommit(c) ==
    LET t == tx[c] IN
    /\ t.pc = "returning"
    /\ Free(t.product, c)
    /\ qty_available' = [qty_available EXCEPT ![t.product] =
                           @ + reservation[t.key].qty]
    /\ reservation' = [reservation EXCEPT ![t.key].status = "CANCELLED"]
    /\ orders' = [orders EXCEPT ![t.order].status = "CANCELLED"]
    /\ lock' = Unlocking(c)
    /\ tx' = Finish(c)
    /\ UNCHANGED <<due, sweep, failures>>

-----------------------------------------------------------------------------
(* release_expired_reservations.                                           *)

\* Time passes expires_at of a pending reservation.
Expire(k) ==
    /\ reservation[k].status = "PENDING"
    /\ k \notin due
    /\ due' = due \cup {k}
    /\ UNCHANGED <<qty_available, reservation, orders, lock, tx, sweep, failures>>

\* Mutant: reservations that have an order are left to their order.
ExpiredWithoutOrder ==
    {k \in due : reservation[k].status = "PENDING" /\ reservation[k].order = None}

Expired == {k \in due : reservation[k].status = "PENDING"}

\* The ids are read once, without locks; an empty list ends the job at once.
SweepStart(w) ==
    /\ sweep[w].pc = "off"
    /\ Expired # {}
    /\ sweep' = [sweep EXCEPT ![w].pc = "picking", ![w].todo = Expired]
    /\ UNCHANGED <<qty_available, reservation, orders, due, lock, tx, failures>>

SweepPick(w) ==
    /\ sweep[w].pc = "picking"
    /\ \E k \in sweep[w].todo :
         sweep' = [sweep EXCEPT ![w].pc = "locking", ![w].key = k,
                                ![w].todo = @ \ {k}]
    /\ UNCHANGED <<qty_available, reservation, orders, due, lock, tx, failures>>

\* Mutant: the status is not checked again under the lock.
Listed(k) == TRUE

StillPending(k) == reservation[k].status = "PENDING"

SweepLockReservation(w) ==
    /\ sweep[w].pc = "locking"
    /\ Free(sweep[w].key, w)
    /\ StillPending(sweep[w].key)
    /\ lock' = Locking(sweep[w].key, w)
    /\ sweep' = [sweep EXCEPT ![w].pc = "locked"]
    /\ UNCHANGED <<qty_available, reservation, orders, due, tx, failures>>

\* `continue`: no commit, the row stays locked until the session's next one.
SweepSkip(w) ==
    /\ sweep[w].pc = "locking"
    /\ Free(sweep[w].key, w)
    /\ ~ StillPending(sweep[w].key)
    /\ lock' = Locking(sweep[w].key, w)
    /\ sweep' = [sweep EXCEPT ![w].pc = "picking", ![w].key = None]
    /\ UNCHANGED <<qty_available, reservation, orders, due, tx, failures>>

\* What SELECT ... FOR UPDATE of product p returns: the object the session
\* already has, if it has one (a loaded object is not overwritten), else the row.
Loaded(w, p) ==
    IF sweep[w].cached = p THEN sweep[w].cachedQty ELSE qty_available[p]

SweepLockProduct(w) ==
    LET p == reservation[sweep[w].key].product IN
    /\ sweep[w].pc = "locked"
    /\ Free(p, w)
    /\ lock' = Locking(p, w)
    /\ sweep' = [sweep EXCEPT ![w].pc = "loaded", ![w].seen = Loaded(w, p)]
    /\ UNCHANGED <<qty_available, reservation, orders, due, tx, failures>>

\* The product object survives the commit unless commits expire objects.
AfterCommit(s, p, q) ==
    [pc |-> "picking", todo |-> s.todo, key |-> None, seen |-> 0,
     cached |-> IF ExpireOnCommit THEN None ELSE p,
     cachedQty |-> IF ExpireOnCommit THEN 0 ELSE q]

\* cancel_order_by_system locks the order of the reservation, if it has one;
\* the commit writes the absolute stock computed from the loaded one.
SweepRelease(w) ==
    LET k == sweep[w].key
        p == reservation[k].product
        o == reservation[k].order
        q == sweep[w].seen + reservation[k].qty
    IN
    /\ sweep[w].pc = "loaded"
    /\ o # None => Free(o, w)
    /\ qty_available' = [qty_available EXCEPT ![p] = q]
    /\ reservation' = [reservation EXCEPT ![k].status = "EXPIRED"]
    /\ orders' = [r \in Orders |-> IF r = o
                                   THEN [orders[r] EXCEPT !.status = "CANCELLED"]
                                   ELSE orders[r]]
    /\ lock' = Unlocking(w)
    /\ sweep' = [sweep EXCEPT ![w] = AfterCommit(sweep[w], p, q)]
    /\ UNCHANGED <<due, tx, failures>>

SweepEnd(w) ==
    /\ sweep[w].pc = "picking"
    /\ sweep[w].todo = {}
    /\ lock' = Unlocking(w)
    /\ sweep' = [sweep EXCEPT ![w] = NotRunning]
    /\ UNCHANGED <<qty_available, reservation, orders, due, tx, failures>>

-----------------------------------------------------------------------------
(* Failures.                                                               *)

AbortRequest(c) ==
    /\ tx[c].pc # "idle"
    /\ lock' = Unlocking(c)
    /\ tx' = Finish(c)
    /\ UNCHANGED <<qty_available, reservation, orders, due, sweep>>

\* The except branch of the loop: rollback, on to the next reservation.
AbortIteration(w) ==
    /\ sweep[w].pc \in {"locking", "locked", "loaded"}
    /\ lock' = Unlocking(w)
    /\ sweep' = [sweep EXCEPT ![w] =
                   [pc |-> "picking", todo |-> sweep[w].todo, key |-> None,
                    seen |-> 0, cached |-> None, cachedQty |-> 0]]
    /\ UNCHANGED <<qty_available, reservation, orders, due, tx>>

\* A request dies: its process, its connection, or an unexpected exception.
RequestFails(c) ==
    /\ failures < MaxFailures
    /\ failures' = failures + 1
    /\ AbortRequest(c)

SweepIterationFails(w) ==
    /\ failures < MaxFailures
    /\ failures' = failures + 1
    /\ AbortIteration(w)

SweepCrashes(w) ==
    /\ failures < MaxFailures
    /\ failures' = failures + 1
    /\ sweep[w].pc # "off"
    /\ lock' = Unlocking(w)
    /\ sweep' = [sweep EXCEPT ![w] = NotRunning]
    /\ UNCHANGED <<qty_available, reservation, orders, due, tx>>

\* Postgres aborts one member of a cycle of waiting transactions.
DeadlockVictim(p) ==
    /\ \E S \in SUBSET Procs : p \in S /\ Deadlocked(S)
    /\ IF p \in Clients THEN AbortRequest(p) ELSE AbortIteration(p)
    /\ UNCHANGED failures

-----------------------------------------------------------------------------
BeginRequest(c) ==
    \/ \E u \in Users, k \in Keys, p \in Products, n \in Quantities :
         ReserveRead(c, u, k, p, n)
    \/ \E u \in Users, k \in Keys, o \in Orders : PlaceOrderRead(c, u, k, o)
    \/ \E u \in Users, o \in Orders : PayRead(c, u, o) \/ CancelRead(c, u, o)

ContinueRequest(c) ==
    \/ ReserveCommit(c)
    \/ ReserveConflict(c)
    \/ PlaceOrderCommit(c)
    \/ PayCommit(c)
    \/ CancelLockReservation(c)
    \/ CancelCommit(c)

SweepStep(w) ==
    \/ SweepStart(w)
    \/ SweepPick(w)
    \/ SweepLockReservation(w)
    \/ SweepSkip(w)
    \/ SweepLockProduct(w)
    \/ SweepRelease(w)
    \/ SweepEnd(w)

Fail ==
    \/ \E c \in Clients : RequestFails(c)
    \/ \E w \in Workers : SweepIterationFails(w) \/ SweepCrashes(w)

Next ==
    \/ \E c \in Clients : BeginRequest(c) \/ ContinueRequest(c)
    \/ \E w \in Workers : SweepStep(w)
    \/ \E k \in Keys : Expire(k)
    \/ Fail
    \/ \E p \in Procs : DeadlockVictim(p)

Spec == Init /\ [][Next]_vars

\* A started request runs on and waiters for a row lock are served (Postgres
\* queues them); cron starts the sweep every minute; deadlocks are resolved.
\* Nobody has to start a request, and nothing has to expire or to fail.
Fairness ==
    /\ \A c \in Clients : SF_vars(ContinueRequest(c))
    /\ \A w \in Workers :
         /\ WF_vars(SweepStart(w) \/ SweepPick(w) \/ SweepEnd(w))
         /\ SF_vars(SweepLockReservation(w) \/ SweepSkip(w))
         /\ SF_vars(SweepLockProduct(w))
         /\ SF_vars(SweepRelease(w))
    /\ WF_vars(\E p \in Procs : DeadlockVictim(p))

FairSpec == Spec /\ Fairness

-----------------------------------------------------------------------------
(* Properties.                                                             *)

\* The statuses an order and its reservation may have together.
Paired == {<<"PENDING", "PENDING">>, <<"PAID", "COMPLETED">>,
           <<"CANCELLED", "CANCELLED">>, <<"CANCELLED", "EXPIRED">>}

\* Every stored order is linked from exactly one reservation, of the same user,
\* and the two statuses fit: no paid order whose units went back to stock, no
\* cancelled order whose units are still held, whichever of payment, cancellation
\* and expiry came first.  A reservation without an order is only ever pending
\* or expired.
OrderMatchesReservation ==
    /\ \A o \in Orders : orders[o].status # "ABSENT" =>
         \E k \in Keys :
           /\ LinkedTo(o) = {k}
           /\ reservation[k].user = orders[o].user
           /\ <<orders[o].status, reservation[k].status>> \in Paired
    /\ \A k \in Keys :
         /\ reservation[k].order # None =>
              orders[reservation[k].order].status # "ABSENT"
         /\ reservation[k].order = None =>
              reservation[k].status \in {"ABSENT", "PENDING", "EXPIRED"}

\* A reservation that is completed, cancelled or expired never changes again, an
\* order that is paid or cancelled neither; a stored reservation keeps its
\* user, product and quantity, and once linked its order.  Late payments,
\* repeated cancellations and a sweep working from an old list may not undo this.
FinalStatusIsFinal ==
    [][/\ \A k \in Keys : reservation[k].status # "ABSENT" =>
            /\ reservation'[k].user = reservation[k].user
            /\ reservation'[k].product = reservation[k].product
            /\ reservation'[k].qty = reservation[k].qty
            /\ reservation[k].order # None =>
                 reservation'[k].order = reservation[k].order
            /\ reservation[k].status # "PENDING" => reservation'[k] = reservation[k]
       /\ \A o \in Orders : orders[o].status \notin {"ABSENT", "PENDING"} =>
            orders'[o] = orders[o]]_vars

\* API requests never deadlock among themselves (all lock order, reservation,
\* product in this order); a cycle of waits needs the sweep, which locks the
\* reservation and the product before the order.
EveryDeadlockInvolvesASweep ==
    \A S \in SUBSET Clients : ~ Deadlocked(S)

\* The units of product p that a pending or completed reservation holds, one
\* element per unit.
HeldUnits(p) ==
    {u \in Keys \X Quantities :
       /\ reservation[u[1]].status \in {"PENDING", "COMPLETED"}
       /\ reservation[u[1]].product = p
       /\ u[2] <= reservation[u[1]].qty}

Accounted(p) == qty_available[p] + Cardinality(HeldUnits(p))

\* No unit is lost or created: the stock left and the units held by pending and
\* completed reservations always add up to the initial stock, between any two
\* steps of reservations, cancellations, sweeps, failures and deadlock aborts.
StockConserved == \A p \in Products : Accounted(p) = Stock[p]

\* Reservations never hold more units than the product had.
NoOversell == \A p \in Products : Cardinality(HeldUnits(p)) <= Stock[p]

\* w's loaded product is not the row: it was read before its last commit and
\* the row has changed since.
Stale(w) ==
    LET p == reservation[sweep[w].key].product
    IN  sweep[w].pc = "loaded" /\ sweep[w].seen # qty_available[p]

\* The only step that breaks the conservation of stock, whatever the session's
\* options, is the release of a sweep that works from a stale product object.
OnlyStaleSweepsMiscount ==
    [][\A p \in Products :
         Accounted(p)' # Accounted(p) =>
           \E w \in Workers : Stale(w) /\ SweepRelease(w)]_vars

\* What a reservation is to the ledger.
HoldOf(k) ==
    [state |-> CASE reservation[k].status = "ABSENT" -> "unused"
                 [] reservation[k].status = "PENDING" -> "held"
                 [] reservation[k].status = "COMPLETED" -> "sold"
                 [] OTHER -> "returned",
     product |-> reservation[k].product,
     qty |-> reservation[k].qty]

Ledger == INSTANCE StockLedger WITH
            free <- qty_available,
            hold <- [k \in Keys |-> HoldOf(k)]

\* Seen from outside, the transactions act on the ledger one at a time: a
\* reservation takes its units once, and they are sold or given back once.
ImplementsLedger == Ledger!Spec

\* A reservation that is overdue does not stay pending: a payment, a
\* cancellation or the sweep ends it, despite deadlocks and failed iterations.
OverdueIsReleased ==
    \A k \in Keys :
      (k \in due /\ reservation[k].status = "PENDING")
        ~> reservation[k].status # "PENDING"

\* A request that holds a row lock ends: it commits, is refused or is aborted.
RequestsEnd == \A c \in Clients : tx[c].pc # "idle" ~> tx[c].pc = "idle"
=============================================================================
