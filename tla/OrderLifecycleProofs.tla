------------------------ MODULE OrderLifecycleProofs ------------------------
(***************************************************************************)
(* Proofs about OrderLifecycle and SellerDesk, for every value of their    *)
(* constants.                                                              *)
(*                                                                         *)
(* The safety properties rest on one inductive invariant, IInv: a          *)
(* transaction that is past a SELECT ... FOR UPDATE holds the locks of the *)
(* rows it has read, and what it read is still true (TxInv, SweepInv);     *)
(* orders and reservations stay paired (OrderMatchesReservation).  Nobody  *)
(* else changes a row that is locked, which is why the invariant is kept.  *)
(*                                                                         *)
(* From it follow, in this order: types and pairing; the few ways in which *)
(* a step changes the stored rows (RowStep), and with them the finality of *)
(* statuses, the refinement of StockLedger and the conservation of stock;  *)
(* the freedom of requests from deadlock; and the same beside the seller's *)
(* desk, whose edits respect the row locks.                                *)
(***************************************************************************)
EXTENDS SellerDesk, FiniteSetTheorems, TLAPS

\* A row that is not stored has no contents, a stored one is complete.
RowInv ==
    /\ \A k \in Keys :
         IF reservation[k].status = "ABSENT"
         THEN reservation[k] = NoReservation
         ELSE /\ reservation[k].user \in Users
              /\ reservation[k].product \in Products
              /\ reservation[k].qty \in Quantities
    /\ \A o \in Orders :
         IF orders[o].status = "ABSENT"
         THEN orders[o] = NoOrder
         ELSE orders[o].user \in Users

\* What the request in client c's session has locked and knows.
TxInv(c) ==
    LET t == tx[c] IN
    /\ t.pc = "reserving" =>
         /\ t.user \in Users /\ t.key \in Keys /\ t.product \in Products
         /\ t.qty \in Quantities
         /\ lock[t.product] = c
         /\ t.seen = qty_available[t.product]
         /\ t.qty <= t.seen
    /\ t.pc = "ordering" =>
         /\ t.user \in Users /\ t.key \in Keys /\ t.order \in Orders
         /\ lock[t.key] = c
         /\ reservation[t.key].status = "PENDING"
         /\ reservation[t.key].user = t.user
         /\ reservation[t.key].order = None
         /\ reservation[t.key].product = t.product
         /\ orders[t.order].status = "ABSENT"
    /\ t.pc \in {"paying", "cancelling", "returning"} =>
         /\ t.order \in Orders
         /\ lock[t.order] = c
         /\ orders[t.order].status = "PENDING"
    /\ t.pc = "returning" =>
         /\ t.key \in Keys
         /\ lock[t.key] = c
         /\ reservation[t.key].status = "PENDING"
         /\ reservation[t.key].order = t.order
         /\ reservation[t.key].product = t.product

\* Running requests do not share a new order id.
FreshOrdersDiffer ==
    \A c, d \in Clients :
      tx[c].pc = "ordering" /\ tx[d].pc = "ordering" /\ c # d =>
        tx[c].order # tx[d].order

\* What the sweep in worker w's session has locked and knows.
SweepInv(w) ==
    LET s == sweep[w] IN
    /\ s.pc \in {"locking", "locked", "loaded"} => s.key \in Keys
    /\ s.pc \in {"locked", "loaded"} =>
         /\ lock[s.key] = w
         /\ reservation[s.key].status = "PENDING"
    /\ s.pc = "loaded" => lock[reservation[s.key].product] = w

\* The stock a sweep has loaded is the one in the row, unless its session has
\* kept the product's object; a session that forgets its objects keeps none.
FreshInv ==
    \A w \in Workers :
      /\ ExpireOnCommit => sweep[w].cached = None
      /\ sweep[w].pc = "loaded" =>
           \/ sweep[w].cached = reservation[sweep[w].key].product
           \/ sweep[w].seen = qty_available[reservation[sweep[w].key].product]

\* OrderMatchesReservation row by row, the form in which a step is checked.
LinksInv ==
    /\ \A o \in Orders : orders[o].status # "ABSENT" =>
         \E k \in Keys : reservation[k].order = o
    /\ \A j, k \in Keys : reservation[j].order = reservation[k].order =>
         j = k \/ reservation[j].order = None
    /\ \A k \in Keys :
         IF reservation[k].order = None
         THEN reservation[k].status \in {"ABSENT", "PENDING", "EXPIRED"}
         ELSE /\ reservation[k].user = orders[reservation[k].order].user
              /\ <<orders[reservation[k].order].status, reservation[k].status>>
                   \in Paired

\* A step in which reservation k leaves PENDING for st and its order o, if it
\* has one, leaves PENDING for ost; no other row or column of the two tables
\* changes.
Resolves(k, st, o, ost) ==
    /\ k \in Keys /\ o \in Orders \cup {None}
    /\ reservation[k].status = "PENDING" /\ reservation[k].order = o
    /\ reservation' \in [Keys -> ReservationRow]
    /\ \A j \in Keys \ {k} : reservation'[j] = reservation[j]
    /\ reservation'[k].status = st
    /\ reservation'[k].user = reservation[k].user
    /\ reservation'[k].product = reservation[k].product
    /\ reservation'[k].qty = reservation[k].qty
    /\ reservation'[k].order = o
    /\ orders' \in [Orders -> OrderRow]
    /\ \A r \in Orders \ {o} : orders'[r] = orders[r]
    /\ o # None =>
         /\ orders[o].status = "PENDING"
         /\ orders'[o].status = ost /\ orders'[o].user = orders[o].user

IInv ==
    /\ TypeOK
    /\ RowInv
    /\ LinksInv
    /\ \A c \in Clients : TxInv(c)
    /\ FreshOrdersDiffer
    /\ \A w \in Workers : SweepInv(w)
    /\ FreshInv

-----------------------------------------------------------------------------
(* Linked rows.                                                            *)

\* The row by row form says the same.
LEMMA LinksInvIsOrderMatches ==
  ASSUME TypeOK
  PROVE  LinksInv <=> OrderMatchesReservation
<1>1. ASSUME LinksInv PROVE OrderMatchesReservation
  <2>1. ASSUME NEW o \in Orders, orders[o].status # "ABSENT"
        PROVE  \E k \in Keys :
                 /\ LinkedTo(o) = {k}
                 /\ reservation[k].user = orders[o].user
                 /\ <<orders[o].status, reservation[k].status>> \in Paired
    <3>1. PICK k \in Keys : reservation[k].order = o
      BY <1>1, <2>1 DEF LinksInv
    <3>2. LinkedTo(o) = {k}
      BY <1>1, <3>1, NoneIsNothing DEF LinksInv, LinkedTo
    <3>3. QED
      BY <1>1, <3>1, <3>2, NoneIsNothing DEF LinksInv
  <2>2. ASSUME NEW k \in Keys, reservation[k].order # None
        PROVE  orders[reservation[k].order].status # "ABSENT"
    BY <1>1, <2>2 DEF LinksInv, Paired
  <2>3. QED
    BY <1>1, <2>1, <2>2 DEF LinksInv, OrderMatchesReservation
<1>2. ASSUME OrderMatchesReservation PROVE LinksInv
  <2>1. ASSUME NEW j \in Keys, reservation[j].order # None
        PROVE  /\ reservation[j].order \in Orders
               /\ LinkedTo(reservation[j].order) = {j}
               /\ reservation[j].user = orders[reservation[j].order].user
               /\ <<orders[reservation[j].order].status, reservation[j].status>>
                    \in Paired
    <3>1. reservation[j].order \in Orders
      BY <2>1 DEF TypeOK, ReservationRow, OrderRow
    <3>2. j \in LinkedTo(reservation[j].order)
      BY DEF LinkedTo
    <3>3. QED
      BY <1>2, <2>1, <3>1, <3>2 DEF OrderMatchesReservation
  <2>2. QED
    BY <1>2, <2>1 DEF OrderMatchesReservation, LinksInv, LinkedTo
<1>3. QED
  BY <1>1, <1>2

\* An order and its reservation that change together, into statuses that fit,
\* stay paired; so do all the others.
LEMMA LinksAfterStatusChange ==
  ASSUME TypeOK, LinksInv, NEW k0 \in Keys, NEW o0 \in Orders,
         reservation[k0].order = o0,
         \A k \in Keys \ {k0} : reservation'[k] = reservation[k],
         \A o \in Orders \ {o0} : orders'[o] = orders[o],
         reservation'[k0].order = o0,
         reservation'[k0].user = reservation[k0].user,
         orders'[o0].user = orders[o0].user,
         <<orders'[o0].status, reservation'[k0].status>> \in Paired
  PROVE  LinksInv'
<1>1. ASSUME NEW o \in Orders, orders'[o].status # "ABSENT"
      PROVE  \E k \in Keys : reservation'[k].order = o
  BY <1>1 DEF LinksInv
<1>2. ASSUME NEW j \in Keys, NEW k \in Keys,
             reservation'[j].order = reservation'[k].order
      PROVE  j = k \/ reservation'[j].order = None
  BY <1>2 DEF LinksInv
<1>3. ASSUME NEW k \in Keys
      PROVE  IF reservation'[k].order = None
             THEN reservation'[k].status \in {"ABSENT", "PENDING", "EXPIRED"}
             ELSE /\ reservation'[k].user = orders'[reservation'[k].order].user
                  /\ <<orders'[reservation'[k].order].status,
                       reservation'[k].status>> \in Paired
  <2>1. CASE k = k0
    BY <2>1, NoneIsNothing DEF LinksInv
  <2>2. CASE k # k0
    <3>1. reservation[k].order = None \/ reservation[k].order \in Orders \ {o0}
      BY <2>2 DEF TypeOK, ReservationRow, LinksInv
    <3>2. reservation'[k] = reservation[k]
      BY <2>2
    <3>3. CASE reservation[k].order = None
      BY <3>2, <3>3 DEF LinksInv
    <3>4. CASE reservation[k].order \in Orders \ {o0}
      BY <3>2, <3>4, NoneIsNothing DEF LinksInv
    <3>5. QED
      BY <3>1, <3>3, <3>4
  <2>3. QED
    BY <2>1, <2>2
<1>4. QED
  BY <1>1, <1>2, <1>3 DEF LinksInv

-----------------------------------------------------------------------------
(* Bystanders: what a step of another process leaves alone.                *)

\* A request keeps what it knows while the rows it has locked, and the order
\* id it has drawn, are left alone.
LEMMA BystanderTx ==
  ASSUME TypeOK, NEW d \in Clients, TxInv(d), tx'[d] = tx[d],
         \A x \in Rows : lock[x] = d => lock'[x] = d,
         \A p \in Products : lock[p] = d => qty_available'[p] = qty_available[p],
         \A k \in Keys : lock[k] = d /\ reservation[k].status # "ABSENT" =>
           reservation'[k] = reservation[k],
         \A o \in Orders : lock[o] = d /\ orders[o].status # "ABSENT" =>
           orders'[o] = orders[o],
         tx[d].pc = "ordering" => orders'[tx[d].order] = orders[tx[d].order]
  PROVE  TxInv(d)'
<1>1. CASE tx[d].pc = "reserving"
  BY <1>1 DEF TxInv, Rows
<1>2. CASE tx[d].pc = "ordering"
  BY <1>2 DEF TxInv, Rows
<1>3. CASE tx[d].pc \in {"paying", "cancelling"}
  BY <1>3 DEF TxInv, Rows
<1>4. CASE tx[d].pc = "returning"
  <2>1. reservation[tx[d].key].status # "ABSENT"
    BY <1>4 DEF TxInv
  <2>2. QED
    BY <1>4, <2>1 DEF TxInv, Rows
<1>5. QED
  BY <1>1, <1>2, <1>3, <1>4 DEF TxInv

\* A request keeps what it knows when another one only locks a row.
LEMMA BystanderOfLock ==
  ASSUME TypeOK, NEW c \in Clients, NEW r \in Rows,
         Free(r, c), lock' = Locking(r, c),
         NEW s, tx' = [tx EXCEPT ![c] = s],
         UNCHANGED <<qty_available, reservation, orders>>,
         NEW d \in Clients, d # c, TxInv(d)
  PROVE  TxInv(d)'
<1>1. tx'[d] = tx[d]
  BY DEF TypeOK
<1>2. \A x \in Rows : lock[x] = d => lock'[x] = d
  BY NoneIsNothing DEF TypeOK, Free, Locking
<1>3. QED
  BY <1>1, <1>2, BystanderTx

\* So does a sweep.
LEMMA BystanderSweep ==
  ASSUME TypeOK, RowInv, NEW w \in Workers, SweepInv(w), sweep'[w] = sweep[w],
         \A x \in Rows : lock[x] = w => lock'[x] = w,
         \A k \in Keys : lock[k] = w /\ reservation[k].status # "ABSENT" =>
           reservation'[k] = reservation[k]
  PROVE  SweepInv(w)'
<1>1. CASE sweep[w].pc \in {"locked", "loaded"}
  BY <1>1 DEF TypeOK, RowInv, SweepInv, Rows
<1>2. QED
  BY <1>1 DEF SweepInv

-----------------------------------------------------------------------------
(* The initial state.                                                      *)

\* The empty database and idle processes satisfy the invariant.
LEMMA InitInv == Init => IInv
<1> SUFFICES ASSUME Init PROVE IInv
  OBVIOUS
<1> USE DEF Init
<1>1. TypeOK
  BY StockIsNatural, BoundsAreNatural
     DEF TypeOK, ReservationRow, OrderRow, RequestState, SweepState, NoReservation, NoOrder, Idle, NotRunning, Quantities
<1>2. RowInv
  BY DEF RowInv, NoReservation, NoOrder
<1>3. LinksInv
  BY DEF LinksInv, NoReservation, NoOrder
<1>4. \A c \in Clients : TxInv(c)
  BY DEF TxInv, Idle
<1>5. FreshOrdersDiffer
  BY DEF FreshOrdersDiffer, Idle
<1>6. (\A w \in Workers : SweepInv(w)) /\ FreshInv
  BY DEF SweepInv, FreshInv, NotRunning
<1>7. QED
  BY <1>1, <1>2, <1>3, <1>4, <1>5, <1>6 DEF IInv

-----------------------------------------------------------------------------
(* One lemma per action.                                                   *)

LEMMA ReserveReadInv ==
  ASSUME IInv,
         NEW c \in Clients, NEW u \in Users, NEW k \in Keys,
         NEW p \in Products, NEW n \in Quantities,
         ReserveRead(c, u, k, p, n)
  PROVE  IInv'
<1> USE DEF IInv, ReserveRead, Locking, Free
<1>1. TypeOK'
  BY DEF TypeOK, RequestState, Rows, Procs
<1>2. RowInv' /\ LinksInv'
  BY DEF RowInv, LinksInv
<1>3. ASSUME NEW d \in Clients PROVE TxInv(d)'
  <2>1. CASE d = c
    BY <2>1 DEF TypeOK, Rows, TxInv, Enough
  <2>2. CASE d # c
    <3>1. p \in Rows
      BY DEF Rows
    <3>2. Free(p, c) /\ lock' = Locking(p, c)
      OBVIOUS
    <3>3. QED
      BY <2>2, <3>1, <3>2, BystanderOfLock
  <2>3. QED
    BY <2>1, <2>2
<1>4. FreshOrdersDiffer'
  BY DEF TypeOK, FreshOrdersDiffer
<1>5. ASSUME NEW w \in Workers PROVE SweepInv(w)'
  BY BystanderSweep, RowsAreDistinct, NoneIsNothing DEF TypeOK, Rows
<1>6. FreshInv'
  BY DEF FreshInv
<1>7. QED
  BY <1>1, <1>2, <1>3, <1>4, <1>5, <1>6

LEMMA ReserveCommitInv ==
  ASSUME IInv, NEW c \in Clients, ReserveCommit(c)
  PROVE  IInv'
<1> USE DEF IInv, ReserveCommit, Unlocking, Finish, Idle
<1>1. /\ tx[c].user \in Users /\ tx[c].key \in Keys
      /\ tx[c].product \in Products /\ tx[c].qty \in Quantities
      /\ tx[c].seen - tx[c].qty \in Nat
  BY BoundsAreNatural DEF TypeOK, TxInv, Quantities
<1>2. TypeOK'
  BY <1>1
     DEF TypeOK, RequestState, ReservationRow, OrderRow, Rows, Procs, ReservationStatus
<1>3. RowInv'
  BY <1>1 DEF TypeOK, RowInv
<1>4. LinksInv'
  BY <1>1, NoneIsNothing DEF TypeOK, RowInv, LinksInv, NoReservation
<1>5. ASSUME NEW d \in Clients PROVE TxInv(d)'
  <2>1. CASE d = c
    BY <2>1 DEF TypeOK, TxInv
  <2>2. CASE d # c
    <3>1. tx'[d] = tx[d] /\ (\A x \in Rows : lock[x] = d => lock'[x] = d)
      BY <2>2 DEF TypeOK
    <3>2. tx[c].product \in Products /\ lock[tx[c].product] # d
      BY <1>1, <2>2 DEF TxInv
    <3>3. \A p \in Products : lock[p] = d => qty_available'[p] = qty_available[p]
      BY <3>2 DEF TypeOK
    <3>4. \A k \in Keys : reservation[k].status # "ABSENT" =>
            reservation'[k] = reservation[k]
      BY DEF TypeOK
    <3>5. orders' = orders
      OBVIOUS
    <3>6. QED
      BY <2>2, <3>1, <3>3, <3>4, <3>5, BystanderTx
  <2>3. QED
    BY <2>1, <2>2
<1>6. FreshOrdersDiffer'
  BY DEF TypeOK, FreshOrdersDiffer
<1>7. ASSUME NEW w \in Workers PROVE SweepInv(w)'
  BY <1>1, BystanderSweep, RowsAreDistinct, NoneIsNothing DEF TypeOK
<1>8. FreshInv'
  <2>1. ASSUME NEW w \in Workers, sweep[w].pc = "loaded"
        PROVE  LET r == reservation[sweep[w].key].product
               IN  /\ reservation'[sweep[w].key] = reservation[sweep[w].key]
                   /\ qty_available'[r] = qty_available[r]
    <3>1. sweep[w].key \in Keys /\ reservation[sweep[w].key].status = "PENDING"
      BY <2>1 DEF SweepInv
    <3>2. reservation[sweep[w].key].product \in Products
      BY <3>1 DEF RowInv
    <3>3. lock[reservation[sweep[w].key].product] = w
      BY <2>1 DEF SweepInv
    <3>4. lock[tx[c].product] = c /\ c # w
      BY RowsAreDistinct DEF TxInv
    <3>5. QED
      BY <1>1, <3>1, <3>2, <3>3, <3>4 DEF TypeOK
  <2>2. QED
    BY <2>1 DEF FreshInv
<1>9. QED
  BY <1>2, <1>3, <1>4, <1>5, <1>6, <1>7, <1>8

LEMMA PlaceOrderReadInv ==
  ASSUME IInv,
         NEW c \in Clients, NEW u \in Users, NEW k \in Keys, NEW o \in Orders,
         PlaceOrderRead(c, u, k, o)
  PROVE  IInv'
<1> USE DEF IInv, PlaceOrderRead, Locking, Free
<1>1. TypeOK'
  BY DEF TypeOK, RequestState, ReservationRow, OrderRow, Rows, Procs
<1>2. RowInv' /\ LinksInv'
  BY DEF RowInv, LinksInv
<1>3. ASSUME NEW d \in Clients PROVE TxInv(d)'
  <2>1. CASE d = c
    BY <2>1 DEF TypeOK, Rows, TxInv, Orderable, FreshOrder
  <2>2. CASE d # c
    <3>1. k \in Rows
      BY DEF Rows
    <3>2. Free(k, c) /\ lock' = Locking(k, c)
      OBVIOUS
    <3>3. QED
      BY <2>2, <3>1, <3>2, BystanderOfLock
  <2>3. QED
    BY <2>1, <2>2
<1>4. FreshOrdersDiffer'
  BY DEF TypeOK, FreshOrdersDiffer, FreshOrder
<1>5. ASSUME NEW w \in Workers PROVE SweepInv(w)'
  BY BystanderSweep, RowsAreDistinct, NoneIsNothing DEF TypeOK, Rows
<1>6. FreshInv'
  BY DEF FreshInv
<1>7. QED
  BY <1>1, <1>2, <1>3, <1>4, <1>5, <1>6

LEMMA PlaceOrderCommitInv ==
  ASSUME IInv, NEW c \in Clients, PlaceOrderCommit(c)
  PROVE  IInv'
<1> DEFINE k0 == tx[c].key
           o0 == tx[c].order
<1> USE DEF IInv
<1>1. /\ tx[c].user \in Users /\ k0 \in Keys /\ o0 \in Orders
      /\ lock[k0] = c
      /\ reservation[k0].status = "PENDING"
      /\ reservation[k0].user = tx[c].user
      /\ reservation[k0].order = None
      /\ orders[o0].status = "ABSENT"
  BY DEF TxInv, PlaceOrderCommit
<1>2. /\ qty_available' = qty_available /\ due' = due /\ sweep' = sweep
      /\ failures' = failures
      /\ tx' = [tx EXCEPT ![c] = Idle]
      /\ lock' = Unlocking(c)
      /\ orders' = [orders EXCEPT ![o0] =
                       [status |-> "PENDING", user |-> tx[c].user]]
      /\ reservation' \in [Keys -> ReservationRow]
      /\ \A k \in Keys \ {k0} : reservation'[k] = reservation[k]
      /\ reservation'[k0].status = "PENDING"
      /\ reservation'[k0].user = tx[c].user
      /\ reservation'[k0].product = reservation[k0].product
      /\ reservation'[k0].qty = reservation[k0].qty
      /\ reservation'[k0].order = o0
  <2>1. /\ UNCHANGED <<qty_available, due, sweep, failures>>
        /\ tx' = [tx EXCEPT ![c] = Idle]
        /\ lock' = Unlocking(c)
        /\ orders' = [orders EXCEPT ![o0] =
                         [status |-> "PENDING", user |-> tx[c].user]]
        /\ reservation' = [reservation EXCEPT ![k0].order = o0]
    BY DEF PlaceOrderCommit, Finish
  <2>2. reservation \in [Keys -> ReservationRow]
    BY DEF TypeOK
  <2>3. reservation[k0] \in ReservationRow
    BY <1>1, <2>2
  <2>4. DEFINE row == [reservation[k0] EXCEPT !.order = o0]
  <2>5. /\ row \in ReservationRow
        /\ row.status = reservation[k0].status /\ row.user = reservation[k0].user
        /\ row.product = reservation[k0].product /\ row.qty = reservation[k0].qty
        /\ row.order = o0
    BY <1>1, <2>3 DEF ReservationRow
  <2>6. /\ reservation' \in [Keys -> ReservationRow]
        /\ \A k \in Keys \ {k0} : reservation'[k] = reservation[k]
        /\ reservation'[k0] = row
    <3>1. reservation' = [reservation EXCEPT ![k0] = row]
      BY <2>1
    <3>2. QED
      BY <1>1, <2>2, <2>5, <3>1
  <2>7. QED
    BY <1>1, <2>1, <2>5, <2>6
<1>3. TypeOK'
  BY <1>1, <1>2
     DEF TypeOK, RequestState, ReservationRow, OrderRow, Rows, Procs, OrderStatus, Idle, Unlocking
<1>4. RowInv'
  <2>1. \A k \in Keys \ {k0} : reservation'[k] = reservation[k]
    BY <1>2
  <2>2. /\ reservation[k0].user \in Users
        /\ reservation[k0].product \in Products
        /\ reservation[k0].qty \in Quantities
    BY <1>1 DEF RowInv
  <2>3. /\ reservation'[k0].status # "ABSENT"
        /\ reservation'[k0].user \in Users
        /\ reservation'[k0].product \in Products
        /\ reservation'[k0].qty \in Quantities
    BY <1>1, <1>2, <2>2
  <2>4. /\ \A o \in Orders \ {o0} : orders'[o] = orders[o]
        /\ orders'[o0].status = "PENDING" /\ orders'[o0].user \in Users
    BY <1>1, <1>2 DEF TypeOK
  <2>5. QED
    BY <2>1, <2>3, <2>4 DEF RowInv
<1>5. LinksInv'
  <2>1. \A k \in Keys : reservation[k].order # o0
    BY <1>1, NoneIsNothing DEF LinksInv, Paired
  <2>2. \A o \in Orders \ {o0} : orders'[o] = orders[o]
    BY <1>2 DEF TypeOK
  <2>3. orders'[o0].status = "PENDING" /\ orders'[o0].user = tx[c].user
    BY <1>1, <1>2 DEF TypeOK
  <2>4. ASSUME NEW o \in Orders, orders'[o].status # "ABSENT"
        PROVE  \E k \in Keys : reservation'[k].order = o
    BY <1>1, <1>2, <2>2, <2>4, NoneIsNothing DEF LinksInv
  <2>5. ASSUME NEW j \in Keys, NEW k \in Keys,
               reservation'[j].order = reservation'[k].order
        PROVE  j = k \/ reservation'[j].order = None
    BY <1>1, <1>2, <2>1, <2>5 DEF LinksInv
  <2>6. ASSUME NEW k \in Keys
        PROVE  IF reservation'[k].order = None
               THEN reservation'[k].status \in {"ABSENT", "PENDING", "EXPIRED"}
               ELSE /\ reservation'[k].user = orders'[reservation'[k].order].user
                    /\ <<orders'[reservation'[k].order].status,
                         reservation'[k].status>> \in Paired
    <3>1. CASE k = k0
      BY <1>1, <1>2, <2>3, <3>1, NoneIsNothing DEF Paired
    <3>2. CASE k # k0
      BY <1>2, <2>1, <2>2, <3>2 DEF TypeOK, LinksInv
    <3>3. QED
      BY <3>1, <3>2
  <2>7. QED
    BY <2>4, <2>5, <2>6 DEF LinksInv
<1>6. ASSUME NEW d \in Clients PROVE TxInv(d)'
  <2>1. CASE d = c
    BY <1>2, <2>1 DEF TypeOK, TxInv, Idle
  <2>2. CASE d # c
    <3>1. tx'[d] = tx[d] /\ (\A x \in Rows : lock[x] = d => lock'[x] = d)
      BY <1>2, <2>2 DEF TypeOK, Unlocking
    <3>2. \A k \in Keys : lock[k] = d => reservation'[k] = reservation[k]
      BY <1>1, <1>2, <2>2
    <3>3. \A o \in Orders : orders[o].status # "ABSENT" => orders'[o] = orders[o]
      BY <1>1, <1>2 DEF TypeOK
    <3>4. tx[d].pc = "ordering" => orders'[tx[d].order] = orders[tx[d].order]
      <4>1. tx[d].pc = "ordering" => tx[d].order \in Orders /\ tx[d].order # o0
        BY <2>2 DEF TxInv, FreshOrdersDiffer, PlaceOrderCommit
      <4>2. QED
        BY <1>1, <1>2, <4>1 DEF TypeOK
    <3>5. QED
      BY <1>2, <3>1, <3>2, <3>3, <3>4, BystanderTx
  <2>3. QED
    BY <2>1, <2>2
<1>7. FreshOrdersDiffer'
  BY <1>2 DEF TypeOK, FreshOrdersDiffer, Idle
<1>8. ASSUME NEW w \in Workers PROVE SweepInv(w)'
  BY <1>1, <1>2, BystanderSweep, RowsAreDistinct, NoneIsNothing
     DEF TypeOK, Unlocking
<1>9. FreshInv'
  <2>1. ASSUME NEW w \in Workers, sweep[w].pc = "loaded"
        PROVE  reservation'[sweep[w].key].product = reservation[sweep[w].key].product
    BY <1>2, <2>1 DEF SweepInv
  <2>2. QED
    BY <1>2, <2>1 DEF FreshInv
<1>10. QED
  BY <1>3, <1>4, <1>5, <1>6, <1>7, <1>8, <1>9

LEMMA LockOrderInv ==
  ASSUME IInv,
         NEW c \in Clients, NEW u \in Users, NEW o \in Orders,
         NEW pc \in {"paying", "cancelling"},
         LockOrder(c, u, o, pc)
  PROVE  IInv'
<1> USE DEF IInv, LockOrder, Locking, Free
<1>1. TypeOK'
  BY DEF TypeOK, RequestState, Rows, Procs
<1>2. RowInv' /\ LinksInv'
  BY DEF RowInv, LinksInv
<1>3. ASSUME NEW d \in Clients PROVE TxInv(d)'
  <2>1. CASE d = c
    BY <2>1 DEF TypeOK, Rows, TxInv, MayChange
  <2>2. CASE d # c
    <3>1. o \in Rows
      BY DEF Rows
    <3>2. Free(o, c) /\ lock' = Locking(o, c)
      OBVIOUS
    <3>3. QED
      BY <2>2, <3>1, <3>2, BystanderOfLock
  <2>3. QED
    BY <2>1, <2>2
<1>4. FreshOrdersDiffer'
  BY DEF TypeOK, FreshOrdersDiffer
<1>5. ASSUME NEW w \in Workers PROVE SweepInv(w)'
  BY BystanderSweep, RowsAreDistinct, NoneIsNothing DEF TypeOK, Rows
<1>6. FreshInv'
  BY DEF FreshInv
<1>7. QED
  BY <1>1, <1>2, <1>3, <1>4, <1>5, <1>6

\* A request that ends without writing: refused at its INSERT, failed, or
\* chosen as the victim of a deadlock.
LEMMA AbortRequestInv ==
  ASSUME IInv, NEW c \in Clients,
         lock' = Unlocking(c), tx' = Finish(c), failures' \in Nat,
         UNCHANGED <<qty_available, reservation, orders, due, sweep>>
  PROVE  IInv'
<1> USE DEF IInv, Unlocking, Finish, Idle
<1>1. TypeOK'
  BY DEF TypeOK, RequestState, Rows, Procs
<1>2. RowInv' /\ LinksInv'
  BY DEF RowInv, LinksInv
<1>3. ASSUME NEW d \in Clients PROVE TxInv(d)'
  <2>1. CASE d = c
    BY <2>1 DEF TypeOK, TxInv
  <2>2. CASE d # c
    BY <2>2, BystanderTx DEF TypeOK
  <2>3. QED
    BY <2>1, <2>2
<1>4. FreshOrdersDiffer'
  BY DEF TypeOK, FreshOrdersDiffer
<1>5. ASSUME NEW w \in Workers PROVE SweepInv(w)'
  BY BystanderSweep, RowsAreDistinct DEF TypeOK
<1>6. FreshInv'
  BY DEF FreshInv
<1>7. QED
  BY <1>1, <1>2, <1>3, <1>4, <1>5, <1>6

LEMMA PayCommitEffect ==
  ASSUME IInv, NEW c \in Clients, PayCommit(c), NEW o0, o0 = tx[c].order
  PROVE  /\ o0 \in Orders /\ lock[o0] = c
         /\ \E k \in Keys :
              lock[k] \in {c, None} /\ Resolves(k, "COMPLETED", o0, "PAID")
         /\ UNCHANGED <<qty_available, due, sweep, failures>>
         /\ tx' = [tx EXCEPT ![c] = Idle]
         /\ lock' = Unlocking(c)
<1> USE DEF IInv
<1>1. /\ o0 \in Orders
      /\ lock[o0] = c
      /\ orders[o0].status = "PENDING"
  BY DEF TxInv, PayCommit
<1>2. PICK k0 \in Keys :
        /\ reservation[k0].order = o0
        /\ lock[k0] \in {c, None}
        /\ reservation' = [reservation EXCEPT ![k0].status = "COMPLETED"]
  BY DEF PayCommit, LinkedTo, Free
<1>3. reservation[k0].status = "PENDING"
  BY <1>1, <1>2, NoneIsNothing DEF LinksInv, Paired
<1>4. /\ UNCHANGED <<qty_available, due, sweep, failures>>
      /\ tx' = [tx EXCEPT ![c] = Idle]
      /\ lock' = Unlocking(c)
      /\ orders' = [orders EXCEPT ![o0].status = "PAID"]
  BY DEF PayCommit, Finish
<1>5. reservation \in [Keys -> ReservationRow] /\ orders \in [Orders -> OrderRow]
  BY DEF TypeOK
<1>6. /\ orders' \in [Orders -> OrderRow]
      /\ \A o \in Orders \ {o0} : orders'[o] = orders[o]
      /\ orders'[o0].status = "PAID" /\ orders'[o0].user = orders[o0].user
  BY <1>1, <1>4, <1>5 DEF OrderRow, OrderStatus
<1>7. /\ reservation' \in [Keys -> ReservationRow]
      /\ \A k \in Keys \ {k0} : reservation'[k] = reservation[k]
      /\ reservation'[k0].status = "COMPLETED"
      /\ reservation'[k0].user = reservation[k0].user
      /\ reservation'[k0].product = reservation[k0].product
      /\ reservation'[k0].qty = reservation[k0].qty
      /\ reservation'[k0].order = o0
  BY <1>2, <1>5 DEF ReservationRow, ReservationStatus
<1>8. Resolves(k0, "COMPLETED", o0, "PAID")
  BY <1>1, <1>2, <1>3, <1>6, <1>7 DEF Resolves
<1>9. QED
  BY <1>1, <1>2, <1>4, <1>8

LEMMA PayCommitInv ==
  ASSUME IInv, NEW c \in Clients, PayCommit(c)
  PROVE  IInv'
<1>1. PICK o0 : o0 = tx[c].order
  OBVIOUS
<1>2. /\ o0 \in Orders
      /\ lock[o0] = c
      /\ UNCHANGED <<qty_available, due, sweep, failures>>
      /\ tx' = [tx EXCEPT ![c] = Idle]
      /\ lock' = Unlocking(c)
  BY <1>1, PayCommitEffect
<1>3. PICK k0 \in Keys : lock[k0] \in {c, None} /\ Resolves(k0, "COMPLETED", o0, "PAID")
  BY <1>1, PayCommitEffect
<1> USE DEF IInv
<1>4. o0 # None
  BY <1>2, NoneIsNothing
<1>5. TypeOK'
  BY <1>2, <1>3 DEF Resolves, TypeOK, RequestState, Rows, Procs, Idle, Unlocking
<1>6. RowInv'
  BY <1>2, <1>3, <1>4 DEF Resolves, RowInv
<1>7. LinksInv'
  BY <1>2, <1>3, <1>4, LinksAfterStatusChange DEF Resolves, Paired
<1>8. ASSUME NEW d \in Clients PROVE TxInv(d)'
  <2>1. CASE d = c
    BY <1>2, <2>1 DEF TypeOK, TxInv, Idle
  <2>2. CASE d # c
    <3>1. tx'[d] = tx[d] /\ (\A x \in Rows : lock[x] = d => lock'[x] = d)
      BY <1>2, <2>2 DEF TypeOK, Unlocking
    <3>2. \A k \in Keys : lock[k] = d => reservation'[k] = reservation[k]
      BY <1>3, <2>2, NoneIsNothing DEF Resolves
    <3>3. \A o \in Orders : lock[o] = d => orders'[o] = orders[o]
      BY <1>2, <1>3, <2>2 DEF Resolves
    <3>4. tx[d].pc = "ordering" => orders'[tx[d].order] = orders[tx[d].order]
      BY <1>3, <1>4 DEF TxInv, Resolves
    <3>5. QED
      BY <1>2, <3>1, <3>2, <3>3, <3>4, BystanderTx
  <2>3. QED
    BY <2>1, <2>2
<1>9. FreshOrdersDiffer'
  BY <1>2 DEF TypeOK, FreshOrdersDiffer, Idle
<1>10. ASSUME NEW w \in Workers PROVE SweepInv(w)'
  BY <1>2, <1>3, BystanderSweep, RowsAreDistinct, NoneIsNothing
     DEF Resolves, Unlocking
<1>11. FreshInv'
  BY <1>2, <1>3 DEF Resolves, TypeOK, SweepInv, FreshInv
<1>12. QED
  BY <1>5, <1>6, <1>7, <1>8, <1>9, <1>10, <1>11

LEMMA CancelLockReservationInv ==
  ASSUME IInv, NEW c \in Clients, CancelLockReservation(c)
  PROVE  IInv'
<1> USE DEF IInv, Free
<1>1. PICK k0 \in Keys :
        /\ reservation[k0].order = tx[c].order
        /\ Free(k0, c)
        /\ lock' = Locking(k0, c)
        /\ tx' = [tx EXCEPT ![c] =
                    [pc |-> "returning", user |-> None, key |-> k0,
                     order |-> tx[c].order, product |-> reservation[k0].product,
                     qty |-> 0, seen |-> 0]]
  BY DEF CancelLockReservation, LinkedTo
<1>2. /\ UNCHANGED <<qty_available, reservation, orders, due, sweep, failures>>
      /\ tx[c].order \in Orders
      /\ lock[tx[c].order] = c
      /\ orders[tx[c].order].status = "PENDING"
  BY DEF CancelLockReservation, TxInv
<1>3. reservation[k0].status = "PENDING"
  BY <1>1, <1>2, NoneIsNothing DEF LinksInv, Paired
<1>4. TypeOK'
  BY <1>1, <1>2 DEF TypeOK, RequestState, ReservationRow, Rows, Procs, Locking
<1>5. RowInv' /\ LinksInv'
  BY <1>2 DEF RowInv, LinksInv
<1>6. ASSUME NEW d \in Clients PROVE TxInv(d)'
  <2>1. CASE d = c
    BY <1>1, <1>2, <1>3, <2>1, RowsAreDistinct DEF TypeOK, Rows, TxInv, Locking
  <2>2. CASE d # c
    BY <1>1, <1>2, <2>2, BystanderTx, NoneIsNothing DEF TypeOK, Locking
  <2>3. QED
    BY <2>1, <2>2
<1>7. FreshOrdersDiffer'
  BY <1>1 DEF TypeOK, FreshOrdersDiffer
<1>8. ASSUME NEW w \in Workers PROVE SweepInv(w)'
  BY <1>1, <1>2, BystanderSweep, RowsAreDistinct, NoneIsNothing
     DEF TypeOK, Locking
<1>9. FreshInv'
  BY <1>2 DEF FreshInv
<1>10. QED
  BY <1>4, <1>5, <1>6, <1>7, <1>8, <1>9

LEMMA CancelCommitEffect ==
  ASSUME IInv, NEW c \in Clients, CancelCommit(c),
         NEW k0, k0 = tx[c].key, NEW o0, o0 = tx[c].order,
         NEW p0, p0 = reservation[k0].product
  PROVE  /\ Resolves(k0, "CANCELLED", o0, "CANCELLED")
         /\ o0 \in Orders /\ lock[o0] = c /\ lock[k0] = c
         /\ p0 \in Products /\ lock[p0] \in {c, None}
         /\ reservation[k0].qty \in Nat
         /\ qty_available' = [qty_available EXCEPT ![p0] = @ + reservation[k0].qty]
         /\ qty_available' \in [Products -> Nat]
         /\ UNCHANGED <<due, sweep, failures>>
         /\ tx' = [tx EXCEPT ![c] = Idle]
         /\ lock' = Unlocking(c)
<1> USE DEF IInv
<1>1. /\ o0 \in Orders /\ k0 \in Keys
      /\ lock[o0] = c /\ lock[k0] = c
      /\ orders[o0].status = "PENDING"
      /\ reservation[k0].status = "PENDING"
      /\ reservation[k0].order = o0
      /\ tx[c].product = p0
      /\ lock[p0] \in {c, None}
  BY DEF TxInv, CancelCommit, Free
<1>2. p0 \in Products /\ reservation[k0].qty \in Nat
  BY <1>1, BoundsAreNatural DEF RowInv, Quantities
<1>3. /\ UNCHANGED <<due, sweep, failures>>
      /\ tx' = [tx EXCEPT ![c] = Idle]
      /\ lock' = Unlocking(c)
      /\ orders' = [orders EXCEPT ![o0].status = "CANCELLED"]
      /\ reservation' = [reservation EXCEPT ![k0].status = "CANCELLED"]
      /\ qty_available' = [qty_available EXCEPT ![p0] = @ + reservation[k0].qty]
  BY <1>1 DEF CancelCommit, Finish
<1>4. /\ qty_available \in [Products -> Nat]
      /\ reservation \in [Keys -> ReservationRow] /\ orders \in [Orders -> OrderRow]
  BY DEF TypeOK
<1>5. /\ orders' \in [Orders -> OrderRow]
      /\ \A o \in Orders \ {o0} : orders'[o] = orders[o]
      /\ orders'[o0].status = "CANCELLED" /\ orders'[o0].user = orders[o0].user
  BY <1>1, <1>3, <1>4 DEF OrderRow, OrderStatus
<1>6. /\ reservation' \in [Keys -> ReservationRow]
      /\ \A k \in Keys \ {k0} : reservation'[k] = reservation[k]
      /\ reservation'[k0].status = "CANCELLED"
      /\ reservation'[k0].user = reservation[k0].user
      /\ reservation'[k0].product = reservation[k0].product
      /\ reservation'[k0].qty = reservation[k0].qty
      /\ reservation'[k0].order = o0
  <2>1. reservation[k0] \in ReservationRow
    BY <1>1, <1>4
  <2>2. DEFINE row == [reservation[k0] EXCEPT !.status = "CANCELLED"]
  <2>3. /\ row \in ReservationRow
        /\ row.status = "CANCELLED" /\ row.user = reservation[k0].user
        /\ row.product = reservation[k0].product /\ row.qty = reservation[k0].qty
        /\ row.order = reservation[k0].order
    BY <2>1 DEF ReservationRow, ReservationStatus
  <2>4. reservation' = [reservation EXCEPT ![k0] = row]
    BY <1>3
  <2>5. /\ reservation' \in [Keys -> ReservationRow]
        /\ \A k \in Keys \ {k0} : reservation'[k] = reservation[k]
        /\ reservation'[k0] = row
    BY <1>1, <1>4, <2>3, <2>4
  <2>6. QED
    BY <1>1, <2>3, <2>5
<1>7. qty_available' \in [Products -> Nat]
  BY <1>2, <1>3, <1>4
<1>8. Resolves(k0, "CANCELLED", o0, "CANCELLED")
  BY <1>1, <1>5, <1>6 DEF Resolves
<1>9. QED
  BY <1>1, <1>2, <1>3, <1>7, <1>8

\* What the others have locked or loaded survives a step of p that resolves a
\* reservation whose rows p has locked.
LEMMA OthersAfterResolve ==
  ASSUME IInv, NEW p \in Procs, NEW k, NEW st, NEW o, NEW ost,
         Resolves(k, st, o, ost),
         lock[k] = p, o # None => lock[o] \in {p, None},
         \A r \in Products : qty_available'[r] # qty_available[r] =>
           lock[r] \in {p, None},
         lock' = Unlocking(p)
  PROVE  /\ \A d \in Clients : d # p /\ tx'[d] = tx[d] => TxInv(d)'
         /\ \A v \in Workers : v # p /\ sweep'[v] = sweep[v] => SweepInv(v)'
         /\ \A v \in Workers : v # p /\ sweep[v].pc = "loaded" =>
              LET r == reservation[sweep[v].key].product
              IN  /\ reservation'[sweep[v].key].product = r
                  /\ qty_available'[r] = qty_available[r]
<1>1. ASSUME NEW d \in Clients, d # p, tx'[d] = tx[d] PROVE TxInv(d)'
  <2>1. d # None /\ \A x \in Rows : lock[x] = d => lock'[x] = d
    BY <1>1, NoneIsNothing DEF IInv, TypeOK, Unlocking
  <2>2. \A r \in Products : lock[r] = d => qty_available'[r] = qty_available[r]
    BY <1>1, <2>1
  <2>3. \A j \in Keys : lock[j] = d => reservation'[j] = reservation[j]
    BY <1>1 DEF Resolves
  <2>4. \A r \in Orders : lock[r] = d => orders'[r] = orders[r]
    BY <1>1, <2>1, NoneIsNothing DEF Resolves
  <2>5. tx[d].pc = "ordering" => orders'[tx[d].order] = orders[tx[d].order]
    BY NoneIsNothing DEF IInv, TxInv, Resolves
  <2>6. QED
    BY <1>1, <2>1, <2>2, <2>3, <2>4, <2>5, BystanderTx DEF IInv
<1>2. ASSUME NEW v \in Workers, v # p, sweep'[v] = sweep[v] PROVE SweepInv(v)'
  <2>1. \A x \in Rows : lock[x] = v => lock'[x] = v
    BY <1>2 DEF IInv, TypeOK, Unlocking
  <2>2. QED
    BY <1>2, <2>1, BystanderSweep DEF IInv, Resolves
<1>3. ASSUME NEW v \in Workers, v # p, sweep[v].pc = "loaded"
      PROVE  LET r == reservation[sweep[v].key].product
             IN  /\ reservation'[sweep[v].key].product = r
                 /\ qty_available'[r] = qty_available[r]
  <2>1. /\ sweep[v].key \in Keys
        /\ reservation[sweep[v].key].product \in Products
        /\ lock[sweep[v].key] = v
        /\ lock[reservation[sweep[v].key].product] = v
        /\ v # None
    BY <1>3, NoneIsNothing DEF IInv, SweepInv, RowInv
  <2>2. QED
    BY <1>3, <2>1 DEF Resolves
<1>4. QED
  BY <1>1, <1>2, <1>3

LEMMA CancelCommitInv ==
  ASSUME IInv, NEW c \in Clients, CancelCommit(c)
  PROVE  IInv'
<1>1. PICK k0, o0, p0 : k0 = tx[c].key /\ o0 = tx[c].order /\ p0 = reservation[k0].product
  OBVIOUS
<1>2. /\ Resolves(k0, "CANCELLED", o0, "CANCELLED")
      /\ o0 \in Orders /\ lock[o0] = c /\ lock[k0] = c
      /\ p0 \in Products /\ lock[p0] \in {c, None}
      /\ qty_available' = [qty_available EXCEPT ![p0] = @ + reservation[k0].qty]
      /\ qty_available' \in [Products -> Nat]
      /\ UNCHANGED <<due, sweep, failures>>
      /\ tx' = [tx EXCEPT ![c] = Idle]
      /\ lock' = Unlocking(c)
  BY <1>1, CancelCommitEffect
<1>3. \A r \in Products : qty_available'[r] # qty_available[r] => lock[r] \in {c, None}
  BY <1>2 DEF IInv, TypeOK
<1>4. c \in Procs /\ o0 # None
  BY <1>2, NoneIsNothing DEF Procs
<1>5. TypeOK'
  BY <1>2 DEF IInv, Resolves, TypeOK, RequestState, Rows, Procs, Idle, Unlocking
<1>6. RowInv'
  BY <1>2, <1>4 DEF IInv, Resolves, RowInv
<1>7. LinksInv'
  BY <1>2, <1>4, LinksAfterStatusChange DEF IInv, Resolves, Paired
<1>8. ASSUME NEW d \in Clients PROVE TxInv(d)'
  <2>1. CASE d = c
    BY <1>2, <2>1 DEF IInv, TypeOK, TxInv, Idle
  <2>2. CASE d # c
    <3>1. tx'[d] = tx[d]
      BY <1>2, <2>2 DEF IInv, TypeOK
    <3>2. QED
      BY <1>2, <1>3, <1>4, <2>2, <3>1, OthersAfterResolve
  <2>3. QED
    BY <2>1, <2>2
<1>9. FreshOrdersDiffer'
  BY <1>2 DEF IInv, TypeOK, FreshOrdersDiffer, Idle
<1>10. ASSUME NEW w \in Workers PROVE w # c /\ SweepInv(w)'
  BY <1>2, <1>3, <1>4, OthersAfterResolve, RowsAreDistinct
<1>11. ASSUME NEW w \in Workers, sweep[w].pc = "loaded"
       PROVE  LET r == reservation[sweep[w].key].product
              IN  /\ reservation'[sweep[w].key].product = r
                  /\ qty_available'[r] = qty_available[r]
  BY <1>2, <1>3, <1>4, <1>10, <1>11, OthersAfterResolve
<1>12. FreshInv'
  BY <1>2, <1>11 DEF IInv, FreshInv
<1>13. QED
  BY <1>5, <1>6, <1>7, <1>8, <1>9, <1>10, <1>12 DEF IInv

LEMMA ExpireInv ==
  ASSUME IInv, NEW k \in Keys, Expire(k)
  PROVE  IInv'
<1> USE DEF IInv, Expire
<1>1. TypeOK'
  BY DEF TypeOK
<1>2. RowInv' /\ LinksInv' /\ FreshOrdersDiffer'
  BY DEF RowInv, LinksInv, FreshOrdersDiffer
<1>3. \A d \in Clients : TxInv(d)'
  BY DEF TxInv
<1>4. (\A w \in Workers : SweepInv(w)') /\ FreshInv'
  BY DEF SweepInv, FreshInv
<1>5. QED
  BY <1>1, <1>2, <1>3, <1>4

\* The steps of a sweep that only move it on: its own state and its locks.
LEMMA SweepMovesInv ==
  ASSUME IInv, NEW w \in Workers,
         UNCHANGED <<qty_available, reservation, orders, due, tx>>,
         failures' \in Nat,
         lock' \in [Rows -> Procs \cup {None}],
         \A x \in Rows, q \in Procs \ {w} : lock[x] = q => lock'[x] = q,
         \A v \in Workers \ {w} : sweep'[v] = sweep[v],
         sweep' \in [Workers -> SweepState],
         SweepInv(w)',
         ExpireOnCommit => sweep'[w].cached = None,
         sweep'[w].pc = "loaded" =>
           \/ sweep'[w].cached = reservation[sweep'[w].key].product
           \/ sweep'[w].seen = qty_available[reservation[sweep'[w].key].product]
  PROVE  IInv'
<1> USE DEF IInv
<1>1. TypeOK'
  BY DEF TypeOK
<1>2. RowInv' /\ LinksInv' /\ FreshOrdersDiffer'
  BY DEF RowInv, LinksInv, FreshOrdersDiffer
<1>3. ASSUME NEW d \in Clients PROVE TxInv(d)'
  BY BystanderTx, RowsAreDistinct DEF Procs
<1>4. ASSUME NEW v \in Workers PROVE SweepInv(v)'
  BY BystanderSweep DEF Procs
<1>5. FreshInv'
  BY DEF FreshInv
<1>6. QED
  BY <1>1, <1>2, <1>3, <1>4, <1>5

LEMMA SweepStartInv ==
  ASSUME IInv, NEW w \in Workers, SweepStart(w)
  PROVE  IInv'
<1>1. PICK ids \in SUBSET Keys : ids = Expired
  BY DEF IInv, TypeOK, Expired
<1>2. /\ sweep' \in [Workers -> SweepState]
      /\ \A v \in Workers \ {w} : sweep'[v] = sweep[v]
      /\ sweep'[w].pc = "picking" /\ sweep'[w].cached = sweep[w].cached
  <2>1. sweep \in [Workers -> SweepState]
    BY DEF IInv, TypeOK
  <2>2. sweep' = [sweep EXCEPT ![w].pc = "picking", ![w].todo = ids]
    BY <1>1 DEF SweepStart
  <2>3. [[sweep[w] EXCEPT !.pc = "picking"] EXCEPT !.todo = ids] \in SweepState
    BY <1>1, <2>1 DEF SweepState
  <2>4. sweep' \in [Workers -> SweepState]
    BY <2>1, <2>2, <2>3
  <2>5. QED
    BY <2>1, <2>2, <2>4 DEF SweepState
<1>3. UNCHANGED <<qty_available, reservation, orders, due, tx, lock, failures>>
  BY DEF SweepStart
<1>4. SweepInv(w)'
  BY <1>2 DEF SweepInv
<1>5. /\ failures' \in Nat
      /\ lock' \in [Rows -> Procs \cup {None}]
      /\ ExpireOnCommit => sweep'[w].cached = None
  BY <1>2, <1>3 DEF IInv, TypeOK, FreshInv
<1>6. QED
  BY <1>2, <1>3, <1>4, <1>5, SweepMovesInv

LEMMA SweepPickInv ==
  ASSUME IInv, NEW w \in Workers, SweepPick(w)
  PROVE  IInv'
<1>1. PICK k \in sweep[w].todo :
        sweep' = [sweep EXCEPT ![w].pc = "locking", ![w].key = k,
                               ![w].todo = @ \ {k}]
  BY DEF SweepPick
<1>2. k \in Keys /\ sweep[w].todo \ {k} \in SUBSET Keys
  BY DEF IInv, TypeOK, SweepState
<1>3. /\ sweep' \in [Workers -> SweepState]
      /\ \A v \in Workers \ {w} : sweep'[v] = sweep[v]
      /\ sweep'[w].pc = "locking" /\ sweep'[w].cached = sweep[w].cached
      /\ sweep'[w].key = k
  BY <1>1, <1>2 DEF IInv, TypeOK, SweepState
<1>4. UNCHANGED <<qty_available, reservation, orders, due, tx, lock, failures>>
  BY DEF SweepPick
<1>5. SweepInv(w)'
  BY <1>2, <1>3 DEF SweepInv
<1>6. /\ failures' \in Nat
      /\ lock' \in [Rows -> Procs \cup {None}]
      /\ ExpireOnCommit => sweep'[w].cached = None
  BY <1>3, <1>4 DEF IInv, TypeOK, FreshInv
<1>7. QED
  BY <1>3, <1>4, <1>5, <1>6, SweepMovesInv

\* The row locks of the others are kept when w locks a free row, and when its
\* transaction ends.
LEMMA OthersKeepLocks ==
  ASSUME TypeOK, NEW w \in Workers,
         \/ \E r \in Rows : Free(r, w) /\ lock' = Locking(r, w)
         \/ lock' = Unlocking(w)
  PROVE  /\ lock' \in [Rows -> Procs \cup {None}]
         /\ \A x \in Rows, q \in Procs \ {w} : lock[x] = q => lock'[x] = q
BY NoneIsNothing DEF TypeOK, Procs, Free, Locking, Unlocking

LEMMA SweepLockReservationInv ==
  ASSUME IInv, NEW w \in Workers, SweepLockReservation(w)
  PROVE  IInv'
<1>1. /\ sweep' \in [Workers -> SweepState]
      /\ \A v \in Workers \ {w} : sweep'[v] = sweep[v]
      /\ sweep'[w].pc = "locked" /\ sweep'[w].cached = sweep[w].cached
      /\ sweep'[w].key = sweep[w].key
  BY DEF IInv, TypeOK, SweepState, SweepLockReservation
<1>2. sweep[w].key \in Keys /\ reservation[sweep[w].key].status = "PENDING"
  BY DEF IInv, SweepInv, SweepLockReservation, StillPending
<1>3. /\ UNCHANGED <<qty_available, reservation, orders, due, tx, failures>>
      /\ Free(sweep[w].key, w) /\ lock' = Locking(sweep[w].key, w)
      /\ sweep[w].key \in Rows
  BY <1>2 DEF SweepLockReservation, Rows
<1>4. lock'[sweep[w].key] = w
  BY <1>3 DEF IInv, TypeOK, Locking
<1>5. SweepInv(w)'
  BY <1>1, <1>2, <1>3, <1>4 DEF SweepInv
<1>6. QED
  BY <1>1, <1>3, <1>5, OthersKeepLocks, SweepMovesInv DEF IInv, TypeOK, FreshInv

LEMMA SweepSkipInv ==
  ASSUME IInv, NEW w \in Workers, SweepSkip(w)
  PROVE  IInv'
<1>1. /\ sweep' \in [Workers -> SweepState]
      /\ \A v \in Workers \ {w} : sweep'[v] = sweep[v]
      /\ sweep'[w].pc = "picking" /\ sweep'[w].cached = sweep[w].cached
  <2>1. sweep \in [Workers -> SweepState]
    BY DEF IInv, TypeOK
  <2>2. sweep' = [sweep EXCEPT ![w].pc = "picking", ![w].key = None]
    BY DEF SweepSkip
  <2>3. [[sweep[w] EXCEPT !.pc = "picking"] EXCEPT !.key = None] \in SweepState
    BY <2>1 DEF SweepState
  <2>4. sweep' \in [Workers -> SweepState]
    BY <2>1, <2>2, <2>3
  <2>5. QED
    BY <2>1, <2>2, <2>4 DEF SweepState
<1>2. /\ UNCHANGED <<qty_available, reservation, orders, due, tx, failures>>
      /\ Free(sweep[w].key, w) /\ lock' = Locking(sweep[w].key, w)
      /\ sweep[w].key \in Rows
  BY DEF IInv, SweepInv, SweepSkip, Rows
<1>3. SweepInv(w)'
  BY <1>1 DEF SweepInv
<1>4. QED
  BY <1>1, <1>2, <1>3, OthersKeepLocks, SweepMovesInv DEF IInv, TypeOK, FreshInv

LEMMA SweepLockProductInv ==
  ASSUME IInv, NEW w \in Workers, SweepLockProduct(w)
  PROVE  IInv'
<1> DEFINE k == sweep[w].key
           p == reservation[k].product
<1>1. /\ k \in Keys
      /\ lock[k] = w
      /\ reservation[k].status = "PENDING"
      /\ p \in Products
  BY DEF IInv, SweepInv, RowInv, SweepLockProduct
<1>2. PICK n \in Nat :
        n = Loaded(w, p) /\ (sweep[w].cached = p \/ n = qty_available[p])
  BY <1>1 DEF IInv, TypeOK, SweepState, Loaded
<1>3. /\ sweep' \in [Workers -> SweepState]
      /\ \A v \in Workers \ {w} : sweep'[v] = sweep[v]
      /\ sweep'[w].pc = "loaded" /\ sweep'[w].cached = sweep[w].cached
      /\ sweep'[w].key = k /\ sweep'[w].seen = n
  <2>1. sweep \in [Workers -> SweepState]
    BY DEF IInv, TypeOK
  <2>2. sweep' = [sweep EXCEPT ![w].pc = "loaded", ![w].seen = n]
    BY <1>2 DEF SweepLockProduct
  <2>3. [[sweep[w] EXCEPT !.pc = "loaded"] EXCEPT !.seen = n] \in SweepState
    BY <2>1 DEF SweepState
  <2>4. sweep' \in [Workers -> SweepState]
    BY <2>1, <2>2, <2>3
  <2>5. QED
    BY <1>1, <2>1, <2>2, <2>4 DEF SweepState
<1>4. /\ UNCHANGED <<qty_available, reservation, orders, due, tx, failures>>
      /\ Free(p, w) /\ lock' = Locking(p, w)
      /\ p \in Rows /\ k \in Rows
  BY <1>1 DEF SweepLockProduct, Rows
<1>5. lock'[p] = w /\ lock'[k] = w
  BY <1>1, <1>4 DEF IInv, TypeOK, Locking
<1>6. SweepInv(w)'
  BY <1>1, <1>3, <1>4, <1>5 DEF SweepInv
<1>7. QED
  BY <1>2, <1>3, <1>4, <1>6, OthersKeepLocks, SweepMovesInv
     DEF IInv, TypeOK, FreshInv

\* The end of a sweep, and its crash.
LEMMA SweepStopsInv ==
  ASSUME IInv, NEW w \in Workers, failures' \in Nat,
         lock' = Unlocking(w), sweep' = [sweep EXCEPT ![w] = NotRunning],
         UNCHANGED <<qty_available, reservation, orders, due, tx>>
  PROVE  IInv'
<1>1. /\ sweep' \in [Workers -> SweepState]
      /\ \A v \in Workers \ {w} : sweep'[v] = sweep[v]
      /\ sweep'[w].pc = "off" /\ sweep'[w].cached = None
  BY DEF IInv, TypeOK, SweepState, NotRunning
<1>2. QED
  BY <1>1, OthersKeepLocks, SweepMovesInv DEF IInv, SweepInv

\* A failed iteration, and a sweep chosen as the victim of a deadlock.
LEMMA AbortIterationInv ==
  ASSUME IInv, NEW w \in Workers, failures' \in Nat, AbortIteration(w)
  PROVE  IInv'
<1>1. /\ sweep' \in [Workers -> SweepState]
      /\ \A v \in Workers \ {w} : sweep'[v] = sweep[v]
      /\ sweep'[w].pc = "picking" /\ sweep'[w].cached = None
  BY DEF IInv, TypeOK, SweepState, AbortIteration
<1>2. QED
  BY <1>1, OthersKeepLocks, SweepMovesInv DEF IInv, SweepInv, AbortIteration

LEMMA SweepReleaseEffect ==
  ASSUME IInv, NEW w \in Workers, SweepRelease(w),
         NEW k, k = sweep[w].key, NEW p, p = reservation[k].product,
         NEW o, o = reservation[k].order, NEW q, q = sweep[w].seen + reservation[k].qty
  PROVE  /\ Resolves(k, "EXPIRED", o, "CANCELLED")
         /\ lock[k] = w /\ (o # None => lock[o] \in {None, w})
         /\ p \in Products /\ lock[p] = w
         /\ q \in Nat /\ reservation[k].qty \in Nat
         /\ qty_available' = [qty_available EXCEPT ![p] = q]
         /\ UNCHANGED <<due, tx, failures>>
         /\ lock' = Unlocking(w)
         /\ sweep' \in [Workers -> SweepState]
         /\ \A v \in Workers \ {w} : sweep'[v] = sweep[v]
         /\ sweep'[w].pc = "picking"
         /\ ExpireOnCommit => sweep'[w].cached = None
<1>1. /\ k \in Keys
      /\ reservation[k].status = "PENDING"
      /\ lock[k] = w /\ lock[p] = w
  BY DEF IInv, SweepInv, SweepRelease
<1>2. p \in Products /\ reservation[k].qty \in Nat
  BY <1>1, BoundsAreNatural DEF IInv, RowInv, Quantities
<1>3. sweep[w].seen \in Nat /\ sweep[w].todo \in SUBSET Keys
  BY DEF IInv, TypeOK, SweepState
<1>4. q \in Nat
  BY <1>2, <1>3
<1>5. o \in Orders \cup {None}
  BY <1>1 DEF IInv, TypeOK, ReservationRow
<1>6. o # None => orders[o].status = "PENDING" /\ lock[o] \in {None, w}
  BY <1>1 DEF IInv, LinksInv, Paired, SweepRelease, Free
<1>7. /\ reservation \in [Keys -> ReservationRow] /\ orders \in [Orders -> OrderRow]
      /\ sweep \in [Workers -> SweepState]
  BY DEF IInv, TypeOK
<1>8. /\ UNCHANGED <<due, tx, failures>>
      /\ lock' = Unlocking(w)
      /\ qty_available' = [qty_available EXCEPT ![p] = q]
      /\ reservation' = [reservation EXCEPT ![k].status = "EXPIRED"]
      /\ orders' = [r \in Orders |-> IF r = o
                                     THEN [orders[r] EXCEPT !.status = "CANCELLED"]
                                     ELSE orders[r]]
      /\ sweep' = [sweep EXCEPT ![w] = AfterCommit(sweep[w], p, q)]
  BY DEF SweepRelease
<1>9. /\ reservation' \in [Keys -> ReservationRow]
      /\ \A j \in Keys \ {k} : reservation'[j] = reservation[j]
      /\ reservation'[k].status = "EXPIRED"
      /\ reservation'[k].user = reservation[k].user
      /\ reservation'[k].product = reservation[k].product
      /\ reservation'[k].qty = reservation[k].qty
      /\ reservation'[k].order = reservation[k].order
  BY <1>1, <1>7, <1>8 DEF ReservationRow, ReservationStatus
<1>10. \A r \in Orders : [orders[r] EXCEPT !.status = "CANCELLED"] \in OrderRow
  BY <1>7 DEF OrderRow, OrderStatus
<1>11. orders' \in [Orders -> OrderRow]
  BY <1>7, <1>8, <1>10
<1>12. \A r \in Orders \ {o} : orders'[r] = orders[r]
  BY <1>8
<1>13. o # None => orders'[o].status = "CANCELLED" /\ orders'[o].user = orders[o].user
  BY <1>5, <1>7, <1>8 DEF OrderRow
<1>14. AfterCommit(sweep[w], p, q) \in SweepState
  BY <1>2, <1>3, <1>4, ExpireOnCommitIsBoolean DEF AfterCommit, SweepState
<1>15. /\ sweep' \in [Workers -> SweepState]
       /\ \A v \in Workers \ {w} : sweep'[v] = sweep[v]
       /\ sweep'[w] = AfterCommit(sweep[w], p, q)
  BY <1>7, <1>8, <1>14
<1>16. /\ sweep'[w].pc = "picking"
       /\ ExpireOnCommit => sweep'[w].cached = None
  BY <1>15 DEF AfterCommit
<1>17. Resolves(k, "EXPIRED", o, "CANCELLED")
  BY <1>1, <1>5, <1>6, <1>9, <1>11, <1>12, <1>13 DEF Resolves
<1>18. QED
  BY <1>1, <1>2, <1>4, <1>6, <1>8, <1>15, <1>16, <1>17

LEMMA SweepReleaseInv ==
  ASSUME IInv, NEW w \in Workers, SweepRelease(w)
  PROVE  IInv'
<1>1. PICK k, p, o, q :
        /\ k = sweep[w].key /\ p = reservation[k].product
        /\ o = reservation[k].order /\ q = sweep[w].seen + reservation[k].qty
  OBVIOUS
<1>2. /\ Resolves(k, "EXPIRED", o, "CANCELLED")
      /\ lock[k] = w /\ (o # None => lock[o] \in {None, w})
      /\ p \in Products /\ lock[p] = w
      /\ q \in Nat
      /\ qty_available' = [qty_available EXCEPT ![p] = q]
      /\ UNCHANGED <<due, tx, failures>>
      /\ lock' = Unlocking(w)
      /\ sweep' \in [Workers -> SweepState]
      /\ \A v \in Workers \ {w} : sweep'[v] = sweep[v]
      /\ sweep'[w].pc = "picking"
      /\ ExpireOnCommit => sweep'[w].cached = None
  BY <1>1, SweepReleaseEffect
<1>3. lock' \in [Rows -> Procs \cup {None}]
  BY <1>2, OthersKeepLocks DEF IInv
<1>4. \A r \in Products : qty_available'[r] # qty_available[r] => lock[r] \in {w, None}
  BY <1>2 DEF IInv, TypeOK
<1>5. w \in Procs
  BY DEF Procs
<1>6. TypeOK'
  BY <1>2, <1>3 DEF IInv, TypeOK, Resolves
<1>7. RowInv'
  <2>1. ASSUME NEW r \in Orders
        PROVE  orders'[r] = orders[r] \/
                 (/\ orders'[r].status = "CANCELLED" /\ orders[r].status = "PENDING"
                  /\ orders'[r].user = orders[r].user)
    BY <1>2, NoneIsNothing DEF Resolves
  <2>2. QED
    BY <1>2, <2>1 DEF IInv, RowInv, Resolves
<1>8. LinksInv'
  <2>1. CASE o # None
    BY <1>2, <2>1, LinksAfterStatusChange DEF IInv, Paired, Resolves
  <2>2. CASE o = None
    <3>1. \A r \in Orders : orders'[r] = orders[r]
      BY <1>2, <2>2, NoneIsNothing DEF Resolves
    <3>2. \A j \in Keys : reservation'[j].order = reservation[j].order
      BY <1>2 DEF Resolves
    <3>3. ASSUME NEW j \in Keys, reservation[j].order # None
          PROVE  /\ reservation'[j] = reservation[j]
                 /\ orders'[reservation[j].order] = orders[reservation[j].order]
      BY <1>2, <2>2, <3>1, <3>3 DEF IInv, TypeOK, ReservationRow, Resolves
    <3>4. ASSUME NEW j \in Keys
          PROVE  IF reservation'[j].order = None
                 THEN reservation'[j].status \in {"ABSENT", "PENDING", "EXPIRED"}
                 ELSE /\ reservation'[j].user = orders'[reservation'[j].order].user
                      /\ <<orders'[reservation'[j].order].status,
                           reservation'[j].status>> \in Paired
      <4>1. CASE reservation[j].order = None
        BY <1>2, <3>2, <4>1 DEF IInv, LinksInv, Resolves
      <4>2. CASE reservation[j].order # None
        BY <3>3, <4>2 DEF IInv, LinksInv
      <4>3. QED
        BY <4>1, <4>2
    <3>5. QED
      BY <3>1, <3>2, <3>4 DEF IInv, LinksInv
  <2>3. QED
    BY <2>1, <2>2
<1>9. ASSUME NEW d \in Clients PROVE d # w /\ TxInv(d)'
  BY <1>2, <1>4, <1>5, OthersAfterResolve, RowsAreDistinct
<1>10. FreshOrdersDiffer'
  BY <1>2 DEF IInv, FreshOrdersDiffer
<1>11. ASSUME NEW v \in Workers PROVE SweepInv(v)'
  <2>1. CASE v = w
    BY <1>2, <2>1 DEF SweepInv
  <2>2. CASE v # w
    BY <1>2, <1>4, <1>5, <2>2, OthersAfterResolve
  <2>3. QED
    BY <2>1, <2>2
<1>12. ASSUME NEW v \in Workers, v # w, sweep[v].pc = "loaded"
       PROVE  LET r == reservation[sweep[v].key].product
              IN  /\ reservation'[sweep[v].key].product = r
                  /\ qty_available'[r] = qty_available[r]
  BY <1>2, <1>4, <1>5, <1>12, OthersAfterResolve
<1>13. FreshInv'
  BY <1>2, <1>12 DEF IInv, FreshInv
<1>14. QED
  BY <1>6, <1>7, <1>8, <1>9, <1>10, <1>11, <1>13 DEF IInv

-----------------------------------------------------------------------------
(* The invariant, and what follows from it.                                *)

LEMMA NextInv == IInv /\ [Next]_vars => IInv'
<1> SUFFICES ASSUME IInv, [Next]_vars PROVE IInv'
  OBVIOUS
<1>1. ASSUME NEW c \in Clients, BeginRequest(c) PROVE IInv'
  BY <1>1, ReserveReadInv, PlaceOrderReadInv, LockOrderInv
     DEF BeginRequest, PayRead, CancelRead
<1>2. ASSUME NEW c \in Clients, ContinueRequest(c) PROVE IInv'
  <2>1. CASE ReserveConflict(c)
    BY <2>1, AbortRequestInv DEF ReserveConflict, IInv, TypeOK
  <2>2. QED
    BY <1>2, <2>1, ReserveCommitInv, PlaceOrderCommitInv, PayCommitInv,
       CancelLockReservationInv, CancelCommitInv DEF ContinueRequest
<1>3. ASSUME NEW w \in Workers, SweepStep(w) PROVE IInv'
  <2>1. CASE SweepEnd(w)
    BY <2>1, SweepStopsInv DEF SweepEnd, IInv, TypeOK
  <2>2. QED
    BY <1>3, <2>1, SweepStartInv, SweepPickInv, SweepLockReservationInv,
       SweepSkipInv, SweepLockProductInv, SweepReleaseInv DEF SweepStep
<1>4. ASSUME NEW k \in Keys, Expire(k) PROVE IInv'
  BY <1>4, ExpireInv
<1>5. CASE Fail
  <2>1. failures' \in Nat
    BY <1>5 DEF Fail, RequestFails, SweepIterationFails, SweepCrashes, IInv, TypeOK
  <2>2. QED
    BY <1>5, <2>1, AbortRequestInv, AbortIterationInv, SweepStopsInv
       DEF Fail, RequestFails, SweepIterationFails, SweepCrashes, AbortRequest
<1>6. ASSUME NEW p \in Procs, DeadlockVictim(p) PROVE IInv'
  <2>1. failures' \in Nat
    BY <1>6 DEF DeadlockVictim, IInv, TypeOK
  <2>2. QED
    BY <1>6, <2>1, AbortRequestInv, AbortIterationInv
       DEF DeadlockVictim, AbortRequest, Procs
<1>7. CASE UNCHANGED vars
  <2>1. TypeOK'
    BY <1>7 DEF vars, IInv, TypeOK
  <2>2. RowInv' /\ LinksInv' /\ FreshOrdersDiffer'
    BY <1>7 DEF vars, IInv, RowInv, LinksInv, FreshOrdersDiffer
  <2>3. \A c \in Clients : TxInv(c)'
    BY <1>7 DEF vars, IInv, TxInv
  <2>4. (\A w \in Workers : SweepInv(w)') /\ FreshInv'
    BY <1>7 DEF vars, IInv, SweepInv, FreshInv
  <2>5. QED
    BY <2>1, <2>2, <2>3, <2>4 DEF IInv
<1>8. QED
  BY <1>1, <1>2, <1>3, <1>4, <1>5, <1>6, <1>7 DEF Next

THEOREM Invariance == Spec => []IInv
BY InitInv, NextInv, PTL DEF Spec

\* Every variable keeps its type, in every reachable state.
THEOREM TypeCorrect == Spec => []TypeOK
<1>1. IInv => TypeOK
  BY DEF IInv
<1>2. QED
  BY <1>1, Invariance, PTL

\* Orders and reservations stay paired, for any number of requests, sweeps,
\* failures and deadlocks, and whatever the session options.
THEOREM OrdersMatchReservations == Spec => []OrderMatchesReservation
<1>1. IInv => OrderMatchesReservation
  BY LinksInvIsOrderMatches DEF IInv
<1>2. QED
  BY <1>1, Invariance, PTL

-----------------------------------------------------------------------------
(***************************************************************************)
(* What a step may do to the stored rows, and what follows: final statuses *)
(* are final, the transactions implement the ledger, stock is conserved.   *)
(* Then the order in which rows are locked, and that API requests never    *)
(* deadlock among themselves.                                              *)
(***************************************************************************)

LP == INSTANCE StockLedgerProofs WITH
        free <- qty_available,
        hold <- [k \in Keys |-> HoldOf(k)]

-----------------------------------------------------------------------------
(* The steps that write rows.  IInv turns the values a transaction carries *)
(* in memory into the values that are in the rows.                         *)

\* A new reservation takes n units of p.
Reserves(k, p, n) ==
    /\ reservation[k] = NoReservation
    /\ n <= qty_available[p]
    /\ qty_available' = [qty_available EXCEPT ![p] = @ - n]
    /\ \A j \in Keys \ {k} : reservation'[j] = reservation[j]
    /\ reservation'[k].status = "PENDING"
    /\ reservation'[k].product = p
    /\ reservation'[k].qty = n
    /\ orders' = orders

\* A pending reservation gets its new order o.
Links(k, o) ==
    /\ reservation[k].status = "PENDING" /\ reservation[k].order = None
    /\ orders[o].status = "ABSENT"
    /\ \A j \in Keys \ {k} : reservation'[j] = reservation[j]
    /\ reservation'[k].status = "PENDING"
    /\ reservation'[k].user = reservation[k].user
    /\ reservation'[k].product = reservation[k].product
    /\ reservation'[k].qty = reservation[k].qty
    /\ \A r \in Orders \ {o} : orders'[r] = orders[r]
    /\ UNCHANGED qty_available

\* A payment.
Completes(k, o) ==
    /\ Resolves(k, "COMPLETED", o, "PAID")
    /\ UNCHANGED qty_available

\* A cancellation, or a release by a sweep, gives the units back: exactly,
\* unless the sweep works from a stale product object.
Returns(k, st, o) ==
    /\ st \in {"CANCELLED", "EXPIRED"}
    /\ Resolves(k, st, o, "CANCELLED")
    /\ reservation[k].product \in Products
    /\ reservation[k].qty \in Nat
    /\ \/ qty_available' = [qty_available EXCEPT ![reservation[k].product] =
                              @ + reservation[k].qty]
       \/ \E w \in Workers : Stale(w) /\ SweepRelease(w)

RowStep ==
    \/ \E k \in Keys, p \in Products, n \in Quantities : Reserves(k, p, n)
    \/ \E k \in Keys, o \in Orders : Links(k, o)
    \/ \E k, o : Completes(k, o)
    \/ \E k, st, o : Returns(k, st, o)
    \/ UNCHANGED <<qty_available, reservation, orders>>

LEMMA ReserveCommitRows ==
  ASSUME IInv, NEW c \in Clients, ReserveCommit(c)
  PROVE  RowStep
<1>1. PICK k, p, n : k = tx[c].key /\ p = tx[c].product /\ n = tx[c].qty
  OBVIOUS
<1>2. /\ k \in Keys /\ p \in Products /\ n \in Quantities
      /\ n <= qty_available[p] /\ tx[c].seen = qty_available[p]
      /\ reservation[k] = NoReservation
  BY <1>1 DEF IInv, TxInv, RowInv, ReserveCommit
<1>3. Reserves(k, p, n)
  BY <1>1, <1>2 DEF IInv, TypeOK, Reserves, ReserveCommit
<1>4. QED
  BY <1>2, <1>3 DEF RowStep

LEMMA PlaceOrderCommitRows ==
  ASSUME IInv, NEW c \in Clients, PlaceOrderCommit(c)
  PROVE  RowStep
<1>1. PICK k, o : k = tx[c].key /\ o = tx[c].order
  OBVIOUS
<1>2. /\ k \in Keys /\ o \in Orders
      /\ reservation[k].status = "PENDING"
      /\ reservation[k].order = None
      /\ orders[o].status = "ABSENT"
  BY <1>1 DEF IInv, TxInv, PlaceOrderCommit
<1>3. /\ reservation \in [Keys -> ReservationRow] /\ orders \in [Orders -> OrderRow]
      /\ reservation' = [reservation EXCEPT ![k].order = o]
      /\ orders' = [orders EXCEPT ![o] = [status |-> "PENDING", user |-> tx[c].user]]
      /\ UNCHANGED qty_available
  BY <1>1 DEF IInv, TypeOK, PlaceOrderCommit
<1>4. Links(k, o)
  BY <1>2, <1>3 DEF Links, ReservationRow
<1>5. QED
  BY <1>2, <1>4 DEF RowStep

LEMMA PayCommitRows ==
  ASSUME IInv, NEW c \in Clients, PayCommit(c)
  PROVE  RowStep
BY PayCommitEffect DEF RowStep, Completes

LEMMA CancelCommitRows ==
  ASSUME IInv, NEW c \in Clients, CancelCommit(c)
  PROVE  RowStep
<1>1. PICK k, o, p : k = tx[c].key /\ o = tx[c].order /\ p = reservation[k].product
  OBVIOUS
<1>2. Returns(k, "CANCELLED", o)
  BY <1>1, CancelCommitEffect DEF Returns
<1>3. QED
  BY <1>2 DEF RowStep

LEMMA SweepReleaseRows ==
  ASSUME IInv, NEW w \in Workers, SweepRelease(w)
  PROVE  RowStep
<1>1. PICK k, o, p, q :
        /\ k = sweep[w].key /\ o = reservation[k].order
        /\ p = reservation[k].product /\ q = sweep[w].seen + reservation[k].qty
  OBVIOUS
<1>2. /\ Resolves(k, "EXPIRED", o, "CANCELLED")
      /\ p \in Products /\ reservation[k].qty \in Nat
      /\ qty_available' = [qty_available EXCEPT ![p] = q]
  BY <1>1, SweepReleaseEffect
<1>3. sweep[w].seen # qty_available[p] => Stale(w)
  BY <1>1 DEF Stale, SweepRelease
<1>4. Returns(k, "EXPIRED", o)
  BY <1>1, <1>2, <1>3 DEF Returns
<1>5. QED
  BY <1>4 DEF RowStep

\* Every step of the system is one of them.
LEMMA StepsOnRows == IInv /\ [Next]_vars => RowStep
<1> SUFFICES ASSUME IInv, [Next]_vars PROVE RowStep
  OBVIOUS
<1>1. ASSUME NEW c \in Clients, BeginRequest(c) \/ ContinueRequest(c) PROVE RowStep
  BY <1>1, ReserveCommitRows, PlaceOrderCommitRows, PayCommitRows, CancelCommitRows
     DEF BeginRequest, ReserveRead, PlaceOrderRead, PayRead, CancelRead, LockOrder,
         ContinueRequest, ReserveConflict, CancelLockReservation, RowStep
<1>2. ASSUME NEW w \in Workers, SweepStep(w) PROVE RowStep
  BY <1>2, SweepReleaseRows
     DEF SweepStep, SweepStart, SweepPick, SweepLockReservation, SweepSkip,
         SweepLockProduct, SweepEnd, RowStep
<1>3. CASE \/ \E k \in Keys : Expire(k)
           \/ Fail
           \/ \E p \in Procs : DeadlockVictim(p)
           \/ UNCHANGED vars
  BY <1>3 DEF Expire, Fail, RequestFails, SweepIterationFails, SweepCrashes,
              DeadlockVictim, AbortRequest, AbortIteration, vars, RowStep
<1>4. QED
  BY <1>1, <1>2, <1>3 DEF Next

-----------------------------------------------------------------------------
(* Final statuses are final.                                               *)

FinalStep ==
    /\ \A k \in Keys : reservation[k].status # "ABSENT" =>
         /\ reservation'[k].user = reservation[k].user
         /\ reservation'[k].product = reservation[k].product
         /\ reservation'[k].qty = reservation[k].qty
         /\ reservation[k].order # None =>
              reservation'[k].order = reservation[k].order
         /\ reservation[k].status # "PENDING" => reservation'[k] = reservation[k]
    /\ \A o \in Orders : orders[o].status \notin {"ABSENT", "PENDING"} =>
         orders'[o] = orders[o]

LEMMA RowStepsAreFinal == ASSUME IInv, RowStep PROVE FinalStep
<1>1. ASSUME NEW k \in Keys, NEW p \in Products, NEW n \in Quantities,
             Reserves(k, p, n)
      PROVE  FinalStep
  BY <1>1 DEF Reserves, NoReservation, FinalStep
<1>2. ASSUME NEW k \in Keys, NEW o \in Orders, Links(k, o)
      PROVE  FinalStep
  BY <1>2 DEF Links, FinalStep
<1>3. ASSUME NEW k, NEW st, NEW o, NEW ost, Resolves(k, st, o, ost)
      PROVE  FinalStep
  <2>1. ASSUME NEW r \in Orders, orders[r].status \notin {"ABSENT", "PENDING"}
        PROVE  orders'[r] = orders[r]
    BY <1>3, <2>1, NoneIsNothing DEF Resolves
  <2>2. QED
    BY <1>3, <2>1 DEF Resolves, FinalStep
<1>4. CASE UNCHANGED <<qty_available, reservation, orders>>
  BY <1>4 DEF FinalStep
<1>5. QED
  BY <1>1, <1>2, <1>3, <1>4 DEF RowStep, Completes, Returns

\* A reservation or an order in a final status never changes again, and a stored
\* reservation keeps what it reserves, whatever the requests and sweeps do.
THEOREM FinalStatusesAreFinal == Spec => FinalStatusIsFinal
<1>1. IInv /\ [Next]_vars => FinalStep
  BY StepsOnRows, RowStepsAreFinal
<1>2. Spec => [][FinalStep]_vars
  BY <1>1, Invariance, PTL DEF Spec
<1>3. QED
  BY <1>2 DEF FinalStatusIsFinal, FinalStep

-----------------------------------------------------------------------------
(* The rows as a ledger.                                                   *)

Held == [k \in Keys |-> HoldOf(k)]

LEMMA LedgerTyped == IInv => LP!LedgerTypeOK
<1> SUFFICES ASSUME IInv PROVE LP!LedgerTypeOK
  OBVIOUS
<1>1. ASSUME NEW k \in Keys
      PROVE  /\ HoldOf(k) \in [state : {"unused", "held", "sold", "returned"},
                               product : Products \cup {None},
                               qty : Quantities \cup {0}]
             /\ HoldOf(k).state # "unused" =>
                  HoldOf(k).product \in Products /\ HoldOf(k).qty \in Quantities
  BY DEF IInv, TypeOK, RowInv, ReservationRow, ReservationStatus, HoldOf
<1>2. qty_available \in [Products -> Nat]
  BY DEF IInv, TypeOK
<1>3. QED
  BY <1>1, <1>2 DEF LP!LedgerTypeOK, LP!Quantities, Quantities

\* A reservation that keeps its status, product and quantity holds the same.
LEMMA SameHold ==
  ASSUME NEW k \in Keys,
         reservation'[k].status = reservation[k].status,
         reservation'[k].product = reservation[k].product,
         reservation'[k].qty = reservation[k].qty
  PROVE  HoldOf(k)' = HoldOf(k)
BY DEF HoldOf

LEMMA ReservesIsTake ==
  ASSUME IInv, NEW k \in Keys, NEW p \in Products, NEW n \in Quantities,
         Reserves(k, p, n)
  PROVE  LP!Take(k, p, n)
<1>1. \A j \in Keys \ {k} : HoldOf(j)' = HoldOf(j)
  BY SameHold DEF Reserves
<1>2. HoldOf(k).state = "unused"
  BY DEF Reserves, NoReservation, HoldOf
<1>3. HoldOf(k)' = [state |-> "held", product |-> p, qty |-> n]
  BY DEF Reserves, HoldOf
<1>4. Held' = [Held EXCEPT ![k] = [state |-> "held", product |-> p, qty |-> n]]
  BY <1>1, <1>3 DEF Held
<1>5. QED
  BY <1>2, <1>4 DEF LP!Take, Reserves, Held

LEMMA LinksIsStutter ==
  ASSUME NEW k \in Keys, NEW o \in Orders, Links(k, o)
  PROVE  UNCHANGED <<qty_available, Held>>
<1>1. \A j \in Keys : HoldOf(j)' = HoldOf(j)
  BY SameHold DEF Links
<1>2. QED
  BY <1>1 DEF Links, Held

\* The hold of a resolved reservation.
LEMMA ResolvedHold ==
  ASSUME NEW k, NEW st \in {"COMPLETED", "CANCELLED", "EXPIRED"}, NEW o, NEW ost,
         Resolves(k, st, o, ost)
  PROVE  /\ k \in Keys
         /\ HoldOf(k).state = "held"
         /\ HoldOf(k).product = reservation[k].product
         /\ HoldOf(k).qty = reservation[k].qty
         /\ Held' = [Held EXCEPT ![k].state =
                       IF st = "COMPLETED" THEN "sold" ELSE "returned"]
<1>1. k \in Keys /\ \A j \in Keys \ {k} : HoldOf(j)' = HoldOf(j)
  BY SameHold DEF Resolves
<1>2. /\ HoldOf(k).state = "held"
      /\ HoldOf(k).product = reservation[k].product
      /\ HoldOf(k).qty = reservation[k].qty
  BY DEF Resolves, HoldOf
<1>3. HoldOf(k)' = [HoldOf(k) EXCEPT !.state =
                     IF st = "COMPLETED" THEN "sold" ELSE "returned"]
  BY DEF Resolves, HoldOf
<1>4. QED
  BY <1>1, <1>2, <1>3 DEF Held

LEMMA CompletesIsSell ==
  ASSUME NEW k, NEW o, Completes(k, o)
  PROVE  k \in Keys /\ LP!Sell(k)
<1>1. /\ k \in Keys
      /\ HoldOf(k).state = "held"
      /\ Held' = [Held EXCEPT ![k].state = "sold"]
  BY ResolvedHold DEF Completes
<1>2. QED
  BY <1>1 DEF LP!Sell, Completes, Held

LEMMA ReturnsIsGiveBack ==
  ASSUME NEW k, NEW st, NEW o, Returns(k, st, o),
         qty_available' = [qty_available EXCEPT ![reservation[k].product] =
                             @ + reservation[k].qty]
  PROVE  k \in Keys /\ LP!GiveBack(k)
<1>1. /\ k \in Keys
      /\ HoldOf(k).state = "held"
      /\ HoldOf(k).product = reservation[k].product
      /\ HoldOf(k).qty = reservation[k].qty
      /\ Held' = [Held EXCEPT ![k].state = "returned"]
  BY ResolvedHold DEF Returns
<1>2. QED
  BY <1>1 DEF LP!GiveBack, Held

\* A step of the system is a step of the ledger, unless a sweep releases from a
\* stale product object.
LEMMA RowStepIsLedgerStep ==
  ASSUME IInv, RowStep
  PROVE  \/ [LP!Next]_<<qty_available, Held>>
         \/ \E w \in Workers : Stale(w) /\ SweepRelease(w)
<1>1. ASSUME NEW k \in Keys, NEW p \in Products, NEW n \in Quantities,
             Reserves(k, p, n)
      PROVE  LP!Next
  BY <1>1, ReservesIsTake DEF LP!Next, LP!Quantities, Quantities
<1>2. ASSUME NEW k \in Keys, NEW o \in Orders, Links(k, o)
      PROVE  UNCHANGED <<qty_available, Held>>
  BY <1>2, LinksIsStutter
<1>3. ASSUME NEW k, NEW o, Completes(k, o) PROVE LP!Next
  BY <1>3, CompletesIsSell DEF LP!Next
<1>4. ASSUME NEW k, NEW st, NEW o, Returns(k, st, o)
      PROVE  LP!Next \/ \E w \in Workers : Stale(w) /\ SweepRelease(w)
  BY <1>4, ReturnsIsGiveBack DEF LP!Next, Returns
<1>5. CASE UNCHANGED <<qty_available, reservation, orders>>
  BY <1>5, SameHold DEF Held
<1>6. QED
  BY <1>1, <1>2, <1>3, <1>4, <1>5 DEF RowStep

-----------------------------------------------------------------------------
(* Refinement and conservation.                                            *)

\* w releases a reservation of the product whose object its session has kept from
\* the release before.
RepeatedRelease(w) ==
    sweep[w].cached = reservation[sweep[w].key].product /\ SweepRelease(w)

\* A sweep releases two reservations of one product in a row.
Repetition == \E w \in Workers : RepeatedRelease(w)

\* Only the object of the product released last can be stale, and a session that
\* forgets its objects at commit has none.
LEMMA StaleIsRepeated ==
  ASSUME IInv, NEW w \in Workers, Stale(w) /\ SweepRelease(w)
  PROVE  RepeatedRelease(w)
BY DEF IInv, FreshInv, Stale, RepeatedRelease

LEMMA NothingIsRepeated ==
  ASSUME IInv, ExpireOnCommit, NEW w \in Workers PROVE ~ RepeatedRelease(w)
BY NoneIsNothing DEF IInv, FreshInv, SweepInv, RowInv, RepeatedRelease, SweepRelease

LEMMA LedgerStart == Init => LP!Init
<1> SUFFICES ASSUME Init PROVE LP!Init
  OBVIOUS
<1>1. \A k \in Keys : HoldOf(k) = LP!Unused
  BY DEF Init, NoReservation, HoldOf, LP!Unused
<1>2. QED
  BY <1>1 DEF Init, LP!Init

LEMMA LedgerStepUnlessRepeated ==
  IInv /\ [Next]_vars =>
    [Ledger!Next]_<<qty_available, [k \in Keys |-> HoldOf(k)]>> \/ Repetition
<1>1. LP!Next => Ledger!Next
  BY DEF LP!Next, LP!Take, LP!Sell, LP!GiveBack, LP!Quantities,
         Ledger!Next, Ledger!Take, Ledger!Sell, Ledger!GiveBack, Ledger!Quantities
<1>2. QED
  BY <1>1, StepsOnRows, RowStepIsLedgerStep, StaleIsRepeated DEF Held, Repetition

LEMMA LedgerStartsEmpty == Init => Ledger!Init
BY LedgerStart DEF LP!Init, LP!Unused, Ledger!Init, Ledger!Unused

\* Whatever the options of the sessions, a behaviour in which no sweep releases
\* two reservations of one product in a row implements the ledger: requests, sweeps,
\* failures and deadlock aborts in any order have the effect of taking, selling
\* and giving back units one hold at a time.
THEOREM TransactionsImplementLedger ==
  Spec /\ [][~ Repetition]_vars => ImplementsLedger
<1>1. IInv /\ [Next]_vars /\ [~ Repetition]_vars =>
        [Ledger!Next]_<<qty_available, [k \in Keys |-> HoldOf(k)]>>
  <2>1. CASE UNCHANGED vars
    BY <2>1, SameHold DEF vars
  <2>2. CASE ~ Repetition
    BY <2>2, LedgerStepUnlessRepeated
  <2>3. QED
    BY <2>1, <2>2
<1>2. Spec /\ [][~ Repetition]_vars => Ledger!Spec
  BY <1>1, LedgerStartsEmpty, Invariance, PTL DEF Spec, Ledger!Spec
<1>3. QED
  BY <1>2 DEF ImplementsLedger

\* If sessions forget their objects at commit no release is such a repetition: the
\* repaired worker implements the ledger without a condition on what it releases.
LEMMA ForgetfulSessionsRepeatNothing ==
  ASSUME ExpireOnCommit PROVE Spec => [][~ Repetition]_vars
<1>1. IInv /\ [Next]_vars => [~ Repetition]_vars
  BY NothingIsRepeated DEF Repetition
<1>2. QED
  BY <1>1, Invariance, PTL DEF Spec

-----------------------------------------------------------------------------
(* Conservation of the stock.                                              *)

LEMMA TotalIsAccounted ==
  ASSUME NEW p \in Products
  PROVE  LP!Total(p) = Accounted(p)
<1>1. LP!TakenUnits(p) = HeldUnits(p)
  BY DEF LP!TakenUnits, LP!Quantities, HeldUnits, Quantities, HoldOf
<1>2. QED
  BY <1>1 DEF LP!Total, Accounted, LP!Cardinality, Cardinality

\* A step of the ledger keeps the account of every product.
LEMMA LedgerStepKeepsAccount ==
  ASSUME IInv, [LP!Next]_<<qty_available, Held>>, NEW p \in Products
  PROVE  Accounted(p)' = Accounted(p)
<1>1. LP!Kept
  <2>1. LP!LedgerAssumptions
    BY StockIsNatural, FiniteRows, BoundsAreNatural, NoneIsNothing
       DEF LP!LedgerAssumptions, LP!IsFiniteSet, IsFiniteSet
  <2>2. QED
    BY <2>1, LedgerTyped, LP!LedgerNext DEF Held
<1>2. LP!Total(p)' = LP!Total(p)
  BY <1>1 DEF LP!Kept
<1>3. LP!Total(p) = Accounted(p)
  BY TotalIsAccounted
<1>4. (LP!Total(p) = Accounted(p))'
  BY TotalIsAccounted, PTL
<1>5. QED
  BY <1>2, <1>3, <1>4

\* Whatever the options of the sessions, the stock left and the units held add up
\* to the initial stock after any sequence of requests, sweeps, failures and
\* deadlock aborts in which no sweep releases two reservations of one product in a
\* row.
THEOREM StockIsConserved ==
  Spec /\ [][~ Repetition]_vars => []StockConserved
<1>1. Init => StockConserved
  <2> SUFFICES ASSUME Init PROVE StockConserved
    OBVIOUS
  <2>1. \A p \in Products : HeldUnits(p) = {}
    BY DEF Init, NoReservation, HeldUnits
  <2>2. \A p \in Products : Cardinality(HeldUnits(p)) = 0
    BY <2>1, FS_EmptySet
  <2>3. QED
    BY <2>2, StockIsNatural DEF Init, StockConserved, Accounted
<1>2. IInv /\ StockConserved /\ [Next]_vars /\ [~ Repetition]_vars => StockConserved'
  <2>1. CASE UNCHANGED vars
    BY <2>1 DEF vars, StockConserved, Accounted, HeldUnits
  <2>2. CASE ~ Repetition
    BY <2>2, StepsOnRows, RowStepIsLedgerStep, StaleIsRepeated, LedgerStepKeepsAccount
       DEF StockConserved, Repetition
  <2>3. QED
    BY <2>1, <2>2
<1>3. QED
  BY <1>1, <1>2, Invariance, PTL DEF Spec

LEMMA AccountedIsInteger ==
  ASSUME TypeOK, NEW p \in Products
  PROVE  Cardinality(HeldUnits(p)) \in Nat
<1>1. IsFiniteSet(Keys \X Quantities)
  <2>1. IsFiniteSet(Quantities)
    BY BoundsAreNatural, FS_Interval DEF Quantities
  <2>2. QED
    BY <2>1, FiniteRows, FS_Product
<1>2. HeldUnits(p) \subseteq Keys \X Quantities
  BY DEF HeldUnits
<1>3. QED
  BY <1>1, <1>2, FS_Subset, FS_CardinalityType

\* Whatever the options of the sessions, reservations hold no more units than there
\* were, for any number of requests and sweeps, as long as no sweep releases two
\* reservations of one product in a row: with the deployed options (worker.py:30)
\* nothing but such a pair of releases oversells.
THEOREM NeverOversold ==
  Spec /\ [][~ Repetition]_vars => []NoOversell
<1>1. TypeOK /\ StockConserved => NoOversell
  <2> SUFFICES ASSUME TypeOK, StockConserved, NEW p \in Products
               PROVE  Cardinality(HeldUnits(p)) <= Stock[p]
    BY DEF NoOversell
  <2>1. Cardinality(HeldUnits(p)) \in Nat
    BY AccountedIsInteger
  <2>2. qty_available[p] \in Nat /\ Stock[p] \in Nat
    BY StockIsNatural DEF TypeOK
  <2>3. qty_available[p] + Cardinality(HeldUnits(p)) = Stock[p]
    BY DEF StockConserved, Accounted
  <2>4. QED
    BY <2>1, <2>2, <2>3
<1>2. QED
  BY <1>1, StockIsConserved, TypeCorrect, PTL

\* Whatever the session options, the only step that can break the account of a
\* product is the release of a sweep that works from a stale product object.
THEOREM OnlyStaleReleasesMiscount == Spec => OnlyStaleSweepsMiscount
<1>1. IInv /\ [Next]_vars =>
        [\A p \in Products :
          Accounted(p)' # Accounted(p) =>
            \E w \in Workers : Stale(w) /\ SweepRelease(w)]_vars
  BY StepsOnRows, RowStepIsLedgerStep, LedgerStepKeepsAccount
<1>2. QED
  BY <1>1, Invariance, PTL DEF Spec, OnlyStaleSweepsMiscount

-----------------------------------------------------------------------------
(* Deadlocks.                                                              *)

\* What the request in c's session may have locked: a product only until it
\* commits its reservation, a reservation only while nothing but a product is
\* left to lock.
HoldInv(c) ==
    /\ \A p \in Products : lock[p] = c => tx[c].pc = "reserving"
    /\ \A k \in Keys : lock[k] = c => tx[c].pc \in {"ordering", "returning"}
    /\ \A o \in Orders : lock[o] = c =>
         tx[c].pc \in {"paying", "cancelling", "returning"}

\* A step of another process leaves c's locks and request alone.
LEMMA BystanderHold ==
  ASSUME NEW c \in Clients, HoldInv(c), tx'[c].pc = tx[c].pc,
         \A r \in Rows : lock'[r] = c => lock[r] = c
  PROVE  HoldInv(c)'
BY DEF HoldInv, Rows

\* A request that ends holds nothing.
LEMMA FinishedHold ==
  ASSUME IInv, NEW c \in Clients, lock' = Unlocking(c)
  PROVE  HoldInv(c)'
BY NoneIsNothing DEF HoldInv, Unlocking, Rows

\* Locks that p takes or gives up are not those of another process.
LEMMA OthersLockNothing ==
  ASSUME IInv, NEW p \in Procs, NEW c \in Procs, c # p,
         \/ lock' = lock
         \/ \E r \in Rows : lock' = Locking(r, p)
         \/ lock' = Unlocking(p)
  PROVE  \A r \in Rows : lock'[r] = c => lock[r] = c
BY NoneIsNothing DEF IInv, TypeOK, Procs, Locking, Unlocking

\* The steps of c's own request.
LEMMA OwnHold ==
  ASSUME IInv, NEW c \in Clients, HoldInv(c), BeginRequest(c) \/ ContinueRequest(c)
  PROVE  HoldInv(c)'
<1>1. ASSUME NEW u \in Users, NEW k \in Keys, NEW p \in Products,
             NEW n \in Quantities, ReserveRead(c, u, k, p, n)
      PROVE  HoldInv(c)'
  BY <1>1, RowsAreDistinct
     DEF IInv, TypeOK, Rows, HoldInv, ReserveRead, Locking
<1>2. ASSUME NEW u \in Users, NEW k \in Keys, NEW o \in Orders,
             PlaceOrderRead(c, u, k, o)
      PROVE  HoldInv(c)'
  BY <1>2, RowsAreDistinct
     DEF IInv, TypeOK, Rows, HoldInv, PlaceOrderRead, Locking
<1>3. ASSUME NEW u \in Users, NEW o \in Orders, NEW pc \in {"paying", "cancelling"},
             LockOrder(c, u, o, pc)
      PROVE  HoldInv(c)'
  BY <1>3, RowsAreDistinct
     DEF IInv, TypeOK, Rows, HoldInv, LockOrder, Locking
<1>4. CASE CancelLockReservation(c)
  <2>1. PICK k \in Keys :
          /\ lock' = Locking(k, c)
          /\ tx' = [tx EXCEPT ![c] =
                      [pc |-> "returning", user |-> None, key |-> k,
                       order |-> tx[c].order, product |-> reservation[k].product,
                       qty |-> 0, seen |-> 0]]
    BY <1>4 DEF CancelLockReservation, LinkedTo
  <2>2. tx'[c].pc = "returning" /\ tx[c].pc = "cancelling"
    BY <1>4, <2>1 DEF IInv, TypeOK, CancelLockReservation
  <2>3. QED
    BY <2>1, <2>2, RowsAreDistinct DEF IInv, TypeOK, Rows, HoldInv, Locking
<1>5. CASE \/ ReserveCommit(c) \/ ReserveConflict(c) \/ PlaceOrderCommit(c)
           \/ PayCommit(c) \/ CancelCommit(c)
  BY <1>5, FinishedHold
     DEF ReserveCommit, ReserveConflict, PlaceOrderCommit, PayCommit, CancelCommit
<1>6. QED
  BY <1>1, <1>2, <1>3, <1>4, <1>5
     DEF BeginRequest, ContinueRequest, PayRead, CancelRead

\* A step of client c leaves the requests of the other clients alone.
LEMMA OtherRequestsStay ==
  ASSUME IInv, NEW c \in Clients, NEW d \in Clients, d # c,
         BeginRequest(c) \/ ContinueRequest(c) \/ AbortRequest(c)
  PROVE  tx'[d] = tx[d]
BY DEF BeginRequest, ContinueRequest, AbortRequest, ReserveRead, PlaceOrderRead,
       PayRead, CancelRead, LockOrder, ReserveCommit, ReserveConflict,
       PlaceOrderCommit, PayCommit, CancelLockReservation, CancelCommit, Finish,
       IInv, TypeOK

LEMMA OtherClientHold ==
  ASSUME IInv, NEW c \in Clients, NEW d \in Clients, d # c, HoldInv(d),
         BeginRequest(c) \/ ContinueRequest(c) \/ AbortRequest(c)
  PROVE  HoldInv(d)'
<1>1. tx'[d] = tx[d]
  BY OtherRequestsStay
<1>2. \/ \E r \in Rows : lock' = Locking(r, c)
      \/ lock' = Unlocking(c)
  BY DEF BeginRequest, ContinueRequest, AbortRequest, ReserveRead, PlaceOrderRead,
         PayRead, CancelRead, LockOrder, ReserveCommit, ReserveConflict,
         PlaceOrderCommit, PayCommit, CancelLockReservation, CancelCommit,
         LinkedTo, Rows
<1>3. QED
  BY <1>1, <1>2, OthersLockNothing, BystanderHold DEF Procs

\* So do the sweeps.
LEMMA SweepHold ==
  ASSUME IInv, NEW w \in Workers, NEW d \in Clients, HoldInv(d),
         SweepStep(w) \/ AbortIteration(w) \/ SweepCrashes(w)
  PROVE  HoldInv(d)'
<1>1. tx' = tx
  BY DEF SweepStep, SweepStart, SweepPick, SweepLockReservation, SweepSkip,
         SweepLockProduct, SweepRelease, SweepEnd, AbortIteration, SweepCrashes
<1>2. \/ lock' = lock
      \/ \E r \in Rows : lock' = Locking(r, w)
      \/ lock' = Unlocking(w)
  <2>1. CASE SweepLockReservation(w) \/ SweepSkip(w)
    BY <2>1 DEF SweepLockReservation, SweepSkip, IInv, SweepInv, Rows
  <2>2. CASE SweepLockProduct(w)
    BY <2>2 DEF SweepLockProduct, IInv, SweepInv, RowInv, Rows
  <2>3. QED
    BY <2>1, <2>2
       DEF SweepStep, SweepStart, SweepPick, SweepRelease, SweepEnd,
           AbortIteration, SweepCrashes
<1>3. w # d
  BY RowsAreDistinct
<1>4. QED
  BY <1>1, <1>2, <1>3, OthersLockNothing, BystanderHold DEF Procs

LEMMA HoldInvNext ==
  IInv /\ (\A c \in Clients : HoldInv(c)) /\ [Next]_vars
    => (\A c \in Clients : HoldInv(c))'
<1> SUFFICES ASSUME IInv, \A c \in Clients : HoldInv(c), [Next]_vars,
                    NEW d \in Clients
             PROVE  HoldInv(d)'
  OBVIOUS
<1>1. ASSUME NEW c \in Clients, BeginRequest(c) \/ ContinueRequest(c) PROVE HoldInv(d)'
  BY <1>1, OwnHold, OtherClientHold
<1>2. ASSUME NEW c \in Clients, AbortRequest(c) PROVE HoldInv(d)'
  <2>1. CASE d = c
    BY <1>2, <2>1, FinishedHold DEF AbortRequest
  <2>2. CASE d # c
    BY <1>2, <2>2, OtherClientHold
  <2>3. QED
    BY <2>1, <2>2
<1>3. ASSUME NEW w \in Workers,
             SweepStep(w) \/ AbortIteration(w) \/ SweepCrashes(w)
      PROVE  HoldInv(d)'
  BY <1>3, SweepHold
<1>4. CASE UNCHANGED <<lock, tx>>
  BY <1>4 DEF HoldInv
<1>5. QED
  BY <1>1, <1>2, <1>3, <1>4
     DEF Next, Expire, Fail, RequestFails, SweepIterationFails, DeadlockVictim,
         Procs, vars

\* Requests do not wait for each other in a cycle: one that holds a product
\* waits for nothing, so one that waits for a product is not in a cycle of
\* requests, so neither is one that waits for a reservation.
LEMMA NoCycleOfRequests ==
  ASSUME IInv, \A c \in Clients : HoldInv(c)
  PROVE  EveryDeadlockInvolvesASweep
<1> SUFFICES ASSUME NEW S \in SUBSET Clients, Deadlocked(S) PROVE FALSE
  BY DEF EveryDeadlockInvolvesASweep
<1>1. ASSUME NEW c \in S
      PROVE  \E q \in S :
               q \in Clients /\ q # c /\ \E r \in Needs(c) : lock[r] = q
  <2>1. PICK q \in S : q \in Blockers(c)
    BY DEF Deadlocked
  <2>2. q # c /\ \E r \in Needs(c) : lock[r] = q
    BY <2>1 DEF Blockers
  <2>3. QED
    BY <2>2
<1>2. ASSUME NEW c \in S PROVE tx[c].pc \notin {"idle", "reserving"}
  <2>1. tx[c].pc \in {"idle", "reserving"} => Needs(c) = {}
    BY DEF Needs
  <2>2. QED
    BY <1>1, <2>1
<1>3. ASSUME NEW c \in S PROVE tx[c].pc \notin {"ordering", "returning"}
  <2>1. ASSUME tx[c].pc \in {"ordering", "returning"}
        PROVE  Needs(c) \subseteq Products
    <3>1. Needs(c) = {tx[c].product}
      BY <2>1 DEF Needs
    <3>2. c \in Clients /\ TxInv(c)
      BY DEF IInv
    <3>3. tx[c].product \in Products
      BY <2>1, <3>2 DEF IInv, TxInv, RowInv
    <3>4. QED
      BY <3>1, <3>3
  <2>2. QED
    BY <1>1, <1>2, <2>1 DEF HoldInv
<1>4. ASSUME NEW c \in S PROVE tx[c].pc \notin {"paying", "cancelling"}
  <2> SUFFICES ASSUME tx[c].pc \in {"paying", "cancelling"} PROVE FALSE
    OBVIOUS
  <2>1. Needs(c) \subseteq {tx[c].order} \cup Keys
    BY DEF Needs, LinkedTo
  <2>2. lock[tx[c].order] = c
    BY DEF IInv, TxInv
  <2>3. PICK q \in S : q \in Clients /\ q # c /\ \E r \in Needs(c) : lock[r] = q
    BY <1>1
  <2>4. \E k \in Keys : lock[k] = q
    BY <2>1, <2>2, <2>3
  <2>5. QED
    BY <1>3, <2>3, <2>4 DEF HoldInv
<1>5. PICK c \in S : TRUE
  BY DEF Deadlocked
<1>6. tx[c].pc \in {"idle", "reserving", "ordering", "paying", "cancelling", "returning"}
  BY DEF IInv, TypeOK, RequestState
<1>7. QED
  BY <1>2, <1>3, <1>4, <1>6

\* Every cycle of waiting transactions contains a sweep, for any number of
\* requests: order, reservation, product is a lock order for the API, and the
\* sweep does not follow it.
THEOREM RequestsNeverDeadlock == Spec => []EveryDeadlockInvolvesASweep
<1>1. Init => \A c \in Clients : HoldInv(c)
  BY NoneIsNothing DEF Init, HoldInv, Rows
<1>2. Spec => [](\A c \in Clients : HoldInv(c))
  BY <1>1, HoldInvNext, Invariance, PTL DEF Spec
<1>3. QED
  BY <1>2, NoCycleOfRequests, Invariance, PTL

-----------------------------------------------------------------------------
(***************************************************************************)
(* Proofs about SellerDesk.  The seller's edits respect the row locks, so  *)
(* they keep the invariant IInv of OrderLifecycle; every other step is a   *)
(* step of OrderLifecycle, whose lemmas about IInv and about the stored    *)
(* rows carry over.                                                        *)
(***************************************************************************)

\* The first statement of the list of orders selects stored orders.
ListedAreStored == \A o \in listed : orders[o].status # "ABSENT"

DInv ==
    /\ IInv
    /\ ListedAreStored
    /\ DeskTypeOK
    /\ AddressesArePaid
    /\ DeletedIsUnreferenced

-----------------------------------------------------------------------------
(* The seller's steps.                                                     *)

\* An edit writes a row that no transaction has locked: what the others have
\* read stays true.
LEMMA SaveQuantityInv ==
  ASSUME IInv, NEW p \in Products, NEW n \in Nat, SaveQuantity(p, n)
  PROVE  IInv'
<1>1. /\ lock[p] = None
      /\ qty_available' = [qty_available EXCEPT ![p] = n]
      /\ UNCHANGED <<reservation, orders, due, lock, tx, sweep, failures>>
  BY DEF SaveQuantity, EditableNow
<1>2. \A r \in Products : lock[r] # None => qty_available'[r] = qty_available[r]
  BY <1>1 DEF IInv, TypeOK
<1>3. TypeOK'
  BY <1>1 DEF IInv, TypeOK
<1>4. RowInv' /\ LinksInv' /\ FreshOrdersDiffer'
  BY <1>1 DEF IInv, RowInv, LinksInv, FreshOrdersDiffer
<1>5. ASSUME NEW c \in Clients PROVE TxInv(c)'
  <2>1. TxInv(c) /\ c # None
    BY NoneIsNothing DEF IInv
  <2>2. QED
    BY <1>1, <1>2, <2>1 DEF TxInv
<1>6. ASSUME NEW w \in Workers PROVE SweepInv(w)'
  BY <1>1 DEF IInv, SweepInv
<1>7. FreshInv'
  <2>1. ASSUME NEW w \in Workers, sweep[w].pc = "loaded"
        PROVE  LET r == reservation[sweep[w].key].product
               IN  qty_available'[r] = qty_available[r]
    <3>1. /\ SweepInv(w) /\ w # None
          /\ RowInv
      BY NoneIsNothing DEF IInv
    <3>2. /\ sweep[w].key \in Keys
          /\ reservation[sweep[w].key].status = "PENDING"
          /\ lock[reservation[sweep[w].key].product] = w
      BY <2>1, <3>1 DEF SweepInv
    <3>3. reservation[sweep[w].key].product \in Products
      BY <3>1, <3>2 DEF RowInv
    <3>4. QED
      BY <1>2, <3>1, <3>2, <3>3
  <2>2. QED
    BY <1>1, <2>1 DEF IInv, FreshInv
<1>8. QED
  BY <1>3, <1>4, <1>5, <1>6, <1>7 DEF IInv

\* The other steps of the seller leave the shop alone.
LEMMA SellerStepInv == IInv /\ SellerStep => IInv'
<1> SUFFICES ASSUME IInv, SellerStep PROVE IInv'
  OBVIOUS
<1>1. ASSUME NEW p \in Products, NEW n \in 0 .. MaxStock, SaveQuantity(p, n)
      PROVE  IInv'
  BY <1>1, SaveQuantityInv, DeskBoundsAreNatural
<1>2. CASE UNCHANGED vars
  BY <1>2, NextInv
<1>3. QED
  BY <1>1, <1>2
     DEF SellerStep, ViewProducts, DeleteProduct, SelectOrders, ReadOrders

-----------------------------------------------------------------------------
(* Steps of the shop.                                                      *)

\* The product of a reservation row never changes, and comes from the request
\* that inserts the row.
LEMMA ProductsOfReservations ==
  ASSUME IInv, [Next]_vars, NEW k \in Keys
  PROVE  \/ reservation'[k].product = reservation[k].product
         \/ \E c \in Clients :
              tx[c].pc = "reserving" /\ reservation'[k].product = tx[c].product
<1>1. CASE reservation[k].status # "ABSENT"
  <2>1. FinalStep
    BY StepsOnRows, RowStepsAreFinal
  <2>2. QED
    BY <1>1, <2>1 DEF FinalStep
<1>2. CASE reservation[k].status = "ABSENT"
  <2>1. ASSUME NEW c \in Clients, ReserveCommit(c)
        PROVE  \/ reservation'[k] = reservation[k]
               \/ tx[c].pc = "reserving" /\ reservation'[k].product = tx[c].product
    BY <2>1 DEF ReserveCommit, IInv, TypeOK
  <2>2. ASSUME NEW c \in Clients,
               \/ PlaceOrderCommit(c) \/ PayCommit(c) \/ CancelCommit(c)
        PROVE  reservation'[k].product = reservation[k].product
    BY <2>2 DEF PlaceOrderCommit, PayCommit, CancelCommit, IInv, TypeOK, ReservationRow
  <2>3. ASSUME NEW w \in Workers, SweepRelease(w)
        PROVE  reservation'[k].product = reservation[k].product
    BY <2>3 DEF SweepRelease, IInv, TypeOK, ReservationRow
  <2>4. ASSUME NEW c \in Clients, BeginRequest(c) \/ AbortRequest(c)
        PROVE  UNCHANGED reservation
    BY <2>4 DEF BeginRequest, ReserveRead, PlaceOrderRead, PayRead, CancelRead,
                LockOrder, AbortRequest
  <2>5. ASSUME NEW c \in Clients, ContinueRequest(c)
        PROVE  \/ ReserveCommit(c)
               \/ PlaceOrderCommit(c) \/ PayCommit(c) \/ CancelCommit(c)
               \/ UNCHANGED reservation
    BY <2>5 DEF ContinueRequest, ReserveConflict, CancelLockReservation
  <2>6. ASSUME NEW w \in Workers, SweepStep(w) \/ AbortIteration(w) \/ SweepCrashes(w)
        PROVE  SweepRelease(w) \/ UNCHANGED reservation
    BY <2>6 DEF SweepStep, SweepStart, SweepPick, SweepLockReservation, SweepSkip,
                SweepLockProduct, SweepEnd, AbortIteration, SweepCrashes
  <2>7. ASSUME NEW j \in Keys, Expire(j) PROVE UNCHANGED reservation
    BY <2>7 DEF Expire
  <2>8. ASSUME NEW p \in Procs, DeadlockVictim(p)
        PROVE  \/ \E c \in Clients : AbortRequest(c)
               \/ \E w \in Workers : AbortIteration(w)
    BY <2>8 DEF DeadlockVictim, Procs
  <2>9. UNCHANGED vars => UNCHANGED reservation
    BY DEF vars
  <2>10. QED
    BY <2>1, <2>2, <2>3, <2>4, <2>5, <2>6, <2>7, <2>8, <2>9
       DEF Next, Fail, RequestFails, SweepIterationFails
<1>3. QED
  BY <1>1, <1>2

\* A request is reserving a product since it found and locked its row.
LEMMA ReservingRequests ==
  ASSUME IInv, [Next]_vars, NEW c \in Clients, tx'[c].pc = "reserving"
  PROVE  tx'[c] = tx[c] \/ tx[c].pc = "idle"
<1>1. ASSUME NEW d \in Clients, BeginRequest(d)
      PROVE  tx'[c] = tx[c] \/ tx[c].pc = "idle"
  BY <1>1 DEF BeginRequest, ReserveRead, PlaceOrderRead, PayRead, CancelRead, LockOrder,
              IInv, TypeOK
<1>2. ASSUME NEW d \in Clients, ContinueRequest(d) \/ AbortRequest(d)
      PROVE  tx'[c] = tx[c]
  <2>1. tx'[d].pc # "reserving"
    BY <1>2 DEF ContinueRequest, AbortRequest, ReserveCommit, ReserveConflict,
                PlaceOrderCommit, PayCommit, CancelLockReservation, CancelCommit,
                Finish, Idle, IInv, TypeOK
  <2>2. QED
    BY <1>2, <2>1
       DEF ContinueRequest, AbortRequest, ReserveCommit, ReserveConflict,
           PlaceOrderCommit, PayCommit, CancelLockReservation, CancelCommit,
           Finish, IInv, TypeOK
<1>3. CASE UNCHANGED tx
  BY <1>3
<1>4. QED
  BY <1>1, <1>2, <1>3
     DEF Next, SweepStep, SweepStart, SweepPick, SweepLockReservation, SweepSkip,
         SweepLockProduct, SweepRelease, SweepEnd, Expire, Fail, RequestFails,
         SweepIterationFails, SweepCrashes, DeadlockVictim, AbortIteration, vars

\* No order is deleted.
LEMMA OrdersStay ==
  ASSUME IInv, [Next]_vars, NEW r \in Orders, orders[r].status # "ABSENT"
  PROVE  orders'[r].status # "ABSENT"
<1>1. ASSUME NEW k, NEW st, NEW o, NEW ost, Resolves(k, st, o, ost), ost # "ABSENT"
      PROVE  orders'[r].status # "ABSENT"
  BY <1>1, NoneIsNothing DEF Resolves
<1>2. ASSUME NEW k \in Keys, NEW o \in Orders, Links(k, o)
      PROVE  orders'[r].status # "ABSENT"
  BY <1>2 DEF Links
<1>3. CASE UNCHANGED orders
  BY <1>3
<1>4. QED
  BY <1>1, <1>2, <1>3, StepsOnRows DEF RowStep, Reserves, Completes, Returns

-----------------------------------------------------------------------------
(* The invariant.                                                          *)

LEMMA DeskStart == DeskInit => DInv
<1> SUFFICES ASSUME DeskInit PROVE DInv
  OBVIOUS
<1>1. IInv
  BY InitInv DEF DeskInit
<1>2. DeskTypeOK
  BY <1>1, StockIsNatural DEF DeskInit, DeskTypeOK, IInv
<1>3. QED
  BY <1>1, <1>2 DEF DeskInit, DInv, ListedAreStored, AddressesArePaid, DeletedIsUnreferenced

\* The shop does not take back what the seller was told.
LEMMA ShopStepInv ==
  ASSUME DInv, [Next]_vars, ReservesExisting, UNCHANGED desk
  PROVE  DInv'
<1>1. IInv' /\ TypeOK'
  BY NextInv DEF DInv, IInv
<1>2. DeskTypeOK'
  BY <1>1 DEF DInv, DeskTypeOK, desk
<1>3. AddressesArePaid'
  <2>1. FinalStep
    BY StepsOnRows, RowStepsAreFinal DEF DInv
  <2>2. QED
    BY <2>1 DEF DInv, DeskTypeOK, AddressesArePaid, FinalStep, desk
<1>4. DeletedIsUnreferenced'
  <2>1. ASSUME NEW p \in gone, NEW k \in Keys PROVE reservation'[k].product # p
    BY ProductsOfReservations DEF DInv, DeletedIsUnreferenced
  <2>2. ASSUME NEW p \in gone, NEW c \in Clients, tx'[c].pc = "reserving"
        PROVE  tx'[c].product # p
    BY <2>2, ReservingRequests DEF DInv, DeletedIsUnreferenced, ReservesExisting
  <2>3. QED
    BY <2>1, <2>2 DEF DeletedIsUnreferenced, desk
<1>5. ListedAreStored'
  BY OrdersStay DEF DInv, DeskTypeOK, ListedAreStored, desk
<1>6. QED
  BY <1>1, <1>2, <1>3, <1>4, <1>5 DEF DInv

LEMMA DeskStepInv ==
  ASSUME DInv, SellerStep
  PROVE  DInv'
<1>1. IInv' /\ TypeOK'
  BY SellerStepInv DEF DInv, IInv
<1>2. CASE ViewProducts
  BY <1>1, <1>2 DEF ViewProducts, DInv, DeskTypeOK, TypeOK, vars, ListedAreStored,
                    AddressesArePaid, DeletedIsUnreferenced
<1>3. ASSUME NEW p \in Products, NEW n \in 0 .. MaxStock, SaveQuantity(p, n)
      PROVE  DInv'
  <2>1. meant[p] + n - form[p] \in Int
    BY <1>3, DeskBoundsAreNatural DEF SaveQuantity, DInv, DeskTypeOK
  <2>2. DeskTypeOK'
    BY <1>1, <1>3, <2>1 DEF SaveQuantity, DInv, DeskTypeOK
  <2>3. ListedAreStored' /\ AddressesArePaid' /\ DeletedIsUnreferenced'
    BY <1>3 DEF SaveQuantity, DInv, ListedAreStored, AddressesArePaid, DeletedIsUnreferenced
  <2>4. QED
    BY <1>1, <2>2, <2>3 DEF DInv
<1>4. ASSUME NEW p \in Products, DeleteProduct(p) PROVE DInv'
  <2>1. DeskTypeOK' /\ ListedAreStored' /\ AddressesArePaid'
    BY <1>1, <1>4 DEF DeleteProduct, DInv, DeskTypeOK, ListedAreStored,
                      AddressesArePaid, vars
  <2>2. ASSUME NEW c \in Clients, tx[c].pc = "reserving" PROVE tx[c].product # p
    <3>1. TxInv(c) /\ c # None
      BY NoneIsNothing DEF DInv, IInv
    <3>2. lock[tx[c].product] = c
      BY <2>2, <3>1 DEF TxInv
    <3>3. QED
      BY <1>4, <3>1, <3>2 DEF DeleteProduct, Unreferenced
  <2>3. DeletedIsUnreferenced'
    BY <1>4, <2>2 DEF DeleteProduct, Unreferenced, DInv, DeletedIsUnreferenced, vars
  <2>4. QED
    BY <1>1, <2>1, <2>3 DEF DInv
<1>5. CASE SelectOrders
  BY <1>1, <1>5 DEF SelectOrders, DInv, DeskTypeOK, ListedAreStored, OrderStatus,
                    AddressesArePaid, DeletedIsUnreferenced, vars
<1>6. CASE ReadOrders
  <2>1. \A o \in listed : AddressShown(o) => orders[o].status = "PAID"
    BY DEF AddressShown, DInv, DeskTypeOK, ListedAreStored, TypeOK, OrderRow,
           OrderStatus
  <2>2. QED
    BY <1>1, <1>6, <2>1 DEF ReadOrders, DInv, DeskTypeOK, ListedAreStored,
                         AddressesArePaid, DeletedIsUnreferenced, vars
<1>7. QED
  BY <1>2, <1>3, <1>4, <1>5, <1>6 DEF SellerStep
-----------------------------------------------------------------------------
(* Theorems.                                                               *)

THEOREM DeskInvariance == DeskSpec => []DInv
<1>1. DInv /\ [DeskNext]_deskVars => DInv'
  <2> SUFFICES ASSUME DInv, [DeskNext]_deskVars PROVE DInv'
    OBVIOUS
  <2>1. CASE Next /\ ReservesExisting /\ UNCHANGED desk
    BY <2>1, ShopStepInv
  <2>2. CASE SellerStep
    BY <2>2, DeskStepInv
  <2>3. CASE UNCHANGED deskVars
    <3>1. UNCHANGED vars /\ UNCHANGED desk /\ ReservesExisting
      BY <2>3 DEF deskVars, vars, ReservesExisting
    <3>2. QED
      BY <3>1, ShopStepInv
  <2>4. QED
    BY <2>1, <2>2, <2>3 DEF DeskNext
<1>2. QED
  BY <1>1, DeskStart, PTL DEF DeskSpec

\* Restocking and deleting products does not disturb orders and reservations:
\* they stay in step while a seller edits, deletes and reads.
THEOREM OrdersMatchAtTheDesk == DeskSpec => []OrderMatchesReservation
<1>1. DInv => OrderMatchesReservation
  BY LinksInvIsOrderMatches DEF DInv, IInv
<1>2. QED
  BY <1>1, DeskInvariance, PTL

\* Whoever the seller was told the address of has paid, and nothing takes the
\* payment back, for any number of orders, requests and sweeps.
THEOREM ShownAddressesArePaid == DeskSpec => []AddressesArePaid
<1>1. DInv => AddressesArePaid
  BY DEF DInv
<1>2. QED
  BY <1>1, DeskInvariance, PTL

\* No reservation is made of a product that is deleted meanwhile.
THEOREM DeletedProductsAreUnreferenced == DeskSpec => []DeletedIsUnreferenced
<1>1. DInv => DeletedIsUnreferenced
  BY DEF DInv
<1>2. QED
  BY <1>1, DeskInvariance, PTL

\* What is final stays final while a seller edits, deletes and reads.
THEOREM FinalAtTheDesk == DeskSpec => FinalStatusIsFinal
<1>1. DInv /\ [DeskNext]_deskVars => [FinalStep]_vars
  <2> SUFFICES ASSUME DInv, [DeskNext]_deskVars PROVE [FinalStep]_vars
    OBVIOUS
  <2>1. CASE Next
    BY <2>1, StepsOnRows, RowStepsAreFinal DEF DInv
  <2>2. CASE UNCHANGED <<reservation, orders>>
    BY <2>2 DEF FinalStep
  <2>3. SellerStep => UNCHANGED <<reservation, orders>>
    BY DEF SellerStep, ViewProducts, SaveQuantity, DeleteProduct, SelectOrders,
           ReadOrders, vars
  <2>4. QED
    BY <2>1, <2>2, <2>3 DEF DeskNext, deskVars, vars
<1>2. DeskSpec => [][FinalStep]_vars
  BY <1>1, DeskInvariance, PTL DEF DeskSpec
<1>3. QED
  BY <1>2 DEF FinalStatusIsFinal, FinalStep

\* Edits and deletions take one lock and hold it for one step, so that requests
\* still never wait for each other in a cycle.
THEOREM NoDeadlockAtTheDesk == DeskSpec => []EveryDeadlockInvolvesASweep
<1>1. DeskInit => \A c \in Clients : HoldInv(c)
  BY NoneIsNothing DEF DeskInit, Init, HoldInv, Rows
<1>2. DInv /\ (\A c \in Clients : HoldInv(c)) /\ [DeskNext]_deskVars
        => (\A c \in Clients : HoldInv(c))'
  <2> SUFFICES ASSUME DInv, \A c \in Clients : HoldInv(c), [DeskNext]_deskVars
               PROVE  (\A c \in Clients : HoldInv(c))'
    OBVIOUS
  <2>1. CASE Next
    BY <2>1, HoldInvNext DEF DInv
  <2>2. CASE UNCHANGED <<lock, tx>>
    BY <2>2 DEF HoldInv
  <2>3. SellerStep => UNCHANGED <<lock, tx>>
    BY DEF SellerStep, ViewProducts, SaveQuantity, DeleteProduct, SelectOrders,
           ReadOrders, vars
  <2>4. QED
    BY <2>1, <2>2, <2>3 DEF DeskNext, deskVars, vars
<1>3. DeskSpec => [](\A c \in Clients : HoldInv(c))
  BY <1>1, <1>2, DeskInvariance, PTL DEF DeskSpec
<1>4. DInv => IInv
  BY DEF DInv
<1>5. QED
  BY <1>3, <1>4, NoCycleOfRequests, DeskInvariance, PTL

-----------------------------------------------------------------------------
(* What edits do to the account of a product.                              *)

\* An edit of a form that shows the stock changes it by what the seller meant.
LEMMA FreshEditsCount ==
  ASSUME DInv, NEW p \in Products, NEW n \in Nat, SaveQuantity(p, n),
         NEW r \in Products,
         r = p => form[p] = qty_available[p]
  PROVE  Surplus(r)' = Surplus(r)
<1>1. HeldUnits(r)' = HeldUnits(r)
  BY DEF SaveQuantity, HeldUnits
<1>2. Cardinality(HeldUnits(r)) \in Nat
  BY AccountedIsInteger DEF DInv, DeskTypeOK
<1>3. /\ meant \in [Products -> Int] /\ qty_available \in [Products -> Nat]
      /\ form[p] \in Nat
  BY DEF DInv, DeskTypeOK, TypeOK, SaveQuantity
<1>4. CASE r = p
  <2>1. qty_available'[r] = n /\ meant'[r] = meant[r] + n - qty_available[r]
    BY <1>3, <1>4 DEF SaveQuantity
  <2>2. QED
    BY <1>1, <1>2, <1>3, <2>1 DEF Surplus, Accounted
<1>5. CASE r # p
  BY <1>1, <1>3, <1>5 DEF Surplus, Accounted, SaveQuantity
<1>6. QED
  BY <1>4, <1>5

\* Whatever the session options: only stale forms and stale sweeps make or lose
\* units.
THEOREM OnlyStaleFormsAndSweepsMiscount == DeskSpec => OnlyStaleFormsMiscount
<1> DEFINE Fair ==
      \A p \in Products : Surplus(p)' # Surplus(p) =>
         \/ \E w \in Workers : Stale(w) /\ SweepRelease(w)
         \/ form[p] # qty_available[p] /\ SaveQuantity(p, qty_available'[p])
<1>1. DInv /\ [DeskNext]_deskVars => Fair
  <2> SUFFICES ASSUME DInv, [DeskNext]_deskVars, NEW r \in Products,
                      Surplus(r)' # Surplus(r)
               PROVE  \/ \E w \in Workers : Stale(w) /\ SweepRelease(w)
                      \/ /\ form[r] # qty_available[r]
                         /\ SaveQuantity(r, qty_available'[r])
    OBVIOUS
  <2>1. CASE Next /\ UNCHANGED desk
    <3>1. Accounted(r)' # Accounted(r)
      BY <2>1 DEF Surplus, desk
    <3>2. QED
      BY <2>1, <3>1, StepsOnRows, RowStepIsLedgerStep, LedgerStepKeepsAccount DEF DInv
  <2>2. ASSUME NEW p \in Products, NEW n \in 0 .. MaxStock, SaveQuantity(p, n)
        PROVE  /\ form[r] # qty_available[r]
               /\ SaveQuantity(r, qty_available'[r])
    <3>1. n \in Nat /\ qty_available'[p] = n
      BY <2>2, DeskBoundsAreNatural DEF SaveQuantity, DInv, DeskTypeOK, TypeOK
    <3>2. QED
      BY <2>2, <3>1, FreshEditsCount
  <2>3. CASE UNCHANGED <<vars, meant>>
    BY <2>3 DEF vars, Surplus, Accounted, HeldUnits
  <2>4. QED
    BY <2>1, <2>2, <2>3
       DEF DeskNext, SellerStep, ViewProducts, DeleteProduct, SelectOrders, ReadOrders,
           deskVars, desk
<1>2. DeskSpec => [][Fair]_deskVars
  BY <1>1, DeskInvariance, PTL DEF DeskSpec
<1>3. QED
  BY <1>2 DEF OnlyStaleFormsMiscount
=============================================================================
