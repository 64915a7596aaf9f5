----------------------------- MODULE SellerDesk -----------------------------
(***************************************************************************)
(* What the seller of the products does while they are being sold          *)
(* (OrderLifecycle): reads the dashboard's list of products, saves         *)
(* quantities computed from what it showed, and reads the orders that      *)
(* contain them; and the deletion of products, by an admin.                *)
(*                                                                         *)
(* update_product locks the product and writes the posted quantity, not a  *)
(* difference; nothing of it can wait once the row is locked, so it is one *)
(* step, as delete_product is.  The list of orders is two statements, each *)
(* of which sees what is committed when it runs.  One seller owns all the  *)
(* products; the status of a product is the matter of ProductModeration.   *)
(***************************************************************************)
EXTENDS OrderLifecycle, Integers

CONSTANTS
    MaxStock,  \* bound on the quantities a seller enters
    MaxEdits   \* bound on the edits

ASSUME DeskBoundsAreNatural == MaxStock \in Nat /\ MaxEdits \in Nat
ASSUME NoneIsNoQuantity == None \notin Nat

VARIABLES
    form,      \* the quantity of each product on the seller's screen, or None
    meant,     \* history: the units the seller has put in, as the forms read
    edits,     \* number of edits so far
    gone,      \* the deleted products
    listed,    \* the ids the first statement of get_my_orders has selected
    addresses  \* history: the orders whose address the seller has been shown

desk == <<form, meant, edits, gone, listed, addresses>>
deskVars == <<vars, desk>>

DeskTypeOK ==
    /\ TypeOK
    /\ form \in [Products -> Nat \cup {None}]
    /\ meant \in [Products -> Int]
    /\ edits \in Nat
    /\ gone \in SUBSET Products
    /\ listed \in SUBSET Orders
    /\ addresses \in SUBSET Orders

DeskInit ==
    /\ Init
    /\ form = [p \in Products |-> None]
    /\ meant = Stock
    /\ edits = 0
    /\ gone = {}
    /\ listed = {}
    /\ addresses = {}

-----------------------------------------------------------------------------
(* Products.                                                               *)

\* get_my_products: the list shows the committed quantities.
ViewProducts ==
    /\ form' = [p \in Products |-> IF p \in gone THEN None ELSE qty_available[p]]
    /\ UNCHANGED <<vars, meant, edits, gone, listed, addresses>>

\* Mutant: the product is read without FOR UPDATE.
EditableAtOnce(p) == p \notin gone

\* _get_product(for_update=True): the row exists and nobody holds it.
EditableNow(p) == p \notin gone /\ lock[p] = None

\* update_product with a quantity n, entered by a seller who read form[p]: the
\* stock is to change by their difference.  What the row holds now does not
\* matter to the code.
SaveQuantity(p, n) ==
    /\ edits < MaxEdits
    /\ form[p] # None
    /\ EditableNow(p)
    /\ qty_available' = [qty_available EXCEPT ![p] = n]
    /\ meant' = [meant EXCEPT ![p] = @ + n - form[p]]
    /\ edits' = edits + 1
    /\ form' = [form EXCEPT ![p] = None]
    /\ UNCHANGED <<reservation, orders, due, lock, tx, sweep, failures,
                   gone, listed, addresses>>

\* Mutant: the deletion does not wait for the requests that hold the product.
UnreferencedRows(p) == \A k \in Keys : reservation[k].product # p

\* The DELETE waits for the row, and the foreign key of the reservations
\* refuses it once there is one, whatever its status.
Unreferenced(p) ==
    /\ lock[p] = None
    /\ \A k \in Keys : reservation[k].product # p

DeleteProduct(p) ==
    /\ p \notin gone
    /\ Unreferenced(p)
    /\ gone' = gone \cup {p}
    /\ form' = [form EXCEPT ![p] = None]
    /\ UNCHANGED <<vars, meant, edits, listed, addresses>>

\* A request that reserves finds the product's row.
ReservesExisting ==
    \A c \in Clients :
      tx[c].pc = "idle" /\ tx'[c].pc = "reserving" => tx'[c].product \notin gone

-----------------------------------------------------------------------------
(* Orders.                                                                 *)

\* The first statement of get_my_orders, with or without a status filter.
SelectOrders ==
    /\ listed = {}
    /\ \E wanted \in {OrderStatus} \cup {{s} : s \in OrderStatus} :
         listed' = {o \in Orders : orders[o].status \in wanted}
    /\ UNCHANGED <<vars, form, meant, edits, gone, addresses>>

\* Mutant: the address of a cancelled order is shown.
AddressUnlessPending(o) == orders[o].status \notin {"PENDING", "FAILED"}

\* The address is blanked out by the status the second statement reads.
AddressShown(o) == orders[o].status \notin {"PENDING", "FAILED", "CANCELLED"}

\* The second statement, by id: the statuses may have changed meanwhile.
ReadOrders ==
    /\ listed # {}
    /\ addresses' = addresses \cup {o \in listed : AddressShown(o)}
    /\ listed' = {}
    /\ UNCHANGED <<vars, form, meant, edits, gone>>

-----------------------------------------------------------------------------
SellerStep ==
    \/ ViewProducts
    \/ \E p \in Products, n \in 0 .. MaxStock : SaveQuantity(p, n)
    \/ \E p \in Products : DeleteProduct(p)
    \/ SelectOrders
    \/ ReadOrders

DeskNext ==
    \/ Next /\ ReservesExisting /\ UNCHANGED desk
    \/ SellerStep

DeskSpec == DeskInit /\ [][DeskNext]_deskVars

-----------------------------------------------------------------------------
(* Properties.                                                             *)

\* What the shop has and has promised, against what the seller has put in.
Surplus(p) == Accounted(p) - meant[p]

\* The units on sale and on hold follow the seller's own changes, through
\* concurrent reservations, cancellations, releases and edits: only an edit of a
\* form that no longer shows the stock, or the release of a sweep with a stale
\* object, makes or loses units.
OnlyStaleFormsMiscount ==
    [][\A p \in Products : Surplus(p)' # Surplus(p) =>
         \/ \E w \in Workers : Stale(w) /\ SweepRelease(w)
         \/ form[p] # qty_available[p] /\ SaveQuantity(p, qty_available'[p])]_deskVars

\* The seller is told the buyer's address for paid orders only, and what the
\* seller was told stays justified: none of these orders is cancelled later,
\* neither by its buyer nor by the sweep, although the list is read in two
\* statements while orders change.
AddressesArePaid == \A o \in addresses : orders[o].status = "PAID"

\* No reservation, and no request that is about to make one, is about a product
\* that was deleted.
DeletedIsUnreferenced ==
    \A p \in gone :
      /\ \A k \in Keys : reservation[k].product # p
      /\ \A c \in Clients : tx[c].pc = "reserving" => tx[c].product # p
=============================================================================
