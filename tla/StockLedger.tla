---------------------------- MODULE StockLedger ----------------------------
(***************************************************************************)
(* What the inventory promises, without sessions, locks or orders: each    *)
(* request key takes some units of one product out of the free stock at    *)
(* most once, and they are then either sold or given back, once.           *)
(* OrderLifecycle implements this ledger when commits expire objects.      *)
(***************************************************************************)
EXTENDS Naturals, FiniteSets

CONSTANTS
    Products,    \* products on sale
    Keys,        \* idempotency keys of reservations
    MaxQuantity, \* bound on the units one reservation takes
    Stock,       \* units of each product before the first sale
    None

\* What the theorems about the ledger need of its constants.
LedgerAssumptions ==
    /\ Stock \in [Products -> Nat]
    /\ IsFiniteSet(Keys)
    /\ MaxQuantity \in Nat
    /\ None \notin Products

VARIABLES
    free,        \* units of each product that can still be taken
    hold         \* what each key has taken and what became of it

Quantities == 1 .. MaxQuantity

Unused == [state |-> "unused", product |-> None, qty |-> 0]

LedgerTypeOK ==
    /\ free \in [Products -> Nat]
    /\ hold \in [Keys -> [state : {"unused", "held", "sold", "returned"},
                          product : Products \cup {None},
                          qty : Quantities \cup {0}]]
    /\ \A k \in Keys : hold[k].state # "unused" =>
         hold[k].product \in Products /\ hold[k].qty \in Quantities

Init ==
    /\ free = Stock
    /\ hold = [k \in Keys |-> Unused]

\* reserve_items
Take(k, p, n) ==
    /\ hold[k].state = "unused"
    /\ n <= free[p]
    /\ free' = [free EXCEPT ![p] = @ - n]
    /\ hold' = [hold EXCEPT ![k] = [state |-> "held", product |-> p, qty |-> n]]

\* confirm_order_payment
Sell(k) ==
    /\ hold[k].state = "held"
    /\ hold' = [hold EXCEPT ![k].state = "sold"]
    /\ UNCHANGED free

\* cancel_order, and the sweep
GiveBack(k) ==
    /\ hold[k].state = "held"
    /\ free' = [free EXCEPT ![hold[k].product] = @ + hold[k].qty]
    /\ hold' = [hold EXCEPT ![k].state = "returned"]

Next ==
    \E k \in Keys :
      \/ \E p \in Products, n \in Quantities : Take(k, p, n)
      \/ Sell(k)
      \/ GiveBack(k)

Spec == Init /\ [][Next]_<<free, hold>>

\* The units of p that are held or sold, one element per unit.
TakenUnits(p) ==
    {u \in Keys \X Quantities :
       /\ hold[u[1]].state \in {"held", "sold"}
       /\ hold[u[1]].product = p
       /\ u[2] <= hold[u[1]].qty}

\* Free and taken units add up to the initial stock, whatever sequence of
\* reservations, payments and returns led here.
Conserved ==
    \A p \in Products : free[p] + Cardinality(TakenUnits(p)) = Stock[p]
=============================================================================
