-------------------------- MODULE StockLedgerProofs --------------------------
(***************************************************************************)
(* The ledger conserves its units, for any stock, products and keys.       *)
(***************************************************************************)
EXTENDS StockLedger, FiniteSetTheorems, TLAPS

\* A hold of n units adds n elements to a set of units of other keys.
LEMMA HoldUnits ==
  ASSUME LedgerAssumptions, NEW k \in Keys, NEW n \in Quantities, NEW T,
         IsFiniteSet(T), \A u \in T : u[1] # k
  PROVE  /\ IsFiniteSet({k} \X (1 .. n))
         /\ Cardinality(T \cup ({k} \X (1 .. n))) = Cardinality(T) + n
<1>1. n \in Nat
  BY LedgerAssumptions DEF LedgerAssumptions, Quantities
<1>2. IsFiniteSet({k}) /\ Cardinality({k}) = 1
  BY FS_Singleton
<1>3. IsFiniteSet(1 .. n) /\ Cardinality(1 .. n) = n
  BY <1>1, FS_Interval
<1>4. /\ IsFiniteSet({k} \X (1 .. n))
      /\ Cardinality({k} \X (1 .. n)) = n
  <2>1. /\ IsFiniteSet({k} \X (1 .. n))
        /\ Cardinality({k} \X (1 .. n)) = Cardinality({k}) * Cardinality(1 .. n)
    BY <1>2, <1>3, FS_Product
  <2>2. 1 * n = n
    BY <1>1
  <2>3. QED
    BY <1>2, <1>3, <2>1, <2>2
<1>5. T \cap ({k} \X (1 .. n)) = {}
  OBVIOUS
<1>6. Cardinality(T \cap ({k} \X (1 .. n))) = 0
  BY <1>5, FS_EmptySet
<1>7. Cardinality(T) \in Nat
  BY FS_CardinalityType
<1>8. Cardinality(T \cup ({k} \X (1 .. n)))
        = Cardinality(T) + Cardinality({k} \X (1 .. n)) - Cardinality(T \cap ({k} \X (1 .. n)))
  BY <1>4, FS_Union
<1>9. QED
  BY <1>1, <1>4, <1>6, <1>7, <1>8

LEMMA UnitsAreFinite ==
  ASSUME LedgerAssumptions, NEW p \in Products
  PROVE  IsFiniteSet(TakenUnits(p))
<1>1. IsFiniteSet(Quantities)
  BY LedgerAssumptions, FS_Interval DEF LedgerAssumptions, Quantities
<1>2. IsFiniteSet(Keys \X Quantities)
  BY <1>1, LedgerAssumptions, FS_Product DEF LedgerAssumptions
<1>3. QED
  BY <1>2, FS_Subset DEF TakenUnits

\* Free and taken units of p.
Total(p) == free[p] + Cardinality(TakenUnits(p))

\* A step keeps the types and the total of every product.
Kept == LedgerTypeOK' /\ \A q \in Products : Total(q)' = Total(q)

LEMMA TakeConserves ==
  ASSUME LedgerAssumptions, LedgerTypeOK, NEW k \in Keys, NEW p \in Products, NEW n \in Quantities,
         Take(k, p, n)
  PROVE  Kept
<1>1. n \in Nat
  BY LedgerAssumptions DEF LedgerAssumptions, Quantities
<1>2. /\ hold' \in [Keys -> [state : {"unused", "held", "sold", "returned"},
                             product : Products \cup {None},
                             qty : Quantities \cup {0}]]
      /\ \A j \in Keys \ {k} : hold'[j] = hold[j]
      /\ hold'[k].state = "held" /\ hold'[k].product = p /\ hold'[k].qty = n
  BY DEF LedgerTypeOK, Take
<1>3. LedgerTypeOK'
  BY <1>1, <1>2 DEF LedgerTypeOK, Take
<1>4. TakenUnits(p)' = TakenUnits(p) \cup ({k} \X (1 .. n))
  BY <1>1, <1>2, LedgerAssumptions DEF LedgerAssumptions, TakenUnits, Take, Quantities
<1>5. \A u \in TakenUnits(p) : u[1] # k
  BY DEF TakenUnits, Take
<1>6. Cardinality(TakenUnits(p)') = Cardinality(TakenUnits(p)) + n
  <2>1. IsFiniteSet(TakenUnits(p))
    BY UnitsAreFinite
  <2>2. Cardinality(TakenUnits(p) \cup ({k} \X (1 .. n)))
          = Cardinality(TakenUnits(p)) + n
    BY <1>5, <2>1, HoldUnits
  <2>3. QED
    BY <1>4, <2>2
<1>7. ASSUME NEW q \in Products, q # p PROVE TakenUnits(q)' = TakenUnits(q)
  BY <1>2, <1>7 DEF TakenUnits, Take
<1>8. ASSUME NEW q \in Products
      PROVE  Total(q)' = Total(q)
  <2>1. Cardinality(TakenUnits(q)) \in Nat /\ free[q] \in Nat
    BY UnitsAreFinite, FS_CardinalityType DEF LedgerTypeOK
  <2>2. CASE q = p
    BY <1>1, <1>6, <2>1, <2>2 DEF LedgerTypeOK, Take, Total
  <2>3. CASE q # p
    BY <1>7, <2>1, <2>3 DEF LedgerTypeOK, Take, Total
  <2>4. QED
    BY <2>2, <2>3
<1>9. QED
  BY <1>3, <1>8 DEF Kept

LEMMA SellConserves ==
  ASSUME LedgerAssumptions, LedgerTypeOK, NEW k \in Keys, Sell(k)
  PROVE  Kept
<1>1. /\ hold' \in [Keys -> [state : {"unused", "held", "sold", "returned"},
                             product : Products \cup {None},
                             qty : Quantities \cup {0}]]
      /\ \A j \in Keys \ {k} : hold'[j] = hold[j]
      /\ hold'[k].state = "sold" /\ hold'[k].product = hold[k].product
      /\ hold'[k].qty = hold[k].qty
  BY DEF LedgerTypeOK, Sell
<1>2. LedgerTypeOK'
  BY <1>1 DEF LedgerTypeOK, Sell
<1>3. ASSUME NEW q \in Products PROVE TakenUnits(q)' = TakenUnits(q)
  BY <1>1 DEF TakenUnits, Sell
<1>4. QED
  BY <1>2, <1>3 DEF Kept, Total, Sell

LEMMA GiveBackConserves ==
  ASSUME LedgerAssumptions, LedgerTypeOK, NEW k \in Keys, GiveBack(k)
  PROVE  Kept
<1>1. PICK p \in Products, n \in Quantities : p = hold[k].product /\ n = hold[k].qty
  BY DEF LedgerTypeOK, GiveBack
<1>2. n \in Nat
  BY LedgerAssumptions DEF LedgerAssumptions, Quantities
<1>3. /\ hold' \in [Keys -> [state : {"unused", "held", "sold", "returned"},
                             product : Products \cup {None},
                             qty : Quantities \cup {0}]]
      /\ \A j \in Keys \ {k} : hold'[j] = hold[j]
      /\ hold'[k].state = "returned" /\ hold'[k].product = p /\ hold'[k].qty = n
  BY <1>1 DEF LedgerTypeOK, GiveBack
<1>4. LedgerTypeOK'
  BY <1>1, <1>2, <1>3 DEF LedgerTypeOK, GiveBack
<1>5. TakenUnits(p) = TakenUnits(p)' \cup ({k} \X (1 .. n))
  BY <1>1, <1>2, <1>3, LedgerAssumptions DEF LedgerAssumptions, TakenUnits, GiveBack, Quantities
<1>6. \A u \in TakenUnits(p)' : u[1] # k
  BY <1>3 DEF TakenUnits
<1>7. IsFiniteSet(TakenUnits(p)')
  BY <1>5, UnitsAreFinite, FS_Subset
<1>8. Cardinality(TakenUnits(p)) = Cardinality(TakenUnits(p)') + n
  BY <1>5, <1>6, <1>7, HoldUnits
<1>9. ASSUME NEW q \in Products, q # p PROVE TakenUnits(q)' = TakenUnits(q)
  BY <1>1, <1>3, <1>9 DEF TakenUnits, GiveBack
<1>10. ASSUME NEW q \in Products
       PROVE  Total(q)' = Total(q)
  <2>1. Cardinality(TakenUnits(q)) \in Nat /\ free[q] \in Nat
    BY UnitsAreFinite, FS_CardinalityType DEF LedgerTypeOK
  <2>2. CASE q = p
    <3>1. Cardinality(TakenUnits(p)') \in Nat
      BY <1>7, FS_CardinalityType
    <3>2. free'[p] = free[p] + n
      BY <1>1 DEF LedgerTypeOK, GiveBack
    <3>3. QED
      BY <1>2, <1>8, <2>1, <2>2, <3>1, <3>2 DEF Total
  <2>3. CASE q # p
    BY <1>1, <1>9, <2>1, <2>3 DEF LedgerTypeOK, GiveBack, Total
  <2>4. QED
    BY <2>2, <2>3
<1>11. QED
  BY <1>4, <1>10 DEF Kept

LEMMA LedgerNext ==
  ASSUME LedgerAssumptions
  PROVE  LedgerTypeOK /\ [Next]_<<free, hold>> => Kept
<1> SUFFICES ASSUME LedgerTypeOK, [Next]_<<free, hold>> PROVE Kept
  OBVIOUS
<1>1. CASE Next
  BY <1>1, TakeConserves, SellConserves, GiveBackConserves DEF Next
<1>2. CASE UNCHANGED <<free, hold>>
  BY <1>2 DEF Kept, LedgerTypeOK, Total, TakenUnits
<1>3. QED
  BY <1>1, <1>2

LEMMA LedgerInit ==
  ASSUME LedgerAssumptions
  PROVE  Init => LedgerTypeOK /\ Conserved
<1> SUFFICES ASSUME Init PROVE LedgerTypeOK /\ Conserved
  OBVIOUS
<1>1. LedgerTypeOK
  BY LedgerAssumptions DEF LedgerAssumptions, Init, LedgerTypeOK, Unused
<1>2. ASSUME NEW p \in Products PROVE TakenUnits(p) = {}
  BY DEF Init, TakenUnits, Unused
<1>3. Conserved
  <2>1. \A p \in Products : Stock[p] \in Nat
    BY LedgerAssumptions DEF LedgerAssumptions
  <2>2. \A p \in Products : Cardinality(TakenUnits(p)) = 0
    BY <1>2, FS_EmptySet
  <2>3. QED
    BY <2>1, <2>2 DEF Init, Conserved
<1>4. QED
  BY <1>1, <1>3

\* A key holds nothing, or some units of one product; the free stock never
\* becomes negative.
THEOREM LedgerTypes ==
  ASSUME LedgerAssumptions PROVE Spec => []LedgerTypeOK
BY LedgerInit, LedgerNext, PTL DEF Spec, Kept

\* The units taken and the free stock add up to the initial stock, for any
\* number of products, keys and units.
THEOREM LedgerConserves ==
  ASSUME LedgerAssumptions PROVE Spec => []Conserved
<1>1. LedgerTypeOK /\ Conserved /\ [Next]_<<free, hold>> => Conserved'
  BY LedgerNext DEF Kept, Conserved, Total
<1>2. QED
  BY <1>1, LedgerInit, LedgerTypes, PTL DEF Spec
=============================================================================
