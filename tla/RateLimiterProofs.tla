--------------------------- MODULE RateLimiterProofs ---------------------------
(***************************************************************************)
(* The rate limiter, for any number of callers and items and for any       *)
(* limits.  The invariant describes the requests admitted under one key as *)
(* the script has left them: which of them the counter has counted, where  *)
(* its window begins, and how far apart 2 * LimitOf(key) requests in a row *)
(* must be.                                                                *)
(***************************************************************************)
EXTENDS RateLimiter, FiniteSetTheorems, TLAPS

Total(key) == Len(admitted[key])

Count(key) == counter[key].count

\* Where the window of the counter began.
Opened(key) == counter[key].expires - Ttl

\* A counter and its expiry are set together, by a request that opens a window.
WindowInv(key) ==
    /\ Count(key) \in 0 .. LimitOf(key)
    /\ Count(key) <= Total(key)
    /\ Count(key) = 0 => counter[key] = Absent /\ Total(key) = 0
    /\ Count(key) > 0 =>
         /\ Opened(key) \in 1 .. now
         /\ admitted[key][Total(key) - Count(key) + 1] = Opened(key)

\* The last Count(key) requests are those of the window ...
CountedInv(key) ==
    \A i \in 1 .. Total(key) :
      /\ admitted[key][i] \in 1 .. now
      /\ admitted[key][i] < counter[key].expires
      /\ admitted[key][i] >= Opened(key) <=> i > Total(key) - Count(key)

\* ... and those admitted from a time on are the last ones.
CutAt(key, t, a) == \A i \in 1 .. Total(key) : admitted[key][i] >= t <=> i >= a

OrderInv(key) == \A t \in Nat : \E a \in 1 .. Total(key) + 1 : CutAt(key, t, a)

\* LimitOf(key) requests before the window's first one, a Ttl has passed: an
\* earlier window must have begun after them.
EarlierInv(key) ==
    \A i \in 1 .. Total(key) :
      i <= Total(key) - Count(key) - (LimitOf(key) - 1) => admitted[key][i] + Ttl <= Opened(key)

SpreadInv(key) ==
    \A i, j \in 1 .. Total(key) :
      j - i >= 2 * LimitOf(key) - 1 => admitted[key][i] + Ttl <= admitted[key][j]

KeyInv(key) ==
    /\ WindowInv(key)
    /\ CountedInv(key)
    /\ OrderInv(key)
    /\ EarlierInv(key)
    /\ SpreadInv(key)

\* A visitor and its dummy are counted together.
DummiesFollow == \A v \in Visitors : counter[Dummy(v)] = counter[v]

IInv ==
    /\ TypeOK
    /\ \A key \in Keys : KeyInv(key)
    /\ DummiesFollow

-----------------------------------------------------------------------------
(* The operators.                                                          *)

LEMMA LimitIsPositive == \A key : LimitOf(key) \in Nat /\ LimitOf(key) >= 1
BY LimiterSettings DEF LimitOf

\* A user, an email or an address is not an item, a visitor's second key is its
\* dummy, and no two visitors share one.
LEMMA KeyKinds ==
  /\ \A caller \in Callers, second \in Keys :
       second \in SecondKeys(caller) => caller # second
  /\ \A caller \in Callers : caller \in Keys /\ SecondKeys(caller) \subseteq Keys
  /\ \A v \in Visitors : v \in Callers /\ SecondKeys(v) = {Dummy(v)} /\ Dummy(v) \in Keys
  /\ \A v \in Visitors, w \in Visitors : Dummy(v) = Dummy(w) => v = w
  /\ \A v \in Visitors, w \in Visitors : v # Dummy(w)
  /\ \A caller \in Buyers, v \in Visitors :
       caller # v /\ caller # Dummy(v) /\ v \notin Items /\ Dummy(v) \notin Items
  /\ \A v \in Visitors : LimitOf(v) = Limit /\ LimitOf(Dummy(v)) = DummyLimit
BY KindsAreDistinct, DummiesAreDistinct
   DEF Callers, Keys, Dummies, Dummy, SecondKeys, LimitOf

\* The types of one key, in numbers.
Typed(key) ==
    /\ now \in Nat /\ now >= 1 /\ Ttl \in Nat /\ Ttl >= 1
    /\ LimitOf(key) \in Nat /\ LimitOf(key) >= 1
    /\ Count(key) \in Nat /\ counter[key].expires \in Nat
    /\ Total(key) \in Nat
    /\ \A i \in 1 .. Total(key) : admitted[key][i] \in Nat

LEMMA KeyTypes ==
  ASSUME TypeOK, NEW key \in Keys
  PROVE  Typed(key)
BY LimiterSettings, LimitIsPositive DEF TypeOK, Times, Count, Total, Typed

\* A counter that has expired, or was never set, has all its requests behind it.
LEMMA CounterRead ==
  ASSUME TypeOK, NEW key \in Keys, WindowInv(key), CountedInv(key)
  PROVE  /\ Get(key) = 0 => \A i \in 1 .. Total(key) : admitted[key][i] < now
         /\ Get(key) # 0 => Get(key) = Count(key) /\ now < counter[key].expires
<1>0. Typed(key)
  BY KeyTypes
<1> USE <1>0 DEF Typed
<1>1. CASE Count(key) = 0
  BY <1>1 DEF WindowInv, Get, Count, Absent
<1>2. CASE Count(key) # 0 /\ counter[key].expires <= now
  <2>1. Opened(key) \in 1 .. now
    BY <1>2 DEF WindowInv
  <2>2. counter[key].expires # NoExpiry
    BY <2>1 DEF Opened, NoExpiry
  <2>3. \A i \in 1 .. Total(key) : admitted[key][i] < now
    BY <1>2 DEF CountedInv
  <2>4. QED
    BY <1>2, <2>2, <2>3 DEF Get
<1>3. CASE Count(key) # 0 /\ now < counter[key].expires
  BY <1>3 DEF Get, Count
<1>4. QED
  BY <1>1, <1>2, <1>3

-----------------------------------------------------------------------------
(* One key.                                                                *)

\* A key that no request names: its clock may tick.
LEMMA KeyUntouched ==
  ASSUME TypeOK, NEW key \in Keys, KeyInv(key), now' \in {now, now + 1},
         counter'[key] = counter[key], admitted'[key] = admitted[key]
  PROVE  KeyInv(key)'
<1> USE DEF Count, Total, Opened
<1>0. Typed(key)
  BY KeyTypes
<1> USE <1>0 DEF Typed
<1>1. WindowInv(key)'
  BY DEF KeyInv, WindowInv
<1>2. CountedInv(key)'
  BY DEF KeyInv, CountedInv
<1>3. OrderInv(key)' /\ EarlierInv(key)' /\ SpreadInv(key)'
  BY DEF KeyInv, OrderInv, CutAt, EarlierInv, SpreadInv
<1>4. QED
  BY <1>1, <1>2, <1>3 DEF KeyInv

\* One more request under a key.
OneMore(key) ==
    /\ Total(key)' = Total(key) + 1
    /\ admitted'[key][Total(key) + 1] = now
    /\ \A i \in 1 .. Total(key) : admitted'[key][i] = admitted[key][i]

LEMMA AppendOne ==
  ASSUME TypeOK, NEW key \in Keys, admitted'[key] = Append(admitted[key], now)
  PROVE  OneMore(key)
<1>1. admitted[key] \in Seq(Times) /\ now \in Times
  BY DEF TypeOK
<1>2. QED
  BY <1>1 DEF OneMore, Total

LEMMA OrderKept ==
  ASSUME TypeOK, NEW key \in Keys, CountedInv(key), OrderInv(key), now' = now, OneMore(key)
  PROVE  OrderInv(key)'
<1> SUFFICES ASSUME NEW t \in Nat
             PROVE  \E a \in 1 .. Total(key)' + 1 : CutAt(key, t, a)'
  BY DEF OrderInv
<1>0. Typed(key)
  BY KeyTypes
<1> USE <1>0 DEF Typed, OneMore
<1>1. PICK a \in 1 .. Total(key) + 1 : CutAt(key, t, a)
  BY DEF OrderInv
<1>2. CASE now >= t
  <2>1. CutAt(key, t, a)'
    BY <1>1, <1>2 DEF CutAt
  <2>2. QED
    BY <2>1
<1>3. CASE now < t
  <2>1. \A i \in 1 .. Total(key) : admitted[key][i] < t
    BY <1>3 DEF CountedInv
  <2>2. PICK b \in Nat : b = Total(key) + 2
    OBVIOUS
  <2>3. CutAt(key, t, b)'
    BY <1>3, <2>1, <2>2 DEF CutAt
  <2>4. QED
    BY <2>2, <2>3
<1>4. QED
  BY <1>2, <1>3

LEMMA SpreadKept ==
  ASSUME TypeOK, NEW key \in Keys, SpreadInv(key), now' = now, OneMore(key),
         \A i \in 1 .. Total(key) :
           i <= Total(key) + 1 - (2 * LimitOf(key) - 1) => admitted[key][i] + Ttl <= now
  PROVE  SpreadInv(key)'
<1>0. Typed(key)
  BY KeyTypes
<1> SUFFICES ASSUME NEW i \in 1 .. Total(key) + 1, NEW j \in 1 .. Total(key) + 1,
                    j - i >= 2 * LimitOf(key) - 1
             PROVE  admitted'[key][i] + Ttl <= admitted'[key][j]
  BY DEF SpreadInv, OneMore
<1>1. i \in 1 .. Total(key) /\ admitted'[key][i] = admitted[key][i]
  BY <1>0 DEF Typed, OneMore
<1>2. CASE j = Total(key) + 1
  <2>1. i <= Total(key) + 1 - (2 * LimitOf(key) - 1)
    BY <1>0, <1>1, <1>2 DEF Typed
  <2>2. QED
    BY <1>1, <1>2, <2>1 DEF OneMore
<1>3. CASE j \in 1 .. Total(key)
  BY <1>1, <1>3 DEF OneMore, SpreadInv
<1>4. QED
  BY <1>0, <1>2, <1>3 DEF Typed

\* The request opens a window: every earlier one lies before it, and LimitOf(key)
\* requests back lies the beginning of the last window or an earlier time.
LEMMA OpenWindow ==
  ASSUME TypeOK, NEW key \in Keys, KeyInv(key), Get(key) = 0,
         counter'[key] = Incr(key), now' = now, OneMore(key)
  PROVE  KeyInv(key)'
<1>0. Typed(key)
  BY KeyTypes
<1> USE <1>0 DEF Typed, OneMore
<1>1. /\ Count(key)' = 1
      /\ counter'[key].expires = now + Ttl
      /\ Opened(key)' = now
  BY DEF Incr, Count, Opened
<1>2. \A i \in 1 .. Total(key) : admitted[key][i] < now
  BY CounterRead DEF KeyInv
<1>3. WindowInv(key)'
  BY <1>1 DEF WindowInv
<1>4. CountedInv(key)'
  BY <1>1, <1>2 DEF KeyInv, CountedInv
<1>5. OrderInv(key)'
  BY OrderKept DEF KeyInv
<1>6. ASSUME NEW i \in 1 .. Total(key), i <= Total(key) - (LimitOf(key) - 1)
      PROVE  admitted[key][i] + Ttl <= now
  <2>1. Count(key) > 0 /\ Count(key) <= LimitOf(key) /\ Count(key) <= Total(key)
    BY DEF KeyInv, WindowInv
  <2>2. counter[key].expires <= now
    BY <2>1 DEF KeyInv, WindowInv, Get, Count, Opened, NoExpiry
  <2>3. i <= Total(key) - Count(key) + 1
    BY <1>6, <2>1
  <2>4. admitted[key][i] <= Opened(key)
    <3>1. CASE i = Total(key) - Count(key) + 1
      BY <2>1, <3>1 DEF KeyInv, WindowInv
    <3>2. CASE i <= Total(key) - Count(key)
      BY <3>2 DEF KeyInv, CountedInv, Opened
    <3>3. QED
      BY <2>3, <3>1, <3>2
  <2>5. QED
    BY <2>2, <2>4 DEF Opened
<1>7. EarlierInv(key)'
  BY <1>1, <1>6 DEF EarlierInv
<1>8. SpreadInv(key)'
  BY <1>6, SpreadKept DEF KeyInv
<1>9. QED
  BY <1>3, <1>4, <1>5, <1>7, <1>8 DEF KeyInv

\* The request is one more of the window.
LEMMA StayInWindow ==
  ASSUME TypeOK, NEW key \in Keys, KeyInv(key), Get(key) # 0, BelowLimit(key),
         counter'[key] = Incr(key), now' = now, OneMore(key)
  PROVE  KeyInv(key)'
<1>0. Typed(key)
  BY KeyTypes
<1> USE <1>0 DEF Typed, OneMore
<1>1. Get(key) = Count(key) /\ now < counter[key].expires
  BY CounterRead DEF KeyInv
<1>2. /\ Count(key)' = Count(key) + 1
      /\ Count(key) > 0 /\ Count(key) <= LimitOf(key) - 1
      /\ counter'[key].expires = counter[key].expires
      /\ Opened(key)' = Opened(key)
      /\ Opened(key) \in 1 .. now
      /\ admitted[key][Total(key) - Count(key) + 1] = Opened(key)
      /\ Count(key) <= Total(key)
  BY <1>1 DEF KeyInv, WindowInv, Incr, BelowLimit, Count, Opened
<1>3. WindowInv(key)'
  BY <1>2 DEF WindowInv
<1>4. CountedInv(key)'
  BY <1>1, <1>2 DEF KeyInv, CountedInv
<1>5. OrderInv(key)'
  BY OrderKept DEF KeyInv
<1>6. EarlierInv(key)'
  BY <1>2 DEF KeyInv, EarlierInv
<1>7. ASSUME NEW i \in 1 .. Total(key), i <= Total(key) + 1 - (2 * LimitOf(key) - 1)
      PROVE  admitted[key][i] + Ttl <= now
  BY <1>2, <1>7 DEF KeyInv, EarlierInv
<1>8. SpreadInv(key)'
  BY <1>7, SpreadKept DEF KeyInv
<1>9. QED
  BY <1>3, <1>4, <1>5, <1>6, <1>8 DEF KeyInv

-----------------------------------------------------------------------------
(* The steps.                                                              *)

LEMMA InitInv == Init => IInv
<1> SUFFICES ASSUME Init PROVE IInv
  OBVIOUS
<1>1. TypeOK
  BY LimiterSettings, LimitIsPositive DEF Init, TypeOK, Times, Absent, NoExpiry
<1>2. \A key \in Keys : Total(key) = 0 /\ Count(key) = 0 /\ counter[key] = Absent
  BY DEF Init, Total, Count, Absent
<1>3. \A key \in Keys : KeyInv(key)
  BY <1>2, LimitIsPositive
     DEF KeyInv, WindowInv, CountedInv, OrderInv, CutAt, EarlierInv, SpreadInv
<1>4. DummiesFollow
  BY KeyKinds DEF Init, DummiesFollow
<1>5. QED
  BY <1>1, <1>3, <1>4 DEF IInv

LEMMA AdmitInv ==
  ASSUME IInv, NEW caller \in Callers, NEW second \in SecondKeys(caller), Admit(caller, second)
  PROVE  IInv'
<1>1. caller \in Keys /\ second \in Keys /\ caller # second
  BY KeyKinds
<1>2. /\ counter'[caller] = Incr(caller) /\ counter'[second] = Incr(second)
      /\ admitted'[caller] = Append(admitted[caller], now)
      /\ admitted'[second] = Append(admitted[second], now)
      /\ \A key \in Keys \ {caller, second} :
           counter'[key] = counter[key] /\ admitted'[key] = admitted[key]
      /\ now' = now
      /\ DOMAIN counter' = Keys /\ DOMAIN admitted' = Keys
  BY <1>1 DEF IInv, TypeOK, Admit
<1>3. ASSUME NEW key \in {caller, second}
      PROVE  KeyInv(key)'
  <2>1. key \in Keys /\ BelowLimit(key) /\ counter'[key] = Incr(key)
        /\ admitted'[key] = Append(admitted[key], now)
    BY <1>1, <1>2 DEF Admit
  <2>2. QED
    BY <1>2, <2>1, AppendOne, OpenWindow, StayInWindow DEF IInv
<1>4. \A key \in Keys : KeyInv(key)'
  BY <1>2, <1>3, KeyUntouched DEF IInv
<1>5. TypeOK'
  <2>1. ASSUME NEW key \in Keys
        PROVE  /\ counter'[key] \in [count : Nat, expires : Nat]
               /\ counter'[key].count <= LimitOf(key)
               /\ admitted'[key] \in Seq(Times)
    <3>1. CASE key \in {caller, second}
      <4>1. /\ counter'[key] = Incr(key) /\ BelowLimit(key)
            /\ admitted'[key] = Append(admitted[key], now)
        BY <1>2, <3>1 DEF Admit
      <4>2. Get(key) \in Nat
        BY KeyTypes DEF IInv, Typed, Get, Count
      <4>3. Get(key) + 1 <= LimitOf(key)
        BY <4>1, <4>2, LimitIsPositive DEF BelowLimit
      <4>4. now \in Times
        BY DEF IInv, TypeOK
      <4>5. QED
        BY <4>1, <4>2, <4>3, <4>4, KeyTypes DEF IInv, TypeOK, Typed, Incr
    <3>2. CASE key \notin {caller, second}
      BY <1>2, <3>2 DEF IInv, TypeOK
    <3>3. QED
      BY <3>1, <3>2
  <2>2. counter' \in [Keys -> [count : Nat, expires : Nat]] /\ admitted' \in [Keys -> Seq(Times)]
    BY <1>2, <2>1 DEF IInv, TypeOK, Admit
  <2>3. QED
    BY <1>2, <2>1, <2>2 DEF IInv, TypeOK
<1>6. DummiesFollow'
  <2> SUFFICES ASSUME NEW v \in Visitors PROVE counter'[Dummy(v)] = counter'[v]
    BY DEF DummiesFollow
  <2>1. v \in Keys /\ Dummy(v) \in Keys /\ counter[Dummy(v)] = counter[v]
    BY KeyKinds DEF IInv, DummiesFollow
  <2>2. CASE caller = v
    <3>1. second = Dummy(v)
      BY <2>2, KeyKinds
    <3>2. Incr(Dummy(v)) = Incr(v)
      BY <2>1 DEF Incr, Get
    <3>3. QED
      BY <1>2, <2>2, <3>1, <3>2
  <2>3. CASE caller # v
    <3>1. v \notin {caller, second} /\ Dummy(v) \notin {caller, second}
      <4>1. CASE caller \in Buyers
        BY <2>3, <4>1, KeyKinds DEF SecondKeys
      <4>2. CASE caller \in Visitors
        BY <2>3, <4>2, KeyKinds
      <4>3. QED
        BY <4>1, <4>2 DEF Callers
    <3>2. QED
      BY <1>2, <2>1, <3>1
  <2>4. QED
    BY <2>2, <2>3
<1>7. QED
  BY <1>4, <1>5, <1>6 DEF IInv

LEMMA TickInv ==
  ASSUME IInv, Tick
  PROVE  IInv'
<1>1. TypeOK'
  BY LimiterSettings DEF IInv, TypeOK, Times, Tick
<1>2. \A key \in Keys : KeyInv(key)'
  BY KeyUntouched DEF IInv, Tick
<1>3. QED
  BY <1>1, <1>2 DEF IInv, DummiesFollow, Tick

LEMMA NextInv ==
  ASSUME IInv, [Next]_vars
  PROVE  IInv'
<1>1. CASE Tick
  BY <1>1, TickInv
<1>2. CASE \E caller \in Callers : \E second \in SecondKeys(caller) : Admit(caller, second)
  BY <1>2, AdmitInv
<1>3. CASE UNCHANGED vars
  <2>1. \A key \in Keys : KeyInv(key)'
    BY <1>3, KeyUntouched DEF IInv, vars
  <2>2. QED
    BY <1>3, <2>1 DEF IInv, TypeOK, DummiesFollow, vars
<1>4. QED
  BY <1>1, <1>2, <1>3 DEF Next

LEMMA Invariance == Spec => []IInv
BY InitInv, NextInv, PTL DEF Spec

-----------------------------------------------------------------------------
(* What the invariant says of the requests.                                *)

\* The requests of an interval lie between a cut and 2 * LimitOf(key) - 2 places
\* behind it.
LEMMA BurstOfInv == IInv => BurstIsBounded
<1> SUFFICES ASSUME IInv, NEW key \in Keys, NEW t \in Times
             PROVE  AdmittedIn(key, t .. t + Ttl - 1) <= 2 * LimitOf(key) - 1
  BY DEF BurstIsBounded
<1> DEFINE S == {i \in DOMAIN admitted[key] : admitted[key][i] \in t .. t + Ttl - 1}
<1>0. Typed(key)
  BY KeyTypes DEF IInv
<1> USE <1>0 DEF Typed
<1>1. t \in Nat /\ LimitOf(key) \in Nat /\ LimitOf(key) >= 1
  BY LimitIsPositive DEF Times
<1>2. PICK a \in 1 .. Total(key) + 1 : CutAt(key, t, a)
  BY <1>1 DEF IInv, KeyInv, OrderInv
<1>3. a \in Nat /\ DOMAIN admitted[key] = 1 .. Total(key)
  BY <1>2 DEF IInv, Total
<1>4. S \subseteq a .. a + 2 * LimitOf(key) - 2
  <2> SUFFICES ASSUME NEW i \in 1 .. Total(key), admitted[key][i] \in t .. t + Ttl - 1
               PROVE  i \in a .. a + 2 * LimitOf(key) - 2
    BY <1>3
  <2>1. i >= a
    BY <1>1, <1>2 DEF IInv, CutAt
  <2>2. a \in 1 .. Total(key) /\ admitted[key][a] >= t
    BY <1>2, <1>3, <2>1 DEF IInv, CutAt
  <2>3. ~ (i - a >= 2 * LimitOf(key) - 1)
    <3>1. SUFFICES ASSUME i - a >= 2 * LimitOf(key) - 1 PROVE FALSE
      OBVIOUS
    <3>2. admitted[key][a] + Ttl <= admitted[key][i]
      BY <2>2, <3>1 DEF IInv, KeyInv, SpreadInv
    <3>3. QED
      BY <1>1, <2>2, <3>2 DEF IInv
  <2>4. QED
    BY <1>1, <1>3, <2>1, <2>3 DEF IInv
<1>5. /\ IsFiniteSet(a .. a + 2 * LimitOf(key) - 2)
      /\ Cardinality(a .. a + 2 * LimitOf(key) - 2) = 2 * LimitOf(key) - 1
  <2>1. a \in Int /\ a + 2 * LimitOf(key) - 2 \in Int /\ ~ (a > a + 2 * LimitOf(key) - 2)
    BY <1>1, <1>3
  <2>2. (a + 2 * LimitOf(key) - 2) - a + 1 = 2 * LimitOf(key) - 1
    BY <1>1, <1>3
  <2>3. PICK b \in Int : b = a + 2 * LimitOf(key) - 2
    BY <2>1
  <2>4. IsFiniteSet(a .. b) /\ Cardinality(a .. b) = b - a + 1
    BY <2>1, <2>3, FS_Interval
  <2>5. QED
    BY <2>2, <2>3, <2>4
<1>6. Cardinality(S) <= 2 * LimitOf(key) - 1
  BY <1>4, <1>5, FS_Subset
<1>7. QED
  BY <1>6 DEF AdmittedIn

LEMMA CountsOfInv == IInv => CountsAdmitted
<1> SUFFICES ASSUME IInv, NEW key \in Keys, Get(key) > 0
             PROVE  Get(key) = AdmittedIn(key, counter[key].expires - Ttl .. now)
  BY DEF CountsAdmitted
<1> DEFINE first == Total(key) - Count(key) + 1
           S == {i \in DOMAIN admitted[key] : admitted[key][i] \in Opened(key) .. now}
<1>0. Typed(key)
  BY KeyTypes DEF IInv
<1> USE <1>0 DEF Typed
<1>1. Get(key) = Count(key)
  BY CounterRead DEF IInv, KeyInv
<1>2. Count(key) <= Total(key) /\ Opened(key) \in Nat
  BY <1>1 DEF IInv, KeyInv, WindowInv
<1>3. S = first .. Total(key)
  <2>1. DOMAIN admitted[key] = 1 .. Total(key)
    BY DEF IInv, Total
  <2>2. \A i \in 1 .. Total(key) : admitted[key][i] \in Opened(key) .. now <=> i >= first
    BY <1>2 DEF IInv, KeyInv, CountedInv
  <2>3. first .. Total(key) = {i \in 1 .. Total(key) : i >= first}
    BY <1>2 DEF IInv
  <2>4. QED
    BY <2>1, <2>2, <2>3
<1>4. Cardinality(first .. Total(key)) = Count(key)
  <2>1. first \in Int /\ Total(key) \in Int /\ Count(key) \in Nat /\ Count(key) > 0
    BY <1>1 DEF IInv
  <2> HIDE DEF first
  <2>2. Cardinality(first .. Total(key)) =
          IF first > Total(key) THEN 0 ELSE Total(key) - first + 1
    BY <2>1, FS_Interval
  <2>3. QED
    BY <2>1, <2>2 DEF first
<1>5. QED
  BY <1>1, <1>3, <1>4 DEF AdmittedIn, Opened

LEMMA DummiesOfInv == IInv => NeverRefusedGlobally
<1> SUFFICES ASSUME IInv, NEW v \in Visitors, BelowLimit(v) PROVE BelowLimit(Dummy(v))
  BY DEF NeverRefusedGlobally
<1>1. Get(Dummy(v)) = Get(v)
  BY DEF IInv, DummiesFollow, Get
<1>2. v \in Keys /\ LimitOf(v) = Limit /\ LimitOf(Dummy(v)) = DummyLimit
  BY KeyKinds
<1>3. Get(v) \in Nat
  BY <1>2, KeyTypes DEF IInv, Typed, Get, Count
<1>4. QED
  BY <1>1, <1>2, <1>3, LimiterSettings DEF BelowLimit

LEMMA RefusalsOfInv == IInv => NobodyIsBlockedForLong
<1> SUFFICES ASSUME IInv, NEW key \in Keys, ~ BelowLimit(key)
             PROVE  counter[key].expires \in now + 1 .. now + Ttl
  BY DEF NobodyIsBlockedForLong
<1>0. Typed(key)
  BY KeyTypes DEF IInv
<1> USE <1>0 DEF Typed
<1>1. Get(key) # 0
  BY LimitIsPositive DEF BelowLimit
<1>2. Get(key) = Count(key) /\ now < counter[key].expires
  BY <1>1, CounterRead DEF IInv, KeyInv
<1>3. Opened(key) \in 1 .. now
  BY <1>1, <1>2 DEF IInv, KeyInv, WindowInv
<1>4. QED
  BY <1>2, <1>3 DEF IInv, Opened

-----------------------------------------------------------------------------
(* Theorems.                                                               *)

\* The types, and that no counter passes its limit.
THEOREM CountersAreLimited == Spec => []TypeOK
<1>1. IInv => TypeOK
  BY DEF IInv
<1>2. QED
  BY <1>1, Invariance, PTL

\* Whatever the limits and however an interval of length Ttl lies over the windows,
\* fewer than twice the limit are admitted in it.
THEOREM BurstsAreBounded == Spec => []BurstIsBounded
BY BurstOfInv, Invariance, PTL

\* A live counter is the number of requests admitted in its window.
THEOREM CountersCountAdmissions == Spec => []CountsAdmitted
BY CountsOfInv, Invariance, PTL

\* The dummy key refuses no login and no sign-up that its visitor's limit lets in.
THEOREM DummiesNeverRefuse == Spec => []NeverRefusedGlobally
BY DummiesOfInv, Invariance, PTL

\* A refusal lasts for at most Ttl.
THEOREM RefusalsAreShort == Spec => []NobodyIsBlockedForLong
BY RefusalsOfInv, Invariance, PTL
=============================================================================
