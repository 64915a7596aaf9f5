----------------------------- MODULE RateLimiter -----------------------------
(***************************************************************************)
(* The rate limiter of reservations, logins and sign-ups: a Lua script,    *)
(* atomic in Redis, that counts the admitted requests of two keys at a     *)
(* time.  A counter expires Ttl after the first request it counted.  A     *)
(* reservation counts against its user and its product; a login or         *)
(* sign-up against its email or address, and against a dummy that          *)
(* check_rate_limit adds because the script wants two keys.                *)
(***************************************************************************)
EXTENDS Naturals, Sequences, FiniteSets

CONSTANTS
    Buyers,     \* users who reserve
    Items,      \* products
    Visitors,   \* emails (logins) and remote addresses (sign-ups)
    Limit,      \* of a user, an email or an address
    ItemLimit,  \* rate_limit_global_rps
    DummyLimit, \* 999_999_999
    Ttl,        \* seconds until a counter expires
    MaxTime     \* bound on the clock

ASSUME LimiterSettings ==
    /\ Limit \in Nat \ {0}
    /\ ItemLimit \in Nat \ {0}
    /\ DummyLimit \in Nat
    /\ DummyLimit >= Limit
    /\ Ttl \in Nat \ {0}
    /\ MaxTime \in Nat \ {0}
ASSUME KindsAreDistinct ==
    Buyers \cap Items = {} /\ Buyers \cap Visitors = {} /\ Items \cap Visitors = {}

VARIABLES
    now,      \* the clock of Redis
    counter,  \* the counter of each key
    admitted  \* history: the times of the requests admitted under each key, in order

vars == <<now, counter, admitted>>

Times == 1 .. MaxTime

\* rate_limit:dummy:<key>
Dummy(v) == <<"dummy", v>>
Dummies == {Dummy(v) : v \in Visitors}

Callers == Buyers \cup Visitors
Keys == Callers \cup Items \cup Dummies

\* No product, email, address or user has a key of the dummies' form.
ASSUME DummiesAreDistinct == Dummies \cap (Callers \cup Items) = {}

\* Mutant: the dummy's limit is low.
LimitOfLowDummy(key) ==
    IF key \in Items THEN ItemLimit ELSE IF key \in Callers THEN Limit ELSE 1

LimitOf(key) ==
    IF key \in Items THEN ItemLimit ELSE IF key \in Callers THEN Limit ELSE DummyLimit

\* The second keys that a request of caller may pass to the script.
SecondKeys(caller) == IF caller \in Buyers THEN Items ELSE {Dummy(caller)}

\* A key that was never set; a key without expiry.
NoExpiry == 0
Absent == [count |-> 0, expires |-> NoExpiry]

TypeOK ==
    /\ now \in Times
    /\ counter \in [Keys -> [count : Nat, expires : Nat]]
    /\ \A key \in Keys : counter[key].count <= LimitOf(key)
    /\ admitted \in [Keys -> Seq(Times)]

Init ==
    /\ now = 1
    /\ counter = [key \in Keys |-> Absent]
    /\ admitted = [key \in Keys |-> <<>>]

\* Mutant: a counter expires one time unit early.
GetEarly(key) ==
    LET c == counter[key]
    IN  IF c.expires # NoExpiry /\ c.expires <= now + 1 THEN 0 ELSE c.count

\* tonumber(redis.call('get', key) or '0')
Get(key) ==
    LET c == counter[key]
    IN  IF c.expires # NoExpiry /\ c.expires <= now THEN 0 ELSE c.count

\* Mutant: the expiry is never set.
IncrOnly(key) == [count |-> Get(key) + 1, expires |-> counter[key].expires]

\* INCR, and EXPIRE if the key was absent.
Incr(key) ==
    [count |-> Get(key) + 1,
     expires |-> IF Get(key) = 0 THEN now + Ttl ELSE counter[key].expires]

\* Mutant: one request too many.
AtMostLimit(key) == Get(key) <= LimitOf(key)

BelowLimit(key) == Get(key) < LimitOf(key)

\* Mutant: the first key is counted before the second limit is checked.
AdmitCountingFirst(caller, second) ==
    LET counted == {caller} \cup {key \in {second} : BelowLimit(key)} IN
    /\ BelowLimit(caller)
    /\ counter' = [key \in Keys |-> IF key \in counted THEN Incr(key) ELSE counter[key]]
    /\ admitted' = [key \in Keys |->
                      IF key \in {caller, second} /\ BelowLimit(second)
                      THEN Append(admitted[key], now) ELSE admitted[key]]
    /\ UNCHANGED now

\* A refused request changes nothing.
Admit(caller, second) ==
    /\ BelowLimit(caller)
    /\ BelowLimit(second)
    /\ counter' = [counter EXCEPT ![caller] = Incr(caller), ![second] = Incr(second)]
    /\ admitted' = [admitted EXCEPT ![caller] = Append(@, now), ![second] = Append(@, now)]
    /\ UNCHANGED now

Tick ==
    /\ now < MaxTime
    /\ now' = now + 1
    /\ UNCHANGED <<counter, admitted>>

Next ==
    \/ Tick
    \/ \E caller \in Callers : \E second \in SecondKeys(caller) : Admit(caller, second)

Spec == Init /\ [][Next]_vars

-----------------------------------------------------------------------------
(* Properties.                                                             *)

\* The number of requests under key admitted at the times in S.
AdmittedIn(key, S) == Cardinality({i \in DOMAIN admitted[key] : admitted[key][i] \in S})

\* Wherever an interval of length Ttl is laid over the fixed windows, fewer than
\* twice the limit are admitted in it: the windows do not overlap, and an
\* interval that touches two of them misses the request that opened the first.
BurstIsBounded ==
    \A key \in Keys, t \in Times :
      AdmittedIn(key, t .. t + Ttl - 1) <= 2 * LimitOf(key) - 1

\* A live counter is the number of requests admitted in its window: requests that
\* the other key refuses cost neither their user nor their product anything.
CountsAdmitted ==
    \A key \in Keys :
      Get(key) > 0 =>
        Get(key) = AdmittedIn(key, counter[key].expires - Ttl .. now)

\* The visitor's own limit is always met first: nobody logs in or signs up and is
\* refused with the message of the global limit.
NeverRefusedGlobally ==
    \A v \in Visitors : BelowLimit(v) => BelowLimit(Dummy(v))

\* Nobody stays refused, and no product stays closed: a full counter expires
\* within Ttl.
NobodyIsBlockedForLong ==
    \A key \in Keys :
      ~ BelowLimit(key) => counter[key].expires \in now + 1 .. now + Ttl
=============================================================================
