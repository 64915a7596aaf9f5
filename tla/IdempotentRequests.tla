-------------------------- MODULE IdempotentRequests --------------------------
(***************************************************************************)
(* The @idempotent decorator around the handlers of OrderLifecycle that    *)
(* reserve, order, pay and cancel.  A request looks its reply up in Redis, *)
(* runs the handler's transaction and stores the reply: Redis and Postgres *)
(* do not commit together, and two requests of one key may both find       *)
(* nothing.  That an effect is not repeated is up to the row locks, the    *)
(* unique key of a reservation and the statuses the handlers check.        *)
(***************************************************************************)
EXTENDS OrderLifecycle

CONSTANT Headers  \* X-Idempotency-Keys of orders, payments and cancellations

VARIABLES
    call,     \* what each client's request calls, and how far it is
    cached,   \* the replies in Redis
    effects,  \* history: how often each call has committed
    lost      \* history: replies that expired or were not stored by a dying request

replies == <<call, cached, effects, lost>>
idemVars == <<vars, replies>>

\* A call: POST /products/reserve, POST /orders/ with the id of a reservation,
\* POST /orders/{id}/pay or POST /orders/{id}/cancel, and its X-Idempotency-Key.
Calls ==
    [op : {"reserve"}, on : {None}, header : Keys]
      \cup [op : {"order"}, on : Keys, header : Headers]
      \cup [op : {"pay", "cancel"}, on : Orders, header : Headers]

\* The key in Redis: method, path and header, but not the body.
ReplyKey(a) == IF a.op = "order" THEN [a EXCEPT !.on = None] ELSE a

NoCall == [pc |-> "idle", of |-> None]

IdemInit ==
    /\ Init
    /\ call = [c \in Clients |-> NoCall]
    /\ cached = {}
    /\ effects = [a \in Calls |-> 0]
    /\ lost = {}

\* GET finds nothing: the handler is going to run.  (If GET finds a reply it is
\* the answer and nothing changes.)
LookUp(c, a) ==
    /\ call[c].pc = "idle"
    /\ ReplyKey(a) \notin cached
    /\ call' = [call EXCEPT ![c] = [pc |-> "handling", of |-> a]]
    /\ UNCHANGED <<vars, cached, effects, lost>>

\* The handler locks and checks its first row.  The header is the idempotency_key
\* of a new reservation and nothing else to the other handlers.
Begin(c) ==
    LET a == call[c].of IN
    /\ call[c].pc = "handling"
    /\ \E u \in Users :
         \/ /\ a.op = "reserve"
            /\ \E p \in Products, n \in Quantities : ReserveRead(c, u, a.header, p, n)
         \/ a.op = "order" /\ \E o \in Orders : PlaceOrderRead(c, u, a.on, o)
         \/ a.op = "pay" /\ PayRead(c, u, a.on)
         \/ a.op = "cancel" /\ CancelRead(c, u, a.on)
    /\ UNCHANGED replies

Proceed(c) == CancelLockReservation(c) /\ UNCHANGED replies

\* The handler commits and returns its response to the decorator.
Commit(c) ==
    /\ ReserveCommit(c) \/ PlaceOrderCommit(c) \/ PayCommit(c) \/ CancelCommit(c)
    /\ effects' = [effects EXCEPT ![call[c].of] = @ + 1]
    /\ call' = [call EXCEPT ![c].pc = "storing"]
    /\ UNCHANGED <<cached, lost>>

\* The handler raises: it refuses before it locks or writes anything, the key of
\* the reservation is taken, the transaction fails or is the victim of a deadlock.
Raise(c) ==
    \/ tx[c].pc = "idle" /\ UNCHANGED vars
    \/ ReserveConflict(c)
    \/ RequestFails(c)
    \/ DeadlockVictim(c)

\* Mutant: an error response is stored like any other.
StoreRefusal(c) ==
    /\ call[c].pc = "handling"
    /\ Raise(c)
    /\ cached' = cached \cup {ReplyKey(call[c].of)}
    /\ call' = [call EXCEPT ![c] = NoCall]
    /\ UNCHANGED <<effects, lost>>

\* The exception passes through the decorator and nothing is stored.
Refuse(c) ==
    /\ call[c].pc = "handling"
    /\ Raise(c)
    /\ call' = [call EXCEPT ![c] = NoCall]
    /\ UNCHANGED <<cached, effects, lost>>

\* Mutant: the response is answered and not stored.
AnswerOnly(c) ==
    /\ call[c].pc = "storing"
    /\ call' = [call EXCEPT ![c] = NoCall]
    /\ UNCHANGED <<vars, cached, effects, lost>>

\* SETEX, and the answer.
Store(c) ==
    /\ call[c].pc = "storing"
    /\ cached' = cached \cup {ReplyKey(call[c].of)}
    /\ call' = [call EXCEPT ![c] = NoCall]
    /\ UNCHANGED <<vars, effects, lost>>

\* The process dies between COMMIT and SETEX, Redis refuses SETEX, or the handler
\* fails after its COMMIT.
Die(c) ==
    /\ call[c].pc = "storing"
    /\ lost' = lost \cup {ReplyKey(call[c].of)}
    /\ call' = [call EXCEPT ![c] = NoCall]
    /\ UNCHANGED <<vars, cached, effects>>

\* idempotent_key_lifetime_sec after SETEX.
Lapse(r) ==
    /\ r \in cached
    /\ cached' = cached \ {r}
    /\ lost' = lost \cup {r}
    /\ UNCHANGED <<vars, call, effects>>

\* The sweep, and the time.
Background ==
    /\ \/ \E w \in Workers : \/ SweepStep(w)
                             \/ SweepIterationFails(w)
                             \/ SweepCrashes(w)
                             \/ DeadlockVictim(w)
       \/ \E k \in Keys : Expire(k)
    /\ UNCHANGED replies

Request(c) ==
    \/ \E a \in Calls : LookUp(c, a)
    \/ Begin(c)
    \/ Proceed(c)
    \/ Commit(c)
    \/ Refuse(c)
    \/ Store(c)
    \/ Die(c)

IdemNext ==
    \/ \E c \in Clients : Request(c)
    \/ \E r \in cached : Lapse(r)
    \/ Background

IdemSpec == IdemInit /\ [][IdemNext]_idemVars

-----------------------------------------------------------------------------
(* Properties.                                                             *)

\* However often a call is repeated, before, while or after another request of the
\* same call runs, dies or has its reply expire, it reserves, orders, pays or
\* cancels at most once.
EffectsOnce == \A a \in Calls : effects[a] <= 1

\* What call a asks for is in the rows.
Happened(a) ==
    CASE a.op = "reserve" -> reservation[a.header].status # "ABSENT"
      [] a.op = "order" -> reservation[a.on].order # None
      [] a.op = "pay" -> orders[a.on].status = "PAID"
      [] a.op = "cancel" -> orders[a.on].status = "CANCELLED"

\* What Redis answers has happened, and no later request or sweep has undone it.
CachedIsCommitted ==
    \A r \in cached :
      \E a \in Calls : ReplyKey(a) = r /\ effects[a] > 0 /\ Happened(a)

\* If a call has committed and Redis has no reply for its repetition, the request
\* is about to store it, or died before that, or the reply has expired.
MissingResponsesAreExplained ==
    \A a \in Calls :
      effects[a] > 0 /\ ReplyKey(a) \notin cached =>
        \/ ReplyKey(a) \in lost
        \/ \E c \in Clients : call[c].pc = "storing" /\ call[c].of = a
=============================================================================
