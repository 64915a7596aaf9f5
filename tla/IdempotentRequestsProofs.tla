----------------------- MODULE IdempotentRequestsProofs -----------------------
(***************************************************************************)
(* The three properties of the idempotency decorator, for any number of    *)
(* calls and of concurrent requests.  The invariant IdemInv carries IInv,  *)
(* the invariant of the transactions, along.  It says which call the       *)
(* transaction in a client's session serves (Serves), and that what has    *)
(* committed is in the rows (HistoryIsInRows).  A handler that gets as far *)
(* as its COMMIT has found, under the row locks it still holds, that what  *)
(* it is asked for has not happened, so its call has had no effect before. *)
(* (The constants of SellerDesk come in with the lemmas of                 *)
(* OrderLifecycleProofs and are not used.)                                 *)
(***************************************************************************)
EXTENDS IdempotentRequests, OrderLifecycleProofs

RepliesTyped ==
    /\ call \in [Clients -> [pc : {"idle", "handling", "storing"},
                             of : Calls \cup {None}]]
    /\ effects \in [Calls -> Nat]

\* What is known of client c's request.
Serves(c) ==
    LET a == call[c].of IN
    /\ call[c].pc # "idle" => a \in Calls
    /\ call[c].pc # "handling" => tx[c].pc = "idle"
    /\ call[c].pc = "storing" => effects[a] > 0
    /\ tx[c].pc = "reserving" => a.op = "reserve" /\ a.header = tx[c].key
    /\ tx[c].pc = "ordering" => a.op = "order" /\ a.on = tx[c].key
    /\ tx[c].pc = "paying" => a.op = "pay" /\ a.on = tx[c].order
    /\ tx[c].pc \in {"cancelling", "returning"} =>
         a.op = "cancel" /\ a.on = tx[c].order

HistoryIsInRows == \A a \in Calls : effects[a] > 0 => Happened(a)

\* A reply in Redis belongs to a call that has committed.
RepliesHaveCalls ==
    \A r \in cached : \E a \in Calls : ReplyKey(a) = r /\ effects[a] > 0

IdemInv ==
    /\ IInv
    /\ RepliesTyped
    /\ EffectsOnce
    /\ HistoryIsInRows
    /\ RepliesHaveCalls
    /\ MissingResponsesAreExplained
    /\ \A c \in Clients : Serves(c)

-----------------------------------------------------------------------------
(* What stays.                                                             *)

\* No step of the shop takes back what has happened.
LEMMA HappenedStays ==
  ASSUME IInv, [Next]_vars, NEW a \in Calls, Happened(a)
  PROVE  Happened(a)'
<1>1. FinalStep /\ IInv'
  BY StepsOnRows, RowStepsAreFinal, NextInv
<1>2. CASE a.op = "reserve"
  <2>1. a.header \in Keys /\ reservation[a.header].status # "ABSENT"
    BY <1>2 DEF Calls, Happened
  <2>2. reservation'[a.header].product \in Products
    BY <1>1, <2>1 DEF IInv, RowInv, FinalStep
  <2>3. reservation'[a.header].status # "ABSENT"
    BY <1>1, <2>1, <2>2, NoneIsNothing DEF IInv, RowInv, NoReservation
  <2>4. QED
    BY <1>2, <2>3 DEF Happened
<1>3. CASE a.op = "order"
  <2>1. a.on \in Keys /\ reservation[a.on].order # None
    BY <1>3 DEF Calls, Happened
  <2>2. reservation[a.on].status # "ABSENT"
    BY <2>1 DEF IInv, RowInv, NoReservation
  <2>3. reservation'[a.on].order # None
    BY <1>1, <2>1, <2>2 DEF FinalStep
  <2>4. QED
    BY <1>3, <2>3 DEF Happened
<1>4. CASE a.op \in {"pay", "cancel"}
  <2>1. a.on \in Orders /\ orders[a.on].status \in {"PAID", "CANCELLED"}
    BY <1>4 DEF Calls, Happened
  <2>2. orders'[a.on] = orders[a.on]
    BY <1>1, <2>1 DEF FinalStep
  <2>3. QED
    BY <1>4, <2>2 DEF Happened
<1>5. QED
  BY <1>2, <1>3, <1>4 DEF Calls

\* A client whose request or transaction is not touched, or whose transaction
\* ends within the handler.
LEMMA StillServes ==
  ASSUME NEW d \in Clients, Serves(d), call'[d] = call[d],
         tx'[d] = tx[d] \/ tx'[d].pc = "idle",
         \A a \in Calls : effects[a] > 0 => effects'[a] > 0
  PROVE  Serves(d)'
BY DEF Serves

\* A client that has nothing to do.
LEMMA EndServes ==
  ASSUME NEW d \in Clients, call'[d] = NoCall, tx'[d].pc = "idle"
  PROVE  Serves(d)'
BY DEF Serves, NoCall

\* A reply leaves Redis only by its expiry, and a request leaves "storing" only by
\* storing the reply or by dying: what explains a missing reply stays.
LEMMA StillExplained ==
  ASSUME MissingResponsesAreExplained, effects' = effects,
         cached \subseteq cached' \cup lost', lost \subseteq lost',
         \A c \in Clients : call[c].pc = "storing" =>
            \/ call'[c] = call[c]
            \/ ReplyKey(call[c].of) \in cached' \cup lost'
  PROVE  MissingResponsesAreExplained'
BY DEF MissingResponsesAreExplained

\* The rows' part of a step without a commit.
LEMMA HistoryStays ==
  ASSUME IInv, [Next]_vars, HistoryIsInRows, EffectsOnce, effects' = effects
  PROVE  IInv' /\ HistoryIsInRows' /\ EffectsOnce'
BY NextInv, HappenedStays DEF HistoryIsInRows, EffectsOnce

-----------------------------------------------------------------------------
(* The steps.                                                              *)

LEMMA IdemInitInv == IdemInit => IdemInv
<1> SUFFICES ASSUME IdemInit PROVE IdemInv
  OBVIOUS
<1>1. IInv
  BY InitInv DEF IdemInit
<1>2. RepliesTyped /\ EffectsOnce /\ HistoryIsInRows /\ RepliesHaveCalls
  BY DEF IdemInit, NoCall, RepliesTyped, EffectsOnce, HistoryIsInRows, RepliesHaveCalls
<1>3. MissingResponsesAreExplained
  BY DEF IdemInit, MissingResponsesAreExplained
<1>4. \A c \in Clients : Serves(c)
  BY DEF IdemInit, Init, Idle, NoCall, Serves
<1>5. QED
  BY <1>1, <1>2, <1>3, <1>4 DEF IdemInv

\* A step in which the rows and the replies stay, and one request moves on.
LEMMA LookUpInv ==
  ASSUME IdemInv, NEW c \in Clients, NEW a \in Calls, LookUp(c, a)
  PROVE  IdemInv'
<1> USE DEF LookUp
<1>1. [Next]_vars /\ tx' = tx
  BY DEF vars
<1>2. IInv' /\ HistoryIsInRows' /\ EffectsOnce'
  BY <1>1, HistoryStays DEF IdemInv
<1>3. RepliesTyped' /\ RepliesHaveCalls'
  BY DEF IdemInv, RepliesTyped, RepliesHaveCalls
<1>4. MissingResponsesAreExplained'
  <2>1. \A d \in Clients : call[d].pc = "storing" => call'[d] = call[d]
    BY DEF IdemInv, RepliesTyped
  <2>2. QED
    BY <2>1, StillExplained DEF IdemInv
<1>5. ASSUME NEW d \in Clients PROVE Serves(d)'
  <2>1. CASE d = c
    BY <1>1, <2>1 DEF IdemInv, RepliesTyped, Serves
  <2>2. CASE d # c
    BY <1>1, <2>2, StillServes DEF IdemInv, RepliesTyped
  <2>3. QED
    BY <2>1, <2>2
<1>6. QED
  BY <1>2, <1>3, <1>4, <1>5 DEF IdemInv

\* A step of c's transaction that leaves the replies alone.
LEMMA WithinHandlerInv ==
  ASSUME IdemInv, NEW c \in Clients, UNCHANGED replies,
         BeginRequest(c) \/ ContinueRequest(c), Serves(c)'
  PROVE  IdemInv'
<1>1. [Next]_vars
  BY DEF Next
<1>2. IInv' /\ HistoryIsInRows' /\ EffectsOnce'
  BY <1>1, HistoryStays DEF IdemInv, replies
<1>3. RepliesTyped' /\ RepliesHaveCalls' /\ MissingResponsesAreExplained'
  BY DEF IdemInv, RepliesTyped, RepliesHaveCalls, MissingResponsesAreExplained, replies
<1>4. ASSUME NEW d \in Clients, d # c PROVE Serves(d)'
  BY <1>4, OtherRequestsStay, StillServes DEF IdemInv, replies
<1>5. QED
  BY <1>2, <1>3, <1>4 DEF IdemInv

LEMMA BeginInv ==
  ASSUME IdemInv, NEW c \in Clients, Begin(c)
  PROVE  IdemInv'
<1> DEFINE a == call[c].of
<1>1. call[c].pc = "handling" /\ a \in Calls /\ UNCHANGED replies
  BY DEF IdemInv, Serves, Begin
<1>2. PICK u \in Users :
        \/ /\ a.op = "reserve"
           /\ \E p \in Products, n \in Quantities : ReserveRead(c, u, a.header, p, n)
        \/ a.op = "order" /\ \E o \in Orders : PlaceOrderRead(c, u, a.on, o)
        \/ a.op = "pay" /\ PayRead(c, u, a.on)
        \/ a.op = "cancel" /\ CancelRead(c, u, a.on)
  BY DEF Begin
<1>3. /\ a.op = "reserve" => a.header \in Keys
      /\ a.op = "order" => a.on \in Keys
      /\ a.op \in {"pay", "cancel"} => a.on \in Orders
  BY <1>1 DEF Calls
<1>4. BeginRequest(c)
  BY <1>2, <1>3 DEF BeginRequest
<1>5. Serves(c)'
  BY <1>1, <1>2 DEF ReserveRead, PlaceOrderRead, PayRead, CancelRead, LockOrder,
                    IdemInv, IInv, TypeOK, Serves, replies
<1>6. QED
  BY <1>1, <1>4, <1>5, WithinHandlerInv

LEMMA ProceedInv ==
  ASSUME IdemInv, NEW c \in Clients, Proceed(c)
  PROVE  IdemInv'
<1>1. Serves(c)'
  BY DEF Proceed, CancelLockReservation, IdemInv, IInv, TypeOK, Serves, replies
<1>2. QED
  BY <1>1, WithinHandlerInv DEF Proceed, ContinueRequest

\* What a handler commits has not happened before, and has happened then.
LEMMA CommitMakesHappen ==
  ASSUME IdemInv, NEW c \in Clients, Commit(c), NEW a, a = call[c].of
  PROVE  /\ call[c].pc = "handling" /\ a \in Calls
         /\ ~ Happened(a) /\ Happened(a)'
         /\ ContinueRequest(c) /\ tx'[c].pc = "idle"
<1>1. tx[c].pc \in {"reserving", "ordering", "paying", "returning"}
  BY DEF Commit, ReserveCommit, PlaceOrderCommit, PayCommit, CancelCommit
<1>2. call[c].pc = "handling" /\ a \in Calls
  BY <1>1 DEF IdemInv, RepliesTyped, Serves
<1>3. ContinueRequest(c) /\ tx'[c].pc = "idle"
  BY DEF Commit, ContinueRequest, ReserveCommit, PlaceOrderCommit, PayCommit,
         CancelCommit, Finish, Idle, IdemInv, IInv, TypeOK
<1>4. CASE ReserveCommit(c)
  <2>1. a.op = "reserve" /\ a.header = tx[c].key /\ tx[c].key \in Keys
    BY <1>4 DEF ReserveCommit, IdemInv, IInv, TxInv, Serves
  <2>2. reservation[tx[c].key].status = "ABSENT"
    BY <1>4 DEF ReserveCommit
  <2>3. reservation'[tx[c].key].status = "PENDING"
    BY <1>4, <2>1 DEF ReserveCommit, IdemInv, IInv, TypeOK
  <2>4. QED
    BY <1>2, <1>3, <2>1, <2>2, <2>3 DEF Happened
<1>5. CASE PlaceOrderCommit(c)
  <2>1. /\ a.op = "order" /\ a.on = tx[c].key
        /\ tx[c].key \in Keys /\ tx[c].order \in Orders
        /\ reservation[tx[c].key].order = None
    BY <1>5 DEF PlaceOrderCommit, IdemInv, IInv, TxInv, Serves
  <2>2. reservation'[tx[c].key].order = tx[c].order
    BY <1>5, <2>1 DEF PlaceOrderCommit, IdemInv, IInv, TypeOK, ReservationRow
  <2>3. QED
    BY <1>2, <1>3, <2>1, <2>2, NoneIsNothing DEF Happened
<1>6. CASE PayCommit(c) \/ CancelCommit(c)
  <2>1. /\ a.op = IF tx[c].pc = "paying" THEN "pay" ELSE "cancel"
        /\ a.on = tx[c].order /\ tx[c].order \in Orders
        /\ orders[tx[c].order].status = "PENDING"
    BY <1>6 DEF PayCommit, CancelCommit, IdemInv, IInv, TxInv, Serves
  <2>2. orders'[tx[c].order].status = IF tx[c].pc = "paying" THEN "PAID" ELSE "CANCELLED"
    BY <1>6, <2>1 DEF PayCommit, CancelCommit, IdemInv, IInv, TypeOK, OrderRow
  <2>3. QED
    BY <1>2, <1>3, <2>1, <2>2 DEF Happened
<1>7. QED
  BY <1>4, <1>5, <1>6 DEF Commit

LEMMA CommitInv ==
  ASSUME IdemInv, NEW c \in Clients, Commit(c)
  PROVE  IdemInv'
<1>1. PICK a : a = call[c].of
  OBVIOUS
<1>2. /\ call[c].pc = "handling" /\ a \in Calls
      /\ ~ Happened(a) /\ Happened(a)'
      /\ ContinueRequest(c) /\ tx'[c].pc = "idle"
  BY <1>1, CommitMakesHappen
<1>3. effects[a] = 0
  BY <1>2 DEF IdemInv, HistoryIsInRows, RepliesTyped
<1>4. /\ effects' = [effects EXCEPT ![a] = 1]
      /\ call' = [call EXCEPT ![c].pc = "storing"]
      /\ cached' = cached /\ lost' = lost
  BY <1>1, <1>2, <1>3 DEF Commit, IdemInv, RepliesTyped
<1>5. /\ call'[c].pc = "storing" /\ call'[c].of = a
      /\ \A d \in Clients \ {c} : call'[d] = call[d]
      /\ effects'[a] = 1
      /\ \A b \in Calls \ {a} : effects'[b] = effects[b]
  BY <1>1, <1>2, <1>4 DEF IdemInv, RepliesTyped
<1>6. [Next]_vars
  BY <1>2 DEF Next
<1>7. IInv' /\ EffectsOnce' /\ HistoryIsInRows'
  BY <1>2, <1>5, <1>6, NextInv, HappenedStays DEF IdemInv, EffectsOnce, HistoryIsInRows
<1>8. RepliesTyped' /\ RepliesHaveCalls'
  BY <1>2, <1>4, <1>5 DEF IdemInv, RepliesTyped, RepliesHaveCalls
<1>9. MissingResponsesAreExplained'
  BY <1>2, <1>4, <1>5 DEF IdemInv, MissingResponsesAreExplained
<1>10. ASSUME NEW d \in Clients PROVE Serves(d)'
  <2>1. CASE d = c
    BY <1>2, <1>5, <2>1 DEF Serves
  <2>2. CASE d # c
    BY <1>2, <1>5, <2>2, OtherRequestsStay, StillServes DEF IdemInv
  <2>3. QED
    BY <2>1, <2>2
<1>11. QED
  BY <1>7, <1>8, <1>9, <1>10 DEF IdemInv

\* A request ends: refused, answered, or dead.
LEMMA EndInv ==
  ASSUME IdemInv, NEW c \in Clients, [Next]_vars, effects' = effects,
         call' = [call EXCEPT ![c] = NoCall], tx'[c].pc = "idle",
         \A d \in Clients \ {c} : tx'[d] = tx[d],
         RepliesHaveCalls', MissingResponsesAreExplained'
  PROVE  IdemInv'
<1>1. IInv' /\ HistoryIsInRows' /\ EffectsOnce'
  BY HistoryStays DEF IdemInv
<1>2. RepliesTyped'
  BY DEF IdemInv, RepliesTyped, NoCall
<1>3. call'[c] = NoCall /\ \A d \in Clients \ {c} : call'[d] = call[d]
  BY DEF IdemInv, RepliesTyped
<1>4. \A d \in Clients : Serves(d)'
  BY <1>3, StillServes, EndServes DEF IdemInv
<1>5. QED
  BY <1>1, <1>2, <1>4 DEF IdemInv

\* What an exception does to the transaction: it ends.
LEMMA RaiseEnds ==
  ASSUME IdemInv, NEW c \in Clients, Raise(c)
  PROVE  /\ [Next]_vars
         /\ tx'[c].pc = "idle"
         /\ \A d \in Clients \ {c} : tx'[d] = tx[d]
<1>1. CASE tx[c].pc = "idle" /\ UNCHANGED vars
  BY <1>1 DEF vars
<1>2. CASE ReserveConflict(c)
  BY <1>2 DEF ReserveConflict, Finish, Idle, IdemInv, IInv, TypeOK, Next, ContinueRequest
<1>3. CASE RequestFails(c)
  BY <1>3 DEF RequestFails, AbortRequest, Finish, Idle, IdemInv, IInv, TypeOK, Next, Fail
<1>4. CASE DeadlockVictim(c)
  BY <1>4 DEF DeadlockVictim, AbortRequest, Finish, Idle, IdemInv, IInv, TypeOK, Next, Procs
<1>5. QED
  BY <1>1, <1>2, <1>3, <1>4 DEF Raise

LEMMA RefuseInv ==
  ASSUME IdemInv, NEW c \in Clients, Refuse(c)
  PROVE  IdemInv'
<1>1. \A d \in Clients : call[d].pc = "storing" => call'[d] = call[d]
  BY DEF IdemInv, RepliesTyped, Refuse
<1>2. MissingResponsesAreExplained'
  BY <1>1, StillExplained DEF IdemInv, Refuse
<1>3. RepliesHaveCalls'
  BY DEF IdemInv, RepliesHaveCalls, Refuse
<1>4. QED
  BY <1>2, <1>3, RaiseEnds, EndInv DEF Refuse

LEMMA StoreInv ==
  ASSUME IdemInv, NEW c \in Clients, Store(c)
  PROVE  IdemInv'
<1>1. /\ call[c].of \in Calls /\ effects[call[c].of] > 0
      /\ tx[c].pc = "idle"
      /\ cached' = cached \cup {ReplyKey(call[c].of)}
      /\ call' = [call EXCEPT ![c] = NoCall]
      /\ UNCHANGED <<vars, effects, lost>>
  BY DEF IdemInv, Serves, Store
<1>2. \A d \in Clients : call[d].pc = "storing" =>
        call'[d] = call[d] \/ ReplyKey(call[d].of) \in cached'
  BY <1>1 DEF IdemInv, RepliesTyped
<1>3. MissingResponsesAreExplained'
  BY <1>1, <1>2, StillExplained DEF IdemInv
<1>4. RepliesHaveCalls'
  BY <1>1 DEF IdemInv, RepliesHaveCalls
<1>5. QED
  BY <1>1, <1>3, <1>4, EndInv DEF vars

LEMMA DieInv ==
  ASSUME IdemInv, NEW c \in Clients, Die(c)
  PROVE  IdemInv'
<1>1. \A d \in Clients : call[d].pc = "storing" =>
        call'[d] = call[d] \/ ReplyKey(call[d].of) \in lost'
  BY DEF IdemInv, RepliesTyped, Die
<1>2. MissingResponsesAreExplained'
  BY <1>1, StillExplained DEF IdemInv, Die
<1>3. RepliesHaveCalls'
  BY DEF IdemInv, RepliesHaveCalls, Die
<1>4. tx[c].pc = "idle"
  BY DEF IdemInv, Serves, Die
<1>5. QED
  BY <1>2, <1>3, <1>4, EndInv DEF Die, vars

LEMMA LapseInv ==
  ASSUME IdemInv, NEW r \in cached, Lapse(r)
  PROVE  IdemInv'
<1> USE DEF Lapse
<1>1. IInv' /\ HistoryIsInRows' /\ EffectsOnce'
  BY HistoryStays DEF IdemInv
<1>2. RepliesTyped' /\ RepliesHaveCalls'
  BY DEF IdemInv, RepliesTyped, RepliesHaveCalls
<1>3. MissingResponsesAreExplained'
  BY StillExplained DEF IdemInv
<1>4. \A d \in Clients : Serves(d)'
  BY StillServes DEF IdemInv, vars
<1>5. QED
  BY <1>1, <1>2, <1>3, <1>4 DEF IdemInv

LEMMA BackgroundInv ==
  ASSUME IdemInv, Background
  PROVE  IdemInv'
<1>1. [Next]_vars
  BY DEF Background, Next, Fail, Procs
<1>2. tx' = tx
  BY RowsAreDistinct
     DEF Background, SweepStep, SweepStart, SweepPick, SweepLockReservation, SweepSkip,
         SweepLockProduct, SweepRelease, SweepEnd, SweepIterationFails, SweepCrashes,
         DeadlockVictim, AbortIteration, Expire
<1>3. UNCHANGED <<call, cached, effects, lost>>
  BY DEF Background, replies
<1>4. IInv' /\ HistoryIsInRows' /\ EffectsOnce'
  BY <1>1, <1>3, HistoryStays DEF IdemInv
<1>5. RepliesTyped' /\ RepliesHaveCalls' /\ MissingResponsesAreExplained'
  BY <1>3 DEF IdemInv, RepliesTyped, RepliesHaveCalls, MissingResponsesAreExplained
<1>6. \A d \in Clients : Serves(d)'
  BY <1>2, <1>3, StillServes DEF IdemInv
<1>7. QED
  BY <1>4, <1>5, <1>6 DEF IdemInv

LEMMA IdemNextInv == IdemInv /\ [IdemNext]_idemVars => IdemInv'
<1> SUFFICES ASSUME IdemInv, [IdemNext]_idemVars PROVE IdemInv'
  OBVIOUS
<1>1. ASSUME NEW c \in Clients, Request(c) PROVE IdemInv'
  BY <1>1, LookUpInv, BeginInv, ProceedInv, CommitInv, RefuseInv, StoreInv, DieInv
     DEF Request
<1>2. CASE UNCHANGED idemVars
  <2>1. UNCHANGED <<vars, call, cached, effects, lost>>
    BY <1>2 DEF idemVars, replies
  <2>2. IInv' /\ HistoryIsInRows' /\ EffectsOnce'
    BY <2>1, HistoryStays DEF IdemInv
  <2>3. RepliesTyped' /\ RepliesHaveCalls' /\ MissingResponsesAreExplained'
    BY <2>1 DEF IdemInv, RepliesTyped, RepliesHaveCalls, MissingResponsesAreExplained
  <2>4. \A d \in Clients : Serves(d)'
    BY <2>1, StillServes DEF IdemInv, vars
  <2>5. QED
    BY <2>2, <2>3, <2>4 DEF IdemInv
<1>3. QED
  BY <1>1, <1>2, LapseInv, BackgroundInv DEF IdemNext

\* The inductive invariant: the row locks and the pairing of OrderLifecycle, which
\* call each transaction serves, and that the history of effects is in the rows.
THEOREM IdempotencyInvariance == IdemSpec => []IdemInv
BY IdemInitInv, IdemNextInv, PTL DEF IdemSpec

-----------------------------------------------------------------------------

\* However many requests of one call run at once, are repeated or die, and whatever
\* the sweeps do beside them, the call reserves, orders, pays or cancels at most
\* once: row locks, the unique key and the statuses checked under the locks see to
\* what the decorator's separate GET and SETEX cannot.
THEOREM CallsTakeEffectOnce == IdemSpec => []EffectsOnce
<1>1. IdemInv => EffectsOnce
  BY DEF IdemInv
<1>2. QED
  BY <1>1, IdempotencyInvariance, PTL

\* The decorator answers from Redis only what a handler has committed and nothing
\* has undone since.
THEOREM RepliesAreTrue == IdemSpec => []CachedIsCommitted
<1>1. IdemInv => CachedIsCommitted
  BY DEF IdemInv, RepliesHaveCalls, HistoryIsInRows, CachedIsCommitted
<1>2. QED
  BY <1>1, IdempotencyInvariance, PTL

\* A committed effect whose reply Redis does not hold has a request about to store
\* it, or one that died before SETEX, or a reply that expired.
THEOREM ResponsesAreKept == IdemSpec => []MissingResponsesAreExplained
<1>1. IdemInv => MissingResponsesAreExplained
  BY DEF IdemInv
<1>2. QED
  BY <1>1, IdempotencyInvariance, PTL

\* Seen from the database, the decorator only leaves requests out: beside Redis the
\* transactions do nothing they would not do without it.
THEOREM DecoratedRequests == IdemSpec => Spec
<1>1. IdemInit => Init
  BY DEF IdemInit
<1>2. IdemInv /\ [IdemNext]_idemVars => [Next]_vars
  <2> SUFFICES ASSUME IdemInv, [IdemNext]_idemVars PROVE [Next]_vars
    OBVIOUS
  <2>1. ASSUME NEW c \in Clients, Begin(c) PROVE Next
    <3>1. call[c].of \in Calls
      BY <2>1 DEF IdemInv, Serves, Begin
    <3>2. BeginRequest(c)
      BY <2>1, <3>1 DEF Begin, BeginRequest, Calls
    <3>3. QED
      BY <3>2 DEF Next
  <2>2. ASSUME NEW c \in Clients, Proceed(c) \/ Commit(c) PROVE Next
    BY <2>2 DEF Proceed, Commit, ContinueRequest, Next
  <2>3. ASSUME NEW c \in Clients, Refuse(c) PROVE [Next]_vars
    BY <2>3, RaiseEnds DEF Refuse
  <2>4. ASSUME NEW c \in Clients, NEW a \in Calls, LookUp(c, a) PROVE UNCHANGED vars
    BY <2>4 DEF LookUp
  <2>5. ASSUME NEW c \in Clients, Store(c) \/ Die(c) PROVE UNCHANGED vars
    BY <2>5 DEF Store, Die
  <2>6. ASSUME NEW r \in cached, Lapse(r) PROVE UNCHANGED vars
    BY <2>6 DEF Lapse
  <2>7. CASE Background
    BY <2>7 DEF Background, Next, Fail, Procs
  <2>8. CASE UNCHANGED idemVars
    BY <2>8 DEF idemVars
  <2>9. QED
    BY <2>1, <2>2, <2>3, <2>4, <2>5, <2>6, <2>7, <2>8 DEF IdemNext, Request
<1>3. QED
  BY <1>1, <1>2, IdempotencyInvariance, PTL DEF IdemSpec, Spec
=============================================================================
