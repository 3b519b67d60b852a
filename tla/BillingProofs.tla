--------------------------- MODULE BillingProofs ---------------------------
(***************************************************************************)
(* The customer lock, for any number of subscriptions, customers, accounts *)
(* and handler threads, with failures, lost answers and cancellations.     *)
(*                                                                         *)
(* A handler fetches the subscription after it has the lock, and writes    *)
(* the row before it gives the lock up; so what it writes is no older than *)
(* the row it replaces.  LockInv says that one transaction works for a     *)
(* customer; FreshInv orders the three versions of a subscription: the     *)
(* row, the fetched object, the object at Stripe.  The second half, on     *)
(* when the tiers agree with Stripe, builds on the lock.                   *)
(***************************************************************************)
EXTENDS Billing, TLAPS

LockInv ==
    \A v, w \in Workers :
        Working(v) /\ Working(w) /\ CustomerOf[Sub(v)] = CustomerOf[Sub(w)] => v = w

Fetched(w) == worker[w].pc \in {"retrieved", "upserted", "decided", "tiered"}

FreshInv ==
    /\ \A s \in Subs : table[s].asof <= stripe[s].version
    /\ \A w \in Workers : Fetched(w) =>
           /\ table[Sub(w)].asof <= worker[w].row.asof
           /\ worker[w].row.asof <= stripe[Sub(w)].version

-----------------------------------------------------------------------------

LEMMA IdleTypes == IdleWorker \in Transactions /\ NoRow \in Rows /\ NoCancel \in Cancellations
BY DEF IdleWorker, Transactions, NoRow, Rows, NoCancel, Cancellations

LEMMA SubType ==
    ASSUME TypeOK, NEW w \in Workers, Working(w)
    PROVE  Sub(w) \in Subs /\ Owner(Sub(w)) \in Keys /\ CustomerOf[Sub(w)] \in Customers
BY DEF TypeOK, Sub, Owner, Keys, Customers

LEMMA FaultType == TypeOK /\ Fault => faults' \in Nat
BY DEF TypeOK, Fault

LEMMA TierType == \A pro \in BOOLEAN : TierFor(pro) \in {"free", "pro"}
BY DEF TierFor

LEMMA ProType ==
    ASSUME TypeOK, NEW w \in Workers PROVE Pro(w) \in BOOLEAN
BY DEF Pro

\* What an event of Stripe does to the log of events.
LEMMA EmitType ==
    ASSUME TypeOK, NEW s \in Subs, Emit(s)
    PROVE  /\ events' \in Seq(Subs)
           /\ Len(events') = Len(events) + 1 /\ Len(events) \in Nat
           /\ owed' \subseteq 1 .. Len(events')
           /\ processed \subseteq 1 .. Len(events')
           /\ \A e \in 1 .. Len(events) : events'[e] = events[e] /\ e \in 1 .. Len(events')
<1>1. events \in Seq(Subs) /\ Len(events) \in Nat /\ events' = Append(events, s)
  BY DEF TypeOK, Emit
<1>2. events' \in Seq(Subs) /\ Len(events') = Len(events) + 1
  BY <1>1
<1>3. \A e \in 1 .. Len(events) : events'[e] = events[e]
  BY <1>1
<1>4. owed \subseteq 1 .. Len(events) /\ processed \subseteq 1 .. Len(events)
  BY DEF TypeOK
<1>5. owed' \subseteq 1 .. Len(events')
  <2>1. owed' = owed \cup {Len(events) + 1}
    BY DEF Emit
  <2>2. 1 .. Len(events) \subseteq 1 .. Len(events')
    BY <1>1, <1>2
  <2>3. Len(events) + 1 \in 1 .. Len(events')
    BY <1>1, <1>2
  <2> QED
    BY <1>4, <2>1, <2>2, <2>3
<1> QED
  BY <1>1, <1>2, <1>3, <1>4, <1>5

LEMMA BecomesType ==
    ASSUME TypeOK, NEW s \in Subs, NEW to \in Statuses, Becomes(s, to)
    PROVE  /\ stripe' \in [Subs -> [status : Statuses, version : Nat]]
           /\ \A t \in Subs : stripe[t].version <= stripe'[t].version
           /\ Emit(s)
BY DEF TypeOK, Becomes

\* Stripe's own steps, and the cancellations it is asked for.
StripeMoves ==
    \E s \in Subs : /\ Emit(s)
                    /\ \/ UNCHANGED stripe
                       \/ \E to \in Statuses : Becomes(s, to)

LEMMA StripeActions ==
    ASSUME NEW s \in Subs, Open(s) \/ Change(s) \/ Notify(s)
    PROVE  StripeMoves /\ UNCHANGED <<dbVars, worker, cancelVars, faults>>
BY DEF Open, Change, Notify, Becomes, StripeMoves, Statuses

LEMMA MovesType ==
    ASSUME TypeOK, StripeMoves
    PROVE  /\ stripe' \in [Subs -> [status : Statuses, version : Nat]]
           /\ \A t \in Subs : stripe[t].version <= stripe'[t].version
           /\ events' \in Seq(Subs)
           /\ owed' \subseteq 1 .. Len(events')
           /\ processed \subseteq 1 .. Len(events')
           /\ \A e \in 1 .. Len(events) : events'[e] = events[e] /\ e \in 1 .. Len(events')
<1>1. PICK s \in Subs : Emit(s) /\ (UNCHANGED stripe \/ \E to \in Statuses : Becomes(s, to))
  BY DEF StripeMoves
<1>2. CASE UNCHANGED stripe
  BY <1>1, <1>2, EmitType DEF TypeOK
<1>3. CASE \E to \in Statuses : Becomes(s, to)
  BY <1>1, <1>3, EmitType, BecomesType
<1> QED
  BY <1>1, <1>2, <1>3

\* A transaction moves on; what was at Stripe and in the database stays.
Moves(w) ==
    /\ worker' = [worker EXCEPT ![w] = worker'[w]]
    /\ worker'[w] \in Transactions
    /\ Working(w) /\ worker'[w].event = worker[w].event
    /\ UNCHANGED <<stripeVars, dbVars, cancelVars, faults>>

LEMMA WorkMoves ==
    ASSUME TypeOK, NEW w \in Workers, Retrieve(w) \/ Upsert(w) \/ Decide(w) \/ SetTier(w)
    PROVE  Moves(w)
<1>0. worker \in [Workers -> Transactions] /\ worker[w] \in Transactions
  BY DEF TypeOK
<1>1. CASE Retrieve(w)
  <2>1. Working(w) /\ stripe[Sub(w)] \in [status : Statuses, version : Nat]
    BY <1>1, SubType DEF Retrieve, Working, TypeOK
  <2> DEFINE row == [known |-> TRUE, qualifies |-> stripe[Sub(w)].status = "entitled",
                     asof |-> stripe[Sub(w)].version]
  <2>2. row \in Rows
    BY <2>1 DEF Rows
  <2>3. worker' = [worker EXCEPT ![w] = [worker[w] EXCEPT !.pc = "retrieved", !.row = row]]
    BY <1>1 DEF Retrieve
  <2> HIDE DEF row
  <2> DEFINE t == [worker[w] EXCEPT !.pc = "retrieved", !.row = row]
  <2>4. t \in Transactions /\ t.event = worker[w].event
    BY <1>0, <2>2 DEF Transactions
  <2> HIDE DEF t
  <2>5. worker'[w] = t /\ worker' = [worker EXCEPT ![w] = t]
    BY <1>0, <2>3 DEF t
  <2> QED
    BY <1>1, <2>1, <2>4, <2>5 DEF Retrieve, Moves
<1>2. CASE Upsert(w)
  BY <1>0, <1>2 DEF Upsert, Moves, Working, Transactions
<1>3. CASE Decide(w)
  <2>1. worker' = [worker EXCEPT ![w] = [worker[w] EXCEPT !.pc = "decided", !.pro = Pro(w)]]
    BY <1>3 DEF Decide
  <2> QED
    BY <1>0, <1>3, <2>1, ProType DEF Decide, Moves, Working, Transactions
<1>4. CASE SetTier(w)
  BY <1>0, <1>4 DEF SetTier, Moves, Working, Transactions
<1> QED
  BY <1>1, <1>2, <1>3, <1>4

-----------------------------------------------------------------------------

\* Every variable keeps its type, and every open transaction has an event
\* (Billing!TypeOK).
LEMMA TypeStep == TypeOK /\ [Next]_vars => TypeOK'
<1> SUFFICES ASSUME TypeOK, [Next]_vars PROVE TypeOK'
  OBVIOUS
<1>s. CASE UNCHANGED vars
  BY <1>s DEF vars, stripeVars, dbVars, cancelVars, TypeOK, Working
<1>1. ASSUME NEW s \in Subs, Open(s) \/ Change(s) \/ Notify(s) PROVE TypeOK'
  BY <1>1, StripeActions, MovesType DEF TypeOK, dbVars, cancelVars, Working
<1>2. ASSUME NEW e \in owed \cup processed, Redeliver(e) \/ Duplicate(e) PROVE TypeOK'
  <2>1. faults' \in Nat
    BY <1>2, FaultType DEF Redeliver, Duplicate, TypeOK
  <2>2. owed' \subseteq 1 .. Len(events)
    BY <1>2 DEF Redeliver, Duplicate, TypeOK
  <2>3. UNCHANGED <<stripe, events, dbVars, worker, cancelVars>>
    BY <1>2 DEF Redeliver, Duplicate
  <2> QED
    BY <2>1, <2>2, <2>3 DEF TypeOK, dbVars, cancelVars, Working
<1>3. ASSUME NEW w \in Workers, NEW e \in owed, Begin(w, e) PROVE TypeOK'
  <2>1. e \in 1 .. Len(events) /\ Len(events) \in Nat
    BY DEF TypeOK
  <2> DEFINE t == [IdleWorker EXCEPT !.pc = "locked", !.event = e]
  <2>4. e \in Nat
    BY <2>1
  <2>2. t \in Transactions /\ t.event = e
    BY <2>4, IdleTypes DEF Transactions
  <2>3. worker' = [worker EXCEPT ![w] = t]
    BY <1>3 DEF Begin
  <2> HIDE DEF t
  <2> QED
    BY <1>3, <2>1, <2>2, <2>3 DEF Begin, TypeOK, stripeVars, dbVars, cancelVars, Working
<1>4. ASSUME NEW w \in Workers, Moves(w) PROVE TypeOK'
  BY <1>4 DEF Moves, TypeOK, stripeVars, dbVars, cancelVars, Working
<1>5. ASSUME NEW w \in Workers, Commit(w) PROVE TypeOK'
  <2>1. Working(w) /\ worker[w] \in Transactions
    BY <1>5 DEF Commit, Working, TypeOK
  <2>2. Sub(w) \in Subs /\ Owner(Sub(w)) \in Keys /\ CustomerOf[Sub(w)] \in Customers
    BY <2>1, SubType
  <2>3. TierFor(worker[w].pro) \in {"free", "pro"} /\ worker[w].row \in Rows
    BY <2>1, TierType DEF Transactions
  <2>4. worker[w].event \in 1 .. Len(events)
    BY <2>1 DEF TypeOK
  <2> QED
    BY <1>5, <2>2, <2>3, <2>4, IdleTypes DEF Commit, TypeOK, cancelVars, Working, IdleWorker
<1>6. ASSUME NEW w \in Workers, RollBack(w), faults' \in Nat PROVE TypeOK'
  BY <1>6, IdleTypes
  DEF RollBack, AfterFailure, TypeOK, dbVars, cancelVars, Working, IdleWorker
<1>7. ASSUME NEW k \in Keys, cancel' = [cancel EXCEPT ![k] = NoCancel], faults' \in Nat,
             UNCHANGED <<stripeVars, dbVars, worker, requests>>
      PROVE  TypeOK'
  BY <1>7, IdleTypes DEF TypeOK, stripeVars, dbVars, Working
<1>8. ASSUME NEW k \in Keys, BeginCancel(k) PROVE TypeOK'
  <2>1. CancelScope(k) \in SUBSET Customers
    BY DEF CancelScope, TypeOK, Customers, SubsOf
  <2> DEFINE c == [pc |-> "stripe", customers |-> CancelScope(k), todo |-> {}]
  <2>2. c \in Cancellations
    BY <2>1 DEF Cancellations
  <2>3. cancel' = [cancel EXCEPT ![k] = c]
    BY <1>8 DEF BeginCancel
  <2> HIDE DEF c
  <2>4. requests' \in Nat
    BY <1>8 DEF BeginCancel, TypeOK
  <2>5. cancel' \in [Keys -> Cancellations]
    BY <2>2, <2>3 DEF TypeOK
  <2>6. UNCHANGED <<stripeVars, dbVars, worker, faults>>
    BY <1>8 DEF BeginCancel
  <2> QED
    BY <2>4, <2>5, <2>6 DEF BeginCancel, TypeOK, stripeVars, dbVars, Working
<1>9. ASSUME NEW k \in Keys, NEW c \in Customers, ListCustomer(k, c) PROVE TypeOK'
  BY <1>9 DEF ListCustomer, TypeOK, stripeVars, dbVars, Working, Cancellations
<1>10. ASSUME NEW k \in Keys, NEW s \in Subs, CancelOne(k, s) PROVE TypeOK'
  <2>1. StripeMoves
    BY <1>10 DEF CancelOne, StripeMoves, Becomes, Statuses
  <2>2. cancel' \in [Keys -> Cancellations]
    BY <1>10 DEF CancelOne, TypeOK, Cancellations
  <2> QED
    BY <1>10, <2>1, <2>2, MovesType DEF CancelOne, TypeOK, dbVars, Working
<1>11. ASSUME NEW k \in Keys, FreeTier(k) PROVE TypeOK'
  BY <1>11 DEF FreeTier, TypeOK, stripeVars, dbVars, Working, Cancellations
<1>12. ASSUME NEW k \in Keys, CommitCancel(k) PROVE TypeOK'
  <2>1. table' \in [Subs -> Rows]
    BY <1>12 DEF CommitCancel, TypeOK, Rows
  <2> QED
    BY <1>12, <2>1, IdleTypes DEF CommitCancel, TypeOK, stripeVars, Working
<1>13. ASSUME NEW k \in Keys, CancelFails(k) PROVE TypeOK'
  BY <1>13, <1>7, FaultType DEF CancelFails, TypeOK
<1>14. ASSUME NEW w \in Workers, NEW k \in Keys, BreakDeadlock(w, k) PROVE TypeOK'
  <2>1. CASE RollBack(w) /\ UNCHANGED faults
    BY <2>1, <1>6 DEF TypeOK
  <2>2. CASE ~RollBack(w)
    BY <1>14, <2>2, <1>7 DEF BreakDeadlock, TypeOK
  <2> QED
    BY <2>1, <2>2, <1>14 DEF BreakDeadlock
<1>15. ASSUME NEW w \in Workers, Work(w) \/ Abort(w) PROVE TypeOK'
  BY <1>15, <1>4, <1>5, <1>6, WorkMoves, FaultType DEF Work, Abort
<1> QED
  BY <1>s, <1>1, <1>2, <1>3, <1>8, <1>9, <1>10, <1>11, <1>12, <1>13, <1>14, <1>15
  DEF Next, StripeStep, Receive, Cancellation

THEOREM TypeCorrect == Spec => []TypeOK
<1>1. Init => TypeOK
  <2> SUFFICES ASSUME Init PROVE TypeOK
    OBVIOUS
  <2>1. stripe \in [Subs -> [status : Statuses, version : Nat]]
    BY DEF Init, Statuses
  <2>2. events \in Seq(Subs) /\ requests \in Nat /\ faults \in Nat
    BY DEF Init
  <2>3. worker \in [Workers -> Transactions] /\ \A w \in Workers : ~Working(w)
    BY IdleTypes DEF Init, Working, IdleWorker
  <2>4. table \in [Subs -> Rows] /\ cancel \in [Keys -> Cancellations]
    BY IdleTypes DEF Init
  <2> QED
    BY <2>1, <2>2, <2>3, <2>4 DEF Init, TypeOK
<1> QED
  BY <1>1, TypeStep, PTL DEF Spec

-----------------------------------------------------------------------------

\* Steps at Stripe or of a cancellation leave the transactions and the database
\* alone, and take nothing from the work that is owed.
Beside ==
    /\ UNCHANGED <<worker, dbVars>>
    /\ \/ StripeMoves
       \/ UNCHANGED <<stripe, events>> /\ owed' \ processed = owed \ processed

LEMMA StepKinds ==
    ASSUME [Next]_vars
    PROVE  \/ Beside
           \/ \E w \in Workers, e \in owed : Begin(w, e)
           \/ \E w \in Workers : Retrieve(w)
           \/ \E w \in Workers : Upsert(w) \/ Decide(w) \/ SetTier(w)
           \/ \E w \in Workers : Commit(w)
           \/ \E w \in Workers : Working(w) /\ RollBack(w)
           \/ \E k \in Keys : CommitCancel(k)
<1>1. CASE UNCHANGED vars
  BY <1>1 DEF vars, stripeVars, dbVars, Beside
<1>2. CASE StripeStep
  <2>1. ASSUME NEW s \in Subs, Open(s) \/ Change(s) \/ Notify(s) PROVE Beside
    BY <2>1, StripeActions DEF Beside, dbVars
  <2>2. ASSUME NEW e \in processed, Redeliver(e) PROVE Beside
    BY <2>2 DEF Redeliver, Beside, dbVars
  <2> QED
    BY <1>2, <2>1, <2>2 DEF StripeStep
<1>3. CASE Receive
  BY <1>3 DEF Receive, Duplicate, Beside, dbVars
<1>4. CASE \E w \in Workers : Work(w) \/ Abort(w)
  BY <1>4 DEF Work, Abort
<1>5. CASE \E k \in Keys : BeginCancel(k) \/ Cancellation(k) \/ CancelFails(k)
  <2>1. ASSUME NEW k \in Keys, BeginCancel(k) \/ FreeTier(k) \/ CancelFails(k) PROVE Beside
    BY <2>1 DEF BeginCancel, FreeTier, CancelFails, Beside, stripeVars, dbVars
  <2>2. ASSUME NEW k \in Keys, NEW c \in Customers, ListCustomer(k, c) PROVE Beside
    BY <2>2 DEF ListCustomer, Beside, stripeVars, dbVars
  <2>3. ASSUME NEW k \in Keys, NEW s \in Subs, CancelOne(k, s) PROVE Beside
    BY <2>3 DEF CancelOne, Becomes, StripeMoves, Statuses, Beside, dbVars
  <2> QED
    BY <1>5, <2>1, <2>2, <2>3 DEF Cancellation
<1>6. CASE \E w \in Workers, k \in Keys : BreakDeadlock(w, k)
  BY <1>6 DEF BreakDeadlock, Beside, stripeVars, Working
<1> QED
  BY <1>1, <1>2, <1>3, <1>4, <1>5, <1>6 DEF Next

\* What is logged stays logged, so a transaction keeps its subscription.
LEMMA SubStable ==
    ASSUME TypeOK, NEW w \in Workers, Working(w), worker'[w].event = worker[w].event,
           StripeMoves \/ UNCHANGED events
    PROVE  Sub(w)' = Sub(w)
<1>1. worker[w].event \in 1 .. Len(events)
  BY DEF TypeOK
<1> QED
  BY <1>1, MovesType DEF Sub

LEMMA LockStep ==
    ASSUME TypeOK, LockInv, [Next]_vars
    PROVE  LockInv'
<1>t. worker \in [Workers -> Transactions]
  BY DEF TypeOK
<1>1. CASE Beside
  <2>1. \A w \in Workers : Working(w) => Sub(w)' = Sub(w)
    BY <1>1, SubStable DEF Beside
  <2> QED
    BY <1>1, <2>1 DEF Beside, LockInv, Working
<1>2. ASSUME NEW w \in Workers, NEW e \in owed, Begin(w, e) PROVE LockInv'
  <2>1. \A v \in Workers \ {w} : worker'[v] = worker[v]
    BY <1>2, <1>t DEF Begin
  <2>2. worker'[w].event = e
    BY <1>2, <1>t DEF Begin, IdleWorker
  <2>3. events' = events
    BY <1>2 DEF Begin, stripeVars
  <2>4. \A v \in Workers \ {w} : Sub(v)' = Sub(v) /\ Working(v)' = Working(v)
    BY <2>1, <2>3 DEF Sub, Working
  <2>5. Sub(w)' = events[e]
    BY <2>2, <2>3 DEF Sub
  <2>6. \A v \in Workers : Working(v) => CustomerOf[Sub(v)] # CustomerOf[events[e]]
    BY <1>2 DEF Begin, CustomerLockFree
  <2> QED
    BY <2>4, <2>5, <2>6 DEF LockInv
<1>3. ASSUME NEW w \in Workers, Moves(w) PROVE LockInv'
  <2>1. \A v \in Workers : worker'[v].event = worker[v].event /\ Working(v)' => Working(v)
    BY <1>3, <1>t DEF Moves, Working
  <2>2. \A v \in Workers : worker'[v].event = worker[v].event
    BY <1>3, <1>t DEF Moves
  <2>3. events' = events
    BY <1>3 DEF Moves, stripeVars
  <2>4. \A v \in Workers : Sub(v)' = Sub(v)
    BY <2>2, <2>3 DEF Sub
  <2> QED
    BY <2>1, <2>2, <2>4 DEF LockInv
<1>4. ASSUME NEW w \in Workers, Commit(w) \/ RollBack(w) PROVE LockInv'
  <2>1. \A v \in Workers \ {w} : worker'[v] = worker[v]
    BY <1>4, <1>t DEF Commit, RollBack
  <2>2. ~Working(w)' /\ events' = events
    BY <1>4, <1>t DEF Commit, RollBack, IdleWorker, Working
  <2>3. \A v \in Workers \ {w} : Sub(v)' = Sub(v) /\ Working(v)' = Working(v)
    BY <2>1, <2>2 DEF Sub, Working
  <2> QED
    BY <2>2, <2>3 DEF LockInv
<1>5. ASSUME NEW k \in Keys, CommitCancel(k) PROVE LockInv'
  BY <1>5 DEF CommitCancel, stripeVars, LockInv, Working, Sub
<1> QED
  BY StepKinds, <1>1, <1>2, <1>3, <1>4, <1>5, WorkMoves

LEMMA FreshStep ==
    ASSUME TypeOK, LockInv, FreshInv, [Next]_vars
    PROVE  FreshInv' /\ \A s \in Subs : table[s].asof <= table'[s].asof
<1>t. /\ worker \in [Workers -> Transactions] /\ table \in [Subs -> Rows]
      /\ stripe \in [Subs -> [status : Statuses, version : Nat]]
  BY DEF TypeOK
<1>a. \A s \in Subs : table[s].asof \in Nat /\ stripe[s].version \in Nat
  BY <1>t DEF Rows
<1>f. \A w \in Workers : Fetched(w) => Working(w) /\ Sub(w) \in Subs
  BY SubType DEF Fetched, Working
<1>r. \A w \in Workers : worker[w].row.asof \in Nat
  BY <1>t DEF Transactions, Rows
<1>1. CASE Beside
  <2>1. \A w \in Workers : Fetched(w) => Sub(w)' = Sub(w)
    BY <1>1, <1>f, SubStable DEF Beside
  <2>2. \A w \in Workers : Fetched(w)' = Fetched(w) /\ worker'[w] = worker[w]
    BY <1>1 DEF Beside, Fetched
  <2>3. \A s \in Subs : /\ stripe[s].version <= stripe'[s].version
                        /\ stripe'[s].version \in Nat /\ table'[s] = table[s]
    BY <1>1, <1>a, MovesType DEF Beside, dbVars
  <2>4. \A s \in Subs : table'[s].asof <= stripe'[s].version
    BY <2>3, <1>a DEF FreshInv
  <2>5. ASSUME NEW w \in Workers, Fetched(w)'
        PROVE  /\ table'[Sub(w)'].asof <= worker'[w].row.asof
               /\ worker'[w].row.asof <= stripe'[Sub(w)'].version
    BY <2>5, <2>1, <2>2, <2>3, <1>a, <1>f, <1>r DEF FreshInv
  <2> QED
    BY <2>3, <2>4, <2>5, <1>a DEF FreshInv
<1>2. ASSUME NEW w \in Workers, worker'[w].pc \in {"idle", "locked"},
             \A v \in Workers \ {w} : worker'[v] = worker[v],
             UNCHANGED <<stripe, events, table>>
      PROVE  FreshInv' /\ \A s \in Subs : table[s].asof <= table'[s].asof
  <2>1. ~Fetched(w)'
    BY <1>2 DEF Fetched
  <2>2. \A v \in Workers \ {w} : Fetched(v)' = Fetched(v) /\ Sub(v)' = Sub(v)
    BY <1>2 DEF Fetched, Sub
  <2> QED
    BY <1>2, <2>1, <2>2, <1>a DEF FreshInv
<1>3. ASSUME NEW w \in Workers, Retrieve(w)
      PROVE  FreshInv' /\ \A s \in Subs : table[s].asof <= table'[s].asof
  <2>1. UNCHANGED <<stripe, events, table>>
    BY <1>3 DEF Retrieve, stripeVars, dbVars
  <2>2. \A v \in Workers \ {w} : worker'[v] = worker[v]
    BY <1>3, <1>t DEF Retrieve
  <2>3. /\ worker'[w].event = worker[w].event
        /\ worker'[w].row.asof = stripe[Sub(w)].version
    BY <1>3, <1>t DEF Retrieve, Transactions, Rows
  <2>4. Working(w) /\ Sub(w) \in Subs
    BY <1>3, SubType DEF Retrieve, Working
  <2>5. Sub(w)' = Sub(w)
    BY <2>1, <2>3 DEF Sub
  <2>6. \A v \in Workers \ {w} : Fetched(v)' = Fetched(v) /\ Sub(v)' = Sub(v)
    BY <2>1, <2>2 DEF Fetched, Sub
  <2> QED
    BY <2>1, <2>2, <2>3, <2>4, <2>5, <2>6, <1>a DEF FreshInv
<1>4. ASSUME NEW w \in Workers, Upsert(w) \/ Decide(w) \/ SetTier(w)
      PROVE  FreshInv' /\ \A s \in Subs : table[s].asof <= table'[s].asof
  <2>1. UNCHANGED <<stripe, events, table>>
    BY <1>4 DEF Upsert, Decide, SetTier, stripeVars, dbVars
  <2>2. \A v \in Workers : worker'[v].event = worker[v].event /\ worker'[v].row = worker[v].row
    <3>0. worker[w] \in Transactions
      BY <1>t
    <3>1. CASE Upsert(w) \/ SetTier(w)
      BY <1>t, <3>0, <3>1 DEF Upsert, SetTier, Transactions
    <3>2. CASE Decide(w)
      <4>1. worker' = [worker EXCEPT ![w] = [worker[w] EXCEPT !.pc = "decided", !.pro = Pro(w)]]
        BY <3>2 DEF Decide
      <4> QED
        BY <1>t, <3>0, <4>1 DEF Transactions
    <3> QED
      BY <1>4, <3>1, <3>2
  <2>3. \A v \in Workers : Fetched(v)' => Fetched(v)
    BY <1>4, <1>t DEF Upsert, Decide, SetTier, Fetched
  <2>4. \A v \in Workers : Sub(v)' = Sub(v)
    BY <2>1, <2>2 DEF Sub
  <2> QED
    BY <2>1, <2>2, <2>3, <2>4, <1>a DEF FreshInv
<1>5. ASSUME NEW w \in Workers, Commit(w)
      PROVE  FreshInv' /\ \A s \in Subs : table[s].asof <= table'[s].asof
  <2>1. Fetched(w) /\ Sub(w) \in Subs /\ Working(w)
    BY <1>5, <1>f DEF Commit, Fetched
  <2>2. UNCHANGED <<stripe, events>>
    BY <1>5 DEF Commit
  <2>3. \A s \in Subs : table'[s] = IF s = Sub(w) THEN worker[w].row ELSE table[s]
    BY <1>5, <1>t DEF Commit
  <2>4. ~Fetched(w)'
    BY <1>5, <1>t DEF Commit, Fetched, IdleWorker
  <2>5. \A v \in Workers \ {w} : worker'[v] = worker[v]
    BY <1>5, <1>t DEF Commit
  <2>6. \A v \in Workers \ {w} : Fetched(v)' = Fetched(v) /\ Sub(v)' = Sub(v)
    BY <2>2, <2>5 DEF Fetched, Sub
  <2>7. \A v \in Workers \ {w} : Fetched(v) => Sub(v) # Sub(w)
    BY <2>1, <1>f DEF LockInv
  <2>8. \A s \in Subs : table[s].asof <= table'[s].asof /\ table'[s].asof <= stripe'[s].version
    BY <2>1, <2>2, <2>3, <1>a DEF FreshInv
  <2>9. ASSUME NEW v \in Workers, Fetched(v)'
        PROVE  /\ table'[Sub(v)'].asof <= worker'[v].row.asof
               /\ worker'[v].row.asof <= stripe'[Sub(v)'].version
    BY <2>9, <2>2, <2>3, <2>4, <2>5, <2>6, <2>7, <1>f DEF FreshInv
  <2> QED
    BY <2>8, <2>9 DEF FreshInv
<1>6. ASSUME NEW k \in Keys, CommitCancel(k)
      PROVE  FreshInv' /\ \A s \in Subs : table[s].asof <= table'[s].asof
  <2>1. UNCHANGED <<stripe, events, worker>>
    BY <1>6 DEF CommitCancel, stripeVars
  <2>2. \A s \in Subs : table'[s].asof = table[s].asof
    BY <1>6, <1>t DEF CommitCancel, Rows
  <2>3. \A v \in Workers : Fetched(v)' = Fetched(v) /\ Sub(v)' = Sub(v)
    BY <2>1 DEF Fetched, Sub
  <2> QED
    BY <2>1, <2>2, <2>3, <1>a, <1>f DEF FreshInv
<1>7. ASSUME NEW w \in Workers, NEW e \in owed, Begin(w, e)
      PROVE  FreshInv' /\ \A s \in Subs : table[s].asof <= table'[s].asof
  <2>1. worker'[w].pc = "locked" /\ \A v \in Workers \ {w} : worker'[v] = worker[v]
    BY <1>7, <1>t DEF Begin, IdleWorker
  <2>2. UNCHANGED <<stripe, events, table>>
    BY <1>7 DEF Begin, stripeVars, dbVars
  <2> QED
    BY <2>1, <2>2, <1>2
<1>8. ASSUME NEW w \in Workers, RollBack(w)
      PROVE  FreshInv' /\ \A s \in Subs : table[s].asof <= table'[s].asof
  <2>1. worker'[w].pc = "idle" /\ \A v \in Workers \ {w} : worker'[v] = worker[v]
    BY <1>8, <1>t DEF RollBack, IdleWorker
  <2>2. UNCHANGED <<stripe, events, table>>
    BY <1>8 DEF RollBack, dbVars
  <2> QED
    BY <2>1, <2>2, <1>2
<1> QED
  BY StepKinds, <1>1, <1>3, <1>4, <1>5, <1>6, <1>7, <1>8

\* One transaction at a time works for a customer, and it never holds an object
\* older than the row it is about to write.
THEOREM CustomerLockHolds == Spec => [](LockInv /\ FreshInv)
<1>1. Init => LockInv /\ FreshInv
  <2> SUFFICES ASSUME Init PROVE LockInv /\ FreshInv
    OBVIOUS
  <2>1. \A w \in Workers : worker[w].pc = "idle"
    BY DEF Init, IdleWorker
  <2>2. \A s \in Subs : table[s].asof = 0 /\ stripe[s].version = 0
    BY DEF Init, NoRow
  <2> QED
    BY <2>1, <2>2 DEF LockInv, FreshInv, Working, Fetched
<1>2. TypeOK /\ LockInv /\ FreshInv /\ [Next]_vars => LockInv' /\ FreshInv'
  BY LockStep, FreshStep
<1> QED
  BY <1>1, <1>2, TypeCorrect, PTL DEF Spec

\* Concurrent deliveries never put an older snapshot of a subscription over a
\* newer one (Billing!NoStaleCommit).
THEOREM SnapshotsMoveForward == Spec => NoStaleCommit
<1>1. TypeOK /\ LockInv /\ FreshInv /\ [Next]_vars
          => [\A s \in Subs : table[s].asof <= table'[s].asof]_vars
  BY FreshStep
<1> QED
  BY <1>1, TypeCorrect, CustomerLockHolds, PTL DEF Spec, NoStaleCommit
-----------------------------------------------------------------------------
(* Why the tiers come to agree.  A wrong row, or a wrong tier, is always     *)
(* accounted for: an event of it waits to be worked on, or a handler is at   *)
(* work; and a handler that is about to write something wrong has another    *)
(* event waiting behind it, because what it misjudged changed after it       *)
(* looked, and Stripe told.  When nothing waits and nobody works, nothing is *)
(* wrong.                                                                    *)

\* An account has one customer at Stripe, as long as the checkout finds the one
\* on file; a customer made twice for an account is the hazard of the other lock.
OneCustomerEach == \A c, d \in Customers : KeyOf[c] = KeyOf[d] => c = d

Entitled(s) == stripe[s].status = "entitled"
AnyEntitled(k) == \E s \in SubsOf(k) : Entitled(s)

\* An event of the subscription that is still to be worked on.
Unheld(e) == \A w \in Workers : Working(w) => worker[w].event # e
Waiting(s) == \E e \in owed \ processed : events[e] = s /\ Unheld(e)
WaitingFor(k) == \E s \in SubsOf(k) : Waiting(s)

Serves(w, s) == Working(w) /\ Sub(w) = s

\* A handler that will write the truth about its subscription, and one that will
\* write the truth about its account, as things are now.
GoodRow(w, s) == Fetched(w) => (worker[w].row.qualifies <=> Entitled(s))
GoodTier(w, k) == worker[w].pc \in {"decided", "tiered"} => (worker[w].pro <=> AnyEntitled(k))

HeldInv == \A w \in Workers : Working(w) => worker[w].event \in owed \ processed

RowInv ==
    /\ \A s \in Subs : table[s].known \/ ~table[s].qualifies
    /\ \A w \in Workers : Fetched(w) => worker[w].row.known
    /\ \A s \in Subs :
         \/ table[s].qualifies <=> Entitled(s)
         \/ Waiting(s)
         \/ \E w \in Workers : Serves(w, s)
    /\ \A w \in Workers, s \in Subs : Serves(w, s) => GoodRow(w, s) \/ Waiting(s)

TierInv ==
    /\ \A k \in Keys :
         \/ Agreed(k)
         \/ WaitingFor(k)
         \/ \E w \in Workers, s \in SubsOf(k) : Serves(w, s)
    /\ \A w \in Workers, s \in Subs :
         Serves(w, s) => GoodTier(w, Owner(s)) \/ WaitingFor(Owner(s))

\* Every subscription that still runs is on a list of the cancellation under way.
CancelInv ==
    \A k \in Keys : cancel[k].pc # "idle" =>
        /\ \A s \in SubsOf(k) :
               Live(s) => CustomerOf[s] \in cancel[k].customers \/ s \in cancel[k].todo
        /\ cancel[k].pc = "freed" => cancel[k].customers = {} /\ cancel[k].todo = {}

LEMMA AgreedIs == \A k : Agreed(k) <=> tier[k] = TierFor(AnyEntitled(k))
BY DEF Agreed, AnyEntitled, Entitled

LEMMA OwnerIs == \A s \in Subs : Owner(s) \in Keys /\ CustomerOf[s] \in Customers /\ s \in SubsOf(Owner(s))
BY DEF Owner, Keys, Customers, SubsOf

\* What is at work for an account works for its customer.
LEMMA AloneForAccount ==
    ASSUME OneCustomerEach, TypeOK, LockInv, NEW v \in Workers, NEW w \in Workers,
           NEW s \in Subs, NEW t \in Subs, Serves(v, s), Serves(w, t), Owner(s) = Owner(t)
    PROVE  v = w /\ s = t
<1>1. CustomerOf[s] = CustomerOf[t]
  BY OwnerIs DEF OneCustomerEach, Owner
<1> QED
  BY <1>1 DEF LockInv, Serves

LEMMA HoldersDiffer ==
    ASSUME LockInv, NEW v \in Workers, NEW w \in Workers, Working(v), Working(w), v # w
    PROVE  worker[v].event # worker[w].event
BY DEF LockInv, Sub

\* Stripe and the cancellations: an event that waits goes on waiting, and what
\* changes its status has one.
BesideEffect ==
    /\ UNCHANGED <<worker, table, tier>>
    /\ owed \ processed \subseteq owed' \ processed'
    /\ \A w \in Workers, s \in Subs : Serves(w, s)' <=> Serves(w, s)
    /\ \A s \in Subs : Waiting(s) => Waiting(s)'
    /\ \A s \in Subs : (Entitled(s)' <=> Entitled(s)) \/ Waiting(s)'

LEMMA BesideDoes == ASSUME TypeOK, Beside PROVE BesideEffect
<1>1. UNCHANGED <<worker, table, tier, processed>>
  BY DEF Beside, dbVars
<1>2. \A w \in Workers, s \in Subs : Serves(w, s)' <=> Serves(w, s)
  BY <1>1, SubStable DEF Beside, Serves, Working
<1>3. \A e : Unheld(e)' <=> Unheld(e)
  BY <1>1 DEF Unheld, Working
<1>4. CASE StripeMoves
  <2>1. PICK s \in Subs : Emit(s) /\ (UNCHANGED stripe \/ \E to \in Statuses : Becomes(s, to))
    BY <1>4 DEF StripeMoves
  <2> DEFINE n == Len(events) + 1
  <2>2. owed' = owed \cup {n} /\ events' = Append(events, s)
    BY <2>1 DEF Emit
  <2>3. events \in Seq(Subs) /\ n \in Nat /\ n \notin 1 .. Len(events) /\ events'[n] = s
    BY <2>2 DEF TypeOK
  <2>4. n \notin processed /\ Unheld(n)
    BY <2>3 DEF TypeOK, Unheld
  <2>5. n \in owed' \ processed'
    BY <1>1, <2>2, <2>4
  <2> HIDE DEF n
  <2>6. Waiting(s)'
    BY <1>3, <2>3, <2>4, <2>5 DEF Waiting
  <2>7. \A e \in owed : events'[e] = events[e]
    BY <1>4, MovesType DEF TypeOK
  <2>8. \A t \in Subs : Waiting(t) => Waiting(t)'
    BY <1>1, <1>3, <2>2, <2>7 DEF Waiting
  <2>9. \A t \in Subs \ {s} : stripe'[t] = stripe[t]
    BY <2>1 DEF Becomes, TypeOK
  <2> QED
    BY <1>1, <1>2, <2>2, <2>6, <2>8, <2>9 DEF BesideEffect, Entitled
<1>5. CASE ~StripeMoves
  <2>1. UNCHANGED <<stripe, events>> /\ owed' \ processed' = owed \ processed
    BY <1>1, <1>5 DEF Beside
  <2>2. \A t \in Subs : Waiting(t) => Waiting(t)'
    BY <1>3, <2>1 DEF Waiting
  <2> QED
    BY <1>1, <1>2, <2>1, <2>2 DEF BesideEffect, Entitled
<1> QED
  BY <1>4, <1>5

\* A handler that starts takes its event from those that wait.
BeginEffect(w, s) ==
    /\ UNCHANGED <<stripe, table, tier, owed, processed>>
    /\ worker'[w].pc = "locked" /\ worker'[w].event \in owed \ processed
    /\ \A v \in Workers \ {w} : worker'[v] = worker[v]
    /\ Serves(w, s)' /\ \A t \in Subs : Serves(w, t)' => t = s
    /\ \A v \in Workers \ {w}, t \in Subs : Serves(v, t)' <=> Serves(v, t)
    /\ \A v \in Workers, t \in Subs : Serves(v, t) => v # w /\ CustomerOf[t] # CustomerOf[s]
    /\ \A t \in Subs \ {s} : Waiting(t) => Waiting(t)'

LEMMA BeginDoes ==
    ASSUME TypeOK, NEW w \in Workers, NEW e \in owed, Begin(w, e)
    PROVE  events[e] \in Subs /\ BeginEffect(w, events[e])
<1> DEFINE s == events[e]
<1>0. s \in Subs
  BY DEF TypeOK
<1>1. UNCHANGED <<stripe, events, owed, processed, table, tier>> /\ e \notin processed
  BY DEF Begin, stripeVars, dbVars
<1>2. /\ worker'[w].pc = "locked" /\ worker'[w].event = e
      /\ \A v \in Workers \ {w} : worker'[v] = worker[v]
  BY DEF Begin, TypeOK, IdleWorker
<1>3. Sub(w)' = s /\ \A v \in Workers \ {w} : Sub(v)' = Sub(v)
  BY <1>1, <1>2 DEF Sub
<1>4. ASSUME NEW t \in Subs \ {s}, Waiting(t) PROVE Waiting(t)'
  <2>1. PICK d \in owed \ processed : events[d] = t /\ Unheld(d)
    BY <1>4 DEF Waiting
  <2>2. d # e
    BY <1>4, <2>1
  <2>3. Unheld(d)'
    BY <1>2, <2>1, <2>2 DEF Unheld, Working
  <2> QED
    BY <1>1, <2>1, <2>3 DEF Waiting
<1>5. ~Working(w) /\ \A v \in Workers : Working(v) => CustomerOf[Sub(v)] # CustomerOf[s]
  BY DEF Begin, CustomerLockFree
<1>6. \A v \in Workers, t \in Subs : Serves(v, t) => v # w /\ CustomerOf[t] # CustomerOf[s]
  BY <1>5 DEF Serves
<1>7. \A v \in Workers \ {w}, t \in Subs : Serves(v, t)' <=> Serves(v, t)
  BY <1>2, <1>3 DEF Serves, Working
<1>8. Working(w)'
  BY <1>2 DEF Working
<1> HIDE DEF s
<1>9. Serves(w, events[e])' /\ \A t \in Subs : Serves(w, t)' => t = s
  BY <1>1, <1>3, <1>8 DEF Serves, s
<1> QED
  BY <1>0, <1>1, <1>2, <1>4, <1>6, <1>7, <1>9 DEF BeginEffect, s

\* A handler that goes on keeps its event.
MoveEffect(w) ==
    /\ UNCHANGED <<stripe, table, tier, owed, processed>>
    /\ \A v \in Workers : /\ worker'[v].event = worker[v].event
                          /\ Working(v)' <=> Working(v)
    /\ \A v \in Workers, t \in Subs : Serves(v, t)' <=> Serves(v, t)
    /\ \A v \in Workers \ {w} : worker'[v] = worker[v]
    /\ \A t \in Subs : Waiting(t)' <=> Waiting(t)

LEMMA MoveDoes ==
    ASSUME TypeOK, NEW w \in Workers, Retrieve(w) \/ Upsert(w) \/ Decide(w) \/ SetTier(w)
    PROVE  MoveEffect(w)
<1>m. Moves(w)
  BY WorkMoves
<1>1. UNCHANGED <<stripe, events, owed, processed, table, tier>>
  BY <1>m DEF Moves, stripeVars, dbVars
<1>2. \A v \in Workers \ {w} : worker'[v] = worker[v]
  BY <1>m DEF Moves, TypeOK
<1>3. worker'[w].pc # "idle"
  BY DEF Retrieve, Upsert, Decide, SetTier, TypeOK, Transactions
<1>4. \A v \in Workers : /\ worker'[v].event = worker[v].event
                         /\ Working(v)' <=> Working(v)
  BY <1>m, <1>2, <1>3 DEF Moves, Working
<1>5. \A v \in Workers : Sub(v)' = Sub(v)
  BY <1>1, <1>4 DEF Sub
<1>6. \A e : Unheld(e)' <=> Unheld(e)
  BY <1>4 DEF Unheld
<1>7. \A v \in Workers, t \in Subs : Serves(v, t)' <=> Serves(v, t)
  BY <1>4, <1>5 DEF Serves
<1>8. \A t \in Subs : Waiting(t)' <=> Waiting(t)
  BY <1>1, <1>6 DEF Waiting
<1> QED
  BY <1>1, <1>2, <1>4, <1>7, <1>8 DEF MoveEffect

\* A handler that ends leaves the others alone, and what waits waits.
EndEffect(w) ==
    /\ UNCHANGED stripe
    /\ ~Working(w)' /\ ~Fetched(w)'
    /\ \A v \in Workers \ {w} : worker'[v] = worker[v]
    /\ \A t \in Subs : ~Serves(w, t)'
    /\ \A v \in Workers \ {w}, t \in Subs : Serves(v, t)' <=> Serves(v, t)
    /\ \A v \in Workers : Working(v)' => worker'[v].event \in owed' \ processed'
    /\ \A t \in Subs : Waiting(t) => Waiting(t)'

LEMMA EndDoes ==
    ASSUME TypeOK, LockInv, HeldInv, NEW w \in Workers, Working(w), Commit(w) \/ RollBack(w)
    PROVE  EndEffect(w)
<1>1. UNCHANGED <<stripe, events>>
  BY DEF Commit, RollBack
<1>2. worker' = [worker EXCEPT ![w] = IdleWorker]
  BY DEF Commit, RollBack
<1>3. worker'[w].pc = "idle" /\ \A v \in Workers \ {w} : worker'[v] = worker[v]
  BY <1>2 DEF TypeOK, IdleWorker
<1>4. \A v \in Workers \ {w} : Sub(v)' = Sub(v)
  BY <1>1, <1>3 DEF Sub
<1>5. \/ owed' \ processed' = owed \ processed
      \/ owed' \ processed' = (owed \ processed) \ {worker[w].event}
  BY DEF Commit, RollBack, AfterFailure, dbVars
<1>6. \A e : Unheld(e) => Unheld(e)' /\ e # worker[w].event
  BY <1>3 DEF Unheld, Working
<1>7. \A t \in Subs : Waiting(t) => Waiting(t)'
  BY <1>1, <1>5, <1>6 DEF Waiting
<1>8. ASSUME NEW v \in Workers, Working(v)' PROVE worker'[v].event \in owed' \ processed'
  <2>1. v # w /\ worker'[v] = worker[v] /\ Working(v)
    BY <1>3, <1>8 DEF Working
  <2>2. worker[v].event # worker[w].event
    BY <2>1, HoldersDiffer
  <2> QED
    BY <1>5, <2>1, <2>2 DEF HeldInv
<1>9. \A v \in Workers \ {w}, t \in Subs : Serves(v, t)' <=> Serves(v, t)
  BY <1>3, <1>4 DEF Serves, Working
<1> QED
  BY <1>1, <1>3, <1>7, <1>8, <1>9 DEF EndEffect, Working, Fetched, Serves

\* The event of a handler that failed waits again.
LEMMA RolledBackWaits ==
    ASSUME TypeOK, LockInv, HeldInv, NEW w \in Workers, NEW s \in Subs, Serves(w, s), RollBack(w)
    PROVE  Waiting(s)'
<1> DEFINE e == worker[w].event
<1>1. UNCHANGED <<events, processed>> /\ owed' = owed
  BY DEF RollBack, dbVars, AfterFailure
<1>2. worker'[w].pc = "idle" /\ \A v \in Workers \ {w} : worker'[v] = worker[v]
  BY DEF RollBack, TypeOK, IdleWorker
<1>3. \A v \in Workers \ {w} : Working(v) => worker[v].event # e
  BY HoldersDiffer DEF Serves
<1>4. e \in owed \ processed /\ events[e] = s
  BY DEF HeldInv, Serves, Sub
<1>5. \E d \in owed \ processed : events[d] = s /\ \A v \in Workers : Working(v)' => worker'[v].event # d
  BY <1>2, <1>3, <1>4 DEF Working
<1> QED
  BY <1>1, <1>5 DEF Waiting, Unheld
-----------------------------------------------------------------------------

LEMMA HeldStep ==
    ASSUME TypeOK, LockInv, HeldInv, [Next]_vars
    PROVE  HeldInv'
<1>1. CASE Beside
  BY <1>1, BesideDoes DEF BesideEffect, HeldInv, Working
<1>2. ASSUME NEW w \in Workers, NEW s \in Subs, BeginEffect(w, s) PROVE HeldInv'
  BY <1>2 DEF BeginEffect, HeldInv, Working
<1>3. ASSUME NEW w \in Workers, MoveEffect(w) PROVE HeldInv'
  BY <1>3 DEF MoveEffect, HeldInv
<1>4. ASSUME NEW w \in Workers, EndEffect(w) PROVE HeldInv'
  BY <1>4 DEF EndEffect, HeldInv
<1>5. ASSUME NEW k \in Keys, CommitCancel(k) PROVE HeldInv'
  BY <1>5 DEF CommitCancel, stripeVars, HeldInv, Working
<1> QED
  BY StepKinds, BeginDoes, MoveDoes, EndDoes, <1>1, <1>2, <1>3, <1>4, <1>5
  DEF Commit, Working

\* What a handler writes at its commit.
LEMMA CommitWrites ==
    ASSUME TypeOK, NEW w \in Workers, NEW s \in Subs, Serves(w, s), Commit(w)
    PROVE  /\ Fetched(w) /\ worker[w].pc = "tiered"
           /\ table'[s] = worker[w].row /\ \A t \in Subs \ {s} : table'[t] = table[t]
           /\ tier'[Owner(s)] = TierFor(worker[w].pro)
           /\ \A k \in Keys \ {Owner(s)} : tier'[k] = tier[k]
BY OwnerIs DEF Commit, Serves, TypeOK, Fetched

\* What the closing transaction of a cancellation writes.
LEMMA CancelWrites ==
    ASSUME TypeOK, CancelInv, NEW k \in Keys, CommitCancel(k)
    PROVE  /\ UNCHANGED <<stripeVars, processed, worker>>
           /\ \A s \in SubsOf(k) : ~Entitled(s)
           /\ tier'[k] = "free" /\ \A j \in Keys \ {k} : tier'[j] = tier[j]
           /\ \A s \in Subs :
                \/ table'[s] = table[s]
                \/ s \in SubsOf(k) /\ table'[s].known /\ ~table'[s].qualifies
           /\ \A s \in SubsOf(k) : table[s].known => ~table'[s].qualifies
<1>1. cancel[k].pc = "freed"
  BY DEF CommitCancel
<1>2. \A s \in SubsOf(k) : ~Live(s)
  BY <1>1 DEF CancelInv
<1>3. \A s \in SubsOf(k) : ~Entitled(s)
  BY <1>2 DEF Live, Entitled
<1>4. tier'[k] = "free" /\ \A j \in Keys \ {k} : tier'[j] = tier[j]
  BY DEF CommitCancel, TypeOK
<1>5. ASSUME NEW s \in Subs
      PROVE  /\ \/ table'[s] = table[s]
                \/ s \in SubsOf(k) /\ table'[s].known /\ ~table'[s].qualifies
             /\ s \in SubsOf(k) /\ table[s].known => ~table'[s].qualifies
  <2>1. table[s] \in Rows
    BY DEF TypeOK
  <2>2. table'[s] = IF s \in SubsOf(k) /\ table[s].known
                    THEN [table[s] EXCEPT !.qualifies = FALSE] ELSE table[s]
    BY DEF CommitCancel
  <2> QED
    BY <2>1, <2>2 DEF Rows
<1>6. SubsOf(k) \subseteq Subs
  BY DEF SubsOf
<1> QED
  BY <1>3, <1>4, <1>5, <1>6 DEF CommitCancel

LEMMA RowStep ==
    ASSUME TypeOK, LockInv, HeldInv, RowInv, CancelInv, [Next]_vars
    PROVE  RowInv'
<1>r. \A s \in Subs :
         \/ table[s].qualifies <=> Entitled(s)
         \/ Waiting(s)
         \/ \E w \in Workers : Serves(w, s)
  BY DEF RowInv
<1>g. \A w \in Workers, s \in Subs : Serves(w, s) => GoodRow(w, s) \/ Waiting(s)
  BY DEF RowInv
<1>k. /\ \A s \in Subs : table[s].known \/ ~table[s].qualifies
      /\ \A w \in Workers : Fetched(w) => worker[w].row.known
  BY DEF RowInv
<1>t. worker \in [Workers -> Transactions]
  BY DEF TypeOK
<1>1. CASE Beside
  <2>1. BesideEffect
    BY <1>1, BesideDoes
  <2>2. \A w \in Workers, s \in Subs : Serves(w, s)' => GoodRow(w, s)' \/ Waiting(s)'
    BY <2>1, <1>g DEF BesideEffect, GoodRow, Fetched
  <2>3. \A s \in Subs :
         \/ table'[s].qualifies <=> Entitled(s)'
         \/ Waiting(s)'
         \/ \E w \in Workers : Serves(w, s)'
    BY <2>1, <1>r DEF BesideEffect
  <2>4. \A w \in Workers : Fetched(w)' => worker'[w].row.known
    BY <2>1, <1>k DEF BesideEffect, Fetched
  <2> QED
    BY <2>1, <2>2, <2>3, <2>4, <1>k DEF BesideEffect, RowInv
<1>2. ASSUME NEW w \in Workers, NEW s \in Subs, BeginEffect(w, s) PROVE RowInv'
  <2>1. ASSUME NEW v \in Workers, NEW t \in Subs, Serves(v, t)'
        PROVE  GoodRow(v, t)' \/ Waiting(t)'
    <3>1. CASE v = w
      BY <1>2, <3>1 DEF BeginEffect, GoodRow, Fetched
    <3>2. CASE v # w
      BY <1>2, <1>g, <2>1, <3>2 DEF BeginEffect, GoodRow, Fetched, Entitled
    <3> QED
      BY <3>1, <3>2
  <2>2. \A t \in Subs :
         \/ table'[t].qualifies <=> Entitled(t)'
         \/ Waiting(t)'
         \/ \E v \in Workers : Serves(v, t)'
    BY <1>2, <1>r DEF BeginEffect, Entitled
  <2>3. \A v \in Workers : Fetched(v)' => worker'[v].row.known
    BY <1>2, <1>k DEF BeginEffect, Fetched
  <2> QED
    BY <1>2, <2>1, <2>2, <2>3, <1>k DEF BeginEffect, RowInv
<1>3. ASSUME NEW w \in Workers, MoveEffect(w), Fetched(w)' => worker'[w].row.known,
             \A s \in Subs : Serves(w, s) => GoodRow(w, s)' \/ Waiting(s)
      PROVE  RowInv'
  <2>1. ASSUME NEW v \in Workers, NEW t \in Subs, Serves(v, t)'
        PROVE  GoodRow(v, t)' \/ Waiting(t)'
    <3>1. CASE v = w
      BY <1>3, <2>1, <3>1 DEF MoveEffect
    <3>2. CASE v # w
      BY <1>3, <1>g, <2>1, <3>2 DEF MoveEffect, GoodRow, Fetched, Entitled
    <3> QED
      BY <3>1, <3>2
  <2>2. \A t \in Subs :
         \/ table'[t].qualifies <=> Entitled(t)'
         \/ Waiting(t)'
         \/ \E v \in Workers : Serves(v, t)'
    BY <1>3, <1>r DEF MoveEffect, Entitled
  <2>3. \A v \in Workers : Fetched(v)' => worker'[v].row.known
    BY <1>3, <1>k DEF MoveEffect, Fetched
  <2> QED
    BY <1>3, <2>1, <2>2, <2>3, <1>k DEF MoveEffect, RowInv
<1>4. ASSUME NEW w \in Workers, Retrieve(w) PROVE RowInv'
  <2>1. MoveEffect(w)
    BY <1>4, MoveDoes
  <2> DEFINE entitled == stripe[Sub(w)].status = "entitled"
  <2>b. entitled \in BOOLEAN
    OBVIOUS
  <2>2. worker'[w].row = [known |-> TRUE, qualifies |-> entitled, asof |-> stripe[Sub(w)].version]
    BY <1>4, <1>t DEF Retrieve, Transactions
  <2> HIDE DEF entitled
  <2>3. worker'[w].row.known /\ (worker'[w].row.qualifies <=> entitled)
    BY <2>b, <2>2
  <2>4. \A s \in Subs : Serves(w, s) => GoodRow(w, s)'
    BY <2>1, <2>3 DEF MoveEffect, Serves, GoodRow, Entitled, entitled
  <2> QED
    BY <1>3, <2>1, <2>3, <2>4
<1>5. ASSUME NEW w \in Workers, Upsert(w) \/ Decide(w) \/ SetTier(w) PROVE RowInv'
  <2>1. MoveEffect(w)
    BY <1>5, MoveDoes
  <2>2. worker'[w].row = worker[w].row
    <3>0. worker[w] \in Transactions
      BY <1>t
    <3>1. CASE Upsert(w) \/ SetTier(w)
      BY <1>t, <3>0, <3>1 DEF Upsert, SetTier, Transactions
    <3>2. CASE Decide(w)
      <4>1. worker' = [worker EXCEPT ![w] = [worker[w] EXCEPT !.pc = "decided", !.pro = Pro(w)]]
        BY <3>2 DEF Decide
      <4> QED
        BY <1>t, <3>0, <4>1 DEF Transactions
    <3> QED
      BY <1>5, <3>1, <3>2
  <2>3. Fetched(w)
    BY <1>5 DEF Upsert, Decide, SetTier, Fetched
  <2>4. \A s \in Subs : GoodRow(w, s) => GoodRow(w, s)'
    BY <2>1, <2>2, <2>3 DEF MoveEffect, GoodRow, Entitled
  <2> QED
    BY <1>3, <1>g, <1>k, <2>1, <2>2, <2>3, <2>4
<1>6. ASSUME NEW w \in Workers, EndEffect(w),
             \A t \in Subs : \/ table'[t] = table[t] /\ ~Serves(w, t)
                             \/ /\ table'[t].known \/ ~table'[t].qualifies
                                /\ (table'[t].qualifies <=> Entitled(t)) \/ Waiting(t)'
      PROVE  RowInv'
  <2>1. ASSUME NEW v \in Workers, NEW t \in Subs, Serves(v, t)'
        PROVE  GoodRow(v, t)' \/ Waiting(t)'
    <3>1. v # w
      BY <1>6, <2>1 DEF EndEffect
    <3> QED
      BY <1>6, <1>g, <2>1, <3>1 DEF EndEffect, GoodRow, Fetched, Entitled
  <2>2. \A t \in Subs :
         \/ table'[t].qualifies <=> Entitled(t)'
         \/ Waiting(t)'
         \/ \E v \in Workers : Serves(v, t)'
    BY <1>6, <1>r DEF EndEffect, Entitled
  <2>3. \A v \in Workers : Fetched(v)' => worker'[v].row.known
    BY <1>6, <1>k DEF EndEffect, Fetched
  <2>4. \A t \in Subs : table'[t].known \/ ~table'[t].qualifies
    BY <1>6, <1>k
  <2> QED
    BY <2>1, <2>2, <2>3, <2>4 DEF RowInv
<1>7. ASSUME NEW w \in Workers, Commit(w) PROVE RowInv'
  <2>1. PICK s \in Subs : Serves(w, s)
    BY <1>7, SubType DEF Commit, Working, Serves
  <2>2. EndEffect(w)
    BY <1>7, <2>1, EndDoes DEF Serves
  <2>3. /\ Fetched(w) /\ table'[s] = worker[w].row
        /\ \A t \in Subs \ {s} : table'[t] = table[t]
    BY <1>7, <2>1, CommitWrites
  <2>4. \A t \in Subs \ {s} : ~Serves(w, t)
    BY <2>1 DEF Serves
  <2>5. (table'[s].qualifies <=> Entitled(s)) \/ Waiting(s)'
    BY <1>g, <2>1, <2>2, <2>3 DEF GoodRow, EndEffect
  <2>6. table'[s].known
    BY <1>k, <2>3
  <2> QED
    BY <1>6, <2>2, <2>3, <2>4, <2>5, <2>6
<1>8. ASSUME NEW w \in Workers, Working(w), RollBack(w) PROVE RowInv'
  <2>1. PICK s \in Subs : Serves(w, s)
    BY <1>8, SubType DEF Serves
  <2>2. EndEffect(w) /\ table' = table
    BY <1>8, EndDoes DEF RollBack, dbVars
  <2>3. Waiting(s)'
    BY <1>8, <2>1, RolledBackWaits
  <2>4. \A t \in Subs \ {s} : ~Serves(w, t)
    BY <2>1 DEF Serves
  <2> QED
    BY <1>6, <1>k, <2>2, <2>3, <2>4
<1>9. ASSUME NEW k \in Keys, CommitCancel(k) PROVE RowInv'
  <2>1. UNCHANGED <<stripe, events, owed, processed, worker>>
    BY <1>9, CancelWrites DEF stripeVars
  <2>2. \A v \in Workers, t \in Subs : /\ Serves(v, t)' <=> Serves(v, t)
                                       /\ GoodRow(v, t)' <=> GoodRow(v, t)
    BY <2>1 DEF Serves, Working, Sub, GoodRow, Fetched, Entitled
  <2>3. \A t \in Subs : Waiting(t)' <=> Waiting(t)
    BY <2>1 DEF Waiting, Unheld, Working
  <2>4. ASSUME NEW t \in Subs
        PROVE  \/ table'[t].qualifies <=> Entitled(t)'
               \/ Waiting(t)'
               \/ \E v \in Workers : Serves(v, t)'
    <3>1. Entitled(t)' <=> Entitled(t)
      BY <2>1 DEF Entitled
    <3>2. CASE table'[t] = table[t]
      BY <1>r, <2>2, <2>3, <3>1, <3>2
    <3>3. CASE t \in SubsOf(k) /\ ~table'[t].qualifies
      BY <1>9, <3>1, <3>3, CancelWrites
    <3> QED
      BY <1>9, <3>2, <3>3, CancelWrites
  <2>5. \A t \in Subs : table'[t].known \/ ~table'[t].qualifies
    BY <1>9, <1>k, CancelWrites
  <2>6. \A v \in Workers : Fetched(v)' => worker'[v].row.known
    BY <1>k, <2>1 DEF Fetched
  <2>7. ASSUME NEW v \in Workers, NEW t \in Subs, Serves(v, t)'
        PROVE  GoodRow(v, t)' \/ Waiting(t)'
    <3>1. GoodRow(v, t) \/ Waiting(t)
      BY <1>g, <2>2, <2>7
    <3> QED
      BY <2>2, <2>3, <3>1
  <2> QED
    BY <2>4, <2>5, <2>6, <2>7 DEF RowInv
<1> QED
  BY StepKinds, BeginDoes, <1>1, <1>2, <1>4, <1>5, <1>7, <1>8, <1>9
-----------------------------------------------------------------------------

LEMMA TierForIs == \A p, q \in BOOLEAN : (p <=> q) => TierFor(p) = TierFor(q)
BY DEF TierFor

\* The decision of a handler is right, or something of its account waits: the
\* rows it reads are right or waited for, since no other handler works for the
\* account, and so is the object it has fetched.
LEMMA Decision ==
    ASSUME OneCustomerEach, TypeOK, LockInv, RowInv,
           NEW w \in Workers, NEW s \in Subs, Serves(w, s), Decide(w)
    PROVE  (Pro(w) <=> AnyEntitled(Owner(s))) \/ WaitingFor(Owner(s))
<1> DEFINE k == Owner(s)
<1> SUFFICES ASSUME ~WaitingFor(k) PROVE Pro(w) <=> AnyEntitled(k)
  OBVIOUS
<1>0. s \in SubsOf(k) /\ SubsOf(k) \subseteq Subs /\ \A t \in SubsOf(k) : Owner(t) = k
  BY OwnerIs DEF SubsOf
<1>1. \A t \in SubsOf(k) : ~Waiting(t)
  BY DEF WaitingFor
<1>2. worker[w].row.qualifies <=> Entitled(s)
  <2>1. Fetched(w)
    BY DEF Decide, Fetched
  <2> QED
    BY <1>0, <1>1, <2>1 DEF RowInv, GoodRow
<1>3. ASSUME NEW t \in SubsOf(k) \ {s} PROVE table[t].qualifies <=> Entitled(t)
  <2>1. ASSUME NEW v \in Workers, Serves(v, t) PROVE FALSE
    BY <1>0, <1>3, <2>1, AloneForAccount
  <2> QED
    BY <1>0, <1>1, <2>1 DEF RowInv
<1>4. Sub(w) = s /\ Owner(Sub(w)) = k
  BY DEF Serves
<1>5. Pro(w) <=> \/ worker[w].row.qualifies
                 \/ \E t \in SubsOf(k) \ {s} : table[t].qualifies
  BY <1>4 DEF Pro
<1>6. AnyEntitled(k) <=> Entitled(s) \/ \E t \in SubsOf(k) \ {s} : Entitled(t)
  BY <1>0 DEF AnyEntitled
<1> QED
  BY <1>2, <1>3, <1>5, <1>6

LEMMA TierStep ==
    ASSUME OneCustomerEach, TypeOK, LockInv, HeldInv, RowInv, TierInv, CancelInv, [Next]_vars
    PROVE  TierInv'
<1>a. \A k \in Keys :
         \/ Agreed(k)
         \/ WaitingFor(k)
         \/ \E w \in Workers, s \in SubsOf(k) : Serves(w, s)
  BY DEF TierInv
<1>g. \A w \in Workers, s \in Subs : Serves(w, s) => GoodTier(w, Owner(s)) \/ WaitingFor(Owner(s))
  BY DEF TierInv
<1>t. worker \in [Workers -> Transactions]
  BY DEF TypeOK
<1>s. \A k : SubsOf(k) \subseteq Subs /\ \A s \in SubsOf(k) : Owner(s) = k
  BY DEF SubsOf
<1>w. ASSUME \A s \in Subs : Waiting(s) => Waiting(s)'
      PROVE  \A k : WaitingFor(k) => WaitingFor(k)'
  BY <1>w, <1>s DEF WaitingFor
<1>e. ASSUME UNCHANGED stripe PROVE \A k : AnyEntitled(k)' <=> AnyEntitled(k)
  BY <1>e DEF AnyEntitled, Entitled
<1>c. ASSUME UNCHANGED <<stripe, tier>> PROVE \A k : Agreed(k) => Agreed(k)'
  BY <1>c DEF Agreed
<1>1. CASE Beside
  <2>1. BesideEffect
    BY <1>1, BesideDoes
  <2>2. \A k : WaitingFor(k) => WaitingFor(k)'
    BY <1>w, <2>1 DEF BesideEffect
  <2>3. \A k : (AnyEntitled(k)' <=> AnyEntitled(k)) \/ WaitingFor(k)'
    BY <1>s, <2>1 DEF BesideEffect, AnyEntitled, WaitingFor
  <2>4. \A w \in Workers, s \in Subs : Serves(w, s)' => GoodTier(w, Owner(s))' \/ WaitingFor(Owner(s))'
    BY <1>g, <2>1, <2>2, <2>3 DEF BesideEffect, GoodTier
  <2>5. ASSUME NEW k \in Keys, Agreed(k) PROVE Agreed(k)' \/ WaitingFor(k)'
    <3>1. SUFFICES ASSUME AnyEntitled(k)' <=> AnyEntitled(k) PROVE Agreed(k)'
      BY <2>3
    <3>2. tier' = tier /\ tier[k] = TierFor(AnyEntitled(k))
      BY <2>1, <2>5, AgreedIs DEF BesideEffect
    <3>3. AnyEntitled(k)' \in BOOLEAN /\ AnyEntitled(k) \in BOOLEAN
      BY DEF AnyEntitled
    <3>4. tier'[k] = TierFor(AnyEntitled(k)')
      BY <3>1, <3>2, <3>3, TierForIs
    <3> QED
      BY <3>4 DEF Agreed, AnyEntitled, Entitled
  <2>6. \A k \in Keys :
         \/ Agreed(k)'
         \/ WaitingFor(k)'
         \/ \E w \in Workers, s \in SubsOf(k) : Serves(w, s)'
    BY <1>a, <1>s, <2>1, <2>2, <2>5 DEF BesideEffect
  <2> QED
    BY <2>4, <2>6 DEF TierInv
<1>2. ASSUME NEW w \in Workers, NEW s \in Subs, BeginEffect(w, s) PROVE TierInv'
  <2>2. ASSUME NEW v \in Workers, NEW t \in Subs, Serves(v, t)'
        PROVE  GoodTier(v, Owner(t))' \/ WaitingFor(Owner(t))'
    <3>1. CASE v = w
      BY <1>2, <3>1 DEF BeginEffect, GoodTier
    <3>2. CASE v # w
      <4>1. Serves(v, t) /\ CustomerOf[t] # CustomerOf[s] /\ worker'[v] = worker[v]
        BY <1>2, <2>2, <3>2 DEF BeginEffect
      <4>2. Owner(t) # Owner(s)
        BY <4>1, OwnerIs DEF OneCustomerEach, Owner
      <4>3. WaitingFor(Owner(t)) => WaitingFor(Owner(t))'
        BY <1>2, <1>s, <4>2 DEF BeginEffect, WaitingFor
      <4>4. GoodTier(v, Owner(t)) => GoodTier(v, Owner(t))'
        BY <1>2, <1>e, <4>1 DEF BeginEffect, GoodTier
      <4> QED
        BY <1>g, <4>1, <4>3, <4>4
    <3> QED
      BY <3>1, <3>2
  <2>3. ASSUME NEW k \in Keys
        PROVE  \/ Agreed(k)'
               \/ WaitingFor(k)'
               \/ \E v \in Workers, t \in SubsOf(k) : Serves(v, t)'
    <3>1. CASE k = Owner(s)
      BY <1>2, <3>1, OwnerIs DEF BeginEffect
    <3>2. CASE k # Owner(s)
      <4>1. WaitingFor(k) => WaitingFor(k)'
        BY <1>2, <1>s, <3>2 DEF BeginEffect, WaitingFor
      <4>2. Agreed(k) => Agreed(k)'
        BY <1>2, <1>c DEF BeginEffect
      <4>3. \A v \in Workers, t \in SubsOf(k) : Serves(v, t) => Serves(v, t)'
        BY <1>2, <1>s DEF BeginEffect
      <4> QED
        BY <1>a, <4>1, <4>2, <4>3
    <3> QED
      BY <3>1, <3>2
  <2> QED
    BY <2>2, <2>3 DEF TierInv
<1>3. ASSUME NEW w \in Workers, MoveEffect(w),
             \A s \in Subs : Serves(w, s) => GoodTier(w, Owner(s))' \/ WaitingFor(Owner(s))
      PROVE  TierInv'
  <2>1. \A k : WaitingFor(k) => WaitingFor(k)'
    BY <1>3, <1>w DEF MoveEffect
  <2>2. ASSUME NEW v \in Workers, NEW t \in Subs, Serves(v, t)'
        PROVE  GoodTier(v, Owner(t))' \/ WaitingFor(Owner(t))'
    <3>1. CASE v = w
      BY <1>3, <2>1, <2>2, <3>1 DEF MoveEffect
    <3>2. CASE v # w
      <4>1. Serves(v, t) /\ worker'[v] = worker[v]
        BY <1>3, <2>2, <3>2 DEF MoveEffect
      <4>2. GoodTier(v, Owner(t)) => GoodTier(v, Owner(t))'
        BY <1>3, <1>e, <4>1 DEF MoveEffect, GoodTier
      <4> QED
        BY <1>g, <2>1, <4>1, <4>2
    <3> QED
      BY <3>1, <3>2
  <2>3. \A k \in Keys :
         \/ Agreed(k)'
         \/ WaitingFor(k)'
         \/ \E v \in Workers, t \in SubsOf(k) : Serves(v, t)'
    BY <1>3, <1>a, <1>c, <1>s, <2>1 DEF MoveEffect
  <2> QED
    BY <2>2, <2>3 DEF TierInv
<1>4. ASSUME NEW w \in Workers, Retrieve(w) \/ Upsert(w) PROVE TierInv'
  <2>1. MoveEffect(w)
    BY <1>4, MoveDoes
  <2>2. worker'[w].pc \in {"retrieved", "upserted"}
    BY <1>4, <1>t DEF Retrieve, Upsert, Transactions
  <2>3. \A k : GoodTier(w, k)'
    BY <2>2 DEF GoodTier
  <2> QED
    BY <1>3, <2>1, <2>3
<1>5. ASSUME NEW w \in Workers, Decide(w) PROVE TierInv'
  <2>1. MoveEffect(w)
    BY <1>5, MoveDoes
  <2>2. worker'[w].pro = Pro(w)
    BY <1>5, <1>t DEF Decide, Transactions
  <2>3. ASSUME NEW s \in Subs, Serves(w, s)
        PROVE  GoodTier(w, Owner(s))' \/ WaitingFor(Owner(s))
    <3>1. (Pro(w) <=> AnyEntitled(Owner(s))) \/ WaitingFor(Owner(s))
      BY <1>5, <2>3, Decision
    <3>2. AnyEntitled(Owner(s))' <=> AnyEntitled(Owner(s))
      BY <1>e, <2>1 DEF MoveEffect
    <3>3. Pro(w) \in BOOLEAN
      BY ProType
    <3> QED
      BY <2>2, <3>1, <3>2, <3>3 DEF GoodTier
  <2> QED
    BY <1>3, <2>1, <2>3
<1>6. ASSUME NEW w \in Workers, SetTier(w) PROVE TierInv'
  <2>1. MoveEffect(w)
    BY <1>6, MoveDoes
  <2>2. worker[w].pc = "decided" /\ worker'[w].pro = worker[w].pro
    BY <1>6, <1>t DEF SetTier, Transactions
  <2>3. \A k : GoodTier(w, k) => GoodTier(w, k)'
    BY <1>e, <2>1, <2>2 DEF MoveEffect, GoodTier
  <2> QED
    BY <1>3, <1>g, <2>1, <2>3
<1>7. ASSUME NEW w \in Workers, NEW s \in Subs, Serves(w, s), EndEffect(w),
             \A k \in Keys \ {Owner(s)} : tier'[k] = tier[k],
             Agreed(Owner(s))' \/ WaitingFor(Owner(s))'
      PROVE  TierInv'
  <2>1. \A k : WaitingFor(k) => WaitingFor(k)'
    BY <1>7, <1>w DEF EndEffect
  <2>2. ASSUME NEW v \in Workers, NEW t \in Subs, Serves(v, t)'
        PROVE  GoodTier(v, Owner(t))' \/ WaitingFor(Owner(t))'
    <3>1. v # w
      BY <1>7, <2>2 DEF EndEffect
    <3>2. Serves(v, t) /\ worker'[v] = worker[v]
      BY <1>7, <2>2, <3>1 DEF EndEffect
    <3>3. GoodTier(v, Owner(t)) => GoodTier(v, Owner(t))'
      BY <1>7, <1>e, <3>2 DEF EndEffect, GoodTier
    <3> QED
      BY <1>g, <2>1, <3>2, <3>3
  <2>3. ASSUME NEW k \in Keys, k # Owner(s)
        PROVE  \/ Agreed(k)'
               \/ WaitingFor(k)'
               \/ \E v \in Workers, t \in SubsOf(k) : Serves(v, t)'
    <3>1. Agreed(k) => Agreed(k)'
      BY <1>7, <2>3 DEF EndEffect, Agreed
    <3>2. ASSUME NEW v \in Workers, NEW t \in SubsOf(k), Serves(v, t) PROVE Serves(v, t)'
      <4>1. t # s /\ t \in Subs
        BY <1>s, <2>3
      <4>2. v # w
        BY <1>7, <3>2, <4>1 DEF Serves
      <4> QED
        BY <1>7, <3>2, <4>1, <4>2 DEF EndEffect
    <3> QED
      BY <1>a, <2>1, <3>1, <3>2
  <2> QED
    BY <1>7, <2>2, <2>3 DEF TierInv
<1>8. ASSUME NEW w \in Workers, Commit(w) PROVE TierInv'
  <2>1. PICK s \in Subs : Serves(w, s)
    BY <1>8, SubType DEF Commit, Working, Serves
  <2>2. EndEffect(w)
    BY <1>8, <2>1, EndDoes DEF Serves
  <2>3. /\ worker[w].pc = "tiered" /\ tier'[Owner(s)] = TierFor(worker[w].pro)
        /\ \A k \in Keys \ {Owner(s)} : tier'[k] = tier[k]
    BY <1>8, <2>1, CommitWrites
  <2>4. CASE WaitingFor(Owner(s))
    BY <1>7, <1>w, <2>1, <2>2, <2>3, <2>4 DEF EndEffect
  <2>5. CASE GoodTier(w, Owner(s))
    <3>1. worker[w].pro \in BOOLEAN
      BY <1>t DEF Transactions
    <3>2. worker[w].pro <=> AnyEntitled(Owner(s))
      BY <2>3, <2>5 DEF GoodTier
    <3>3. AnyEntitled(Owner(s)) \in BOOLEAN
      BY DEF AnyEntitled
    <3>4. tier'[Owner(s)] = TierFor(AnyEntitled(Owner(s)))
      BY <2>3, <3>1, <3>2, <3>3, TierForIs
    <3>5. Agreed(Owner(s))'
      BY <2>2, <3>4 DEF EndEffect, Agreed, AnyEntitled, Entitled
    <3> QED
      BY <1>7, <2>1, <2>2, <2>3, <3>5
  <2> QED
    BY <1>g, <2>1, <2>4, <2>5
<1>9. ASSUME NEW w \in Workers, Working(w), RollBack(w) PROVE TierInv'
  <2>1. PICK s \in Subs : Serves(w, s)
    BY <1>9, SubType DEF Serves
  <2>2. EndEffect(w) /\ tier' = tier
    BY <1>9, EndDoes DEF RollBack, dbVars
  <2>3. Waiting(s)'
    BY <1>9, <2>1, RolledBackWaits
  <2>4. WaitingFor(Owner(s))'
    BY <2>3, OwnerIs DEF WaitingFor
  <2> QED
    BY <1>7, <2>1, <2>2, <2>4
<1>10. ASSUME NEW k \in Keys, CommitCancel(k) PROVE TierInv'
  <2>1. UNCHANGED <<stripe, events, owed, processed, worker>>
    BY <1>10, CancelWrites DEF stripeVars
  <2>2. \A v \in Workers, t \in Subs : Serves(v, t)' <=> Serves(v, t)
    BY <2>1 DEF Serves, Working, Sub
  <2>3. \A j : WaitingFor(j)' <=> WaitingFor(j)
    BY <2>1 DEF WaitingFor, Waiting, Unheld, Working
  <2>4. \A v \in Workers : \A j : GoodTier(v, j)' <=> GoodTier(v, j)
    BY <1>e, <2>1 DEF GoodTier
  <2>5. ASSUME NEW v \in Workers, NEW t \in Subs, Serves(v, t)'
        PROVE  GoodTier(v, Owner(t))' \/ WaitingFor(Owner(t))'
    BY <1>g, <2>2, <2>3, <2>4, <2>5
  <2>6. Agreed(k)'
    <3>1. ~AnyEntitled(k) /\ tier'[k] = "free"
      BY <1>10, CancelWrites DEF AnyEntitled
    <3>2. ~\E s \in SubsOf(k) : stripe'[s].status = "entitled"
      BY <2>1, <3>1 DEF AnyEntitled, Entitled
    <3> QED
      BY <3>1, <3>2 DEF Agreed, TierFor
  <2>7. \A j \in Keys \ {k} : Agreed(j)' <=> Agreed(j)
    BY <1>10, <2>1, CancelWrites DEF Agreed
  <2>8. \A j \in Keys :
         \/ Agreed(j)'
         \/ WaitingFor(j)'
         \/ \E v \in Workers, t \in SubsOf(j) : Serves(v, t)'
    BY <1>a, <1>s, <2>2, <2>3, <2>6, <2>7
  <2> QED
    BY <2>5, <2>8 DEF TierInv
<1> QED
  BY StepKinds, BeginDoes, <1>1, <1>2, <1>4, <1>5, <1>6, <1>8, <1>9, <1>10
-----------------------------------------------------------------------------

\* With one customer to an account, that customer is what a cancellation starts
\* with, whether it is on file or found by the email.
LEMMA ScopeIsWhole ==
    ASSUME OneCustomerEach, TypeOK, NEW k \in Keys, CancelScope(k) # {},
           NEW s \in SubsOf(k), Live(s)
    PROVE  CustomerOf[s] \in CancelScope(k)
<1> DEFINE known == {c \in linked : KeyOf[c] = k}
           there == {CustomerOf[t] : t \in {u \in SubsOf(k) : stripe[u].status # "none"}}
<1>1. s \in Subs /\ CustomerOf[s] \in Customers /\ KeyOf[CustomerOf[s]] = k
  BY DEF SubsOf, Owner, Customers
<1>2. CustomerOf[s] \in there
  BY DEF Live
<1>3. \A c \in known : c = CustomerOf[s]
  BY <1>1 DEF TypeOK, OneCustomerEach
<1>4. CancelScope(k) = known \/ CancelScope(k) = there
  BY DEF CancelScope
<1> QED
  BY <1>2, <1>3, <1>4

LEMMA CancelStep ==
    ASSUME OneCustomerEach, ~OpenDuringCancel, TypeOK, CancelInv, [Next]_vars
    PROVE  CancelInv'
<1>t. cancel \in [Keys -> Cancellations] /\ stripe \in [Subs -> [status : Statuses, version : Nat]]
  BY DEF TypeOK
<1>s. \A k : SubsOf(k) \subseteq Subs /\ \A s \in SubsOf(k) : Owner(s) = k
  BY DEF SubsOf
\* Nothing goes live, and the cancellation of one account, at most, goes on.
<1> DEFINE Keeps(k) ==
        cancel'[k].pc # "idle" =>
            /\ \A s \in SubsOf(k) :
                   Live(s)' => CustomerOf[s] \in cancel'[k].customers \/ s \in cancel'[k].todo
            /\ cancel'[k].pc = "freed" => cancel'[k].customers = {} /\ cancel'[k].todo = {}
<1>k. ASSUME \A k \in Keys : Keeps(k) PROVE CancelInv'
  BY <1>k DEF CancelInv
<1>o. ASSUME NEW k \in Keys, cancel'[k] = cancel[k], \A s \in SubsOf(k) : Live(s)' => Live(s)
      PROVE  Keeps(k)
  BY <1>o DEF CancelInv
<1>1. CASE UNCHANGED <<stripe, cancel>>
  BY <1>1 DEF CancelInv, Live
<1>2. ASSUME NEW s \in Subs, Open(s) PROVE CancelInv'
  <2>1. UNCHANGED cancel /\ cancel[Owner(s)].pc = "idle"
    BY <1>2 DEF Open, cancelVars
  <2>2. \A t \in Subs \ {s} : Live(t)' => Live(t)
    BY <1>2, <1>t DEF Open, Becomes, Live
  <2>3. ASSUME NEW k \in Keys PROVE Keeps(k)
    <3>1. CASE k = Owner(s)
      BY <2>1, <3>1
    <3>2. CASE k # Owner(s)
      BY <1>o, <1>s, <2>1, <2>2, <3>2
    <3> QED
      BY <3>1, <3>2
  <2> QED
    BY <1>k, <2>3
<1>3. ASSUME NEW s \in Subs, Change(s) PROVE CancelInv'
  <2>1. UNCHANGED cancel
    BY <1>3 DEF Change, cancelVars
  <2>2. \A t \in Subs : Live(t)' => Live(t)
    BY <1>3, <1>t DEF Change, Becomes, Live
  <2> QED
    BY <1>k, <1>o, <1>s, <2>1, <2>2
<1>4. ASSUME NEW k \in Keys, BeginCancel(k) PROVE CancelInv'
  <2> DEFINE c == [pc |-> "stripe", customers |-> CancelScope(k), todo |-> {}]
  <2>1. UNCHANGED stripe /\ CancelScope(k) # {} /\ cancel' = [cancel EXCEPT ![k] = c]
    BY <1>4 DEF BeginCancel, stripeVars
  <2>2. c.pc = "stripe" /\ c.customers = CancelScope(k)
    OBVIOUS
  <2> HIDE DEF c
  <2>3. cancel'[k] = c /\ \A j \in Keys \ {k} : cancel'[j] = cancel[j]
    BY <1>t, <2>1
  <2>4. \A s \in Subs : Live(s)' <=> Live(s)
    BY <2>1 DEF Live
  <2>5. Keeps(k)
    BY <1>s, <2>1, <2>2, <2>3, <2>4, ScopeIsWhole
  <2>6. \A j \in Keys \ {k} : Keeps(j)
    BY <1>o, <1>s, <2>3, <2>4
  <2> QED
    BY <1>k, <2>5, <2>6
<1>5. ASSUME NEW k \in Keys, UNCHANGED stripe, cancel' = [cancel EXCEPT ![k] = NoCancel]
      PROVE  CancelInv'
  <2>1. cancel'[k].pc = "idle" /\ \A j \in Keys \ {k} : cancel'[j] = cancel[j]
    BY <1>t, <1>5 DEF NoCancel
  <2>2. \A s \in Subs : Live(s)' <=> Live(s)
    BY <1>5 DEF Live
  <2>3. Keeps(k)
    BY <2>1
  <2>4. \A j \in Keys \ {k} : Keeps(j)
    BY <1>o, <1>s, <2>1, <2>2
  <2> QED
    BY <1>k, <2>3, <2>4
<1>6. ASSUME NEW k \in Keys, NEW c \in Customers, ListCustomer(k, c), cancel[k].pc # "freed"
      PROVE  CancelInv'
  <2> DEFINE live == {s \in Subs : CustomerOf[s] = c /\ Live(s)}
             d == [cancel[k] EXCEPT !.customers = cancel[k].customers \ {c}, !.todo = live]
  <2>1. UNCHANGED stripe /\ cancel[k].todo = {} /\ cancel' = [cancel EXCEPT ![k] = d]
    BY <1>6 DEF ListCustomer, stripeVars
  <2>2. d.pc = cancel[k].pc /\ d.customers = cancel[k].customers \ {c} /\ d.todo = live
    BY <1>t DEF Cancellations
  <2> HIDE DEF d
  <2>3. cancel'[k] = d /\ \A j \in Keys \ {k} : cancel'[j] = cancel[j]
    BY <1>t, <2>1
  <2>4. \A s \in Subs : Live(s)' <=> Live(s)
    BY <2>1 DEF Live
  <2>5. \A s \in SubsOf(k) : cancel[k].pc # "idle" /\ Live(s) => CustomerOf[s] \in d.customers \/ s \in d.todo
    BY <1>s, <2>1, <2>2 DEF CancelInv
  <2>6. Keeps(k)
    BY <1>6, <1>s, <2>2, <2>3, <2>4, <2>5
  <2>7. \A j \in Keys \ {k} : Keeps(j)
    BY <1>o, <1>s, <2>3, <2>4
  <2> QED
    BY <1>k, <2>6, <2>7
<1>7. ASSUME NEW k \in Keys, NEW c \in Customers, ListCustomer(k, c) PROVE cancel[k].pc # "freed"
  BY <1>7 DEF ListCustomer, CancelInv
<1>8. ASSUME NEW k \in Keys, NEW s \in Subs, CancelOne(k, s) PROVE CancelInv'
  <2> DEFINE d == [cancel[k] EXCEPT !.todo = cancel[k].todo \ {s}]
  <2>1. cancel' = [cancel EXCEPT ![k] = d] /\ s \in cancel[k].todo
    BY <1>8 DEF CancelOne
  <2>2. d.pc = cancel[k].pc /\ d.customers = cancel[k].customers /\ d.todo = cancel[k].todo \ {s}
    BY <1>t DEF Cancellations
  <2> HIDE DEF d
  <2>3. cancel'[k] = d /\ \A j \in Keys \ {k} : cancel'[j] = cancel[j]
    BY <1>t, <2>1
  <2>4. ~Live(s)' /\ \A u \in Subs \ {s} : Live(u)' <=> Live(u)
    BY <1>8, <1>t DEF CancelOne, Becomes, Live
  <2>5. Keeps(k)
    BY <1>s, <2>2, <2>3, <2>4 DEF CancelInv
  <2>6. \A j \in Keys \ {k} : Keeps(j)
    BY <1>o, <1>s, <2>3, <2>4
  <2> QED
    BY <1>k, <2>5, <2>6
<1>9. ASSUME NEW k \in Keys, FreeTier(k) PROVE CancelInv'
  <2>1. /\ UNCHANGED stripe /\ cancel[k].pc # "idle"
        /\ cancel[k].customers = {} /\ cancel[k].todo = {}
    BY <1>9 DEF FreeTier, stripeVars
  <2>2. /\ cancel'[k].customers = {} /\ cancel'[k].todo = {}
        /\ \A j \in Keys \ {k} : cancel'[j] = cancel[j]
    BY <1>9, <1>t, <2>1 DEF FreeTier, Cancellations
  <2>3. \A s \in Subs : Live(s)' <=> Live(s)
    BY <2>1 DEF Live
  <2>4. Keeps(k)
    BY <1>s, <2>1, <2>2, <2>3 DEF CancelInv
  <2>5. \A j \in Keys \ {k} : Keeps(j)
    BY <1>o, <1>s, <2>2, <2>3
  <2> QED
    BY <1>k, <2>4, <2>5
<1>10. ASSUME NEW s \in Subs, Notify(s) PROVE CancelInv'
  BY <1>1, <1>10 DEF Notify, cancelVars
<1>11. ASSUME NEW e \in processed \cup owed, Redeliver(e) \/ Duplicate(e) PROVE CancelInv'
  BY <1>1, <1>11 DEF Redeliver, Duplicate, cancelVars
<1>12. ASSUME NEW w \in Workers, NEW e \in owed, Begin(w, e) PROVE CancelInv'
  BY <1>1, <1>12 DEF Begin, stripeVars, cancelVars
<1>13. ASSUME NEW w \in Workers, Work(w) \/ RollBack(w) PROVE CancelInv'
  BY <1>1, <1>13
  DEF Work, Retrieve, Upsert, Decide, SetTier, Commit, RollBack, stripeVars, cancelVars
<1>14. ASSUME NEW k \in Keys, CommitCancel(k) \/ CancelFails(k) PROVE CancelInv'
  BY <1>5, <1>14 DEF CommitCancel, CancelFails, stripeVars
<1>15. ASSUME NEW w \in Workers, NEW k \in Keys, BreakDeadlock(w, k) PROVE CancelInv'
  BY <1>5, <1>13, <1>15 DEF BreakDeadlock, stripeVars
<1>16. CASE UNCHANGED vars
  BY <1>1, <1>16 DEF vars, stripeVars, cancelVars
<1> QED
  BY <1>2, <1>3, <1>4, <1>6, <1>7, <1>8, <1>9, <1>10, <1>11, <1>12, <1>13, <1>14, <1>15, <1>16
  DEF Next, StripeStep, Receive, Cancellation, Abort

\* When every event has been answered and nothing is under way, the tier of each
\* account is what its subscriptions at Stripe say (Billing!Settled), provided
\* that the account has one customer there and that no checkout completes while
\* its cancellation runs.  Both are needed: handlers of two customers decide from
\* rows that the other has not committed, and a subscription opened after the
\* listing is still paid for when the closing transaction frees the account.
THEOREM SettledAgrees == OneCustomerEach /\ ~OpenDuringCancel => (Spec => []Settled)
<1> SUFFICES ASSUME OneCustomerEach, ~OpenDuringCancel PROVE Spec => []Settled
  OBVIOUS
<1> DEFINE TruthInv == HeldInv /\ RowInv /\ TierInv /\ CancelInv
<1>1. Init => TruthInv
  <2> SUFFICES ASSUME Init PROVE TruthInv
    OBVIOUS
  <2>1. \A w \in Workers : worker[w].pc = "idle"
    BY DEF Init, IdleWorker
  <2>2. \A s \in Subs : ~table[s].qualifies /\ stripe[s].status = "none"
    BY DEF Init, NoRow
  <2>3. \A k \in Keys : tier[k] = "free" /\ cancel[k].pc = "idle"
    BY DEF Init, NoCancel
  <2>4. \A k \in Keys : Agreed(k)
    BY <2>2, <2>3 DEF Agreed, TierFor, SubsOf
  <2> QED
    BY <2>1, <2>2, <2>3, <2>4
    DEF HeldInv, RowInv, TierInv, CancelInv, Working, Fetched, Serves, Entitled
<1>2. TypeOK /\ LockInv /\ TruthInv /\ [Next]_vars => TruthInv'
  BY HeldStep, RowStep, TierStep, CancelStep
<1>3. TruthInv => Settled
  <2> SUFFICES ASSUME TierInv, owed = {}, \A w \in Workers : ~Working(w), NEW k \in Keys
               PROVE  Agreed(k)
    BY DEF Settled
  <2>1. ~WaitingFor(k)
    BY DEF WaitingFor, Waiting
  <2>2. \A w \in Workers, s \in SubsOf(k) : ~Serves(w, s)
    BY DEF Serves
  <2> QED
    BY <2>1, <2>2 DEF TierInv
<1> QED
  BY <1>1, <1>2, <1>3, TypeCorrect, CustomerLockHolds, PTL DEF Spec

=============================================================================
