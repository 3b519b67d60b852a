------------------------------ MODULE Billing ------------------------------
(***************************************************************************)
(* The Pro entitlement of an account (python/billing.py and the Stripe     *)
(* endpoints of python/api.py) against the subscriptions at Stripe.        *)
(*                                                                         *)
(* Stripe changes subscriptions on its own and delivers an event for each  *)
(* change, again and again until it gets a 2xx answer, in any order.       *)
(* Handler threads process deliveries in READ COMMITTED transactions, one  *)
(* statement a step; a transaction's writes are invisible, and its rows    *)
(* locked, until it commits.  Beside them the account owner may cancel     *)
(* everything: subscription by subscription at Stripe, and then in one     *)
(* transaction here.                                                       *)
(***************************************************************************)
EXTENDS Naturals, Sequences, FiniteSets

CONSTANTS
    Subs,             \* Stripe subscriptions that may be opened
    CustomerOf,       \* the Stripe customer of each subscription
    KeyOf,            \* the account key of each customer
    Workers,          \* handler threads
    OpenDuringCancel, \* whether a checkout may complete while a cancellation runs
    MaxEvents,        \* bound on the events Stripe creates
    MaxCancels,       \* bound on cancellation requests
    MaxFaults         \* bound on failed transactions and lost answers

Customers == {CustomerOf[s] : s \in Subs}
Keys == {KeyOf[c] : c \in Customers}
Owner(s) == KeyOf[CustomerOf[s]]
SubsOf(k) == {s \in Subs : Owner(s) = k}

ASSUME BoundsAssumption ==
    /\ MaxEvents \in Nat /\ MaxCancels \in Nat /\ MaxFaults \in Nat
    /\ OpenDuringCancel \in BOOLEAN

VARIABLES
    stripe,     \* [status, version] of each subscription at Stripe
    events,     \* the subscription of each event Stripe created
    owed,       \* events without a 2xx answer
    processed,  \* billing_events
    linked,     \* billing_customers
    table,      \* billing_subscriptions: whether a row qualifies, and (auxiliary)
                \* the version of the Stripe object it was written from
    tier,       \* api_keys.tier
    worker,     \* the open transaction of each handler
    cancel,     \* the cancellation each account has under way
    requests,   \* cancellation requests so far
    faults      \* failures so far

stripeVars == <<stripe, events, owed>>
dbVars == <<processed, linked, table, tier>>
cancelVars == <<cancel, requests>>
vars == <<stripeVars, dbVars, worker, cancelVars, faults>>

Statuses == {"none", "entitled", "lapsed", "canceled"}
Rows == [known : BOOLEAN, qualifies : BOOLEAN, asof : Nat]
Transactions ==
    [pc : {"idle", "locked", "retrieved", "upserted", "decided", "tiered"},
     event : Nat, row : Rows, pro : BOOLEAN]
Cancellations ==
    [pc : {"idle", "stripe", "freed"}, customers : SUBSET Customers, todo : SUBSET Subs]
NoRow == [known |-> FALSE, qualifies |-> FALSE, asof |-> 0]
NoCancel == [pc |-> "idle", customers |-> {}, todo |-> {}]
IdleWorker == [pc |-> "idle", event |-> 0, row |-> NoRow, pro |-> FALSE]

Init ==
    /\ stripe = [s \in Subs |-> [status |-> "none", version |-> 0]]
    /\ events = <<>> /\ owed = {} /\ processed = {} /\ linked = {}
    /\ table = [s \in Subs |-> NoRow]
    /\ tier = [k \in Keys |-> "free"]
    /\ worker = [w \in Workers |-> IdleWorker]
    /\ cancel = [k \in Keys |-> NoCancel]
    /\ requests = 0
    /\ faults = 0

Fault == faults < MaxFaults /\ faults' = faults + 1

-----------------------------------------------------------------------------
(* Stripe *)

Emit(s) ==
    /\ Len(events) < MaxEvents
    /\ events' = Append(events, s)
    /\ owed' = owed \cup {Len(events) + 1}

Becomes(s, status) ==
    /\ stripe' = [stripe EXCEPT ![s] = [status |-> status, version |-> @.version + 1]]
    /\ Emit(s)

\* A completed checkout.
Open(s) ==
    /\ stripe[s].status = "none"
    /\ OpenDuringCancel \/ cancel[Owner(s)].pc = "idle"
    /\ Becomes(s, "entitled")
    /\ UNCHANGED <<dbVars, worker, cancelVars, faults>>

\* A failed or recovered payment, the end of a period.
Change(s) ==
    /\ \/ stripe[s].status = "entitled" /\ \E to \in {"lapsed", "canceled"} : Becomes(s, to)
       \/ stripe[s].status = "lapsed" /\ \E to \in {"entitled", "canceled"} : Becomes(s, to)
    /\ UNCHANGED <<dbVars, worker, cancelVars, faults>>

\* An event about an unchanged subscription: the other event kinds of one
\* change, and the reconciliation checkout_status makes up.
Notify(s) ==
    /\ stripe[s].status # "none"
    /\ Emit(s)
    /\ UNCHANGED <<stripe, dbVars, worker, cancelVars, faults>>

\* The 2xx answer is lost: the event is delivered again.
Redeliver(e) ==
    /\ Fault
    /\ e \in processed /\ owed' = owed \cup {e}
    /\ UNCHANGED <<stripe, events, dbVars, worker, cancelVars>>

-----------------------------------------------------------------------------
(* process_event *)

Sub(w) == events[worker[w].event]

Working(w) == worker[w].pc # "idle"

\* Seeded fault: the lock is taken on the event, not on its customer.
LockEvent(e) == \A w \in Workers : Working(w) => worker[w].event # e

CustomerLockFree(e) ==
    \A w \in Workers : Working(w) => CustomerOf[Sub(w)] # CustomerOf[events[e]]

Begin(w, e) ==
    /\ ~Working(w)
    /\ e \in owed \ processed /\ CustomerLockFree(e)
    /\ worker' = [worker EXCEPT ![w] = [IdleWorker EXCEPT !.pc = "locked", !.event = e]]
    /\ UNCHANGED <<stripeVars, dbVars, cancelVars, faults>>

\* An event already recorded: nothing to do, and a 2xx answer.
Duplicate(e) ==
    /\ e \in owed \cap processed /\ CustomerLockFree(e)
    /\ owed' = owed \ {e}
    /\ UNCHANGED <<stripe, events, dbVars, worker, cancelVars, faults>>

\* The subscription is fetched under the lock, whatever the event says of it.
Retrieve(w) ==
    /\ worker[w].pc = "locked"
    /\ LET now == stripe[Sub(w)]
       IN  worker' = [worker EXCEPT ![w] = [@ EXCEPT !.pc = "retrieved",
               !.row = [known |-> TRUE, qualifies |-> now.status = "entitled",
                        asof |-> now.version]]]
    /\ UNCHANGED <<stripeVars, dbVars, cancelVars, faults>>

\* The subscription row, and the customer row if there was none.
Upsert(w) ==
    /\ worker[w].pc = "retrieved"
    /\ worker' = [worker EXCEPT ![w].pc = "upserted"]
    /\ UNCHANGED <<stripeVars, dbVars, cancelVars, faults>>

\* Seeded fault: the other subscriptions of the account are forgotten.
ThisOneOnly(w) == worker[w].row.qualifies

\* The EXISTS query: committed rows, and the transaction's own.
Pro(w) ==
    \/ worker[w].row.qualifies
    \/ \E s \in SubsOf(Owner(Sub(w))) \ {Sub(w)} : table[s].qualifies

Decide(w) ==
    /\ worker[w].pc = "upserted"
    /\ worker' = [worker EXCEPT ![w] = [@ EXCEPT !.pc = "decided", !.pro = Pro(w)]]
    /\ UNCHANGED <<stripeVars, dbVars, cancelVars, faults>>

KeyRowFree(k) ==
    /\ cancel[k].pc # "freed"
    /\ \A w \in Workers : worker[w].pc = "tiered" => Owner(Sub(w)) # k

SetTier(w) ==
    /\ worker[w].pc = "decided" /\ KeyRowFree(Owner(Sub(w)))
    /\ worker' = [worker EXCEPT ![w].pc = "tiered"]
    /\ UNCHANGED <<stripeVars, dbVars, cancelVars, faults>>

TierFor(pro) == IF pro THEN "pro" ELSE "free"

Commit(w) ==
    /\ worker[w].pc = "tiered"
    /\ table' = [table EXCEPT ![Sub(w)] = worker[w].row]
    /\ linked' = linked \cup {CustomerOf[Sub(w)]}
    /\ tier' = [tier EXCEPT ![Owner(Sub(w))] = TierFor(worker[w].pro)]
    /\ processed' = processed \cup {worker[w].event}
    /\ owed' = owed \ {worker[w].event}
    /\ worker' = [worker EXCEPT ![w] = IdleWorker]
    /\ UNCHANGED <<stripe, events, cancelVars, faults>>

\* Seeded fault: a failure is answered with a 2xx.
AnswerAnyway(e) == owed \ {e}

\* A failure is answered with a 503, and Stripe still owes the event.
AfterFailure(e) == owed

RollBack(w) ==
    /\ worker' = [worker EXCEPT ![w] = IdleWorker]
    /\ owed' = AfterFailure(worker[w].event)
    /\ UNCHANGED <<stripe, events, dbVars, cancelVars>>

Abort(w) == Working(w) /\ Fault /\ RollBack(w)

-----------------------------------------------------------------------------
(* cancel_subscription, immediate *)

Live(s) == stripe[s].status \in {"entitled", "lapsed"}

\* The customers on file for the account, or else the only one Stripe has under
\* its email.
CancelScope(k) ==
    LET known == {c \in linked : KeyOf[c] = k}
        there == {CustomerOf[s] : s \in {t \in SubsOf(k) : stripe[t].status # "none"}}
    IN  IF known # {} \/ Cardinality(there) # 1 THEN known ELSE there

BeginCancel(k) ==
    /\ requests < MaxCancels /\ requests' = requests + 1
    /\ cancel[k].pc = "idle" /\ CancelScope(k) # {}
    /\ cancel' = [cancel EXCEPT ![k] =
           [pc |-> "stripe", customers |-> CancelScope(k), todo |-> {}]]
    /\ UNCHANGED <<stripeVars, dbVars, worker, faults>>

\* The subscriptions of a customer are listed once.
ListCustomer(k, c) ==
    /\ cancel[k].todo = {} /\ c \in cancel[k].customers
    /\ cancel' = [cancel EXCEPT ![k] =
           [@ EXCEPT !.customers = cancel[k].customers \ {c},
                     !.todo = {s \in Subs : CustomerOf[s] = c /\ Live(s)}]]
    /\ UNCHANGED <<stripeVars, dbVars, worker, requests, faults>>

CancelOne(k, s) ==
    /\ s \in cancel[k].todo /\ Live(s)
    /\ Becomes(s, "canceled")
    /\ cancel' = [cancel EXCEPT ![k].todo = cancel[k].todo \ {s}]
    /\ UNCHANGED <<dbVars, worker, requests, faults>>

\* UPDATE api_keys: the first statement of the closing transaction.
FreeTier(k) ==
    /\ cancel[k].pc = "stripe" /\ cancel[k].customers = {} /\ cancel[k].todo = {}
    /\ KeyRowFree(k)
    /\ cancel' = [cancel EXCEPT ![k].pc = "freed"]
    /\ UNCHANGED <<stripeVars, dbVars, worker, requests, faults>>

\* A row the worker has updated is locked; one it has inserted is invisible.
Locks(w, s) ==
    worker[w].pc \in {"upserted", "decided", "tiered"} /\ Sub(w) = s /\ table[s].known

\* UPDATE billing_subscriptions, and the commit.
CommitCancel(k) ==
    /\ cancel[k].pc = "freed"
    /\ \A w \in Workers, s \in SubsOf(k) : ~Locks(w, s)
    /\ tier' = [tier EXCEPT ![k] = "free"]
    /\ table' = [s \in Subs |->
           IF s \in SubsOf(k) /\ table[s].known
           THEN [table[s] EXCEPT !.qualifies = FALSE] ELSE table[s]]
    /\ cancel' = [cancel EXCEPT ![k] = NoCancel]
    /\ UNCHANGED <<stripeVars, processed, linked, worker, requests, faults>>

\* Stripe does not answer, or refuses a subscription that ended meanwhile; or the
\* database fails.
CancelFails(k) ==
    /\ cancel[k].pc # "idle"
    /\ Fault \/ (UNCHANGED faults /\ \E s \in cancel[k].todo : ~Live(s))
    /\ cancel' = [cancel EXCEPT ![k] = NoCancel]
    /\ UNCHANGED <<stripeVars, dbVars, worker, requests>>

\* A handler and the cancellation wait for each other: PostgreSQL ends one.
BreakDeadlock(w, k) ==
    /\ cancel[k].pc = "freed" /\ worker[w].pc = "decided"
    /\ \E s \in SubsOf(k) : Locks(w, s)
    /\ \/ RollBack(w) /\ UNCHANGED faults
       \/ /\ cancel' = [cancel EXCEPT ![k] = NoCancel]
          /\ UNCHANGED <<stripeVars, dbVars, worker, requests, faults>>

-----------------------------------------------------------------------------

StripeStep ==
    \/ \E s \in Subs : Open(s) \/ Change(s) \/ Notify(s)
    \/ \E e \in processed : Redeliver(e)

Receive == \E e \in owed : Duplicate(e) \/ \E w \in Workers : Begin(w, e)

Work(w) == Retrieve(w) \/ Upsert(w) \/ Decide(w) \/ SetTier(w) \/ Commit(w)

Cancellation(k) ==
    \/ \E c \in Customers : ListCustomer(k, c)
    \/ \E s \in Subs : CancelOne(k, s)
    \/ FreeTier(k) \/ CommitCancel(k)

Next ==
    \/ StripeStep
    \/ Receive
    \/ \E w \in Workers : Work(w) \/ Abort(w)
    \/ \E k \in Keys : BeginCancel(k) \/ Cancellation(k) \/ CancelFails(k)
    \/ \E w \in Workers, k \in Keys : BreakDeadlock(w, k)

Spec == Init /\ [][Next]_vars

\* Stripe keeps delivering what it is owed, threads go on, the database ends every
\* deadlock, and who waits for a row gets it in turn.
FairSpec ==
    /\ Spec
    /\ WF_vars(Receive)
    /\ \A w \in Workers : WF_vars(Work(w))
    /\ \A k \in Keys : SF_vars(Cancellation(k))
    /\ WF_vars(\E w \in Workers, k \in Keys : BreakDeadlock(w, k))

-----------------------------------------------------------------------------
(* Properties *)

TypeOK ==
    /\ stripe \in [Subs -> [status : Statuses, version : Nat]]
    /\ events \in Seq(Subs)
    /\ owed \subseteq 1 .. Len(events) /\ processed \subseteq 1 .. Len(events)
    /\ linked \subseteq Customers
    /\ table \in [Subs -> Rows]
    /\ tier \in [Keys -> {"free", "pro"}]
    /\ worker \in [Workers -> Transactions]
    /\ \A w \in Workers : Working(w) => worker[w].event \in 1 .. Len(events)
    /\ cancel \in [Keys -> Cancellations]
    /\ requests \in Nat
    /\ faults \in Nat

Agreed(k) == tier[k] = TierFor(\E s \in SubsOf(k) : stripe[s].status = "entitled")

\* When every event has been answered and no request is open, the tier of each
\* account is what its subscriptions at Stripe say: "out-of-order events
\* reconcile against Stripe's current subscription object" (the header of
\* billing.py).
Settled ==
    owed = {} /\ (\A w \in Workers : ~Working(w)) /\ (\A k \in Keys : cancel[k].pc = "idle")
        => \A k \in Keys : Agreed(k)

\* A subscription row is never overwritten from an older Stripe object:
\* "concurrent deliveries must not commit snapshots taken before another event"
\* (process_event).
NoStaleCommit ==
    [][\A s \in Subs : table[s].asof <= table'[s].asof]_vars

\* Once Stripe has stopped changing, the tiers come to agree with it and stay so,
\* through failed deliveries, lost answers and deadlocks.
Converges == <>[](\A k \in Keys : Agreed(k))

=============================================================================
