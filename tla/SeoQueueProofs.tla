---------------------------- MODULE SeoQueueProofs ----------------------------
(***************************************************************************)
(* Types of SeoQueue, the quota and what the engines know, for any set of  *)
(* URLs, any limits and any number of publications and faults.             *)
(***************************************************************************)
EXTENDS SeoQueue, FiniteSetTheorems, TLAPS

LEMMA Constants ==
    /\ Urls \subseteq Nat /\ IsFiniteSet(Urls)
    /\ Limit \in Nat \ {0} /\ IndexNowLimit \in Nat \ {0} /\ MaxTries \in Nat \ {0}
    /\ CommitAtFetch \in BOOLEAN /\ MaxPublications \in Nat /\ MaxFaults \in Nat
BY UrlsAssumption, LimitsAssumption

LEMMA KeysFinite == IsFiniteSet(Keys)
<1>1. IsFiniteSet(1 .. MaxPublications)
  BY Constants, FS_Interval
<1> QED
  BY <1>1, Constants, FS_Product DEF Keys

LEMMA KeyParts ==
    ASSUME NEW k \in Keys
    PROVE  k = <<k[1], k[2]>> /\ k[1] \in Urls /\ k[2] \in Nat
<1>1. PICK u \in Urls, n \in 1 .. MaxPublications : k = <<u, n>>
  BY DEF Keys
<1>2. k[1] = u /\ k[2] = n
  BY <1>1
<1> QED
  BY <1>1, <1>2, Constants

\* Every subset of the rows is finite and has a size.
LEMMA Sizes ==
    ASSUME NEW S, S \subseteq Keys
    PROVE  IsFiniteSet(S) /\ Cardinality(S) \in Nat
BY KeysFinite, FS_Subset, FS_CardinalityType

LEMMA IdleTypes == NoRow \in Row /\ IdleSender \in Sender
BY DEF NoRow, Row, IdleSender, Sender

-----------------------------------------------------------------------------
(* Types *)

LEMMA WithoutType ==
    ASSUME NEW q \in [Keys -> Row], NEW K
    PROVE  Without(q, K) \in [Keys -> Row]
BY IdleTypes DEF Without

\* A step of one sender leaves the others alone.
LEMMA SenderType ==
    ASSUME TypeOK, NEW s \in Senders, NEW new \in Sender,
           sender' = [sender EXCEPT ![s] = new]
    PROVE  sender' \in [Senders -> Sender]
BY DEF TypeOK

LEMMA DueType ==
    ASSUME TypeOK, NEW s \in Senders
    PROVE  Ended(s) \in 0 .. 2 /\ (MayStart(s) /\ s = "nightly" => due - 1 \in 0 .. 2)
BY DEF TypeOK, Ended, MayStart

LEMMA FaultType == ASSUME TypeOK, faults < MaxFaults, faults' = faults + 1
                   PROVE  faults' \in 0 .. MaxFaults
BY Constants DEF TypeOK

LEMMA PublishType == ASSUME TypeOK, Publish PROVE TypeOK'
<1>1. PICK U \in SUBSET Urls : \E kind \in [U -> Kinds] :
         /\ U # {} => clock < MaxPublications
         /\ clock' = IF U = {} THEN clock ELSE clock + 1
         /\ queue' = Queued(U, kind)
         /\ word' = [u \in Urls |-> IF u \in U THEN kind[u] ELSE word[u]]
  BY DEF Publish
<1>2. PICK kind \in [U -> Kinds] :
         /\ queue' = Queued(U, kind)
         /\ word' = [u \in Urls |-> IF u \in U THEN kind[u] ELSE word[u]]
  BY <1>1
<1>3. clock' \in 0 .. MaxPublications
  BY <1>1, Constants DEF TypeOK
<1>4. word' \in [Urls -> Kinds \cup {"none"}]
  BY <1>2 DEF TypeOK
<1>5. queue' \in [Keys -> Row]
  <2>1. \A k \in Keys : k[1] \in U => [NoRow EXCEPT !.kind = kind[k[1]]] \in Row
    BY DEF NoRow, Row
  <2> QED
    BY <1>2, <2>1 DEF Queued, TypeOK
<1>6. indexnow' \in IndexNow /\ due' \in 0 .. 2
  <2>1. indexnow \in IndexNow /\ indexnow' = [indexnow EXCEPT !.pc = "ready", !.attempt = 1]
    BY DEF Publish, TypeOK
  <2>2. due' = 2
    BY DEF Publish
  <2>3. indexnow' \in IndexNow
    BY <2>1 DEF IndexNow
  <2> QED
    BY <2>2, <2>3
<1> QED
  BY <1>3, <1>4, <1>5, <1>6 DEF Publish, TypeOK

LEMMA StartType == ASSUME TypeOK, NEW s \in Senders, Start(s) PROVE TypeOK'
<1> DEFINE used == Cardinality(SentToday)
           left == IF used < Limit THEN Limit - used ELSE 0
           new == [IdleSender EXCEPT !.pc = "counted", !.remaining = left]
<1>1. left \in Nat
  <2>1. used \in Nat
    BY Sizes DEF SentToday, Rows
  <2> HIDE DEF used
  <2> QED
    BY <2>1, Constants
<1>3. sender' = [sender EXCEPT ![s] = new]
  BY DEF Start
<1> HIDE DEF left
<1>2. new \in Sender
  BY <1>1, IdleTypes DEF Sender
<1> HIDE DEF new
<1>4. sender' \in [Senders -> Sender]
  BY <1>2, <1>3, SenderType
<1>5. due' \in 0 .. 2
  BY DueType DEF Start, TypeOK
<1> QED
  BY <1>4, <1>5 DEF Start, TypeOK

LEMMA CompactType == ASSUME TypeOK, NEW s \in Senders, Compact(s) PROVE TypeOK'
<1> DEFINE new == [sender[s] EXCEPT !.pc = "compacted", !.deleted = GoogleStale]
<1>1. new \in Sender
  BY DEF TypeOK, Sender, GoogleStale, Rows
<1>2. sender' = [sender EXCEPT ![s] = new]
  BY DEF Compact
<1> HIDE DEF new
<1>3. sender' \in [Senders -> Sender]
  BY <1>1, <1>2, SenderType
<1> QED
  BY <1>3 DEF Compact, TypeOK

\* What a fetch puts on the list of work.
Fetches(s, all, n) ==
    /\ all \in Ordered(Pending(s))
    /\ n \in 0 .. sender[s].remaining
    /\ n <= Cardinality(Pending(s))
    /\ sender' = [sender EXCEPT ![s] = [sender[s] EXCEPT !.pc = "sending",
           !.todo = [i \in 1 .. n |-> [key |-> all[i], kind |-> queue[all[i]].kind]]]]

LEMMA FetchPicks ==
    ASSUME TypeOK, NEW s \in Senders, Fetch(s)
    PROVE  \E all \in Ordered(Pending(s)) : \E n \in Nat : Fetches(s, all, n)
<1>1. sender[s].remaining \in Nat
  BY DEF TypeOK, Sender
<1>2. \A n \in 0 .. sender[s].remaining : n \in Nat
  BY <1>1
<1> QED
  BY <1>2 DEF Fetch, Fetches

LEMMA FetchedItems ==
    ASSUME TypeOK, NEW s \in Senders, NEW all, NEW n \in Nat, Fetches(s, all, n)
    PROVE  \A i \in 1 .. n : all[i] \in Pending(s) /\ queue[all[i]].kind \in Kinds
<1>1. Cardinality(Pending(s)) \in Nat
  BY Sizes DEF Pending, Rows
<1>2. \A i \in 1 .. n : i \in 1 .. Cardinality(Pending(s))
  BY <1>1 DEF Fetches
<1>3. all \in [1 .. Cardinality(Pending(s)) -> Pending(s)]
  BY DEF Fetches, Ordered
<1>4. \A k \in Pending(s) : queue[k].kind \in Kinds
  BY DEF TypeOK, Pending, Rows, Row
<1> QED
  BY <1>2, <1>3, <1>4

LEMMA FetchType == ASSUME TypeOK, NEW s \in Senders, Fetch(s) PROVE TypeOK'
<1>1. PICK all \in Ordered(Pending(s)), n \in Nat : Fetches(s, all, n)
  BY FetchPicks
<1> DEFINE todo == [i \in 1 .. n |-> [key |-> all[i], kind |-> queue[all[i]].kind]]
           new == [sender[s] EXCEPT !.pc = "sending", !.todo = todo]
<1>2. todo \in Seq(Item)
  <2>1. \A i \in 1 .. n : todo[i] \in Item
    BY <1>1, FetchedItems DEF Item, Pending, Rows
  <2> QED
    BY <2>1
<1>3. sender' = [sender EXCEPT ![s] = new]
  BY <1>1 DEF Fetches
<1> HIDE DEF todo
<1>4. new \in Sender
  BY <1>2 DEF TypeOK, Sender
<1> HIDE DEF new
<1>5. sender' \in [Senders -> Sender]
  BY <1>3, <1>4, SenderType
<1> QED
  BY <1>5 DEF Fetch, TypeOK

LEMMA PostType == ASSUME TypeOK, NEW s \in Senders, Post(s) PROVE TypeOK'
<1> DEFINE item == Head(sender[s].todo)
<1>1. sender[s] \in Sender /\ sender[s].todo \in Seq(Item) /\ sender[s].todo # <<>>
  BY DEF TypeOK, Sender, Post
<1>2. item \in Item
  BY <1>1
<1> HIDE DEF item
<1>3. PICK answer \in {"ok", "error", "quota"}, done \in BOOLEAN :
         /\ IF answer = "ok" THEN UNCHANGED faults
            ELSE faults < MaxFaults /\ faults' = faults + 1
         /\ told' = IF done THEN [told EXCEPT !["google"][item.key[1]] = item.kind] ELSE told
         /\ sender' = [sender EXCEPT ![s] = [@ EXCEPT !.pc = "answered", !.answer = answer]]
  BY DEF Post, item
<1>4. faults' \in 0 .. MaxFaults
  BY <1>3, FaultType DEF TypeOK
<1>5. told' \in [{"google", "indexnow"} -> [Urls -> Kinds \cup {"none"}]]
  <2>1. item.kind \in Kinds
    BY <1>2 DEF Item
  <2>2. told["google"] \in [Urls -> Kinds \cup {"none"}]
    BY DEF TypeOK
  <2>3. [told["google"] EXCEPT ![item.key[1]] = item.kind] \in [Urls -> Kinds \cup {"none"}]
    BY <2>1, <2>2
  <2> QED
    BY <1>3, <2>3 DEF TypeOK
<1>6. sender' \in [Senders -> Sender]
  <2>1. [sender[s] EXCEPT !.pc = "answered", !.answer = answer] \in Sender
    BY <1>1 DEF Sender
  <2> QED
    BY <1>3, <2>1 DEF TypeOK
<1> QED
  BY <1>4, <1>5, <1>6 DEF Post, TypeOK

LEMMA AnsweredType ==
    ASSUME NEW row \in Row, NEW s PROVE Answered(row, s) \in Row
<1>1. Stamp(s) \in {"no", "today", "earlier"}
  BY DEF Stamp
<1>2. row.tries + 1 \in Nat
  BY DEF Row
<1>3. [row EXCEPT !.sent = Stamp(s), !.tries = @ + 1] \in Row
  BY <1>1, <1>2 DEF Row
<1>4. [row EXCEPT !.tries = @ + 1] \in Row
  BY <1>2 DEF Row
<1> QED
  BY <1>3, <1>4 DEF Answered

LEMMA OnwardType ==
    ASSUME NEW c \in Sender, c.todo # <<>> PROVE Onward(c) \in Sender
<1> DEFINE rest == Tail(c.todo)
<1>1. rest \in Seq(Item)
  BY DEF Sender
<1> HIDE DEF rest
<1>2. [c EXCEPT !.pc = "sending", !.todo = rest, !.deleted = {}, !.now = "next",
                !.answer = "none"] \in Sender
  BY <1>1 DEF Sender
<1> QED
  BY <1>2, IdleTypes DEF Onward, rest

LEMMA RecordType == ASSUME TypeOK, NEW s \in Senders, RecordAnswer(s) PROVE TypeOK'
<1> DEFINE k == Head(sender[s].todo).key
           q == [queue EXCEPT ![k] = IF k \in Rows THEN Answered(@, s) ELSE @]
           new == Onward(sender[s])
<1>1. sender[s] \in Sender
  BY DEF TypeOK
<1>2. queue' \in [Keys -> Row]
  <2>1. \A x \in Keys : Answered(queue[x], s) \in Row
    BY AnsweredType DEF TypeOK
  <2>2. q \in [Keys -> Row]
    BY <2>1 DEF TypeOK
  <2>3. queue' = Without(q, sender[s].deleted)
    BY DEF RecordAnswer
  <2> HIDE DEF q
  <2> QED
    BY <2>2, <2>3, WithoutType
<1>3. new \in Sender
  BY <1>1, OnwardType DEF RecordAnswer
<1>4. sender' = [sender EXCEPT ![s] = new]
  BY DEF RecordAnswer
<1> HIDE DEF new
<1>5. sender' \in [Senders -> Sender]
  BY <1>3, <1>4, SenderType
<1>6. due' \in 0 .. 2 /\ stamped' \in Nat
  BY DueType DEF RecordAnswer, TypeOK
<1> QED
  BY <1>2, <1>5, <1>6 DEF RecordAnswer, TypeOK

LEMMA FinishType == ASSUME TypeOK, NEW s \in Senders, Finish(s) PROVE TypeOK'
<1>1. queue' \in [Keys -> Row]
  BY WithoutType DEF Finish, TypeOK
<1>2. sender' \in [Senders -> Sender]
  BY IdleTypes DEF Finish, TypeOK
<1>3. due' \in 0 .. 2
  BY DueType DEF Finish
<1> QED
  BY <1>1, <1>2, <1>3 DEF Finish, TypeOK

LEMMA OtherSenderTypes ==
    ASSUME TypeOK, NEW s \in Senders, Skip(s) \/ CrashSender(s) PROVE TypeOK'
<1>1. CASE Skip(s)
  BY <1>1, DueType DEF Skip, TypeOK
<1>2. CASE CrashSender(s)
  <2>1. sender' \in [Senders -> Sender]
    BY <1>2, IdleTypes DEF CrashSender, TypeOK
  <2>2. faults' \in 0 .. MaxFaults
    BY <1>2, FaultType DEF CrashSender
  <2> QED
    BY <1>2, <2>1, <2>2 DEF CrashSender, TypeOK
<1> QED
  BY <1>1, <1>2

LEMMA CollectType == ASSUME TypeOK, Collect PROVE TypeOK'
<1> DEFINE batch == {u \in Unsubmitted : Cardinality({v \in Unsubmitted : v < u}) < IndexNowLimit}
<1>1. batch \subseteq Urls
  BY KeyParts DEF Unsubmitted, Rows
<1>2. IndexNowStale \subseteq Keys
  BY DEF IndexNowStale, Rows
<1>3. indexnow' = [indexnow EXCEPT !.pc = "collected", !.deleted = IndexNowStale, !.batch = batch]
  BY DEF Collect
<1> HIDE DEF batch
<1>4. indexnow' \in IndexNow
  BY <1>1, <1>2, <1>3 DEF TypeOK, IndexNow
<1> QED
  BY <1>4 DEF Collect, TypeOK

LEMMA SubmitType == ASSUME TypeOK, Submit PROVE TypeOK'
<1>1. indexnow' \in IndexNow
  BY DEF Submit, TypeOK, IndexNow
<1>2. told' \in [{"google", "indexnow"} -> [Urls -> Kinds \cup {"none"}]]
  <2> DEFINE new == [u \in Urls |-> IF u \in indexnow.batch THEN word[u] ELSE told["indexnow"][u]]
  <2>1. new \in [Urls -> Kinds \cup {"none"}]
    BY DEF TypeOK
  <2>2. told' = [told EXCEPT !["indexnow"] = new]
    BY DEF Submit
  <2> HIDE DEF new
  <2> QED
    BY <2>1, <2>2 DEF TypeOK
<1> QED
  BY <1>1, <1>2 DEF Submit, TypeOK

LEMMA MarkType == ASSUME TypeOK, Mark PROVE TypeOK'
<1> DEFINE q == [k \in Keys |-> IF k \in Marked THEN [queue[k] EXCEPT !.indexnow = TRUE] ELSE queue[k]]
<1>1. q \in [Keys -> Row]
  BY DEF TypeOK, Row
<1>2. queue' = Without(q, indexnow.deleted)
  BY DEF Mark
<1> HIDE DEF q
<1>3. queue' \in [Keys -> Row]
  BY <1>1, <1>2, WithoutType
<1>4. indexnow' \in IndexNow
  BY DEF Mark, TypeOK, IndexNow
<1>5. forgotten' \in Nat
  <2>1. Cardinality(SentToday \cap indexnow.deleted) \in Nat
    BY Sizes DEF SentToday, Rows
  <2> QED
    BY <2>1 DEF Mark, TypeOK
<1> QED
  BY <1>3, <1>4, <1>5 DEF Mark, TypeOK

LEMMA RejectType == ASSUME TypeOK, Reject PROVE TypeOK'
<1>1. faults' \in 0 .. MaxFaults
  BY FaultType DEF Reject, TypeOK
<1>2. indexnow' \in IndexNow
  BY DEF Reject, IndexNow
<1> QED
  BY <1>1, <1>2 DEF Reject, TypeOK

LEMMA NewDayType == ASSUME TypeOK, NewDay PROVE TypeOK'
<1>1. queue' \in [Keys -> Row]
  BY DEF NewDay, TypeOK, Row
<1>2. sender' \in [Senders -> Sender]
  <2>1. \A s \in Senders : [sender[s] EXCEPT !.now = "earlier"] \in Sender
    BY DEF TypeOK, Sender
  <2> QED
    BY <2>1 DEF NewDay, TypeOK
<1> QED
  BY <1>1, <1>2 DEF NewDay, TypeOK

LEMMA TypeStart == Init => TypeOK
<1>1. SUFFICES ASSUME Init PROVE TypeOK
  OBVIOUS
<1>2. [pc |-> "done", attempt |-> 1, batch |-> {}, deleted |-> {}] \in IndexNow
  BY DEF IndexNow
<1>3. 0 \in 0 .. MaxPublications /\ 0 \in 0 .. MaxFaults /\ 0 \in 0 .. 2
  BY Constants
<1> QED
  BY <1>1, <1>2, <1>3, IdleTypes DEF Init, TypeOK

LEMMA TypeStep == TypeOK /\ [Next]_vars => TypeOK'
<1>1. SUFFICES ASSUME TypeOK, [Next]_vars PROVE TypeOK'
  OBVIOUS
<1>2. CASE UNCHANGED vars
  BY <1>1, <1>2 DEF vars, TypeOK
<1>3. CASE Publish
  BY <1>1, <1>3, PublishType
<1>4. ASSUME NEW s \in Senders, SenderStep(s) \/ CrashSender(s) PROVE TypeOK'
  BY <1>1, <1>4, StartType, CompactType, FetchType, PostType, RecordType, FinishType, OtherSenderTypes
     DEF SenderStep
<1>5. CASE IndexNowStep
  BY <1>1, <1>5, CollectType, SubmitType, MarkType DEF IndexNowStep
<1>6. CASE Reject
  BY <1>1, <1>6, RejectType
<1>7. CASE NewDay
  BY <1>1, <1>7, NewDayType
<1> QED
  BY <1>1, <1>2, <1>3, <1>4, <1>5, <1>6, <1>7 DEF Next

\* The table, both senders and the bookkeeping keep their types for any URLs,
\* limits, publications and faults (seo_indexing_queue and its three readers).
THEOREM TypeCorrect == Spec => []TypeOK
BY TypeStart, TypeStep, PTL DEF Spec

-----------------------------------------------------------------------------
(* The quota *)

\* The rows of a table that are stamped today; what a sender may still stamp.
Today(q) == {k \in Keys : q[k].kind # "none" /\ q[k].sent = "today"}
Claim(c) == IF c.pc \in {"counted", "compacted"} THEN c.remaining ELSE Len(c.todo)

\* The work of sender c fits the table q after t publications: its list holds
\* different rows, none of them sent or deleted by it, and today's stamps leave
\* room for all of it.
Fits(c, q, t) ==
    /\ c.pc \in {"idle", "counted", "compacted"} => c.todo = <<>>
    /\ c.pc = "idle" => c.deleted = {}
    /\ \A i \in 1 .. Len(c.todo) :
          /\ c.todo[i].key[2] <= t /\ q[c.todo[i].key].sent = "no"
          /\ c.todo[i].key \notin c.deleted
          /\ \A j \in 1 .. Len(c.todo) : c.todo[i].key = c.todo[j].key => i = j
    /\ \A k \in c.deleted : k[2] <= t /\ q[k].sent = "no"
    /\ Cardinality(Today(q)) + Claim(c) <= Limit

Exclusive == \A s, other \in Senders :
    sender[s].pc # "idle" /\ sender[other].pc # "idle" => s = other

QuotaInv ==
    /\ Exclusive
    /\ \A s \in Senders : Fits(sender[s], queue, clock)
    /\ \A k \in Keys : clock < k[2] => queue[k] = NoRow
    /\ stamped <= Cardinality(Today(queue)) + forgotten

LEMMA TodaySize ==
    ASSUME NEW q PROVE Today(q) \subseteq Keys /\ Cardinality(Today(q)) \in Nat
BY Sizes DEF Today

LEMMA TodaySmaller ==
    ASSUME NEW p, NEW q, Today(p) \subseteq Today(q)
    PROVE  Cardinality(Today(p)) <= Cardinality(Today(q))
BY TodaySize, Sizes, FS_Subset

LEMMA ClaimSize == ASSUME NEW c \in Sender PROVE Claim(c) \in Nat
<1>1. Len(c.todo) \in Nat /\ c.remaining \in Nat
  BY DEF Sender
<1> QED
  BY <1>1 DEF Claim

LEMMA ListKeys ==
    ASSUME NEW c \in Sender
    PROVE  /\ c.deleted \subseteq Keys
           /\ \A i \in 1 .. Len(c.todo) : c.todo[i].key \in Keys
<1>1. \A i \in 1 .. Len(c.todo) : c.todo[i] \in Item
  BY DEF Sender
<1>2. \A item \in Item : item.key \in Keys
  BY DEF Item
<1> QED
  BY <1>1, <1>2 DEF Sender

\* A table that sends nothing more and stamps nothing more still fits.
LEMMA FitsKept ==
    ASSUME NEW c \in Sender, NEW p, NEW q, NEW t \in Nat, NEW u \in Nat, t <= u,
           Fits(c, p, t), Cardinality(Today(q)) <= Cardinality(Today(p)),
           \A k \in Keys : k[2] <= t /\ p[k].sent = "no" => q[k].sent = "no"
    PROVE  Fits(c, q, u)
<1>1. \A i \in 1 .. Len(c.todo) : c.todo[i].key \in Keys
  BY ListKeys
<1>2. c.deleted \subseteq Keys
  BY DEF Sender
<1>3. \A k \in Keys : k[2] <= t => k[2] <= u
  BY KeyParts
<1>4. Cardinality(Today(q)) + Claim(c) <= Limit
  BY TodaySize, ClaimSize, Constants DEF Fits
<1> QED
  BY <1>1, <1>2, <1>3, <1>4 DEF Fits

\* Where the table stays as it is, only the sender that moves can break it.
LEMMA SenderMoves ==
    ASSUME QuotaInv, NEW s \in Senders, NEW new \in Sender,
           sender \in [Senders -> Sender],
           sender' = [sender EXCEPT ![s] = new],
           UNCHANGED <<queue, clock, stamped, forgotten>>,
           Fits(new, queue, clock),
           new.pc = "idle" \/ sender[s].pc # "idle" \/ LockFree(s)
    PROVE  QuotaInv'
<1>1. \A other \in Senders : Fits(sender'[other], queue, clock)
  BY DEF QuotaInv
<1>2. Exclusive'
  BY DEF QuotaInv, Exclusive, LockFree
<1>3. queue' = queue /\ clock' = clock /\ stamped' = stamped /\ forgotten' = forgotten
  OBVIOUS
<1> QED
  BY <1>1, <1>2, <1>3 DEF QuotaInv

LEMMA IdleFits ==
    ASSUME TypeOK, QuotaInv PROVE Fits(IdleSender, queue, clock)
<1>1. Cardinality(Today(queue)) <= Limit
  <2>1. PICK s \in Senders : TRUE
    BY DEF Senders
  <2>2. Claim(sender[s]) \in Nat
    BY ClaimSize DEF TypeOK
  <2> QED
    BY <2>1, <2>2, TodaySize, Constants DEF QuotaInv, Fits
<1>2. Claim(IdleSender) = 0
  BY DEF Claim, IdleSender
<1>3. Len(IdleSender.todo) = 0 /\ IdleSender.deleted = {} /\ IdleSender.todo = <<>>
  BY DEF IdleSender
<1> QED
  BY <1>1, <1>2, <1>3, TodaySize, Constants DEF Fits

LEMMA StartQuota == ASSUME TypeOK, QuotaInv, NEW s \in Senders, Start(s) PROVE QuotaInv'
<1> DEFINE used == Cardinality(SentToday)
           left == IF used < Limit THEN Limit - used ELSE 0
           new == [IdleSender EXCEPT !.pc = "counted", !.remaining = left]
<1>1. used \in Nat /\ used = Cardinality(Today(queue))
  BY TodaySize DEF SentToday, Rows, Today
<1>2. used <= Limit
  BY <1>1, IdleFits, ClaimSize, IdleTypes, Constants DEF Fits
<1>3. sender' = [sender EXCEPT ![s] = new]
  BY DEF Start
<1> HIDE DEF used
<1>4. left \in Nat /\ used + left <= Limit
  BY <1>1, <1>2, Constants
<1> HIDE DEF left
<1>5. /\ new \in Sender /\ new.pc = "counted" /\ new.remaining = left
      /\ new.todo = <<>> /\ new.deleted = {}
  BY <1>4, IdleTypes DEF Sender, IdleSender
<1> HIDE DEF new
<1>6. Claim(new) = left
  BY <1>5 DEF Claim
<1>7. Fits(new, queue, clock)
  <2>1. Len(new.todo) = 0
    BY <1>5
  <2> QED
    BY <2>1, <1>1, <1>4, <1>5, <1>6 DEF Fits
<1> QED
  BY <1>3, <1>5, <1>7, SenderMoves DEF Start, TypeOK

\* Only rows nobody sent are deleted, and none of them is ahead of the clock.
LEMMA UnsentRows ==
    ASSUME QuotaInv, TypeOK, NEW k \in Rows, queue[k].sent = "no"
    PROVE  k \in Keys /\ k[2] <= clock
<1>1. k \in Keys /\ queue[k] # NoRow
  BY DEF Rows, NoRow
<1>2. k[2] \in Nat /\ clock \in Nat
  BY <1>1, KeyParts, Constants DEF TypeOK
<1> QED
  BY <1>1, <1>2 DEF QuotaInv

LEMMA CompactQuota == ASSUME TypeOK, QuotaInv, NEW s \in Senders, Compact(s) PROVE QuotaInv'
<1> DEFINE new == [sender[s] EXCEPT !.pc = "compacted", !.deleted = GoogleStale]
<1>1. GoogleStale \subseteq Keys /\ \A k \in GoogleStale : k[2] <= clock /\ queue[k].sent = "no"
  BY UnsentRows DEF GoogleStale, Rows
<1>2. new \in Sender /\ new.pc = "compacted" /\ new.deleted = GoogleStale
         /\ new.todo = sender[s].todo /\ new.remaining = sender[s].remaining
  BY <1>1 DEF TypeOK, Sender
<1>3. sender' = [sender EXCEPT ![s] = new]
  BY DEF Compact
<1> HIDE DEF new
<1>4. sender[s].pc = "counted" /\ Fits(sender[s], queue, clock)
  BY DEF Compact, QuotaInv
<1>5. Claim(new) = Claim(sender[s])
  BY <1>2, <1>4 DEF Claim
<1>6. new.todo = <<>> /\ Len(new.todo) = 0
  BY <1>2, <1>4 DEF Fits
<1>7. Fits(new, queue, clock)
  BY <1>1, <1>2, <1>4, <1>5, <1>6 DEF Fits
<1> QED
  BY <1>2, <1>3, <1>4, <1>7, SenderMoves DEF Compact, TypeOK

\* The order of the rows lists none of them twice.
LEMMA OrderedOnce ==
    ASSUME NEW P, P \subseteq Keys, NEW all \in Ordered(P),
           NEW i \in DOMAIN all, NEW j \in DOMAIN all, all[i] = all[j]
    PROVE  i = j
<1>1. DOMAIN all = 1 .. Cardinality(P) /\ Cardinality(P) \in Nat
  BY Sizes DEF Ordered
<1>2. \A k : ~Before(k, k, P)
  <2> SUFFICES ASSUME NEW k PROVE ~Before(k, k, P)
    OBVIOUS
  <2>1. Position(k, P) \in Nat
    <3> DEFINE S == {n \in P : /\ queue[n].kind = queue[k].kind
                               /\ n[2] < k[2] \/ (n[2] = k[2] /\ n[1] <= k[1])}
    <3>1. S \subseteq Keys
      OBVIOUS
    <3>2. Cardinality(S) \in Nat
      BY <3>1, Sizes
    <3> QED
      BY <3>2 DEF Position
  <2>2. ~(Position(k, P) < Position(k, P))
    BY <2>1
  <2> QED
    BY <2>2 DEF Before
<1>3. ~(i < j) /\ ~(j < i)
  BY <1>2 DEF Ordered
<1> QED
  BY <1>1, <1>3

LEMMA FetchQuota == ASSUME TypeOK, QuotaInv, NEW s \in Senders, Fetch(s) PROVE QuotaInv'
<1>1. PICK all \in Ordered(Pending(s)), n \in Nat : Fetches(s, all, n)
  BY FetchPicks
<1> DEFINE todo == [i \in 1 .. n |-> [key |-> all[i], kind |-> queue[all[i]].kind]]
           new == [sender[s] EXCEPT !.pc = "sending", !.todo = todo]
<1>2. sender[s] \in Sender /\ sender[s].pc = "compacted" /\ Fits(sender[s], queue, clock)
  BY DEF Fetch, TypeOK, QuotaInv
<1>3. n <= sender[s].remaining
  BY <1>1, <1>2 DEF Fetches, Sender
<1>4. \A i \in 1 .. n : i \in DOMAIN all /\ all[i] \in Pending(s)
  <2>1. DOMAIN all = 1 .. Cardinality(Pending(s)) /\ Cardinality(Pending(s)) \in Nat
    BY Sizes DEF Ordered, Pending, Rows
  <2>2. \A i \in 1 .. n : i \in 1 .. Cardinality(Pending(s))
    BY <1>1, <2>1 DEF Fetches
  <2>3. \A i \in 1 .. n : all[i] \in Pending(s)
    BY <1>1, FetchedItems
  <2> QED
    BY <2>1, <2>2, <2>3
<1>5. todo \in Seq(Item) /\ Len(todo) = n /\ \A i \in 1 .. n : todo[i].key = all[i]
  <2>1. \A i \in 1 .. n : todo[i] \in Item
    BY <1>1, FetchedItems DEF Item, Pending, Rows
  <2> QED
    BY <2>1
<1>6. sender' = [sender EXCEPT ![s] = new]
  BY <1>1 DEF Fetches
<1> HIDE DEF todo
<1>7. new \in Sender /\ new.pc = "sending" /\ new.todo = todo /\ new.deleted = sender[s].deleted
  BY <1>2, <1>5 DEF Sender
<1> HIDE DEF new
<1>8. Cardinality(Today(queue)) + Claim(new) <= Limit
  <2>1. Claim(sender[s]) = sender[s].remaining /\ Claim(new) = n
    BY <1>2, <1>5, <1>7 DEF Claim
  <2>2. sender[s].remaining \in Nat
    BY <1>2 DEF Sender
  <2> QED
    BY <1>2, <1>3, <2>1, <2>2, TodaySize, Constants DEF Fits
<1>9. ASSUME NEW i \in 1 .. n
      PROVE  /\ all[i][2] <= clock /\ queue[all[i]].sent = "no" /\ all[i] \notin sender[s].deleted
             /\ \A j \in 1 .. n : all[i] = all[j] => i = j
  <2>1. all[i] \in Rows /\ queue[all[i]].sent = "no" /\ all[i] \notin sender[s].deleted
    BY <1>4 DEF Pending
  <2>2. Pending(s) \subseteq Keys
    BY DEF Pending, Rows
  <2>3. \A j \in 1 .. n : all[i] = all[j] => i = j
    BY <1>1, <1>4, <2>2, OrderedOnce
  <2> QED
    BY <2>1, <2>3, UnsentRows
<1>10. Fits(new, queue, clock)
  BY <1>2, <1>5, <1>7, <1>8, <1>9 DEF Fits
<1> QED
  BY <1>2, <1>6, <1>7, <1>10, SenderMoves DEF Fetch, TypeOK

LEMMA PostQuota == ASSUME TypeOK, QuotaInv, NEW s \in Senders, Post(s) PROVE QuotaInv'
<1>1. PICK answer \in {"ok", "error", "quota"} :
         sender' = [sender EXCEPT ![s] = [sender[s] EXCEPT !.pc = "answered", !.answer = answer]]
  <2>1. sender \in [Senders -> Sender]
    BY DEF TypeOK
  <2>2. PICK answer \in {"ok", "error", "quota"} :
         sender' = [sender EXCEPT ![s] = [@ EXCEPT !.pc = "answered", !.answer = answer]]
    BY DEF Post
  <2> QED
    BY <2>1, <2>2
<1> DEFINE new == [sender[s] EXCEPT !.pc = "answered", !.answer = answer]
<1>2. sender[s] \in Sender /\ sender[s].pc = "sending" /\ Fits(sender[s], queue, clock)
  BY DEF Post, TypeOK, QuotaInv
<1>3. /\ new \in Sender /\ new.pc = "answered" /\ new.todo = sender[s].todo
      /\ new.deleted = sender[s].deleted
  BY <1>2 DEF Sender
<1>4. sender' = [sender EXCEPT ![s] = new]
  BY <1>1
<1> HIDE DEF new
<1>5. Claim(new) = Claim(sender[s])
  BY <1>2, <1>3 DEF Claim
<1>6. Fits(new, queue, clock)
  BY <1>2, <1>3, <1>5 DEF Fits
<1> QED
  BY <1>2, <1>3, <1>4, <1>6, SenderMoves DEF Post, TypeOK

\* The steps that change neither a sender nor a row, and the end of a process.
LEMMA QuietQuota ==
    ASSUME TypeOK, QuotaInv,
           \/ UNCHANGED <<sender, queue, clock, stamped, forgotten>>
           \/ \E s \in Senders : CrashSender(s)
    PROVE  QuotaInv'
<1>1. CASE UNCHANGED <<sender, queue, clock, stamped, forgotten>>
  BY <1>1 DEF QuotaInv, Exclusive
<1>2. ASSUME NEW s \in Senders, CrashSender(s) PROVE QuotaInv'
  BY <1>2, IdleFits, IdleTypes, SenderMoves DEF CrashSender, IdleSender, TypeOK
<1> QED
  BY <1>1, <1>2

\* A transaction of a sender deletes no stamped row.
LEMMA DeletesUnsent ==
    ASSUME NEW q, NEW K, \A k \in K : k \in Keys => q[k].sent = "no"
    PROVE  Today(Without(q, K)) = Today(q)
<1>1. \A k \in Keys : k \in K => Without(q, K)[k].sent = "no"
  BY DEF Without, NoRow
<1>2. \A k \in Keys : k \notin K => Without(q, K)[k] = q[k]
  BY DEF Without
<1> QED
  BY <1>1, <1>2 DEF Today

LEMMA FinishQuota == ASSUME TypeOK, QuotaInv, NEW s \in Senders, Finish(s) PROVE QuotaInv'
<1>1. sender \in [Senders -> Sender] /\ clock \in Nat /\ queue \in [Keys -> Row]
  BY Constants DEF TypeOK
<1>2. Today(queue') = Today(queue)
  BY DeletesUnsent DEF Finish, QuotaInv, Fits
<1>3. \A k \in Keys : queue[k].sent = "no" => queue'[k].sent = "no"
  BY DEF Finish, Without, NoRow
<1>4. ASSUME NEW c \in Sender, Fits(c, queue, clock) PROVE Fits(c, queue', clock)
  <2>1. Cardinality(Today(queue')) <= Cardinality(Today(queue)) /\ clock <= clock
    BY <1>1, <1>2, TodaySize
  <2> QED
    BY <1>1, <1>3, <1>4, <2>1, FitsKept
<1>5. \A other \in Senders : Fits(sender'[other], queue', clock)
  BY <1>1, <1>4, IdleFits, IdleTypes DEF Finish, QuotaInv
<1>6. Exclusive'
  BY <1>1 DEF Finish, QuotaInv, Exclusive, IdleSender
<1>7. \A k \in Keys : clock < k[2] => queue'[k] = NoRow
  BY DEF Finish, Without, QuotaInv
<1>8. clock' = clock /\ stamped' = stamped /\ forgotten' = forgotten
  BY DEF Finish
<1> QED
  BY <1>2, <1>5, <1>6, <1>7, <1>8 DEF QuotaInv

LEMMA PublishQuota == ASSUME TypeOK, QuotaInv, Publish PROVE QuotaInv'
<1>1. PICK U \in SUBSET Urls : \E kind \in [U -> Kinds] :
         /\ U # {} => clock < MaxPublications
         /\ clock' = IF U = {} THEN clock ELSE clock + 1
         /\ queue' = Queued(U, kind)
  BY DEF Publish
<1>2. PICK kind \in [U -> Kinds] : queue' = Queued(U, kind)
  BY <1>1
<1>3. sender' = sender /\ stamped' = stamped /\ forgotten' = forgotten
  BY DEF Publish
<1>4. clock \in Nat /\ clock' \in Nat /\ clock <= clock'
  BY <1>1, Constants DEF TypeOK
<1>5. \A k \in Keys : k[2] <= clock => queue'[k] = queue[k]
  BY <1>2, <1>4, KeyParts DEF Queued
<1>6. \A k \in Keys : clock < k[2] => queue[k].sent = "no" /\ queue'[k].sent = "no"
  <2>1. \A k \in U : [NoRow EXCEPT !.kind = kind[k]].sent = "no"
    BY DEF NoRow
  <2>2. \A k \in Keys : clock < k[2] => queue[k] = NoRow
    BY DEF QuotaInv
  <2> QED
    BY <1>2, <2>1, <2>2 DEF Queued, NoRow
<1>7. Today(queue') = Today(queue)
  <2>1. \A k \in Keys : k[2] <= clock \/ clock < k[2]
    BY <1>4, KeyParts
  <2> QED
    BY <1>5, <1>6, <2>1 DEF Today
<1>8. ASSUME NEW s \in Senders PROVE Fits(sender[s], queue', clock')
  <2>1. Cardinality(Today(queue')) <= Cardinality(Today(queue))
    BY <1>7, TodaySize
  <2>2. \A k \in Keys : k[2] <= clock /\ queue[k].sent = "no" => queue'[k].sent = "no"
    BY <1>5
  <2>3. sender[s] \in Sender /\ Fits(sender[s], queue, clock)
    BY DEF TypeOK, QuotaInv
  <2> QED
    BY <1>4, <2>1, <2>2, <2>3, FitsKept
<1>9. \A k \in Keys : clock' < k[2] => queue'[k] = NoRow
  <2> SUFFICES ASSUME NEW k \in Keys, clock' < k[2] PROVE queue'[k] = NoRow
    OBVIOUS
  <2>1. clock < k[2] /\ (U # {} => k[2] # clock + 1)
    BY <1>1, <1>4, KeyParts
  <2>2. k[1] \in U => U # {}
    OBVIOUS
  <2> QED
    BY <1>2, <2>1, <2>2 DEF Queued, QuotaInv
<1> QED
  BY <1>3, <1>7, <1>8, <1>9 DEF QuotaInv, Exclusive

LEMMA NewDayQuota == ASSUME TypeOK, QuotaInv, NewDay PROVE QuotaInv'
<1>1. clock' = clock /\ stamped' = 0 /\ forgotten' = 0 /\ clock \in Nat
  BY Constants DEF NewDay, TypeOK
<1>2. \A k \in Keys : queue[k].sent # "today" => queue'[k] = queue[k]
  BY DEF NewDay
<1>3. \A k \in Keys : queue'[k].sent # "today"
  <2>1. \A k \in Keys : [queue[k] EXCEPT !.sent = "earlier"].sent = "earlier"
    BY DEF TypeOK, Row
  <2> QED
    BY <2>1 DEF NewDay
<1>4. Today(queue') = {} /\ Cardinality(Today(queue')) = 0
  BY <1>3, FS_EmptySet DEF Today
<1>5. ASSUME NEW s \in Senders
      PROVE  /\ sender'[s].pc = sender[s].pc /\ sender'[s].todo = sender[s].todo
             /\ sender'[s].deleted = sender[s].deleted /\ sender'[s].remaining = sender[s].remaining
  <2>1. sender[s] \in Sender
    BY DEF TypeOK
  <2> QED
    BY <2>1 DEF NewDay, Sender
<1>6. ASSUME NEW s \in Senders PROVE Fits(sender'[s], queue', clock)
  <2>1. Cardinality(Today(queue')) <= Cardinality(Today(queue))
    BY <1>4, TodaySize
  <2>2. sender[s] \in Sender /\ Fits(sender[s], queue, clock)
    BY DEF TypeOK, QuotaInv
  <2>3. Fits(sender[s], queue', clock)
    BY <1>1, <1>2, <2>1, <2>2, FitsKept
  <2> QED
    BY <1>5, <2>3 DEF Fits, Claim
<1>7. Exclusive'
  BY <1>5 DEF QuotaInv, Exclusive
<1>8. \A k \in Keys : clock < k[2] => queue'[k] = NoRow
  BY <1>2 DEF QuotaInv, NoRow
<1> QED
  BY <1>1, <1>4, <1>6, <1>7, <1>8 DEF QuotaInv

LEMMA MarkQuota == ASSUME TypeOK, QuotaInv, Mark PROVE QuotaInv'
<1> DEFINE q == [k \in Keys |-> IF k \in Marked THEN [queue[k] EXCEPT !.indexnow = TRUE] ELSE queue[k]]
<1>1. /\ queue' = Without(q, indexnow.deleted) /\ clock' = clock /\ stamped' = stamped
      /\ forgotten' = forgotten + Cardinality(SentToday \cap indexnow.deleted)
      /\ sender' = sender /\ clock \in Nat /\ stamped \in Nat /\ forgotten \in Nat
  BY Constants DEF Mark, TypeOK
<1>2. \A k \in Keys : q[k].sent = queue[k].sent /\ q[k].kind = queue[k].kind
  BY DEF TypeOK, Row
<1>3. \A k \in Keys : queue[k] = NoRow => q[k] = NoRow
  BY DEF Marked, Rows, NoRow
<1> HIDE DEF q
<1>4. \A k \in Keys : queue'[k] = IF k \in indexnow.deleted THEN NoRow ELSE q[k]
  BY <1>1 DEF Without
<1>5. Today(queue') = Today(queue) \ indexnow.deleted
  BY <1>2, <1>4 DEF Today, NoRow
<1>6. Cardinality(Today(queue')) = Cardinality(Today(queue))
                                   - Cardinality(Today(queue) \cap indexnow.deleted)
  BY <1>5, TodaySize, Sizes, FS_Difference
<1>7. Today(queue) = SentToday
  BY DEF Today, SentToday, Rows
<1>8. stamped' <= Cardinality(Today(queue')) + forgotten'
  <2>1. Cardinality(Today(queue) \cap indexnow.deleted) \in Nat
    <3>1. Today(queue) \cap indexnow.deleted \subseteq Keys
      BY DEF Today
    <3> QED
      BY <3>1, Sizes
  <2> QED
    BY <1>1, <1>6, <1>7, <2>1, TodaySize DEF QuotaInv
<1>9. ASSUME NEW s \in Senders PROVE Fits(sender[s], queue', clock)
  <2>1. Cardinality(Today(queue')) <= Cardinality(Today(queue))
    BY <1>5, TodaySmaller
  <2>2. \A k \in Keys : queue[k].sent = "no" => queue'[k].sent = "no"
    BY <1>2, <1>4 DEF NoRow
  <2>3. sender[s] \in Sender /\ Fits(sender[s], queue, clock)
    BY DEF TypeOK, QuotaInv
  <2> QED
    BY <1>1, <2>1, <2>2, <2>3, FitsKept
<1>10. \A k \in Keys : clock < k[2] => queue'[k] = NoRow
  BY <1>3, <1>4 DEF QuotaInv
<1> QED
  BY <1>1, <1>8, <1>9, <1>10 DEF QuotaInv, Exclusive

LEMMA TailFacts ==
    ASSUME NEW list \in Seq(Item), list # <<>>
    PROVE  /\ Len(list) \in Nat \ {0} /\ Head(list) = list[1]
           /\ Tail(list) \in Seq(Item) /\ Len(Tail(list)) = Len(list) - 1
           /\ \A i \in 1 .. Len(Tail(list)) : Tail(list)[i] = list[i + 1]
OBVIOUS

\* The table after an answer: the row of the head of the list alone changes, and
\* what the transaction deleted is gone.
LEMMA RecordTable ==
    ASSUME TypeOK, QuotaInv, NEW s \in Senders, RecordAnswer(s),
           NEW k, k = Head(sender[s].todo).key
    PROVE  /\ k \in Keys /\ k[2] <= clock /\ queue[k].sent = "no"
           /\ \A n \in Keys \ {k} : queue'[n] \in {queue[n], NoRow}
           /\ \A n \in Keys \ {k} : queue'[n].sent = queue[n].sent
           /\ \A n \in Keys \ {k} : queue[n].sent = "today" => queue'[n] = queue[n]
           /\ queue'[k] = IF k \in Rows THEN Answered(queue[k], s) ELSE queue[k]
<1>1. sender[s] \in Sender /\ sender[s].todo # <<>> /\ Fits(sender[s], queue, clock)
  BY DEF RecordAnswer, TypeOK, QuotaInv
<1>2. sender[s].todo \in Seq(Item)
  BY <1>1 DEF Sender
<1>3. 1 \in 1 .. Len(sender[s].todo) /\ k = sender[s].todo[1].key
  BY <1>1, <1>2, TailFacts
<1>4. k \in Keys /\ k[2] <= clock /\ queue[k].sent = "no" /\ k \notin sender[s].deleted
  BY <1>1, <1>3, ListKeys DEF Fits
<1> DEFINE q == [queue EXCEPT ![k] = IF k \in Rows THEN Answered(@, s) ELSE @]
<1>5. queue' = Without(q, sender[s].deleted)
  BY DEF RecordAnswer
<1>6. queue \in [Keys -> Row]
  BY DEF TypeOK
<1>7. q[k] = (IF k \in Rows THEN Answered(queue[k], s) ELSE queue[k])
      /\ \A n \in Keys \ {k} : q[n] = queue[n]
  BY <1>4, <1>6
<1> HIDE DEF q
<1>8. \A n \in Keys : queue'[n] = IF n \in sender[s].deleted THEN NoRow ELSE q[n]
  BY <1>5 DEF Without
<1>9. \A n \in Keys : n \in sender[s].deleted => queue[n].sent = "no"
  BY <1>1 DEF Fits
<1> QED
  BY <1>4, <1>7, <1>8, <1>9 DEF NoRow

LEMMA AnsweredRow ==
    ASSUME NEW row \in Row, NEW s, row.sent = "no"
    PROVE  /\ Answered(row, s).kind = row.kind
           /\ Answered(row, s).sent = "today" <=> sender[s].answer = "ok" /\ Stamp(s) = "today"
BY DEF Answered, Row

\* A stamp of today adds the row to today's, any other answer leaves them alone.
LEMMA RecordToday ==
    ASSUME TypeOK, QuotaInv, NEW s \in Senders, RecordAnswer(s)
    PROVE  /\ Cardinality(Today(queue')) <= Cardinality(Today(queue)) + 1
           /\ sender[s].answer = "quota" => Cardinality(Today(queue')) = Cardinality(Today(queue))
           /\ stamped' <= Cardinality(Today(queue')) + forgotten
<1> DEFINE k == Head(sender[s].todo).key
           counts == k \in Rows /\ sender[s].answer = "ok" /\ Stamp(s) = "today"
<1>1. /\ k \in Keys /\ queue[k].sent = "no"
      /\ \A n \in Keys \ {k} : queue'[n] \in {queue[n], NoRow}
      /\ \A n \in Keys \ {k} : queue'[n].sent = queue[n].sent
      /\ \A n \in Keys \ {k} : queue[n].sent = "today" => queue'[n] = queue[n]
      /\ queue'[k] = IF k \in Rows THEN Answered(queue[k], s) ELSE queue[k]
  BY RecordTable
<1>2. stamped' = IF counts THEN stamped + 1 ELSE stamped
  BY DEF RecordAnswer
<1>3. queue[k] \in Row
  BY <1>1 DEF TypeOK
<1>4. k \in Today(queue') <=> counts
  BY <1>1, <1>3, AnsweredRow DEF Today, Rows
<1> HIDE DEF counts, k
<1>5. \A n \in Keys \ {k} : n \in Today(queue') <=> n \in Today(queue)
  BY <1>1 DEF Today
<1>6. k \notin Today(queue)
  BY <1>1 DEF Today
<1>7. stamped \in Nat /\ forgotten \in Nat /\ stamped <= Cardinality(Today(queue)) + forgotten
  BY DEF TypeOK, QuotaInv
<1>8. CASE counts
  <2>1. Today(queue') = Today(queue) \cup {k}
    BY <1>1, <1>4, <1>5, <1>8 DEF Today
  <2>2. Cardinality(Today(queue')) = Cardinality(Today(queue)) + 1
    BY <1>6, <2>1, TodaySize, Sizes, FS_AddElement
  <2>3. sender[s].answer # "quota"
    BY <1>8 DEF counts
  <2> QED
    BY <1>2, <1>7, <1>8, <2>2, <2>3, TodaySize
<1>9. CASE ~counts
  <2>1. Today(queue') = Today(queue)
    BY <1>4, <1>5, <1>6, <1>9 DEF Today
  <2> QED
    BY <1>2, <1>7, <1>9, <2>1, TodaySize
<1> QED
  BY <1>8, <1>9

LEMMA IdleAlways ==
    ASSUME NEW c \in Sender, NEW p, NEW q, NEW t, NEW u, Fits(c, p, t), c.pc = "idle",
           Cardinality(Today(q)) <= Limit
    PROVE  Fits(c, q, u)
<1>1. c.todo = <<>> /\ c.deleted = {} /\ Len(c.todo) = 0
  BY DEF Fits
<1>2. Claim(c) = 0
  BY <1>1 DEF Claim
<1> QED
  BY <1>1, <1>2, TodaySize, Constants DEF Fits

LEMMA RecordQuota == ASSUME TypeOK, QuotaInv, NEW s \in Senders, RecordAnswer(s) PROVE QuotaInv'
<1> DEFINE k == Head(sender[s].todo).key
           c == sender[s]
           rest == Tail(c.todo)
           more == [c EXCEPT !.pc = "sending", !.todo = rest, !.deleted = {}, !.now = "next",
                             !.answer = "none"]
<1>1. c \in Sender /\ c.todo # <<>> /\ c.pc = "answered" /\ Fits(c, queue, clock)
  BY DEF RecordAnswer, TypeOK, QuotaInv
<1>2. c.todo \in Seq(Item)
  BY <1>1 DEF Sender
<1>3. /\ Len(c.todo) \in Nat \ {0} /\ k = c.todo[1].key
      /\ rest \in Seq(Item) /\ Len(rest) = Len(c.todo) - 1
      /\ \A i \in 1 .. Len(rest) : rest[i] = c.todo[i + 1]
  BY <1>1, <1>2, TailFacts
<1>4. /\ k \in Keys /\ k[2] <= clock
      /\ \A n \in Keys \ {k} : queue'[n] \in {queue[n], NoRow}
      /\ \A n \in Keys \ {k} : queue'[n].sent = queue[n].sent
      /\ queue'[k] = IF k \in Rows THEN Answered(queue[k], s) ELSE queue[k]
  BY RecordTable
<1>5. Claim(c) = Len(c.todo)
  BY <1>1 DEF Claim
<1>6. Cardinality(Today(queue')) <= Limit
  BY <1>1, <1>3, <1>5, RecordToday, TodaySize, Constants DEF Fits
<1>7. clock' = clock /\ forgotten' = forgotten /\ clock \in Nat
  BY Constants DEF RecordAnswer, TypeOK
<1>8. sender' = [sender EXCEPT ![s] = IF c.answer = "quota" THEN IdleSender ELSE more]
  BY DEF RecordAnswer, Onward
<1> HIDE DEF rest
<1>9. more.pc = "sending" /\ more.todo = rest /\ more.deleted = {}
  BY <1>1 DEF Sender
<1> HIDE DEF more, c, k
<1>10. Fits(more, queue', clock)
  <2>1. Claim(more) = Len(c.todo) - 1
    BY <1>3, <1>9 DEF Claim
  <2>2. Cardinality(Today(queue')) + Claim(more) <= Limit
    BY <1>1, <1>3, <1>5, <2>1, RecordToday, TodaySize, Constants DEF Fits
  <2>3. ASSUME NEW i \in 1 .. Len(rest)
        PROVE  /\ i + 1 \in 1 .. Len(c.todo) /\ rest[i] = c.todo[i + 1] /\ 1 \in 1 .. Len(c.todo)
               /\ rest[i].key # k /\ rest[i].key \in Keys
    <3>1. i + 1 \in 1 .. Len(c.todo) /\ 1 \in 1 .. Len(c.todo) /\ i + 1 # 1
      BY <1>3
    <3> QED
      BY <1>1, <1>3, <3>1, ListKeys DEF Fits
  <2>4. \A i, j \in 1 .. Len(rest) : rest[i].key = rest[j].key => i = j
    <3> SUFFICES ASSUME NEW i \in 1 .. Len(rest), NEW j \in 1 .. Len(rest), rest[i].key = rest[j].key
                 PROVE  i = j
      OBVIOUS
    <3>1. i + 1 = j + 1
      BY <1>1, <2>3 DEF Fits
    <3> QED
      BY <1>3, <3>1
  <2>5. \A i \in 1 .. Len(rest) : rest[i].key[2] <= clock /\ queue'[rest[i].key].sent = "no"
    BY <1>1, <1>4, <2>3 DEF Fits
  <2> QED
    BY <1>9, <2>2, <2>4, <2>5 DEF Fits
<1>11. Fits(IdleSender, queue', clock)
  BY <1>6, IdleFits, IdleAlways, IdleTypes DEF IdleSender
<1>12. ASSUME NEW other \in Senders, other # s
       PROVE  sender'[other] = sender[other] /\ sender[other].pc = "idle" /\ Fits(sender[other], queue', clock)
  <2>1. sender[other] \in Sender /\ sender'[other] = sender[other] /\ Fits(sender[other], queue, clock)
    BY <1>8, <1>12 DEF TypeOK, QuotaInv
  <2>2. sender[other].pc = "idle"
    BY <1>1, <1>12 DEF QuotaInv, Exclusive, c
  <2> QED
    BY <1>6, <2>1, <2>2, IdleAlways
<1>13. \A other \in Senders : Fits(sender'[other], queue', clock)
  BY <1>8, <1>10, <1>11, <1>12 DEF TypeOK
<1>14. Exclusive'
  BY <1>12 DEF Exclusive
<1>15. \A n \in Keys : clock < n[2] => queue'[n] = NoRow
  <2>1. \A n \in Keys : clock < n[2] => n # k
    BY <1>4, <1>7, KeyParts
  <2> QED
    BY <1>4, <2>1 DEF QuotaInv
<1> QED
  BY <1>7, <1>13, <1>14, <1>15, RecordToday DEF QuotaInv

LEMMA QuotaStart == Init => QuotaInv
<1>1. SUFFICES ASSUME Init PROVE QuotaInv
  OBVIOUS
<1>2. Today(queue) = {} /\ Cardinality(Today(queue)) = 0
  BY <1>1, FS_EmptySet DEF Init, Today, NoRow
<1>3. Claim(IdleSender) = 0 /\ Len(IdleSender.todo) = 0 /\ IdleSender.todo = <<>>
         /\ IdleSender.deleted = {} /\ IdleSender.pc = "idle"
  BY DEF Claim, IdleSender
<1>4. Fits(IdleSender, queue, clock)
  BY <1>2, <1>3, Constants DEF Fits
<1> QED
  BY <1>1, <1>2, <1>3, <1>4 DEF Init, QuotaInv, Exclusive

LEMMA QuotaStep == TypeOK /\ QuotaInv /\ [Next]_vars => QuotaInv'
<1>1. SUFFICES ASSUME TypeOK, QuotaInv, [Next]_vars PROVE QuotaInv'
  OBVIOUS
<1>2. CASE UNCHANGED vars
  BY <1>1, <1>2, QuietQuota DEF vars
<1>3. CASE Publish
  BY <1>1, <1>3, PublishQuota
<1>4. ASSUME NEW s \in Senders, SenderStep(s) PROVE QuotaInv'
  <2>1. CASE Skip(s)
    BY <1>1, <2>1, QuietQuota DEF Skip
  <2> QED
    BY <1>1, <1>4, <2>1, StartQuota, CompactQuota, FetchQuota, PostQuota, RecordQuota, FinishQuota
       DEF SenderStep
<1>5. CASE \E s \in Senders : CrashSender(s)
  BY <1>1, <1>5, QuietQuota
<1>6. CASE Collect \/ Submit \/ Reject
  <2>1. UNCHANGED <<sender, queue, clock, stamped, forgotten>>
    BY <1>6 DEF Collect, Submit, Reject
  <2> QED
    BY <1>1, <2>1, QuietQuota
<1>7. CASE Mark
  BY <1>1, <1>7, MarkQuota
<1>8. CASE NewDay
  BY <1>1, <1>8, NewDayQuota
<1> QED
  BY <1>1, <1>2, <1>3, <1>4, <1>5, <1>6, <1>7, <1>8 DEF Next, IndexNowStep

\* Two senders never spend one day's allowance twice, for any URLs, limits and
\* faults: the advisory lock and the count under it (sent_since_pacific_midnight)
\* keep the day's stamps within the limit, apart from rows deleted since.
THEOREM QuotaKept == Spec => []WithinQuota
<1>1. QuotaInv /\ TypeOK => WithinQuota
  <2>1. SUFFICES ASSUME QuotaInv, TypeOK PROVE WithinQuota
    OBVIOUS
  <2>2. Cardinality(Today(queue)) <= Limit
    BY <2>1, IdleFits, ClaimSize, IdleTypes, TodaySize, Constants DEF Fits
  <2>3. stamped \in Nat /\ forgotten \in Nat
    BY <2>1 DEF TypeOK
  <2> QED
    BY <2>1, <2>2, <2>3, TodaySize, Constants DEF QuotaInv, WithinQuota
<1> QED
  BY <1>1, QuotaStart, QuotaStep, TypeCorrect, PTL DEF Spec
-----------------------------------------------------------------------------
(* What the engines know.  The newest row of a URL is never deleted and      *)
(* holds the last word on it.  IndexNow reads pages and not rows, so what it *)
(* is told is true when it is told, and the newest row is marked only with   *)
(* no publication in between.  A Google sender has at most one row of a URL  *)
(* on its list: the newest at the time it was fetched, every older one that  *)
(* is still unsent being deleted with the first answer.  What it sends of a  *)
(* URL whose newest row came later is false, but then that row is unsent.    *)

Newest(k) == k \in Rows /\ ~Superseded(k)
Unsent(k) == k \in Rows /\ queue[k].sent = "no"

NewestInv ==
    /\ \A u \in Urls : word[u] = "none" => \A k \in Rows : k[1] # u
    /\ \A u \in Urls : word[u] # "none" => \E k \in Keys : k[1] = u /\ Newest(k)
    /\ \A k \in Keys : Newest(k) =>
         /\ queue[k].kind = word[k[1]]
         /\ k \notin indexnow.deleted /\ \A s \in Senders : k \notin sender[s].deleted
    /\ indexnow.pc \in {"ready", "done"} => indexnow.deleted = {}

ReadInv ==
    /\ \A u \in Urls : word[u] = "none" => told["indexnow"][u] = "none"
    /\ \A k \in Keys : Newest(k) /\ queue[k].indexnow => told["indexnow"][k[1]] = word[k[1]]
    /\ indexnow.pc = "accepted" => \A u \in indexnow.batch : told["indexnow"][u] = word[u]

\* Row k as the i-th of the list of sender s.
Apt(s, i, k) ==
    /\ word[k[1]] # "none"
    /\ \A j \in 1 .. Len(sender[s].todo) : sender[s].todo[j].key[1] = k[1] => i = j
    /\ \A n \in Keys : Newest(n) /\ n[1] = k[1] => Unsent(n)
    /\ Newest(k) =>
         /\ sender[s].todo[i].kind = word[k[1]]
         /\ \A n \in Keys : Unsent(n) /\ n[1] = k[1] => n = k \/ n \in sender[s].deleted

SentInv ==
    /\ \A u \in Urls : word[u] = "none" => told["google"][u] = "none"
    /\ \A k \in Keys : Newest(k) =>
         \/ Unsent(k)
         \/ told["google"][k[1]] = word[k[1]] /\ \A n \in Keys : Unsent(n) => n[1] # k[1]
    /\ \A s \in Senders : sender[s].pc = "compacted" =>
         \A k \in Keys : Unsent(k) => Newest(k) \/ k \in sender[s].deleted
    /\ \A s \in Senders, k \in Keys : \A i \in 1 .. Len(sender[s].todo) :
         sender[s].todo[i].key = k => Apt(s, i, k)
    /\ \A s \in Senders : sender[s].pc = "answered" /\ sender[s].answer = "ok" =>
         told["google"][Head(sender[s].todo).key[1]] = Head(sender[s].todo).kind

\* A URL has one newest row.
LEMMA NewestOnce ==
    ASSUME NEW k \in Keys, NEW n \in Keys, Newest(k), Newest(n), k[1] = n[1]
    PROVE  k = n
<1>1. k[2] \in Nat /\ n[2] \in Nat /\ k = <<k[1], k[2]>> /\ n = <<n[1], n[2]>>
  BY KeyParts
<1>2. ~(k[2] < n[2]) /\ ~(n[2] < k[2])
  BY DEF Newest, Superseded
<1> QED
  BY <1>1, <1>2

LEMMA RowUrl ==
    ASSUME NewestInv, TypeOK, NEW k \in Rows
    PROVE  k \in Keys /\ k[1] \in Urls /\ word[k[1]] # "none"
BY KeyParts DEF NewestInv, Rows

\* What every step but a publication does to the table.
TableStep ==
    /\ word' = word
    /\ \A k \in Keys : k \in Rows' => k \in Rows /\ queue'[k].kind = queue[k].kind
    /\ \A k \in Keys : Newest(k) => k \in Rows'

LEMMA NewestKept ==
    ASSUME TypeOK, NewestInv, TableStep
    PROVE  \A k \in Keys : Newest(k)' <=> Newest(k)
<1>1. ASSUME NEW k \in Keys, Newest(k) PROVE Newest(k)'
  <2>1. \A n \in Rows' : n \in Rows
    BY DEF TableStep, Rows
  <2>2. k \in Rows' /\ \A n \in Rows : ~(n[1] = k[1] /\ k[2] < n[2])
    BY <1>1 DEF TableStep, Newest, Superseded
  <2> QED
    BY <2>1, <2>2 DEF Newest, Superseded
<1>2. ASSUME NEW k \in Keys, Newest(k)' PROVE Newest(k)
  <2>1. k \in Rows /\ k \in Rows'
    BY <1>2 DEF Newest, TableStep
  <2>2. k[1] \in Urls /\ word[k[1]] # "none"
    BY <2>1, RowUrl
  <2>3. PICK n \in Keys : n[1] = k[1] /\ Newest(n)
    BY <2>2 DEF NewestInv
  <2>4. n \in Rows' /\ ~(n[2] < k[2])
    BY <2>1, <2>3 DEF TableStep, Newest, Superseded
  <2>5. ~(k[2] < n[2])
    BY <1>2, <2>3, <2>4 DEF Newest, Superseded
  <2>6. k = n
    BY <2>3, <2>4, <2>5, KeyParts
  <2> QED
    BY <2>3, <2>6
<1> QED
  BY <1>1, <1>2

LEMMA QuietTable ==
    ASSUME UNCHANGED <<queue, word>> PROVE TableStep /\ \A k \in Keys : Unsent(k)' <=> Unsent(k)
BY DEF TableStep, Rows, Newest, Unsent

LEMMA NewDayTable ==
    ASSUME TypeOK, NewDay
    PROVE  /\ TableStep
           /\ \A k \in Keys : Unsent(k)' <=> Unsent(k)
           /\ \A k \in Keys : queue'[k].indexnow = queue[k].indexnow
<1>1. word' = word
  BY DEF NewDay
<1>2. \A k \in Keys : /\ queue'[k].kind = queue[k].kind
                      /\ queue'[k].indexnow = queue[k].indexnow
                      /\ queue'[k].sent = "no" <=> queue[k].sent = "no"
  BY DEF NewDay, TypeOK, Row
<1>3. \A k \in Keys : k \in Rows' <=> k \in Rows
  BY <1>2 DEF Rows
<1> QED
  BY <1>1, <1>2, <1>3 DEF TableStep, Newest, Unsent

LEMMA MarkTable ==
    ASSUME TypeOK, NewestInv, Mark
    PROVE  /\ TableStep
           /\ \A k \in Keys : Unsent(k)' => Unsent(k)
           /\ \A k \in Keys : Newest(k) /\ Unsent(k) => Unsent(k)'
           /\ \A k \in Rows' : queue'[k].indexnow => queue[k].indexnow \/ k[1] \in indexnow.batch
<1> DEFINE q == [k \in Keys |-> IF k \in Marked THEN [queue[k] EXCEPT !.indexnow = TRUE] ELSE queue[k]]
<1>1. queue' = Without(q, indexnow.deleted) /\ word' = word
  BY DEF Mark
<1>2. \A k \in Keys : /\ q[k].kind = queue[k].kind /\ q[k].sent = queue[k].sent
                      /\ q[k].indexnow => queue[k].indexnow \/ k[1] \in indexnow.batch
  BY DEF TypeOK, Row, Marked
<1> HIDE DEF q
<1>3. \A k \in Keys : queue'[k] = IF k \in indexnow.deleted THEN NoRow ELSE q[k]
  BY <1>1 DEF Without
<1>4. \A k \in Keys : k \in Rows' <=> k \in Rows /\ k \notin indexnow.deleted
  BY <1>2, <1>3 DEF Rows, NoRow
<1>5. \A k \in Keys : Newest(k) => k \in Rows'
  BY <1>4 DEF NewestInv, Newest
<1>6. \A k \in Rows' : k \in Keys /\ queue'[k] = q[k]
  BY <1>3, <1>4 DEF Rows
<1> QED
  BY <1>1, <1>2, <1>4, <1>5, <1>6 DEF TableStep, Unsent

LEMMA FinishTable ==
    ASSUME TypeOK, NewestInv, NEW s \in Senders, Finish(s)
    PROVE  /\ TableStep
           /\ \A k \in Keys : Unsent(k)' => Unsent(k)
           /\ \A k \in Keys : Newest(k) /\ Unsent(k) => Unsent(k)'
           /\ \A k \in Rows' : queue'[k].indexnow = queue[k].indexnow
<1>1. queue' = Without(queue, sender[s].deleted) /\ word' = word
  BY DEF Finish
<1>2. \A k \in Keys : queue'[k] = IF k \in sender[s].deleted THEN NoRow ELSE queue[k]
  BY <1>1 DEF Without
<1>3. \A k \in Keys : k \in Rows' <=> k \in Rows /\ k \notin sender[s].deleted
  BY <1>2 DEF Rows, NoRow
<1>4. \A k \in Keys : Newest(k) => k \in Rows'
  BY <1>3 DEF NewestInv, Newest
<1>5. \A k \in Rows' : k \in Keys /\ queue'[k] = queue[k]
  BY <1>2, <1>3 DEF Rows
<1> QED
  BY <1>1, <1>3, <1>4, <1>5 DEF TableStep, Unsent

\* An answer to the row k, and the deletions it commits.
LEMMA RecordRows ==
    ASSUME TypeOK, QuotaInv, NewestInv, NEW s \in Senders, RecordAnswer(s),
           NEW k \in Keys, k = Head(sender[s].todo).key
    PROVE  /\ TableStep
           /\ \A n \in Keys : Unsent(n)' => Unsent(n) /\ n \notin sender[s].deleted
           /\ \A n \in Keys \ {k} : Newest(n) /\ Unsent(n) => Unsent(n)'
           /\ Unsent(k)' \/ sender[s].answer = "ok" \/ k \notin Rows
           /\ sender[s].answer = "ok" => ~Unsent(k)'
           /\ \A n \in Rows' : queue'[n].indexnow = queue[n].indexnow
<1>1. /\ queue[k].sent = "no"
      /\ queue'[k] = IF k \in Rows THEN Answered(queue[k], s) ELSE queue[k]
  BY RecordTable
<1>2. queue' = Without([queue EXCEPT ![k] = IF k \in Rows THEN Answered(@, s) ELSE @],
                       sender[s].deleted)
      /\ word' = word
  BY DEF RecordAnswer
<1>3. queue[k] \in Row /\ queue \in [Keys -> Row]
  BY DEF TypeOK
<1>4. \A n \in Keys \ {k} : queue'[n] = IF n \in sender[s].deleted THEN NoRow ELSE queue[n]
  BY <1>2, <1>3 DEF Without
<1>5. sender[s].todo \in Seq(Item) /\ sender[s].todo # <<>> /\ Fits(sender[s], queue, clock)
  BY DEF RecordAnswer, TypeOK, QuotaInv, Sender
<1>6. k \notin sender[s].deleted
  <2>1. 1 \in 1 .. Len(sender[s].todo) /\ k = sender[s].todo[1].key
    BY <1>5, TailFacts
  <2> QED
    BY <1>5, <2>1 DEF Fits
<1>7. /\ queue'[k].kind = queue[k].kind /\ queue'[k].indexnow = queue[k].indexnow
      /\ k \in Rows => (queue'[k].sent = "no" <=> sender[s].answer # "ok")
  BY <1>1, <1>3 DEF Answered, Row, Stamp
<1>8. \A n \in Keys : n \in Rows' <=> n \in Rows /\ n \notin sender[s].deleted
  BY <1>4, <1>6, <1>7 DEF Rows, NoRow
<1>9. \A n \in Keys : Newest(n) => n \in Rows'
  BY <1>8 DEF NewestInv, Newest
<1>10. \A n \in Rows' \ {k} : n \in Keys /\ queue'[n] = queue[n]
  BY <1>4, <1>8 DEF Rows
<1>11. TableStep
  BY <1>2, <1>7, <1>8, <1>9, <1>10 DEF TableStep
<1>12. \A n \in Keys : Unsent(n)' => Unsent(n) /\ n \notin sender[s].deleted
  BY <1>1, <1>8, <1>10 DEF Unsent
<1>13. \A n \in Keys \ {k} : Newest(n) /\ Unsent(n) => Unsent(n)'
  BY <1>9, <1>10 DEF Unsent
<1>14. /\ Unsent(k)' \/ sender[s].answer = "ok" \/ k \notin Rows
       /\ sender[s].answer = "ok" => ~Unsent(k)'
  BY <1>6, <1>7, <1>8 DEF Unsent
<1>15. \A n \in Rows' : queue'[n].indexnow = queue[n].indexnow
  BY <1>7, <1>10
<1> QED
  BY <1>11, <1>12, <1>13, <1>14, <1>15

\* A publication puts a newer row before the rows of each page it is about.
PublishEffect(U, kind) ==
    /\ \A k \in Keys : k[1] \notin U => queue'[k] = queue[k] /\ (Newest(k)' <=> Newest(k))
    /\ \A u \in U : <<u, clock + 1>> \in Keys
    /\ \A k \in Keys : k[1] \in U /\ Newest(k)' => k[2] = clock + 1
    /\ \A k \in Keys : k[1] \in U /\ k[2] = clock + 1 =>
          /\ Newest(k)' /\ Unsent(k)'
          /\ queue'[k].kind = kind[k[1]] /\ ~queue'[k].indexnow
    /\ \A k \in Keys : k[1] \notin U => (Unsent(k)' <=> Unsent(k))
    /\ word' = [u \in Urls |-> IF u \in U THEN kind[u] ELSE word[u]]
    /\ UNCHANGED <<sender, told>>

LEMMA PublishDoes ==
    ASSUME TypeOK, QuotaInv, Publish
    PROVE  \E U \in SUBSET Urls : \E kind \in [U -> Kinds] :
             /\ PublishEffect(U, kind)
             /\ U # {} => CommitAtFetch \/ sender["timer"].pc # "compacted"
<1>1. PICK U \in SUBSET Urls : \E kind \in [U -> Kinds] :
         /\ U # {} => clock < MaxPublications /\ (CommitAtFetch \/ sender["timer"].pc # "compacted")
         /\ queue' = Queued(U, kind)
         /\ word' = [u \in Urls |-> IF u \in U THEN kind[u] ELSE word[u]]
  BY DEF Publish
<1>2. PICK kind \in [U -> Kinds] :
         /\ queue' = Queued(U, kind)
         /\ word' = [u \in Urls |-> IF u \in U THEN kind[u] ELSE word[u]]
  BY <1>1
<1>3. clock \in Nat
  BY Constants DEF TypeOK
<1>4. \A u \in U : <<u, clock + 1>> \in Keys
  BY <1>1, <1>3, Constants DEF Keys
<1>5. \A k \in Rows : k \in Keys /\ k[2] <= clock
  <2>1. \A k \in Rows : k \in Keys /\ queue[k] # NoRow
    BY DEF Rows, NoRow
  <2> QED
    BY <1>3, <2>1, KeyParts DEF QuotaInv
<1>6. \A k \in Keys : k[1] \notin U \/ k[2] # clock + 1 => queue'[k] = queue[k]
  BY <1>2 DEF Queued
<1>7. ASSUME NEW k \in Keys, k[1] \in U, k[2] = clock + 1
      PROVE  /\ k \in Rows' /\ queue'[k].kind = kind[k[1]] /\ queue'[k].sent = "no"
             /\ ~queue'[k].indexnow
  <2>1. queue'[k] = [NoRow EXCEPT !.kind = kind[k[1]]]
    BY <1>2, <1>7 DEF Queued
  <2>2. kind[k[1]] # "none"
    BY <1>7 DEF Kinds
  <2> QED
    BY <2>1, <2>2 DEF NoRow, Rows
<1>8. \A k \in Keys : k \in Rows' <=> k \in Rows \/ (k[1] \in U /\ k[2] = clock + 1)
  BY <1>5, <1>6, <1>7 DEF Rows
<1>9. \A k \in Rows' : k \in Keys /\ k[2] <= clock + 1
  BY <1>3, <1>5, <1>8, KeyParts DEF Rows
<1>10. ASSUME NEW k \in Keys, k[1] \notin U PROVE Newest(k)' <=> Newest(k)
  <2>1. \A n \in Keys : n[1] = k[1] => (n \in Rows' <=> n \in Rows)
    BY <1>8, <1>10
  <2>2. \A n \in Rows' \cup Rows : n \in Keys
    BY <1>5, <1>9
  <2> QED
    BY <2>1, <2>2 DEF Newest, Superseded
<1>11. ASSUME NEW k \in Keys, k[1] \in U, k[2] = clock + 1 PROVE Newest(k)'
  BY <1>3, <1>7, <1>9, <1>11, KeyParts DEF Newest, Superseded
<1>12. ASSUME NEW k \in Keys, k[1] \in U, Newest(k)' PROVE k[2] = clock + 1
  <2> DEFINE n == <<k[1], clock + 1>>
  <2>1. n \in Keys /\ n[1] = k[1] /\ n[2] = clock + 1
    BY <1>4, <1>12
  <2>2. n \in Rows'
    BY <1>8, <1>12, <2>1
  <2> HIDE DEF n
  <2>3. ~(k[2] < n[2]) /\ k \in Rows'
    BY <1>12, <2>1, <2>2 DEF Newest, Superseded
  <2> QED
    BY <1>3, <1>9, <2>1, <2>3, KeyParts
<1>13. \A k \in Keys : k[1] \notin U => (Unsent(k)' <=> Unsent(k))
  BY <1>6, <1>8 DEF Unsent
<1>14. \A k \in Keys : k[1] \in U /\ k[2] = clock + 1 => Unsent(k)'
  BY <1>7 DEF Unsent
<1>15. UNCHANGED <<sender, told>>
  BY DEF Publish
<1>16. PublishEffect(U, kind)
  BY <1>2, <1>4, <1>6, <1>7, <1>10, <1>11, <1>12, <1>13, <1>14, <1>15 DEF PublishEffect
<1> QED
  BY <1>1, <1>16

\* Every other step leaves the newest rows and the last words as they are.
LEMMA StepsOfTable ==
    ASSUME TypeOK, QuotaInv, NewestInv, [Next]_vars, ~Publish
    PROVE  TableStep
<1>1. CASE NewDay
  BY <1>1, NewDayTable
<1>2. CASE Mark
  BY <1>2, MarkTable
<1>3. ASSUME NEW s \in Senders, Finish(s) PROVE TableStep
  BY <1>3, FinishTable
<1>4. ASSUME NEW s \in Senders, RecordAnswer(s) PROVE TableStep
  BY <1>4, RecordTable, RecordRows
<1>5. ASSUME NEW s \in Senders, Start(s) \/ Skip(s) \/ Compact(s) \/ Fetch(s) \/ Post(s) \/ CrashSender(s)
      PROVE  TableStep
  BY <1>5, QuietTable DEF Start, Skip, Compact, Fetch, Post, CrashSender
<1>6. CASE Collect \/ Submit \/ Reject \/ UNCHANGED vars
  BY <1>6, QuietTable DEF Collect, Submit, Reject, vars
<1> QED
  BY <1>1, <1>2, <1>3, <1>4, <1>5, <1>6 DEF Next, SenderStep, IndexNowStep

\* The transactions delete superseded rows only.
LEMMA StepsOfDeletions ==
    ASSUME TypeOK, NewestInv, [Next]_vars, ~Publish
    PROVE  /\ \A k \in indexnow'.deleted : k \in indexnow.deleted \/ Superseded(k)
           /\ \A s \in Senders : \A k \in sender'[s].deleted : k \in sender[s].deleted \/ Superseded(k)
           /\ indexnow'.pc \in {"ready", "done"} => indexnow'.deleted = {}
<1>t. sender \in [Senders -> Sender] /\ indexnow \in IndexNow
  BY DEF TypeOK
<1>n. indexnow.pc \in {"ready", "done"} => indexnow.deleted = {}
  BY DEF NewestInv
<1>1. ASSUME NEW s \in Senders, Start(s) \/ Finish(s) \/ CrashSender(s)
      PROVE  sender'[s].deleted = {} /\ indexnow' = indexnow /\ \A o \in Senders \ {s} : sender'[o] = sender[o]
  <2>1. CASE Start(s)
    <3> DEFINE used == Cardinality(SentToday)
               left == IF used < Limit THEN Limit - used ELSE 0
               new == [IdleSender EXCEPT !.pc = "counted", !.remaining = left]
    <3>1. sender' = [sender EXCEPT ![s] = new] /\ indexnow' = indexnow
      BY <2>1 DEF Start
    <3> HIDE DEF left
    <3>2. new.deleted = {}
      BY DEF IdleSender
    <3> HIDE DEF new
    <3> QED
      BY <1>t, <3>1, <3>2
  <2>2. CASE Finish(s) \/ CrashSender(s)
    BY <1>t, <2>2 DEF Finish, CrashSender, IdleSender
  <2> QED
    BY <1>1, <2>1, <2>2
<1>2. ASSUME NEW s \in Senders, RecordAnswer(s)
      PROVE  sender'[s].deleted = {} /\ indexnow' = indexnow /\ \A o \in Senders \ {s} : sender'[o] = sender[o]
  BY <1>t, <1>2 DEF RecordAnswer, Onward, IdleSender, Sender
<1>3. ASSUME NEW s \in Senders, Compact(s)
      PROVE  /\ sender'[s].deleted = GoogleStale
             /\ indexnow' = indexnow /\ \A o \in Senders \ {s} : sender'[o] = sender[o]
  BY <1>t, <1>3 DEF Compact, Sender
<1>4. ASSUME NEW s \in Senders, Fetch(s) \/ Post(s)
      PROVE  indexnow' = indexnow /\ \A o \in Senders : sender'[o].deleted = sender[o].deleted
  <2>1. CASE Fetch(s)
    BY <1>t, <2>1 DEF Fetch, Sender
  <2>2. CASE Post(s)
    BY <1>t, <2>2 DEF Post, Sender
  <2> QED
    BY <1>4, <2>1, <2>2
<1>5. CASE Collect
  <2>1. sender' = sender /\ indexnow'.deleted = IndexNowStale /\ indexnow'.pc = "collected"
    BY <1>t, <1>5 DEF Collect, IndexNow
  <2> QED
    BY <2>1 DEF IndexNowStale
<1>6. CASE Submit
  BY <1>t, <1>6 DEF Submit, IndexNow
<1>7. CASE Mark \/ Reject
  <2>1. indexnow'.deleted = {}
    <3>1. CASE Mark
      BY <1>t, <3>1 DEF Mark, IndexNow
    <3>2. CASE Reject
      BY <3>2 DEF Reject
    <3> QED
      BY <1>7, <3>1, <3>2
  <2> QED
    BY <1>7, <2>1 DEF Mark, Reject
<1>8. CASE NewDay
  <2>1. indexnow' = indexnow /\ \A s \in Senders : sender'[s].deleted = sender[s].deleted
    BY <1>t, <1>8 DEF NewDay, Sender
  <2> QED
    BY <1>n, <2>1
<1>9. ASSUME NEW s \in Senders, Skip(s) PROVE UNCHANGED <<sender, indexnow>>
  BY <1>9 DEF Skip
<1>10. CASE UNCHANGED vars
  BY <1>10, <1>n DEF vars
<1> QED
  BY <1>n, <1>1, <1>2, <1>3, <1>4, <1>5, <1>6, <1>7, <1>8, <1>9, <1>10
  DEF Next, SenderStep, IndexNowStep, GoogleStale

LEMMA NewestStep ==
    ASSUME TypeOK, QuotaInv, NewestInv, [Next]_vars
    PROVE  NewestInv'
<1>1. CASE Publish
  <2>1. PICK U \in SUBSET Urls : \E kind \in [U -> Kinds] : PublishEffect(U, kind)
    BY <1>1, PublishDoes
  <2>2. PICK kind \in [U -> Kinds] : PublishEffect(U, kind)
    BY <2>1
  <2>3. indexnow.deleted = {} /\ indexnow'.deleted = {}
    BY <1>1 DEF Publish, NewestInv, TypeOK, IndexNow
  <2>4. ASSUME NEW k \in Keys, Newest(k)'
        PROVE  queue'[k].kind = word'[k[1]] /\ \A s \in Senders : k \notin sender'[s].deleted
    <3>1. k[1] \in Urls /\ k[2] \in Nat /\ clock \in Nat
      BY KeyParts, Constants DEF TypeOK
    <3>2. CASE k[1] \in U
      <4>1. k[2] = clock + 1 /\ queue'[k].kind = kind[k[1]] /\ sender' = sender
        BY <2>2, <2>4, <3>2 DEF PublishEffect
      <4>2. \A s \in Senders : k \notin sender[s].deleted
        BY <3>1, <4>1 DEF QuotaInv, Fits
      <4> QED
        BY <2>2, <3>1, <3>2, <4>1, <4>2 DEF PublishEffect
    <3>3. CASE k[1] \notin U
      BY <2>2, <2>4, <3>1, <3>3 DEF PublishEffect, NewestInv
    <3> QED
      BY <3>2, <3>3
  <2>5. ASSUME NEW u \in Urls, word'[u] = "none" PROVE \A k \in Rows' : k[1] # u
    <3>1. u \notin U /\ word[u] = "none"
      BY <2>2, <2>5 DEF PublishEffect, Kinds
    <3>2. \A k \in Keys : k[1] = u => queue'[k] = queue[k]
      BY <2>2, <3>1 DEF PublishEffect
    <3> QED
      BY <3>1, <3>2 DEF NewestInv, Rows
  <2>6. ASSUME NEW u \in Urls, word'[u] # "none" PROVE \E k \in Keys : k[1] = u /\ Newest(k)'
    <3>1. CASE u \in U
      <4>1. <<u, clock + 1>> \in Keys
        BY <2>2, <3>1 DEF PublishEffect
      <4> QED
        BY <2>2, <3>1, <4>1 DEF PublishEffect
    <3>2. CASE u \notin U
      <4>1. word[u] # "none"
        BY <2>2, <2>6, <3>2 DEF PublishEffect
      <4> QED
        BY <2>2, <3>2, <4>1 DEF PublishEffect, NewestInv
    <3> QED
      BY <3>1, <3>2
  <2> QED
    BY <2>3, <2>4, <2>5, <2>6 DEF NewestInv
<1>2. CASE ~Publish
  <2>1. TableStep /\ \A k \in Keys : Newest(k)' <=> Newest(k)
    BY <1>2, StepsOfTable, NewestKept
  <2>2. /\ \A k \in indexnow'.deleted : k \in indexnow.deleted \/ Superseded(k)
        /\ \A s \in Senders : \A k \in sender'[s].deleted : k \in sender[s].deleted \/ Superseded(k)
        /\ indexnow'.pc \in {"ready", "done"} => indexnow'.deleted = {}
    BY <1>2, StepsOfDeletions
  <2>3. \A k \in Rows' : k \in Keys
    BY DEF Rows
  <2>4. \A u \in Urls : word'[u] = "none" => \A k \in Rows' : k[1] # u
    BY <2>1, <2>3 DEF TableStep, NewestInv
  <2>5. \A u \in Urls : word'[u] # "none" => \E k \in Keys : k[1] = u /\ Newest(k)'
    BY <2>1 DEF TableStep, NewestInv
  <2>6. ASSUME NEW k \in Keys, Newest(k)'
        PROVE  /\ queue'[k].kind = word'[k[1]]
               /\ k \notin indexnow'.deleted /\ \A s \in Senders : k \notin sender'[s].deleted
    <3>1. Newest(k) /\ ~Superseded(k) /\ k \in Rows'
      BY <2>1, <2>6 DEF Newest
    <3> QED
      BY <2>1, <2>2, <3>1 DEF TableStep, NewestInv
  <2> QED
    BY <2>2, <2>4, <2>5, <2>6 DEF NewestInv
<1> QED
  BY <1>1, <1>2
-----------------------------------------------------------------------------
(* IndexNow *)

LEMMA ReadKept ==
    ASSUME TypeOK, NewestInv, ReadInv, TableStep,
           \A k \in Rows' : queue'[k].indexnow => queue[k].indexnow,
           told'["indexnow"] = told["indexnow"],
           indexnow'.pc = "accepted" => indexnow' = indexnow
    PROVE  ReadInv'
<1>1. \A k \in Keys : Newest(k)' <=> Newest(k)
  BY NewestKept
<1>2. \A k \in Keys : Newest(k)' => k \in Rows'
  BY DEF Newest
<1> QED
  BY <1>1, <1>2 DEF TableStep, ReadInv

LEMMA ReadStep ==
    ASSUME TypeOK, QuotaInv, NewestInv, ReadInv, [Next]_vars
    PROVE  ReadInv'
<1>t. /\ sender \in [Senders -> Sender] /\ indexnow \in IndexNow
      /\ told \in [{"google", "indexnow"} -> [Urls -> Kinds \cup {"none"}]]
  BY DEF TypeOK
<1>s. Publish \/ TableStep
  BY StepsOfTable
<1>1. CASE Publish
  <2>1. PICK U \in SUBSET Urls : \E kind \in [U -> Kinds] : PublishEffect(U, kind)
    BY <1>1, PublishDoes
  <2>2. PICK kind \in [U -> Kinds] : PublishEffect(U, kind)
    BY <2>1
  <2>3. indexnow'.pc = "ready"
    BY <1>1, <1>t DEF Publish, IndexNow
  <2>4. \A u \in Urls : u \in U => word'[u] # "none"
    BY <2>2 DEF PublishEffect, Kinds
  <2>5. \A u \in Urls : u \notin U => word'[u] = word[u]
    BY <2>2 DEF PublishEffect
  <2>6. ASSUME NEW k \in Keys, Newest(k)', queue'[k].indexnow
        PROVE  told["indexnow"][k[1]] = word'[k[1]]
    <3>1. k[1] \in Urls /\ k[1] \notin U
      BY <2>2, <2>6, KeyParts DEF PublishEffect
    <3> QED
      BY <2>2, <2>5, <2>6, <3>1 DEF PublishEffect, ReadInv
  <2>7. told' = told
    BY <2>2 DEF PublishEffect
  <2> QED
    BY <2>3, <2>4, <2>5, <2>6, <2>7 DEF ReadInv
<1>2. CASE Mark
  <2>1. /\ TableStep /\ \A k \in Keys : Newest(k)' <=> Newest(k)
        /\ \A k \in Rows' : queue'[k].indexnow => queue[k].indexnow \/ k[1] \in indexnow.batch
    BY <1>2, MarkTable, NewestKept
  <2>2. told' = told /\ indexnow.pc = "accepted" /\ indexnow'.pc = "done"
    BY <1>2, <1>t DEF Mark, IndexNow
  <2>3. \A k \in Keys : Newest(k)' /\ queue'[k].indexnow => told["indexnow"][k[1]] = word[k[1]]
    <3> SUFFICES ASSUME NEW k \in Keys, Newest(k)', queue'[k].indexnow
                 PROVE  told["indexnow"][k[1]] = word[k[1]]
      OBVIOUS
    <3>1. k \in Rows' /\ Newest(k)
      BY <2>1 DEF Newest
    <3> QED
      BY <2>1, <2>2, <3>1 DEF ReadInv
  <2> QED
    BY <2>1, <2>2, <2>3 DEF ReadInv, TableStep
<1>3. CASE Submit
  <2>1. \A u \in Urls : told'["indexnow"][u] = IF u \in indexnow.batch THEN word[u] ELSE told["indexnow"][u]
    BY <1>3, <1>t DEF Submit
  <2>2. UNCHANGED <<queue, word>> /\ indexnow'.batch = indexnow.batch /\ indexnow.batch \subseteq Urls
    BY <1>3, <1>t DEF Submit, IndexNow
  <2>3. \A k \in Keys : (Newest(k)' <=> Newest(k)) /\ k[1] \in Urls
    BY <2>2, QuietTable, NewestKept, KeyParts
  <2>4. \A u \in Urls : told["indexnow"][u] = word[u] => told'["indexnow"][u] = word[u]
    BY <2>1
  <2>5. \A u \in Urls : word'[u] = "none" => told'["indexnow"][u] = "none"
    BY <2>1, <2>2 DEF ReadInv
  <2>6. \A k \in Keys : Newest(k)' /\ queue'[k].indexnow => told'["indexnow"][k[1]] = word'[k[1]]
    BY <2>2, <2>3, <2>4 DEF ReadInv
  <2>7. \A u \in indexnow'.batch : told'["indexnow"][u] = word'[u]
    BY <2>1, <2>2
  <2>8. indexnow'.pc = "accepted" => \A u \in indexnow'.batch : told'["indexnow"][u] = word'[u]
    BY <2>7
  <2> QED
    BY <2>5, <2>6, <2>8 DEF ReadInv
<1>4. CASE Collect \/ Reject
  <2>1. UNCHANGED <<queue, word, told>> /\ indexnow'.pc # "accepted"
    <3>1. CASE Collect
      BY <1>t, <3>1 DEF Collect, IndexNow
    <3>2. CASE Reject
      BY <3>2 DEF Reject
    <3> QED
      BY <1>4, <3>1, <3>2
  <2> QED
    BY <2>1, QuietTable, ReadKept
<1>5. CASE NewDay
  <2>1. TableStep /\ \A k \in Rows' : queue'[k].indexnow => queue[k].indexnow
    BY <1>5, NewDayTable DEF Rows
  <2> QED
    BY <1>5, <2>1, ReadKept DEF NewDay
<1>6. ASSUME NEW s \in Senders, Finish(s) \/ RecordAnswer(s) PROVE ReadInv'
  <2>1. TableStep /\ \A k \in Rows' : queue'[k].indexnow => queue[k].indexnow
    BY <1>6, FinishTable, RecordTable, RecordRows
  <2>2. UNCHANGED <<told, indexnow>>
    BY <1>6 DEF Finish, RecordAnswer
  <2> QED
    BY <2>1, <2>2, ReadKept
<1>7. ASSUME NEW s \in Senders, Start(s) \/ Skip(s) \/ Compact(s) \/ Fetch(s) \/ CrashSender(s)
      PROVE  ReadInv'
  <2>1. UNCHANGED <<queue, word, told, indexnow>>
    BY <1>7 DEF Start, Skip, Compact, Fetch, CrashSender
  <2> QED
    BY <2>1, QuietTable, ReadKept
<1>8. ASSUME NEW s \in Senders, Post(s) PROVE ReadInv'
  <2>1. UNCHANGED <<queue, word, indexnow>>
    BY <1>8 DEF Post
  <2>2. told'["indexnow"] = told["indexnow"]
    BY <1>8, <1>t DEF Post
  <2> QED
    BY <2>1, <2>2, QuietTable, ReadKept
<1>9. CASE UNCHANGED vars
  BY <1>9, QuietTable, ReadKept DEF vars
<1> QED
  BY <1>1, <1>2, <1>3, <1>4, <1>5, <1>6, <1>7, <1>8, <1>9 DEF Next, SenderStep, IndexNowStep

LEMMA KnowledgeStart == Init => NewestInv /\ ReadInv /\ SentInv
<1> SUFFICES ASSUME Init PROVE NewestInv /\ ReadInv /\ SentInv
  OBVIOUS
<1>1. \A k : k \notin Rows
  BY DEF Init, Rows, NoRow
<1>2. \A k : ~Newest(k)
  BY <1>1 DEF Newest
<1>3. /\ \A u \in Urls : word[u] = "none" /\ told["google"][u] = "none" /\ told["indexnow"][u] = "none"
      /\ indexnow.pc = "done" /\ indexnow.deleted = {}
  BY DEF Init
<1>4. \A s \in Senders : sender[s].pc = "idle" /\ sender[s].todo = <<>> /\ Len(sender[s].todo) = 0
  BY DEF Init, IdleSender
<1>5. \A s \in Senders : 1 .. Len(sender[s].todo) = {}
  BY <1>4
<1> QED
  BY <1>1, <1>2, <1>3, <1>4, <1>5 DEF NewestInv, ReadInv, SentInv

\* A URL whose rows have all been submitted stands at IndexNow as it was queued
\* last (SeoQueue!IndexNowInformed), whatever was compacted or rolled back, and
\* even where a publication commits within a sender's compaction.
THEOREM IndexNowKnows == Spec => []IndexNowInformed
<1>1. TypeOK /\ NewestInv /\ ReadInv => IndexNowInformed
  <2> SUFFICES ASSUME TypeOK, NewestInv, ReadInv, NEW u \in Urls,
                      \A k \in Rows : k[1] = u => queue[k].indexnow
               PROVE  told["indexnow"][u] = word[u]
    BY DEF IndexNowInformed
  <2>1. CASE word[u] = "none"
    BY <2>1 DEF ReadInv
  <2>2. CASE word[u] # "none"
    <3>1. PICK k \in Keys : k[1] = u /\ Newest(k)
      BY <2>2 DEF NewestInv
    <3>2. queue[k].indexnow
      BY <3>1 DEF Newest
    <3> QED
      BY <3>1, <3>2 DEF ReadInv
  <2> QED
    BY <2>1, <2>2
<1> QED
  BY <1>1, KnowledgeStart, QuotaStart, QuotaStep, NewestStep, ReadStep, TypeCorrect, PTL DEF Spec

-----------------------------------------------------------------------------
(* Google *)

SameWork(s) ==
    /\ sender'[s].pc = sender[s].pc /\ sender'[s].todo = sender[s].todo
    /\ sender'[s].deleted = sender[s].deleted /\ sender'[s].answer = sender[s].answer
NoWork(s) == sender'[s].todo = <<>> /\ sender'[s].pc \notin {"compacted", "answered"}

LEMMA SentKept ==
    ASSUME TypeOK, NewestInv, SentInv, TableStep,
           \A k \in Keys : Unsent(k)' => Unsent(k),
           \A k \in Keys : Newest(k) /\ Unsent(k) => Unsent(k)',
           told'["google"] = told["google"],
           \A s \in Senders : SameWork(s) \/ NoWork(s)
    PROVE  SentInv'
<1>1. word' = word /\ \A k \in Keys : Newest(k)' <=> Newest(k)
  BY NewestKept DEF TableStep
<1>2. ASSUME NEW k \in Keys, Newest(k)'
      PROVE  \/ Unsent(k)'
             \/ told'["google"][k[1]] = word'[k[1]] /\ \A n \in Keys : Unsent(n)' => n[1] # k[1]
  BY <1>1, <1>2 DEF SentInv
<1>3. ASSUME NEW s \in Senders, NoWork(s) PROVE 1 .. Len(sender'[s].todo) = {}
  <2>1. Len(sender'[s].todo) = 0
    BY <1>3 DEF NoWork
  <2> QED
    BY <2>1
<1>4. ASSUME NEW s \in Senders, sender'[s].pc = "compacted", NEW k \in Keys, Unsent(k)'
      PROVE  Newest(k)' \/ k \in sender'[s].deleted
  BY <1>1, <1>4 DEF SentInv, SameWork, NoWork
<1>5. ASSUME NEW s \in Senders, NEW k \in Keys, NEW i \in 1 .. Len(sender'[s].todo),
             sender'[s].todo[i].key = k
      PROVE  Apt(s, i, k)'
  <2>1. SameWork(s)
    BY <1>3, <1>5
  <2>2. Apt(s, i, k)
    BY <1>5, <2>1 DEF SentInv, SameWork
  <2> QED
    BY <1>1, <2>1, <2>2 DEF Apt, SameWork
<1>6. ASSUME NEW s \in Senders, sender'[s].pc = "answered", sender'[s].answer = "ok"
      PROVE  told'["google"][Head(sender'[s].todo).key[1]] = Head(sender'[s].todo).kind
  BY <1>6 DEF SentInv, SameWork, NoWork
<1>7. \A u \in Urls : word'[u] = "none" => told'["google"][u] = "none"
  BY <1>1 DEF SentInv
<1> QED
  BY <1>2, <1>4, <1>5, <1>6, <1>7 DEF SentInv

\* The list of a sender that is not sending is empty.
LEMMA EmptyLists ==
    ASSUME TypeOK, QuotaInv, NEW s \in Senders, sender[s].pc \in {"idle", "counted", "compacted"}
    PROVE  sender[s].todo = <<>> /\ 1 .. Len(sender[s].todo) = {}
<1>1. sender[s].todo = <<>>
  BY DEF QuotaInv, Fits
<1>2. Len(sender[s].todo) = 0
  BY <1>1
<1> QED
  BY <1>1, <1>2

LEMMA SentPublish ==
    ASSUME ~CommitAtFetch, TypeOK, QuotaInv, NewestInv, SentInv, Publish PROVE SentInv'
<1>1. PICK U \in SUBSET Urls : \E kind \in [U -> Kinds] :
         PublishEffect(U, kind) /\ (U # {} => sender["timer"].pc # "compacted")
  BY PublishDoes
<1>2. PICK kind \in [U -> Kinds] : PublishEffect(U, kind)
  BY <1>1
<1>3. \A u \in Urls : (u \in U => word'[u] # "none") /\ (u \notin U => word'[u] = word[u])
  BY <1>2 DEF PublishEffect, Kinds
<1>4. UNCHANGED <<sender, told>>
  BY <1>2 DEF PublishEffect
<1>u. \A k \in Keys : k[1] \in Urls
  BY KeyParts
<1>5. ASSUME NEW k \in Keys, Newest(k)'
      PROVE  \/ Unsent(k)'
             \/ told["google"][k[1]] = word'[k[1]] /\ \A n \in Keys : Unsent(n)' => n[1] # k[1]
  <2>1. CASE k[1] \in U
    BY <1>2, <1>5, <2>1 DEF PublishEffect
  <2>2. CASE k[1] \notin U
    <3>1. Newest(k) /\ (Unsent(k)' <=> Unsent(k))
      BY <1>2, <1>5, <2>2 DEF PublishEffect
    <3>2. \A n \in Keys : n[1] = k[1] => (Unsent(n)' <=> Unsent(n))
      BY <1>2, <2>2 DEF PublishEffect
    <3> QED
      BY <1>3, <1>u, <2>2, <3>1, <3>2 DEF SentInv
  <2> QED
    BY <2>1, <2>2
<1>6. ASSUME NEW s \in Senders, sender[s].pc = "compacted", NEW k \in Keys, Unsent(k)'
      PROVE  Newest(k)' \/ k \in sender[s].deleted
  <2>1. sender["nightly"].pc = "idle"
    BY DEF Publish
  <2>2. U = {}
    BY <1>1, <1>6, <2>1 DEF Senders
  <2> QED
    BY <1>2, <1>6, <2>2 DEF PublishEffect, SentInv
<1>7. ASSUME NEW s \in Senders, NEW k \in Keys, NEW i \in 1 .. Len(sender[s].todo),
             sender[s].todo[i].key = k
      PROVE  Apt(s, i, k)'
  <2>1. Apt(s, i, k)
    BY <1>7 DEF SentInv
  <2>2. CASE k[1] \in U
    <3>1. k[2] <= clock /\ clock \in Nat /\ k[2] \in Nat
      BY <1>7, KeyParts, Constants DEF QuotaInv, Fits, TypeOK
    <3>2. ~Newest(k)'
      <4>1. k[2] # clock + 1
        BY <3>1
      <4> QED
        BY <1>2, <2>2, <4>1 DEF PublishEffect
    <3>3. \A n \in Keys : Newest(n)' /\ n[1] = k[1] => Unsent(n)'
      BY <1>2, <2>2 DEF PublishEffect
    <3> QED
      BY <1>3, <1>4, <1>u, <2>1, <2>2, <3>2, <3>3 DEF Apt
  <2>3. CASE k[1] \notin U
    <3>1. word'[k[1]] = word[k[1]]
      BY <1>3, <1>u, <2>3
    <3>2. \A n \in Keys : n[1] = k[1] => (Unsent(n)' <=> Unsent(n)) /\ (Newest(n)' <=> Newest(n))
      BY <1>2, <2>3 DEF PublishEffect
    <3> QED
      BY <1>4, <2>1, <3>1, <3>2 DEF Apt
  <2> QED
    BY <2>2, <2>3
<1>8. \A u \in Urls : word'[u] = "none" => told["google"][u] = "none"
  BY <1>3 DEF SentInv
<1>9. \A s \in Senders : sender[s].pc = "answered" /\ sender[s].answer = "ok" =>
         told["google"][Head(sender[s].todo).key[1]] = Head(sender[s].todo).kind
  BY DEF SentInv
<1> QED
  BY <1>4, <1>5, <1>6, <1>7, <1>8, <1>9 DEF SentInv

\* A compaction leaves no unsent row behind but the newest ones.
LEMMA SentCompact ==
    ASSUME TypeOK, QuotaInv, NewestInv, SentInv, NEW s \in Senders, Compact(s) PROVE SentInv'
<1>1. UNCHANGED <<queue, word, told>>
  BY DEF Compact
<1>2. /\ sender'[s].pc = "compacted" /\ sender'[s].todo = <<>> /\ sender'[s].deleted = GoogleStale
      /\ \A o \in Senders \ {s} : sender'[o] = sender[o]
  <2>1. sender[s].todo = <<>> /\ sender[s] \in Sender /\ sender \in [Senders -> Sender]
    BY EmptyLists DEF Compact, TypeOK
  <2> QED
    BY <2>1 DEF Compact, Sender
<1>3. \A k \in Keys : (Newest(k)' <=> Newest(k)) /\ (Unsent(k)' <=> Unsent(k))
  BY <1>1, QuietTable, NewestKept
<1>4. 1 .. Len(sender'[s].todo) = {}
  <2>1. Len(sender'[s].todo) = 0
    BY <1>2
  <2> QED
    BY <2>1
<1>5. \A k \in Keys : Unsent(k) => Newest(k) \/ k \in GoogleStale
  BY DEF Unsent, Newest, GoogleStale
<1>6. ASSUME NEW o \in Senders, NEW k \in Keys, NEW i \in 1 .. Len(sender'[o].todo),
             sender'[o].todo[i].key = k
      PROVE  Apt(o, i, k)'
  <2>1. o # s /\ sender'[o] = sender[o]
    BY <1>2, <1>4, <1>6
  <2>2. Apt(o, i, k)
    BY <1>6, <2>1 DEF SentInv
  <2> QED
    BY <1>1, <1>3, <2>1, <2>2 DEF Apt
<1>7. ASSUME NEW o \in Senders, sender'[o].pc = "compacted", NEW k \in Keys, Unsent(k)'
      PROVE  Newest(k)' \/ k \in sender'[o].deleted
  BY <1>2, <1>3, <1>5, <1>7 DEF SentInv
<1>8. \A o \in Senders : sender'[o].pc = "answered" /\ sender'[o].answer = "ok" =>
         told["google"][Head(sender'[o].todo).key[1]] = Head(sender'[o].todo).kind
  BY <1>2 DEF SentInv
<1> QED
  BY <1>1, <1>3, <1>6, <1>7, <1>8 DEF SentInv

\* A fetch lists the newest row of a URL, or none.
LEMMA SentFetch ==
    ASSUME TypeOK, QuotaInv, NewestInv, SentInv, NEW s \in Senders, Fetch(s) PROVE SentInv'
<1>1. UNCHANGED <<queue, word, told>>
  BY DEF Fetch
<1>2. \A k \in Keys : (Newest(k)' <=> Newest(k)) /\ (Unsent(k)' <=> Unsent(k))
  BY <1>1, QuietTable, NewestKept
<1>3. PICK all \in Ordered(Pending(s)), n \in Nat : Fetches(s, all, n)
  BY FetchPicks
<1> DEFINE todo == [i \in 1 .. n |-> [key |-> all[i], kind |-> queue[all[i]].kind]]
<1>4. /\ sender'[s].pc = "sending" /\ sender'[s].todo = todo /\ sender'[s].deleted = sender[s].deleted
      /\ \A o \in Senders \ {s} : sender'[o] = sender[o]
  <2>1. sender[s] \in Sender /\ sender \in [Senders -> Sender]
    BY DEF TypeOK
  <2>2. sender' = [sender EXCEPT ![s] = [sender[s] EXCEPT !.pc = "sending", !.todo = todo]]
    BY <1>3 DEF Fetches
  <2> HIDE DEF todo
  <2> QED
    BY <2>1, <2>2 DEF Sender
<1>5. Pending(s) \subseteq Keys
  BY DEF Pending, Rows
<1>6. \A i \in 1 .. n : /\ i \in DOMAIN all /\ all[i] \in Keys
                        /\ Unsent(all[i]) /\ all[i] \notin sender[s].deleted
  <2>1. DOMAIN all = 1 .. Cardinality(Pending(s)) /\ Cardinality(Pending(s)) \in Nat
    BY <1>5, Sizes DEF Ordered
  <2>2. \A i \in 1 .. n : i \in 1 .. Cardinality(Pending(s))
    BY <1>3, <2>1 DEF Fetches
  <2>3. \A i \in 1 .. n : all[i] \in Pending(s)
    BY <1>3, FetchedItems
  <2> QED
    BY <1>5, <2>1, <2>2, <2>3 DEF Pending, Unsent
<1>7. Len(todo) = n /\ \A i \in 1 .. n : todo[i].key = all[i] /\ todo[i].kind = queue[all[i]].kind
  <2>1. \A i \in 1 .. n : todo[i] \in Item
    BY <1>3, FetchedItems DEF Item, Pending, Rows
  <2>2. todo \in Seq(Item) /\ Len(todo) = n
    BY <2>1
  <2> QED
    BY <2>2
<1> HIDE DEF todo
<1>8. sender[s].pc = "compacted"
  BY DEF Fetch
<1>9. \A k \in Keys : Unsent(k) => Newest(k) \/ k \in sender[s].deleted
  BY <1>8 DEF SentInv
<1>10. ASSUME NEW k \in Keys, NEW i \in 1 .. n, all[i] = k PROVE Apt(s, i, k)'
  <2>1. Unsent(k) /\ Newest(k)
    BY <1>6, <1>9, <1>10
  <2>2. word[k[1]] # "none"
    BY <2>1, RowUrl DEF Newest
  <2>3. ASSUME NEW j \in 1 .. n, all[j][1] = k[1] PROVE i = j
    <3>1. all[j] \in Keys /\ Newest(all[j])
      BY <1>6, <1>9
    <3>2. all[j] = all[i]
      BY <1>10, <2>1, <2>3, <3>1, NewestOnce
    <3> QED
      BY <1>5, <1>6, <3>2, OrderedOnce
  <2>4. \A m \in Keys : Newest(m) /\ m[1] = k[1] => m = k
    BY <2>1, NewestOnce
  <2>5. \A m \in Keys : Unsent(m) /\ m[1] = k[1] => m = k \/ m \in sender[s].deleted
    BY <1>9, <2>4
  <2>6. queue[k].kind = word[k[1]]
    BY <2>1 DEF NewestInv
  <2> QED
    BY <1>1, <1>2, <1>4, <1>7, <1>10, <2>1, <2>2, <2>3, <2>4, <2>5, <2>6 DEF Apt
<1>11. ASSUME NEW o \in Senders, NEW k \in Keys, NEW i \in 1 .. Len(sender'[o].todo),
             sender'[o].todo[i].key = k
      PROVE  Apt(o, i, k)'
  <2>1. CASE o = s
    BY <1>4, <1>7, <1>10, <1>11, <2>1
  <2>2. CASE o # s
    <3>1. sender'[o] = sender[o]
      BY <1>4, <2>2
    <3>2. Apt(o, i, k)
      BY <1>11, <3>1 DEF SentInv
    <3> QED
      BY <1>1, <1>2, <3>1, <3>2 DEF Apt
  <2> QED
    BY <2>1, <2>2
<1>12. ASSUME NEW o \in Senders, sender'[o].pc = "compacted", NEW k \in Keys, Unsent(k)'
      PROVE  Newest(k)' \/ k \in sender'[o].deleted
  BY <1>2, <1>4, <1>12 DEF SentInv
<1>13. \A o \in Senders : sender'[o].pc = "answered" /\ sender'[o].answer = "ok" =>
         told["google"][Head(sender'[o].todo).key[1]] = Head(sender'[o].todo).kind
  BY <1>4 DEF SentInv
<1> QED
  BY <1>1, <1>2, <1>11, <1>12, <1>13 DEF SentInv

\* The first of a list.
LEMMA FirstOf ==
    ASSUME TypeOK, NEW s \in Senders, sender[s].todo # <<>>
    PROVE  LET k == Head(sender[s].todo).key
           IN  /\ k \in Keys /\ k[1] \in Urls /\ sender[s].todo[1].key = k
               /\ Head(sender[s].todo) = sender[s].todo[1]
               /\ 1 \in 1 .. Len(sender[s].todo)
<1>1. sender[s].todo \in Seq(Item) /\ sender[s] \in Sender
  BY DEF TypeOK, Sender
<1>2. Head(sender[s].todo) = sender[s].todo[1] /\ 1 \in 1 .. Len(sender[s].todo)
  BY <1>1, TailFacts
<1> QED
  BY <1>1, <1>2, ListKeys, KeyParts

\* A request may tell Google what is no longer true, but then the newest row of
\* the URL is unsent.
LEMMA SentPost ==
    ASSUME TypeOK, QuotaInv, NewestInv, SentInv, NEW s \in Senders, Post(s) PROVE SentInv'
<1> DEFINE item == Head(sender[s].todo)
           k == item.key
           u == k[1]
<1>0. sender[s].todo # <<>> /\ sender[s].pc = "sending"
  BY DEF Post
<1>1. UNCHANGED <<queue, word>>
  BY DEF Post
<1>2. \A n \in Keys : (Newest(n)' <=> Newest(n)) /\ (Unsent(n)' <=> Unsent(n))
  BY <1>1, QuietTable, NewestKept
<1>3. k \in Keys /\ u \in Urls /\ item = sender[s].todo[1] /\ 1 \in 1 .. Len(sender[s].todo)
  BY <1>0, FirstOf
<1>4. Apt(s, 1, k)
  BY <1>3 DEF SentInv
<1>5. /\ sender'[s].pc = "answered" /\ sender'[s].todo = sender[s].todo
      /\ sender'[s].deleted = sender[s].deleted
      /\ \A o \in Senders \ {s} : sender'[o] = sender[o]
  BY DEF Post, TypeOK, Sender
<1>6. /\ \A v \in Urls \ {u} : told'["google"][v] = told["google"][v]
      /\ told'["google"][u] = told["google"][u] \/ told'["google"][u] = item.kind
      /\ sender'[s].answer = "ok" => told'["google"][u] = item.kind
  <2>0. /\ told \in [{"google", "indexnow"} -> [Urls -> Kinds \cup {"none"}]]
        /\ sender \in [Senders -> Sender] /\ sender[s] \in Sender
    BY DEF TypeOK
  <2>1. PICK answer \in {"ok", "error", "quota"}, done \in BOOLEAN :
         /\ answer = "ok" => done
         /\ told' = IF done THEN [told EXCEPT !["google"][u] = item.kind] ELSE told
         /\ sender' = [sender EXCEPT ![s] = [sender[s] EXCEPT !.pc = "answered", !.answer = answer]]
    BY <2>0 DEF Post
  <2> HIDE DEF item, k, u
  <2>2. sender'[s].answer = answer
    BY <2>0, <2>1 DEF Sender
  <2> QED
    BY <1>3, <2>0, <2>1, <2>2
<1> HIDE DEF item, k, u
<1>7. ASSUME NEW v \in Urls, word[v] = "none" PROVE told'["google"][v] = "none"
  <2>1. v # u
    BY <1>4, <1>7 DEF Apt, u
  <2> QED
    BY <1>6, <1>7, <2>1 DEF SentInv
<1>8. ASSUME NEW n \in Keys, Newest(n)
      PROVE  \/ Unsent(n)
             \/ told'["google"][n[1]] = word[n[1]] /\ \A m \in Keys : Unsent(m) => m[1] # n[1]
  <2>1. n[1] \in Urls
    BY KeyParts
  <2>2. CASE n[1] = u
    BY <1>4, <1>8, <2>2 DEF Apt, u
  <2>3. CASE n[1] # u
    BY <1>6, <1>8, <2>1, <2>3 DEF SentInv
  <2> QED
    BY <2>2, <2>3
<1>9. ASSUME NEW o \in Senders, NEW n \in Keys, NEW i \in 1 .. Len(sender'[o].todo),
             sender'[o].todo[i].key = n
      PROVE  Apt(o, i, n)'
  <2>1. sender'[o].todo = sender[o].todo /\ sender'[o].deleted = sender[o].deleted
    BY <1>5
  <2>2. Apt(o, i, n)
    BY <1>9, <2>1 DEF SentInv
  <2> QED
    BY <1>1, <1>2, <2>1, <2>2 DEF Apt
<1>10. ASSUME NEW o \in Senders, sender'[o].pc = "compacted", NEW n \in Keys, Unsent(n)'
      PROVE  Newest(n)' \/ n \in sender'[o].deleted
  BY <1>2, <1>5, <1>10 DEF SentInv
<1>11. ASSUME NEW o \in Senders, sender'[o].pc = "answered", sender'[o].answer = "ok"
       PROVE  told'["google"][Head(sender'[o].todo).key[1]] = Head(sender'[o].todo).kind
  <2>1. o = s
    BY <1>0, <1>5, <1>11 DEF QuotaInv, Exclusive
  <2> QED
    BY <1>5, <1>6, <1>11, <2>1 DEF item, k, u
<1> QED
  BY <1>1, <1>2, <1>7, <1>8, <1>9, <1>10, <1>11 DEF SentInv

\* An answer stamps the newest row of a URL only when Google was told what it
\* says, and commits the deletion of every other unsent row of the URL.
LEMMA SentRecord ==
    ASSUME TypeOK, QuotaInv, NewestInv, SentInv, NEW s \in Senders, RecordAnswer(s) PROVE SentInv'
<1> DEFINE list == sender[s].todo
<1>0. list # <<>> /\ sender[s].pc = "answered" /\ sender[s] \in Sender /\ list \in Seq(Item)
  BY DEF RecordAnswer, TypeOK, Sender
<1>1. PICK k \in Keys : /\ k = Head(list).key /\ k[1] \in Urls
                        /\ list[1].key = k /\ Head(list) = list[1] /\ 1 \in 1 .. Len(list)
  BY <1>0, FirstOf
<1>2. /\ TableStep
      /\ \A n \in Keys : Unsent(n)' => Unsent(n) /\ n \notin sender[s].deleted
      /\ \A n \in Keys \ {k} : Newest(n) /\ Unsent(n) => Unsent(n)'
      /\ Unsent(k)' \/ sender[s].answer = "ok" \/ k \notin Rows
      /\ sender[s].answer = "ok" => ~Unsent(k)'
  BY <1>1, RecordRows
<1>3. word' = word /\ told' = told /\ \A n \in Keys : Newest(n)' <=> Newest(n)
  BY <1>2, NewestKept DEF TableStep, RecordAnswer
<1>4. Apt(s, 1, k)
  BY <1>1 DEF SentInv
<1>5. \/ NoWork(s)
      \/ sender'[s].pc = "sending" /\ sender'[s].todo = Tail(list) /\ sender'[s].deleted = {}
  BY <1>0 DEF RecordAnswer, Onward, TypeOK, Sender, IdleSender, NoWork
<1>6. \A o \in Senders \ {s} : sender'[o] = sender[o] /\ sender[o].pc = "idle"
  BY <1>0 DEF RecordAnswer, TypeOK, QuotaInv, Exclusive
<1>7. /\ Len(Tail(list)) = Len(list) - 1 /\ Len(list) \in Nat \ {0}
      /\ \A i \in 1 .. Len(Tail(list)) : Tail(list)[i] = list[i + 1]
  BY <1>0, TailFacts
<1>a. sender[s].answer = "ok" => told["google"][k[1]] = Head(list).kind
  BY <1>0, <1>1 DEF SentInv
<1> HIDE DEF list
<1>8. ASSUME NEW n \in Keys, Newest(n)'
      PROVE  \/ Unsent(n)'
             \/ told["google"][n[1]] = word[n[1]] /\ \A m \in Keys : Unsent(m)' => m[1] # n[1]
  <2>1. Newest(n)
    BY <1>3, <1>8
  <2>2. CASE n = k
    <3> SUFFICES ASSUME ~Unsent(k)'
                 PROVE  told["google"][k[1]] = word[k[1]] /\ \A m \in Keys : Unsent(m)' => m[1] # k[1]
      BY <2>2
    <3>1. sender[s].answer = "ok"
      BY <1>2, <2>1, <2>2 DEF Newest
    <3>2. list[1].kind = word[k[1]] /\ \A m \in Keys : Unsent(m) /\ m[1] = k[1] => m = k \/ m \in sender[s].deleted
      BY <1>4, <2>1, <2>2 DEF Apt, list
    <3> QED
      BY <1>1, <1>2, <1>a, <3>1, <3>2
  <2>3. CASE n # k
    BY <1>2, <2>1, <2>3 DEF SentInv
  <2> QED
    BY <2>2, <2>3
<1>9. ASSUME NEW o \in Senders, NEW n \in Keys, NEW i \in 1 .. Len(sender'[o].todo),
             sender'[o].todo[i].key = n
      PROVE  Apt(o, i, n)'
  <2>1. o = s
    <3>1. ASSUME o # s PROVE FALSE
      BY <1>6, <1>9, <3>1, EmptyLists
    <3> QED
      BY <3>1
  <2>2. sender'[s].todo = Tail(list) /\ sender'[s].deleted = {}
    <3>1. ASSUME NoWork(s) PROVE FALSE
      <4>1. Len(sender'[s].todo) = 0
        BY <3>1 DEF NoWork
      <4> QED
        BY <1>9, <2>1, <4>1
    <3> QED
      BY <1>5, <3>1
  <2>3. i + 1 \in 1 .. Len(list) /\ list[i + 1].key = n /\ i \in Nat
    BY <1>7, <1>9, <2>1, <2>2
  <2>4. Apt(s, i + 1, n)
    BY <2>3 DEF SentInv, list
  <2>5. n[1] # k[1]
    <3>1. i + 1 # 1
      BY <1>9, <2>3
    <3>2. \A j \in 1 .. Len(list) : list[j].key[1] = k[1] => 1 = j
      BY <1>4 DEF Apt, list
    <3> QED
      BY <2>3, <3>1, <3>2
  <2>6. \A j \in 1 .. Len(Tail(list)) : Tail(list)[j].key[1] = n[1] => i = j
    <3> SUFFICES ASSUME NEW j \in 1 .. Len(Tail(list)), Tail(list)[j].key[1] = n[1] PROVE i = j
      OBVIOUS
    <3>1. j + 1 \in 1 .. Len(list) /\ list[j + 1].key[1] = n[1] /\ j \in Nat
      BY <1>7
    <3>2. i + 1 = j + 1
      BY <2>4, <3>1 DEF Apt, list
    <3> QED
      BY <2>3, <3>1, <3>2
  <2>7. \A m \in Keys : Newest(m)' /\ m[1] = n[1] => Unsent(m)'
    BY <1>2, <1>3, <2>4, <2>5 DEF Apt
  <2>8. Tail(list)[i].kind = list[i + 1].kind
    BY <1>7, <1>9, <2>1, <2>2
  <2>9. Newest(n)' => /\ Tail(list)[i].kind = word[n[1]]
                      /\ \A m \in Keys : Unsent(m)' /\ m[1] = n[1] => m = n
    BY <1>2, <1>3, <2>4, <2>8 DEF Apt, list
  <2> QED
    BY <1>3, <2>1, <2>2, <2>4, <2>6, <2>7, <2>9 DEF Apt
<1>10. \A o \in Senders : sender'[o].pc \notin {"compacted", "answered"}
  BY <1>5, <1>6 DEF NoWork
<1>11. \A u \in Urls : word'[u] = "none" => told'["google"][u] = "none"
  BY <1>3 DEF SentInv
<1> QED
  BY <1>3, <1>8, <1>9, <1>10, <1>11 DEF SentInv

LEMMA SentStep ==
    ASSUME ~CommitAtFetch, TypeOK, QuotaInv, NewestInv, SentInv, [Next]_vars
    PROVE  SentInv'
<1>t. /\ sender \in [Senders -> Sender]
      /\ told \in [{"google", "indexnow"} -> [Urls -> Kinds \cup {"none"}]]
  BY DEF TypeOK
<1>1. CASE NewDay
  <2>1. \A s \in Senders : SameWork(s)
    BY <1>1, <1>t DEF NewDay, Sender, SameWork
  <2> QED
    BY <1>1, <2>1, NewDayTable, SentKept DEF NewDay
<1>2. CASE Mark
  <2>1. \A s \in Senders : SameWork(s)
    BY <1>2 DEF Mark, SameWork
  <2> QED
    BY <1>2, <2>1, MarkTable, SentKept DEF Mark
<1>3. CASE Submit \/ Collect \/ Reject \/ UNCHANGED vars
  <2>1. UNCHANGED <<queue, word>> /\ told'["google"] = told["google"] /\ sender' = sender
    BY <1>3, <1>t DEF Submit, Collect, Reject, vars
  <2>2. \A s \in Senders : SameWork(s)
    BY <2>1 DEF SameWork
  <2> QED
    BY <2>1, <2>2, QuietTable, SentKept
<1>4. ASSUME NEW s \in Senders, Finish(s) PROVE SentInv'
  <2>1. \A o \in Senders : SameWork(o) \/ NoWork(o)
    BY <1>4, <1>t DEF Finish, IdleSender, SameWork, NoWork
  <2> QED
    BY <1>4, <2>1, FinishTable, SentKept DEF Finish
<1>5. ASSUME NEW s \in Senders, CrashSender(s) PROVE SentInv'
  <2>1. \A o \in Senders : SameWork(o) \/ NoWork(o)
    BY <1>5, <1>t DEF CrashSender, IdleSender, SameWork, NoWork
  <2> QED
    BY <1>5, <2>1, QuietTable, SentKept DEF CrashSender
<1>6. ASSUME NEW s \in Senders, Skip(s) PROVE SentInv'
  <2>1. \A o \in Senders : SameWork(o)
    BY <1>6 DEF Skip, SameWork
  <2> QED
    BY <1>6, <2>1, QuietTable, SentKept DEF Skip
<1>7. ASSUME NEW s \in Senders, Start(s) PROVE SentInv'
  <2> DEFINE used == Cardinality(SentToday)
             left == IF used < Limit THEN Limit - used ELSE 0
             new == [IdleSender EXCEPT !.pc = "counted", !.remaining = left]
  <2>1. sender' = [sender EXCEPT ![s] = new] /\ UNCHANGED <<queue, word, told>>
    BY <1>7 DEF Start
  <2> HIDE DEF left
  <2>2. new.todo = <<>> /\ new.pc = "counted"
    BY DEF IdleSender
  <2> HIDE DEF new
  <2>3. \A o \in Senders : SameWork(o) \/ NoWork(o)
    BY <1>t, <2>1, <2>2 DEF SameWork, NoWork
  <2> QED
    BY <2>1, <2>3, QuietTable, SentKept
<1> QED
  BY <1>1, <1>2, <1>3, <1>4, <1>5, <1>6, <1>7,
     SentPublish, SentCompact, SentFetch, SentPost, SentRecord
  DEF Next, SenderStep, IndexNowStep

\* A URL with no row left to send stands at Google as it was queued last
\* (SeoQueue!GoogleInformed), for both senders, with crashes, lost answers and
\* spent retries, as long as no publication commits between the two statements of
\* compact_and_fetch_pending: a sender would then have two rows of a URL on its
\* list and might send the older one last.
THEOREM GoogleKnows == ~CommitAtFetch => (Spec => []GoogleInformed)
<1> SUFFICES ASSUME ~CommitAtFetch PROVE Spec => []GoogleInformed
  OBVIOUS
<1>1. NewestInv /\ SentInv => GoogleInformed
  <2> SUFFICES ASSUME NewestInv, SentInv, NEW u \in Urls,
                      \A k \in Rows : k[1] = u => queue[k].sent # "no"
               PROVE  told["google"][u] = word[u]
    BY DEF GoogleInformed
  <2>1. CASE word[u] = "none"
    BY <2>1 DEF SentInv
  <2>2. CASE word[u] # "none"
    <3>1. PICK k \in Keys : k[1] = u /\ Newest(k)
      BY <2>2 DEF NewestInv
    <3>2. ~Unsent(k)
      BY <3>1 DEF Unsent
    <3> QED
      BY <3>1, <3>2 DEF SentInv
  <2> QED
    BY <2>1, <2>2
<1> QED
  BY <1>1, KnowledgeStart, QuotaStart, QuotaStep, NewestStep, SentStep, TypeCorrect, PTL DEF Spec

=============================================================================
