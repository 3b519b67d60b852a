----------------------------- MODULE CareerProofs -----------------------------
(***************************************************************************)
(* Proofs about the two career components: the agent that searches for     *)
(* recruiters (CareerAgent) and the engine that crawls the employers' own  *)
(* hosts (CareerHost).                                                     *)
(***************************************************************************)
EXTENDS CareerAgent, CareerHost, FiniteSetTheorems, TLAPS

-----------------------------------------------------------------------------
\* Counting: the units of a function are its sum.

\* The values of a function on a finite set are finitely many.
LEMMA FiniteRange ==
  ASSUME NEW S, IsFiniteSet(S), NEW f, f = [x \in S |-> f[x]]
  PROVE  IsFiniteSet({f[x] : x \in S})
<1> DEFINE T == {f[x] : x \in S}
<1>1. f \in [S -> T]
  OBVIOUS
<1>2. \A y \in T : \E x \in S : f[x] = y
  OBVIOUS
<1>3. f \in Surjection(S, T)
  BY <1>1, <1>2 DEF Surjection
<1> QED
  BY <1>3, FS_Surjection

LEMMA PileFinite ==
  ASSUME NEW x, NEW n \in Nat
  PROVE  IsFiniteSet({x} \X (1..n)) /\ Cardinality({x} \X (1..n)) = n
<1>1. IsFiniteSet({x}) /\ Cardinality({x}) = 1
  BY FS_Singleton
<1>2. IsFiniteSet(1..n) /\ Cardinality(1..n) = n
  BY FS_Interval
<1>3. /\ IsFiniteSet({x} \X (1..n))
      /\ Cardinality({x} \X (1..n)) = Cardinality({x}) * Cardinality(1..n)
  BY <1>1, <1>2, FS_Product
<1> QED
  BY <1>1, <1>2, <1>3

LEMMA UnitsFinite ==
  ASSUME NEW S, IsFiniteSet(S), NEW f \in [S -> Nat]
  PROVE  IsFiniteSet(Units(f)) /\ Cardinality(Units(f)) \in Nat
<1> DEFINE pile == [x \in S |-> {x} \X (1..f[x])]
           P == {pile[x] : x \in S}
<1>1. IsFiniteSet(P)
  <2>1. pile = [x \in S |-> pile[x]]
    OBVIOUS
  <2> HIDE DEF pile
  <2> QED
    BY <2>1, FiniteRange
<1>2. \A Q \in P : IsFiniteSet(Q)
  <2> SUFFICES ASSUME NEW x \in S PROVE IsFiniteSet({x} \X (1..f[x]))
    OBVIOUS
  <2>1. f[x] \in Nat
    OBVIOUS
  <2> QED
    BY <2>1, PileFinite
<1>3. IsFiniteSet(UNION P)
  BY <1>1, <1>2, FS_UNION
<1>4. Units(f) = UNION P
  BY DEF Units
<1> QED
  BY <1>3, <1>4, FS_CardinalityType

LEMMA DisjointUnion ==
  ASSUME NEW A, NEW B, IsFiniteSet(A), IsFiniteSet(B), A \cap B = {}
  PROVE  Cardinality(A \cup B) = Cardinality(A) + Cardinality(B)
<1>1. Cardinality(A \cup B) = Cardinality(A) + Cardinality(B) - Cardinality(A \cap B)
  BY FS_Union
<1>2. Cardinality(A) \in Nat /\ Cardinality(B) \in Nat
  BY FS_CardinalityType
<1>3. Cardinality(A \cap B) = 0
  BY FS_EmptySet, Zenon
<1> QED
  BY <1>1, <1>2, <1>3

\* Changing one value changes the sum by as much.
LEMMA UnitsChange ==
  ASSUME NEW S, IsFiniteSet(S), NEW f \in [S -> Nat], NEW x \in S, NEW n \in Nat
  PROVE  Cardinality(Units([f EXCEPT ![x] = n])) = Cardinality(Units(f)) - f[x] + n
<1> DEFINE g == [f EXCEPT ![x] = n]
           Rest == UNION {{y} \X (1..f[y]) : y \in S \ {x}}
           Old == {x} \X (1..f[x])
           New == {x} \X (1..n)
<1>1. Units(f) = Rest \cup Old
  BY DEF Units
<1>2. Units(g) = Rest \cup New
  BY DEF Units
<1>3. Rest \cap Old = {} /\ Rest \cap New = {}
  OBVIOUS
<1>4. Rest \in SUBSET Units(f)
  BY <1>1
<1>5. f[x] \in Nat
  OBVIOUS
<1>6. IsFiniteSet(Old) /\ Cardinality(Old) = f[x]
  BY <1>5, PileFinite
<1>7. IsFiniteSet(New) /\ Cardinality(New) = n
  BY PileFinite
<1> HIDE DEF Rest, Old, New, g
<1>8. IsFiniteSet(Rest)
  BY <1>4, UnitsFinite, FS_Subset
<1>9. Cardinality(Rest \cup Old) = Cardinality(Rest) + f[x]
  BY <1>3, <1>6, <1>8, DisjointUnion
<1>10. Cardinality(Rest \cup New) = Cardinality(Rest) + n
  BY <1>3, <1>7, <1>8, DisjointUnion
<1>11. Cardinality(Rest) \in Nat
  BY <1>8, FS_CardinalityType
<1>12. Cardinality(Units(g)) = Cardinality(Units(f)) - f[x] + n
  BY <1>1, <1>2, <1>5, <1>9, <1>10, <1>11
<1> QED
  BY <1>12 DEF g

\* A sum of terms that are at most m.
LEMMA UnitsBound ==
  ASSUME NEW S, IsFiniteSet(S), NEW m \in Nat, NEW f \in [S -> Nat], \A x \in S : f[x] <= m
  PROVE  Cardinality(Units(f)) <= Cardinality(S) * m
<1>1. Units(f) \in SUBSET (S \X (1..m))
  <2> SUFFICES ASSUME NEW u \in Units(f) PROVE u \in S \X (1..m)
    OBVIOUS
  <2>1. PICK x \in S : u \in {x} \X (1..f[x])
    BY DEF Units
  <2>2. \A k \in 1..f[x] : k \in 1..m
    <3>1. f[x] \in Nat /\ f[x] <= m
      OBVIOUS
    <3> QED
      BY <3>1
  <2> QED
    BY <2>1, <2>2
<1>2. IsFiniteSet(1..m) /\ Cardinality(1..m) = m
  BY FS_Interval
<1>3. IsFiniteSet(S \X (1..m)) /\ Cardinality(S \X (1..m)) = Cardinality(S) * m
  BY <1>2, FS_Product
<1> QED
  BY <1>1, <1>3, FS_Subset

\* The same when one of them is zero.
LEMMA UnitsBoundButOne ==
  ASSUME NEW S, IsFiniteSet(S), NEW m \in Nat, NEW f \in [S -> Nat], \A y \in S : f[y] <= m,
         NEW x \in S, f[x] = 0
  PROVE  Cardinality(Units(f)) <= (Cardinality(S) - 1) * m
<1> DEFINE g == [f EXCEPT ![x] = m]
<1>1. g \in [S -> Nat] /\ \A y \in S : g[y] <= m
  OBVIOUS
<1>2. Cardinality(Units(g)) <= Cardinality(S) * m
  <2> HIDE DEF g
  <2> QED
    BY <1>1, UnitsBound
<1>3. Cardinality(Units(g)) = Cardinality(Units(f)) - f[x] + m
  BY UnitsChange
<1>4. Cardinality(S) \in Nat /\ Cardinality(Units(f)) \in Nat
  BY FS_CardinalityType, UnitsFinite
<1>5. (Cardinality(S) - 1) * m = Cardinality(S) * m - m
  BY <1>4
<1>6. Cardinality(S) * m \in Nat
  BY <1>4
<1> DEFINE k == Cardinality(S) * m
<1> HIDE DEF g, k
<1>7. Cardinality(Units(f)) + m <= k
  BY <1>2, <1>3, <1>4 DEF k
<1> QED
  BY <1>4, <1>5, <1>6, <1>7 DEF k

-----------------------------------------------------------------------------
\* CareerAgent: type correctness.

\* What a step writes of one worker: a job, and never the idle record.
LEMMA JobsAreBusy == ASSUME NEW j \in Job PROVE j # Free /\ j.step # "idle"
<1>1. j.step \in Step
  BY DEF Job
<1>2. j.step # "idle"
  BY <1>1 DEF Step
<1> QED
  BY <1>2 DEF Free

LEMMA BusyJob ==
  ASSUME AgentTypeOK, NEW w \in Workers, job[w].step # "idle"
  PROVE  /\ job[w] \in Job /\ job[w] # Free
         /\ job[w].campaign \in Campaigns /\ job[w].found \in SUBSET (Contacts \X Kind)
         /\ job[w].units \in Nat
<1>1. job[w] \in Job \cup {Free}
  BY DEF AgentTypeOK
<1>2. job[w] \in Job
  BY <1>1 DEF Free
<1> QED
  BY <1>2, JobsAreBusy DEF Job

LEMMA MergeType ==
  ASSUME NEW A \in SUBSET (Contacts \X Kind), NEW B \in SUBSET (Contacts \X Kind)
  PROVE  merge_contacts(A, B) \in SUBSET (Contacts \X Kind)
<1>1. Who(A) \subseteq Contacts /\ Who(B) \subseteq Contacts
  BY DEF Who
<1>2. From("both", Who(A) \cap Who(B)) \subseteq Contacts \X Kind
  BY <1>1 DEF From, Kind
<1> QED
  BY <1>2 DEF merge_contacts

LEMMA FoundFinite ==
  ASSUME NEW found \in SUBSET (Contacts \X Kind)
  PROVE  /\ IsFiniteSet(found) /\ Cardinality(found) \in Nat
         /\ IsFiniteSet(Who(found)) /\ Cardinality(Who(found)) \in Nat
<1>1. IsFiniteSet({"web", "lander", "both"})
  <2>1. IsFiniteSet({"web"}) /\ IsFiniteSet({"lander"}) /\ IsFiniteSet({"both"})
    BY FS_Singleton
  <2>2. IsFiniteSet({"web"} \cup {"lander"})
    BY <2>1, FS_Union
  <2>3. IsFiniteSet(({"web"} \cup {"lander"}) \cup {"both"})
    BY <2>1, <2>2, FS_Union
  <2>4. ({"web"} \cup {"lander"}) \cup {"both"} = {"web", "lander", "both"}
    OBVIOUS
  <2> QED
    BY <2>3, <2>4
<1>2. IsFiniteSet(Contacts \X Kind)
  BY <1>1, PopulationAssumption, FS_Product DEF Kind
<1>3. IsFiniteSet(found)
  BY <1>2, FS_Subset
<1>4. Who(found) \in SUBSET Contacts
  BY DEF Who
<1>5. IsFiniteSet(Who(found))
  BY <1>4, PopulationAssumption, FS_Subset
<1> QED
  BY <1>3, <1>5, FS_CardinalityType

LEMMA TotalNat == ASSUME AgentTypeOK PROVE Total \in Nat
  BY PopulationAssumption, UnitsFinite DEF AgentTypeOK, Total

\* What is left of the month, or nothing.
LEMMA BudgetLeft ==
  ASSUME AgentTypeOK, NEW c \in Campaigns
  PROVE  /\ serper_budget(c) \in Nat
         /\ serper_budget(c) # 0 => serper_budget(c) <= MONTHLY_SERPER_BUDGET - Total
<1>1. used[c] \in Nat /\ Total \in Nat
  BY TotalNat DEF AgentTypeOK
<1>2. MAX_SERPER_QUERIES \in Nat /\ MONTHLY_SERPER_BUDGET \in Nat
  BY BudgetAssumption
<1> QED
  BY <1>1, <1>2 DEF serper_budget, Larger, Smaller

LEMMA LimitsNat ==
  /\ MostAtOnce \in Nat
  /\ \A n \in Nat : Wanted(n) \in Nat /\ Wanted(n) <= MostAtOnce
  /\ \A n, b \in Nat : /\ Smaller(n, Smaller(EmailQueries, b)) \in Nat
                       /\ Smaller(n, Smaller(EmailQueries, b)) <= MostAtOnce
                       /\ Smaller(n, Smaller(EmailQueries, b)) <= b
<1>1. WebQueries \in Nat /\ EmailQueries \in Nat /\ MAX_LEADS \in Nat
  BY BudgetAssumption
<1>2. MostAtOnce \in Nat
  BY <1>1 DEF MostAtOnce, Larger
<1>3. ASSUME NEW n \in Nat PROVE Wanted(n) \in Nat /\ Wanted(n) <= MostAtOnce
  <2>1. (Larger(0, MAX_LEADS - n) + 2) \div 3 \in Nat
    BY <1>1 DEF Larger
  <2> QED
    BY <1>1, <2>1 DEF Wanted, MostAtOnce, Larger, Smaller
<1>4. ASSUME NEW n \in Nat, NEW b \in Nat
      PROVE  /\ Smaller(n, Smaller(EmailQueries, b)) \in Nat
             /\ Smaller(n, Smaller(EmailQueries, b)) <= MostAtOnce
             /\ Smaller(n, Smaller(EmailQueries, b)) <= b
  BY <1>1 DEF MostAtOnce, Larger, Smaller
<1> QED
  BY <1>2, <1>3, <1>4

LEMMA AgentTypeInit == AgentInit => AgentTypeOK
<1> SUFFICES ASSUME AgentInit PROVE AgentTypeOK
  OBVIOUS
<1>1. StaleTicks \in Nat /\ MaxCrashes \in Nat
  BY BudgetAssumption
<1> QED
  BY <1>1 DEF AgentInit, AgentTypeOK, Status

\* Writing an event resets the clock of the campaign.
LEMMA EventType ==
  ASSUME AgentTypeOK, NEW w \in Workers, job[w].step # "idle",
         NEW next \in Job \cup {Free}, Event(w, next)
  PROVE  quiet' \in [Campaigns -> 0..StaleTicks] /\ job' \in [Workers -> Job \cup {Free}]
<1>1. job[w].campaign \in Campaigns /\ 0 \in 0..StaleTicks
  BY BusyJob, BudgetAssumption
<1>2. quiet' = [quiet EXCEPT ![job[w].campaign] = 0]
  BY DEF Event
<1>3. job' = [job EXCEPT ![w] = next]
  BY DEF Event
<1> QED
  BY <1>1, <1>2, <1>3 DEF AgentTypeOK

LEMMA ChargedType ==
  ASSUME AgentTypeOK, NEW w \in Workers, job[w].step # "idle"
  PROVE  Charged(w) \in [Campaigns -> Nat]
<1>1. job[w].campaign \in Campaigns /\ job[w].units \in Nat
  BY BusyJob
<1> QED
  BY <1>1 DEF AgentTypeOK, Charged

\* The records that the steps of process write.
LEMMA ProcessJobs ==
  ASSUME AgentTypeOK, NEW w \in Workers, process(w)
  PROVE  \E next \in Job \cup {Free} : job' = [job EXCEPT ![w] = next]
<1>1. job[w].step # "idle"
  BY DEF process, LanderSearch, CacheSearch, WebSearch, Verify, MailSearch,
         enrich_recruiter_emails, Drafting, Ready
<1>2. job[w] \in Job /\ job[w].units \in Nat /\ job[w].campaign \in Campaigns
      /\ job[w].found \in SUBSET (Contacts \X Kind)
  BY <1>1, BusyJob
<1>3. CASE LanderSearch(w)
  <2>1. [job[w] EXCEPT !.step = "planning"] \in Job
    BY <1>2 DEF Job, Step
  <2> QED
    BY <1>3, <2>1 DEF LanderSearch, Event
<1>4. CASE CacheSearch(w)
  <2>1. PICK lander \in lander_contacts, cached \in cached_recruiters :
          job' = [job EXCEPT ![w] = [job[w] EXCEPT !.step = "searching",
                   !.found = merge_contacts(cached, lander),
                   !.units = Smaller(Wanted(Cardinality(merge_contacts(cached, lander))),
                                     serper_budget(job[w].campaign))]]
    BY <1>4 DEF CacheSearch, Event
  <2>2. pool \subseteq Contacts
    BY DEF AgentTypeOK
  <2>3. cached \in SUBSET (Contacts \X Kind) /\ lander \in SUBSET (Contacts \X Kind)
    BY <2>2 DEF cached_recruiters, lander_contacts, From, Kind
  <2>4. merge_contacts(cached, lander) \in SUBSET (Contacts \X Kind)
    BY <2>3, MergeType
  <2>5. Cardinality(merge_contacts(cached, lander)) \in Nat
    BY <2>4, FoundFinite
  <2>6. Smaller(Wanted(Cardinality(merge_contacts(cached, lander))), serper_budget(job[w].campaign)) \in Nat
    <3>1. serper_budget(job[w].campaign) \in Nat
      BY <1>2, BudgetLeft
    <3>2. Wanted(Cardinality(merge_contacts(cached, lander))) \in Nat
      BY <2>5, LimitsNat
    <3> QED
      BY <3>1, <3>2 DEF Smaller
  <2>7. [job[w] EXCEPT !.step = "searching", !.found = merge_contacts(cached, lander),
           !.units = Smaller(Wanted(Cardinality(merge_contacts(cached, lander))),
                             serper_budget(job[w].campaign))] \in Job
    BY <1>2, <2>4, <2>6 DEF Job, Step
  <2> QED
    BY <2>1, <2>7
<1>5. CASE WebSearch(w)
  <2>1. PICK executed \in 0..job[w].units, web \in web_contacts :
          job' = [job EXCEPT ![w].step = "searched", ![w].units = executed,
                             ![w].found = merge_contacts(@, web)]
    BY <1>5 DEF WebSearch
  <2>2. web \in SUBSET (Contacts \X Kind)
    BY DEF web_contacts, From, Kind
  <2>3. merge_contacts(job[w].found, web) \in SUBSET (Contacts \X Kind)
    BY <1>2, <2>2, MergeType
  <2>4. executed \in Nat
    BY <1>2
  <2>5. [job[w] EXCEPT !.step = "searched", !.units = executed,
           !.found = merge_contacts(job[w].found, web)] \in Job
    BY <1>2, <2>3, <2>4 DEF Job, Step
  <2>6. job' = [job EXCEPT ![w] = [job[w] EXCEPT !.step = "searched", !.units = executed,
                                     !.found = merge_contacts(job[w].found, web)]]
    BY <2>1 DEF AgentTypeOK
  <2> QED
    BY <2>5, <2>6
<1>6. CASE Verify(w)
  <2>1. [job[w] EXCEPT !.step = "mailing", !.units = 0] \in Job
    BY <1>2 DEF Job, Step
  <2> QED
    BY <1>6, <2>1 DEF Verify, Event
<1>7. CASE MailSearch(w)
  <2>1. Smaller(Cardinality(job[w].found), Smaller(EmailQueries, MailBudget(w))) \in Nat
    <3>1. MailBudget(w) \in Nat
      BY <1>2, BudgetLeft DEF MailBudget
    <3>2. Cardinality(job[w].found) \in Nat
      BY <1>2, FoundFinite
    <3> QED
      BY <3>1, <3>2, LimitsNat
  <2>2. [job[w] EXCEPT !.step = "finding",
           !.units = Smaller(Cardinality(job[w].found), Smaller(EmailQueries, MailBudget(w)))] \in Job
    BY <1>2, <2>1 DEF Job, Step
  <2> QED
    BY <1>7, <2>2 DEF MailSearch, Event
<1>8. CASE enrich_recruiter_emails(w)
  <2>1. PICK queries \in 0..job[w].units :
          job' = [job EXCEPT ![w].step = "found", ![w].units = queries]
    BY <1>8 DEF enrich_recruiter_emails
  <2>2. queries \in Nat
    BY <1>2
  <2>3. [job[w] EXCEPT !.step = "found", !.units = queries] \in Job
    BY <1>2, <2>2 DEF Job, Step
  <2>4. job' = [job EXCEPT ![w] = [job[w] EXCEPT !.step = "found", !.units = queries]]
    BY <2>1 DEF AgentTypeOK
  <2> QED
    BY <2>3, <2>4
<1>9. CASE Drafting(w)
  <2>1. PICK best \in select_contacts(job[w].found) :
          job' = [job EXCEPT ![w] = [job[w] EXCEPT !.step = "writing", !.found = best, !.units = 0]]
    BY <1>9 DEF Drafting, Event
  <2>2. best \in SUBSET (Contacts \X Kind)
    BY <1>2 DEF select_contacts
  <2>3. [job[w] EXCEPT !.step = "writing", !.found = best, !.units = 0] \in Job
    BY <1>2, <2>2 DEF Job, Step
  <2> QED
    BY <2>1, <2>3
<1>10. CASE Ready(w)
  BY <1>10 DEF Ready, Event
<1> QED
  BY <1>3, <1>4, <1>5, <1>6, <1>7, <1>8, <1>9, <1>10 DEF process

LEMMA AgentTypeStep == AgentTypeOK /\ [AgentNext]_agentVars => AgentTypeOK'
<1> SUFFICES ASSUME AgentTypeOK, [AgentNext]_agentVars PROVE AgentTypeOK'
  OBVIOUS
<1>1. CASE UNCHANGED agentVars
  BY <1>1 DEF agentVars, AgentTypeOK
<1>2. ASSUME NEW w \in Workers, Claim(w) PROVE AgentTypeOK'
  <2>1. PICK c \in Campaigns :
          /\ status' = [Recovered EXCEPT ![c] = "running"]
          /\ quiet' = [d \in Campaigns |-> IF d \in Stale \cup {c} THEN 0 ELSE quiet[d]]
          /\ job' = [job EXCEPT ![w] = [step |-> "claimed", campaign |-> c, found |-> {}, units |-> 0]]
          /\ UNCHANGED <<answers, used, crashes>>
    BY <1>2 DEF Claim
  <2>2. status' \in [Campaigns -> Status]
    BY <2>1 DEF AgentTypeOK, Recovered, Status
  <2>3. quiet' \in [Campaigns -> 0..StaleTicks]
    BY <2>1, BudgetAssumption DEF AgentTypeOK
  <2>4. [step |-> "claimed", campaign |-> c, found |-> {}, units |-> 0] \in Job
    BY DEF Job, Step
  <2>5. job' \in [Workers -> Job \cup {Free}]
    BY <2>1, <2>4 DEF AgentTypeOK
  <2> QED
    BY <2>1, <2>2, <2>3, <2>5 DEF AgentTypeOK, answers
<1>3. ASSUME NEW w \in Workers, process(w) PROVE AgentTypeOK'
  <2>1. job[w].step # "idle"
    BY <1>3 DEF process, LanderSearch, CacheSearch, WebSearch, Verify, MailSearch,
           enrich_recruiter_emails, Drafting, Ready
  <2>2. job' \in [Workers -> Job \cup {Free}]
    BY <1>3, ProcessJobs DEF AgentTypeOK
  <2>3. quiet' \in [Campaigns -> 0..StaleTicks]
    <3>1. job[w].campaign \in Campaigns /\ 0 \in 0..StaleTicks
      BY <2>1, BusyJob, BudgetAssumption
    <3>2. UNCHANGED quiet \/ quiet' = [quiet EXCEPT ![job[w].campaign] = 0]
      BY <1>3 DEF process, LanderSearch, CacheSearch, WebSearch, Verify, MailSearch,
             enrich_recruiter_emails, Drafting, Ready, Event
    <3> QED
      BY <3>1, <3>2 DEF AgentTypeOK
  <2>4. used' \in [Campaigns -> Nat]
    <3>1. UNCHANGED used \/ used' = Charged(w)
      BY <1>3 DEF process, LanderSearch, CacheSearch, WebSearch, Verify, MailSearch,
             enrich_recruiter_emails, Drafting, Ready
    <3> QED
      BY <2>1, <3>1, ChargedType DEF AgentTypeOK
  <2>5. crashes' = crashes
    BY <1>3 DEF process, LanderSearch, CacheSearch, WebSearch, Verify, MailSearch,
           enrich_recruiter_emails, Drafting, Ready
  <2>6. CASE Ready(w)
    <3> DEFINE c == job[w].campaign
               found == Who(job[w].found)
    <3>1. c \in Campaigns /\ found \in SUBSET Contacts /\ Cardinality(found) \in Nat
      BY <2>1, BusyJob, FoundFinite DEF Who
    <3>2. /\ pool' = pool \cup found
          /\ leads' = [leads EXCEPT ![c] = leads[c] \cup found]
          /\ lead_count' = [lead_count EXCEPT ![c] = Cardinality(found)]
          /\ status' = [status EXCEPT ![c] = "ready"]
      BY <2>6 DEF Ready, LeadsUpserted, AgentTypeOK
    <3> HIDE DEF c, found
    <3>3. status' \in [Campaigns -> Status] /\ lead_count' \in [Campaigns -> Nat]
      BY <3>1, <3>2 DEF AgentTypeOK, Status
    <3>4. leads' \in [Campaigns -> SUBSET Contacts] /\ pool' \subseteq Contacts
      BY <3>1, <3>2 DEF AgentTypeOK
    <3> QED
      BY <2>2, <2>3, <2>4, <2>5, <3>3, <3>4 DEF AgentTypeOK
  <2>7. CASE ~Ready(w)
    <3>1. UNCHANGED <<status, answers>>
      BY <1>3, <2>7 DEF process, LanderSearch, CacheSearch, WebSearch, Verify, MailSearch,
             enrich_recruiter_emails, Drafting
    <3> QED
      BY <2>2, <2>3, <2>4, <2>5, <3>1 DEF AgentTypeOK, answers
  <2> QED
    BY <2>6, <2>7
<1>4. ASSUME NEW w \in Workers, Fail(w) PROVE AgentTypeOK'
  <2>1. job[w] \in Job
    BY <1>4 DEF Fail, AgentTypeOK
  <2>2. job[w].step # "idle" /\ job[w].campaign \in Campaigns
    BY <2>1, JobsAreBusy DEF Job
  <2>3. Event(w, Free)
    BY <1>4 DEF Fail
  <2>4. quiet' \in [Campaigns -> 0..StaleTicks] /\ job' \in [Workers -> Job \cup {Free}]
    BY <2>2, <2>3, EventType
  <2>5. status' \in [Campaigns -> Status]
    BY <1>4, <2>2 DEF Fail, AgentTypeOK, Status
  <2> QED
    BY <1>4, <2>4, <2>5 DEF Fail, AgentTypeOK, answers
<1>5. ASSUME NEW w \in Workers, Crash(w) PROVE AgentTypeOK'
  <2>1. job' \in [Workers -> Job \cup {Free}]
    BY <1>5 DEF Crash, AgentTypeOK
  <2>2. crashes' \in 0..MaxCrashes
    BY <1>5, BudgetAssumption DEF Crash, AgentTypeOK
  <2> QED
    BY <1>5, <2>1, <2>2 DEF Crash, AgentTypeOK, answers
<1>6. CASE Tick
  <2>1. quiet' \in [Campaigns -> 0..StaleTicks]
    BY <1>6, BudgetAssumption DEF Tick, AgentTypeOK, Smaller
  <2> QED
    BY <1>6, <2>1 DEF Tick, AgentTypeOK, answers
<1> QED
  BY <1>1, <1>2, <1>3, <1>4, <1>5, <1>6 DEF AgentNext

\* Every reachable state of the career agent is well formed: a job is a step of
\* process on one campaign, and counts and clocks stay in their ranges.
THEOREM AgentTypeCorrect == AgentSpec => []AgentTypeOK
  BY AgentTypeInit, AgentTypeStep, PTL DEF AgentSpec

-----------------------------------------------------------------------------
\* CareerAgent: the month's budget.

\* The searches that each worker has been granted and not yet recorded.
Flight == [w \in Workers |-> IF job[w] = Free THEN 0 ELSE job[w].units]

\* The steps between the grant and the commit that records it.
Spending == {"searching", "searched", "finding", "found"}

UnitsBounded == \A w \in Workers : job[w] # Free =>
    /\ job[w].units <= MostAtOnce
    /\ job[w].step \notin Spending => job[w].units = 0

BudgetHeld ==
    Total + Cardinality(Units(Flight)) <= MONTHLY_SERPER_BUDGET + (Cardinality(Workers) - 1) * MostAtOnce

SpendInv == AgentTypeOK /\ UnitsBounded /\ BudgetHeld

LEMMA FlightType ==
  ASSUME AgentTypeOK, UnitsBounded
  PROVE  Flight \in [Workers -> Nat] /\ \A w \in Workers : Flight[w] <= MostAtOnce
<1> SUFFICES ASSUME NEW w \in Workers PROVE Flight[w] \in Nat /\ Flight[w] <= MostAtOnce
  BY DEF Flight
<1>1. CASE job[w] = Free
  BY <1>1, LimitsNat DEF Flight
<1>2. CASE job[w] # Free
  <2>1. job[w] \in Job
    BY <1>2 DEF AgentTypeOK
  <2> QED
    BY <1>2, <2>1 DEF Flight, UnitsBounded, Job
<1> QED
  BY <1>1, <1>2

\* The searches in flight after one worker's record changed.
LEMMA FlightStep ==
  ASSUME AgentTypeOK, UnitsBounded, NEW w \in Workers, NEW next, NEW u \in Nat,
         job' = [job EXCEPT ![w] = next], u = IF next = Free THEN 0 ELSE next.units
  PROVE  Cardinality(Units(Flight)') = Cardinality(Units(Flight)) - Flight[w] + u
<1>1. Flight' = [Flight EXCEPT ![w] = u]
  BY DEF Flight, AgentTypeOK
<1>2. Cardinality(Units([Flight EXCEPT ![w] = u])) = Cardinality(Units(Flight)) - Flight[w] + u
  BY FlightType, PopulationAssumption, UnitsChange
<1>3. Units(Flight)' = Units(Flight')
  BY DEF Units
<1> QED
  BY <1>1, <1>2, <1>3

\* What the others have in flight while a worker has nothing.
LEMMA OthersInFlight ==
  ASSUME AgentTypeOK, UnitsBounded, NEW w \in Workers, Flight[w] = 0
  PROVE  Cardinality(Units(Flight)) <= (Cardinality(Workers) - 1) * MostAtOnce
BY FlightType, LimitsNat, PopulationAssumption, UnitsBoundButOne

LEMMA ProductNat == ASSUME NEW a \in Nat, NEW b \in Nat PROVE a * b \in Nat
OBVIOUS

LEMMA FlightNat ==
  ASSUME AgentTypeOK, UnitsBounded
  PROVE  /\ Cardinality(Units(Flight)) \in Nat
         /\ (Cardinality(Workers) - 1) * MostAtOnce \in Nat
<1>1. Cardinality(Units(Flight)) \in Nat
  BY FlightType, PopulationAssumption, UnitsFinite
<1>2. Cardinality(Workers) \in Nat /\ Cardinality(Workers) # 0
  BY PopulationAssumption, FS_CardinalityType, FS_EmptySet, Zenon
<1>3. Cardinality(Workers) - 1 \in Nat
  BY <1>2
<1> QED
  BY <1>1, <1>3, LimitsNat, ProductNat

LEMMA SpendInit == AgentInit => UnitsBounded /\ BudgetHeld
<1> SUFFICES ASSUME AgentInit PROVE UnitsBounded /\ BudgetHeld
  OBVIOUS
<1>1. UnitsBounded
  BY DEF AgentInit, UnitsBounded
<1>2. AgentTypeOK
  BY AgentTypeInit
<1>3. Total = 0
  <2>1. used \in [Campaigns -> Nat] /\ \A c \in Campaigns : used[c] <= 0
    BY DEF AgentInit
  <2>2. Cardinality(Units(used)) <= Cardinality(Campaigns) * 0
    BY <2>1, PopulationAssumption, UnitsBound
  <2>3. Cardinality(Campaigns) \in Nat /\ Total \in Nat
    BY <1>2, TotalNat, PopulationAssumption, FS_CardinalityType
  <2> QED
    BY <2>2, <2>3 DEF Total
<1>4. PICK w \in Workers : TRUE
  BY PopulationAssumption
<1>5. Flight[w] = 0
  BY DEF AgentInit, Flight
<1> QED
  BY <1>1, <1>2, <1>3, <1>5, OthersInFlight, FlightNat, BudgetAssumption DEF BudgetHeld

\* A step of one worker's record keeps the bounds on all of them.
LEMMA BoundedStep ==
  ASSUME AgentTypeOK, UnitsBounded, NEW w \in Workers, NEW next,
         job' = [job EXCEPT ![w] = next],
         next # Free => /\ next.units <= MostAtOnce
                        /\ next.step \notin Spending => next.units = 0
  PROVE  UnitsBounded'
<1>1. MostAtOnce' = MostAtOnce
  BY DEF MostAtOnce, Larger
<1> QED
  BY <1>1 DEF AgentTypeOK, UnitsBounded

\* A step that spends nothing new: what was granted is recorded or given back.
LEMMA NothingGranted ==
  ASSUME SpendInv, NEW w \in Workers, NEW next, NEW u \in Nat,
         job' = [job EXCEPT ![w] = next], u = IF next = Free THEN 0 ELSE next.units,
         Total' \in Nat, Total' + u <= Total + Flight[w]
  PROVE  BudgetHeld'
<1>1. Cardinality(Units(Flight)') = Cardinality(Units(Flight)) - Flight[w] + u
  BY FlightStep DEF SpendInv
<1>2. Flight[w] \in Nat /\ Cardinality(Units(Flight)) \in Nat /\ Total \in Nat
      /\ (Cardinality(Workers) - 1) * MostAtOnce \in Nat /\ MONTHLY_SERPER_BUDGET \in Nat
  BY FlightType, FlightNat, TotalNat, BudgetAssumption DEF SpendInv
<1>3. Total + Cardinality(Units(Flight)) <= MONTHLY_SERPER_BUDGET + (Cardinality(Workers) - 1) * MostAtOnce
  BY DEF SpendInv, BudgetHeld
<1> DEFINE k == (Cardinality(Workers) - 1) * MostAtOnce
<1>4. BudgetHeld' <=> Total' + Cardinality(Units(Flight)') <= MONTHLY_SERPER_BUDGET + k
  BY DEF BudgetHeld, MostAtOnce, Larger
<1>5. Total + Cardinality(Units(Flight)) <= MONTHLY_SERPER_BUDGET + k /\ k \in Nat
  BY <1>2, <1>3
<1> HIDE DEF k
<1> QED
  BY <1>1, <1>2, <1>4, <1>5

\* A grant: the budget was read a moment before, so what is recorded and what
\* the worker may now spend fit into it; only the others come on top.
LEMMA Granted ==
  ASSUME SpendInv, NEW w \in Workers, Flight[w] = 0, NEW next, next # Free, next.units \in Nat,
         job' = [job EXCEPT ![w] = next], UNCHANGED used,
         next.units # 0 => next.units <= MONTHLY_SERPER_BUDGET - Total
  PROVE  BudgetHeld'
<1>1. Cardinality(Units(Flight)') = Cardinality(Units(Flight)) - Flight[w] + next.units
  BY FlightStep DEF SpendInv
<1>2. Cardinality(Units(Flight)) \in Nat /\ Total \in Nat
      /\ (Cardinality(Workers) - 1) * MostAtOnce \in Nat /\ MONTHLY_SERPER_BUDGET \in Nat
  BY FlightNat, TotalNat, BudgetAssumption DEF SpendInv
<1> DEFINE k == (Cardinality(Workers) - 1) * MostAtOnce
<1>3. Total + Cardinality(Units(Flight)) <= MONTHLY_SERPER_BUDGET + k /\ k \in Nat
  BY <1>2 DEF SpendInv, BudgetHeld
<1>4. Cardinality(Units(Flight)) <= k
  BY OthersInFlight DEF SpendInv
<1>5. BudgetHeld' <=> Total' + Cardinality(Units(Flight)') <= MONTHLY_SERPER_BUDGET + k
  BY DEF BudgetHeld, MostAtOnce, Larger
<1>6. Total' = Total
  BY DEF Total, Units
<1> HIDE DEF k
<1> QED
  BY <1>1, <1>2, <1>3, <1>4, <1>5, <1>6

LEMMA TotalStep ==
  ASSUME AgentTypeOK, NEW c \in Campaigns, NEW n \in Nat, used' = [used EXCEPT ![c] = n]
  PROVE  Total' = Total - used[c] + n
<1>1. used \in [Campaigns -> Nat]
  BY DEF AgentTypeOK
<1>2. Cardinality(Units([used EXCEPT ![c] = n])) = Cardinality(Units(used)) - used[c] + n
  BY <1>1, PopulationAssumption, UnitsChange
<1>3. Total' = Cardinality(Units(used'))
  BY DEF Total, Units
<1> QED
  BY <1>2, <1>3 DEF Total

\* Recording what a worker spent moves it from its flight to the total.
LEMMA ChargedTotal ==
  ASSUME AgentTypeOK, NEW w \in Workers, job[w].step # "idle", used' = Charged(w)
  PROVE  Total' = Total + Flight[w] /\ Total' \in Nat
<1>1. job[w].campaign \in Campaigns /\ job[w].units \in Nat /\ job[w] # Free
  BY BusyJob
<1>2. used[job[w].campaign] \in Nat
  BY <1>1 DEF AgentTypeOK
<1>3. used' = [used EXCEPT ![job[w].campaign] = used[job[w].campaign] + job[w].units]
  BY DEF Charged
<1>4. \A c \in Campaigns, n \in Nat :
        used' = [used EXCEPT ![c] = n] => Total' = Total - used[c] + n
  BY TotalStep
<1> DEFINE more == used[job[w].campaign] + job[w].units
<1>5. more \in Nat
  BY <1>1, <1>2
<1>6. Total' = Total - used[job[w].campaign] + more
  BY <1>1, <1>3, <1>4, <1>5, Zenon
<1>7. Flight[w] = job[w].units
  BY <1>1 DEF Flight
<1> QED
  BY <1>1, <1>2, <1>6, <1>7, TotalNat

\* The three kinds of steps: one that grants nothing, one that records, a grant.
LEMMA StepKeeps ==
  ASSUME SpendInv, NEW w \in Workers, NEW next \in Job \cup {Free}, job' = [job EXCEPT ![w] = next],
         UNCHANGED used,
         next # Free => next.units <= Flight[w] /\ (next.step \notin Spending => next.units = 0)
  PROVE  UnitsBounded' /\ BudgetHeld'
<1>1. Flight[w] \in Nat /\ Flight[w] <= MostAtOnce /\ MostAtOnce \in Nat
  BY FlightType, LimitsNat DEF SpendInv
<1>2. next # Free => next.units \in Nat /\ next.units <= MostAtOnce
  BY <1>1 DEF Job
<1>3. UnitsBounded'
  BY <1>2, BoundedStep DEF SpendInv
<1>4. Total' = Total /\ Total \in Nat
  BY TotalNat DEF Total, Units, SpendInv
<1>5. PICK u \in Nat : u = IF next = Free THEN 0 ELSE next.units
  BY <1>2
<1>6. Total' + u <= Total + Flight[w]
  BY <1>1, <1>4, <1>5
<1> QED
  BY <1>3, <1>4, <1>5, <1>6, NothingGranted

LEMMA StepRecords ==
  ASSUME SpendInv, NEW w \in Workers, NEW next \in Job, job' = [job EXCEPT ![w] = next],
         job[w].step # "idle", used' = Charged(w), next.units = 0
  PROVE  UnitsBounded' /\ BudgetHeld'
<1>1. next # Free /\ 0 \in Nat
  BY JobsAreBusy
<1>2. next.units <= MostAtOnce
  BY LimitsNat
<1>3. UnitsBounded'
  BY <1>1, <1>2, BoundedStep DEF SpendInv
<1>4. Total' = Total + Flight[w] /\ Total' \in Nat
  BY ChargedTotal DEF SpendInv
<1>5. Total' + 0 <= Total + Flight[w]
  BY <1>4
<1> QED
  BY <1>1, <1>3, <1>4, <1>5, NothingGranted

LEMMA StepGrants ==
  ASSUME SpendInv, NEW w \in Workers, NEW next \in Job, job' = [job EXCEPT ![w] = next],
         job[w] # Free, job[w].step \notin Spending, UNCHANGED used,
         next.step \in Spending, next.units <= MostAtOnce,
         NEW c \in Campaigns, next.units <= serper_budget(c)
  PROVE  UnitsBounded' /\ BudgetHeld'
<1>1. next # Free /\ next.units \in Nat
  BY JobsAreBusy DEF Job
<1>2. UnitsBounded'
  BY <1>1, BoundedStep DEF SpendInv
<1>3. Flight[w] = 0
  BY DEF Flight, SpendInv, UnitsBounded
<1>4. next.units # 0 => next.units <= MONTHLY_SERPER_BUDGET - Total
  <2>1. serper_budget(c) \in Nat
        /\ (serper_budget(c) # 0 => serper_budget(c) <= MONTHLY_SERPER_BUDGET - Total)
    BY BudgetLeft DEF SpendInv
  <2>2. Total \in Nat /\ MONTHLY_SERPER_BUDGET \in Nat
    BY TotalNat, BudgetAssumption DEF SpendInv
  <2> QED
    BY <1>1, <2>1, <2>2
<1> QED
  BY <1>1, <1>2, <1>3, <1>4, Granted

LEMMA SpendStep == SpendInv /\ [AgentNext]_agentVars => UnitsBounded' /\ BudgetHeld'
<1> SUFFICES ASSUME SpendInv, [AgentNext]_agentVars PROVE UnitsBounded' /\ BudgetHeld'
  OBVIOUS
<1>1. AgentTypeOK /\ UnitsBounded
  BY DEF SpendInv
<1>2. ASSUME UNCHANGED job, UNCHANGED used PROVE UnitsBounded' /\ BudgetHeld'
  BY <1>2 DEF SpendInv, UnitsBounded, BudgetHeld, Flight, Total, Units, MostAtOnce, Larger
<1>3. ASSUME NEW w \in Workers, job' = [job EXCEPT ![w] = Free], UNCHANGED used
      PROVE  UnitsBounded' /\ BudgetHeld'
  BY <1>3, StepKeeps
<1>4. ASSUME NEW w \in Workers, Claim(w) PROVE UnitsBounded' /\ BudgetHeld'
  <2>1. PICK c \in Campaigns :
          job' = [job EXCEPT ![w] = [step |-> "claimed", campaign |-> c, found |-> {}, units |-> 0]]
    BY <1>4 DEF Claim
  <2> DEFINE next == [step |-> "claimed", campaign |-> c, found |-> {}, units |-> 0]
  <2>2. next \in Job /\ next.units = 0 /\ job' = [job EXCEPT ![w] = next]
    BY <2>1 DEF Job, Step
  <2> HIDE DEF next
  <2>3. UNCHANGED used /\ next.units <= Flight[w]
    BY <1>1, <1>4, <2>2, FlightType DEF Claim
  <2> QED
    BY <2>2, <2>3, StepKeeps
<1>5. ASSUME NEW w \in Workers, process(w) PROVE UnitsBounded' /\ BudgetHeld'
  <2>1. job[w].step # "idle"
    BY <1>5 DEF process, LanderSearch, CacheSearch, WebSearch, Verify, MailSearch,
           enrich_recruiter_emails, Drafting, Ready
  <2>2. job[w] \in Job /\ job[w] # Free /\ job[w].units \in Nat /\ job[w].campaign \in Campaigns
        /\ job[w].found \in SUBSET (Contacts \X Kind)
    BY <1>1, <2>1, BusyJob
  <2>3. Flight[w] = job[w].units
    BY <2>2 DEF Flight
  <2>4. PICK next \in Job \cup {Free} : job' = [job EXCEPT ![w] = next]
    BY <1>1, <1>5, ProcessJobs
  <2>5. job'[w] = next /\ job \in [Workers -> Job \cup {Free}]
    BY <1>1, <2>4 DEF AgentTypeOK
  <2>6. CASE LanderSearch(w)
    <3>1. next = [job[w] EXCEPT !.step = "planning"] /\ UNCHANGED used
      BY <2>5, <2>6 DEF LanderSearch, Event
    <3>2. next.units = job[w].units /\ job[w].units = 0
      BY <1>1, <2>2, <2>6, <3>1 DEF Job, LanderSearch, UnitsBounded, Spending
    <3>3. next.units = 0 /\ next.units <= Flight[w]
      BY <2>3, <3>2
    <3> QED
      BY <2>4, <3>1, <3>3, StepKeeps
  <2>7. CASE CacheSearch(w)
    <3>1. PICK lander \in lander_contacts, cached \in cached_recruiters :
            next = [job[w] EXCEPT !.step = "searching", !.found = merge_contacts(cached, lander),
                      !.units = Smaller(Wanted(Cardinality(merge_contacts(cached, lander))),
                                        serper_budget(job[w].campaign))]
      BY <2>5, <2>7 DEF CacheSearch, Event
    <3> DEFINE n == Cardinality(merge_contacts(cached, lander))
    <3>2. n \in Nat
      <4>1. pool \subseteq Contacts
        BY <1>1 DEF AgentTypeOK
      <4>2. cached \in SUBSET (Contacts \X Kind) /\ lander \in SUBSET (Contacts \X Kind)
        BY <4>1 DEF cached_recruiters, lander_contacts, From, Kind
      <4>3. merge_contacts(cached, lander) \in SUBSET (Contacts \X Kind)
        BY <4>2, MergeType
      <4> QED
        BY <4>3, FoundFinite
    <3>3. next.units = Smaller(Wanted(n), serper_budget(job[w].campaign)) /\ next.step = "searching"
      BY <2>2, <3>1 DEF Job
    <3> HIDE DEF n
    <3>4. Wanted(n) \in Nat /\ Wanted(n) <= MostAtOnce /\ MostAtOnce \in Nat
      BY <3>2, LimitsNat
    <3>5. serper_budget(job[w].campaign) \in Nat
      BY <1>1, <2>2, BudgetLeft
    <3>6. next.units <= MostAtOnce /\ next.units <= serper_budget(job[w].campaign)
      BY <3>3, <3>4, <3>5 DEF Smaller
    <3>7. next \in Job /\ next.step \in Spending
      BY <2>4, <3>3 DEF Free, Spending
    <3>8. job[w].step \notin Spending /\ UNCHANGED used
      BY <2>7 DEF CacheSearch, Spending
    <3> QED
      BY <2>2, <2>4, <3>6, <3>7, <3>8, StepGrants
  <2>8. CASE WebSearch(w)
    <3>1. PICK executed \in 0..job[w].units, web \in web_contacts :
            job' = [job EXCEPT ![w].step = "searched", ![w].units = executed,
                               ![w].found = merge_contacts(@, web)]
      BY <2>8 DEF WebSearch
    <3>2. next.step = "searched" /\ next.units = executed
      BY <2>2, <2>5, <3>1 DEF Job
    <3>3. next.units <= Flight[w] /\ next.step \in Spending /\ UNCHANGED used
      BY <2>2, <2>3, <2>8, <3>2 DEF WebSearch, Spending
    <3> QED
      BY <2>4, <3>3, StepKeeps
  <2>9. CASE Verify(w)
    <3>1. next = [job[w] EXCEPT !.step = "mailing", !.units = 0] /\ used' = Charged(w)
      BY <2>5, <2>9 DEF Verify, Event
    <3>2. next.units = 0 /\ next.step = "mailing"
      BY <2>2, <3>1 DEF Job
    <3>3. next \in Job
      BY <2>4, <3>2 DEF Free
    <3> QED
      BY <2>1, <2>4, <3>1, <3>2, <3>3, StepRecords
  <2>10. CASE MailSearch(w)
    <3> DEFINE n == Cardinality(job[w].found)
    <3>1. next = [job[w] EXCEPT !.step = "finding",
                    !.units = Smaller(n, Smaller(EmailQueries, MailBudget(w)))] /\ UNCHANGED used
      BY <2>5, <2>10 DEF MailSearch, Event
    <3>2. next.units = Smaller(n, Smaller(EmailQueries, MailBudget(w))) /\ next.step = "finding"
      BY <2>2, <3>1 DEF Job
    <3>3. n \in Nat
      BY <2>2, FoundFinite
    <3> HIDE DEF n
    <3>4. MailBudget(w) = serper_budget(job[w].campaign) /\ MailBudget(w) \in Nat
      BY <1>1, <2>2, BudgetLeft DEF MailBudget
    <3>5. next.units <= MostAtOnce /\ next.units <= serper_budget(job[w].campaign)
      BY <3>2, <3>3, <3>4, LimitsNat
    <3>6. next \in Job /\ next.step \in Spending
      BY <2>4, <3>2 DEF Free, Spending
    <3>7. job[w].step \notin Spending
      BY <2>10 DEF MailSearch, Spending
    <3> QED
      BY <2>2, <2>4, <3>1, <3>5, <3>6, <3>7, StepGrants
  <2>11. CASE enrich_recruiter_emails(w)
    <3>1. PICK queries \in 0..job[w].units :
            job' = [job EXCEPT ![w].step = "found", ![w].units = queries]
      BY <2>11 DEF enrich_recruiter_emails
    <3>2. next.step = "found" /\ next.units = queries
      BY <2>2, <2>5, <3>1 DEF Job
    <3>3. next.units <= Flight[w] /\ next.step \in Spending /\ UNCHANGED used
      BY <2>2, <2>3, <2>11, <3>2 DEF enrich_recruiter_emails, Spending
    <3> QED
      BY <2>4, <3>3, StepKeeps
  <2>12. CASE Drafting(w)
    <3>1. PICK best \in select_contacts(job[w].found) :
            next = [job[w] EXCEPT !.step = "writing", !.found = best, !.units = 0]
      BY <2>5, <2>12 DEF Drafting, Event
    <3>2. next.units = 0 /\ next.step = "writing" /\ used' = Charged(w)
      BY <2>2, <2>12, <3>1 DEF Job, Drafting
    <3>3. next \in Job
      BY <2>4, <3>2 DEF Free
    <3> QED
      BY <2>1, <2>4, <3>2, <3>3, StepRecords
  <2>13. CASE Ready(w)
    BY <1>3, <2>13 DEF Ready, Event
  <2> QED
    BY <1>5, <2>6, <2>7, <2>8, <2>9, <2>10, <2>11, <2>12, <2>13 DEF process
<1>6. ASSUME NEW w \in Workers, Fail(w) \/ Crash(w) PROVE UnitsBounded' /\ BudgetHeld'
  BY <1>3, <1>6 DEF Fail, Crash, Event
<1>7. CASE Tick
  BY <1>2, <1>7 DEF Tick
<1>8. CASE UNCHANGED agentVars
  BY <1>2, <1>8 DEF agentVars
<1> QED
  BY <1>4, <1>5, <1>6, <1>7, <1>8 DEF AgentNext

\* However many workers search at once, the month's recorded searches exceed
\* the budget by at most one grant of each of the others.
THEOREM BudgetOvershoot == AgentSpec => []MonthlyOvershoot
<1>1. AgentInit => SpendInv
  BY AgentTypeInit, SpendInit DEF SpendInv
<1>2. SpendInv /\ [AgentNext]_agentVars => SpendInv'
  BY AgentTypeStep, SpendStep DEF SpendInv
<1>3. SpendInv => MonthlyOvershoot
  <2> SUFFICES ASSUME SpendInv PROVE MonthlyOvershoot
    OBVIOUS
  <2>1. Cardinality(Units(Flight)) \in Nat /\ Total \in Nat /\ MONTHLY_SERPER_BUDGET \in Nat
        /\ (Cardinality(Workers) - 1) * MostAtOnce \in Nat
    BY FlightNat, TotalNat, BudgetAssumption DEF SpendInv
  <2> DEFINE k == (Cardinality(Workers) - 1) * MostAtOnce
  <2>2. k \in Nat /\ Total + Cardinality(Units(Flight)) <= MONTHLY_SERPER_BUDGET + k
    BY <2>1 DEF SpendInv, BudgetHeld
  <2>3. MonthlyOvershoot <=> Total <= MONTHLY_SERPER_BUDGET + k
    BY DEF MonthlyOvershoot
  <2> HIDE DEF k
  <2> QED
    BY <2>1, <2>2, <2>3
<1> QED
  BY <1>1, <1>2, <1>3, PTL DEF AgentSpec

-----------------------------------------------------------------------------
\* CareerAgent: what is promised is there.

\* Contacts and leads are only added, in the transaction that writes the count;
\* so the count is covered whatever the status of the campaign is.
Backed == \A c \in Campaigns : lead_count[c] <= Cardinality(leads[c]) /\ leads[c] \subseteq pool

LEMMA BackedStep == AgentTypeOK /\ Backed /\ [AgentNext]_agentVars => Backed'
<1> SUFFICES ASSUME AgentTypeOK, Backed, [AgentNext]_agentVars PROVE Backed'
  OBVIOUS
<1>1. ASSUME UNCHANGED answers PROVE Backed'
  BY <1>1 DEF answers, Backed
<1>2. ASSUME NEW w \in Workers, Ready(w) PROVE Backed'
  <2> DEFINE c == job[w].campaign
             found == Who(job[w].found)
  <2>1. job[w].step # "idle"
    BY <1>2 DEF Ready
  <2>2. c \in Campaigns /\ found \in SUBSET Contacts
    BY <2>1, BusyJob DEF Who
  <2>3. /\ pool' = pool \cup found
        /\ leads' = [leads EXCEPT ![c] = leads[c] \cup found]
        /\ lead_count' = [lead_count EXCEPT ![c] = Cardinality(found)]
    BY <1>2 DEF Ready, LeadsUpserted
  <2> HIDE DEF c, found
  <2>4. leads[c] \cup found \in SUBSET Contacts
    BY <2>2 DEF AgentTypeOK
  <2>5. IsFiniteSet(leads[c] \cup found)
    BY <2>4, PopulationAssumption, FS_Subset
  <2>6. Cardinality(found) <= Cardinality(leads[c] \cup found)
    BY <2>5, FS_Subset
  <2> SUFFICES ASSUME NEW d \in Campaigns
               PROVE  lead_count'[d] <= Cardinality(leads'[d]) /\ leads'[d] \subseteq pool'
    BY DEF Backed
  <2>7. leads[d] \subseteq pool /\ lead_count[d] <= Cardinality(leads[d])
    BY DEF Backed
  <2>8. CASE d = c
    BY <2>2, <2>3, <2>6, <2>7, <2>8 DEF AgentTypeOK
  <2>9. CASE d # c
    BY <2>2, <2>3, <2>7, <2>9 DEF AgentTypeOK
  <2> QED
    BY <2>8, <2>9
<1>3. ASSUME NEW w \in Workers, process(w), ~Ready(w) PROVE UNCHANGED answers
  BY <1>3 DEF process, LanderSearch, CacheSearch, WebSearch, Verify, MailSearch,
         enrich_recruiter_emails, Drafting
<1>4. ASSUME NEW w \in Workers, Claim(w) \/ Fail(w) \/ Crash(w) PROVE UNCHANGED answers
  BY <1>4 DEF Claim, Fail, Crash
<1>5. CASE Tick
  BY <1>1, <1>5 DEF Tick
<1>6. CASE UNCHANGED agentVars
  BY <1>1, <1>6 DEF agentVars, answers
<1> QED
  BY <1>1, <1>2, <1>3, <1>4, <1>5, <1>6 DEF AgentNext

\* A campaign that is ready shows no more leads than it has, and every lead is a
\* stored contact, whoever finished the campaign and however often.
THEOREM ReadyBacked == AgentSpec => []ReadyIsBacked
<1>1. AgentInit => Backed
  <2>1. Cardinality({}) = 0
    BY FS_EmptySet
  <2> QED
    BY <2>1 DEF AgentInit, Backed
<1>2. Backed => ReadyIsBacked
  BY DEF Backed, ReadyIsBacked
<1> QED
  BY <1>1, <1>2, BackedStep, AgentTypeCorrect, PTL DEF AgentSpec

-----------------------------------------------------------------------------
\* CareerHost: type correctness.

\* The platform that wins among the links of a page is a strategy.
LEMMA FingerprintsAre == Fingerprints \subseteq Strategies
<1> SUFFICES ASSUME NEW links \in SUBSET Strategies, NEW text \in SUBSET Recipes
             PROVE  Fingerprint(links, text) \in Strategies
  BY DEF Fingerprints
<1>1. CASE links = {}
  BY <1>1 DEF Fingerprint, Strategies
<1>2. CASE links # {}
  <2> DEFINE Best(i) == Preference[i] \in links /\ \A j \in 1..(i - 1) : Preference[j] \notin links
  <2>1. DOMAIN Preference = {1, 2, 3, 4}
    BY DEF Preference
  <2>2. /\ Preference[1] = "ats_router" /\ Preference[2] = "oracle_cloud"
        /\ Preference[3] = "api_recipe" /\ Preference[4] = "sitemap_jsonld"
    BY DEF Preference
  <2>3. \E i \in {1, 2, 3, 4} : Best(i)
    <3>1. CASE Preference[1] \in links
      <4>1. Best(1)
        BY <3>1
      <4> QED
        BY <4>1
    <3>2. CASE Preference[1] \notin links /\ Preference[2] \in links
      <4>1. \A j \in 1..(2 - 1) : j = 1
        OBVIOUS
      <4>2. Best(2)
        BY <3>2, <4>1
      <4> QED
        BY <4>2
    <3>3. CASE Preference[1] \notin links /\ Preference[2] \notin links /\ Preference[3] \in links
      <4>1. \A j \in 1..(3 - 1) : j = 1 \/ j = 2
        OBVIOUS
      <4>2. Best(3)
        BY <3>3, <4>1
      <4> QED
        BY <4>2
    <3>4. CASE Preference[1] \notin links /\ Preference[2] \notin links /\ Preference[3] \notin links
      <4>1. \A j \in 1..(4 - 1) : j = 1 \/ j = 2 \/ j = 3
        OBVIOUS
      <4>2. Preference[4] \in links
        BY <1>2, <2>2, <3>4 DEF Strategies
      <4>3. Best(4)
        BY <3>4, <4>1, <4>2
      <4> QED
        BY <4>3
    <3> QED
      BY <3>1, <3>2, <3>3, <3>4
  <2>4. Fingerprint(links, text) = Preference[CHOOSE i \in DOMAIN Preference : Best(i)]
    BY <1>2 DEF Fingerprint
  <2>5. Best(CHOOSE i \in DOMAIN Preference : Best(i))
    <3> HIDE DEF Best
    <3> QED
      BY <2>1, <2>3, Zenon
  <2> QED
    BY <2>4, <2>5
<1> QED
  BY <1>1, <1>2

LEMMA RecordTypes ==
  /\ NoHost \in Host /\ NoClean \in History
  /\ Unread \in Read /\ Idle \in Crawl
  /\ [status |-> "absent", quality |-> "quarantine"] \in Row
<1>1. Unread \in Read
  BY DEF Unread, Read, Strategies
<1>2. Idle \in Crawl
  BY <1>1 DEF Idle, Crawl
<1> QED
  BY <1>1, <1>2 DEF NoHost, Host, Strategies, NoClean, History, Row

LEMMA HostTypeInit == Init => TypeOK
<1> SUFFICES ASSUME Init PROVE TypeOK
  OBVIOUS
<1>1. candidate \in [Hosts -> [status : CandidateStatus, wait : 0..DefaultDays, seed : Seeds]]
  BY DaysAssumption DEF Init, CandidateStatus, Seeds
<1> QED
  BY <1>1, RecordTypes DEF Init, TypeOK

LEMMA UpsertedType ==
  ASSUME TypeOK, NEW h \in Hosts, NEW s \in {"shadow", "quarantined"},
         NEW i \in {"pending", "needs_review"}, NEW strategy \in Strategies
  PROVE  Upserted(h, s, i, strategy) \in Host
<1>1. host[h] \in Host
  BY DEF TypeOK
<1>2. [NoHost EXCEPT !.status = s, !.identity = i, !.strategy = strategy] \in Host
  BY RecordTypes DEF Host
<1>3. [host[h] EXCEPT !.strategy = strategy] \in Host
  BY <1>1 DEF Host
<1> QED
  BY <1>2, <1>3 DEF Upserted

LEMMA SettledType ==
  ASSUME NEW s \in CandidateStatus
  PROVE  Settled(s) \in [status : CandidateStatus, wait : 0..DefaultDays, seed : Seeds]
BY DaysAssumption DEF Settled, Seeds

\* The end of a fetch fills in what was listed and found; without errors the two
\* are the same.
LEMMA FetchMoves ==
  ASSUME TypeOK, NEW c \in Crawlers,
         \/ FetchSitemaps(c) \/ FetchOracle(c) \/ FetchPhenom(c) \/ FetchAvature(c)
         \/ FetchSuccessFactors(c)
  PROVE  /\ crawl[c].pc = "fetch" /\ UNCHANGED <<candidate, host, row, blocklist, staged, aux_clean>>
         /\ \E next \in Crawl :
               /\ crawl' = [crawl EXCEPT ![c] = next]
               /\ next.pc = "write" /\ next.todo = crawl[c].todo /\ next.snap = crawl[c].snap
               /\ next.host = crawl[c].host /\ next.listed \subseteq Of(crawl[c].host)
               /\ next.found \subseteq next.listed /\ (~next.errors => next.found = next.listed)
<1> DEFINE Good(next) ==
       /\ next.pc = "write" /\ next.todo = crawl[c].todo /\ next.snap = crawl[c].snap
       /\ next.host = crawl[c].host /\ next.listed \subseteq Of(crawl[c].host)
       /\ next.found \subseteq next.listed /\ (~next.errors => next.found = next.listed)
<1>1. crawl[c] \in Crawl /\ Of(crawl[c].host) \subseteq Postings
  BY DEF TypeOK, Of
<1>2. ASSUME NEW site \in Sites(crawl[c].host), NEW listed \in SUBSET Accepted(site),
             NEW failed \in BOOLEAN, Fetched(c, site, listed, failed)
      PROVE  \E next \in Crawl : crawl' = [crawl EXCEPT ![c] = next] /\ Good(next)
  <2>1. PICK found \in SUBSET listed, m \in {"none", "few", "many"}, brands \in BOOLEAN :
          crawl' = [crawl EXCEPT ![c] = [@ EXCEPT !.pc = "write", !.listed = listed, !.found = found,
                     !.refused = {p \in found : site[p] = "refused"},
                     !.errors = failed \/ found # listed, !.mismatches = m, !.brands = brands]]
    <3>1. PICK found \in SUBSET listed : \E m \in Mismatches(site), brands \in Brands(found) :
            crawl' = [crawl EXCEPT ![c] = [@ EXCEPT !.pc = "write", !.listed = listed, !.found = found,
                       !.refused = {p \in found : site[p] = "refused"},
                       !.errors = failed \/ found # listed, !.mismatches = m, !.brands = brands]]
      BY <1>2 DEF Fetched
    <3>2. Mismatches(site) \subseteq {"none", "few", "many"} /\ Brands(found) \subseteq BOOLEAN
      BY DEF Mismatches, Brands
    <3> QED
      BY <3>1, <3>2
  <2> DEFINE next == [crawl[c] EXCEPT !.pc = "write", !.listed = listed, !.found = found,
                        !.refused = {p \in found : site[p] = "refused"},
                        !.errors = failed \/ found # listed, !.mismatches = m, !.brands = brands]
  <2>2. listed \subseteq Of(crawl[c].host)
    BY DEF Accepted, Sites
  <2>3. next \in Crawl /\ Good(next)
    BY <1>1, <2>2 DEF Crawl
  <2>4. crawl' = [crawl EXCEPT ![c] = next]
    BY <2>1
  <2> QED
    BY <2>3, <2>4
<1>4. CASE FetchSitemaps(c)
  <2>1. PICK site \in Sites(crawl[c].host) : \E listed \in SUBSET Accepted(site), failed \in BOOLEAN :
          Fetched(c, site, listed, failed)
    <3>1. PICK site \in Sites(crawl[c].host), stored \in SUBSET {"stored"}, answered \in BOOLEAN, children \in BOOLEAN :
            \E read \in SUBSET Sitemaps(stored, answered) :
               \E listed \in Enumerations(read, answered, Accepted(site)) :
                  Fetched(c, site, listed, Unlisted(read, children))
      BY <1>4 DEF FetchSitemaps
    <3>2. PICK read \in SUBSET Sitemaps(stored, answered) :
             \E listed \in Enumerations(read, answered, Accepted(site)) :
                Fetched(c, site, listed, Unlisted(read, children))
      BY <3>1
    <3>3. Unlisted(read, children) \in BOOLEAN
      BY DEF Unlisted
    <3>4. Enumerations(read, answered, Accepted(site)) \subseteq SUBSET Accepted(site)
      BY DEF Enumerations
    <3> QED
      BY <3>2, <3>3, <3>4
  <2> QED
    BY <1>2, <1>4, <2>1 DEF FetchSitemaps, Fetching
<1>5. CASE FetchOracle(c)
  <2> DEFINE Reading(listed, found, refused) ==
               crawl' = [crawl EXCEPT ![c] = [@ EXCEPT !.pc = "write", !.listed = listed,
                         !.found = found, !.refused = refused,
                         !.errors = found # listed, !.mismatches = "none", !.brands = FALSE]]
  <2>0. \E listed \in SUBSET Of(crawl[c].host) : \E found \in SUBSET listed :
           \E refused \in SUBSET found : Reading(listed, found, refused)
    BY <1>5 DEF FetchOracle
  <2> HIDE DEF Reading
  <2>1. PICK listed, found, refused : /\ listed \subseteq Of(crawl[c].host) /\ found \subseteq listed
                                      /\ refused \subseteq found /\ Reading(listed, found, refused)
    BY <2>0
  <2> USE DEF Reading
  <2> DEFINE next == [crawl[c] EXCEPT !.pc = "write", !.listed = listed, !.found = found,
                        !.refused = refused,
                        !.errors = found # listed, !.mismatches = "none", !.brands = FALSE]
  <2>3. next \in Crawl
    BY <1>1, <2>1 DEF Crawl
  <2>4. Good(next) /\ crawl' = [crawl EXCEPT ![c] = next]
    BY <1>1, <2>1 DEF Crawl
  <2> QED
    BY <1>5, <2>3, <2>4 DEF FetchOracle, Fetching
<1>6. CASE FetchPhenom(c)
  BY <1>2, <1>6 DEF FetchPhenom, Fetching
<1>7. CASE FetchAvature(c)
  BY <1>2, <1>7 DEF FetchAvature, Fetching
<1>8. CASE FetchSuccessFactors(c)
  BY <1>2, <1>8 DEF FetchSuccessFactors, Fetching
<1> QED
  BY <1>4, <1>5, <1>6, <1>7, <1>8

LEMMA AgeType ==
  ASSUME NEW age \in {None} \cup 0..DefaultDays
  PROVE  /\ Older(age) \in {None} \cup 0..DefaultDays
         /\ \A clean : FirstClean(age, clean) \in {None} \cup 0..DefaultDays
BY DaysAssumption DEF Older, FirstClean, None

LEMMA AfterRunType ==
  ASSUME TypeOK, NEW r \in Crawl, r.host \in Hosts, NEW bad
  PROVE  /\ AfterRun(r, bad) \in Host
         /\ AfterRun(r, bad).strategy = host[r.host].strategy
<1>1. host[r.host] \in Host
  BY DEF TypeOK
<1>2. host[r.host].age \in {None} \cup 0..DefaultDays
  BY <1>1 DEF Host
<1>3. FirstClean(host[r.host].age, Clean(r, bad)) \in {None} \cup 0..DefaultDays
  BY <1>2, AgeType
<1>4. 1 \in Nat /\ RetryDays \in Nat
  BY DaysAssumption
<1> DEFINE identity == IF Clean(r, bad) THEN "verified" ELSE host[r.host].identity
<1>5. identity \in {"pending", "verified", "needs_review"}
  BY <1>1 DEF Host
<1>6. CASE RunStatus(r, bad) = "complete"
  <2>1. AfterRun(r, bad) = [host[r.host] EXCEPT !.due = 1,
           !.age = FirstClean(host[r.host].age, Clean(r, bad)), !.identity = identity]
    BY <1>1, <1>6 DEF AfterRun, Host
  <2> HIDE DEF identity
  <2> QED
    BY <1>1, <1>3, <1>4, <1>5, <2>1 DEF Host
<1>7. CASE RunStatus(r, bad) = "quality_rejected"
  <2>1. AfterRun(r, bad) = [host[r.host] EXCEPT !.due = RetryDays, !.status = "quarantined"]
    BY <1>7 DEF AfterRun
  <2> QED
    BY <1>1, <1>4, <2>1 DEF Host
<1>8. CASE RunStatus(r, bad) # "complete" /\ RunStatus(r, bad) # "quality_rejected"
  <2>1. AfterRun(r, bad) = [host[r.host] EXCEPT !.due = RetryDays]
    BY <1>8 DEF AfterRun
  <2> QED
    BY <1>1, <1>4, <2>1 DEF Host
<1> QED
  BY <1>6, <1>7, <1>8

LEMMA OnwardType ==
  ASSUME NEW r \in Crawl
  PROVE  /\ Onward(r) \in Crawl
         /\ Onward(r).pc = "batch" /\ Onward(r).todo = r.todo /\ Onward(r).host = None
         /\ Onward(r).snap = [r.snap EXCEPT ![r.host] = Unread]
         /\ Onward(r).found = {} /\ Onward(r).listed = {}
<1>1. [r.snap EXCEPT ![r.host] = Unread] \in [Hosts -> Read]
  BY RecordTypes DEF Crawl
<1>2. Idle \in Crawl
  BY RecordTypes
<1> QED
  BY <1>1, <1>2 DEF Onward, Idle, Crawl

\* The batch is a record of the hosts as they are after the screening.
LEMMA SelectMoves ==
  ASSUME TypeOK, NEW c \in Crawlers, SelectHosts(c)
  PROVE  \E next \in Crawl :
            /\ crawl' = [crawl EXCEPT ![c] = next]
            /\ next.pc = "batch" /\ next.host = None /\ next.found = {} /\ next.listed = {}
            /\ \A h \in next.todo : /\ Screened[h].status \in {"shadow", "active"}
                                    /\ next.snap[h].status = Screened[h].status
<1> DEFINE due == {h \in Hosts : Crawlable(Screened[h])}
           snap == [h \in Hosts |->
                      IF h \in due
                      THEN [status |-> Screened[h].status, clean |-> Screened[h].age # None,
                            strategy |-> Screened[h].strategy]
                      ELSE Unread]
           next == [Idle EXCEPT !.pc = "batch", !.todo = due, !.snap = snap]
<1>1. crawl' = [crawl EXCEPT ![c] = next]
  BY DEF SelectHosts, BatchRead
<1>2. Screened \in [Hosts -> Host]
  BY DEF TypeOK, Screened, Host
<1>3. snap \in [Hosts -> Read]
  <2> SUFFICES ASSUME NEW h \in Hosts PROVE snap[h] \in Read
    OBVIOUS
  <2>1. CASE h \in due
    <3>1. Screened[h] \in Host /\ Screened[h].status \in {"shadow", "active"}
      BY <1>2, <2>1 DEF Crawlable
    <3>2. snap[h] = [status |-> Screened[h].status, clean |-> Screened[h].age # None,
                     strategy |-> Screened[h].strategy]
      BY <2>1
    <3> HIDE DEF snap, due
    <3> QED
      BY <3>1, <3>2 DEF Read, Host
  <2>2. CASE h \notin due
    BY <2>2, RecordTypes
  <2> QED
    BY <2>1, <2>2
<1>4. \A h \in due : Screened[h].status \in {"shadow", "active"} /\ snap[h].status = Screened[h].status
  BY DEF Crawlable
<1>5. due \in SUBSET Hosts
  OBVIOUS
<1> HIDE DEF snap, due
<1>6. next \in Crawl
  BY <1>3, <1>5, RecordTypes DEF Idle, Crawl
<1>7. next.pc = "batch" /\ next.host = None /\ next.found = {} /\ next.listed = {}
      /\ next.todo = due /\ next.snap = snap
  BY DEF Idle
<1> QED
  BY <1>1, <1>4, <1>6, <1>7

LEMMA HostTypeStep == TypeOK /\ [Next]_vars => TypeOK'
<1> SUFFICES ASSUME TypeOK, [Next]_vars PROVE TypeOK'
  OBVIOUS
<1> DEFINE Cand == [status : CandidateStatus, wait : 0..DefaultDays, seed : Seeds]
<1>1. CASE UNCHANGED vars
  BY <1>1 DEF vars, TypeOK
<1>2. ASSUME NEW h \in Hosts, Seed(h) \/ SeedFromIndex(h) \/ RequeueCandidate(h) PROVE TypeOK'
  <2>1. candidate[h] \in Cand
    BY DEF TypeOK
  <2>2. candidate' \in [Hosts -> Cand]
    <3>1. CASE Seed(h)
      BY <2>1, <3>1 DEF Seed, TypeOK, CandidateStatus
    <3>2. CASE SeedFromIndex(h)
      <4>1. PICK seed \in Seeds : candidate' = [candidate EXCEPT ![h] =
               [@ EXCEPT !.seed = seed,
                         !.status = IF seed = "company" THEN "pending" ELSE "needs_review"]]
        BY <3>2 DEF SeedFromIndex
      <4>2. [candidate[h] EXCEPT !.seed = seed,
                !.status = IF seed = "company" THEN "pending" ELSE "needs_review"] \in Cand
        BY <2>1 DEF CandidateStatus
      <4> HIDE DEF Cand
      <4> QED
        BY <4>1, <4>2 DEF TypeOK, Cand
    <3>3. CASE RequeueCandidate(h)
      <4>1. [candidate[h] EXCEPT !.status = "pending", !.wait = 0] \in Cand
        <5>1. 0 \in 0..DefaultDays
          BY DaysAssumption
        <5> QED
          BY <2>1, <5>1 DEF CandidateStatus
      <4>2. candidate' = [candidate EXCEPT ![h] = [candidate[h] EXCEPT !.status = "pending", !.wait = 0]]
        BY <3>3 DEF RequeueCandidate
      <4> HIDE DEF Cand
      <4> QED
        BY <4>1, <4>2 DEF TypeOK, Cand
    <3> QED
      BY <1>2, <3>1, <3>2, <3>3
  <2>3. UNCHANGED <<host, row, blocklist, staged, crawl, aux_clean>>
    BY <1>2 DEF Seed, SeedFromIndex, RequeueCandidate
  <2> QED
    BY <2>2, <2>3 DEF TypeOK
<1>3. ASSUME NEW h \in Hosts, Resolve(h) PROVE TypeOK'
  <2>1. candidate[h] \in Cand
    BY DEF TypeOK
  <2>2. candidate' \in [Hosts -> Cand] /\ host' \in [Hosts -> Host]
    <3>1. CASE candidate' = [candidate EXCEPT ![h].wait = DefaultDays] /\ UNCHANGED host
      BY <2>1, <3>1, DaysAssumption DEF TypeOK
    <3>2. CASE candidate' = [candidate EXCEPT ![h].status = "needs_review"] /\ UNCHANGED host
      BY <2>1, <3>2 DEF TypeOK, CandidateStatus
    <3>3. CASE candidate' = [candidate EXCEPT ![h] = Settled("rejected")] /\ UNCHANGED host
      BY <3>3, SettledType DEF TypeOK, CandidateStatus
    <3>4. CASE \E sure \in Confidences, strategy \in Fingerprints :
                /\ candidate' = [candidate EXCEPT ![h] =
                       IF sure THEN Settled("resolved") ELSE [@ EXCEPT !.status = "needs_review"]]
                /\ host' = [host EXCEPT ![h] =
                      Upserted(h, IF sure THEN "shadow" ELSE "quarantined",
                                  IF sure THEN "pending" ELSE "needs_review", strategy)]
      <4>1. PICK sure \in Confidences, strategy \in Fingerprints :
                /\ candidate' = [candidate EXCEPT ![h] =
                       IF sure THEN Settled("resolved") ELSE [@ EXCEPT !.status = "needs_review"]]
                /\ host' = [host EXCEPT ![h] =
                      Upserted(h, IF sure THEN "shadow" ELSE "quarantined",
                                  IF sure THEN "pending" ELSE "needs_review", strategy)]
        BY <3>4
      <4>2. strategy \in Strategies
        BY FingerprintsAre
      <4>3. CASE sure
        <5>1. Upserted(h, "shadow", "pending", strategy) \in Host
          BY <4>2, UpsertedType
        <5>2. Settled("resolved") \in Cand
          BY SettledType DEF CandidateStatus
        <5> HIDE DEF Cand
        <5>3. candidate' \in [Hosts -> Cand]
          BY <4>1, <4>3, <5>2 DEF TypeOK, Cand
        <5>4. host' = [host EXCEPT ![h] = Upserted(h, "shadow", "pending", strategy)]
          BY <4>1, <4>3
        <5> QED
          BY <5>1, <5>3, <5>4 DEF TypeOK
      <4>4. CASE ~sure
        <5>1. Upserted(h, "quarantined", "needs_review", strategy) \in Host
          BY <4>2, UpsertedType
        <5>2. candidate' \in [Hosts -> Cand]
          BY <2>1, <4>1, <4>4 DEF TypeOK, CandidateStatus
        <5>3. host' = [host EXCEPT ![h] = Upserted(h, "quarantined", "needs_review", strategy)]
          BY <4>1, <4>4
        <5> QED
          BY <5>1, <5>2, <5>3 DEF TypeOK
      <4> QED
        BY <4>3, <4>4
    <3> QED
      BY <1>3, <3>1, <3>2, <3>3, <3>4 DEF Resolve
  <2> QED
    BY <1>3, <2>2 DEF Resolve, TypeOK
<1>4. ASSUME NEW h \in Hosts, ReviewOracle(h) PROVE TypeOK'
  <2>1. PICK orgs \in Stated :
          LET decision == OracleDecision(candidate[h].seed, orgs)
          IN  /\ candidate' = [candidate EXCEPT ![h] =
                     IF decision = "needs_review" THEN @ ELSE Settled(decision)]
              /\ host' = IF decision = "resolved"
                         THEN [host EXCEPT ![h] = Upserted(h, "shadow", "pending", "oracle_cloud")]
                         ELSE host
    BY <1>4 DEF ReviewOracle
  <2> DEFINE decision == OracleDecision(candidate[h].seed, orgs)
  <2>2. decision \in {"needs_review", "resolved", "rejected"}
    BY DEF OracleDecision
  <2>3. decision # "needs_review" => Settled(decision) \in Cand
    BY <2>2, SettledType DEF CandidateStatus
  <2>4. Upserted(h, "shadow", "pending", "oracle_cloud") \in Host
    BY UpsertedType DEF Strategies
  <2> HIDE DEF decision
  <2>5. candidate' \in [Hosts -> Cand]
    BY <2>1, <2>3 DEF TypeOK, decision
  <2>6. host' \in [Hosts -> Host]
    BY <2>1, <2>4 DEF TypeOK
  <2> QED
    BY <1>4, <2>5, <2>6 DEF ReviewOracle, TypeOK
<1>5. ASSUME NEW h \in Hosts, Route(h) PROVE TypeOK'
  <2>1. Settled("routed") \in Cand
    BY SettledType DEF CandidateStatus
  <2>2. candidate' \in [Hosts -> Cand]
    BY <1>5, <2>1 DEF Route, TypeOK
  <2>3. host' \in [Hosts -> Host]
    BY <1>5 DEF Route, TypeOK, Host
  <2> QED
    BY <1>5, <2>2, <2>3 DEF Route, TypeOK
<1>6. ASSUME NEW h \in Hosts, RequeueHost(h) PROVE TypeOK'
  <2>1. host' \in [Hosts -> Host]
    BY <1>6 DEF RequeueHost, TypeOK, Host
  <2>2. row' \in [Postings -> Row]
    BY <1>6 DEF RequeueHost, TypeOK, Row
  <2>3. aux_clean' \in [Hosts -> History]
    BY <1>6, RecordTypes DEF RequeueHost, TypeOK
  <2> QED
    BY <1>6, <2>1, <2>2, <2>3 DEF RequeueHost, TypeOK
<1>7. ASSUME NEW c \in Crawlers, SelectHosts(c) PROVE TypeOK'
  <2>1. host' \in [Hosts -> Host]
    BY <1>7 DEF SelectHosts, Screened, TypeOK, Host
  <2>2. row' \in [Postings -> Row]
    BY <1>7 DEF SelectHosts, TypeOK, Row
  <2>3. crawl' \in [Crawlers -> Crawl]
    BY <1>7, SelectMoves DEF TypeOK
  <2> QED
    BY <1>7, <2>1, <2>2, <2>3 DEF SelectHosts, TypeOK
<1>8. ASSUME NEW c \in Crawlers, EndBatch(c) \/ CrashCrawler(c) PROVE TypeOK'
  BY <1>8, RecordTypes DEF EndBatch, CrashCrawler, TypeOK
<1>9. ASSUME NEW c \in Crawlers,
             \/ FetchSitemaps(c) \/ FetchOracle(c) \/ FetchPhenom(c) \/ FetchAvature(c)
             \/ FetchSuccessFactors(c)
      PROVE  TypeOK'
  BY <1>9, FetchMoves DEF TypeOK
<1>10. ASSUME NEW c \in Crawlers, NEW h \in Hosts, StartRun(c, h) PROVE TypeOK'
  <2>1. crawl' \in [Crawlers -> Crawl]
    <3>1. crawl[c] \in Crawl
      BY DEF TypeOK
    <3> DEFINE next == [crawl[c] EXCEPT !.pc = "fetch", !.host = h, !.todo = @ \ {h}, !.touched = {}]
    <3>2. next \in Crawl
      BY <3>1 DEF Crawl
    <3>3. crawl' = [crawl EXCEPT ![c] = next]
      BY <1>10 DEF StartRun
    <3> HIDE DEF next
    <3> QED
      BY <3>2, <3>3 DEF TypeOK
  <2> QED
    BY <1>10, <2>1 DEF StartRun, TypeOK
<1>11. ASSUME NEW c \in Crawlers, FailHost(c) PROVE TypeOK'
  <2>1. host' \in [Hosts -> Host]
    <3>1. PICK days \in 0..RetryDays : host' = [host EXCEPT ![crawl[c].host].due = days]
      BY <1>11 DEF FailHost
    <3>2. days \in Nat
      BY DaysAssumption
    <3> QED
      BY <3>1, <3>2 DEF TypeOK, Host
  <2>2. crawl' \in [Crawlers -> Crawl]
    BY <1>11, OnwardType DEF FailHost, TypeOK
  <2> QED
    BY <1>11, <2>1, <2>2 DEF FailHost, TypeOK
<1>12. ASSUME NEW c \in Crawlers, NEW bad \in SUBSET crawl[c].found,
              NEW moved \in SUBSET crawl[c].found, Finish(c, bad, moved)
       PROVE  TypeOK'
  <2> DEFINE r == crawl[c]
  <2>1. r \in Crawl
    BY DEF TypeOK
  <2>2. host' \in [Hosts -> Host]
    <3>1. host' = [host EXCEPT ![r.host] =
               IF Activates(r, bad) THEN [AfterRun(r, bad) EXCEPT !.status = "active"]
               ELSE AfterRun(r, bad)]
      BY <1>12 DEF Finish
    <3>2. r.host \in Hosts => AfterRun(r, bad) \in Host
      BY <2>1, AfterRunType
    <3>3. r.host \in Hosts => [AfterRun(r, bad) EXCEPT !.status = "active"] \in Host
      BY <3>2 DEF Host
    <3> HIDE DEF r
    <3> QED
      BY <3>1, <3>2, <3>3 DEF TypeOK
  <2>3. row' \in [Postings -> Row]
    <3> DEFINE after == [p \in Postings |-> CASE p \in Written(r, bad) -> WrittenRow(p, r, moved)
                                       [] Expires(p, r, bad) -> [row[p] EXCEPT !.status = "expired"]
                                       [] OTHER -> row[p]]
    <3>1. row' = [p \in Postings |->
               IF Activates(r, bad) /\ HostOf[p] = r.host /\ after[p].status = "raw"
               THEN [after[p] EXCEPT !.quality = "active"] ELSE after[p]]
      BY <1>12 DEF Finish
    <3>2. ASSUME NEW p \in Postings PROVE after[p] \in Row
      <4>1. row[p] \in Row
        BY DEF TypeOK
      <4>2. WrittenRow(p, r, moved) \in Row
        BY <4>1 DEF WrittenRow, Incoming, Row
      <4>3. [row[p] EXCEPT !.status = "expired"] \in Row
        BY <4>1 DEF Row
      <4>4. after[p] = CASE p \in Written(r, bad) -> WrittenRow(p, r, moved)
                         [] Expires(p, r, bad) -> [row[p] EXCEPT !.status = "expired"]
                         [] OTHER -> row[p]
        OBVIOUS
      <4>5. \/ after[p] = WrittenRow(p, r, moved)
            \/ after[p] = [row[p] EXCEPT !.status = "expired"]
            \/ after[p] = row[p]
        <5>1. Expires(p, r, bad) => p \notin Written(r, bad)
          BY DEF Expires
        <5> HIDE DEF after, r
        <5>2. CASE p \in Written(r, bad)
          BY <4>4, <5>1, <5>2, Zenon
        <5>3. CASE p \notin Written(r, bad) /\ Expires(p, r, bad)
          BY <4>4, <5>3, Zenon
        <5>4. CASE p \notin Written(r, bad) /\ ~Expires(p, r, bad)
          BY <4>4, <5>4, Zenon
        <5> QED
          BY <5>2, <5>3, <5>4
      <4> HIDE DEF after, r
      <4> QED
        BY <4>1, <4>2, <4>3, <4>5
    <3> HIDE DEF after, r
    <3> QED
      BY <3>1, <3>2 DEF Row
  <2>4. crawl' \in [Crawlers -> Crawl]
    <3>1. crawl' = [x \in Crawlers |->
               IF x = c THEN Onward(r)
               ELSE [crawl[x] EXCEPT !.touched = @ \cup Written(r, bad)]]
      BY <1>12 DEF Finish
    <3>2. Written(r, bad) \in SUBSET Postings
      BY <2>1 DEF Written, Crawl
    <3>3. Onward(r) \in Crawl
      BY <2>1, OnwardType
    <3> HIDE DEF r
    <3>4. ASSUME NEW x \in Crawlers
          PROVE  [crawl[x] EXCEPT !.touched = @ \cup Written(r, bad)] \in Crawl
      <4>1. crawl[x] \in Crawl
        BY DEF TypeOK
      <4> QED
        BY <3>2, <4>1 DEF Crawl
    <3> QED
      BY <3>1, <3>3, <3>4
  <2>5. aux_clean' \in [Hosts -> History]
    <3>2. CASE Clean(r, bad)
      <4>1. aux_clean' = [aux_clean EXCEPT ![r.host] =
                        [first |-> FirstClean(@.first, TRUE), span |-> FirstClean(@.first, TRUE),
                         spotless |-> IF Activates(r, bad) THEN r.mismatches = "none" ELSE @.spotless]]
        BY <1>12, <3>2 DEF Finish
      <4> HIDE DEF r
      <4>2. ASSUME NEW h \in Hosts
            PROVE  [first |-> FirstClean(aux_clean[h].first, TRUE), span |-> FirstClean(aux_clean[h].first, TRUE),
                    spotless |-> IF Activates(r, bad) THEN r.mismatches = "none" ELSE aux_clean[h].spotless]
                      \in History
        <5>1. aux_clean[h] \in History
          BY DEF TypeOK
        <5>2. FirstClean(aux_clean[h].first, TRUE) \in {None} \cup 0..DefaultDays
          BY <5>1, AgeType DEF History
        <5> QED
          BY <5>1, <5>2 DEF History
      <4> QED
        BY <4>1, <4>2 DEF TypeOK
    <3>3. CASE ~Clean(r, bad)
      BY <1>12, <3>3 DEF Finish, TypeOK
    <3> QED
      BY <3>2, <3>3
  <2>6. UNCHANGED <<candidate, blocklist, staged>>
    BY <1>12 DEF Finish
  <2> QED
    BY <2>2, <2>3, <2>4, <2>5, <2>6 DEF TypeOK
<1>14. CASE Deploy
  BY <1>14 DEF Deploy, TypeOK
<1>15. CASE NextDay
  <2>1. candidate' \in [Hosts -> Cand]
    <3>1. ASSUME NEW h \in Hosts PROVE [candidate[h] EXCEPT !.wait = Less(@)] \in Cand
      <4>1. candidate[h] \in Cand
        BY DEF TypeOK
      <4>2. Less(candidate[h].wait) \in 0..DefaultDays
        BY <4>1, DaysAssumption DEF Less
      <4> QED
        BY <4>1, <4>2
    <3>2. candidate' = [h \in Hosts |-> [candidate[h] EXCEPT !.wait = Less(@)]]
      BY <1>15 DEF NextDay
    <3> HIDE DEF Cand
    <3> QED
      BY <3>1, <3>2
  <2>2. host' \in [Hosts -> Host]
    <3>1. ASSUME NEW h \in Hosts
          PROVE  [host[h] EXCEPT !.due = Less(@), !.age = Older(@)] \in Host
      <4>1. host[h] \in Host
        BY DEF TypeOK
      <4>2. Less(host[h].due) \in Nat
        BY <4>1 DEF Host, Less
      <4>3. Older(host[h].age) \in {None} \cup 0..DefaultDays
        BY <4>1, AgeType DEF Host
      <4> QED
        BY <4>1, <4>2, <4>3 DEF Host
    <3>2. host' = [h \in Hosts |-> [host[h] EXCEPT !.due = Less(@), !.age = Older(@)]]
      BY <1>15 DEF NextDay
    <3> QED
      BY <3>1, <3>2
  <2>3. aux_clean' \in [Hosts -> History]
    BY <1>15, AgeType DEF NextDay, TypeOK, History
  <2> QED
    BY <1>15, <2>1, <2>2, <2>3 DEF NextDay, TypeOK
<1> QED
  BY <1>1, <1>2, <1>3, <1>4, <1>5, <1>6, <1>7, <1>8, <1>9, <1>10, <1>11, <1>12, <1>14, <1>15
     DEF Next, CrawlStep

\* Every reachable state of the career-host engine is well formed.
THEOREM HostTypeCorrect == Spec => []TypeOK
  BY HostTypeInit, HostTypeStep, PTL DEF Spec

-----------------------------------------------------------------------------
\* CareerHost: what the crawls carry.

Busy(c) == crawl[c].pc \in {"fetch", "write"}

\* The hosts of a batch whose crawl is still ahead or under way.
Visited(c) == crawl[c].todo \cup (IF Busy(c) THEN {crawl[c].host} ELSE {})

CrawlInv == \A c \in Crawlers :
    /\ Busy(c) => crawl[c].host \in Hosts \ crawl[c].todo
    /\ crawl[c].pc = "idle" => crawl[c].todo = {}
    /\ crawl[c].found \subseteq crawl[c].listed
    /\ crawl[c].pc = "write" => /\ crawl[c].listed \subseteq Of(crawl[c].host)
                                /\ ~crawl[c].errors => crawl[c].found = crawl[c].listed

\* A step of a crawler goes on with what it read, or reads the hosts anew.
GoesOn(c) == /\ Visited(c)' \subseteq Visited(c)
             /\ \A h \in Visited(c)' : crawl'[c].snap[h].status = crawl[c].snap[h].status
ReadsAnew(c) == /\ crawl[c].pc = "idle" /\ host' = Screened
                /\ \A h \in Visited(c)' : /\ host'[h].status \in {"shadow", "active"}
                                          /\ crawl'[c].snap[h].status = host'[h].status

LEMMA CrawlStepKeeps ==
  ASSUME TypeOK, CrawlInv, [Next]_vars
  PROVE  CrawlInv' /\ \A c \in Crawlers : GoesOn(c) \/ ReadsAnew(c)
<1> DEFINE Facts(r) ==
             /\ r.pc \in {"fetch", "write"} => r.host \in Hosts \ r.todo
             /\ r.pc = "idle" => r.todo = {}
             /\ r.found \subseteq r.listed
             /\ r.pc = "write" => /\ r.listed \subseteq Of(r.host)
                                  /\ ~r.errors => r.found = r.listed
           Seen(r) == r.todo \cup (IF r.pc \in {"fetch", "write"} THEN {r.host} ELSE {})
           On(r, s) == Seen(s) \subseteq Seen(r) /\ \A h \in Seen(s) : s.snap[h].status = r.snap[h].status
           Good == CrawlInv' /\ \A c \in Crawlers : GoesOn(c) \/ ReadsAnew(c)
<1>1. /\ CrawlInv <=> \A c \in Crawlers : Facts(crawl[c])
      /\ CrawlInv' <=> \A c \in Crawlers : Facts(crawl'[c])
  BY DEF CrawlInv, Busy, Of
<1>2. \A c \in Crawlers : GoesOn(c) <=> On(crawl[c], crawl'[c])
  BY DEF GoesOn, Visited, Busy
<1>3. \A r : On(r, r)
  OBVIOUS
<1>4. \A c \in Crawlers : crawl[c] \in Crawl /\ Facts(crawl[c])
  BY <1>1 DEF TypeOK
<1>5. crawl \in [Crawlers -> Crawl]
  BY DEF TypeOK
<1>6. ASSUME UNCHANGED crawl PROVE Good
  <2> HIDE DEF Facts, On
  <2> QED
    BY <1>1, <1>2, <1>3, <1>4, <1>6
<1>7. ASSUME NEW c \in Crawlers, NEW next, crawl' = [crawl EXCEPT ![c] = next], Facts(next),
             On(crawl[c], next)
      PROVE  Good
  <2> HIDE DEF Facts, On
  <2>1. \A d \in Crawlers : crawl'[d] = IF d = c THEN next ELSE crawl[d]
    BY <1>5, <1>7
  <2> QED
    BY <1>1, <1>2, <1>3, <1>4, <1>7, <2>1
<1>8. ASSUME NEW c \in Crawlers, SelectHosts(c) PROVE Good
  <2>1. PICK next \in Crawl :
            /\ crawl' = [crawl EXCEPT ![c] = next]
            /\ next.pc = "batch" /\ next.host = None /\ next.found = {} /\ next.listed = {}
            /\ \A h \in next.todo : /\ Screened[h].status \in {"shadow", "active"}
                                    /\ next.snap[h].status = Screened[h].status
    BY <1>8, SelectMoves
  <2>2. Facts(next)
    BY <2>1
  <2>3. \A d \in Crawlers : crawl'[d] = IF d = c THEN next ELSE crawl[d]
    BY <1>5, <2>1
  <2>4. crawl[c].pc = "idle" /\ host' = Screened
    BY <1>8 DEF SelectHosts
  <2>5. ReadsAnew(c)
    <3>1. Visited(c)' = next.todo
      BY <2>1, <2>3 DEF Visited, Busy
    <3> QED
      BY <2>1, <2>3, <2>4, <3>1 DEF ReadsAnew
  <2> HIDE DEF Facts, On
  <2> QED
    BY <1>1, <1>2, <1>3, <1>4, <2>2, <2>3, <2>5
<1>9. ASSUME NEW c \in Crawlers, EndBatch(c) \/ CrashCrawler(c) PROVE Good
  <2>1. crawl' = [crawl EXCEPT ![c] = Idle]
    BY <1>9 DEF EndBatch, CrashCrawler
  <2>2. Facts(Idle) /\ On(crawl[c], Idle)
    BY DEF Idle
  <2> HIDE DEF Facts, On
  <2> QED
    BY <1>7, <2>1, <2>2
<1>10. ASSUME NEW c \in Crawlers,
              \/ FetchSitemaps(c) \/ FetchOracle(c) \/ FetchPhenom(c) \/ FetchAvature(c)
              \/ FetchSuccessFactors(c)
       PROVE  Good
  <2>1. PICK next \in Crawl :
               /\ crawl' = [crawl EXCEPT ![c] = next]
               /\ next.pc = "write" /\ next.todo = crawl[c].todo /\ next.snap = crawl[c].snap
               /\ next.host = crawl[c].host /\ next.listed \subseteq Of(crawl[c].host)
               /\ next.found \subseteq next.listed /\ (~next.errors => next.found = next.listed)
    BY <1>10, FetchMoves
  <2>2. crawl[c].pc = "fetch"
    BY <1>10, FetchMoves
  <2>3. Facts(next) /\ On(crawl[c], next)
    BY <1>4, <2>1, <2>2
  <2> HIDE DEF Facts, On
  <2> QED
    BY <1>7, <2>1, <2>3
<1>11. ASSUME NEW c \in Crawlers, NEW h \in Hosts, StartRun(c, h) PROVE Good
  <2> DEFINE next == [crawl[c] EXCEPT !.pc = "fetch", !.host = h, !.todo = crawl[c].todo \ {h}, !.touched = {}]
  <2>1. crawl' = [crawl EXCEPT ![c] = next]
    BY <1>11 DEF StartRun
  <2>2. /\ next.pc = "fetch" /\ next.host = h /\ next.todo = crawl[c].todo \ {h}
        /\ next.snap = crawl[c].snap /\ next.found = crawl[c].found /\ next.listed = crawl[c].listed
    BY <1>4 DEF Crawl
  <2>3. h \in crawl[c].todo
    BY <1>11 DEF StartRun
  <2> HIDE DEF next
  <2>4. Facts(next) /\ On(crawl[c], next)
    BY <1>4, <2>2, <2>3
  <2> HIDE DEF Facts, On
  <2> QED
    BY <1>7, <2>1, <2>4
<1>12. ASSUME NEW r \in Crawl, Facts(r), r.pc \in {"fetch", "write"} PROVE Facts(Onward(r)) /\ On(r, Onward(r))
  <2>1. /\ Onward(r).pc = "batch" /\ Onward(r).todo = r.todo
        /\ Onward(r).snap = [r.snap EXCEPT ![r.host] = Unread]
        /\ Onward(r).found = {} /\ Onward(r).listed = {}
    BY OnwardType
  <2>2. r.host \in Hosts \ r.todo /\ r.todo \subseteq Hosts /\ r.snap \in [Hosts -> Read]
    BY <1>12 DEF Crawl
  <2>3. \A h \in r.todo : Onward(r).snap[h] = r.snap[h]
    BY <2>1, <2>2
  <2> QED
    BY <1>12, <2>1, <2>2, <2>3
<1>13. ASSUME NEW c \in Crawlers, FailHost(c) PROVE Good
  <2>1. crawl' = [crawl EXCEPT ![c] = Onward(crawl[c])] /\ crawl[c].pc \in {"fetch", "write"}
    BY <1>13 DEF FailHost
  <2> HIDE DEF Facts, On
  <2>2. Facts(Onward(crawl[c])) /\ On(crawl[c], Onward(crawl[c]))
    BY <1>4, <1>12, <2>1
  <2> QED
    BY <1>7, <2>1, <2>2
<1>14. ASSUME NEW c \in Crawlers, NEW bad \in SUBSET crawl[c].found,
              NEW moved \in SUBSET crawl[c].found, Finish(c, bad, moved)
       PROVE  Good
  <2>1. /\ crawl[c].pc = "write"
        /\ crawl' = [x \in Crawlers |->
               IF x = c THEN Onward(crawl[c])
               ELSE [crawl[x] EXCEPT !.touched = @ \cup Written(crawl[c], bad)]]
    BY <1>14 DEF Finish
  <2>2. ASSUME NEW d \in Crawlers PROVE Facts(crawl'[d]) /\ On(crawl[d], crawl'[d])
    <3>1. CASE d = c
      <4> HIDE DEF Facts, On
      <4> QED
        BY <1>4, <1>12, <2>1, <3>1
    <3>2. CASE d # c
      <4> DEFINE next == [crawl[d] EXCEPT !.touched = @ \cup Written(crawl[c], bad)]
      <4>1. crawl'[d] = next
        BY <2>1, <3>2
      <4>2. /\ next.pc = crawl[d].pc /\ next.host = crawl[d].host /\ next.todo = crawl[d].todo
            /\ next.snap = crawl[d].snap /\ next.found = crawl[d].found
            /\ next.listed = crawl[d].listed /\ next.errors = crawl[d].errors
        BY <1>4 DEF Crawl
      <4> HIDE DEF next
      <4> QED
        BY <1>4, <4>1, <4>2
    <3> QED
      BY <3>1, <3>2
  <2> HIDE DEF Facts, On
  <2> QED
    BY <1>1, <1>2, <2>2
<1>15. ASSUME NEW h \in Hosts, \/ Seed(h) \/ SeedFromIndex(h) \/ Resolve(h) \/ ReviewOracle(h)
                               \/ Route(h) \/ RequeueCandidate(h) \/ RequeueHost(h)
       PROVE  UNCHANGED crawl
  BY <1>15 DEF Seed, SeedFromIndex, Resolve, ReviewOracle, Route, RequeueCandidate, RequeueHost
<1>16. ASSUME Deploy \/ NextDay \/ UNCHANGED vars
       PROVE  UNCHANGED crawl
  BY <1>16 DEF Deploy, NextDay, vars
<1> HIDE DEF Good
<1> QED
  BY <1>6, <1>8, <1>9, <1>10, <1>11, <1>13, <1>14, <1>15, <1>16 DEF Next, CrawlStep, Good

-----------------------------------------------------------------------------
\* CareerHost: nothing is published too early, for any number of crawlers.

\* A host that no crawl has ever seen: not resolved yet, or kept for review.
Fresh(h) == host[h].status = "none" \/ (host[h].identity = "needs_review" /\ ~host[h].blocked)

FreshInv == \A h \in Hosts : Fresh(h) =>
    /\ host[h].status \in {"none", "quarantined"}
    /\ host[h].age = None /\ aux_clean[h] = NoClean
    /\ \A c \in Crawlers : h \notin Visited(c)
    /\ \A p \in Of(h) : row[p].status = "absent" /\ row[p].quality = "quarantine"

\* The stored clock is the time since the first clean crawl.
ClockInv == \A h \in Hosts : host[h].age = aux_clean[h].first /\ aux_clean[h].span <= aux_clean[h].first

Proven(history) == \/ history.span >= DefaultDays
                   \/ history.spotless /\ history.span >= FastDays
Matured(h) == Proven(aux_clean[h])

\* Whatever is active, was read as active or is marked publishable has matured.
MaturedInv ==
    /\ \A h \in Hosts : host[h].status = "active" => Matured(h)
    /\ \A c \in Crawlers : \A h \in Visited(c) : crawl[c].snap[h].status = "active" => Matured(h)
    /\ \A p \in Postings : row[p].quality = "active" => Matured(HostOf[p])

HostInv == TypeOK /\ CrawlInv /\ FreshInv /\ ClockInv /\ MaturedInv

\* The resolution of a host, by the search or by the review of Oracle seeds.
Resolves(h) ==
    /\ UNCHANGED <<row, crawl, aux_clean>>
    /\ \E strategy \in Strategies :
          \/ host' = [host EXCEPT ![h] = Upserted(h, "shadow", "pending", strategy)]
          \/ host' = [host EXCEPT ![h] = Upserted(h, "quarantined", "needs_review", strategy)]

LEMMA StepKinds ==
  ASSUME [Next]_vars
  PROVE  \/ UNCHANGED <<host, row, aux_clean>>
         \/ \E h \in Hosts : Resolves(h) \/ Route(h) \/ RequeueHost(h)
         \/ \E c \in Crawlers : SelectHosts(c) \/ FailHost(c)
         \/ \E c \in Crawlers : \E bad, moved \in SUBSET crawl[c].found : Finish(c, bad, moved)
         \/ NextDay
<1> DEFINE Kinds ==
         \/ UNCHANGED <<host, row, aux_clean>>
         \/ \E h \in Hosts : Resolves(h) \/ Route(h) \/ RequeueHost(h)
         \/ \E c \in Crawlers : SelectHosts(c) \/ FailHost(c)
         \/ \E c \in Crawlers : \E bad, moved \in SUBSET crawl[c].found : Finish(c, bad, moved)
         \/ NextDay
<1>1. ASSUME NEW h \in Hosts, Seed(h) \/ SeedFromIndex(h) \/ RequeueCandidate(h)
      PROVE  UNCHANGED <<host, row, aux_clean>>
  BY <1>1 DEF Seed, SeedFromIndex, RequeueCandidate
<1>2. ASSUME NEW h \in Hosts, Resolve(h) PROVE Kinds
  <2>1. UNCHANGED <<row, crawl, aux_clean>>
    BY <1>2 DEF Resolve
  <2>2. CASE UNCHANGED host
    BY <2>1, <2>2
  <2>3. CASE \E sure \in Confidences, strategy \in Fingerprints :
                host' = [host EXCEPT ![h] =
                      Upserted(h, IF sure THEN "shadow" ELSE "quarantined",
                                  IF sure THEN "pending" ELSE "needs_review", strategy)]
    <3>1. PICK sure \in Confidences, strategy \in Strategies :
                host' = [host EXCEPT ![h] =
                      Upserted(h, IF sure THEN "shadow" ELSE "quarantined",
                                  IF sure THEN "pending" ELSE "needs_review", strategy)]
      BY <2>3, FingerprintsAre
    <3>2. CASE sure
      <4>1. host' = [host EXCEPT ![h] = Upserted(h, "shadow", "pending", strategy)]
        BY <3>1, <3>2
      <4> QED
        BY <2>1, <4>1 DEF Resolves
    <3>3. CASE ~sure
      <4>1. host' = [host EXCEPT ![h] = Upserted(h, "quarantined", "needs_review", strategy)]
        BY <3>1, <3>3
      <4> QED
        BY <2>1, <4>1 DEF Resolves
    <3> QED
      BY <3>2, <3>3
  <2> QED
    BY <1>2, <2>2, <2>3 DEF Resolve
<1>3. ASSUME NEW h \in Hosts, ReviewOracle(h) PROVE Kinds
  <2>1. UNCHANGED <<row, crawl, aux_clean>>
    BY <1>3 DEF ReviewOracle
  <2>2. \/ UNCHANGED host
        \/ host' = [host EXCEPT ![h] = Upserted(h, "shadow", "pending", "oracle_cloud")]
    BY <1>3 DEF ReviewOracle
  <2>3. "oracle_cloud" \in Strategies
    BY DEF Strategies
  <2> QED
    BY <2>1, <2>2, <2>3 DEF Resolves
<1>4. ASSUME NEW c \in Crawlers,
             \/ EndBatch(c) \/ CrashCrawler(c) \/ (\E h \in Hosts : StartRun(c, h))
             \/ FetchSitemaps(c) \/ FetchOracle(c) \/ FetchPhenom(c) \/ FetchAvature(c)
             \/ FetchSuccessFactors(c)
      PROVE  UNCHANGED <<host, row, aux_clean>>
  BY <1>4 DEF EndBatch, CrashCrawler, StartRun, FetchSitemaps, FetchOracle, FetchPhenom, FetchAvature,
         FetchSuccessFactors, Fetching
<1>5. ASSUME Deploy \/ UNCHANGED vars
      PROVE  UNCHANGED <<host, row, aux_clean>>
  BY <1>5 DEF Deploy, vars
<1>6. CASE UNCHANGED vars
  BY <1>5, <1>6
<1>7. ASSUME Next PROVE Kinds
  <2>1. ASSUME NEW h \in Hosts, \/ Seed(h) \/ SeedFromIndex(h) \/ Resolve(h) \/ ReviewOracle(h)
                                \/ Route(h) \/ RequeueCandidate(h) \/ RequeueHost(h)
        PROVE  Kinds
    BY <1>1, <1>2, <1>3, <2>1
  <2>2. ASSUME NEW c \in Crawlers, CrawlStep(c) PROVE Kinds
    <3>1. \/ SelectHosts(c) \/ FailHost(c)
          \/ EndBatch(c) \/ CrashCrawler(c) \/ (\E h \in Hosts : StartRun(c, h))
          \/ FetchSitemaps(c) \/ FetchOracle(c) \/ FetchPhenom(c) \/ FetchAvature(c)
          \/ FetchSuccessFactors(c)
          \/ \E bad, moved \in SUBSET crawl[c].found : Finish(c, bad, moved)
      BY <2>2 DEF CrawlStep
    <3> QED
      BY <1>4, <3>1
  <2> HIDE DEF Kinds
  <2>3. CASE NextDay \/ Deploy
    BY <1>5, <2>3 DEF Kinds
  <2>4. CASE \E h \in Hosts : \/ Seed(h) \/ SeedFromIndex(h) \/ Resolve(h) \/ ReviewOracle(h)
                              \/ Route(h) \/ RequeueCandidate(h) \/ RequeueHost(h)
    BY <2>1, <2>4
  <2>5. CASE \E c \in Crawlers : CrawlStep(c)
    BY <2>2, <2>5
  <2> QED
    BY <1>7, <2>3, <2>4, <2>5 DEF Next
<1> QED
  BY <1>6, <1>7

\* The history of a host after a clean crawl.
AfterClean(r, bad, old) ==
    [first |-> FirstClean(old.first, TRUE), span |-> FirstClean(old.first, TRUE),
     spotless |-> IF Activates(r, bad) THEN r.mismatches = "none" ELSE old.spotless]

\* What Finish does to the crawled host, to the others and to the rows.
LEMMA FinishEffects ==
  ASSUME HostInv, NEW c \in Crawlers, NEW bad, NEW moved, Finish(c, bad, moved)
  PROVE  LET r == crawl[c]  h == crawl[c].host IN
         /\ r \in Crawl /\ h \in Hosts /\ h \in Visited(c) /\ ~Fresh(h)
         /\ \A g \in Hosts : g # h => host'[g] = host[g] /\ aux_clean'[g] = aux_clean[g]
         /\ host'[h].age = IF Clean(r, bad) /\ host[h].age = None THEN 0 ELSE host[h].age
         /\ host'[h].blocked = host[h].blocked
         /\ host'[h].identity \in {host[h].identity, "verified"}
         /\ \/ Activates(r, bad) /\ host'[h].status = "active"
            \/ ~Activates(r, bad) /\ host'[h].status = host[h].status
            \/ ~Activates(r, bad) /\ host'[h].status = "quarantined"
         /\ Clean(r, bad) => aux_clean'[h] = AfterClean(r, bad, aux_clean[h])
         /\ ~Clean(r, bad) => aux_clean'[h] = aux_clean[h]
         /\ \A p \in Postings : HostOf[p] # h => row'[p] = row[p]
<1> DEFINE r == crawl[c]
           h == crawl[c].host
           after == [p \in Postings |-> CASE p \in Written(r, bad) -> WrittenRow(p, r, moved)
                                       [] Expires(p, r, bad) -> [row[p] EXCEPT !.status = "expired"]
                                       [] OTHER -> row[p]]
<1>1. r \in Crawl /\ r.pc = "write" /\ host \in [Hosts -> Host]
      /\ aux_clean \in [Hosts -> History]
  BY DEF HostInv, TypeOK, Finish
<1>2. h \in Hosts /\ h \in Visited(c) /\ ~Fresh(h)
  BY <1>1 DEF HostInv, CrawlInv, FreshInv, Busy, Visited
<1>3. host' = [host EXCEPT ![h] =
               IF Activates(r, bad) THEN [AfterRun(r, bad) EXCEPT !.status = "active"]
               ELSE AfterRun(r, bad)]
  BY DEF Finish
<1>4. host[h] \in Host /\ AfterRun(r, bad) \in Host
  BY <1>1, <1>2, AfterRunType DEF HostInv
<1>5. Clean(r, bad) => RunStatus(r, bad) = "complete"
  BY DEF Clean, RunStatus
<1>6. /\ AfterRun(r, bad).age = IF Clean(r, bad) /\ host[h].age = None THEN 0 ELSE host[h].age
      /\ AfterRun(r, bad).blocked = host[h].blocked
      /\ AfterRun(r, bad).identity \in {host[h].identity, "verified"}
      /\ AfterRun(r, bad).status \in {host[h].status, "quarantined"}
  <2> DEFINE identity == IF Clean(r, bad) THEN "verified" ELSE host[h].identity
  <2>1. CASE RunStatus(r, bad) = "complete"
    <3>1. AfterRun(r, bad) = [host[h] EXCEPT !.due = 1,
           !.age = FirstClean(host[h].age, Clean(r, bad)), !.identity = identity]
      BY <1>4, <2>1 DEF AfterRun, Host
    <3> HIDE DEF r, h
    <3> QED
      BY <1>4, <3>1 DEF FirstClean, Host
  <2>2. CASE RunStatus(r, bad) = "quality_rejected"
    <3>1. AfterRun(r, bad) = [host[h] EXCEPT !.due = RetryDays, !.status = "quarantined"]
      BY <2>2 DEF AfterRun
    <3> HIDE DEF r, h
    <3> QED
      BY <1>4, <1>5, <2>2, <3>1 DEF Host
  <2>3. CASE RunStatus(r, bad) # "complete" /\ RunStatus(r, bad) # "quality_rejected"
    <3>1. AfterRun(r, bad) = [host[h] EXCEPT !.due = RetryDays]
      BY <2>3 DEF AfterRun
    <3> HIDE DEF r, h
    <3> QED
      BY <1>4, <1>5, <2>3, <3>1 DEF Host
  <2> QED
    BY <2>1, <2>2, <2>3
<1>7. ASSUME NEW p \in Postings, HostOf[p] # h PROVE row'[p] = row[p]
  <2>1. p \notin Written(r, bad)
    BY <1>1, <1>7 DEF HostInv, CrawlInv, Written, Of
  <2>2. ~Expires(p, r, bad)
    BY <1>7 DEF Expires
  <2>3. row' = [q \in Postings |->
               IF Activates(r, bad) /\ HostOf[q] = r.host /\ after[q].status = "raw"
               THEN [after[q] EXCEPT !.quality = "active"] ELSE after[q]]
    BY DEF Finish
  <2>4. after[p] = CASE p \in Written(r, bad) -> WrittenRow(p, r, moved)
                     [] Expires(p, r, bad) -> [row[p] EXCEPT !.status = "expired"]
                     [] OTHER -> row[p]
    OBVIOUS
  <2>5. row'[p] = after[p]
    <3> HIDE DEF after
    <3> QED
      BY <1>7, <2>3
  <2> HIDE DEF after, r, h
  <2> QED
    BY <2>1, <2>2, <2>4, <2>5, Zenon
<1>8. /\ Clean(r, bad) => aux_clean' = [aux_clean EXCEPT ![h] = AfterClean(r, bad, @)]
      /\ ~Clean(r, bad) => aux_clean' = aux_clean
  BY DEF Finish, AfterClean
<1> HIDE DEF r, h, after
<1>9. host'[h] = IF Activates(r, bad) THEN [AfterRun(r, bad) EXCEPT !.status = "active"]
                 ELSE AfterRun(r, bad)
  BY <1>1, <1>2, <1>3
<1>10. \A g \in Hosts : g # h => host'[g] = host[g] /\ aux_clean'[g] = aux_clean[g]
  BY <1>1, <1>3, <1>8
<1>11. /\ Clean(r, bad) => aux_clean'[h] = AfterClean(r, bad, aux_clean[h])
       /\ ~Clean(r, bad) => aux_clean'[h] = aux_clean[h]
  BY <1>1, <1>2, <1>8
<1>12. /\ host'[h].age = AfterRun(r, bad).age /\ host'[h].blocked = AfterRun(r, bad).blocked
       /\ host'[h].identity = AfterRun(r, bad).identity
       /\ Activates(r, bad) => host'[h].status = "active"
       /\ ~Activates(r, bad) => host'[h].status = AfterRun(r, bad).status
  BY <1>4, <1>9 DEF Host
<1>13. \A p \in Postings : HostOf[p] # h => row'[p] = row[p]
  BY <1>7
<1> QED
  BY <1>1, <1>2, <1>6, <1>10, <1>11, <1>12, <1>13 DEF r, h

\* No step makes a host one that no crawl has seen.
LEMMA FreshBefore ==
  ASSUME HostInv, [Next]_vars, NEW h \in Hosts, Fresh(h)'
  PROVE  /\ Fresh(h) /\ host'[h].status \in {"none", "quarantined"} /\ host'[h].age = None
         /\ aux_clean'[h] = NoClean
         /\ \A p \in Of(h) : row'[p].status = "absent" /\ row'[p].quality = "quarantine"
<1>1. TypeOK /\ FreshInv
  BY DEF HostInv
<1>2. /\ host \in [Hosts -> Host] /\ row \in [Postings -> Row]
      /\ aux_clean \in [Hosts -> History]
  BY <1>1 DEF TypeOK
<1>3. host[h] \in Host
  BY <1>2
<1> DEFINE Old == /\ host[h].status \in {"none", "quarantined"}
                  /\ host[h].age = None /\ aux_clean[h] = NoClean
                  /\ \A p \in Of(h) : row[p].status = "absent" /\ row[p].quality = "quarantine"
           New == /\ Fresh(h) /\ host'[h].status \in {"none", "quarantined"} /\ host'[h].age = None
                  /\ aux_clean'[h] = NoClean
                  /\ \A p \in Of(h) : row'[p].status = "absent" /\ row'[p].quality = "quarantine"
<1>4. Fresh(h) => Old
  BY <1>1 DEF FreshInv
<1>5. ASSUME host'[h] = host[h], UNCHANGED aux_clean, UNCHANGED row PROVE New
  <2>1. Fresh(h)
    BY <1>5 DEF Fresh
  <2> QED
    BY <1>4, <1>5, <2>1
<1>6. ASSUME NEW g \in Hosts, Resolves(g) PROVE New
  <2>1. PICK strategy \in Strategies :
          \/ host' = [host EXCEPT ![g] = Upserted(g, "shadow", "pending", strategy)]
          \/ host' = [host EXCEPT ![g] = Upserted(g, "quarantined", "needs_review", strategy)]
    BY <1>6 DEF Resolves
  <2>2. CASE g # h
    BY <1>2, <1>5, <1>6, <2>1, <2>2 DEF Resolves
  <2>3. CASE g = h /\ host[h].status = "none"
    <3>1. Fresh(h)
      BY <2>3 DEF Fresh
    <3>2. CASE host' = [host EXCEPT ![g] = Upserted(g, "shadow", "pending", strategy)]
      <4>1. host'[h].status = "shadow" /\ host'[h].identity = "pending"
        BY <1>2, <2>3, <3>2 DEF Upserted, NoHost
      <4> QED
        BY <4>1 DEF Fresh
    <3>3. CASE host' = [host EXCEPT ![g] = Upserted(g, "quarantined", "needs_review", strategy)]
      <4>1. host'[h].status = "quarantined" /\ host'[h].age = None
        BY <1>2, <2>3, <3>3 DEF Upserted, NoHost
      <4> QED
        BY <1>4, <1>6, <3>1, <4>1 DEF Resolves
    <3> QED
      BY <2>1, <3>2, <3>3
  <2>4. CASE g = h /\ host[h].status # "none"
    <3>1. host'[h] = [host[h] EXCEPT !.strategy = strategy]
      BY <1>2, <2>1, <2>4 DEF Upserted
    <3>2. /\ host'[h].status = host[h].status /\ host'[h].identity = host[h].identity
          /\ host'[h].blocked = host[h].blocked /\ host'[h].age = host[h].age
      BY <1>3, <3>1 DEF Host
    <3>3. Fresh(h)
      BY <3>2 DEF Fresh
    <3> QED
      BY <1>4, <1>6, <3>2, <3>3 DEF Resolves
  <2> QED
    BY <2>2, <2>3, <2>4
<1>7. ASSUME NEW g \in Hosts, Route(g) PROVE New
  <2>1. CASE g # h
    BY <1>2, <1>5, <1>7, <2>1 DEF Route
  <2>2. CASE g = h
    <3>1. /\ host'[h].status = "routed" /\ host'[h].identity = host[h].identity
          /\ host'[h].blocked = host[h].blocked /\ host[h].status = "shadow"
      BY <1>2, <1>3, <1>7, <2>2 DEF Route, Host
    <3>2. Fresh(h)
      BY <3>1 DEF Fresh
    <3> QED
      BY <1>4, <3>1, <3>2
  <2> QED
    BY <2>1, <2>2
<1>8. ASSUME NEW g \in Hosts, RequeueHost(g) PROVE New
  <2>1. CASE g = h
    <3>1. host'[h].status = "shadow" /\ host'[h].identity = "pending"
      BY <1>2, <1>3, <1>8, <2>1 DEF RequeueHost, Host
    <3> QED
      BY <3>1 DEF Fresh
  <2>2. CASE g # h
    <3>1. host'[h] = host[h] /\ aux_clean'[h] = aux_clean[h]
      BY <1>2, <1>8, <2>2 DEF RequeueHost
    <3>2. \A p \in Of(h) : row'[p] = row[p]
      BY <1>8, <2>2 DEF RequeueHost, Of
    <3>3. Fresh(h)
      BY <3>1 DEF Fresh
    <3> QED
      BY <1>4, <3>1, <3>2, <3>3
  <2> QED
    BY <2>1, <2>2
<1>9. ASSUME NEW c \in Crawlers, SelectHosts(c) PROVE New
  <2>1. host'[h] = Screened[h]
    BY <1>9 DEF SelectHosts
  <2>2. CASE BlockedHost(h)
    <3>1. host'[h].status = "quarantined" /\ host'[h].blocked = TRUE
      BY <1>2, <1>3, <2>1, <2>2 DEF Screened, Host
    <3> QED
      BY <3>1 DEF Fresh
  <2>3. CASE ~BlockedHost(h)
    <3>1. host'[h] = host[h]
      BY <2>1, <2>3 DEF Screened
    <3>2. \A p \in Of(h) : row'[p] = row[p]
      BY <1>9, <2>3 DEF SelectHosts, Of
    <3>3. Fresh(h)
      BY <3>1 DEF Fresh
    <3> QED
      BY <1>4, <1>9, <3>1, <3>2, <3>3 DEF SelectHosts
  <2> QED
    BY <2>2, <2>3
<1>10. ASSUME NEW c \in Crawlers, FailHost(c) PROVE New
  <2>1. PICK days \in 0..RetryDays : host' = [host EXCEPT ![crawl[c].host].due = days]
    BY <1>10 DEF FailHost
  <2>2. /\ host'[h].status = host[h].status /\ host'[h].identity = host[h].identity
        /\ host'[h].blocked = host[h].blocked /\ host'[h].age = host[h].age
    BY <1>2, <1>3, <2>1 DEF Host
  <2>3. Fresh(h)
    BY <2>2 DEF Fresh
  <2> QED
    BY <1>4, <1>10, <2>2, <2>3 DEF FailHost
<1>11. ASSUME NEW c \in Crawlers, NEW bad, NEW moved, Finish(c, bad, moved) PROVE New
  <2> DEFINE r == crawl[c]
             g == crawl[c].host
  <2>1. /\ g \in Hosts /\ ~Fresh(g)
        /\ h # g => host'[h] = host[h] /\ aux_clean'[h] = aux_clean[h]
        /\ host'[g].blocked = host[g].blocked
        /\ host'[g].identity \in {host[g].identity, "verified"}
        /\ host'[g].status \in {host[g].status, "quarantined", "active"}
        /\ \A p \in Postings : HostOf[p] # g => row'[p] = row[p]
    BY <1>11, FinishEffects
  <2> HIDE DEF r, g
  <2>2. CASE g = h
    BY <2>1, <2>2 DEF Fresh
  <2>3. CASE g # h
    <3>1. Fresh(h)
      BY <2>1, <2>3 DEF Fresh
    <3> QED
      BY <1>4, <2>1, <2>3, <3>1 DEF Of
  <2> QED
    BY <2>2, <2>3
<1>12. ASSUME NextDay PROVE New
  <2>1. host'[h] = [host[h] EXCEPT !.due = Less(@), !.age = Older(@)]
        /\ aux_clean'[h] = [aux_clean[h] EXCEPT !.first = Older(@)]
    BY <1>12 DEF NextDay
  <2>2. /\ host'[h].status = host[h].status /\ host'[h].identity = host[h].identity
        /\ host'[h].blocked = host[h].blocked /\ host'[h].age = Older(host[h].age)
    BY <1>3, <2>1 DEF Host
  <2>3. Fresh(h)
    BY <2>2 DEF Fresh
  <2>4. Older(None) = None
    BY DEF Older
  <2>5. aux_clean'[h] = NoClean
    BY <1>4, <2>1, <2>3, <2>4 DEF NoClean
  <2> QED
    BY <1>4, <1>12, <2>2, <2>3, <2>4, <2>5 DEF NextDay
<1>13. ASSUME UNCHANGED <<host, row, aux_clean>> PROVE New
  BY <1>5, <1>13
<1> HIDE DEF New
<1>14. New
  BY <1>6, <1>7, <1>8, <1>9, <1>10, <1>11, <1>12, <1>13, StepKinds
<1> QED
  BY <1>14 DEF New

LEMMA FreshStep == HostInv /\ [Next]_vars => FreshInv'
<1> SUFFICES ASSUME HostInv, [Next]_vars, NEW h \in Hosts, Fresh(h)', NEW c \in Crawlers, h \in Visited(c)'
             PROVE  FALSE
  BY FreshBefore DEF FreshInv, Of
<1>1. Fresh(h) /\ host'[h].status \in {"none", "quarantined"}
  BY FreshBefore
<1>2. h \notin Visited(c)
  BY <1>1 DEF HostInv, FreshInv
<1>3. GoesOn(c) \/ ReadsAnew(c)
  BY CrawlStepKeeps DEF HostInv
<1> QED
  BY <1>1, <1>2, <1>3 DEF GoesOn, ReadsAnew

LEMMA OlderGrows ==
  ASSUME NEW age \in {None} \cup 0..DefaultDays
  PROVE  age <= Older(age) /\ Older(age) \in {None} \cup 0..DefaultDays
BY DaysAssumption DEF Older, None

LEMMA CleanTypes ==
  ASSUME TypeOK, NEW h \in Hosts
  PROVE  /\ aux_clean[h].first \in {None} \cup 0..DefaultDays
         /\ aux_clean[h].span \in {None} \cup 0..DefaultDays
         /\ aux_clean[h].spotless \in BOOLEAN
         /\ host[h] \in Host /\ host[h].age \in {None} \cup 0..DefaultDays
BY DEF TypeOK, Host, History

\* A host that a crawl activates has matured by then.
LEMMA ActivationMatures ==
  ASSUME HostInv, NEW c \in Crawlers, NEW bad, NEW moved, Finish(c, bad, moved), Activates(crawl[c], bad)
  PROVE  Proven(aux_clean'[crawl[c].host])
<1> DEFINE r == crawl[c]
           h == crawl[c].host
<1>1. /\ r \in Crawl /\ h \in Hosts
      /\ Clean(r, bad) => aux_clean'[h] = AfterClean(r, bad, aux_clean[h])
  BY FinishEffects
<1>2. Clean(r, bad) /\ AfterRun(r, bad).age # None /\ AfterRun(r, bad).age >= MaturationDays(r)
  BY DEF Activates
<1>3. TypeOK /\ host[h].age = aux_clean[h].first
  BY <1>1 DEF HostInv, ClockInv
<1>4. host[h] \in Host /\ host[h].age \in {None} \cup 0..DefaultDays
  BY <1>1, <1>3, CleanTypes
<1>5. RunStatus(r, bad) = "complete"
  BY <1>2 DEF Clean, RunStatus
<1>6. AfterRun(r, bad).age = FirstClean(host[h].age, Clean(r, bad))
  <2> DEFINE identity == IF Clean(r, bad) THEN "verified" ELSE host[h].identity
  <2>1. AfterRun(r, bad) = [host[h] EXCEPT !.due = 1,
           !.age = FirstClean(host[h].age, Clean(r, bad)), !.identity = identity]
    BY <1>4, <1>5 DEF AfterRun, Host
  <2> HIDE DEF r, h, identity
  <2> QED
    BY <1>4, <2>1 DEF Host
<1>7. MaturationDays(r) \in {FastDays, DefaultDays}
  BY DEF MaturationDays
<1>11. Activates(r, bad)
  BY DEF r
<1> HIDE DEF r, h
<1>8. FastDays \in Nat /\ DefaultDays \in Nat /\ FastDays >= 1 /\ FastDays <= DefaultDays /\ None = -1
  BY DaysAssumption DEF None
<1>9. host[h].age # None /\ host[h].age >= FastDays
  BY <1>2, <1>4, <1>6, <1>7, <1>8 DEF FirstClean
<1>10. aux_clean'[h].span = aux_clean[h].first /\ aux_clean'[h].spotless = (r.mismatches = "none")
  BY <1>1, <1>2, <1>3, <1>9, <1>11 DEF AfterClean, FirstClean
<1>12. aux_clean'[h].span >= MaturationDays(r)
  BY <1>2, <1>3, <1>6, <1>9, <1>10 DEF FirstClean
<1>13. r.mismatches # "none" => MaturationDays(r) = DefaultDays
  BY DEF MaturationDays
<1>14. Proven(aux_clean'[h])
  BY <1>7, <1>8, <1>10, <1>12, <1>13 DEF Proven
<1> QED
  BY <1>14 DEF h

\* The clock and the history of a host move together, and the span between its
\* first and its latest clean crawl never shrinks once a crawl has seen it.
LEMMA ClockStep ==
  ASSUME HostInv, [Next]_vars, NEW h \in Hosts
  PROVE  /\ host'[h].age = aux_clean'[h].first /\ aux_clean'[h].span <= aux_clean'[h].first
         /\ Matured(h) => Matured(h)'
<1> DEFINE New == /\ host'[h].age = aux_clean'[h].first /\ aux_clean'[h].span <= aux_clean'[h].first
                  /\ Matured(h) => Matured(h)'
<1>1. /\ TypeOK /\ FreshInv
      /\ host[h].age = aux_clean[h].first /\ aux_clean[h].span <= aux_clean[h].first
  BY DEF HostInv, ClockInv
<1>2. /\ host \in [Hosts -> Host]
      /\ aux_clean \in [Hosts -> History]
  BY <1>1 DEF TypeOK
<1>3. /\ aux_clean[h].first \in {None} \cup 0..DefaultDays
      /\ aux_clean[h].span \in {None} \cup 0..DefaultDays
      /\ host[h] \in Host /\ host[h].age \in {None} \cup 0..DefaultDays
  BY <1>1, CleanTypes
<1>4. /\ FastDays \in Nat /\ FastDays >= 1 /\ DefaultDays \in Nat /\ FastDays <= DefaultDays
      /\ NoClean.first = None /\ NoClean.span = None /\ None = -1
  BY DaysAssumption DEF NoClean, None
<1>5. ASSUME host'[h].age = host[h].age, aux_clean'[h] = aux_clean[h] PROVE New
  BY <1>1, <1>5 DEF Matured, Proven
<1>6. ASSUME NEW g \in Hosts, Resolves(g) PROVE New
  <2>1. PICK strategy \in Strategies :
          \/ host' = [host EXCEPT ![g] = Upserted(g, "shadow", "pending", strategy)]
          \/ host' = [host EXCEPT ![g] = Upserted(g, "quarantined", "needs_review", strategy)]
    BY <1>6 DEF Resolves
  <2>2. host'[h].age = host[h].age
    <3>1. CASE g # h
      BY <1>2, <2>1, <3>1
    <3>2. CASE g = h /\ host[h].status = "none"
      <4>1. host'[h].age = None
        BY <1>2, <2>1, <3>2 DEF Upserted, NoHost
      <4> QED
        BY <1>1, <3>2, <4>1 DEF FreshInv, Fresh
    <3>3. CASE g = h /\ host[h].status # "none"
      <4>1. host'[h] = [host[h] EXCEPT !.strategy = strategy]
        BY <1>2, <2>1, <3>3 DEF Upserted
      <4> QED
        BY <1>3, <4>1 DEF Host
    <3> QED
      BY <3>1, <3>2, <3>3
  <2> QED
    BY <1>5, <1>6, <2>2 DEF Resolves
<1>7. ASSUME NEW g \in Hosts, Route(g) PROVE New
  <2>1. host'[h].age = host[h].age
    BY <1>2, <1>3, <1>7 DEF Route, Host
  <2> QED
    BY <1>5, <1>7, <2>1 DEF Route
<1>8. ASSUME NEW g \in Hosts, RequeueHost(g) PROVE New
  <2>1. CASE g # h
    BY <1>2, <1>5, <1>8, <2>1 DEF RequeueHost
  <2>2. CASE g = h
    <3>1. host'[h].age = None /\ aux_clean'[h] = NoClean
      BY <1>2, <1>3, <1>8, <2>2 DEF RequeueHost, Host
    <3>2. Fresh(h)
      BY <1>8, <2>2 DEF RequeueHost, Fresh
    <3>3. aux_clean[h] = NoClean
      BY <1>1, <3>2 DEF FreshInv
    <3> QED
      BY <1>4, <3>1, <3>3 DEF Matured, Proven
  <2> QED
    BY <2>1, <2>2
<1>9. ASSUME NEW c \in Crawlers, SelectHosts(c) PROVE New
  <2>1. host'[h].age = host[h].age
    BY <1>2, <1>3, <1>9 DEF SelectHosts, Screened, Host
  <2> QED
    BY <1>5, <1>9, <2>1 DEF SelectHosts
<1>10. ASSUME NEW c \in Crawlers, FailHost(c) PROVE New
  <2>1. PICK days \in 0..RetryDays : host' = [host EXCEPT ![crawl[c].host].due = days]
    BY <1>10 DEF FailHost
  <2>2. host'[h].age = host[h].age
    BY <1>2, <1>3, <2>1 DEF Host
  <2> QED
    BY <1>5, <1>10, <2>2 DEF FailHost
<1>11. ASSUME NEW c \in Crawlers, NEW bad, NEW moved, Finish(c, bad, moved) PROVE New
  <2> DEFINE r == crawl[c]
             g == crawl[c].host
  <2>1. /\ h # g => host'[h] = host[h] /\ aux_clean'[h] = aux_clean[h]
        /\ host'[g].age = IF Clean(r, bad) /\ host[g].age = None THEN 0 ELSE host[g].age
        /\ Clean(r, bad) => aux_clean'[g] = AfterClean(r, bad, aux_clean[g])
        /\ ~Clean(r, bad) => aux_clean'[g] = aux_clean[g]
    BY <1>11, FinishEffects
  <2> HIDE DEF r, g
  <2>2. CASE g # h
    BY <1>5, <2>1, <2>2
  <2>3. CASE g = h /\ ~Clean(r, bad)
    BY <1>5, <2>1, <2>3
  <2>4. CASE g = h /\ Clean(r, bad) /\ aux_clean[h].first = None
    <3>1. host'[h].age = 0 /\ aux_clean'[h].first = 0 /\ aux_clean'[h].span = 0
      BY <1>1, <2>1, <2>4 DEF AfterClean, FirstClean
    <3>2. ~Matured(h)
      BY <1>1, <1>3, <1>4, <2>4 DEF Matured, Proven
    <3> QED
      BY <3>1, <3>2
  <2>5. CASE g = h /\ Clean(r, bad) /\ aux_clean[h].first # None
    <3>1. /\ aux_clean'[h].first = aux_clean[h].first /\ aux_clean'[h].span = aux_clean[h].first
          /\ host'[h].age = host[h].age
      BY <1>1, <2>1, <2>5 DEF AfterClean, FirstClean
    <3>2. CASE ~Activates(r, bad)
      <4>1. aux_clean'[h].spotless = aux_clean[h].spotless
        BY <2>1, <2>5, <3>2 DEF AfterClean
      <4> QED
        BY <1>1, <1>3, <1>4, <3>1, <4>1 DEF Matured, Proven
    <3>3. CASE Activates(r, bad)
      <4>1. Proven(aux_clean'[g])
        BY <1>11, <3>3, ActivationMatures DEF r, g
      <4> QED
        BY <1>1, <1>3, <1>4, <2>5, <3>1, <4>1 DEF Matured, Proven
    <3> QED
      BY <3>2, <3>3
  <2> QED
    BY <2>2, <2>3, <2>4, <2>5
<1>12. ASSUME NextDay PROVE New
  <2>1. host'[h] = [host[h] EXCEPT !.due = Less(@), !.age = Older(@)]
        /\ aux_clean'[h] = [aux_clean[h] EXCEPT !.first = Older(@)]
    BY <1>12 DEF NextDay
  <2>2. host'[h].age = Older(host[h].age)
    BY <1>3, <2>1 DEF Host
  <2>3. /\ aux_clean'[h].first = Older(aux_clean[h].first) /\ aux_clean'[h].span = aux_clean[h].span
        /\ aux_clean'[h].spotless = aux_clean[h].spotless
    BY <1>2, <2>1 DEF History
  <2>4. aux_clean[h].first <= Older(aux_clean[h].first)
        /\ Older(aux_clean[h].first) \in {None} \cup 0..DefaultDays
    BY <1>3, OlderGrows
  <2> QED
    BY <1>1, <1>3, <1>4, <2>2, <2>3, <2>4 DEF Matured, Proven
<1>13. ASSUME UNCHANGED <<host, row, aux_clean>> PROVE New
  BY <1>5, <1>13
<1> HIDE DEF New
<1>14. New
  BY <1>6, <1>7, <1>8, <1>9, <1>10, <1>11, <1>12, <1>13, StepKinds
<1> QED
  BY <1>14 DEF New

\* The row of a posting after a crawl: publishable only if it was, or if the
\* crawl writes it as active, or if the crawl activates its host.
LEMMA RowAfterFinish ==
  ASSUME HostInv, NEW c \in Crawlers, NEW bad, NEW moved, Finish(c, bad, moved), NEW p \in Postings
  PROVE  LET r == crawl[c] IN
         /\ row'[p] \in Row
         /\ row'[p].quality \in {row[p].quality, "active", "quarantine"}
         /\ row'[p].quality = "active" =>
               \/ row[p].quality = "active"
               \/ HostOf[p] = r.host /\ (r.snap[r.host].status = "active" \/ Activates(r, bad))
         /\ row'[p].status = row[p].status
            \/ (HostOf[p] = r.host /\ row'[p].status = "raw"
                  /\ (Incoming(r) = "active" /\ row[p].status = "absent" => row'[p].quality = "active"))
            \/ (Expires(p, r, bad) /\ row'[p].status = "expired")
         /\ row'[p].quality = "quarantine" =>
               \/ row[p].quality = "quarantine"
               \/ HostOf[p] = r.host /\ r.snap[r.host].status # "active"
         /\ HostOf[p] = r.host /\ Activates(r, bad) /\ row'[p].status = "raw" => row'[p].quality = "active"
<1> DEFINE r == crawl[c]
           after == [q \in Postings |-> CASE q \in Written(r, bad) -> WrittenRow(q, r, moved)
                                       [] Expires(q, r, bad) -> [row[q] EXCEPT !.status = "expired"]
                                       [] OTHER -> row[q]]
<1>1. r \in Crawl /\ r.pc = "write" /\ row[p] \in Row
  BY DEF HostInv, TypeOK, Finish
<1>2. p \in Written(r, bad) => HostOf[p] = r.host
  BY <1>1 DEF HostInv, CrawlInv, Written, Of
<1>3. row' = [q \in Postings |->
               IF Activates(r, bad) /\ HostOf[q] = r.host /\ after[q].status = "raw"
               THEN [after[q] EXCEPT !.quality = "active"] ELSE after[q]]
  BY DEF Finish
<1>4. after[p] = CASE p \in Written(r, bad) -> WrittenRow(p, r, moved)
                   [] Expires(p, r, bad) -> [row[p] EXCEPT !.status = "expired"]
                   [] OTHER -> row[p]
  OBVIOUS
<1>5. Expires(p, r, bad) => p \notin Written(r, bad)
  BY DEF Expires
<1>6. row'[p] = IF Activates(r, bad) /\ HostOf[p] = r.host /\ after[p].status = "raw"
                THEN [after[p] EXCEPT !.quality = "active"] ELSE after[p]
  <2> HIDE DEF after, r
  <2> QED
    BY <1>3
<1>7. Incoming(r) = IF r.snap[r.host].status = "active" THEN "active" ELSE "quarantine"
  BY DEF Incoming
<1>8. /\ WrittenRow(p, r, moved) \in Row
      /\ WrittenRow(p, r, moved).status = "raw"
      /\ WrittenRow(p, r, moved).quality =
            IF row[p].status = "absent" \/ Incoming(r) = "quarantine" \/ p \in moved
            THEN Incoming(r) ELSE row[p].quality
  BY <1>1, <1>7 DEF WrittenRow, Row
<1> HIDE DEF after, r
<1>9. CASE p \in Written(r, bad)
  <2>1. after[p] = WrittenRow(p, r, moved)
    BY <1>4, <1>5, <1>9, Zenon
  <2>2. row'[p] \in Row /\ row'[p].status = "raw"
        /\ row'[p].quality = IF Activates(r, bad) THEN "active" ELSE WrittenRow(p, r, moved).quality
    BY <1>2, <1>6, <1>8, <1>9, <2>1 DEF Row
  <2> QED
    BY <1>1, <1>2, <1>7, <1>8, <1>9, <2>2 DEF r, Row
<1>10. CASE p \notin Written(r, bad) /\ Expires(p, r, bad)
  <2>1. after[p] = [row[p] EXCEPT !.status = "expired"]
    BY <1>4, <1>10, Zenon
  <2>2. row'[p] = after[p]
    BY <1>1, <1>6, <2>1 DEF Row
  <2> QED
    BY <1>1, <1>10, <2>1, <2>2 DEF r, Row
<1>11. CASE p \notin Written(r, bad) /\ ~Expires(p, r, bad)
  <2>1. after[p] = row[p]
    BY <1>4, <1>11, Zenon
  <2> QED
    BY <1>1, <1>6, <2>1 DEF r, Row
<1> QED
  BY <1>9, <1>10, <1>11

\* Only the end of a crawl makes a host active.
LEMMA ActivatedByCrawl ==
  ASSUME HostInv, [Next]_vars, NEW h \in Hosts, host[h].status # "active", host'[h].status = "active"
  PROVE  \E c \in Crawlers : \E bad, moved \in SUBSET crawl[c].found :
            Finish(c, bad, moved) /\ h = crawl[c].host /\ Activates(crawl[c], bad)
<1>1. host \in [Hosts -> Host] /\ host[h] \in Host
  BY DEF HostInv, TypeOK
<1>2. ASSUME NEW g \in Hosts, Resolves(g) PROVE FALSE
  <2>1. PICK strategy \in Strategies :
        \/ host' = [host EXCEPT ![g] = Upserted(g, "shadow", "pending", strategy)]
        \/ host' = [host EXCEPT ![g] = Upserted(g, "quarantined", "needs_review", strategy)]
    BY <1>2 DEF Resolves
  <2> QED
    BY <1>1, <2>1 DEF Upserted, NoHost, Host
<1>3. ASSUME NEW g \in Hosts, Route(g) \/ RequeueHost(g) PROVE FALSE
  BY <1>1, <1>3 DEF Route, RequeueHost, Host
<1>4. ASSUME NEW c \in Crawlers, SelectHosts(c) PROVE FALSE
  BY <1>1, <1>4 DEF SelectHosts, Screened, Host
<1>5. ASSUME NEW c \in Crawlers, FailHost(c) PROVE FALSE
  <2>1. PICK days \in 0..RetryDays : host' = [host EXCEPT ![crawl[c].host].due = days]
    BY <1>5 DEF FailHost
  <2> QED
    BY <1>1, <2>1 DEF Host
<1>6. ASSUME NEW c \in Crawlers, NEW bad, NEW moved, Finish(c, bad, moved)
      PROVE  h = crawl[c].host /\ Activates(crawl[c], bad)
  <2> DEFINE g == crawl[c].host
  <2>1. /\ h # g => host'[h] = host[h]
        /\ \/ Activates(crawl[c], bad)
           \/ host'[g].status = host[g].status
           \/ host'[g].status = "quarantined"
    BY <1>6, FinishEffects
  <2> QED
    BY <2>1
<1>7. ASSUME NextDay PROVE FALSE
  BY <1>1, <1>7 DEF NextDay, Host
<1>8. ~UNCHANGED <<host, row, aux_clean>>
  OBVIOUS
<1>9. PICK c \in Crawlers : \E bad, moved \in SUBSET crawl[c].found : Finish(c, bad, moved)
  BY <1>2, <1>3, <1>4, <1>5, <1>7, <1>8, StepKinds
<1> QED
  BY <1>6, <1>9

\* The rows of a host are published only after it matured.
LEMMA MaturedStep == HostInv /\ [Next]_vars => MaturedInv'
<1> SUFFICES ASSUME HostInv, [Next]_vars PROVE MaturedInv'
  OBVIOUS
<1>1. TypeOK /\ TypeOK' /\ MaturedInv
  BY HostTypeStep DEF HostInv
<1>2. \A h \in Hosts : Matured(h) => Matured(h)'
  BY ClockStep
<1>3. host \in [Hosts -> Host]
  BY <1>1 DEF TypeOK
<1>4. ASSUME NEW h \in Hosts, host'[h].status = "active" PROVE Matured(h)'
  <2>1. CASE host[h].status = "active"
    BY <1>1, <1>2, <2>1 DEF MaturedInv
  <2>2. CASE host[h].status # "active"
    <3>1. PICK c \in Crawlers : \E bad, moved \in SUBSET crawl[c].found :
             Finish(c, bad, moved) /\ h = crawl[c].host /\ Activates(crawl[c], bad)
      BY <1>4, <2>2, ActivatedByCrawl
    <3> QED
      BY <3>1, ActivationMatures DEF Matured
  <2> QED
    BY <2>1, <2>2
<1>5. ASSUME NEW c \in Crawlers, NEW h \in Hosts, h \in Visited(c)', crawl'[c].snap[h].status = "active"
      PROVE  Matured(h)'
  <2>1. GoesOn(c) \/ ReadsAnew(c)
    BY CrawlStepKeeps DEF HostInv
  <2> QED
    BY <1>1, <1>2, <1>4, <1>5, <2>1 DEF GoesOn, ReadsAnew, MaturedInv
<1>6. ASSUME NEW p \in Postings, row'[p].quality = "active" PROVE Matured(HostOf[p])'
  <2>1. HostOf[p] \in Hosts
    BY HostsAssumption
  <2>2. ASSUME row[p].quality = "active" PROVE Matured(HostOf[p])'
    BY <1>1, <1>2, <2>1, <2>2 DEF MaturedInv
  <2>3. row[p] \in Row /\ row \in [Postings -> Row]
    BY <1>1 DEF TypeOK
  <2>4. ASSUME NEW g \in Hosts, Resolves(g) \/ Route(g) \/ RequeueHost(g) PROVE row[p].quality = "active"
    BY <1>6, <2>3, <2>4 DEF Resolves, Route, RequeueHost, Row
  <2>5. ASSUME NEW c \in Crawlers, SelectHosts(c) \/ FailHost(c) PROVE row[p].quality = "active"
    BY <1>6, <2>3, <2>5 DEF SelectHosts, FailHost, Row
  <2>6. ASSUME NEW c \in Crawlers, NEW bad, NEW moved, Finish(c, bad, moved) PROVE Matured(HostOf[p])'
    <3>1. \/ row[p].quality = "active"
          \/ /\ HostOf[p] = crawl[c].host
             /\ crawl[c].snap[crawl[c].host].status = "active" \/ Activates(crawl[c], bad)
      BY <1>6, <2>6, RowAfterFinish
    <3>2. crawl[c].host \in Visited(c) /\ crawl[c].host \in Hosts
      BY <2>6, FinishEffects
    <3>3. CASE HostOf[p] = crawl[c].host /\ crawl[c].snap[crawl[c].host].status = "active"
      <4>1. Matured(HostOf[p])
        BY <1>1, <3>2, <3>3 DEF MaturedInv
      <4> QED
        BY <1>2, <2>1, <4>1
    <3>4. CASE HostOf[p] = crawl[c].host /\ Activates(crawl[c], bad)
      BY <2>6, <3>4, ActivationMatures DEF Matured
    <3> QED
      BY <2>2, <3>1, <3>3, <3>4
  <2>7. ASSUME NextDay \/ UNCHANGED <<host, row, aux_clean>> PROVE row[p].quality = "active"
    BY <1>6, <2>7 DEF NextDay
  <2> QED
    BY <2>2, <2>4, <2>5, <2>6, <2>7, StepKinds
<1>7. \A c \in Crawlers : Visited(c)' \subseteq Hosts
  <2>1. CrawlInv'
    BY CrawlStepKeeps DEF HostInv
  <2> QED
    BY <1>1, <2>1 DEF CrawlInv, Visited, TypeOK, Crawl
<1> QED
  BY <1>4, <1>5, <1>6, <1>7 DEF MaturedInv

LEMMA HostInvInit == Init => HostInv
<1> SUFFICES ASSUME Init PROVE HostInv
  OBVIOUS
<1>1. CrawlInv
  BY DEF Init, CrawlInv, Busy, Idle
<1>2. \A c \in Crawlers : Visited(c) = {}
  BY DEF Init, Visited, Busy, Idle
<1>3. FreshInv
  BY <1>2 DEF Init, FreshInv, NoHost, Of
<1>4. ClockInv
  BY DEF Init, ClockInv, NoHost, NoClean, None
<1>5. MaturedInv
  BY <1>2 DEF Init, MaturedInv, NoHost
<1> QED
  BY <1>1, <1>3, <1>4, <1>5, HostTypeInit DEF HostInv

LEMMA HostInvStep == HostInv /\ [Next]_vars => HostInv'
<1> SUFFICES ASSUME HostInv, [Next]_vars PROVE HostInv'
  OBVIOUS
<1>1. TypeOK'
  BY HostTypeStep DEF HostInv
<1>2. CrawlInv'
  BY CrawlStepKeeps DEF HostInv
<1>3. FreshInv'
  BY FreshStep
<1>4. ClockInv'
  BY ClockStep DEF ClockInv
<1>5. MaturedInv'
  BY MaturedStep
<1> QED
  BY <1>1, <1>2, <1>3, <1>4, <1>5 DEF HostInv

\* However many crawls run at once and however stale what they read, no posting
\* of a host can be published before the host had two clean crawls DefaultDays
\* apart, or FastDays apart when the activating crawl met no wrong employer.
THEOREM PublicationWaits == Spec => []PublishedAfterMaturation
<1>1. HostInv => PublishedAfterMaturation
  BY DEF HostInv, MaturedInv, Matured, Proven, PublishedAfterMaturation, Publishable
<1> QED
  BY <1>1, HostInvInit, HostInvStep, PTL DEF Spec

\* A crawl closes no posting that its own listing held in a form the program takes.
THEOREM ClosingSparesAcceptable == Spec => ClosesNothingAcceptable
<1>1. HostInv /\ [Next]_vars =>
        [\A c \in Crawlers, p \in Postings :
         crawl[c].pc = "write" /\ crawl'[c].pc = "batch" /\ HostOf[p] = crawl[c].host
           /\ row[p].status = "raw" /\ row'[p].status = "expired"
         => ~crawl[c].errors /\ p \notin crawl[c].listed \ crawl[c].refused]_vars
  <2> SUFFICES ASSUME HostInv, [Next]_vars, NEW c \in Crawlers, NEW p \in Postings,
                      crawl[c].pc = "write", crawl'[c].pc = "batch",
                      row[p].status = "raw", row'[p].status = "expired"
               PROVE  ~crawl[c].errors /\ p \notin crawl[c].listed \ crawl[c].refused
    BY DEF vars
  <2>1. row[p] \in Row /\ row \in [Postings -> Row] /\ crawl \in [Crawlers -> Crawl]
    BY DEF HostInv, TypeOK
  <2>2. PICK d \in Crawlers : \E bad, moved \in SUBSET crawl[d].found : Finish(d, bad, moved)
    <3>1. ASSUME NEW g \in Hosts, Resolves(g) \/ Route(g) \/ RequeueHost(g) PROVE FALSE
      BY <2>1, <3>1 DEF Resolves, Route, RequeueHost, Row
    <3>2. ASSUME NEW e \in Crawlers, SelectHosts(e) \/ FailHost(e) PROVE FALSE
      BY <2>1, <3>2 DEF SelectHosts, FailHost, Row
    <3>3. ASSUME NextDay \/ UNCHANGED <<host, row, aux_clean>> PROVE FALSE
      BY <3>3 DEF NextDay
    <3> QED
      BY <3>1, <3>2, <3>3, StepKinds
  <2>3. PICK bad \in SUBSET crawl[d].found, moved \in SUBSET crawl[d].found : Finish(d, bad, moved)
    BY <2>2
  <2>4. d = c
    <3> SUFFICES ASSUME d # c PROVE FALSE
      OBVIOUS
    <3>1. crawl'[c] = [crawl[c] EXCEPT !.touched = @ \cup Written(crawl[d], bad)]
      BY <2>3 DEF Finish
    <3>2. crawl'[c].pc = crawl[c].pc
      BY <2>1, <3>1 DEF Crawl
    <3> QED
      BY <3>2
  <2>5. Expires(p, crawl[c], bad)
    BY <2>3, <2>4, RowAfterFinish
  <2>6. RunStatus(crawl[c], bad) = "complete" /\ p \notin Written(crawl[c], bad)
    BY <2>5 DEF Expires
  <2>7. ~crawl[c].errors /\ bad = {}
    BY <2>6 DEF RunStatus, Complete
  <2>8. crawl[c].found = crawl[c].listed
    BY <2>7 DEF HostInv, CrawlInv
  <2> QED
    BY <2>6, <2>7, <2>8 DEF Written
<1> QED
  BY <1>1, HostInvInit, HostInvStep, PTL DEF Spec, ClosesNothingAcceptable

-----------------------------------------------------------------------------
\* CareerHost: what only one crawler keeps.

\* The tasks of the DAG are one crawler; a manual pilot beside it is a second
\* one, whose stale reading may hide a row or revive a host.
OneCrawler == \A c, d \in Crawlers : c = d

\* What the crawl read of a host is still so.
CurrentInv == \A c \in Crawlers : \A h \in Visited(c) : crawl[c].snap[h].status = host[h].status

\* A host in shadow has closed nothing yet; an active one hides nothing.
RowsInv == \A p \in Postings :
    /\ host[HostOf[p]].status = "shadow" => row[p].status # "expired"
    /\ host[HostOf[p]].status = "active" => row[p].status = "absent" \/ row[p].quality = "active"

\* Only hosts in shadow or active are in a batch.
BatchInv == \A c \in Crawlers : \A h \in Visited(c) : crawl[c].snap[h].status \in {"shadow", "active"}

\* What the block list took down stays down.
BlockedInv == \A h \in Hosts : host[h].blocked =>
    host[h].status = "quarantined" /\ \A p \in Of(h) : row[p].quality = "quarantine"

OneInv == HostInv /\ CurrentInv /\ RowsInv /\ BatchInv /\ BlockedInv

\* The status of a host changes by its resolution, its routing, its review, the
\* screening or the end of its crawl.
LEMMA StatusChanges ==
  ASSUME HostInv, [Next]_vars, NEW h \in Hosts, host'[h].status # host[h].status
  PROVE  \/ host[h].status = "none" /\ UNCHANGED <<row, crawl>>
         \/ Route(h) \/ RequeueHost(h)
         \/ \E c \in Crawlers : SelectHosts(c) /\ host'[h].status = "quarantined"
         \/ \E c \in Crawlers : \E bad, moved \in SUBSET crawl[c].found :
               Finish(c, bad, moved) /\ crawl[c].host = h
<1>1. host \in [Hosts -> Host] /\ host[h] \in Host
  BY DEF HostInv, TypeOK
<1>2. ASSUME NEW g \in Hosts, Resolves(g) PROVE host[h].status = "none" /\ UNCHANGED <<row, crawl>>
  <2>1. PICK strategy \in Strategies :
        \/ host' = [host EXCEPT ![g] = Upserted(g, "shadow", "pending", strategy)]
        \/ host' = [host EXCEPT ![g] = Upserted(g, "quarantined", "needs_review", strategy)]
    BY <1>2 DEF Resolves
  <2>2. host[h].status = "none"
    BY <1>1, <2>1 DEF Upserted, Host
  <2> QED
    BY <1>2, <2>2 DEF Resolves
<1>3. ASSUME NEW g \in Hosts, Route(g) \/ RequeueHost(g) PROVE g = h
  BY <1>1, <1>3 DEF Route, RequeueHost
<1>4. ASSUME NEW c \in Crawlers, SelectHosts(c) PROVE host'[h].status = "quarantined"
  BY <1>1, <1>4 DEF SelectHosts, Screened, Host
<1>5. ASSUME NEW c \in Crawlers, FailHost(c) PROVE FALSE
  <2>1. PICK days \in 0..RetryDays : host' = [host EXCEPT ![crawl[c].host].due = days]
    BY <1>5 DEF FailHost
  <2> QED
    BY <1>1, <2>1 DEF Host
<1>6. ASSUME NEW c \in Crawlers, NEW bad, NEW moved, Finish(c, bad, moved) PROVE crawl[c].host = h
  BY <1>6, FinishEffects
<1>7. ASSUME NextDay PROVE FALSE
  BY <1>1, <1>7 DEF NextDay, Host
<1>8. ~UNCHANGED <<host, row, aux_clean>>
  OBVIOUS
<1>9. CASE \E g \in Hosts : Resolves(g) \/ Route(g) \/ RequeueHost(g)
  BY <1>2, <1>3, <1>9
<1>10. CASE \E c \in Crawlers : SelectHosts(c) \/ FailHost(c)
  BY <1>4, <1>5, <1>10
<1>11. CASE \E c \in Crawlers : \E bad, moved \in SUBSET crawl[c].found : Finish(c, bad, moved)
  BY <1>6, <1>11
<1> QED
  BY <1>7, <1>8, <1>9, <1>10, <1>11, StepKinds

LEMMA CurrentStep == OneCrawler /\ OneInv /\ [Next]_vars => CurrentInv'
<1> SUFFICES ASSUME OneCrawler, OneInv, [Next]_vars, NEW c \in Crawlers, NEW h \in Visited(c)'
             PROVE  crawl'[c].snap[h].status = host'[h].status
  BY DEF CurrentInv
<1>1. HostInv /\ CurrentInv /\ TypeOK' /\ CrawlInv'
  BY CrawlStepKeeps, HostTypeStep DEF OneInv, HostInv
<1>2. h \in Hosts
  BY <1>1 DEF CrawlInv, Visited, TypeOK, Crawl
<1>3. GoesOn(c) \/ ReadsAnew(c)
  BY <1>1, CrawlStepKeeps DEF HostInv
<1>4. CASE ReadsAnew(c)
  BY <1>4 DEF ReadsAnew
<1>5. CASE GoesOn(c)
  <2>1. h \in Visited(c) /\ crawl'[c].snap[h].status = host[h].status
    BY <1>1, <1>5 DEF GoesOn, CurrentInv
  <2> SUFFICES ASSUME host'[h].status # host[h].status PROVE FALSE
    BY <2>1
  <2>2. CASE host[h].status = "none"
    BY <1>1, <1>2, <2>1, <2>2 DEF HostInv, FreshInv, Fresh
  <2>3. CASE Route(h)
    <3>1. crawl[c].pc = "idle"
      BY <2>3 DEF Route, BeforeCrawl
    <3> QED
      BY <1>1, <2>1, <3>1 DEF HostInv, CrawlInv, Visited, Busy
  <2>4. CASE RequeueHost(h)
    BY <1>1, <1>2, <2>1, <2>4 DEF RequeueHost, HostInv, FreshInv, Fresh
  <2>5. ASSUME NEW d \in Crawlers, SelectHosts(d) PROVE FALSE
    <3>1. crawl[c].pc = "idle"
      BY <2>5 DEF SelectHosts, OneCrawler
    <3> QED
      BY <1>1, <2>1, <3>1 DEF HostInv, CrawlInv, Visited, Busy
  <2>6. ASSUME NEW d \in Crawlers, NEW bad, NEW moved, Finish(d, bad, moved), crawl[d].host = h PROVE FALSE
    <3>1. d = c
      BY DEF OneCrawler
    <3>2. crawl[c] \in Crawl /\ crawl[c].pc = "write"
      BY <1>1, <2>6, <3>1 DEF HostInv, TypeOK, Finish
    <3>3. crawl'[c] = Onward(crawl[c])
      BY <2>6, <3>1 DEF Finish
    <3>4. crawl'[c].pc = "batch" /\ crawl'[c].todo = crawl[c].todo
      BY <3>2, <3>3, OnwardType
    <3>5. h \in crawl[c].todo
      BY <3>4 DEF Visited, Busy
    <3> QED
      BY <1>1, <2>6, <3>1, <3>2, <3>5 DEF HostInv, CrawlInv, Busy
  <2> QED
    BY <1>1, <1>2, <2>2, <2>3, <2>4, <2>5, <2>6, StatusChanges
<1> QED
  BY <1>3, <1>4, <1>5

LEMMA RowsStep == OneInv /\ [Next]_vars => RowsInv'
<1> SUFFICES ASSUME OneInv, [Next]_vars, NEW p \in Postings
             PROVE  /\ host'[HostOf[p]].status = "shadow" => row'[p].status # "expired"
                    /\ host'[HostOf[p]].status = "active" =>
                          row'[p].status = "absent" \/ row'[p].quality = "active"
  BY DEF RowsInv
<1> DEFINE h == HostOf[p]
           New == /\ host'[h].status = "shadow" => row'[p].status # "expired"
                  /\ host'[h].status = "active" =>
                          row'[p].status = "absent" \/ row'[p].quality = "active"
<1>1. HostInv /\ CurrentInv /\ RowsInv /\ TypeOK
  BY DEF OneInv, HostInv
<1>2. h \in Hosts /\ host \in [Hosts -> Host] /\ row \in [Postings -> Row] /\ host[h] \in Host /\ row[p] \in Row
  BY <1>1, HostsAssumption DEF TypeOK
<1>3. /\ host[h].status = "shadow" => row[p].status # "expired"
      /\ host[h].status = "active" => row[p].status = "absent" \/ row[p].quality = "active"
  BY <1>1 DEF RowsInv
<1>4. ASSUME Fresh(h) PROVE row[p].status = "absent"
  BY <1>1, <1>2, <1>4 DEF HostInv, FreshInv, Of
<1>5. ASSUME NEW c \in Crawlers, NEW bad, NEW moved, Finish(c, bad, moved) PROVE New
  <2> DEFINE r == crawl[c]
  <2>1. /\ r.host \in Hosts /\ r.host \in Visited(c)
        /\ h # r.host => host'[h] = host[h] /\ row'[p] = row[p]
        /\ \/ Activates(r, bad) /\ host'[r.host].status = "active"
           \/ ~Activates(r, bad) /\ host'[r.host].status = host[r.host].status
           \/ ~Activates(r, bad) /\ host'[r.host].status = "quarantined"
    BY <1>1, <1>2, <1>5, FinishEffects
  <2>2. r.snap[r.host].status = host[r.host].status
    BY <1>1, <2>1 DEF CurrentInv
  <2>3. /\ row'[p] \in Row
        /\ row'[p].quality \in {row[p].quality, "active", "quarantine"}
        /\ row'[p].status = row[p].status
            \/ (HostOf[p] = r.host /\ row'[p].status = "raw"
                  /\ (Incoming(r) = "active" /\ row[p].status = "absent" => row'[p].quality = "active"))
            \/ (Expires(p, r, bad) /\ row'[p].status = "expired")
        /\ row'[p].quality = "quarantine" =>
               \/ row[p].quality = "quarantine"
               \/ HostOf[p] = r.host /\ r.snap[r.host].status # "active"
        /\ HostOf[p] = r.host /\ Activates(r, bad) /\ row'[p].status = "raw" => row'[p].quality = "active"
    BY <1>1, <1>5, RowAfterFinish
  <2>4. /\ Expires(p, r, bad) => r.snap[r.host].status = "active"
        /\ Activates(r, bad) => r.snap[r.host].status = "shadow"
        /\ r.snap[r.host].status = "active" => Incoming(r) = "active"
    BY DEF Expires, Activates, Incoming
  <2> HIDE DEF r
  <2>5. CASE h # r.host
    BY <1>3, <2>1, <2>5
  <2>6. CASE h = r.host /\ Activates(r, bad)
    <3>1. host'[h].status = "active" /\ host[h].status = "shadow"
      BY <2>1, <2>2, <2>4, <2>6
    <3>2. row'[p].status # "expired"
      BY <1>3, <2>2, <2>3, <2>4, <2>6, <3>1
    <3>3. row'[p].status = "raw" => row'[p].quality = "active"
      BY <2>3, <2>6
    <3> QED
      BY <2>3, <3>1, <3>2, <3>3 DEF Row
  <2>7. CASE h = r.host /\ ~Activates(r, bad)
    <3>1. host'[h].status = "shadow" => row'[p].status # "expired"
      BY <1>3, <2>1, <2>2, <2>3, <2>4, <2>7
    <3>2. ASSUME host'[h].status = "active" PROVE row'[p].status = "absent" \/ row'[p].quality = "active"
      <4>1. host[h].status = "active" /\ r.snap[r.host].status = "active" /\ Incoming(r) = "active"
        BY <2>1, <2>2, <2>4, <2>7, <3>2
      <4>2. CASE row[p].quality = "active"
        BY <2>3, <4>1, <4>2 DEF Row
      <4>3. CASE row[p].quality # "active"
        <5>1. row[p].status = "absent"
          BY <1>3, <4>1, <4>3
        <5>2. ~Expires(p, r, bad)
          BY <5>1 DEF Expires
        <5> QED
          BY <2>3, <4>1, <5>1, <5>2
      <4> QED
        BY <4>2, <4>3
    <3> QED
      BY <3>1, <3>2
  <2> QED
    BY <2>5, <2>6, <2>7
<1>6. ASSUME ~\E c \in Crawlers : \E bad, moved \in SUBSET crawl[c].found : Finish(c, bad, moved) PROVE New
  <2>1. CASE host'[h].status = host[h].status
    <3>1. row'[p].status = row[p].status
      <4>1. ASSUME NEW g \in Hosts, Resolves(g) \/ Route(g) \/ RequeueHost(g) PROVE row'[p].status = row[p].status
        BY <1>2, <4>1 DEF Resolves, Route, RequeueHost, Row
      <4>2. ASSUME NEW c \in Crawlers, SelectHosts(c) \/ FailHost(c) PROVE row'[p].status = row[p].status
        BY <1>2, <4>2 DEF SelectHosts, FailHost, Row
      <4> QED
        BY <1>6, <4>1, <4>2, StepKinds DEF NextDay
    <3>2. ASSUME host[h].status = "active" PROVE row'[p].quality = row[p].quality
      <4>1. ASSUME NEW g \in Hosts, Resolves(g) \/ Route(g) PROVE row'[p].quality = row[p].quality
        BY <4>1 DEF Resolves, Route
      <4>2. ASSUME NEW g \in Hosts, RequeueHost(g) PROVE row'[p].quality = row[p].quality
        BY <1>2, <3>2, <4>2 DEF RequeueHost
      <4>3. ASSUME NEW c \in Crawlers, FailHost(c) PROVE row'[p].quality = row[p].quality
        BY <4>3 DEF FailHost
      <4>4. ASSUME NEW c \in Crawlers, SelectHosts(c) PROVE row'[p].quality = row[p].quality
        <5>1. ~BlockedHost(h)
          <6> SUFFICES ASSUME BlockedHost(h) PROVE FALSE
            OBVIOUS
          <6>1. host'[h].status = "quarantined"
            BY <1>2, <4>4 DEF SelectHosts, Screened, Host
          <6> QED
            BY <2>1, <3>2, <6>1
        <5> QED
          BY <4>4, <5>1 DEF SelectHosts
      <4> QED
        BY <1>6, <4>1, <4>2, <4>3, <4>4, StepKinds DEF NextDay
    <3> QED
      BY <1>3, <2>1, <3>1, <3>2
  <2>2. CASE host'[h].status # host[h].status
    <3>1. CASE host[h].status = "none" /\ UNCHANGED <<row, crawl>>
      BY <1>4, <3>1 DEF Fresh
    <3>2. CASE Route(h)
      BY <1>2, <3>2 DEF Route, Host
    <3>3. CASE RequeueHost(h)
      <4>1. Fresh(h)
        BY <3>3 DEF RequeueHost, Fresh
      <4>2. row'[p].status = row[p].status
        BY <1>2, <3>3 DEF RequeueHost, Row
      <4> QED
        BY <1>4, <4>1, <4>2
    <3>4. CASE host'[h].status = "quarantined"
      BY <3>4
    <3> QED
      BY <1>1, <1>2, <1>6, <2>2, <3>1, <3>2, <3>3, <3>4, StatusChanges
  <2> QED
    BY <2>1, <2>2
<1> QED
  BY <1>5, <1>6

LEMMA BatchStep == OneInv /\ [Next]_vars => BatchInv'
<1> SUFFICES ASSUME OneInv, [Next]_vars, NEW c \in Crawlers, NEW h \in Visited(c)'
             PROVE  crawl'[c].snap[h].status \in {"shadow", "active"}
  BY DEF BatchInv
<1>1. GoesOn(c) \/ ReadsAnew(c)
  BY CrawlStepKeeps DEF OneInv, HostInv
<1> QED
  BY <1>1 DEF OneInv, BatchInv, GoesOn, ReadsAnew

LEMMA BlockedStep == OneInv /\ [Next]_vars => BlockedInv'
<1> SUFFICES ASSUME OneInv, [Next]_vars, NEW h \in Hosts, host'[h].blocked
             PROVE  host'[h].status = "quarantined" /\ \A p \in Of(h) : row'[p].quality = "quarantine"
  BY DEF BlockedInv, Of
<1> DEFINE New == host'[h].status = "quarantined" /\ \A p \in Of(h) : row'[p].quality = "quarantine"
<1>1. HostInv /\ CurrentInv /\ BatchInv /\ BlockedInv /\ TypeOK
  BY DEF OneInv, HostInv
<1>2. host \in [Hosts -> Host] /\ row \in [Postings -> Row] /\ host[h] \in Host
  BY <1>1 DEF TypeOK
<1>3. host[h].blocked => host[h].status = "quarantined" /\ \A p \in Of(h) : row[p].quality = "quarantine"
  BY <1>1 DEF BlockedInv
<1>4. ASSUME NEW g \in Hosts, Resolves(g) PROVE New
  <2>1. PICK strategy \in Strategies :
        \/ host' = [host EXCEPT ![g] = Upserted(g, "shadow", "pending", strategy)]
        \/ host' = [host EXCEPT ![g] = Upserted(g, "quarantined", "needs_review", strategy)]
    BY <1>4 DEF Resolves
  <2>2. ~(g = h /\ host[h].status = "none")
    <3> SUFFICES ASSUME g = h, host[h].status = "none" PROVE FALSE
      OBVIOUS
    <3>1. \A s, i, way : Upserted(h, s, i, way).blocked = FALSE
      BY DEF Upserted, NoHost
    <3>2. host'[h].blocked = FALSE
      BY <1>2, <2>1, <3>1
    <3> QED
      BY <3>2
  <2>3. host'[h].blocked = host[h].blocked /\ host'[h].status = host[h].status
    <3>1. CASE g # h
      BY <1>2, <2>1, <3>1
    <3>2. CASE g = h
      <4>1. \A s, i, way : Upserted(h, s, i, way) = [host[h] EXCEPT !.strategy = way]
        BY <2>2, <3>2 DEF Upserted
      <4>2. host'[h] = [host[h] EXCEPT !.strategy = strategy]
        BY <1>2, <2>1, <3>2, <4>1
      <4> QED
        BY <1>2, <4>2 DEF Host
    <3> QED
      BY <3>1, <3>2
  <2> QED
    BY <1>3, <1>4, <2>3 DEF Resolves
<1>5. ASSUME NEW g \in Hosts, Route(g) PROVE New
  <2>1. host[h].blocked /\ g # h /\ host'[h] = host[h]
    BY <1>2, <1>3, <1>5 DEF Route, Host
  <2> QED
    BY <1>3, <1>5, <2>1 DEF Route
<1>6. ASSUME NEW g \in Hosts, RequeueHost(g) PROVE New
  <2>1. g # h /\ host'[h] = host[h]
    BY <1>2, <1>6 DEF RequeueHost, Host
  <2>2. \A p \in Of(h) : row'[p] = row[p]
    BY <1>6, <2>1 DEF RequeueHost, Of
  <2> QED
    BY <1>3, <2>1, <2>2
<1>7. ASSUME NEW c \in Crawlers, SelectHosts(c) PROVE New
  <2>1. host'[h] = Screened[h]
    BY <1>7 DEF SelectHosts
  <2>2. CASE BlockedHost(h)
    <3>1. host'[h].status = "quarantined"
      BY <1>2, <2>1, <2>2 DEF Screened, Host
    <3>2. \A p \in Of(h) : row'[p].quality = "quarantine"
      BY <1>2, <1>7, <2>2 DEF SelectHosts, Of, Row
    <3> QED
      BY <3>1, <3>2
  <2>3. CASE ~BlockedHost(h)
    <3>1. host'[h] = host[h]
      BY <2>1, <2>3 DEF Screened
    <3>2. \A p \in Of(h) : row'[p] = row[p]
      BY <1>7, <2>3 DEF SelectHosts, Of
    <3> QED
      BY <1>3, <3>1, <3>2
  <2> QED
    BY <2>2, <2>3
<1>8. ASSUME NEW c \in Crawlers, FailHost(c) PROVE New
  <2>1. PICK days \in 0..RetryDays : host' = [host EXCEPT ![crawl[c].host].due = days]
    BY <1>8 DEF FailHost
  <2>2. host'[h].blocked = host[h].blocked /\ host'[h].status = host[h].status
    BY <1>2, <2>1 DEF Host
  <2> QED
    BY <1>3, <1>8, <2>2 DEF FailHost
<1>9. ASSUME NEW c \in Crawlers, NEW bad, NEW moved, Finish(c, bad, moved) PROVE New
  <2> DEFINE g == crawl[c].host
  <2>1. /\ g \in Hosts /\ g \in Visited(c)
        /\ h # g => host'[h] = host[h]
        /\ host'[g].blocked = host[g].blocked
        /\ \A p \in Postings : HostOf[p] # g => row'[p] = row[p]
    BY <1>1, <1>9, FinishEffects
  <2>2. host[g].status \in {"shadow", "active"}
    BY <1>1, <2>1 DEF CurrentInv, BatchInv
  <2> HIDE DEF g
  <2>3. h # g
    BY <1>3, <2>1, <2>2
  <2> QED
    BY <1>3, <2>1, <2>3 DEF Of
<1>10. ASSUME NextDay PROVE New
  <2>1. host'[h].blocked = host[h].blocked /\ host'[h].status = host[h].status
    BY <1>2, <1>10 DEF NextDay, Host
  <2> QED
    BY <1>3, <1>10, <2>1 DEF NextDay
<1>11. ASSUME UNCHANGED <<host, row, aux_clean>> PROVE New
  BY <1>3, <1>11
<1> HIDE DEF New
<1>12. New
  BY <1>4, <1>5, <1>6, <1>7, <1>8, <1>9, <1>10, <1>11, StepKinds
<1> QED
  BY <1>12 DEF New

LEMMA OneInvStep == OneCrawler /\ OneInv /\ [Next]_vars => OneInv'
  BY HostInvStep, CurrentStep, RowsStep, BatchStep, BlockedStep DEF OneInv

LEMMA OneInvInit == Init => OneInv
<1> SUFFICES ASSUME Init PROVE OneInv
  OBVIOUS
<1>1. CurrentInv
  BY DEF Init, CurrentInv, Visited, Busy, Idle
<1>2. RowsInv
  BY DEF Init, RowsInv
<1>3. BatchInv
  BY DEF Init, BatchInv, Visited, Busy, Idle
<1>4. BlockedInv
  BY DEF Init, BlockedInv, NoHost
<1> QED
  BY <1>1, <1>2, <1>3, <1>4, HostInvInit DEF OneInv

\* With one crawler, every listed row of an active host is publishable.
THEOREM ActiveHostHidesNothing == OneCrawler /\ Spec => []ActiveHostPublishes
<1>1. OneInv => ActiveHostPublishes
  BY DEF OneInv, RowsInv, ActiveHostPublishes
<1> SUFFICES ASSUME OneCrawler PROVE Spec => []ActiveHostPublishes
  OBVIOUS
<1>2. OneInv /\ [Next]_vars => OneInv'
  BY OneInvStep
<1> QED
  BY <1>1, <1>2, OneInvInit, PTL DEF Spec

\* With one crawler, a host that the block list took down shows nothing again.
THEOREM BlockedHostsStayHidden == OneCrawler /\ Spec => []BlockedStaysHidden
<1> SUFFICES ASSUME OneCrawler PROVE Spec => []BlockedStaysHidden
  OBVIOUS
<1>1. OneInv => BlockedStaysHidden
  <2> SUFFICES ASSUME OneInv, NEW p \in Postings, host[HostOf[p]].blocked PROVE ~Publishable(p)
    BY DEF BlockedStaysHidden
  <2>1. HostOf[p] \in Hosts /\ p \in Of(HostOf[p])
    BY HostsAssumption DEF Of
  <2>2. row[p].quality = "quarantine"
    BY <2>1 DEF OneInv, BlockedInv
  <2> QED
    BY <2>2 DEF Publishable
<1>2. OneInv /\ [Next]_vars => OneInv'
  BY OneInvStep
<1> QED
  BY <1>1, <1>2, OneInvInit, PTL DEF Spec

=============================================================================
