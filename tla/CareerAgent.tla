------------------------------ MODULE CareerAgent ------------------------------
(***************************************************************************)
(* python/career_agent_worker.py: workers that poll for a queued campaign, *)
(* search for recruiters with a metered web search and leave the leads for *)
(* approval.  Every commit of process() is a step of its own; the searches *)
(* run between two commits, so their cost is recorded only after they ran. *)
(* A running campaign whose row was not touched for 45 minutes is taken to *)
(* be abandoned, whether its worker died or is only slow.                  *)
(***************************************************************************)
EXTENDS Integers, FiniteSets

CONSTANTS
    Campaigns, Workers, Contacts,
    MAX_SERPER_QUERIES,     \* searches one campaign may use
    MONTHLY_SERPER_BUDGET,  \* searches all campaigns may use in a month
    MAX_LEADS,
    WebFirst,               \* leads of a campaign kept for contacts found on the web
    WebQueries, EmailQueries,  \* most recruiter and e-mail searches of one run
    StaleTicks,             \* the 45 minutes, in ticks
    MaxCrashes              \* bound on the workers that die

ASSUME BudgetAssumption ==
    /\ {MAX_SERPER_QUERIES, MONTHLY_SERPER_BUDGET, WebQueries, EmailQueries, WebFirst, MaxCrashes}
         \subseteq Nat
    /\ {MAX_LEADS, StaleTicks} \subseteq Nat \ {0}
ASSUME PopulationAssumption ==
    /\ IsFiniteSet(Campaigns) /\ IsFiniteSet(Contacts)
    /\ IsFiniteSet(Workers) /\ Workers # {}

VARIABLES
    status,     \* career_campaigns.status
    quiet,      \* ticks since career_campaigns.updated_at
    lead_count, \* career_campaigns.lead_count
    leads,      \* career_campaign_leads: the contacts of each campaign
    pool,       \* professional_contacts
    used,       \* career_agent_usage: units recorded for each campaign
    job,        \* what each worker is doing
    crashes

agentVars == <<status, quiet, lead_count, leads, pool, used, job, crashes>>
answers == <<lead_count, leads, pool>>

Status == {"queued", "running", "ready", "failed"}
Step == {"claimed", "planning", "searching", "searched", "mailing", "finding", "found", "writing"}
Kind == {"web", "lander", "both"}   \* source_kind of a contact that was found
Job == [step : Step, campaign : Campaigns, found : SUBSET (Contacts \X Kind), units : Nat]
Free == [step |-> "idle"]

Smaller(a, b) == IF a < b THEN a ELSE b
Larger(a, b) == IF a < b THEN b ELSE a

(* A sum of counts, as the number of things counted.                         *)
Units(count) == UNION {{x} \X (1..count[x]) : x \in DOMAIN count}
Total == Cardinality(Units(used))
serper_budget(c) == Larger(0, Smaller(MAX_SERPER_QUERIES - used[c], MONTHLY_SERPER_BUDGET - Total))

(* The campaigns are queued by the web application, which is not part of the *)
(* repository.                                                               *)
AgentInit ==
    /\ status = [c \in Campaigns |-> "queued"]
    /\ quiet = [c \in Campaigns |-> 0]
    /\ lead_count = [c \in Campaigns |-> 0]
    /\ leads = [c \in Campaigns |-> {}]
    /\ pool = {} /\ used = [c \in Campaigns |-> 0]
    /\ job = [w \in Workers |-> Free] /\ crashes = 0

(* Every stale campaign goes back to the queue in the transaction that       *)
(* claims; when nothing can be claimed the transaction is rolled back.       *)
NoneStale == {}
Stale == {c \in Campaigns : status[c] = "running" /\ quiet[c] = StaleTicks}
Recovered == [c \in Campaigns |-> IF c \in Stale THEN "queued" ELSE status[c]]
Claim(w) == \E c \in Campaigns :
    /\ job[w] = Free /\ Recovered[c] = "queued"
    /\ status' = [Recovered EXCEPT ![c] = "running"]
    /\ quiet' = [d \in Campaigns |-> IF d \in Stale \cup {c} THEN 0 ELSE quiet[d]]
    /\ job' = [job EXCEPT ![w] = [step |-> "claimed", campaign |-> c, found |-> {}, units |-> 0]]
    /\ UNCHANGED <<answers, used, crashes>>

(* event: the stage and updated_at of the row are written by campaign_id,    *)
(* whoever holds the campaign now.                                           *)
Event(w, next) ==
    /\ quiet' = [quiet EXCEPT ![job[w].campaign] = 0]
    /\ job' = [job EXCEPT ![w] = next]

(* The first commit: searching Lander's own postings.                        *)
LanderSearch(w) ==
    /\ job[w].step = "claimed"
    /\ Event(w, [job[w] EXCEPT !.step = "planning"])
    /\ UNCHANGED <<status, answers, used, crashes>>

(* The contacts of companies that have a matching posting, and those of other *)
(* campaigns that are recent, can be reached and match; and the profiles      *)
(* among the results of a web search.                                         *)
Who(found) == {f[1] : f \in found}
From(source, contacts) == {<<a, source>> : a \in contacts}
lander_contacts == {From("lander", S) : S \in SUBSET Contacts}
cached_recruiters == {From("web", S) : S \in SUBSET pool}
web_contacts == {From("web", S) : S \in SUBSET Contacts}

(* A contact that two searches found counts as found by both.                *)
merge_contacts(A, B) ==
    {f \in A : f[1] \notin Who(B)} \cup {f \in B : f[1] \notin Who(A)} \cup From("both", Who(A) \cap Who(B))

(* The recruiters already known decide how many searches the campaign needs. *)
Wanted(n) == Smaller(WebQueries, (Larger(0, MAX_LEADS - n) + 2) \div 3)
CacheSearch(w) == \E lander \in lander_contacts, cached \in cached_recruiters :
    /\ job[w].step = "planning"
    /\ LET reusable == merge_contacts(cached, lander)
       IN Event(w, [job[w] EXCEPT !.step = "searching", !.found = reusable,
                        !.units = Smaller(Wanted(Cardinality(reusable)), serper_budget(job[w].campaign))])
    /\ UNCHANGED <<status, answers, used, crashes>>

(* The searches run, some of them fail and are not counted.                  *)
WebSearch(w) ==
    /\ job[w].step = "searching"
    /\ \E executed \in 0..job[w].units, web \in web_contacts :
        /\ executed = 0 => web = {}
        /\ job' = [job EXCEPT ![w].step = "searched", ![w].units = executed,
                              ![w].found = merge_contacts(@, web)]
    /\ UNCHANGED <<status, quiet, answers, used, crashes>>

Charged(w) == [used EXCEPT ![job[w].campaign] = @ + job[w].units]
Verify(w) ==
    /\ job[w].step = "searched"
    /\ used' = Charged(w)
    /\ Event(w, [job[w] EXCEPT !.step = "mailing", !.units = 0])
    /\ UNCHANGED <<status, answers, crashes>>

(* The budget is read again after the commit that announces the e-mail       *)
(* search; that event and the read are one step, nothing depends on the gap. *)
CampaignOnly(w) == Larger(0, MAX_SERPER_QUERIES - used[job[w].campaign])
MailBudget(w) == serper_budget(job[w].campaign)
MailSearch(w) ==
    /\ job[w].step = "mailing"
    /\ Event(w, [job[w] EXCEPT !.step = "finding",
                    !.units = Smaller(Cardinality(job[w].found), Smaller(EmailQueries, MailBudget(w)))])
    /\ UNCHANGED <<status, answers, used, crashes>>

enrich_recruiter_emails(w) ==
    /\ job[w].step = "finding"
    /\ \E queries \in 0..job[w].units : job' = [job EXCEPT ![w].step = "found", ![w].units = queries]
    /\ UNCHANGED <<status, quiet, answers, used, crashes>>

(* The best contacts of the web come first, up to their share, then those    *)
(* known to have openings, then the rest; the scores may be any.             *)
select_contacts(found) ==
    LET lander == {f \in found : f[2] = "lander"}
        first == Smaller(Smaller(WebFirst, MAX_LEADS), Cardinality(found \ lander))
    IN  {best \in SUBSET found :
            /\ Cardinality(best) = Smaller(MAX_LEADS, Cardinality(found))
            /\ Cardinality(best \cap lander) = Smaller(Cardinality(lander), MAX_LEADS - first)}
Drafting(w) ==
    /\ job[w].step = "found"
    /\ used' = Charged(w)
    /\ \E best \in select_contacts(job[w].found) :
        Event(w, [job[w] EXCEPT !.step = "writing", !.found = best, !.units = 0])
    /\ UNCHANGED <<status, answers, crashes>>

(* One transaction: contacts and leads are upserted, never removed, and the  *)
(* campaign is marked ready whatever its status is by now.                   *)
OnlyNew(rows, found) == rows \cup (found \ pool)
LeadsUpserted(rows, found) == rows \cup found
Ready(w) ==
    /\ job[w].step = "writing"
    /\ LET c == job[w].campaign  found == Who(job[w].found) IN
        /\ pool' = pool \cup found
        /\ leads' = [leads EXCEPT ![c] = LeadsUpserted(@, found)]
        /\ lead_count' = [lead_count EXCEPT ![c] = Cardinality(found)]
        /\ status' = [status EXCEPT ![c] = "ready"]
    /\ Event(w, Free)
    /\ UNCHANGED <<used, crashes>>

(* An exception anywhere rolls back to the last commit and fails the         *)
(* campaign, whatever its status is by now.                                  *)
Fail(w) ==
    /\ job[w] # Free
    /\ status' = [status EXCEPT ![job[w].campaign] = "failed"]
    /\ Event(w, Free)
    /\ UNCHANGED <<answers, used, crashes>>

(* The process dies and is started again; the campaign stays running.        *)
Crash(w) ==
    /\ job[w] # Free /\ crashes < MaxCrashes
    /\ job' = [job EXCEPT ![w] = Free] /\ crashes' = crashes + 1
    /\ UNCHANGED <<status, quiet, answers, used>>

Tick ==
    /\ quiet' = [c \in Campaigns |-> IF status[c] = "running" THEN Smaller(StaleTicks, quiet[c] + 1) ELSE quiet[c]]
    /\ UNCHANGED <<status, answers, used, job, crashes>>

process(w) ==
    \/ LanderSearch(w) \/ CacheSearch(w) \/ WebSearch(w) \/ Verify(w)
    \/ MailSearch(w) \/ enrich_recruiter_emails(w) \/ Drafting(w) \/ Ready(w)
AgentNext ==
    \/ \E w \in Workers : Claim(w) \/ process(w) \/ Fail(w) \/ Crash(w)
    \/ Tick

(* The worker is a loop that polls every 8 seconds, so an idle worker claims *)
(* what can be claimed and a busy one goes on; time passes.                  *)
AgentSpec == AgentInit /\ [][AgentNext]_agentVars
AgentFairSpec == AgentSpec /\ WF_agentVars(Tick) /\ \A w \in Workers : WF_agentVars(Claim(w)) /\ WF_agentVars(process(w))

----------------------------------------------------------------------------
AgentTypeOK ==
    /\ status \in [Campaigns -> Status]
    /\ quiet \in [Campaigns -> 0..StaleTicks]
    /\ lead_count \in [Campaigns -> Nat]
    /\ leads \in [Campaigns -> SUBSET Contacts]
    /\ pool \subseteq Contacts
    /\ used \in [Campaigns -> Nat]
    /\ job \in [Workers -> Job \cup {Free}]
    /\ crashes \in 0..MaxCrashes

(* The month's recorded searches exceed the budget by at most what the other *)
(* workers had in flight when the last one read it: serper_budget is read    *)
(* and charged in two transactions, so the cap is exact for one worker only. *)
MostAtOnce == Larger(WebQueries, EmailQueries)
MonthlyOvershoot == Total <= MONTHLY_SERPER_BUDGET + (Cardinality(Workers) - 1) * MostAtOnce

(* "N contacts are ready for approval" never promises more than there is,    *)
(* also when a slow worker and its successor both finish the campaign: the   *)
(* count never exceeds the leads, and every lead is a stored contact.        *)
ReadyIsBacked == \A c \in Campaigns :
    /\ status[c] = "ready" => lead_count[c] <= Cardinality(leads[c])
    /\ leads[c] \subseteq pool

(* A queued campaign is answered, ready or failed, although workers die and  *)
(* campaigns are taken from workers that are only slow.                      *)
EveryCampaignAnswered == \A c \in Campaigns : status[c] = "queued" ~> status[c] \in {"ready", "failed"}
=============================================================================
