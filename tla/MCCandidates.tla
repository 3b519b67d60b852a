----------------------------- MODULE MCCandidates -----------------------------
(* Instance of BoardCrawl, and so of Candidates, for TLC: one tenant of a    *)
(* system without locators, one of a system with them, two lanes, two        *)
(* boards.  The registry and the weekly crawl share only the set harvested,  *)
(* to which both only add and which either reads only to leave a tenant      *)
(* undiscovered, so a behaviour of the instance runs one of them.            *)
EXTENDS BoardCrawl

VARIABLE side

MCSlugs == [c \in {"co"} |-> {1}]
MCLimit == [l \in Lanes |-> IF l = "daily" THEN 1 ELSE Cardinality(Tenants)]

MCVars == <<allVars, side>>
\* At first no barren board has openings, and the board of a system without
\* locators has some: a change of the sites brings the rest.
MCInit ==
    /\ BothInit /\ side \in {"registry", "crawl"}
    /\ \A t \in Tenants : site[t] \cap Barren = {} /\ (t \in Workday \/ site[t] = {Whole})
MCChange == \E t \in Tenants : SiteChange(t) /\ UNCHANGED crawl
MCNext ==
    /\ UNCHANGED side
    /\ \/ side = "registry" /\ RegistryNext
       \/ side = "crawl" /\ (CrawlNext \/ MCChange)
MCFairness ==
    /\ WF_MCVars(side = "registry" /\ NextDay /\ UNCHANGED <<crawl, side>>)
    /\ \A l \in Lanes :
          /\ WF_MCVars(side = "registry" /\ Start(l) /\ UNCHANGED <<crawl, side>>)
          /\ WF_MCVars(side = "registry" /\ LaneStep(l) /\ UNCHANGED <<crawl, side>>)
    /\ WF_MCVars(side = "crawl" /\ CrawlStep /\ UNCHANGED side)
MCSpec == MCInit /\ [][MCNext]_MCVars /\ MCFairness
=============================================================================
