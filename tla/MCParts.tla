------------------------------ MODULE MCParts ------------------------------
(***************************************************************************)
(* An instance for what works for long and must come to an end: the        *)
(* worker's renders and discovery runs, jobs, and the chat which follows   *)
(* them.  A behaviour is one of a single component, chosen at first by     *)
(* `part` among those a run checks, and the others stay where they were.   *)
(* MCPages does so for the routes and pages of the web application.        *)
(***************************************************************************)
EXTENDS RenderLimiter, LeadDiscovery, JobLifecycle, ChatConsole, TLC

CONSTANTS
  r1, r2,                                         \* renders
  w1, w2, w3, w4, d1, d2, q1, q2, q3,             \* sites, directories, queries
  a0, a1, a2, a3, a4, a9,                         \* a city, its suburbs and another place
  k1, p1,                                         \* requests to cancel and to sweep jobs
  s1, s2,                                         \* sessions
  PartNames                                       \* the components a run checks

VARIABLE part

(* Two renders of one site, one of them of a job. *)
PLease == r1 :> <<"all", "site">> @@ r2 :> <<"all", "site">>
PPages == r1 :> <<"job", "jobsite">> @@ r2 :> <<>>
PLimit == "all" :> 2 @@ "site" :> 1 @@ "job" :> 2 @@ "jobsite" :> 1
PPlace == {"all", "site"}
PBudget == {"job", "jobsite"}

(* Sites with a shared address, a weak extraction and one only the language   *)
(* model makes something of; directories that name the sites of the searches  *)
(* and each other's; a city of four suburbs, searched from the second.        *)
Ext(keys, mail, sure, loc) == [keys |-> keys, mail |-> mail, sure |-> sure, place |-> loc]
Entry(name, site, keys, loc) == [name |-> name, site |-> site, keys |-> keys, place |-> loc]
PHits == q1 :> <<w1, d1, "bad", w2>> @@ q2 :> <<d2, w1, w4, w3>> @@ q3 :> <<>>
PShows == w1 :> {Ext({"m1", "w1"}, "m1", TRUE, "none")}
       @@ w2 :> {Ext({"m2", "w2", "p"}, "m2", TRUE, "none"), Ext({"w2", "p"}, NoMail, TRUE, "none")}
       @@ w3 :> {Ext({"m0", "w3"}, "m0", FALSE, "none")}
       @@ w4 :> {Ext({m, "w4"}, m, TRUE, "none") : m \in {"m1", "m4"}}
PFallback == w1 :> {} @@ w2 :> {Ext({"m2", "w2", "p"}, "m2", TRUE, "other")}
          @@ w3 :> {Ext({"m3", "w3"}, "m3", TRUE, "asked")} @@ w4 :> {}
PCards == d1 :> <<Entry("n1", NoSite, {"n1"}, "asked"), Entry("n3", NoSite, {}, "asked")>>
       @@ d2 :> <<Entry("n2", NoSite, {"p"}, "asked"), Entry("n3", w3, {"p"}, "other"), Entry("n4", w4, {}, "asked")>>
PGraph == d1 :> <<Entry("n3", w3, {"p3"}, "asked"), Entry("n5", NoSite, {"n5"}, "other")>> @@ d2 :> <<>>
PHost == d1 :> "h1" @@ d2 :> "h2"
PSuburbs == <<a1, a2, a3, a4>>
PNeighbours == a1 :> <<a2>>
PBroad == <<q1>>
PDirect == a0 :> <<q2>> @@ a1 :> <<q3>> @@ a2 :> <<q2>> @@ a3 :> <<q3>> @@ a4 :> <<q3>> @@ a9 :> <<q2>>

partsVars == <<part, renderVars, discoveryVars, vars, chatVars>>

PartsInit ==
  /\ part \in PartNames
  /\ RenderInit /\ DiscoveryInit /\ Init /\ ChatInit
  /\ \A s \in Site \ {w1} : cached[s] = {}
  /\ part # "discovery" => location = a9 /\ cached = [s \in Site |-> {}]

(* A behaviour is not followed further once none of the component's safety    *)
(* properties says anything of it any more (PreviousTold needs two jobs that  *)
(* were neither told nor revived); BarGoesOut is checked of the chats that    *)
(* are followed for ever.  After a stray poll only the bar could differ, of   *)
(* which nothing is said then.                                                *)
PartsNext ==
  /\ UNCHANGED part
  /\ \/ /\ part = "render" /\ RenderNext /\ ~(Place \subseteq spoiled /\ renderFaults > 0)
        /\ UNCHANGED <<discoveryVars, vars, chatVars>>
     \/ /\ part = "discovery" /\ DiscoveryNext
        /\ UNCHANGED <<renderVars, vars, chatVars>>
     \/ /\ part = "job" /\ Next
        /\ UNCHANGED <<renderVars, discoveryVars, chatVars>>
     \/ /\ part = "chat" /\ ChatNext /\ ~stray
        /\ ~(early /\ (slipped \/ Cardinality(Command \ (told \cup revived)) <= 1))
        /\ UNCHANGED <<renderVars, discoveryVars, vars>>

(* The fairness of DiscoverySpec, FairSpec and ChatSpec, for the part that is *)
(* chosen.                                                                    *)
PartsFairness ==
  /\ WF_discoveryVars(part = "discovery" /\ DiscoveryWork)
  /\ WF_vars(part = "job" /\ Workflow) /\ WF_vars(part = "job" /\ Post) /\ WF_vars(part = "job" /\ GiveUp)
  /\ WF_vars(part = "job" /\ \E h \in Awaited : Handle(h))
  /\ \A j \in Command :
       /\ WF_chatVars(part = "chat" /\ Poll(j) /\ \A p \in polls : p.job # j)
       /\ WF_chatVars(part = "chat" /\ \E p \in polls : p.job = j /\ PollAnswered(p))

PartsSpec == PartsInit /\ [][PartsNext]_partsVars /\ PartsFairness

(* The variables of every component keep their types. *)
PartsTypeOK == RenderTypeOK /\ DiscoveryTypeOK /\ TypeOK /\ ChatTypeOK

(* DiscoveryEnds, of the behaviours that are a discovery run: every run ends. *)
DiscoveryRunEnds == part = "discovery" => DiscoveryEnds
=============================================================================
