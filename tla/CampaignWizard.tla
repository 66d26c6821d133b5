--------------------------- MODULE CampaignWizard ---------------------------
(***************************************************************************)
(* The wizard for a new campaign, app/campaigns/new/page.tsx.  Its form    *)
(* creates a campaign and starts a job that analyses the business's        *)
(* website.  Every two seconds the page asks for the job's status, without *)
(* waiting for the answer before; the first answer "completed" makes it    *)
(* fetch the e-mail templates the analysis has put in the database.  The   *)
(* user edits, adds and deletes templates on the page, and confirms: the   *)
(* page then deletes, creates and updates them one request at a time and   *)
(* leaves.  The page's state survives a reload, requests do not.           *)
(*                                                                         *)
(* The worker reports the templates in one event, business_analyzed, that  *)
(* it posts again when no answer comes; the webhook stores them one by one *)
(* each time.  A template's subject and body are one text.                 *)
(***************************************************************************)
EXTENDS Integers, Sequences, FiniteSets

CONSTANTS
  Generated,    \* texts the analysis writes, in order
  Typed, Fresh, \* a text the user types, and that of an added template
  Slots,        \* requests for status or results under way at once
  Hooks,        \* requests the webhook can be handling
  MaxCampaigns, MaxAnalyses, MaxWizardActs, MaxWizardFaults  \* bounds

(* A deleted template has no text, "", and no other has that one.             *)
ASSUME WizardAssumption ==
  /\ Len(Generated) \in Nat \ {0} /\ "" \notin {Typed, Fresh} \cup {Generated[g] : g \in 1 .. Len(Generated)}
  /\ MaxCampaigns \in Nat /\ MaxAnalyses \in Nat
  /\ MaxWizardActs \in Nat /\ MaxWizardFaults \in Nat

VARIABLES
  step,         \* "form" (steps 1 and 2), "crawl" (3), "review" (4) or "left"
  submitting,   \* "no", "creating", "starting" or "restarting"
  campaigns,    \* campaigns created
  campaignId, jobId, jobStatus,
  stopped,      \* the interval that asks for the status is cleared
  analyses,     \* the jobs: [campaign, status, phase, hook]
  slots,        \* slots[k]: a request of the page: [stage, job, status, read]
  hooks,        \* hooks[h]: a business_analyzed event: [job, next]
  memories,     \* templates ever stored: [campaign, text], text "" once deleted
  emailTemplates, deletedTemplateIds,
  saving,       \* the save in progress: [on, requests, confirmed]
  late,         \* history: a template was stored after the results were read
  replaced,     \* history: results arrived when the page did not wait for them
  halfSaved,    \* history: a save broke off after it had created a template
  ignored,     \* history: a request of a save was answered with an error
  wizardActs, wizardFaults  \* history: what the bounds count

page == <<step, submitting, campaigns, campaignId, jobId, jobStatus, stopped>>
reviewed == <<emailTemplates, deletedTemplateIds>>
blemishes == <<late, replaced, halfSaved, ignored>>
wizardVars == <<page, analyses, slots, hooks, memories, reviewed, saving, blemishes,
                wizardActs, wizardFaults>>

FreeSlot == [stage |-> "free", job |-> 0, status |-> "pending", read |-> <<>>]
IdleHook == [job |-> 0, next |-> 1]
NotSaving == [on |-> FALSE, requests |-> <<>>, confirmed |-> <<>>]

WizardInit ==
  /\ step = "form" /\ submitting = "no" /\ campaigns = 0
  /\ campaignId = 0 /\ jobId = 0 /\ jobStatus = "pending" /\ stopped = FALSE
  /\ analyses = <<>> /\ slots = [k \in Slots |-> FreeSlot] /\ hooks = [h \in Hooks |-> IdleHook]
  /\ memories = <<>> /\ emailTemplates = <<>> /\ deletedTemplateIds = {}
  /\ saving = NotSaving
  /\ late = FALSE /\ replaced = FALSE /\ halfSaved = FALSE /\ ignored = FALSE
  /\ wizardActs = 0 /\ wizardFaults = 0

WizardFault == wizardFaults < MaxWizardFaults /\ wizardFaults' = wizardFaults + 1
WizardAct == wizardActs < MaxWizardActs /\ wizardActs' = wizardActs + 1
CampaignOf(j) == analyses[j].campaign

-----------------------------------------------------------------------------
(* The form: handleCreateAndAnalyze *)

Submit ==
  /\ step = "form" /\ submitting = "no" /\ campaigns < MaxCampaigns
  /\ submitting' = "creating"
  /\ UNCHANGED <<step, campaigns, campaignId, jobId, jobStatus, stopped, analyses, slots, hooks,
                 memories, reviewed, saving, blemishes, wizardActs, wizardFaults>>

CreateCampaign ==
  /\ submitting = "creating"
  /\ campaigns' = campaigns + 1 /\ campaignId' = campaigns + 1 /\ submitting' = "starting"
  /\ UNCHANGED <<step, jobId, jobStatus, stopped, analyses, slots, hooks,
                 memories, reviewed, saving, blemishes, wizardActs, wizardFaults>>

(* The campaign may have been created all the same. *)
CreateFails ==
  /\ submitting = "creating" /\ WizardFault
  /\ campaigns' \in {campaigns, campaigns + 1} /\ submitting' = "no"
  /\ UNCHANGED <<step, campaignId, jobId, jobStatus, stopped, analyses, slots, hooks,
                 memories, reviewed, saving, blemishes, wizardActs>>

(* campaigns/analyze: a job, and its start. *)
Job(status) == [campaign |-> campaignId, status |-> status, hook |-> {},
                phase |-> IF status = "failed" THEN "gone" ELSE "crawling"]

StartAnalysis ==
  /\ submitting \in {"starting", "restarting"} /\ Len(analyses) < MaxAnalyses
  /\ analyses' = Append(analyses, Job("pending"))
  /\ step' = IF submitting = "starting" THEN "crawl" ELSE step
  /\ jobId' = Len(analyses) + 1 /\ stopped' = FALSE /\ submitting' = "no"
  /\ UNCHANGED <<campaigns, campaignId, jobStatus, slots, hooks, memories, reviewed, saving,
                 blemishes, wizardActs, wizardFaults>>

(* The form stays, and submitting it again creates one more campaign. *)
AnalyzeFails ==
  /\ submitting \in {"starting", "restarting"} /\ WizardFault
  /\ analyses' \in {analyses, Append(analyses, Job("failed"))} /\ Len(analyses) < MaxAnalyses
  /\ submitting' = "no"
  /\ jobStatus' = IF submitting = "restarting" THEN "failed" ELSE jobStatus
  /\ UNCHANGED <<step, campaigns, campaignId, jobId, stopped, slots, hooks, memories, reviewed, saving,
                 blemishes, wizardActs>>

(* "Retry Analysis" and "Go Back & Edit Details" are shown with a failure. *)
Retry ==
  /\ step = "crawl" /\ jobStatus = "failed" /\ submitting = "no"
  /\ submitting' = "restarting" /\ jobStatus' = "pending"
  /\ UNCHANGED <<step, campaigns, campaignId, jobId, stopped, analyses, slots, hooks, memories,
                 reviewed, saving, blemishes, wizardActs, wizardFaults>>
GoBack ==
  /\ step = "crawl" /\ jobStatus = "failed"
  /\ step' = "form" /\ jobStatus' = "pending"
  /\ UNCHANGED <<submitting, campaigns, campaignId, jobId, stopped, analyses, slots, hooks, memories,
                 reviewed, saving, blemishes, wizardActs, wizardFaults>>

-----------------------------------------------------------------------------
(* The worker and its events *)

Phase(j, phase) == analyses' = [analyses EXCEPT ![j].phase = phase, ![j].hook = {}]

AnalysisFails(j) ==
  /\ analyses[j].phase = "crawling"
  /\ analyses' = [analyses EXCEPT ![j].phase = "gone", ![j].status = "failed"]
  /\ UNCHANGED <<page, slots, hooks, memories, reviewed, saving, blemishes, wizardActs, wizardFaults>>

PostAnalyzed(j, h) ==
  /\ analyses[j].phase \in {"crawling", "again"} /\ hooks[h] = IdleHook
  /\ hooks' = [hooks EXCEPT ![h].job = j]
  /\ analyses' = [analyses EXCEPT ![j].phase = "reporting", ![j].hook = {h}]
  /\ UNCHANGED <<page, slots, memories, reviewed, saving, blemishes, wizardActs, wizardFaults>>

(* No answer for ten seconds: the event is posted again, or given up. *)
NoAnswer(j) ==
  /\ analyses[j].phase = "reporting" /\ WizardFault
  /\ Phase(j, "again") \/ Phase(j, "closing")
  /\ UNCHANGED <<page, slots, hooks, memories, reviewed, saving, blemishes, wizardActs>>

ResultsOut(c) ==
  \/ step \in {"review", "left"} /\ campaignId = c
  \/ \E k \in Slots : slots[k].stage = "show" /\ CampaignOf(slots[k].job) = c

(* business_analyzed: one more template, and after the last the answer. *)
StoreTemplate(h) ==
  /\ hooks[h] # IdleHook
  /\ LET e == hooks[h]
         last == e.next = Len(Generated)
     IN /\ memories' = Append(memories, [campaign |-> CampaignOf(e.job), text |-> Generated[e.next]])
        /\ late' = (late \/ ResultsOut(CampaignOf(e.job)))
        /\ hooks' = [hooks EXCEPT ![h] = IF last THEN IdleHook ELSE [e EXCEPT !.next = @ + 1]]
        /\ IF last /\ analyses[e.job].hook = {h} THEN Phase(e.job, "closing") ELSE UNCHANGED analyses
  /\ UNCHANGED <<page, slots, reviewed, saving, replaced, halfSaved, ignored, wizardActs, wizardFaults>>

(* The database fails: an error is the answer. *)
StoreBreaks(h) ==
  /\ hooks[h] # IdleHook /\ WizardFault
  /\ hooks' = [hooks EXCEPT ![h] = IdleHook]
  /\ IF analyses[hooks[h].job].hook = {h} THEN Phase(hooks[h].job, "again") ELSE UNCHANGED analyses
  /\ UNCHANGED <<page, slots, memories, reviewed, saving, blemishes, wizardActs>>

(* job_completed arrives, or never does. *)
CloseAnalysis(j) ==
  /\ analyses[j].phase = "closing"
  /\ \/ analyses' = [analyses EXCEPT ![j].phase = "gone", ![j].status = "completed"] /\ UNCHANGED wizardFaults
     \/ Phase(j, "gone") /\ WizardFault
  /\ UNCHANGED <<page, slots, hooks, memories, reviewed, saving, blemishes, wizardActs>>

-----------------------------------------------------------------------------
(* Status and results *)

AskStatus(k) ==
  /\ step = "crawl" /\ ~stopped /\ jobId # 0 /\ slots[k] = FreeSlot
  /\ slots' = [slots EXCEPT ![k] = [stage |-> "status", job |-> jobId,
                                     status |-> analyses[jobId].status, read |-> <<>>]]
  /\ UNCHANGED <<page, analyses, hooks, memories, reviewed, saving, blemishes, wizardActs, wizardFaults>>

(* An answer clears the interval of its own job only. *)
StatusAnswered(k) ==
  /\ slots[k].stage = "status" /\ step # "left"
  /\ LET s == slots[k].status IN
     /\ jobStatus' = s
     /\ stopped' = (stopped \/ (s \in {"completed", "failed"} /\ slots[k].job = jobId))
     /\ slots' = [slots EXCEPT ![k] = IF s = "completed" THEN [@ EXCEPT !.stage = "fetch"] ELSE FreeSlot]
  /\ UNCHANGED <<step, submitting, campaigns, campaignId, jobId, analyses, hooks, memories, reviewed,
                 saving, blemishes, wizardActs, wizardFaults>>

(* The results of the campaign the page had when it asked. *)
ReadResults(k) ==
  /\ slots[k].stage = "fetch"
  /\ LET mine == {i \in 1 .. Len(memories) :
                    memories[i].campaign = CampaignOf(slots[k].job) /\ memories[i].text # ""}
         Id(n) == CHOOSE i \in mine : Cardinality({m \in mine : m <= i}) = n
     IN slots' = [slots EXCEPT ![k].stage = "show",
                    ![k].read = [n \in 1 .. Cardinality(mine) |-> [id |-> Id(n), text |-> memories[Id(n)].text]]]
  /\ UNCHANGED <<page, analyses, hooks, memories, reviewed, saving, blemishes, wizardActs, wizardFaults>>

ShowResults(k) ==
  /\ slots[k].stage = "show" /\ step # "left"
  /\ emailTemplates' = slots[k].read /\ step' = "review"
  /\ replaced' = (replaced \/ step # "crawl" \/ submitting # "no" \/ CampaignOf(slots[k].job) # campaignId)
  /\ slots' = [slots EXCEPT ![k] = FreeSlot]
  /\ UNCHANGED <<submitting, campaigns, campaignId, jobId, jobStatus, stopped, analyses, hooks, memories,
                 deletedTemplateIds, saving, late, halfSaved, ignored, wizardActs, wizardFaults>>

(* The page shows an error, or with the status nothing. *)
RequestFails(k) ==
  /\ slots[k] # FreeSlot /\ WizardFault
  /\ slots' = [slots EXCEPT ![k] = FreeSlot]
  /\ UNCHANGED <<page, analyses, hooks, memories, reviewed, saving, blemishes, wizardActs>>

-----------------------------------------------------------------------------
(* The review *)

EditTemplate(i, text) ==
  /\ step = "review" /\ WizardAct
  /\ emailTemplates' = [emailTemplates EXCEPT ![i].text = text]
  /\ UNCHANGED <<page, analyses, slots, hooks, memories, deletedTemplateIds, saving, blemishes, wizardFaults>>

(* A new template has a negative number until the page is left. *)
IsNew(t) == t.id < 0
AddTemplate ==
  /\ step = "review" /\ WizardAct
  /\ emailTemplates' = Append(emailTemplates, [id |-> -(wizardActs + 1), text |-> Fresh])
  /\ UNCHANGED <<page, analyses, slots, hooks, memories, deletedTemplateIds, saving, blemishes, wizardFaults>>

Without(i) == [j \in 1 .. Len(emailTemplates) - 1 |-> emailTemplates[IF j < i THEN j ELSE j + 1]]
DeleteTemplate_forgotten(i) ==
  /\ step = "review" /\ WizardAct
  /\ emailTemplates' = Without(i)
  /\ UNCHANGED <<page, analyses, slots, hooks, memories, deletedTemplateIds, saving, blemishes, wizardFaults>>
DeleteTemplate(i) ==
  /\ step = "review" /\ WizardAct
  /\ emailTemplates' = Without(i)
  /\ deletedTemplateIds' = deletedTemplateIds \cup
       (IF IsNew(emailTemplates[i]) THEN {} ELSE {emailTemplates[i].id})
  /\ UNCHANGED <<page, analyses, slots, hooks, memories, saving, blemishes, wizardFaults>>

-----------------------------------------------------------------------------
(* handleSaveAndConfirm *)

Deletes ==
  LET n == Cardinality(deletedTemplateIds)
      Id(k) == CHOOSE i \in deletedTemplateIds : Cardinality({m \in deletedTemplateIds : m <= i}) = k
  IN [k \in 1 .. n |-> [id |-> Id(k), text |-> ""]]

(* Deletions first, then every template: what is changed meanwhile on the     *)
(* page is not looked at any more.                                            *)
Confirm ==
  /\ step = "review" /\ ~saving.on
  /\ saving' = [on |-> TRUE, requests |-> Deletes \o emailTemplates, confirmed |-> emailTemplates]
  /\ UNCHANGED <<page, analyses, slots, hooks, memories, reviewed, blemishes, wizardActs, wizardFaults>>

(* worker/memory: POST of a new one, DELETE or PUT of one that is there. *)
Performed(r) ==
  IF IsNew(r) THEN Append(memories, [campaign |-> campaignId, text |-> r.text])
  ELSE [memories EXCEPT ![r.id].text = IF @ = "" THEN @ ELSE r.text]

Requested == saving.on /\ saving.requests # <<>>

SaveOne ==
  /\ Requested
  /\ memories' = Performed(Head(saving.requests))
  /\ saving' = [saving EXCEPT !.requests = Tail(@)]
  /\ UNCHANGED <<page, analyses, slots, hooks, reviewed, blemishes, wizardActs, wizardFaults>>

(* The answer's status is not looked at. *)
SaveRefused ==
  /\ Requested /\ WizardFault
  /\ saving' = [saving EXCEPT !.requests = Tail(@)]
  /\ ignored' = TRUE
  /\ UNCHANGED <<page, analyses, slots, hooks, memories, reviewed, late, replaced, halfSaved, wizardActs>>

NewLeft(requests) == Cardinality({i \in 1 .. Len(requests) : IsNew(requests[i])})
CreatedSome(requests) == NewLeft(requests) < NewLeft(saving.confirmed)

(* An exception ends the save: the request may have been performed. *)
SaveBreaks ==
  /\ Requested /\ WizardFault
  /\ \/ memories' = memories /\ halfSaved' = (halfSaved \/ CreatedSome(saving.requests))
     \/ /\ memories' = Performed(Head(saving.requests))
        /\ halfSaved' = (halfSaved \/ CreatedSome(Tail(saving.requests)))
  /\ saving' = NotSaving
  /\ UNCHANGED <<page, analyses, slots, hooks, reviewed, late, replaced, ignored, wizardActs>>

Leave ==
  /\ saving.on /\ saving.requests = <<>>
  /\ step' = "left" /\ slots' = [k \in Slots |-> FreeSlot]
  /\ UNCHANGED <<submitting, campaigns, campaignId, jobId, jobStatus, stopped, analyses, hooks, memories,
                 reviewed, saving, blemishes, wizardActs, wizardFaults>>

(* The page is loaded again, with its state but none of its requests; what    *)
(* the server has begun it finishes.                                          *)
Reload ==
  /\ step # "left" /\ WizardFault
  /\ slots' = [k \in Slots |-> FreeSlot] /\ submitting' = "no" /\ stopped' = FALSE
  /\ saving' = NotSaving
  /\ campaigns' \in {campaigns} \cup IF submitting = "creating" THEN {campaigns + 1} ELSE {}
  /\ analyses' \in {analyses} \cup
       IF submitting \in {"starting", "restarting"} /\ Len(analyses) < MaxAnalyses
       THEN {Append(analyses, Job("pending"))} ELSE {}
  /\ \/ memories' = memories /\ halfSaved' = (halfSaved \/ (saving.on /\ CreatedSome(saving.requests)))
     \/ /\ Requested /\ memories' = Performed(Head(saving.requests))
        /\ halfSaved' = (halfSaved \/ CreatedSome(Tail(saving.requests)))
  /\ UNCHANGED <<step, campaignId, jobId, jobStatus, hooks, reviewed, late, replaced, ignored, wizardActs>>

WizardNext ==
  \/ Submit \/ CreateCampaign \/ CreateFails \/ StartAnalysis \/ AnalyzeFails \/ Retry \/ GoBack
  \/ \E j \in 1 .. Len(analyses) :
       AnalysisFails(j) \/ NoAnswer(j) \/ CloseAnalysis(j) \/ \E h \in Hooks : PostAnalyzed(j, h)
  \/ \E h \in Hooks : StoreTemplate(h) \/ StoreBreaks(h)
  \/ \E k \in Slots : AskStatus(k) \/ StatusAnswered(k) \/ ReadResults(k) \/ ShowResults(k) \/ RequestFails(k)
  \/ AddTemplate
  \/ \E i \in 1 .. Len(emailTemplates) : EditTemplate(i, Typed) \/ DeleteTemplate(i)
  \/ Confirm \/ SaveOne \/ SaveRefused \/ SaveBreaks \/ Leave \/ Reload

WizardSpec == WizardInit /\ [][WizardNext]_wizardVars

-----------------------------------------------------------------------------
WizardTypeOK ==
  /\ step \in {"form", "crawl", "review", "left"}
  /\ submitting \in {"no", "creating", "starting", "restarting"}
  /\ campaignId \in 0 .. campaigns /\ jobId \in 0 .. Len(analyses)
  /\ \A j \in 1 .. Len(analyses) : analyses[j].campaign \in 1 .. campaigns
  /\ \A k \in Slots : slots[k].stage \in {"free", "status", "fetch", "show"}
  /\ deletedTemplateIds \subseteq 1 .. Len(memories)
  /\ \A i \in 1 .. Len(emailTemplates) : emailTemplates[i].id \in -MaxWizardActs .. Len(memories)

Blemished == late \/ replaced \/ halfSaved \/ ignored

(* When the wizard is left, the database holds the templates the user         *)
(* confirmed and no other, whatever was edited, added or deleted before,      *)
(* however often the analysis or the save was tried and the page reloaded --  *)
(* unless templates came in after the results were read, results arrived when *)
(* some were shown already or the analysis had been given up, a save that had *)
(* created a template broke off, or a request of the save was refused, which  *)
(* the page ignores.                                                          *)
SavedAsShown ==
  step = "left" /\ ~Blemished =>
    LET kept == {i \in 1 .. Len(memories) : memories[i].campaign = campaignId /\ memories[i].text # ""}
        asShown == 1 .. Len(saving.confirmed)
    IN /\ \A n \in asShown : ~IsNew(saving.confirmed[n]) => saving.confirmed[n].id \in kept
       /\ \A text \in {Typed, Fresh} \cup {Generated[g] : g \in 1 .. Len(Generated)} :
            Cardinality({i \in kept : memories[i].text = text})
              = Cardinality({n \in asShown : saving.confirmed[n].text = text})
=============================================================================
