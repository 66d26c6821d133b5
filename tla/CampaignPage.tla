---------------------------- MODULE CampaignPage ----------------------------
(***************************************************************************)
(* The page of a campaign, app/campaigns/[campaignId]/page.tsx: the        *)
(* status, the leads and the e-mail templates of one campaign, and a card  *)
(* about the job that drafts its e-mails.  Every button sends a request    *)
(* and does not wait for the others; an answer makes the page load the     *)
(* campaign again, and answers come in any order.  The text of a template  *)
(* that was typed on the page is kept there, also when it has been saved.  *)
(*                                                                         *)
(* A route is one step here: CampaignDrafts has those of a campaign and    *)
(* its leads statement by statement, with what they do to drafts.  The     *)
(* page is opened with its workspaceId.  A template's subject and body are *)
(* one text; PendingDraftsPanel is not rendered anywhere.                  *)
(***************************************************************************)
EXTENDS Integers, Sequences, SequencesExt, FiniteSets

CONSTANTS
  Prospect,      \* the leads of the workspace
  Opened,        \* what the campaign can be when the page is opened
  Typing,        \* texts the user types
  Rewritten,     \* the text a rewrite proposes
  Added,         \* that of an added step
  MaxSteps,      \* templates a blueprint can have on the page
  MaxAsked, MaxPageActs, MaxPageFaults  \* bounds: requests sent while others are under way,
                                        \* clicks, and requests that fail

ASSUME PageAssumption ==
  /\ \A r \in Opened : /\ r \in [status : {"draft", "active", "paused"}, leads : SUBSET Prospect, texts : Seq(STRING)]
                        /\ Len(r.texts) <= MaxSteps
  /\ Typing \cup {Rewritten, Added} \subseteq STRING \ {""}
  /\ MaxSteps \in Nat /\ MaxAsked \in Nat /\ MaxPageActs \in Nat /\ MaxPageFaults \in Nat

VARIABLES
  row,        \* the campaign in the database: [status, leads, texts], a text "" once deleted
  draftings,  \* its jobs: "open" or "ended"
  opened,     \* campaign, as the page loaded it last
  typed,      \* editedSubjects and editedBodies: typed[i] is "" if nothing was typed
  unsaved,    \* unsavedTemplateIds
  previews,   \* activePreviews, "" for none
  dialog,     \* "none", "activate" or "leads"
  chosen,     \* selectedLeadsToAdd
  adding,     \* submittingLeads
  cardJob,    \* activeJobId, 0 for null
  card,       \* the card: [shown, polling], shown "" before the first answer
  asked,      \* requests under way, in the order they were sent
  gone,       \* the page was left
  gap,        \* history: the page missed a change, or showed a text of its own
  strayed,    \* history: the card may show what an earlier poll told, or poll no more
  pageActs, pageFaults  \* history: what the bounds count

boxes == <<typed, unsaved, previews>>
picking == <<dialog, chosen, adding>>
carding == <<cardJob, card>>
cpageVars == <<row, draftings, opened, boxes, picking, carding, asked, gone, gap, strayed,
               pageActs, pageFaults>>

Ids == 1 .. Len(row.texts)
AllIds == 1 .. MaxSteps + MaxPageActs
Nothing == [i \in AllIds |-> ""]
NotLoaded == [status |-> "", leads |-> {}, texts |-> <<>>]
Load == [what |-> "load", done |-> FALSE, ok |-> FALSE, read |-> NotLoaded]
AskJob(j) == [what |-> "job", done |-> FALSE, ok |-> TRUE, job |-> j, read |-> ""]
(* PUT of a template, from its box or from a preview, *)
Put(i, text, from) == [what |-> "save", done |-> FALSE, ok |-> TRUE, id |-> i, text |-> text, from |-> from]
(* DELETE of one, and a request about x: a text, a status or a lead.          *)
DeleteStep(i) == [what |-> "delstep", done |-> FALSE, ok |-> TRUE, id |-> i]
RequestOf(what, x) == [what |-> what, done |-> FALSE, ok |-> TRUE, x |-> x, job |-> 0]
AddLeads(leads) == [what |-> "add", done |-> FALSE, ok |-> TRUE, leads |-> leads, todo |-> leads, failed |-> {}]

CampaignPageInit ==
  /\ row \in Opened /\ draftings = <<>>
  /\ opened = NotLoaded /\ typed = Nothing /\ unsaved = {} /\ previews = Nothing
  /\ dialog = "none" /\ chosen = {} /\ adding = FALSE
  /\ cardJob = 0 /\ card = [shown |-> "", polling |-> TRUE]
  /\ asked = <<Load>> /\ gone = FALSE /\ gap = FALSE /\ strayed = FALSE
  /\ pageActs = 0 /\ pageFaults = 0

(* A click.  The campaign has been loaded: before, there is nothing to click. *)
Click == /\ ~gone /\ opened # NotLoaded
         /\ pageActs < MaxPageActs /\ pageActs' = pageActs + 1
Send(request) == Len(asked) < MaxAsked /\ asked' = Append(asked, request)
PageFault == pageFaults < MaxPageFaults /\ pageFaults' = pageFaults + 1

Templates == {i \in 1 .. Len(opened.texts) : opened.texts[i] # ""}
Box(i) == IF typed[i] # "" THEN typed[i] ELSE opened.texts[i]
isActive == opened.status = "active"

-----------------------------------------------------------------------------
(* Buttons of the campaign *)

AskActivate ==
  /\ Click /\ dialog = "none" /\ ~isActive /\ opened.leads # {}
  /\ dialog' = "activate"
  /\ UNCHANGED <<row, draftings, opened, boxes, chosen, adding, carding, asked, gone, gap, strayed, pageFaults>>

Activate ==
  /\ ~gone /\ dialog = "activate" /\ Send(RequestOf("status", "active"))
  /\ dialog' = "none"
  /\ UNCHANGED <<row, draftings, opened, boxes, chosen, adding, carding, gone, gap, strayed, pageActs, pageFaults>>

CloseDialog ==
  /\ ~gone /\ dialog # "none"
  /\ dialog' = "none" /\ chosen' = IF dialog = "leads" THEN {} ELSE chosen
  /\ UNCHANGED <<row, draftings, opened, boxes, adding, carding, asked, gone, gap, strayed, pageActs, pageFaults>>

Pause ==
  /\ Click /\ dialog = "none" /\ isActive /\ Send(RequestOf("status", "paused"))
  /\ UNCHANGED <<row, draftings, opened, boxes, picking, carding, gone, gap, strayed, pageFaults>>

handleDeleteCampaign ==
  /\ Click /\ dialog = "none" /\ Send(RequestOf("delete", ""))
  /\ UNCHANGED <<row, draftings, opened, boxes, picking, carding, gone, gap, strayed, pageFaults>>

handleRemoveLeadFromCampaign(l) ==
  /\ Click /\ dialog = "none" /\ l \in opened.leads /\ Send(RequestOf("remove", l))
  /\ UNCHANGED <<row, draftings, opened, boxes, picking, carding, gone, gap, strayed, pageFaults>>

-----------------------------------------------------------------------------
(* The dialog that adds leads; what it filters is any set of leads. *)

OpenLeads ==
  /\ Click /\ dialog = "none" /\ ~isActive /\ dialog' = "leads"
  /\ UNCHANGED <<row, draftings, opened, boxes, chosen, adding, carding, asked, gone, gap, strayed, pageFaults>>

PickLead(l) ==
  /\ Click /\ dialog = "leads" /\ l \notin opened.leads
  /\ chosen' = IF l \in chosen THEN chosen \ {l} ELSE chosen \cup {l}
  /\ UNCHANGED <<row, draftings, opened, boxes, dialog, adding, carding, asked, gone, gap, strayed, pageFaults>>

handleSelectAllFiltered(filtered) ==
  LET unadded == filtered \ opened.leads IN
  /\ Click /\ dialog = "leads"
  /\ chosen' = IF unadded # {} /\ unadded \subseteq chosen THEN chosen \ unadded ELSE chosen \cup unadded
  /\ UNCHANGED <<row, draftings, opened, boxes, dialog, adding, carding, asked, gone, gap, strayed, pageFaults>>

(* One request for each lead, all at once. *)
handleAddLeads ==
  /\ ~gone /\ dialog = "leads" /\ chosen # {} /\ ~adding /\ ~isActive /\ Send(AddLeads(chosen))
  /\ adding' = TRUE
  /\ UNCHANGED <<row, draftings, opened, boxes, dialog, chosen, carding, gone, gap, strayed, pageActs, pageFaults>>

-----------------------------------------------------------------------------
(* The templates *)

TypeText(i, text) ==
  /\ Click /\ dialog = "none" /\ i \in Templates /\ previews[i] = ""
  /\ typed' = [typed EXCEPT ![i] = text] /\ unsaved' = unsaved \cup {i}
  /\ UNCHANGED <<row, draftings, opened, previews, picking, carding, asked, gone, gap, strayed, pageFaults>>

SaveChanges(i) ==
  /\ ~gone /\ dialog = "none" /\ i \in Templates \cap unsaved /\ previews[i] = "" /\ Send(Put(i, Box(i), "box"))
  /\ unsaved' = unsaved \ {i}
  /\ UNCHANGED <<row, draftings, opened, typed, previews, picking, carding, gone, gap, strayed, pageActs, pageFaults>>

simulateTemplateRewrite(i) ==
  /\ Click /\ dialog = "none" /\ i \in Templates /\ previews' = [previews EXCEPT ![i] = Rewritten]
  /\ UNCHANGED <<row, draftings, opened, typed, unsaved, picking, carding, asked, gone, gap, strayed, pageFaults>>

cancelPreview(i) ==
  /\ ~gone /\ dialog = "none" /\ i \in Templates /\ previews[i] # ""
  /\ previews' = [previews EXCEPT ![i] = ""]
  /\ UNCHANGED <<row, draftings, opened, typed, unsaved, picking, carding, asked, gone, gap, strayed, pageActs, pageFaults>>

(* A text typed and saved before stays in the box, and hides the new one. *)
applyPreview(i) ==
  /\ ~gone /\ dialog = "none" /\ i \in Templates /\ previews[i] # "" /\ Send(Put(i, previews[i], "preview"))
  /\ gap' = (gap \/ (typed[i] # "" /\ i \notin unsaved))
  /\ UNCHANGED <<row, draftings, opened, boxes, picking, carding, gone, strayed, pageActs, pageFaults>>

handleAddTemplate ==
  /\ Click /\ dialog = "none" /\ Cardinality(Templates) < MaxSteps /\ Send(RequestOf("newstep", Added))
  /\ UNCHANGED <<row, draftings, opened, boxes, picking, carding, gone, gap, strayed, pageFaults>>

(* Not the first step on the page; the campaign's come in no fixed order. *)
handleDeleteTemplate(i) ==
  /\ Click /\ dialog = "none" /\ i \in Templates /\ Cardinality(Templates) > 1 /\ Send(DeleteStep(i))
  /\ UNCHANGED <<row, draftings, opened, boxes, picking, carding, gone, gap, strayed, pageFaults>>

-----------------------------------------------------------------------------
(* The routes *)

Exists == row.status # "deleted"
RowAfter(request) ==
  CASE request.what = "save" -> [row EXCEPT !.texts[request.id] = IF @ = "" THEN @ ELSE request.text]
    [] request.what = "newstep" -> [row EXCEPT !.texts = Append(@, request.x)]
    [] request.what = "delstep" -> [row EXCEPT !.texts[request.id] = ""]
    [] request.what = "remove" -> [row EXCEPT !.leads = @ \ {request.x}]
    [] request.what = "status" -> [row EXCEPT !.status = request.x]
    [] request.what = "delete" -> [status |-> "deleted", leads |-> {}, texts |-> [i \in Ids |-> ""]]

Answer(n, request) == asked' = [asked EXCEPT ![n] = [request EXCEPT !.done = TRUE]]
(* An earlier text for the same template is still on its way. *)
SavesCross(n) ==
  asked[n].what = "save" /\ \E m \in 1 .. n - 1 : /\ asked[m].what = "save" /\ ~asked[m].done
                                                  /\ asked[m].id = asked[n].id

(* A change that activates the campaign starts a job, which fails at once if  *)
(* the worker cannot be reached.                                              *)
Perform(n) ==
  LET r == asked[n] IN
  /\ ~r.done /\ r.what \in {"save", "newstep", "delstep", "remove", "status", "delete"}
  /\ IF Exists \/ r.what \in {"save", "delstep"}
     THEN /\ row' = RowAfter(r) /\ gap' = (gap \/ SavesCross(n))
          /\ IF r.what = "status" /\ r.x = "active" /\ row.status # "active"
             THEN /\ Answer(n, [r EXCEPT !.job = Len(draftings) + 1])
                  /\ \/ draftings' = Append(draftings, "open") /\ UNCHANGED pageFaults
                     \/ draftings' = Append(draftings, "ended") /\ PageFault
             ELSE Answer(n, r) /\ UNCHANGED <<draftings, pageFaults>>
     ELSE Answer(n, [r EXCEPT !.ok = FALSE]) /\ UNCHANGED <<row, draftings, gap, pageFaults>>
  /\ UNCHANGED <<opened, boxes, picking, carding, gone, strayed, pageActs>>

PerformAdd(n, l) ==
  LET r == asked[n]
      can == row.status \in {"draft", "paused"} /\ l \notin row.leads
  IN /\ r.what = "add" /\ l \in r.todo
     /\ row' = IF can THEN [row EXCEPT !.leads = @ \cup {l}] ELSE row
     /\ asked' = [asked EXCEPT ![n] = [r EXCEPT !.todo = @ \ {l}, !.done = (r.todo = {l}),
                                                !.failed = IF can THEN @ ELSE @ \cup {l}]]
     /\ UNCHANGED <<draftings, opened, boxes, picking, carding, gone, gap, strayed, pageActs, pageFaults>>

Read(n) ==
  LET r == asked[n] IN
  /\ ~r.done
  /\ \/ r.what = "load" /\ Answer(n, [r EXCEPT !.ok = Exists, !.read = row])
     \/ r.what = "job" /\ Answer(n, [r EXCEPT !.read = draftings[r.job]])
  /\ UNCHANGED <<row, draftings, opened, boxes, picking, carding, gone, gap, strayed, pageActs, pageFaults>>

DraftingEnds(j) ==
  /\ draftings[j] = "open" /\ draftings' = [draftings EXCEPT ![j] = "ended"]
  /\ UNCHANGED <<row, opened, boxes, picking, carding, asked, gone, gap, strayed, pageActs, pageFaults>>

-----------------------------------------------------------------------------
(* Answers *)

Rest(n) == RemoveAt(asked, n)
Arrives(n, what) == ~gone /\ asked[n].what = what /\ asked[n].done

(* A load that was sent earlier and is still to come will put older data back. *)
LoadsCross(n) == \E m \in 1 .. n - 1 : asked[m].what = "load"
CampaignLoaded(n) ==
  /\ Arrives(n, "load") /\ asked' = Rest(n)
  /\ opened' = IF asked[n].ok THEN asked[n].read ELSE opened
  /\ gap' = (gap \/ LoadsCross(n))
  /\ UNCHANGED <<row, draftings, boxes, picking, carding, gone, strayed, pageActs, pageFaults>>

(* A PUT ends the preview it came from, if any. *)
Changed_noLoad(n) ==
  /\ \/ \E what \in {"newstep", "delstep", "remove"} : Arrives(n, what) /\ UNCHANGED previews
     \/ /\ Arrives(n, "save")
        /\ previews' = IF asked[n].from = "preview" THEN [previews EXCEPT ![asked[n].id] = ""] ELSE previews
  /\ asked' = IF asked[n].ok /\ asked[n].what # "remove" THEN Append(Rest(n), Load) ELSE Rest(n)
  /\ UNCHANGED <<row, draftings, opened, typed, unsaved, picking, carding, gone, gap, strayed, pageActs, pageFaults>>
Changed(n) ==
  /\ \/ \E what \in {"newstep", "delstep", "remove"} : Arrives(n, what) /\ UNCHANGED previews
     \/ /\ Arrives(n, "save")
        /\ previews' = IF asked[n].from = "preview" THEN [previews EXCEPT ![asked[n].id] = ""] ELSE previews
  /\ asked' = IF asked[n].ok THEN Append(Rest(n), Load) ELSE Rest(n)
  /\ UNCHANGED <<row, draftings, opened, typed, unsaved, picking, carding, gone, gap, strayed, pageActs, pageFaults>>

Deleted(n) ==
  /\ Arrives(n, "delete") /\ asked' = IF asked[n].ok THEN <<>> ELSE Rest(n)
  /\ gone' = asked[n].ok
  /\ UNCHANGED <<row, draftings, opened, boxes, picking, carding, gap, strayed, pageActs, pageFaults>>

(* The card is for one job: it has stopped polling when that one has ended,   *)
(* and an answer about that one that is still to come is taken for the next.  *)
Busy == cardJob # 0 /\ (~card.polling \/ \E m \in 1 .. Len(asked) : asked[m].what = "job")
updateStatus(n) ==
  /\ Arrives(n, "status")
  /\ IF asked[n].ok /\ asked[n].job # 0 /\ asked[n].job # cardJob
     THEN /\ cardJob' = asked[n].job /\ strayed' = (strayed \/ Busy)
          /\ asked' = Rest(n) \o <<Load, AskJob(asked[n].job)>>
     ELSE /\ asked' = IF asked[n].ok THEN Append(Rest(n), Load) ELSE Rest(n)
          /\ UNCHANGED <<cardJob, strayed>>
  /\ UNCHANGED <<row, draftings, opened, boxes, picking, card, gone, gap, pageActs, pageFaults>>

(* With a lead refused the dialog stays, and the campaign is not loaded.      *)
LeadsAdded(n) ==
  LET r == asked[n] IN
  /\ Arrives(n, "add") /\ adding' = FALSE
  /\ IF r.failed = {}
     THEN dialog' = "none" /\ chosen' = {} /\ asked' = Append(Rest(n), Load) /\ UNCHANGED gap
     ELSE asked' = Rest(n) /\ gap' = (gap \/ r.failed # r.leads) /\ UNCHANGED <<dialog, chosen>>
  /\ UNCHANGED <<row, draftings, opened, boxes, carding, gone, strayed, pageActs, pageFaults>>

(* The interval of four seconds, and its answers; when the polling stops the  *)
(* card asks once more.                                                       *)
fetchJob ==
  /\ ~gone /\ cardJob # 0 /\ card.polling /\ Send(AskJob(cardJob))
  /\ UNCHANGED <<row, draftings, opened, boxes, picking, carding, gone, gap, strayed, pageActs, pageFaults>>

JobTold(n) ==
  LET ended == asked[n].read = "ended" IN
  /\ Arrives(n, "job")
  /\ strayed' = (strayed \/ \E m \in 1 .. Len(asked) : m # n /\ asked[m].what = "job")
  /\ card' = [shown |-> asked[n].read, polling |-> card.polling /\ ~ended]
  /\ asked' = IF card.polling /\ ended THEN Append(Rest(n), AskJob(cardJob)) ELSE Rest(n)
  /\ UNCHANGED <<row, draftings, opened, boxes, picking, cardJob, gone, gap, pageActs, pageFaults>>

(* A request fails, with or without having been performed: the page shows an  *)
(* error, or nothing.  It forgets a text it could not save all the same.      *)
RequestLost(n) ==
  LET r == asked[n] IN
  /\ ~gone /\ PageFault /\ r.what # "add"
  /\ asked' = Rest(n)
  /\ gap' = (gap \/ CASE r.what = "load" -> TRUE
                      [] r.what = "save" -> r.done \/ r.from = "box"
                      [] r.what = "job" -> FALSE
                      [] OTHER -> r.done)
  /\ previews' = IF r.what = "save" /\ r.from = "preview" THEN [previews EXCEPT ![r.id] = ""] ELSE previews
  /\ UNCHANGED <<row, draftings, opened, typed, unsaved, picking, carding, gone, strayed, pageActs>>

(* So does one of the requests that add leads.                                *)
AddLost(n, l) ==
  LET r == asked[n] IN
  /\ ~gone /\ PageFault /\ r.what = "add" /\ l \in r.todo
  /\ row' \in {row} \cup IF row.status \in {"draft", "paused"} THEN {[row EXCEPT !.leads = @ \cup {l}]} ELSE {}
  /\ gap' = (gap \/ row' # row)
  /\ asked' = [asked EXCEPT ![n] = [r EXCEPT !.todo = @ \ {l}, !.done = (r.todo = {l}), !.failed = @ \cup {l}]]
  /\ UNCHANGED <<draftings, opened, boxes, picking, carding, gone, strayed, pageActs>>

CampaignPageNext ==
  \/ AskActivate \/ Activate \/ CloseDialog \/ Pause \/ handleDeleteCampaign
  \/ OpenLeads \/ handleAddLeads
  \/ \E l \in Prospect : handleRemoveLeadFromCampaign(l) \/ PickLead(l)
  \/ \E leads \in SUBSET Prospect : handleSelectAllFiltered(leads)
  \/ \E i \in AllIds : \/ SaveChanges(i) \/ simulateTemplateRewrite(i) \/ cancelPreview(i) \/ applyPreview(i)
                       \/ handleDeleteTemplate(i) \/ \E text \in Typing : TypeText(i, text)
  \/ handleAddTemplate \/ fetchJob
  \/ \E j \in 1 .. Len(draftings) : DraftingEnds(j)
  \/ \E n \in 1 .. Len(asked) :
       \/ Perform(n) \/ Read(n) \/ RequestLost(n)
       \/ CampaignLoaded(n) \/ Changed(n) \/ Deleted(n) \/ updateStatus(n) \/ LeadsAdded(n) \/ JobTold(n)
       \/ \E l \in Prospect : PerformAdd(n, l) \/ AddLost(n, l)

CampaignPageSpec == CampaignPageInit /\ [][CampaignPageNext]_cpageVars

-----------------------------------------------------------------------------
CampaignPageTypeOK ==
  /\ row.status \in {"draft", "active", "paused", "deleted"} /\ row.leads \subseteq Prospect
  /\ Len(opened.texts) <= Len(row.texts) /\ opened.leads \subseteq Prospect
  /\ unsaved \subseteq Ids /\ \A i \in unsaved : typed[i] # ""
  /\ dialog \in {"none", "activate", "leads"} /\ chosen \subseteq Prospect /\ adding \in BOOLEAN
  /\ cardJob \in 0 .. Len(draftings) /\ card.shown \in {"", "open", "ended"}
  /\ pageActs \in 0 .. MaxPageActs /\ pageFaults \in 0 .. MaxPageFaults

(* When nothing is on its way any more, the page shows what the database      *)
(* holds: the status, the leads and the templates, of a template whose        *)
(* changes are not marked unsaved the text too, and a card that has stopped   *)
(* asking shows a job that has ended.  Where the code gives that up, `gap` or *)
(* `strayed` says so: loads or saves of one template that cross, a text that  *)
(* could not be saved, a preview applied to a text saved before, a change     *)
(* whose answer was lost, leads of which only some could be added; polls that *)
(* cross, and a job given to a card that has stopped polling.                 *)
AtRest == asked = <<>> /\ ~gone
PageSettles ==
  AtRest =>
    /\ ~gap /\ Exists =>
         /\ opened.status = row.status /\ opened.leads = row.leads
         /\ Templates = {i \in Ids : row.texts[i] # ""}
         /\ \A i \in Templates \ unsaved : Box(i) = row.texts[i]
    /\ ~strayed /\ cardJob # 0 /\ ~card.polling => card.shown = "ended" /\ draftings[cardJob] = "ended"
=============================================================================
