--------------------------- MODULE CampaignDrafts ---------------------------
(***************************************************************************)
(* Campaigns and the jobs that draft their e-mails.  Setting a campaign    *)
(* active starts a job that reads the campaign once, and for every lead    *)
(* without a draft in it posts draft_created; the webhook asks             *)
(* canDraftEmail, creates an approved draft, asks canQueueSend and queues  *)
(* it.  Users change the status, add and remove leads and delete campaigns *)
(* from several tabs meanwhile, write drafts by hand, edit, reject and     *)
(* approve drafts in whatever status, and a sender goes through the queue  *)
(* (SendQueue has it statement by statement).                              *)
(*                                                                         *)
(* Left out: suppressions, replies and leads without an address, which     *)
(* only make the policies refuse; enrichment; approve-all, as it asks for  *)
(* drafts in needs_review and nothing gives one that status.               *)
(***************************************************************************)
EXTENDS Integers, Sequences, FiniteSets

CONSTANTS
  Campaign, Lead,
  Joined,      \* the leads of each campaign at first, as <<campaign, lead>>
  Before,      \* Before[c]: the status of c at first
  Tab,         \* the requests users can have in progress
  Hook,        \* the calls of createDraft the web server can be handling
  Reviewer,    \* the approvals of drafts that can be in progress
  MaxDraftJobs, \* bound: drafting jobs
  MaxActs,      \* bound: requests of users
  MaxDraftFaults \* bound: jobs cut, posts lost or answered late

ASSUME DraftsAssumption ==
  /\ Campaign # {} /\ Lead # {}
  /\ Joined \subseteq Campaign \X Lead /\ Before \in [Campaign -> {"draft", "active", "paused"}]
  /\ MaxDraftJobs \in Nat /\ MaxActs \in Nat /\ MaxDraftFaults \in Nat

VARIABLES
  statusOf, \* of each campaign, "deleted" once it is gone
  members,  \* CampaignLead
  drafts,   \* EmailDraft with its queue row, and whether it has a SentEmail
  act,      \* act[t]: the request of tab t: what, where, and what it read
  jobsOf,   \* drafting jobs, in the order they were created
  hook,     \* hook[h]: stage, campaign and lead of the event being handled
  tried,    \* history: pairs handled since the campaign was last launched
  excused,  \* history: campaigns that a fault or an overlap may leave undone
  raced,    \* history: leads for which two events were checked side by side
  overtaken, \* history: pairs removed while an event of theirs was on its way,
             \* or for which a user wrote or queued a draft without membership
  review,    \* review[r]: where an approval is, and the draft it is of
  reopened,  \* history: drafts that a user opened again
  acts, draftFaults \* history: what the bounds count

reviewVars == <<review, reopened>>
draftsVars == <<statusOf, members, drafts, act, jobsOf, hook, tried, excused, raced, overtaken,
                reviewVars, acts, draftFaults>>

NoAct == [what |-> "none", campaign |-> CHOOSE c \in Campaign : TRUE,
          lead |-> CHOOSE l \in Lead : TRUE, read |-> "draft"]
NoEvent == [stage |-> "free", campaign |-> NoAct.campaign, lead |-> NoAct.lead, draft |-> 0]
NoReview == [stage |-> "free", draft |-> 0]

DraftsInit ==
  /\ statusOf = Before /\ members = Joined /\ drafts = <<>>
  /\ act = [t \in Tab |-> NoAct] /\ jobsOf = <<>> /\ hook = [h \in Hook |-> NoEvent]
  /\ tried = {} /\ excused = {c \in Campaign : Before[c] = "active"} /\ raced = {}
  /\ overtaken = {} /\ review = [r \in Reviewer |-> NoReview] /\ reopened = {}
  /\ acts = 0 /\ draftFaults = 0

DraftIds == 1 .. Len(drafts)
DraftsOf(c, l) == {d \in DraftIds : drafts[d].campaign = c /\ drafts[d].lead = l
                                    /\ drafts[d].status # "deleted"}
(* canDraftEmail takes any status but cancelled, skipped, failed and sent for *)
(* an open draft; an edited one is as open as an approved one.                *)
Open(d) == drafts[d].status = "approved"
DraftFault == draftFaults < MaxDraftFaults /\ draftFaults' = draftFaults + 1

-----------------------------------------------------------------------------
(* The routes of campaigns and their leads *)

(* createJob and startWorkerJob, which may fail: the job is then failed.      *)
StartDrafting(c) ==
  /\ Len(jobsOf) < MaxDraftJobs
  /\ tried' = {p \in tried : p[1] # c}
  /\ \/ /\ jobsOf' = Append(jobsOf, [campaign |-> c, stage |-> "queued", todo |-> {}, hand |-> {}, waits |-> {}])
        /\ excused' = excused \ {c} /\ UNCHANGED draftFaults
     \/ UNCHANGED jobsOf /\ excused' = excused \cup {c} /\ DraftFault

Ask(t, what, c, l) ==
  /\ act[t].what = "none" /\ statusOf[c] # "deleted" /\ acts < MaxActs
  /\ act' = [act EXCEPT ![t] = [what |-> what, campaign |-> c, lead |-> l, read |-> statusOf[c]]]
  /\ acts' = acts + 1
  /\ UNCHANGED <<statusOf, members, drafts, jobsOf, hook, tried, excused, raced, overtaken, draftFaults>>

(* PATCH reads the campaign first, and launches on what it read. *)
LaunchesFrom_draft(read) == read = "draft"
LaunchesFrom(read) == read # "active"
ReadStatus(t, c, next) == Ask(t, next, c, NoAct.lead)

WriteStatus(t) ==
  LET c == act[t].campaign IN
  /\ act[t].what \in {"active", "paused"}
  /\ act' = [act EXCEPT ![t] = NoAct]
  /\ IF statusOf[c] = "deleted"
     THEN UNCHANGED <<statusOf, jobsOf, tried, excused, draftFaults>>
     ELSE /\ statusOf' = [statusOf EXCEPT ![c] = act[t].what]
          /\ IF act[t].what = "active" /\ LaunchesFrom(act[t].read) THEN StartDrafting(c)
             ELSE /\ excused' = IF act[t].read = "active" /\ statusOf[c] # "active"
                                THEN excused \cup {c} ELSE excused
                  /\ UNCHANGED <<jobsOf, tried, draftFaults>>
  /\ UNCHANGED <<members, drafts, hook, raced, overtaken, acts>>

(* The route reads whether the campaign is active; canAddToCampaign asks      *)
(* again, and refuses one that is.                                            *)
ReadForAdd(t, c, l) == Ask(t, "add", c, l)

CanAdd(c, l) ==
  /\ statusOf[c] \in {"draft", "paused"} /\ <<c, l>> \notin members
  /\ \A e \in Campaign \ {c} : <<e, l>> \in members => statusOf[e] # "active"

CheckAdd(t) ==
  LET c == act[t].campaign l == act[t].lead IN
  /\ act[t].what = "add"
  /\ act' = [act EXCEPT ![t] = IF CanAdd(c, l) THEN [@ EXCEPT !.what = "join"] ELSE NoAct]
  /\ UNCHANGED <<statusOf, members, drafts, jobsOf, hook, tried, excused, raced, overtaken, acts, draftFaults>>

JoinCampaign(t) ==
  LET c == act[t].campaign l == act[t].lead IN
  /\ act[t].what = "join"
  /\ act' = [act EXCEPT ![t] = NoAct]
  /\ IF statusOf[c] = "deleted" \/ <<c, l>> \in members
     THEN UNCHANGED <<members, jobsOf, tried, excused, draftFaults>>
     ELSE /\ members' = members \cup {<<c, l>>}
          /\ IF act[t].read = "active" THEN StartDrafting(c)
             ELSE /\ excused' = IF statusOf[c] = "active" THEN excused \cup {c} ELSE excused
                  /\ UNCHANGED <<jobsOf, tried, draftFaults>>
  /\ UNCHANGED <<statusOf, drafts, hook, raced, overtaken, acts>>

OnItsWay(c, l) ==
  \/ \E j \in 1 .. Len(jobsOf) : jobsOf[j].campaign = c /\ l \in jobsOf[j].todo \cup jobsOf[j].hand
  \/ \E h \in Hook : hook[h].stage # "free" /\ hook[h].campaign = c /\ hook[h].lead = l

Cancellable_queued == {"queued"}
Cancellable == {"pending"}
(* DELETE of a lead is one transaction. *)
RemoveMember(c, l) ==
  /\ <<c, l>> \in members /\ acts < MaxActs /\ acts' = acts + 1
  /\ members' = members \ {<<c, l>>}
  /\ drafts' = [d \in DraftIds |-> IF d \in DraftsOf(c, l) /\ drafts[d].row \in Cancellable
                                   THEN [drafts[d] EXCEPT !.row = "cancelled"] ELSE drafts[d]]
  /\ overtaken' = IF OnItsWay(c, l) THEN overtaken \cup {<<c, l>>} ELSE overtaken
  /\ UNCHANGED <<statusOf, act, jobsOf, hook, tried, excused, raced, draftFaults>>

DropCampaign(c) ==
  /\ statusOf[c] # "deleted" /\ acts < MaxActs /\ acts' = acts + 1
  /\ statusOf' = [statusOf EXCEPT ![c] = "deleted"]
  /\ members' = {p \in members : p[1] # c}
  /\ drafts' = [d \in DraftIds |-> IF drafts[d].campaign = c
                                   THEN [drafts[d] EXCEPT !.status = "deleted", !.row = "none"]
                                   ELSE drafts[d]]
  /\ UNCHANGED <<act, jobsOf, hook, tried, excused, raced, overtaken, draftFaults>>

(* /pause and /resume of the Telegram bot write the status and start nothing: *)
(* leads that joined meanwhile stay undrafted.                                *)
PauseResume(c, next) ==
  /\ statusOf[c] \notin {"deleted", next} /\ acts < MaxActs /\ acts' = acts + 1
  /\ statusOf' = [statusOf EXCEPT ![c] = next]
  /\ excused' = IF next = "active" THEN excused \cup {c} ELSE excused
  /\ UNCHANGED <<members, drafts, act, jobsOf, hook, tried, raced, overtaken, draftFaults>>

-----------------------------------------------------------------------------
(* _draft_campaign_leads *)

(* The one read of the campaign; a campaign that is gone fails the job. *)
ReadCampaign(j) ==
  LET c == jobsOf[j].campaign IN
  /\ jobsOf[j].stage = "queued"
  /\ jobsOf' = [jobsOf EXCEPT
       ![j].stage = IF statusOf[c] = "deleted" THEN "over" ELSE "working",
       ![j].todo = {l \in Lead : <<c, l>> \in members /\ DraftsOf(c, l) = {}}]
  /\ UNCHANGED <<statusOf, members, drafts, act, hook, tried, excused, raced, overtaken, acts, draftFaults>>

(* A chat command cancels the workspace's jobs, or the worker dies. *)
CutJob(j) ==
  /\ jobsOf[j].stage # "over" /\ DraftFault
  /\ jobsOf' = [jobsOf EXCEPT ![j] = [@ EXCEPT !.stage = "over", !.todo = {}, !.hand = {}, !.waits = {}]]
  /\ excused' = excused \cup {jobsOf[j].campaign}
  /\ UNCHANGED <<statusOf, members, drafts, act, hook, tried, raced, overtaken, acts>>

TakeLead(j) ==
  /\ jobsOf[j].stage = "working" /\ jobsOf[j].hand = {}
  /\ IF jobsOf[j].todo = {}
     THEN jobsOf' = [jobsOf EXCEPT ![j].stage = "over"]
     ELSE \E l \in jobsOf[j].todo :
            jobsOf' = [jobsOf EXCEPT ![j].hand = {l}, ![j].todo = @ \ {l}]
  /\ UNCHANGED <<statusOf, members, drafts, act, hook, tried, excused, raced, overtaken, acts, draftFaults>>

PostDraft(j, h) ==
  /\ jobsOf[j].waits = {} /\ hook[h].stage = "free"
  /\ \E l \in jobsOf[j].hand :
       hook' = [hook EXCEPT ![h] = [NoEvent EXCEPT !.stage = "check",
                                                     !.campaign = jobsOf[j].campaign, !.lead = l]]
  /\ jobsOf' = [jobsOf EXCEPT ![j].waits = {h}]
  /\ UNCHANGED <<statusOf, members, drafts, act, tried, excused, raced, overtaken, acts, draftFaults>>

(* No answer in ten seconds: the event is posted again beside the first, or   *)
(* given up after the fourth post.                                            *)
AnswerLate(j) ==
  /\ jobsOf[j].waits # {} /\ DraftFault
  /\ \/ jobsOf' = [jobsOf EXCEPT ![j].waits = {}] /\ UNCHANGED excused
     \/ /\ jobsOf' = [jobsOf EXCEPT ![j].waits = {}, ![j].hand = {}]
        /\ excused' = excused \cup {jobsOf[j].campaign}
  /\ UNCHANGED <<statusOf, members, drafts, act, hook, tried, raced, overtaken, acts>>

-----------------------------------------------------------------------------
(* handleDraftCreated and createDraft *)

(* POST of a draft written by hand: createDraft with no job that waits.       *)
WriteByHand(h, c, l) ==
  /\ hook[h].stage = "free" /\ acts < MaxActs /\ acts' = acts + 1
  /\ hook' = [hook EXCEPT ![h] = [NoEvent EXCEPT !.stage = "check", !.campaign = c, !.lead = l]]
  /\ overtaken' = IF <<c, l>> \in members THEN overtaken ELSE overtaken \cup {<<c, l>>}
  /\ UNCHANGED <<statusOf, members, drafts, act, jobsOf, tried, excused, raced, draftFaults>>

(* An error is logged and answered with success all the same. *)
HookDone(h) ==
  /\ hook' = [hook EXCEPT ![h] = NoEvent]
  /\ jobsOf' = [j \in 1 .. Len(jobsOf) |-> IF h \in jobsOf[j].waits
                  THEN [jobsOf[j] EXCEPT !.waits = {}, !.hand = {}] ELSE jobsOf[j]]
  /\ tried' = tried \cup {<<hook[h].campaign, hook[h].lead>>}

CanDraft_sameCampaign(c, l) ==
  statusOf[c] \in {"draft", "active"} /\ \A d \in DraftsOf(c, l) : ~Open(d)
CanDraft(c, l) ==
  statusOf[c] \in {"draft", "active"} /\ \A e \in Campaign : \A d \in DraftsOf(e, l) : ~Open(d)

CheckDraft(h) ==
  LET c == hook[h].campaign l == hook[h].lead IN
  /\ hook[h].stage = "check"
  /\ IF CanDraft(c, l)
     THEN /\ hook' = [hook EXCEPT ![h].stage = "create"]
          /\ raced' = IF \E g \in Hook : hook[g].stage = "create" /\ hook[g].lead = l
                      THEN raced \cup {l} ELSE raced
          /\ UNCHANGED <<jobsOf, tried>>
     ELSE HookDone(h) /\ UNCHANGED raced
  /\ UNCHANGED <<statusOf, members, drafts, act, excused, overtaken, acts, draftFaults>>

CreateDraft(h) ==
  LET c == hook[h].campaign l == hook[h].lead IN
  /\ hook[h].stage = "create"
  /\ IF statusOf[c] = "deleted"
     THEN HookDone(h) /\ UNCHANGED drafts
     ELSE /\ drafts' = Append(drafts, [campaign |-> c, lead |-> l, status |-> "approved", row |-> "none",
                                      delivered |-> FALSE])
          /\ hook' = [hook EXCEPT ![h].stage = "queue", ![h].draft = Len(drafts) + 1]
          /\ UNCHANGED <<jobsOf, tried>>
  /\ UNCHANGED <<statusOf, members, act, excused, raced, overtaken, acts, draftFaults>>

(* canQueueSend; a draft it refuses stays approved and is never queued. *)
CanQueue(c, l) ==
  statusOf[c] = "active" /\ \A d \in DraftIds : drafts[d].lead = l => drafts[d].row # "pending"

(* The row is created: one that an approval has made meanwhile is an error.   *)
QueueDraft(h) ==
  LET d == hook[h].draft IN
  /\ hook[h].stage = "queue"
  /\ drafts' = IF /\ drafts[d].status # "deleted" /\ drafts[d].row = "none"
                  /\ CanQueue(hook[h].campaign, hook[h].lead)
               THEN [drafts EXCEPT ![d].row = "pending"] ELSE drafts
  /\ HookDone(h)
  /\ UNCHANGED <<statusOf, members, act, excused, raced, overtaken, acts, draftFaults>>

(* processQueue on one item: canSendNow, then Gmail, whatever the status of   *)
(* the draft.  An e-mail to the lead blocks another for a day.                *)
CanSend(c, l) ==
  /\ statusOf[c] = "active"
  /\ \A e \in Campaign \ {c} : <<e, l>> \in members => statusOf[e] # "active"

HadMail(l) == \E d \in DraftIds : drafts[d].lead = l /\ drafts[d].delivered /\ drafts[d].status # "deleted"

ProcessItem(d) ==
  LET c == drafts[d].campaign l == drafts[d].lead IN
  /\ drafts[d].row = "pending"
  /\ \/ /\ ~CanSend(c, l) \/ HadMail(l)
        /\ drafts' = [drafts EXCEPT ![d].row = "blocked"]
     \/ /\ CanSend(c, l)
        /\ drafts' = IF drafts[d].delivered THEN [drafts EXCEPT ![d].row = "sent"]
                     ELSE [drafts EXCEPT ![d].row = "sent", ![d].status = "sent", ![d].delivered = TRUE]
  /\ UNCHANGED <<statusOf, members, act, jobsOf, hook, tried, excused, raced, overtaken, acts, draftFaults>>

-----------------------------------------------------------------------------
(* The routes of drafts *)

OfDraft(d) == drafts[d].status # "deleted" /\ acts < MaxActs /\ acts' = acts + 1
ReviewAt(r, stage, d) == review' = [review EXCEPT ![r] = [stage |-> stage, draft |-> d]]
MayQueue(d) == CanQueue(drafts[d].campaign, drafts[d].lead)

(* The update is by id and asks for no status: a sent or rejected draft is    *)
(* opened again.                                                              *)
Reopens(d) ==
  /\ drafts' = [drafts EXCEPT ![d].status = "approved"]
  /\ reopened' = IF Open(d) THEN reopened ELSE reopened \cup {d}

(* The web approves first and asks afterwards, *)
Approve(r, d) ==
  /\ review[r].stage = "free" /\ OfDraft(d)
  /\ Reopens(d) /\ ReviewAt(r, "ask", d)
  /\ UNCHANGED overtaken

AskToQueue(r) ==
  LET d == review[r].draft IN
  /\ review[r].stage = "ask"
  /\ IF MayQueue(d) THEN ReviewAt(r, "queue", d) ELSE ReviewAt(r, "free", 0)
  /\ UNCHANGED <<drafts, reopened, overtaken, acts>>

(* Telegram asks first, and POST of a send only queues.                       *)
AskFirst(r, d) ==
  /\ review[r].stage = "free" /\ OfDraft(d) /\ MayQueue(d)
  /\ ReviewAt(r, "mark", d) \/ ReviewAt(r, "queue", d)
  /\ UNCHANGED <<drafts, reopened, overtaken>>

MarkApproved(r) ==
  LET d == review[r].draft IN
  /\ review[r].stage = "mark"
  /\ IF drafts[d].status = "deleted" THEN ReviewAt(r, "free", 0) /\ UNCHANGED <<drafts, reopened>>
     ELSE Reopens(d) /\ ReviewAt(r, "queue", d)
  /\ UNCHANGED <<overtaken, acts>>

(* An upsert: a row that was sent, blocked or cancelled is pending again.     *)
QueueAgain(r) ==
  LET d == review[r].draft
      pair == <<drafts[d].campaign, drafts[d].lead>> IN
  /\ review[r].stage = "queue" /\ ReviewAt(r, "free", 0)
  /\ IF drafts[d].status = "deleted" THEN UNCHANGED <<drafts, overtaken>>
     ELSE /\ drafts' = [drafts EXCEPT ![d].row = "pending"]
          /\ overtaken' = IF pair \in members THEN overtaken ELSE overtaken \cup {pair}
  /\ UNCHANGED <<reopened, acts>>

EditDraft(d) == OfDraft(d) /\ Reopens(d) /\ UNCHANGED <<review, overtaken>>

RejectDraft(d) ==
  /\ OfDraft(d) /\ drafts' = [drafts EXCEPT ![d].status = "cancelled"]
  /\ UNCHANGED <<reviewVars, overtaken>>

-----------------------------------------------------------------------------
UserStep(t) ==
  \/ \E c \in Campaign : \/ ReadStatus(t, c, "active") \/ ReadStatus(t, c, "paused")
                         \/ \E l \in Lead : ReadForAdd(t, c, l)
  \/ WriteStatus(t) \/ CheckAdd(t) \/ JoinCampaign(t)

HookStep(h) == CheckDraft(h) \/ CreateDraft(h) \/ QueueDraft(h)

DraftJobStep(j) ==
  \/ ReadCampaign(j) \/ TakeLead(j) \/ CutJob(j) \/ AnswerLate(j) \/ \E h \in Hook : PostDraft(j, h)

ReviewStep(r) ==
  \/ \E d \in DraftIds : Approve(r, d) \/ AskFirst(r, d)
  \/ AskToQueue(r) \/ MarkApproved(r) \/ QueueAgain(r)

ReviewNext ==
  /\ \/ \E r \in Reviewer : ReviewStep(r)
     \/ \E d \in DraftIds : EditDraft(d) \/ RejectDraft(d)
  /\ UNCHANGED <<statusOf, members, act, jobsOf, hook, tried, excused, raced, draftFaults>>

CampaignNext ==
  \/ \E t \in Tab : UserStep(t)
  \/ \E c \in Campaign : \/ DropCampaign(c) \/ \E l \in Lead : RemoveMember(c, l)
                         \/ PauseResume(c, "active") \/ PauseResume(c, "paused")
  \/ \E j \in 1 .. Len(jobsOf) : DraftJobStep(j)
  \/ \E h \in Hook : HookStep(h) \/ \E c \in Campaign, l \in Lead : WriteByHand(h, c, l)
  \/ \E d \in DraftIds : ProcessItem(d)

DraftsNext ==
  \/ CampaignNext /\ UNCHANGED reviewVars
  \/ ReviewNext

DraftsSpec == DraftsInit /\ [][DraftsNext]_draftsVars

-----------------------------------------------------------------------------
DraftsTypeOK ==
  /\ statusOf \in [Campaign -> {"draft", "active", "paused", "deleted"}]
  /\ members \subseteq {p \in Campaign \X Lead : statusOf[p[1]] # "deleted"}
  /\ \A d \in DraftIds : /\ drafts[d].campaign \in Campaign /\ drafts[d].lead \in Lead
                         /\ drafts[d].status \in {"approved", "sent", "cancelled", "deleted"}
                         /\ drafts[d].row \in {"none", "pending", "sent", "blocked", "cancelled"}
                         /\ drafts[d].delivered \in BOOLEAN
  /\ \A t \in Tab : act[t].what \in {"none", "active", "paused", "add", "join"}
  /\ \A j \in 1 .. Len(jobsOf) : /\ jobsOf[j].stage \in {"queued", "working", "over"}
                                 /\ Cardinality(jobsOf[j].hand) <= 1
                                 /\ jobsOf[j].waits \subseteq Hook
                                 /\ jobsOf[j].hand \cap jobsOf[j].todo = {}
  /\ \A h \in Hook : hook[h].stage \in {"free", "check", "create", "queue"}
                     /\ hook[h].draft \in 0 .. Len(drafts)
  /\ \A r \in Reviewer : review[r].stage \in {"free", "ask", "mark", "queue"}
                         /\ review[r].draft \in 0 .. Len(drafts)
  /\ reopened \subseteq DraftIds

(* A lead has one open draft at most besides those that users opened again,   *)
(* over all campaigns that have it, unless two events for it were checked     *)
(* before either had made its draft.                                          *)
OneOpenDraft ==
  \A l \in Lead \ raced :
    Cardinality({d \in DraftIds \ reopened : drafts[d].lead = l /\ Open(d)}) <= 1

(* When an active campaign's jobs are over, each of its leads has been        *)
(* drafted or refused since the launch, unless a job was cut, a post was      *)
(* given up, the status was written from a stale read, the campaign was       *)
(* resumed by Telegram or a lead joined while it was being activated.         *)
QuietIn(c) ==
  /\ \A j \in 1 .. Len(jobsOf) : jobsOf[j].campaign = c => jobsOf[j].stage = "over"
  /\ \A h \in Hook : hook[h].stage # "free" => hook[h].campaign # c
NoneForgotten ==
  \A c \in Campaign \ excused : statusOf[c] = "active" /\ QuietIn(c) =>
    \A l \in Lead : <<c, l>> \in members => <<c, l>> \in tried \/ DraftsOf(c, l) # {}

(* Nothing is queued for a lead that was removed from the campaign, unless a  *)
(* job had already read it there or a user asked for it afterwards.           *)
RemovedUnqueued ==
  \A d \in DraftIds : drafts[d].row = "pending" =>
    <<drafts[d].campaign, drafts[d].lead>> \in members \cup overtaken
=============================================================================
