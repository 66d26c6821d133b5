----------------------------- MODULE FollowUps -----------------------------
(***************************************************************************)
(* The follow-up sequence of one lead in one campaign: the task rows, the  *)
(* runs of FollowUpService.processDueTasks that dispatch them to the       *)
(* worker, the draft_created webhooks that come back and may come twice,   *)
(* the drafts DraftService.createDraft makes of them, the requests with    *)
(* which users write, edit and approve drafts in whatever status, the way  *)
(* of the drafts through the send queue, and scheduleNextFollowUp after    *)
(* each e-mail.                                                            *)
(*                                                                         *)
(* One action is one statement or transaction, except that a policy call   *)
(* is one read.  That an item is e-mailed at most once, by one sender, is  *)
(* what SendQueue shows; here an item is waiting, cleared by canSendNow,   *)
(* or decided.                                                             *)
(***************************************************************************)
EXTENDS Integers, FiniteSets

CONSTANTS
    MaxFollowUps,  \* Campaign.maxFollowUps
    MaxDrafts,     \* bound: follow-up drafts
    Cron,          \* concurrent runs of processDueTasks
    Hook,          \* concurrent requests with a draft_created event
    Editor,        \* concurrent requests of users to write or change a draft
    Events,        \* bound: the events that may happen, each once
    MaxEvents      \* bound: how many of them in one behaviour

Event == {"crash", "error", "unclear", "duplicate", "lose", "sendFails", "reply",
          "skip", "campaign", "reject", "remove", "approve", "edit", "compose"}

ASSUME FollowUpsAssumption ==
    /\ MaxFollowUps \in Nat /\ MaxDrafts \in Nat
    /\ IsFiniteSet(Cron) /\ IsFiniteSet(Hook) /\ Hook # {}
    /\ IsFiniteSet(Editor) /\ Hook \cap Editor = {}
    /\ Events \subseteq Event /\ MaxEvents \in Nat

Limit == IF MaxFollowUps < 4 THEN MaxFollowUps ELSE 4
Step == 1..Limit
Draft == 0..MaxDrafts    \* 0 is the first e-mail of the sequence

VARIABLES
    task,      \* FollowUpTask.status; "none": no row
    draft,     \* EmailDraft.status, "approved" for every open one
    step,      \* EmailDraftVersion.followupNumber; 0: null
    item,      \* the draft's way through the send queue
    mail,      \* its SentEmail row: none, reserved before the call, or sent
    edited,    \* drafts whose newest version has no followupNumber any more
    reopened,  \* history: drafts a user opened again, approving or editing
    deciding,  \* drafts just e-mailed, before canScheduleFollowUp
    counting,  \* and after it
    upserts,   \* <<draft, step>>: the task about to be upserted
    pc,        \* where each cron is in processDueTasks
    todo,      \* the tasks it read and has not finished
    at,        \* the task it works on; 0: none
    posts,     \* draft_created requests the worker has still to make
    hpc,       \* where each webhook request is in handleDraftCreated
    hstep,     \* its task; 0: none
    hdraft,    \* the draft it created
    epc,       \* where each editor's request is
    edraft,    \* the draft it is for
    reply,     \* the lead's latest reply
    stop,      \* where the handler of the reply is
    campaign,  \* Campaign.status
    lost,      \* history: tasks whose dispatch or webhook got lost
    events     \* bound: the events that have happened

cronVars == <<pc, todo, at>>
hookVars == <<hpc, hstep, hdraft>>
draftVars == <<draft, step, item, mail, edited, reopened>>
editorVars == <<epc, edraft>>
afterVars == <<deciding, counting, upserts>>
stopVars == <<reply, stop>>
vars == <<task, draftVars, afterVars, cronVars, posts, hookVars, editorVars, stopVars, campaign, lost,
          events>>

Live == {"scheduled", "processing"}
Open(d) == draft[d] = "approved"
CronBusy == {"policy", "skip", "mark", "remark", "post", "revert"}
HookBusy == {"policy", "create", "ask", "queue", "complete", "revert"}
EditorBusy == {"policy", "create", "askNew", "queueNew", "approve", "telegram", "mark",
               "ask", "queue", "edit", "rewrite"}

TypeOK ==
    /\ task \in [Step -> {"none", "scheduled", "processing", "completed", "skipped", "cancelled"}]
    /\ draft \in [Draft -> {"none", "approved", "cancelled", "sent"}]
    /\ step \in [Draft -> Step \cup {0}]
    /\ item \in [Draft -> {"none", "waiting", "cleared", "sending", "sent", "failed", "blocked",
                          "cancelled"}]
    /\ mail \in [Draft -> {"none", "reserved", "sent"}]
    /\ edited \subseteq Draft /\ reopened \subseteq Draft
    /\ deciding \subseteq Draft /\ counting \subseteq Draft
    /\ upserts \subseteq Draft \X Step
    /\ pc \in [Cron -> {"idle", "next"} \cup CronBusy]
    /\ todo \in [Cron -> SUBSET Step]
    /\ at \in [Cron -> Step \cup {0}]
    /\ \A c \in Cron : pc[c] \in CronBusy => at[c] \in Step
    /\ posts \in [Step -> Nat]
    /\ hpc \in [Hook -> {"idle"} \cup HookBusy]
    /\ hstep \in [Hook -> Step \cup {0}]
    /\ \A h \in Hook : hpc[h] \in HookBusy => hstep[h] \in Step
    /\ hdraft \in [Hook -> Draft]
    /\ epc \in [Editor -> {"idle"} \cup EditorBusy]
    /\ edraft \in [Editor -> Draft]
    /\ reply \in {"none", "human", "unsubscribe"}
    /\ stop \in {"idle", "tasks", "queue", "suppress"}
    /\ campaign \in {"active", "paused"}
    /\ lost \subseteq Step
    /\ events \subseteq Events

(* The first draft is queued. *)
Init ==
    /\ task = [n \in Step |-> "none"]
    /\ draft = [d \in Draft |-> IF d = 0 THEN "approved" ELSE "none"]
    /\ step = [d \in Draft |-> 0]
    /\ item = [d \in Draft |-> IF d = 0 THEN "waiting" ELSE "none"]
    /\ mail = [d \in Draft |-> "none"]
    /\ edited = {} /\ reopened = {}
    /\ deciding = {} /\ counting = {} /\ upserts = {}
    /\ pc = [c \in Cron |-> "idle"]
    /\ todo = [c \in Cron |-> {}]
    /\ at = [c \in Cron |-> 0]
    /\ posts = [n \in Step |-> 0]
    /\ hpc = [h \in Hook |-> "idle"]
    /\ hstep = [h \in Hook |-> 0]
    /\ hdraft = [h \in Hook |-> 0]
    /\ epc = [e \in Editor |-> "idle"]
    /\ edraft = [e \in Editor |-> 0]
    /\ reply = "none" /\ stop = "idle"
    /\ campaign = "active"
    /\ lost = {}
    /\ events = {}

Happens(e) ==
    /\ e \in Events \ events /\ Cardinality(events) < MaxEvents
    /\ events' = events \cup {e}
Put(n, status) == task' = [task EXCEPT ![n] = status]
Completed == {n \in Step : task[n] = "completed"}
Attempted == {d \in Draft : mail[d] # "none"}
Cleared == {d \in Draft : item[d] = "cleared"}

-----------------------------------------------------------------------------
(* ContactPolicyService, for this lead and campaign                        *)

SequenceAllows_noReply == campaign = "active"
(* What canScheduleFollowUp asks before it looks at the tasks. *)
SequenceAllows == reply = "none" /\ campaign = "active"

CanScheduleFollowUp ==
    /\ SequenceAllows
    /\ \A n \in Step : task[n] \notin Live
    /\ Cardinality(Completed) < Limit

(* processDueTasks takes followup_already_scheduled for a yes. *)
CanDispatch ==
    /\ SequenceAllows
    /\ (\A n \in Step : task[n] \notin Live) => Cardinality(Completed) < Limit

CanDraftEmail_manyOpen == reply = "none" /\ campaign = "active"
CanDraftEmail == reply = "none" /\ campaign = "active" /\ \A d \in Draft : ~Open(d)

CanQueueSend ==
    /\ reply # "unsubscribe" /\ campaign = "active"
    /\ \A d \in Draft : item[d] \notin {"waiting", "cleared", "sending"}

CanSendNow_oneMore ==
    reply = "none" /\ campaign = "active" /\ Cardinality(Attempted) <= MaxFollowUps + 1
CanSendNow == reply = "none" /\ campaign = "active" /\ Cardinality(Attempted) <= MaxFollowUps

(* Only a follow-up may be sent within a day of the e-mail before, and an  *)
(* edit takes the number from the newest version.                          *)
IsFollowUp(d) == step[d] # 0 /\ d \notin edited
MayBeTooSoon(d) == ~IsFollowUp(d) /\ Attempted # {}

-----------------------------------------------------------------------------
(* FollowUpService.processDueTasks                                         *)

CronGoto(c, where) == pc' = [pc EXCEPT ![c] = where]
UnchangedByCron == UNCHANGED <<draftVars, afterVars, hookVars, editorVars, stopVars, campaign>>

List(c) ==
    /\ pc[c] = "idle"
    /\ \E n \in Step : task[n] = "scheduled"
    /\ todo' = [todo EXCEPT ![c] = {n \in Step : task[n] = "scheduled"}]
    /\ CronGoto(c, "next")
    /\ UnchangedByCron /\ UNCHANGED <<task, at, posts, lost, events>>

NextTask(c) ==
    /\ pc[c] = "next"
    /\ IF todo[c] = {}
       THEN CronGoto(c, "idle") /\ at' = [at EXCEPT ![c] = 0] /\ UNCHANGED todo
       ELSE \E n \in todo[c] :
                /\ todo' = [todo EXCEPT ![c] = @ \ {n}]
                /\ at' = [at EXCEPT ![c] = n]
                /\ CronGoto(c, "policy")
    /\ UnchangedByCron /\ UNCHANGED <<task, posts, lost, events>>

AskPolicy(c) ==
    /\ pc[c] = "policy"
    /\ CronGoto(c, IF CanDispatch THEN "mark" ELSE "skip")
    /\ UnchangedByCron /\ UNCHANGED <<task, todo, at, posts, lost, events>>

(* The updates are by id, whatever became of the task since the list was   *)
(* read; processing is written again once the job row is there.            *)
Write(c, from, status, to) ==
    /\ pc[c] = from
    /\ Put(at[c], status)
    /\ CronGoto(c, to)
    /\ UnchangedByCron /\ UNCHANGED <<todo, at, posts, lost, events>>

SkipTask(c) == Write(c, "skip", "skipped", "next")
Mark(c) == Write(c, "mark", "processing", "remark")
Remark(c) == Write(c, "remark", "processing", "post")
Revert(c) == Write(c, "revert", "scheduled", "next")

(* POST /run: the worker queues the job.  Without an answer, or with an    *)
(* error, the cron cannot tell whether it did.                             *)
Post(c) ==
    /\ pc[c] = "post"
    /\ \/ CronGoto(c, "next") /\ posts' = [posts EXCEPT ![at[c]] = @ + 1] /\ UNCHANGED events
       \/ /\ Happens("unclear")
          /\ CronGoto(c, "revert")
          /\ posts' \in {posts, [posts EXCEPT ![at[c]] = @ + 1]}
    /\ UnchangedByCron /\ UNCHANGED <<task, todo, at, lost>>

CronDies(c) ==
    /\ pc[c] # "idle" /\ Happens("crash")
    /\ CronGoto(c, "idle")
    /\ at' = [at EXCEPT ![c] = 0]
    /\ todo' = [todo EXCEPT ![c] = {}]
    /\ lost' = IF pc[c] \in {"remark", "post", "revert"} THEN lost \cup {at[c]} ELSE lost
    /\ UnchangedByCron /\ UNCHANGED <<task, posts>>

CronStep(c) ==
    \/ List(c) \/ NextTask(c) \/ AskPolicy(c) \/ SkipTask(c)
    \/ Mark(c) \/ Remark(c) \/ Post(c) \/ Revert(c)

-----------------------------------------------------------------------------
(* The worker's request and handleDraftCreated                             *)

HookGoto(h, where) == hpc' = [hpc EXCEPT ![h] = where]
UnchangedByHook == UNCHANGED <<afterVars, cronVars, editorVars, stopVars, campaign>>

(* _notify_webhook repeats a request whose answer did not arrive in time.  *)
Receive(h, n) ==
    /\ hpc[h] = "idle" /\ posts[n] > 0
    /\ HookGoto(h, "policy")
    /\ hstep' = [hstep EXCEPT ![h] = n]
    /\ \/ posts' = [posts EXCEPT ![n] = @ - 1] /\ UNCHANGED events
       \/ Happens("duplicate") /\ UNCHANGED posts
    /\ UnchangedByHook /\ UNCHANGED <<task, draftVars, hdraft, lost>>

(* The job fails on every attempt, or its request on all four.             *)
LoseJob(n) ==
    /\ posts[n] > 0 /\ Happens("lose")
    /\ posts' = [posts EXCEPT ![n] = @ - 1]
    /\ lost' = lost \cup {n}
    /\ UnchangedByHook /\ UNCHANGED <<task, draftVars, hookVars>>

AskDraft(h) ==
    /\ hpc[h] = "policy"
    /\ HookGoto(h, IF CanDraftEmail THEN "create" ELSE "revert")
    /\ UnchangedByHook /\ UNCHANGED <<task, draftVars, posts, hstep, hdraft, lost, events>>

(* The draft and its first version, one nested write. *)
NewDraft(d, n) ==
    /\ draft[d] = "none" /\ \A e \in Draft : e < d => draft[e] # "none"
    /\ draft' = [draft EXCEPT ![d] = "approved"]
    /\ step' = [step EXCEPT ![d] = n]
    /\ UNCHANGED <<item, mail, edited, reopened>>

Create(h, d) ==
    /\ hpc[h] = "create"
    /\ NewDraft(d, hstep[h])
    /\ hdraft' = [hdraft EXCEPT ![h] = d]
    /\ HookGoto(h, "ask")
    /\ UnchangedByHook /\ UNCHANGED <<task, posts, hstep, lost, events>>

AskQueue(h) ==
    /\ hpc[h] = "ask"
    /\ HookGoto(h, IF CanQueueSend THEN "queue" ELSE "complete")
    /\ UnchangedByHook /\ UNCHANGED <<task, draftVars, posts, hstep, hdraft, lost, events>>

(* From here on a sender may take the draft.  The create fails when a user *)
(* has approved the new draft, and thereby queued it, before.              *)
Enqueue(h) ==
    /\ hpc[h] = "queue"
    /\ IF item[hdraft[h]] = "none"
       THEN item' = [item EXCEPT ![hdraft[h]] = "waiting"] /\ HookGoto(h, "complete")
       ELSE HookGoto(h, "revert") /\ UNCHANGED item
    /\ UnchangedByHook
    /\ UNCHANGED <<task, draft, step, mail, edited, reopened, posts, hstep, hdraft, lost, events>>

Leave(h) ==
    /\ HookGoto(h, "idle")
    /\ hstep' = [hstep EXCEPT ![h] = 0]
    /\ hdraft' = [hdraft EXCEPT ![h] = 0]
    /\ UnchangedByHook /\ UNCHANGED draftVars

Complete(h) ==
    /\ hpc[h] = "complete"
    /\ Put(hstep[h], "completed")
    /\ Leave(h) /\ UNCHANGED <<posts, lost, events>>

Released_stays(status) == status
(* The catch block: back to scheduled, half an hour from now. *)
Released(status) == IF status = "processing" THEN "scheduled" ELSE status

Release(h) ==
    /\ hpc[h] = "revert"
    /\ Put(hstep[h], Released(task[hstep[h]]))
    /\ Leave(h) /\ UNCHANGED <<posts, lost, events>>

(* A statement of the try block fails. *)
HookFails(h) ==
    /\ hpc[h] \in HookBusy \ {"revert"} /\ Happens("error")
    /\ HookGoto(h, "revert")
    /\ UnchangedByHook /\ UNCHANGED <<task, draftVars, posts, hstep, hdraft, lost>>

(* The request dies; the worker repeats it, unless it was the fourth. *)
HookDies(h) ==
    /\ hpc[h] # "idle" /\ Happens("crash")
    /\ \/ posts' = [posts EXCEPT ![hstep[h]] = @ + 1] /\ UNCHANGED lost
       \/ lost' = lost \cup {hstep[h]} /\ UNCHANGED posts
    /\ Leave(h) /\ UNCHANGED task

HookStep(h) ==
    \/ \E n \in Step : Receive(h, n)
    \/ AskDraft(h) \/ (\E d \in Draft : Create(h, d)) \/ AskQueue(h) \/ Enqueue(h)
    \/ Complete(h) \/ Release(h)

-----------------------------------------------------------------------------
(* SendQueueService, for the drafts of this sequence                       *)

UnchangedBySend ==
    UNCHANGED <<step, edited, reopened, cronVars, posts, hookVars, editorVars, stopVars, campaign, lost>>

(* An item queued again after its e-mail was reserved is never sent again. *)
Verdicts(d) ==
    IF ~CanSendNow THEN {"blocked"}
    ELSE {CASE mail[d] = "none" -> "cleared" [] mail[d] = "sent" -> "sent" [] OTHER -> "blocked"}
         \cup {v \in {"blocked"} : MayBeTooSoon(d)}

Check(d) ==
    /\ item[d] = "waiting"
    /\ \E verdict \in Verdicts(d) : item' = [item EXCEPT ![d] = verdict]
    /\ UnchangedBySend /\ UNCHANGED <<task, draft, mail, afterVars, events>>

(* The sender may die before it has reserved the e-mail, and the lapsed    *)
(* lease puts the item back, or after it, and the row stays in sending.    *)
SendEmail(d) ==
    /\ item[d] = "cleared"
    /\ \/ /\ item' = [item EXCEPT ![d] = "sent"]
          /\ mail' = [mail EXCEPT ![d] = "sent"]
          /\ draft' = [draft EXCEPT ![d] = "sent"]
          /\ deciding' = deciding \cup {d}
          /\ UNCHANGED events
       \/ /\ Happens("sendFails")
          /\ item' = [item EXCEPT ![d] = "failed"]
          /\ mail' = [mail EXCEPT ![d] = "reserved"]
          /\ UNCHANGED <<draft, deciding>>
       \/ /\ Happens("crash")
          /\ \/ item' = [item EXCEPT ![d] = "waiting"] /\ UNCHANGED mail
             \/ /\ item' = [item EXCEPT ![d] = "sending"]
                /\ mail' = [mail EXCEPT ![d] = "reserved"]
          /\ UNCHANGED <<draft, deciding>>
    /\ UnchangedBySend /\ UNCHANGED <<task, counting, upserts>>

(* scheduleNextFollowUp: the policy, the count, the upsert.                *)
Decide(d) ==
    /\ d \in deciding
    /\ deciding' = deciding \ {d}
    /\ counting' = IF CanScheduleFollowUp THEN counting \cup {d} ELSE counting
    /\ UnchangedBySend /\ UNCHANGED <<task, draft, item, mail, upserts, events>>

NextStep_bySent == Cardinality(Attempted) + 1
NextStep == Cardinality(Completed) + 1


Count(d) ==
    /\ d \in counting
    /\ counting' = counting \ {d}
    /\ upserts' = IF NextStep \in Step THEN upserts \cup {<<d, NextStep>>} ELSE upserts
    /\ UnchangedBySend /\ UNCHANGED <<task, draft, item, mail, deciding, events>>

Schedule(d, n) ==
    /\ <<d, n>> \in upserts
    /\ upserts' = upserts \ {<<d, n>>}
    /\ Put(n, "scheduled")
    /\ UnchangedBySend /\ UNCHANGED <<draft, item, mail, deciding, counting, events>>

SenderDies(d) ==
    /\ Happens("crash")
    /\ deciding' = deciding \ {d} /\ counting' = counting \ {d}
    /\ upserts' = {u \in upserts : u[1] # d}
    /\ afterVars' # afterVars
    /\ UnchangedBySend /\ UNCHANGED <<task, draft, item, mail>>

SendStep(d) ==
    \/ Check(d) \/ SendEmail(d) \/ Decide(d) \/ Count(d)
    \/ \E n \in Step : Schedule(d, n)

-----------------------------------------------------------------------------
(* Replies and users                                                       *)

UnchangedByUser ==
    UNCHANGED <<step, mail, edited, reopened, afterVars, cronVars, posts, hookVars, editorVars, lost>>

CancelTasks ==
    task' = [n \in Step |-> IF task[n] \in Live THEN "cancelled" ELSE task[n]]
CancelItems ==
    item' = [d \in Draft |-> IF item[d] = "waiting" THEN "cancelled" ELSE item[d]]

(* ingestReply and applyClassification, statement by statement; an item a  *)
(* sender has cleared keeps its way (SendQueue: HardStop).                 *)
Reply(kind) ==
    /\ Happens("reply") /\ reply = "none"
    /\ reply' = kind
    /\ stop' = "tasks"
    /\ UnchangedByUser /\ UNCHANGED <<task, draft, item, campaign>>

StopTasks ==
    /\ stop = "tasks"
    /\ CancelTasks
    /\ stop' = "queue"
    /\ UnchangedByUser /\ UNCHANGED <<draft, item, reply, campaign, events>>

StopQueue ==
    /\ stop = "queue"
    /\ CancelItems
    /\ stop' = IF reply = "unsubscribe" THEN "suppress" ELSE "idle"
    /\ UnchangedByUser /\ UNCHANGED <<task, draft, reply, campaign, events>>

(* SuppressionService.add, one transaction. *)
Suppress ==
    /\ stop = "suppress"
    /\ CancelTasks /\ CancelItems
    /\ stop' = "idle"
    /\ UnchangedByUser /\ UNCHANGED <<draft, reply, campaign, events>>

StopDies ==
    /\ stop # "idle" /\ Happens("crash")
    /\ stop' = "idle"
    /\ UnchangedByUser /\ UNCHANGED <<task, draft, item, reply, campaign>>

(* POST follow-ups/:id/skip *)
Skip(n) ==
    /\ task[n] = "scheduled" /\ Happens("skip")
    /\ Put(n, "skipped")
    /\ UnchangedByUser /\ UNCHANGED <<draft, item, stopVars, campaign>>

SetCampaign ==
    /\ Happens("campaign")
    /\ campaign' = IF campaign = "active" THEN "paused" ELSE "active"
    /\ UnchangedByUser /\ UNCHANGED <<task, draft, item, stopVars>>

(* DELETE campaigns/:id/leads, one transaction.  That the lead has left    *)
(* the campaign is asked by none of the policies above.                    *)
RemoveLead ==
    /\ Happens("remove")
    /\ CancelTasks /\ CancelItems
    /\ UnchangedByUser /\ UNCHANGED <<draft, stopVars, campaign>>

(* DELETE drafts/:id leaves the queue row alone. *)
Reject(d) ==
    /\ Open(d) /\ Happens("reject")
    /\ draft' = [draft EXCEPT ![d] = "cancelled"]
    /\ UnchangedByUser /\ UNCHANGED <<task, item, stopVars, campaign>>

(* The requests of users to write a draft (POST drafts), to approve one    *)
(* from the web or from Telegram or to send it (POST send), whatever its   *)
(* status, and to edit or rewrite it.  They differ in which of the policy, *)
(* the status and the queue they turn to first.                            *)
EditorAt(e, where, d) ==
    /\ epc' = [epc EXCEPT ![e] = where]
    /\ edraft' = [edraft EXCEPT ![e] = IF where = "idle" THEN 0 ELSE d]
UnchangedByEditor == UNCHANGED <<task, mail, afterVars, cronVars, posts, hookVars, stopVars, campaign, lost>>

Ask(e, d) ==
    /\ epc[e] = "idle"
    /\ \/ /\ draft[d] # "none" /\ Happens("approve")
          /\ \E where \in {"approve", "telegram", "ask"} : EditorAt(e, where, d)
       \/ /\ draft[d] # "none" /\ Happens("edit")
          /\ EditorAt(e, "edit", d)
       \/ /\ d = 0 /\ Happens("compose")
          /\ EditorAt(e, "policy", d)
    /\ UnchangedByEditor /\ UNCHANGED <<draft, step, item, edited, reopened>>

AskEditorPolicy(e) ==
    /\ epc[e] \in {"policy", "askNew", "telegram", "ask"}
    /\ EditorAt(e, CASE epc[e] = "policy" /\ CanDraftEmail -> "create"
                     [] epc[e] = "askNew" /\ CanQueueSend -> "queueNew"
                     [] epc[e] = "telegram" /\ CanQueueSend -> "mark"
                     [] epc[e] = "ask" /\ CanQueueSend -> "queue"
                     [] OTHER -> "idle", edraft[e])
    /\ UnchangedByEditor /\ UNCHANGED <<draft, step, item, edited, reopened, events>>

Compose(e, d) ==
    /\ epc[e] = "create"
    /\ NewDraft(d, 0)
    /\ EditorAt(e, "askNew", d)
    /\ UnchangedByEditor /\ UNCHANGED events

(* createVersion writes the version before the draft. *)
NewVersion(e) ==
    /\ epc[e] = "edit"
    /\ edited' = edited \cup {edraft[e]}
    /\ EditorAt(e, "rewrite", edraft[e])
    /\ UnchangedByEditor /\ UNCHANGED <<draft, step, item, reopened, events>>

(* The update is by id: approved, edited, drafted are open statuses.       *)
Reopen(e) ==
    /\ epc[e] \in {"approve", "mark", "rewrite"}
    /\ draft' = [draft EXCEPT ![edraft[e]] = "approved"]
    /\ reopened' = IF Open(edraft[e]) THEN reopened ELSE reopened \cup {edraft[e]}
    /\ EditorAt(e, CASE epc[e] = "approve" -> "ask" [] epc[e] = "mark" -> "queue"
                     [] OTHER -> "idle", edraft[e])
    /\ UnchangedByEditor /\ UNCHANGED <<step, item, edited, events>>

(* The upsert puts any row back to pending, though not out of the hands of *)
(* the sender that holds its lease; the create needs that there is none.   *)
EditorQueues(e) ==
    /\ epc[e] \in {"queue", "queueNew"}
    /\ LET old == item[edraft[e]] IN
       IF old = "none" \/ (epc[e] = "queue" /\ old # "cleared")
       THEN item' = [item EXCEPT ![edraft[e]] = "waiting"] ELSE UNCHANGED item
    /\ EditorAt(e, "idle", 0)
    /\ UnchangedByEditor /\ UNCHANGED <<draft, step, edited, reopened, events>>

EditorDies(e) ==
    /\ epc[e] # "idle" /\ Happens("crash")
    /\ EditorAt(e, "idle", 0)
    /\ UnchangedByEditor /\ UNCHANGED <<draft, step, item, edited, reopened>>

EditorStep(e) ==
    \/ AskEditorPolicy(e) \/ NewVersion(e) \/ Reopen(e) \/ EditorQueues(e)
    \/ \E d \in Draft : Compose(e, d)

StopStep == StopTasks \/ StopQueue \/ Suppress

Environment ==
    \/ \E c \in Cron : CronDies(c)
    \/ \E h \in Hook : HookFails(h) \/ HookDies(h)
    \/ \E n \in Step : LoseJob(n) \/ Skip(n)
    \/ \E d \in Draft : SenderDies(d) \/ Reject(d)
    \/ \E kind \in {"human", "unsubscribe"} : Reply(kind)
    \/ \E e \in Editor : EditorDies(e) \/ \E d \in Draft : Ask(e, d)
    \/ StopDies \/ SetCampaign \/ RemoveLead

Next ==
    \/ \E c \in Cron : CronStep(c)
    \/ \E h \in Hook : HookStep(h)
    \/ \E d \in Draft : SendStep(d)
    \/ \E e \in Editor : EditorStep(e)
    \/ StopStep
    \/ Environment

Spec == Init /\ [][Next]_vars

(* GET /api/cron comes every 15 minutes where a campaign is active; a run  *)
(* that has begun goes on, the worker makes its requests, senders and      *)
(* handlers go on.                                                         *)
Fairness ==
    /\ \A c \in Cron : WF_vars(CronStep(c) /\ (pc[c] = "idle" => campaign = "active"))
    /\ \A h \in Hook : WF_vars(HookStep(h))
    /\ \A d \in Draft : WF_vars(SendStep(d))
    /\ WF_vars(StopStep)

FairSpec == Spec /\ Fairness

-----------------------------------------------------------------------------
(* Properties                                                              *)

(* Steps are scheduled in order: whatever is counted, skipped, cancelled,  *)
(* revived or dispatched twice, a task exists only with all tasks before.  *)
NoGaps == \A n \in Step : \A m \in Step : m < n /\ task[n] # "none" => task[m] # "none"

(* A follow-up is scheduled only once there is a draft for each step       *)
(* before, so the sequence never skips a message.                          *)
StepsInOrder ==
    \A n \in Step : task[n] # "none" =>
        \A m \in 0..(n - 1) : \E d \in Draft : draft[d] # "none" /\ step[d] = m

Working(n) ==
    \/ posts[n] > 0
    \/ \E h \in Hook : hpc[h] # "idle" /\ hstep[h] = n
    \/ \E c \in Cron : pc[c] \in {"remark", "post", "revert"} /\ at[c] = n

(* A task in processing blocks the sequence, so somebody is always about   *)
(* to take it out of that status: a cron before its answer, the worker, or *)
(* a webhook request; only a lost job or a crash leaves it there.          *)
ProcessingIsOwned ==
    \A n \in Step : task[n] = "processing" => Working(n) \/ n \in lost

(* canDraftEmail is asked before the draft is created: requests that       *)
(* overlap may leave several open drafts, but never more than overlap.     *)
(* Approving or editing asks nobody, so a draft that a user opens again    *)
(* after it was rejected or sent comes on top.                             *)
OpenDraftsBounded ==
    Cardinality({d \in Draft : Open(d)} \ reopened) <= Cardinality(Hook \cup Editor)

(* The limit of the campaign, and the first e-mail, bound what the lead    *)
(* gets, even with tasks dispatched twice, events delivered twice, and     *)
(* drafts approved again: only drafts that overlapping requests queued     *)
(* together go beyond, by less than overlap, because canSendNow counts the *)
(* attempts itself.                                                        *)
EmailsBounded ==
    Cardinality(Attempted \cup Cleared) <= MaxFollowUps + Cardinality(Hook \cup Editor)

(* A reply ends the sequence for good: a cron, a sender or a request that  *)
(* was under way may revive what the reply cancelled, but not for ever;    *)
(* only a lost task stays in processing, and none scheduled unless the     *)
(* campaign is paused, so that no cron looks.                              *)
ReplySettles ==
    reply # "none" ~> []\A n \in Step :
        /\ task[n] = "processing" => n \in lost
        /\ task[n] = "scheduled" => campaign = "paused"

(* "Database constraints enforce critical idempotency: [..] follow-up      *)
(* steps" (docs/05-database-schema.md:5): a step is e-mailed once.         *)
StepOnce ==
    \A d, e \in Draft : item[d] = "sent" /\ item[e] = "sent" /\ step[d] = step[e] => d = e

=============================================================================
