----------------------------- MODULE SendQueue -----------------------------
(***************************************************************************)
(* The e-mail send queue: SendQueueService.processQueue run by any number  *)
(* of concurrent senders (the two cron routes, POST /api/send, approve-all *)
(* and the fire-and-forget call of DraftService.createDraft), over the     *)
(* rows SendQueue and SentEmail, with everything that changes those rows   *)
(* meanwhile: approvals, suppressions, replies, removals from a campaign,  *)
(* campaign changes, Gmail disconnects, failing statements, crashes, time. *)
(*                                                                         *)
(* One action is one database statement or transaction or one call of      *)
(* Gmail; only a read with its relations and the reads of canQueueSend are *)
(* taken together.  SendQueue.draftId is unique, so an item stands for a   *)
(* draft and for its queue row.                                            *)
(***************************************************************************)
EXTENDS Integers, FiniteSets

CONSTANTS
    Item,            \* drafts, each with at most one queue row
    NoItem,          \* what a sender between two items works on
    Lead,
    Campaign,
    NoCampaign,      \* the campaign of a draft without campaignId
    Sender,          \* concurrent invocations of processQueue
    LeadOf,          \* draft.leadId
    CampaignOf,      \* draft.campaignId
    Membership,      \* the CampaignLead rows to begin with
    AutoFollowUp,    \* campaigns with autoFollowUp set
    FollowUp,        \* drafts whose latest version has a followupNumber
    DailySendLimit,  \* WorkspaceSetting.dailySendLimit
    MaxFollowUps,    \* Campaign.maxFollowUps
    Quotas           \* bounds: how often each environment event may happen, one per behaviour

Event == {"crash", "error", "approve", "suppress", "restore", "reply",
          "campaign", "remove", "delete", "gmail", "day"}

ASSUME SendQueueAssumption ==
    /\ IsFiniteSet(Item) /\ NoItem \notin Item
    /\ IsFiniteSet(Sender)
    /\ NoCampaign \notin Campaign
    /\ LeadOf \in [Item -> Lead]
    /\ CampaignOf \in [Item -> Campaign \cup {NoCampaign}]
    /\ Membership \subseteq Lead \X Campaign
    /\ AutoFollowUp \subseteq Campaign
    /\ FollowUp \subseteq Item
    /\ DailySendLimit \in Nat /\ MaxFollowUps \in Nat
    /\ Quotas \subseteq [Event -> Nat]

VARIABLES
    queue,       \* SendQueue.status; "none": no row yet, "deleted": draft deleted
    lease,       \* SendQueue.leaseExpiresAt: null, in the future, in the past
    sentEmail,   \* SentEmail.deliveryStatus of the item; "none": no row
    sentAt,      \* SentEmail.sentAt: today, in the last 24 hours, older
    leadStatus,  \* Lead.status, "open" for every value that blocks nothing
    reply,       \* classification of the lead's latest Reply
    suppressed,  \* leads an active SuppressionEntry matches
    member,      \* CampaignLead rows
    campaign,    \* Campaign.status
    connected,   \* there is a GoogleConnection
    handlers,    \* handlers between two of their statements
    pc,          \* where each sender is in processQueue
    work,        \* the item it works on
    batch,       \* the candidates it read and has not reached
    calls,       \* history: calls of Gmail made for the item
    delivered,   \* history: items Gmail accepted
    quota        \* environment events left

senderVars == <<pc, work, batch>>
itemVars == <<queue, lease, sentEmail, sentAt>>
leadVars == <<leadStatus, reply, suppressed>>
settingVars == <<member, campaign, connected>>
mailVars == <<calls, delivered>>
vars == <<itemVars, leadVars, settingVars, handlers, senderVars, mailVars, quota>>

QueueStatus == {"none", "pending", "checking_rules", "queued", "sending",
                "sent", "blocked", "failed", "cancelled", "deleted"}
Waiting == {"pending", "queued", "checking_rules"}
Unsent == Waiting \cup {"sending"}
Classification == {"other", "bounce", "unsubscribe"}
Handler ==
    ({"upsert"} \X Item) \cup ({"suppress", "cancelSuppressed"} \X Lead)
        \cup ({"cancelReplied", "classify"} \X Lead \X Classification)
        \cup {<<"disconnect">>}

OutsideItem == {"idle", "init", "noGmail", "list", "claim"}
Checks == {"checkLead", "checkSuppression", "checkCampaign", "checkLimit", "checkGmail"}
InTry == Checks \cup {"block", "find", "settleSent", "settleBlocked", "queue", "reserve",
                     "mark", "call", "commit", "after"}
InCatch == {"unknown", "fail"}

TypeOK ==
    /\ queue \in [Item -> QueueStatus]
    /\ lease \in [Item -> {"none", "live", "expired"}]
    /\ sentEmail \in [Item -> {"none", "sending", "sent", "unknown"}]
    /\ sentAt \in [Item -> {"never", "today", "recent", "old"}]
    /\ leadStatus \in [Lead -> {"open", "bounced", "blocked", "unsubscribed"}]
    /\ reply \in [Lead -> {"none"} \cup Classification]
    /\ suppressed \subseteq Lead
    /\ member \subseteq Lead \X Campaign
    /\ campaign \in [Campaign -> {"active", "paused", "deleted"}]
    /\ connected \in BOOLEAN
    /\ handlers \subseteq Handler
    /\ pc \in [Sender -> OutsideItem \cup InTry \cup InCatch]
    /\ work \in [Sender -> Item \cup {NoItem}]
    /\ \A s \in Sender : pc[s] \in OutsideItem <=> work[s] = NoItem
    /\ batch \in [Sender -> SUBSET Item]
    /\ calls \in [Item -> Nat]
    /\ delivered \subseteq Item
    /\ quota \in [Event -> Nat]

(* Drafts exist, some of them queued; canQueueSend lets one item of a lead *)
(* be queued at a time.                                                    *)
Init ==
    /\ queue \in [Item -> {"none", "pending"}]
    /\ \A i, j \in Item : i # j /\ LeadOf[i] = LeadOf[j]
                            => "none" \in {queue[i], queue[j]}
    /\ lease = [i \in Item |-> "none"]
    /\ sentEmail = [i \in Item |-> "none"]
    /\ sentAt = [i \in Item |-> "never"]
    /\ leadStatus = [l \in Lead |-> "open"]
    /\ reply = [l \in Lead |-> "none"]
    /\ suppressed = {}
    /\ member = Membership
    /\ campaign = [c \in Campaign |-> "active"]
    /\ connected = TRUE
    /\ handlers = {}
    /\ pc = [s \in Sender |-> "idle"]
    /\ work = [s \in Sender |-> NoItem]
    /\ batch = [s \in Sender |-> {}]
    /\ calls = [i \in Item |-> 0]
    /\ delivered = {}
    /\ quota \in Quotas

Spend(e) == quota[e] > 0 /\ quota' = [quota EXCEPT ![e] = @ - 1]

(* updateMany on the rows of S whose status is in From. *)
SetStatus(S, From, status) ==
    queue' = [i \in Item |-> IF i \in S /\ queue[i] \in From THEN status ELSE queue[i]]

ItemsOfLead(l) == {i \in Item : LeadOf[i] = l}
ItemsOfCampaign(c) == {i \in Item : CampaignOf[i] = c}

Goto(s, where) == pc' = [pc EXCEPT ![s] = where]

-----------------------------------------------------------------------------
(* ContactPolicyService                                                    *)

\* settings?.dailySendLimit || 100: a limit of 0 counts as none given.
EffectiveLimit == IF DailySendLimit = 0 THEN 100 ELSE DailySendLimit

SentToday == {i \in Item : sentAt[i] = "today"}

RecentlySent(l) == \E i \in ItemsOfLead(l) : sentAt[i] \in {"today", "recent"}

ActiveElsewhere(i) ==
    \E c \in Campaign : c # CampaignOf[i] /\ <<LeadOf[i], c>> \in member
                            /\ campaign[c] = "active"

SentInCampaign(i) ==
    {j \in ItemsOfLead(LeadOf[i]) : CampaignOf[j] = CampaignOf[i] /\ sentEmail[j] # "none"}

CampaignActive(i) == CampaignOf[i] = NoCampaign \/ campaign[CampaignOf[i]] = "active"

(* canSendNow, what it decides from the lead read with its relations.      *)
LeadAllowsSend(i) ==
    LET l == LeadOf[i] IN
    /\ leadStatus[l] = "open"
    /\ reply[l] = "none"
    /\ i \in FollowUp \/ ~RecentlySent(l)
    /\ ~ActiveElsewhere(i)
    /\ CampaignOf[i] # NoCampaign => Cardinality(SentInCampaign(i)) <= MaxFollowUps

NotSuppressed_byStatus(i) == leadStatus[LeadOf[i]] # "unsubscribed"
NotSuppressed(i) == LeadOf[i] \notin suppressed

UnderDailyLimit_offByOne == Cardinality(SentToday) <= EffectiveLimit
UnderDailyLimit == Cardinality(SentToday) < EffectiveLimit

(* canQueueSend, its reads taken together: the handler may use the answer  *)
(* as late as it likes.                                                    *)
CanQueueSend(i) ==
    LET l == LeadOf[i] IN
    /\ leadStatus[l] = "open" /\ NotSuppressed(i) /\ reply[l] # "unsubscribe"
    /\ \A j \in ItemsOfLead(l) : queue[j] \notin Unsent
    /\ CampaignActive(i)

-----------------------------------------------------------------------------
(* SendQueueService.processQueue                                           *)

Lapsed(i) == queue[i] = "checking_rules" /\ lease[i] = "expired"

(* cleanupExpiredLeases, the first statement of a run. *)
Start(s) ==
    /\ pc[s] = "idle"
    /\ queue' = [i \in Item |-> IF Lapsed(i) THEN "pending" ELSE queue[i]]
    /\ lease' = [i \in Item |-> IF Lapsed(i) THEN "none" ELSE lease[i]]
    /\ Goto(s, "init")
    /\ UNCHANGED <<sentEmail, sentAt, leadVars, settingVars, handlers, work, batch,
                   mailVars, quota>>

OpenGmail(s) ==
    /\ pc[s] = "init"
    /\ Goto(s, IF connected THEN "list" ELSE "noGmail")
    /\ UNCHANGED <<itemVars, leadVars, settingVars, handlers, work, batch, mailVars, quota>>

(* Without a Gmail client every waiting item is blocked, whoever claimed it. *)
BlockWithoutGmail(s) ==
    /\ pc[s] = "noGmail"
    /\ SetStatus(Item, Waiting, "blocked")
    /\ Goto(s, "idle")
    /\ UNCHANGED <<lease, sentEmail, sentAt, leadVars, settingVars, handlers, work, batch,
                   mailVars, quota>>

Claimable_nullLease(i) == queue[i] \in Waiting /\ lease[i] = "none"
Claimable(i) == queue[i] \in Waiting /\ lease[i] # "live"

ListCandidates(s) ==
    /\ pc[s] = "list"
    /\ LET found == {i \in Item : Claimable(i)} IN
        /\ batch' = [batch EXCEPT ![s] = found]
        /\ Goto(s, IF found = {} THEN "idle" ELSE "claim")
    /\ UNCHANGED <<itemVars, leadVars, settingVars, handlers, work, mailVars, quota>>

(* The item is done: the next candidate, the next page or, when `remaining` *)
(* is used up, the end of the run.                                         *)
NextItem(s, rest) ==
    /\ work' = [work EXCEPT ![s] = NoItem]
    /\ \/ Goto(s, IF rest = {} THEN "list" ELSE "claim") /\ batch' = [batch EXCEPT ![s] = rest]
       \/ Goto(s, "idle") /\ batch' = [batch EXCEPT ![s] = {}]

Claim(s, i) ==
    /\ pc[s] = "claim" /\ i \in batch[s]
    /\ \/ /\ Claimable(i)
          /\ queue' = [queue EXCEPT ![i] = "checking_rules"]
          /\ lease' = [lease EXCEPT ![i] = "live"]
          /\ Goto(s, "checkLead")
          /\ work' = [work EXCEPT ![s] = i]
          /\ batch' = [batch EXCEPT ![s] = @ \ {i}]
       \/ /\ ~Claimable(i)
          /\ NextItem(s, batch[s] \ {i})
          /\ UNCHANGED <<queue, lease>>
    /\ UNCHANGED <<sentEmail, sentAt, leadVars, settingVars, handlers, mailVars, quota>>

(* One read of canSendNow and what it decides.                             *)
Check(s, at, allowed, next) ==
    /\ pc[s] = at
    /\ Goto(s, IF allowed THEN next ELSE "block")
    /\ UNCHANGED <<itemVars, leadVars, settingVars, handlers, work, batch, mailVars, quota>>

CheckLead(s) == Check(s, "checkLead", LeadAllowsSend(work[s]), "checkSuppression")
CheckSuppression(s) == Check(s, "checkSuppression", NotSuppressed(work[s]), "checkCampaign")
CheckCampaign(s) == Check(s, "checkCampaign", CampaignActive(work[s]), "checkLimit")
CheckLimit(s) == Check(s, "checkLimit", UnderDailyLimit, "checkGmail")
CheckGmail(s) == Check(s, "checkGmail", connected, "find")

Gone(i) == queue[i] = "deleted"

(* An update by id that ends the item: status, and the lease given back. *)
Finish(s, status) ==
    /\ ~Gone(work[s])
    /\ queue' = [queue EXCEPT ![work[s]] = status]
    /\ lease' = [lease EXCEPT ![work[s]] = "none"]
    /\ NextItem(s, batch[s])
    /\ UNCHANGED <<sentEmail, sentAt, leadVars, settingVars, handlers, mailVars, quota>>

BlockItem(s) == pc[s] = "block" /\ Finish(s, "blocked")

Attempted_sentOnly(i) == sentEmail[i] = "sent"
\* SentEmail.sendQueueId is unique: the item has its row.
Attempted(i) == sentEmail[i] # "none"

AttemptVerdict_trustful(i) == IF Attempted(i) THEN "settleSent" ELSE "queue"
AttemptVerdict(i) ==
    IF ~Attempted(i) THEN "queue"
    ELSE IF sentEmail[i] = "sent" THEN "settleSent" ELSE "settleBlocked"

FindAttempt(s) ==
    /\ pc[s] = "find"
    /\ Goto(s, AttemptVerdict(work[s]))
    /\ UNCHANGED <<itemVars, leadVars, settingVars, handlers, work, batch, mailVars, quota>>

Settle(s) ==
    \/ pc[s] = "settleSent" /\ Finish(s, "sent")
    \/ pc[s] = "settleBlocked" /\ Finish(s, "blocked")

(* update({ where: { id }, data: { status } }): whatever the status is now. *)
Overwrite(s, from, status, to) ==
    /\ pc[s] = from /\ ~Gone(work[s])
    /\ queue' = [queue EXCEPT ![work[s]] = status]
    /\ Goto(s, to)
    /\ UNCHANGED <<lease, sentEmail, sentAt, leadVars, settingVars, handlers, work, batch,
                   mailVars, quota>>

MarkQueued(s) == Overwrite(s, "queue", "queued", "reserve")

(* The delivery reservation; the unique key refuses a second one. *)
Reserve(s) ==
    /\ pc[s] = "reserve" /\ ~Gone(work[s])
    /\ IF Attempted(work[s])
       THEN /\ Goto(s, "unknown")
            /\ UNCHANGED <<sentEmail, sentAt>>
       ELSE /\ Goto(s, "mark")
            /\ sentEmail' = [sentEmail EXCEPT ![work[s]] = "sending"]
            /\ sentAt' = [sentAt EXCEPT ![work[s]] = "today"]
    /\ UNCHANGED <<queue, lease, leadVars, settingVars, handlers, work, batch, mailVars, quota>>

MarkSending(s) == Overwrite(s, "mark", "sending", "call")

(* Gmail accepts or not, and the answer arrives or not. *)
CallGmail(s) ==
    /\ pc[s] = "call"
    /\ calls' = [calls EXCEPT ![work[s]] = @ + 1]
    /\ \/ Goto(s, "commit") /\ delivered' = delivered \cup {work[s]}
       \/ Goto(s, "unknown") /\ delivered' \in {delivered, delivered \cup {work[s]}}
    /\ UNCHANGED <<itemVars, leadVars, settingVars, handlers, work, batch, quota>>

(* The transaction after a send; it sets the lead's status too, to         *)
(* sent_in_campaign or sent.                                               *)
Commit(s) ==
    LET i == work[s] IN
    /\ pc[s] = "commit" /\ ~Gone(i)
    /\ sentEmail' = [sentEmail EXCEPT ![i] = "sent"]
    /\ sentAt' = [sentAt EXCEPT ![i] = "today"]
    /\ queue' = [queue EXCEPT ![i] = "sent"]
    /\ lease' = [lease EXCEPT ![i] = "none"]
    /\ leadStatus' = [leadStatus EXCEPT ![LeadOf[i]] = "open"]
    /\ Goto(s, "after")
    /\ UNCHANGED <<reply, suppressed, settingVars, handlers, work, batch, mailVars, quota>>

(* The audit row and the next follow-up (scheduleNextFollowUp). *)
AfterSend(s) ==
    /\ pc[s] = "after"
    /\ NextItem(s, batch[s])
    /\ UNCHANGED <<itemVars, leadVars, settingVars, handlers, mailVars, quota>>

RowSteps == {"block", "settleSent", "settleBlocked", "queue", "reserve", "mark", "commit"}

Throw(s) ==
    /\ Goto(s, "unknown")
    /\ UNCHANGED <<itemVars, leadVars, settingVars, handlers, work, batch, mailVars>>

(* An update by id throws when the row was deleted meanwhile. *)
RowGone(s) == pc[s] \in RowSteps /\ Gone(work[s]) /\ Throw(s) /\ UNCHANGED quota

(* Any statement of the try block may fail. *)
StatementFails(s) == pc[s] \in InTry \ {"call"} /\ Spend("error") /\ Throw(s)

Doubted_release(status) == IF status = "sending" THEN "none" ELSE status
Doubted_anyStatus(status) == "unknown"
(* The catch block: updateMany where deliveryStatus is "sending".          *)
Doubted(status) == IF status = "sending" THEN "unknown" ELSE status

MarkUnknown(s) ==
    /\ pc[s] = "unknown"
    /\ sentEmail' = [sentEmail EXCEPT ![work[s]] = Doubted(@)]
    /\ Goto(s, "fail")
    /\ UNCHANGED <<queue, lease, sentAt, leadVars, settingVars, handlers, work, batch,
                   mailVars, quota>>

(* The run is over: it threw outside the try block, or the process died. *)
EndRun(s) ==
    /\ Goto(s, "idle")
    /\ work' = [work EXCEPT ![s] = NoItem]
    /\ batch' = [batch EXCEPT ![s] = {}]
    /\ UNCHANGED <<itemVars, leadVars, settingVars, handlers, mailVars>>

MarkFailed(s) ==
    /\ pc[s] = "fail"
    /\ \/ Finish(s, "failed")
       \/ Gone(work[s]) /\ EndRun(s) /\ UNCHANGED quota

Crash(s) == pc[s] # "idle" /\ Spend("crash") /\ EndRun(s)

SenderStep(s) ==
    \/ Start(s) \/ OpenGmail(s) \/ BlockWithoutGmail(s) \/ ListCandidates(s)
    \/ \E i \in Item : Claim(s, i)
    \/ CheckLead(s) \/ CheckSuppression(s) \/ CheckCampaign(s) \/ CheckLimit(s)
    \/ CheckGmail(s) \/ BlockItem(s) \/ FindAttempt(s) \/ Settle(s)
    \/ MarkQueued(s) \/ Reserve(s) \/ MarkSending(s) \/ CallGmail(s) \/ Commit(s)
    \/ AfterSend(s) \/ RowGone(s) \/ MarkUnknown(s) \/ MarkFailed(s)

-----------------------------------------------------------------------------
(* The handlers around the queue                                           *)

(* send, drafts/approve, approve-all and Telegram's approve_draft: the     *)
(* check, and later the upsert.                                            *)
Approve(i) ==
    /\ Spend("approve")
    /\ ~Gone(i) /\ CanQueueSend(i)
    /\ handlers' = handlers \cup {<<"upsert", i>>}
    /\ UNCHANGED <<itemVars, leadVars, settingVars, senderVars, mailVars>>

UpsertStatus(i) == IF Gone(i) THEN "deleted" ELSE "pending"
(* A row that exists keeps its lease; without the draft the create fails.  *)
Upsert(i) ==
    /\ <<"upsert", i>> \in handlers
    /\ handlers' = handlers \ {<<"upsert", i>>}
    /\ queue' = [queue EXCEPT ![i] = UpsertStatus(i)]
    /\ UNCHANGED <<lease, sentEmail, sentAt, leadVars, settingVars, senderVars, mailVars, quota>>

(* unsubscribe and suppression-list go straight to SuppressionService.add, *)
(* leads/block sets the lead's status first.                               *)
Unsubscribe(l) ==
    /\ Spend("suppress")
    /\ handlers' = handlers \cup {<<"suppress", l>>}
    /\ leadStatus' \in {leadStatus, [leadStatus EXCEPT ![l] = "blocked"]}
    /\ UNCHANGED <<itemVars, reply, suppressed, settingVars, senderVars, mailVars>>

AddSuppression(l) ==
    /\ <<"suppress", l>> \in handlers
    /\ handlers' = (handlers \ {<<"suppress", l>>}) \cup {<<"cancelSuppressed", l>>}
    /\ suppressed' = suppressed \cup {l}
    /\ UNCHANGED <<itemVars, leadStatus, reply, settingVars, senderVars, mailVars, quota>>

(* The transaction of SuppressionService.add; leases stay.                 *)
CancelSuppressed(l) ==
    /\ <<"cancelSuppressed", l>> \in handlers
    /\ handlers' = handlers \ {<<"cancelSuppressed", l>>}
    /\ leadStatus' = [leadStatus EXCEPT ![l] = "unsubscribed"]
    /\ SetStatus(ItemsOfLead(l), Unsent, "cancelled")
    /\ UNCHANGED <<lease, sentEmail, sentAt, reply, suppressed, settingVars, senderVars,
                   mailVars, quota>>

RemoveSuppression(l) ==
    /\ Spend("restore")
    /\ suppressed' = suppressed \ {l}
    /\ UNCHANGED <<itemVars, leadStatus, reply, settingVars, handlers, senderVars, mailVars>>

(* ReplySyncService.ingestReply: the Reply row, then applyClassification   *)
(* statement by statement.                                                 *)
IngestReply(l, class) ==
    /\ Spend("reply")
    /\ reply' = [reply EXCEPT ![l] = class]
    /\ handlers' = handlers \cup {<<"cancelReplied", l, class>>}
    /\ UNCHANGED <<itemVars, leadStatus, suppressed, settingVars, senderVars, mailVars>>

CancelReplied(l, class) ==
    /\ <<"cancelReplied", l, class>> \in handlers
    /\ handlers' = (handlers \ {<<"cancelReplied", l, class>>}) \cup {<<"classify", l, class>>}
    /\ SetStatus(ItemsOfLead(l), Waiting, "cancelled")
    /\ UNCHANGED <<lease, sentEmail, sentAt, leadVars, settingVars, senderVars, mailVars, quota>>

Classify(l, class) ==
    /\ <<"classify", l, class>> \in handlers
    /\ LET rest == handlers \ {<<"classify", l, class>>} IN
        IF class = "unsubscribe"
        THEN handlers' = rest \cup {<<"suppress", l>>} /\ UNCHANGED leadStatus
        ELSE /\ handlers' = rest
             /\ leadStatus' = [leadStatus EXCEPT
                                  ![l] = IF class = "bounce" THEN "bounced" ELSE "open"]
    /\ UNCHANGED <<itemVars, reply, suppressed, settingVars, senderVars, mailVars, quota>>

(* PATCH campaigns/:id knows no order of statuses. *)
SetCampaign(c) ==
    /\ Spend("campaign")
    /\ campaign[c] # "deleted"
    /\ campaign' = [campaign EXCEPT ![c] = IF @ = "active" THEN "paused" ELSE "active"]
    /\ UNCHANGED <<itemVars, leadVars, member, connected, handlers, senderVars, mailVars>>

(* DELETE campaigns/:id/leads, one transaction. *)
RemoveLead(l, c) ==
    /\ Spend("remove")
    /\ <<l, c>> \in member
    /\ member' = member \ {<<l, c>>}
    /\ LET hit == {i \in ItemsOfLead(l) \cap ItemsOfCampaign(c) : queue[i] \in Unsent} IN
        /\ SetStatus(hit, Unsent, "cancelled")
        /\ lease' = [i \in Item |-> IF i \in hit THEN "none" ELSE lease[i]]
    /\ UNCHANGED <<sentEmail, sentAt, leadVars, campaign, connected, handlers, senderVars,
                   mailVars>>

(* DELETE campaigns/:id, one transaction: queue rows and SentEmail rows go *)
(* with their drafts.                                                      *)
DeleteCampaign(c) ==
    LET gone == ItemsOfCampaign(c) IN
    /\ Spend("delete")
    /\ campaign[c] # "deleted"
    /\ campaign' = [campaign EXCEPT ![c] = "deleted"]
    /\ member' = {m \in member : m[2] # c}
    /\ queue' = [i \in Item |-> IF i \in gone THEN "deleted" ELSE queue[i]]
    /\ lease' = [i \in Item |-> IF i \in gone THEN "none" ELSE lease[i]]
    /\ sentEmail' = [i \in Item |-> IF i \in gone THEN "none" ELSE sentEmail[i]]
    /\ sentAt' = [i \in Item |-> IF i \in gone THEN "never" ELSE sentAt[i]]
    /\ UNCHANGED <<leadVars, connected, handlers, senderVars, mailVars>>

(* google/disconnect, two statements; google/callback stores a connection. *)
Disconnect ==
    /\ Spend("gmail")
    /\ connected' = FALSE
    /\ handlers' = handlers \cup {<<"disconnect">>}
    /\ UNCHANGED <<itemVars, leadVars, member, campaign, senderVars, mailVars>>

BlockDisconnected ==
    /\ <<"disconnect">> \in handlers
    /\ handlers' = handlers \ {<<"disconnect">>}
    /\ SetStatus(Item, Waiting, "blocked")
    /\ UNCHANGED <<lease, sentEmail, sentAt, leadVars, settingVars, senderVars, mailVars, quota>>

ConnectGmail ==
    /\ Spend("gmail")
    /\ connected' = TRUE
    /\ UNCHANGED <<itemVars, leadVars, member, campaign, handlers, senderVars, mailVars>>

HandlerDies(h) ==
    /\ Spend("crash")
    /\ handlers' = handlers \ {h}
    /\ UNCHANGED <<itemVars, leadVars, settingVars, senderVars, mailVars>>

(* Two minutes after the claim. *)
LeaseExpires(i) ==
    /\ lease[i] = "live"
    /\ lease' = [lease EXCEPT ![i] = "expired"]
    /\ UNCHANGED <<queue, sentEmail, sentAt, leadVars, settingVars, handlers, senderVars,
                   mailVars, quota>>

Midnight ==
    /\ Spend("day")
    /\ sentAt' = [i \in Item |-> IF sentAt[i] = "today" THEN "recent" ELSE sentAt[i]]
    /\ UNCHANGED <<queue, lease, sentEmail, leadVars, settingVars, handlers, senderVars, mailVars>>

(* 24 hours after the send. *)
DayPasses(i) ==
    /\ sentAt[i] = "recent"
    /\ sentAt' = [sentAt EXCEPT ![i] = "old"]
    /\ UNCHANGED <<queue, lease, sentEmail, leadVars, settingVars, handlers, senderVars,
                   mailVars, quota>>

HandlerStep ==
    \/ \E i \in Item : Upsert(i)
    \/ \E l \in Lead : AddSuppression(l) \/ CancelSuppressed(l)
    \/ \E l \in Lead, class \in Classification : CancelReplied(l, class) \/ Classify(l, class)
    \/ BlockDisconnected

Environment ==
    \/ \E s \in Sender : StatementFails(s) \/ Crash(s)
    \/ \E h \in handlers : HandlerDies(h)
    \/ \E i \in Item : Approve(i) \/ LeaseExpires(i) \/ DayPasses(i)
    \/ \E l \in Lead : Unsubscribe(l) \/ RemoveSuppression(l)
    \/ \E l \in Lead, class \in Classification : IngestReply(l, class)
    \/ \E c \in Campaign : SetCampaign(c) \/ DeleteCampaign(c)
    \/ \E l \in Lead, c \in Campaign : RemoveLead(l, c)
    \/ Disconnect \/ ConnectGmail \/ Midnight

Next == (\E s \in Sender : SenderStep(s)) \/ HandlerStep \/ Environment

Spec == Init /\ [][Next]_vars

(* Who calls processQueue without being asked: POST /api/send/cron, for a  *)
(* workspace with a pending or queued item, and GET /api/cron, for one     *)
(* with an active campaign that follows up.                                *)
CronCalls ==
    \/ \E i \in Item : queue[i] \in {"pending", "queued"}
    \/ \E c \in AutoFollowUp : campaign[c] = "active"

(* The crons call, a run that has not died goes on, a handler finishes and *)
(* two minutes pass.  Nobody is obliged to approve, to reply or to fail.   *)
Fairness ==
    /\ \A s \in Sender : WF_vars(SenderStep(s) /\ (pc[s] = "idle" => CronCalls))
    /\ \A i \in Item : WF_vars(LeaseExpires(i))
    /\ WF_vars(HandlerStep)

FairSpec == Spec /\ Fairness

-----------------------------------------------------------------------------
(* Properties                                                              *)

(* Senders that hold the item's reservation and have not called Gmail.     *)
Holding(i) == {s \in Sender : pc[s] \in {"mark", "call"} /\ work[s] = i}

(* Senders past the suppression check that may still call Gmail.           *)
PastSuppression ==
    {"checkCampaign", "checkLimit", "checkGmail", "find", "queue", "reserve", "mark", "call"}
Cleared(i) == {s \in Sender : pc[s] \in PastSuppression /\ work[s] = i}

(* At most one e-mail per item: however leases expire, senders overlap,    *)
(* crash and are retried, and items are re-queued, Gmail is called at most *)
(* once for an item (the unique sendQueueId of SentEmail is what holds).   *)
AtMostOneCall == \A i \in Item : calls[i] <= 1

(* Two senders never work between reservation and Gmail call on one item,  *)
(* though an expired lease lets both pass the checks.                      *)
ExclusiveSend == \A i \in Item : \A s, t \in Holding(i) : s = t

(* No call without a trace: once Gmail was called there is a SentEmail row *)
(* until the draft is deleted, so no retry can take the item for new.      *)
EvidenceOfCall == \A i \in Item : calls[i] > 0 => Attempted(i) \/ Gone(i)

(* What the rows say is true: "sent", in SentEmail or in the queue, only   *)
(* of an e-mail Gmail accepted, even when a second sender settles it.      *)
SentIsTruthful ==
    \A i \in Item : "sent" \in {sentEmail[i], queue[i]} => i \in delivered

(* A sender between the reservation and the call is the first to call      *)
(* Gmail for the item, and a row says so already.                          *)
HolderIsFirst ==
    \A i \in Item : Holding(i) # {} => calls[i] = 0 /\ (Attempted(i) \/ Gone(i))

(* A sender about to record "sent" knows that Gmail accepted the e-mail.   *)
RecorderKnows ==
    \A s \in Sender : pc[s] \in {"commit", "settleSent"} => work[s] \in delivered

(* The inductive invariant behind the four properties of one delivery.     *)
DeliveryInv ==
    /\ HolderIsFirst /\ RecorderKnows
    /\ AtMostOneCall /\ ExclusiveSend /\ EvidenceOfCall /\ SentIsTruthful

(* A SentEmail row that says "sent" is never changed by the catch block of *)
(* a competing sender or by a later run; only deleting the draft ends it.  *)
SentIsFinal ==
    [][\A i \in Item : sentEmail[i] = "sent" => sentEmail'[i] = "sent" \/ queue'[i] = "deleted"]_vars

(* From a state in which the lead is on the suppression list and no sender *)
(* is past that check for the item, no step calls Gmail or brings a sender *)
(* past it while the entry stays, whatever re-queues the item.             *)
SuppressionHolds ==
    [][\A i \in Item :
         LeadOf[i] \in suppressed /\ LeadOf[i] \in suppressed' /\ Cleared(i) = {}
           => Cleared(i)' = {} /\ calls'[i] = calls[i]]_vars

(* The daily limit is read before the reservation is written: concurrent   *)
(* senders can exceed it, but by no more than their number less one.       *)
DailyOvershoot ==
    Cardinality(SentToday) <= EffectiveLimit + Cardinality(Sender) - 1

(* "Unsubscribes and suppression entries are hard stops; queued sends [..] *)
(* are cancelled immediately" (README.md:52): once SuppressionService.add  *)
(* has cancelled the lead's items, none of them is e-mailed while the lead *)
(* stays suppressed.                                                       *)
HardStop ==
    [][\A i \in Item :
         LeadOf[i] \in suppressed /\ leadStatus[LeadOf[i]] = "unsubscribed"
           => calls'[i] = calls[i]]_vars

Decided == \A i \in Item : queue[i] \in Waiting ~> queue[i] \notin Waiting

(* While GET /api/cron goes on calling, a due item does not wait for ever, *)
(* whatever crashes: it is sent, blocked, failed or cancelled, or a sender *)
(* has taken it to the Gmail call.                                         *)
DueIsDecided == <>[](\E c \in AutoFollowUp : campaign[c] = "active") => Decided

(* "items are already queued and will be processed by cron"                *)
(* (approve-all/route.ts:69), which is to hold in every workspace.         *)
CronDecides == Decided

Record(i) == IF Gone(i) THEN "deleted" ELSE sentEmail[i]
Mail(i) ==
    IF i \in delivered THEN "accepted"
    ELSE IF calls[i] > 0 THEN "lost"
    ELSE IF Attempted(i) \/ Holding(i) # {} THEN "permitted"
    ELSE "idle"

Abstract == INSTANCE Delivery WITH record <- [i \in Item |-> Record(i)],
                                   mail <- [i \in Item |-> Mail(i)]

(* The queue implements Delivery: a reservation, then at most one attempt, *)
(* then a record that never claims more than what happened.                *)
ImplementsDelivery == Abstract!Spec

=============================================================================
