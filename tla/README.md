# A verification development for agentic outreach

TLA+ models of the outreach system in `src/`, checked with TLC and, where a
property should hold for every value of the constants, proved with TLAPS.

## The system

A Next.js application (`apps/web`) stores leads, campaigns, drafts, queues and
jobs in PostgreSQL through Prisma. A Python worker (`apps/worker`) finds leads,
writes drafts and follow-ups, and reports by signed webhooks. Cron calls drive
sending, follow-ups and reply synchronisation; Telegram and the web pages issue
commands. All shared state is in the database, there are no row locks, and few
operations are transactions: what a route reads may have changed when it writes.

| Component | State | Operations | Talks to | Correct when |
|---|---|---|---|---|
| Send queue (`SendQueueService`, `send`, `send/cron`, `cron`) | `SendQueue`, `SentEmail` | claim with a lease, policy check, reservation, Gmail call, record, failure | contact policy, Gmail, follow-ups | at most one e-mail per item, records are true, nothing waits for ever |
| Contact policy (`ContactPolicyService`) | reads lead, campaign, suppression, counts | `canSendNow`, `canQueueSend`, `canDraftEmail`, `canScheduleFollowUp`, `canAddToCampaign` | everybody who writes queue or tasks | no e-mail to a lead that must not get one, limits hold |
| Suppression and replies (`SuppressionService`, `ReplySyncService`) | `SuppressionEntry`, `Reply`, lead status | add, remove, ingest, classify | cancels queue items and tasks | a stop is a stop |
| Drafts and approvals (`DraftService`, `drafts/*`, `approve-all`, Telegram) | `EmailDraft` and versions | create, version, rewrite, approve, cancel | queue | one draft is queued once |
| Follow-up tasks (`FollowUpService`) | `FollowUpTask` | schedule after a send, dispatch, complete, revert, skip | worker, drafts, queue | each step once and in order, none after a stop |
| Jobs (`JobService`, `webhooks/worker`) | `Job`, `JobStep` | create, start, events, cancel, sweep of stale jobs | worker | cancellations are honoured, ends are shown |
| Worker (`command_workflow`, `main`) | one workflow per job | run, ask for cancellation, report, retry | webhooks | every job reaches an end |
| Render limiter, browser pool | counters in Redis or in memory, contexts | lease, release | discovery | never more renders than allowed, no lost place |
| Discovery pipeline | quota, budgets, source health, caches | plan, search, crawl, extract, save | limiter, webhooks | stops at quota, budget or cancellation |
| Lead storage (`DedupeService`, `lead_found`, import) | `Lead`, `LeadSource` | find duplicate, create, merge, edit, delete | pipeline, leads page | one business, one lead; what is found is stored |
| Campaigns (`campaigns/*`, their pages, templates in `CampaignMemory`) | `Campaign`, `CampaignLead`, templates | create, analyse, add, remove, activate, pause, delete | drafting jobs, queue | every lead of an active campaign is drafted, one open draft each; the page shows what is stored |
| Chat (`ChatShell`, `chat/*`, sidebar) | `ChatSession`, `ChatMessage`, `UserCommand` | open, say, command, poll, rename, delete | jobs | one job at work, progress is of the session shown |
| Sign-in (`auth/*`, onboarding, seed script) | users, memberships, workspaces in two databases | log in, invite, accept, onboard | everything | an account is whole or refused |
| Pages (leads, replies, campaign, wizard, sidebar, chat) | React state, requests under way | load, change, poll | routes | what is shown settles to what is stored |
| Google connection, tenants, rate limit, Telegram, memory, notifications, sheets | mostly one row per request | | | |

`PROJECT.json` lists every component with its sources and status, and under
`hazards` what is hard to test in this code, at the line where it bites, with
the property that would catch it.

## Modules

| Module | What it is |
|---|---|
| `SendQueue` | the send queue, its senders and everything that writes its rows |
| `Delivery` | what the queue promises about one e-mail, as an abstract specification |
| `MCSendQueue` | values of the constants for TLC; `sq_*.cfg` are the runs |
| `SendQueueProofs` | type correctness, the inductive invariant and the theorems; that the queue implements `Delivery`; by how much the daily limit can be exceeded |
| `FollowUps` | the follow-up sequence of one lead in one campaign |
| `MCFollowUps` | values of its constants for TLC; `fu_*.cfg` are the runs |
| `FollowUpsProofs` | its theorems |
| `JobLifecycle` | the status of one job, the worker's run of it and what they tell each other |
| `MCJobLifecycle` | values of its constants for TLC; `jl_*.cfg` are the runs |
| `RenderLimiter` | the semaphores in Redis, the processes that use them and the crawl that asks for pages and leases |
| `LeadDiscovery` | one run of the discovery pipeline |
| `ChatConsole` | a chat page, the command route and the jobs they launch and watch |
| `MCParts` | `RenderLimiter`, `LeadDiscovery`, `ChatConsole` and `JobLifecycle`, for the run `parts` |
| `PartsProofs` | the theorems of these four, and `PartsTypesCorrect` of `MCParts` |
| `LeadStore` | lead events, imports and what users do to leads, over the identities of `findDuplicate` |
| `CampaignDrafts` | campaigns, their drafting jobs, the `draft_created` webhook and the queue rows |
| `StoreProofs` | the theorems of `LeadStore`, `CampaignDrafts` and `CampaignWizard` |
| `Access` | accounts, memberships, workspaces and sessions |
| `LeadFile` | the leads page's export and import of a file, character by character |
| `CampaignWizard` | the wizard for a new campaign, the analysis and its templates |
| `CampaignPage` | the page of a campaign |
| `LeadList` | the list and groups of the leads page |
| `ReplyDesk` | the synchronisation of replies and the page that shows them |
| `TaskSidebar` | the sessions in the sidebar |
| `PageProofs` | the theorems of `Access`, `ReplyDesk` and `CampaignPage` |
| `FileProofs` | the theorems of `LeadFile` |
| `ListProofs` | lemmas on requests under way, and the theorems of `LeadList` |
| `SidebarProofs` | the theorems of `TaskSidebar` and of `MCPages` |
| `MCPages` | `LeadStore`, `CampaignDrafts`, `Access` and the six pages, for the run `pages` |

`SendQueue` and `FollowUps` describe one queue row and one sequence in detail;
`CampaignDrafts` has many leads and campaigns and takes a send as one step;
`JobLifecycle` has a job's status in detail, `ChatConsole`, `CampaignDrafts`,
`CampaignWizard` and `CampaignPage` what others see of it. `ReplyDesk` ends where
`SendQueue`'s `IngestReply` begins, `LeadFile` where `LeadStore`'s `ImportRow` does.

### SendQueue and the code

An *item* is a draft together with its queue row, which `SendQueue.draftId`
makes unique. A *sender* is one call of `processQueue`, of which any number run
at once: both cron routes, `POST /api/send`, `approve-all` and the call
`createDraft` does not wait for. `pc[s]` is the statement a sender comes to
next. One action is one statement, one transaction or one call of Gmail, because
between two awaits nothing else runs and across an await everything may.

| Code | Model |
|---|---|
| `cleanupExpiredLeases` | `Start` |
| `initializeForWorkspace` and its catch | `OpenGmail`, `BlockWithoutGmail` |
| the candidate query, the claim by `updateMany` | `ListCandidates`, `Claim` |
| `canSendNow`, one action per read | `CheckLead`, `CheckSuppression`, `CheckCampaign`, `CheckLimit`, `CheckGmail` |
| an earlier attempt and its settlement | `FindAttempt`, `Settle` |
| `queued`, the reservation, `sending` | `MarkQueued`, `Reserve`, `MarkSending` |
| `gmail.sendEmail` | `CallGmail` (three outcomes: accepted, refused, accepted without an answer) |
| the transaction after it | `Commit` |
| audit row and `scheduleNextFollowUp` | `AfterSend` |
| the catch block | `MarkUnknown`, `MarkFailed` |
| a row deleted meanwhile, a failing statement, a dead process | `RowGone`, `StatementFails`, `Crash` |
| approvals: the check, then the upsert | `Approve`, `Upsert` |
| `SuppressionService.add`: entry, then transaction | `Unsubscribe`, `AddSuppression`, `CancelSuppressed` |
| `ingestReply`, `applyClassification` | `IngestReply`, `CancelReplied`, `Classify` |
| campaign PATCH and DELETE, removal of a lead | `SetCampaign`, `DeleteCampaign`, `RemoveLead` |
| Gmail disconnected and connected | `Disconnect`, `BlockDisconnected`, `ConnectGmail` |
| two minutes, midnight, 24 hours | `LeaseExpires`, `Midnight`, `DayPasses` |

A handler with several statements leaves a record of the statement it comes to
next in `handlers`; it may die there (`HandlerDies`).

Left out: `leaseOwner`, `attempts` and `errorReason` (no decision reads them),
`idempotencyKey` (set and never read), the batch size of 100 and `remaining`
(instead, a run may stop after any item), when an item is due (it always is),
e-mail addresses (a lead has one), and Gmail's mock mode. A lead read with its
relations is one read here, though Prisma issues several queries for it; the
reads of `canQueueSend` are taken together, because its answer may be used
arbitrarily late anyway.

`calls` and `delivered` are history: what reached Gmail, whatever the rows say.

### Delivery

Each item has a record (none, sending, unknown, sent, deleted) and a fate of its
mail (idle, permitted, lost, accepted). A reservation permits one attempt;
the record may be concluded as sent only after Gmail accepted; doubt replaces
"sending" only. `ImplementsDelivery` maps the queue to it. Status and lease are
absent from it: the promise does not depend on them.

### FollowUps and the code

The sequence is a chain through four parts of the system that share rows and
nothing else: an e-mail schedules a task (`scheduleNextFollowUp`), a cron
dispatches it (`processDueTasks`), the worker writes a text and posts a
`draft_created` event (`command_workflow`), the webhook turns it into a draft and
a queue row (`handleDraftCreated`, `createDraft`), and the send queue e-mails it.
`task` is the status of the task of each step, `draft`, `step` and `item` what
became of the drafts; draft 0 is the first e-mail.

| Code | Model |
|---|---|
| `processDueTasks`: list, loop, policy | `List`, `NextTask`, `AskPolicy` |
| its updates by id | `SkipTask`, `Mark`, `Remark`, `Revert` |
| `fetch(WORKER_URL/run)` | `Post`: answered, or unclear, with or without a job |
| `_notify_webhook` and its repetition | `Receive`; `LoseJob` when every attempt fails |
| `createDraft` | `AskDraft`, `Create`, `AskQueue`, `Enqueue` |
| `handleDraftCreated`: end and catch block | `Complete`, `Release` |
| `canSendNow`, then the send | `Check`, `SendEmail` |
| `scheduleNextFollowUp`: policy, count, upsert | `Decide`, `Count`, `Schedule` |
| `ingestReply`, `applyClassification`, `SuppressionService.add` | `Reply`, `StopTasks`, `StopQueue`, `Suppress` |
| skip a task, pause a campaign, remove the lead, reject a draft | `Skip`, `SetCampaign`, `RemoveLead`, `Reject` |
| a user's request on a draft: `POST drafts`, `POST drafts/:id/approve`, Telegram's approve, `POST send`, `PATCH drafts/:id`, rewrite | `Ask` starts it; `AskEditorPolicy`, `Compose`, `NewVersion`, `Reopen`, `EditorQueues` |
| failures and deaths of each | `CronDies`, `HookFails`, `HookDies`, `SenderDies`, `EditorDies`, `StopDies` |

The requests of users are processes (`Editor`) that go through the statements in the
order of their route: the web approval writes the status, asks `canQueueSend`, upserts;
Telegram asks first; `POST send` writes no status; an edit writes a version, then the
status; a draft written by hand is `createDraft` again. None of them looks at the
draft's status, so a rejected, failed or sent draft is opened (`reopened` remembers
which) and queued again, beside the draft a webhook has made in its place.

That one item is e-mailed at most once, by one sender, is what `SendQueue` shows.
Here it is waiting, cleared by `canSendNow`, or decided; `mail` is its `SentEmail`
row, by which a check ends an item that was queued again after it was reserved; a cleared item whose
sender dies is waiting again, or stays in `sending`. Left out: `approve-all`, which looks
for a status nothing writes, when a task is due
(it always is), the workspace's daily limit, the Gmail connection and other
campaigns (all only block more, and `SendQueue` has them), the deletion of the
campaign, which takes all of the rows, and the contents of drafts. A policy call
is one read of the lead with its relations.

### JobLifecycle and the code

`status` is `Job.status`. Four parties write it by id and without a transaction:
the route that launches the job, the webhook, `requestCancellation` and
`failStaleJobs`. The worker reads it back in `is_job_cancelled`. `run` is where the
worker comes next, `sending` the event it is reporting; it goes no further until
`_notify_webhook` returns. A handler is an execution of the webhook: the one with
`id = now` is waited for, others are those the worker gave up on, and write when
they get to it.

| Code | Model |
|---|---|
| `createJob`, `startWorkerJob`, `updateJobStatus` in its catch | `CreateJob`, `StartWorkerJob`, `LaunchFailed` |
| `requestCancellation`: read, write | `CancelRead`, `CancelWrite` |
| `failStaleJobs`: list, write | `SweepList`, `SweepWrite` |
| `_notify_webhook`: post, time-out, end of its attempts | `Post`, `TimeOut`, `GiveUp` |
| the webhook's `switch` | `Handle`, `StatusAfter` |
| `is_job_cancelled`, with an error counting as no | `ReadsCancelled`, `ReadsNotCancelled` |
| `run_command_workflow` | `PickUp`, `FirstCheck`, `SecondCheck`, `DirectWork`, `Discovery`, `LastCheck`, `Raise` |
| RQ: failure callback, retry, killed process | `Callback`, `AfterFailure`, `Killed` |

The except block's `job_failed` carries no `workspace_id`, which the webhook
answers with 400 (`unscoped_failed`); only `report_rq_failure`, which adds it, fails
the job. A retry waits for RQ's scheduler, which neither `queue_worker.py` nor
`start_worker.sh` starts, so `AfterFailure` may retry or not. The work of a command is
one step: `Discovery` is the read of the status that decides how the pipeline's
loop ends. Jobs share no rows; a chat command cancels the active jobs of its
workspace one by one, as one more canceller of each. Left out: steps, progress,
logs and the command's status, which nothing reads; time, as nothing sends
heartbeats and the sweep's caller names the age.

### RenderLimiter and the code

`places[k]` is the counter of key `k` in Redis, `own` a process's `_local_counts`.
Each call of Redis is an action. `Holds` and `Trying` say which INCRs have not been
taken back; `spoiled` is history, the keys whose counter has lost a place in use.

| Code | Model |
|---|---|
| `_acquire`: INCR, DECR over the limit, the exception | `Take`, `Undo`, `TakeOwn` |
| `can_render_page`: two budgets, the first given back | `Take` in stage "page", `Refund` |
| `lease`: the chain, the release before the yield, the `finally` | `Take` in stage "take", `Release`, `ReleaseAgain` |
| `_release_many`: DECR, DELETE, the exception | `Decrement`, `Wipe`, `DecrementFails`, `WipeFails` |
| `crawl_domain`: homepage, links, end | `Begin`, `NextPage`, `Finish` |
| a killed process, the TTL of a counter | `Kill`, `Expire` |

### LeadDiscovery and the code

One action is a turn of the loop, a target, a query or a location. `found` is what
was saved, by its keys; what a search finds, a page shows and the language model
makes of it are constants. `cancelledAt` is how much had been saved when the job was
cancelled. Waiting between requests, the health of sources, snapshots and metrics
other than the count are left out. In the quality gate an address with an invalid
syntax, which skips the check of its MX record, is one more barred address.

### ChatConsole, TaskSidebar and the code

`ChatConsole` is `ChatShell.tsx` with `chat/command`: a browser tab shows one session,
every `useEffect` and `await` of it is a place where another answer may come in, and a
poll is in flight until it is answered. Command `c` launches job `c`, and the next may be
sent while the answer to one is still to come. The webhook's `job_started` asks for no
status: a job that `markLaunchFailed` or an earlier end has closed is at work again
(`StartJob`; `revived` is history), and an event posted twice counts as a fault. `TaskSidebar` is
`AppSidebar.tsx` with `chat/sessions` and `chat/messages`: requests under way are a
sequence, deletions are the three statements of the route. Both assume that the
tenant's database and the control database are one: `chat/sessions` and
`chat/messages` use `requireWorkspace` and write to the control database, while
`chat/command` runs in `withTenantContext` (request.ts:55-122,
packages/db/src/index.ts:63-72). With two databases the command route finds no
session and answers 404.

### LeadStore, LeadFile, LeadList and the code

`LeadStore` follows `handleLeadFound` through `assertAllowed`, `findDuplicate` and the
write, one read or transaction at a time, with the worker's posts repeated after a
time-out, beside `leads/import` and changes by hand. Of the pipeline's two events about a
lead only `lead_found` stores it: `agent_event` names no workspace, is answered 400 each
time and dropped by the worker after its last post (`EventRefused`). `findDuplicate` also looks for the
source's URL (`FromSource`), which a directory gives to every business it lists; a lead
found that way is merged into a source that is there and not stored (`skipped`, history). `LeadFile` is the loop of
`parseCSV`, one character a step, over any texts of up to two of the characters that
matter. `LeadList` is the page's state with its requests under way; a route is a step. Adding leads to a
campaign is one call here and one per lead in the code, which catches the failure of
each; a lost call is one that failed for all of them.

### CampaignDrafts, CampaignWizard, CampaignPage and the code

`CampaignDrafts` has the PATCH, POST and DELETE of a campaign statement by statement
(`UserStep`), the worker's drafting job lead by lead (`DraftJobStep`), the webhook with
`canDraftEmail`, `createDraft` and `canQueueSend` (`HookStep`), Telegram's pause and
resume, and the sender as one step. Users come in by the routes of drafts, statement by
statement and beside each other: the web's approval (`Approve`, `AskToQueue`, `QueueAgain`),
Telegram's and `POST /api/send` (`AskFirst`, `MarkApproved`), an edit, a rejection and a draft written
by hand (`EditDraft`, `RejectDraft`, `WriteByHand`). None asks for the draft's status, so a
sent or rejected draft is opened again (`reopened`, history), beside whatever draft the lead has
by then; and none asks for the membership, so a lead removed from the campaign is queued
again (`overtaken`, history). `approve-all` asks for `needs_review`, which nothing sets.
`CampaignWizard` has the form, the job of the
analysis with its event posted again, the polls that do not wait for each other, the
templates on the page and in the database, and the reload that keeps the page's state
in `localStorage`. `CampaignPage` has one campaign's status, leads and templates as
stored, as loaded and as typed, and the card that polls a drafting job.

### ReplyDesk, Access and the code

`ReplyDesk` is `syncReplies` (list of threads, newest message, row, classification), by the
page and by the cron, the reply that is posted (`PostReply`), and `replies/page.tsx` with its
two scopes and its drafts. A thread is its messages in order: the customer's, those that were
sent, and the draft the user has begun in Gmail, which is another message each time it is saved.
The newest message without the label SENT may be that draft (`Newest`): it is stored and
applied as a reply, and the customer's mail under it is not (`masked`, history). `due` is
what the customer had written when the threads were listed, and `GivenUp` a
synchronisation that breaks or finds no mailbox. `rows`
are the stored replies in the order of their creation, and the page knows a reply by its
place there; `TakeRows` is how many of the newest a request is answered with.
`Access` has login (with `ensureInternalWorkspace`), invitation, acceptance and
onboarding, one row a step, from any point at which the seed script may have stopped.

## Runs

| Run | Instance | Shows |
|---|---|---|
| `sq_safe` | 1 item, 2 senders; either 1 crash, 1 failing statement, 2 approvals, 1 deletion and 2 connection changes, or 1 suppression, 1 reply, 1 approval and 1 removed entry | `AtMostOneCall`, `ExclusiveSend`, `EvidenceOfCall`, `SentIsTruthful`, `SentIsFinal`, `SuppressionHolds`, `ImplementsDelivery` |
| `sq_limit` | 3 items of 3 leads, 2 senders, limit 1, one midnight | `DailyOvershoot`: the limit can be exceeded, by at most the number of senders less one |
| `sq_live` | 1 item, 2 campaigns, 2 senders; 1 crash, 1 removal, 1 pause, 1 connection change; fairness | `DueIsDecided` |
| `sq_hardstop` | as `sq_safe`, the second | a counterexample to `HardStop` |
| `sq_stuck` | 1 item without a campaign, 1 crash; fairness | a counterexample to `CronDecides` |
| `fu_safe` | 2 follow-ups, 5 drafts, 1 cron, 2 webhook requests, 1 user's request, any 2 of 14 events | `NoGaps`, `StepsInOrder`, `ProcessingIsOwned` |
| `fu_limit` | 1 follow-up, 4 drafts, 1 cron, 1 webhook and 1 user's request, any 3 of 14 events | `OpenDraftsBounded`, `EmailsBounded` |
| `fu_live` | 2 follow-ups, 6 drafts, 1 cron, 1 webhook and 1 user's request, any 2 events; fairness | `ReplySettles` |
| `fu_once` | 2 requests, 1 duplicate | a counterexample to `StepOnce` |
| `parts`, part render | 2 processes on one site, one in a job; limits 2, 1, 2, 1; 1 fault | `RendersCounted` |
| part discovery | 4 sites, 2 directories, 3 queries, a city of 4 suburbs, quantity 2, 1 failed read; fairness | `Overshoot`, `FoundOnce`, `CancelStops`, `SuburbsCovered`, `DiscoveryRunEnds` |
| part job | 1 cancellation, 1 sweep, 2 posts per event, 1 retry, 2 faults; fairness | `RunningIsAlive`, `CutIsCancelled`, `CancelledWasAsked`, `RunEnds` |
| part chat | 2 sessions, 2 commands, 1 session opened, 1 fault; fairness | `PreviousTold`, `PageIsSession`, `BarGoesOut` |
| `pages`, part store | 3 leads of the pipeline, two of one directory, 1 row of a file, 2 handlers, 1 act of a user; 2 faults | `StoredOnce` |
| part drafts | 2 campaigns, 1 lead, 2 tabs, 2 jobs, 2 handlers, 1 reviewer; 3 requests, 1 fault | `OneOpenDraft`, `NoneForgotten`, `RemovedUnqueued` |
| part access | the internal account and a guest, 2 requests at once, 3 in all, 1 invitation, 1 halt | `AccountsWhole` |
| part file | every list of one lead with two texts of up to two characters; 1 column chosen, 1 fault | `ReadBack` |
| part wizard | 2 generated templates, 2 polls at once, 2 analyses; 2 acts or faults, 1 fault | `SavedAsShown` |
| part campaign | 2 leads, 1 template and 1 added, 2 requests at once; 3 acts or faults, 1 fault | `PageSettles` |
| part list | 3 leads, 2 groups, 2 requests at once; 4 acts or faults, 1 fault | `ListsSettle` |
| part desk | 1 thread, 2 mails or drafts, lists of 2 rows, page, cron and a posted reply; 3 acts or faults, of which 1 fault | `RepliesSettle` |
| part sidebar | 2 sessions, 2 requests at once; 2 acts, 1 fault | `ListsSettle` |
| `jl_cancel` | 1 cancellation, no fault | a counterexample to `CancellationKept` |

Bounds. For `SendQueue`, each member of `Quotas` says how often the events around the queue may
happen, and a behaviour has one of them; statements, expiring leases and calls of Gmail are unbounded. Two senders and one item are
where leases, reservations and the catch block interact: the properties of one
delivery speak of one item, and a third sender adds no new pair. The proofs
remove these bounds for the properties they cover. The limit needs several items,
and a limit of 1 makes two senders enough to exceed it. For `FollowUps`, each event
of `Events` may happen once and `MaxEvents` of them together. In `fu_limit` there are more
drafts than `OpenDraftsBounded` and `EmailsBounded` allow, so the bounds are the code's and not the
instance's: mutants that let one more through are found. Three events are enough to reject
a draft, have another made and approve the first again. `fu_safe` has one cron,
because two with two events are too many states; the proofs are for any number.
`parts` and `pages` have several components each: `part` chooses at first which of
them moves, the others keep their initial state, so the states are the sum of the
components' and not their product. In `parts` every property is one that something
comes to an end or belongs to a component that has one; `pages` has safety properties
only. A behaviour is cut where its history variable says that the component has met a
race or fault after which no property says anything of it (`PartsNext`, `PagesNext`):
each cut is the negation of an antecedent of the properties, and the state in which it
becomes true is still checked. In the part chat a behaviour also ends with a stray poll, after which
only the bar could differ from what is explored without it, and once the user left early and
`PreviousTold` can no longer fail. In the part desk mails and drafts are explored up
to one act less than the rest. The history variables (`revived`, `masked`, `skipped`, `reopened`,
`overtaken`, `crossed`, `gap`, `strayed`, `skewed`, `astray`, `raced`, `excused`, `early`, `stray`,
`slipped`, `halted`, ...) are the places where the code gives the property up; each is set by the
steps where that happens and listed below. In the parts wizard, campaign, list and desk, the
bound on acts counts faults too. Two requests at once are where
answers cross; two processes are what a limit of one needs.
In the part job two posts per event instead of four make giving up take two faults,
which are also enough for a late handler with a failed read or a killed process;
cancellers and sweepers write the same value whoever they are.
The sequences and jobs end, and `SendQueue` runs out of events, so deadlock is checked only
where the configuration does not say otherwise.

Fairness (`FairSpec`). A run that has not died goes on, a handler finishes, two
minutes pass, and the crons call `processQueue`: `POST /api/send/cron` for a
workspace with a pending or queued item, `GET /api/cron` for one with an active
campaign that follows up (`CronCalls`). In `FollowUps`, `GET /api/cron` calls `processDueTasks` where the
campaign is active, a run that has begun and a request go on, the worker posts
its events, senders and reply handlers go on. In `LeadDiscovery` the loop goes on; in
`ChatConsole` a card polls every two seconds and a poll is answered. In `JobLifecycle`, RQ runs what is
queued and bounds it (`job_timeout`), and a post is answered or times out. No user, failure or crash is fair.

### What the code does differently from what it says

* `sq_hardstop`: README.md:52 calls suppressions hard stops that cancel queued
  sends immediately. A sender past the suppression check writes `queued` and
  `sending` by id, so it overwrites the cancellation and sends. `SuppressionHolds`
  is what does hold: a sender that comes to the check later stops.
* `sq_stuck`: an item whose sender died after the claim is in `checking_rules`.
  `send/cron` visits only workspaces with a `pending` or `queued` item and `cron`
  only those with an active following-up campaign, so elsewhere nobody frees it,
  though the comment in `approve-all` relies on the cron.

* `fu_once`: docs/05-database-schema.md:5 says that database constraints make
  follow-up steps idempotent. The constraint makes the task unique, not its
  draft: `handleDraftCreated` asks for neither, so an event that is delivered
  again after its draft was sent is drafted and e-mailed again. `canDraftEmail`
  refuses only while a draft is open.
* `jl_cancel`: JobService.ts:61 keeps a cancelled job from other statuses than
  cancelled or failed, but the webhook does not use `updateJobStatus`: `job_started`
  sets `running` over a cancellation of a queued job, before the worker reads it.

Also visible in the model, and not stated as a finding: an item whose sender died
in `sending` is never looked at again and keeps `canQueueSend` from queueing any
other draft of the lead; the daily limit blocks an item for good instead of
putting it off; deleting a campaign deletes its `SentEmail` rows and with them
their share of the day's count and of the 24-hour rule. A lost follow-up job leaves its
task in `processing`, and nothing takes it out: `canScheduleFollowUp` then refuses
every later step. A reply that cancels a task in processing does not stop the
cron that is about to mark it or the webhook that completes it, and nothing asks
whether the lead still belongs to the campaign. A cancellation written after the
job has ended leaves it in `cancellation_requested`, which the sweep does not list.
One lost or late event is enough to leave a job running until it is swept
(`RunningIsAlive` is for runs without faults), and no cron calls the sweep. A launch
whose answer was lost is marked as failed and comes back to running with `job_started`.
A sent draft that is approved or edited again is open for as long as nobody rejects it (its
row goes back to sent, its status does not), and `canDraftEmail` refuses the lead every later draft. Of the businesses that a
directory lists on one page only the first is stored.

Where the properties of the parts and pages end, that is, what the history variables
stand for:

* Leads page: answers of searches and groups come in any order (:157); the handlers
  close over the group and the query there were at the click (:176, :294); a created
  lead is put on top of a list that is still being loaded (:220); the selection
  survives a search (:181).
* Campaign page: a card that has stopped polling is given a second job and never asks
  for it (:62, :82); a failed save is forgotten (:569); a preview applied to a text
  that was saved before stays hidden behind it (:611); leads of which only some could
  be added are not loaded (:378).
* Wizard: requests of the save are refused unseen (:258 and following), templates that
  come in after the results were read are kept and never shown.
* Replies page: a draft that was asked for one reply is shown under another (:106), the
  list after a synchronisation is loaded for the scope there was before (:81).
  `ReplySyncService` creates the row before it applies it (:59), so that one that stops
  in between is taken for a duplicate ever after; it looks at the newest mail of a
  thread only, which may be the user's own unsent draft (:26), and treats an account
  without Gmail as success (:15).
* Drafts: approvals, edits and rejections ask neither for the draft's status nor for the
  lead's membership (approve/route.ts:22, :37), overlapping events are checked before
  either has made its draft (DraftService.ts:15).
* Leads: the URL of a directory's page stands for each business on it
  (DedupeService.ts:100); overlapping handlers each find no duplicate (webhooks/worker:412).
* Chat: `job_started` brings back what had ended (webhooks/worker:86); a session that the chat page made is not in the URL, so that deleting it from
  the sidebar leaves the chat on it; `AppSidebar` compares with the session that was
  active at the click (:185).
* Sign-in: the login refuses an account without memberships before it comes to the
  step that would repair it (login/route.ts:148); an invitation is read as open at :30
  and marked at :122; the onboarding is marked as done before the profile is written
  (onboarding/route.ts:25).
* Limiter: a refused lease releases its keys twice (render_limiter.py:46-53), and a
  DELETE after a DECR to zero (:98) takes away a place taken meanwhile; `LimitHolds`
  is therefore of counters that have lost no place.

## Proofs

`SendQueueProofs` is for arbitrary finite sets of items and senders, arbitrary leads,
campaigns and bounds (`SendQueueAssumption`).

`TypeCorrect` proves `TypeOK`. `DeliveryInvariant` proves `DeliveryInv`, the
conjunction of the four properties of one delivery and of two facts that make it
inductive: a sender between reservation and call is the first to call for its
item and has its row (`HolderIsFirst`), and a sender about to write "sent" knows
that Gmail accepted (`RecorderKnows`). Neither property alone is inductive: that
a call is the only one needs that its caller holds the reservation alone, and
that the reservation was the first needs that every call leaves a row.

Most steps touch none of this. `Harmless` describes them (no row goes away, no
status becomes "sent", no sender enters a critical statement) and `HarmlessStep`
shows once that they preserve the invariant; five lemmas treat the steps that are
not harmless. `NoDoubleSend`, `SendersExclude`, `CallsAreOnFile` and
`SentRecordsAreTrue` follow. `SentStaysSent` goes through the few writers of
`deliveryStatus`; `SuppressionStops` through how a sender comes past the
suppression check.

`QueueImplementsDelivery` is the refinement: the initial states correspond, and each step
is a step of `Delivery` or none. Most are none, because they neither write a record nor
call and leave the same senders holding the same reservations (`HoldersStay`). A sender
that stops holding one either leaves its row, and the permission with it, or the draft
was deleted and the permission is withdrawn (`HolderLeaves`). The others are a reservation,
a call, a commit, a doubt and a deletion, with one lemma each; they rest on `DeliveryInv`
and on `DeliveredCalled`, that what Gmail accepted was called for.

`OvershootBounded` counts `Exposed`: the items dated today, with those of the senders that
have read the day's count and may still write a date. The bound on it (`Limited`) is
inductive, that on the dated items is not. A sender passes the limit when fewer items than
the limit are dated, so that the rest of `Exposed` are items of senders, one each; and
no other step exposes an item.

`FollowUpsProofs` is for any campaign limit, any number of crons, requests, drafts
and events. `ProcessingIsOwned` is inductive with `TypeOK`: each step that ends
somebody's work on a task takes it out of `processing`, hands it on, or counts it
as lost. `OpenDraftsBounded` follows from `DraftOverlap`: once a draft is open that no
user has opened again, such drafts and requests past `canDraftEmail` are together no more than the
requests there are, the worker's and the users', because whoever comes later is refused;
an approval or an edit turns a closed draft into a reopened one and adds none. `QueueOverlap` says
the same of the queue, and with it `EmailsBounded` is inductive: `canSendNow`
counts attempts, and the items it can clear at one count were queued together.
The order of steps needs `OrderInv`: everybody handles existing tasks, a request
about to complete its task has made its draft, and a step exists or is about to
be upserted only when it is due. Its core is `NextStepDue`: the number of
completed tasks, whichever they are, plus one is a due step.

`PartsProofs` is about the four parts of `MCParts`. Its theorems on the job are for any number of
cancellers and sweepers and any bounds of attempts, retries and faults. `CancelledAsked` is inductive once it also speaks of
requests about to write and events on their way. The others rest on `Reported`
(each event is sent from one place of the workflow, and no handler of another one
is waited for) and `Quiet` (without a fault there are no other handlers, and an
event posted is being handled, so only a refused one is given up). With them the
handler of `job_started` belongs to a run that has only begun, which gives
`RunningAlive`. `CutCancelled` follows the cancellation from the loop that it broke
to the last check (`CutInv`).

Those on the chat are for any sessions, commands and polls. `OneJobUnasked` is
`PreviousTold`. Of a bound on jobs alone the next step knows nothing; `Turns` says of
every command where it is: unless commands have overlapped, at most one is between the
list of the active jobs and its own, and every other job that is at work was asked to
cancel, or is on the list it goes through, or had ended and was set running again by
`job_started` (`Unasked`, `TakeTurns`): the last are on no list read before. `PageKeepsSession` rests on
`Home`: unless the user left early, what was asked for the page is of its session
(`AtHome`), and a poll is of a card that is shown or is stray (`CardsPolled`).
`PartsTypesCorrect` puts the types of the limiter, the pipeline, the job and the chat together:
a step of one of the parts leaves the variables of the others alone.

Those on the pipeline are for any sites, directories, queries, pages and suburbs
(`PageAssumptions`: pages show what they are declared to, and the file of a city names no
suburb twice, which holds of the three files under `data/locations`). The plan of queries, the merging of
entries and the order of suburbs are recursive functions; what they give is proved by
induction over a set of numbers, from the fact that it has a least one (`LeastNumber`,
`NextNumbers`), because the library's induction takes an operator. `OvershootWithinBatch`
needs to know that a batch began below the quantity and how much of it is left (`Bounded`),
`FoundApart` that all keys of what was found are in the index (`Indexed`), and `CancelledStops`
that a directory that has had one entry saved has its own domain there, so that all its
others are duplicates (`Stopping`). `SuburbsAllPlanned` follows the suburbs from the list of
the active to that of those held back: both together have every suburb once (`KeptBack`),
which `ExpandArea` leaves as it is. That they do at first is about `get_proximity_groups`:
after distance d the groups and the one being gathered have what is at most d away
(`Gathered`, `GrownGathers`), and after the last distance nothing is being gathered. A run is
done for one of the reasons of `Reasons`, and the one that is left is that nothing is held back.

Those on the limiter are for any finite set of processes, chains of any length and any
limits (`ChainAssumption`, `LimitAssumption`). `RenderTypesCorrect` is `RenderTypeOK`,
inductive with `Steady`. `RendersCountedAlways` rests on `Counted`: a counter that has
lost no place in use stands for no fewer processes than there are with an INCR of it,
and without a fault for no more of them; and those admitted are within the limit.
`LimitHolds` alone is not inductive, because the INCR that admits somebody looks at the
counter and not at the processes. Three lemmas turn a claim that stays, one that is new
and one that is given up into counts of finite sets, and one lemma for each action says
which it is.

`StoreProofs` has the drafts of any campaigns, leads, tabs and handlers, and any bounds;
`DraftsAssumption` asks for a campaign and a lead, because a free request or handler has
one in its fields. `OpenDraftsSingle` rests on `Single`: while an event of a lead is
between `canDraftEmail` and `createDraft`, the lead has no open draft and no other event
there, unless it is in `raced`; drafts that a user opened again are left out on both sides, and
`ReviewEffect` shows that the routes of drafts add to no others. `QueuedAreMembers` follows a lead on its way (`Ways`): a
job took it from the members, an event took it from a job, its draft is the one the event
made (`Held`), and the queue row is written for it or by a user's approval, which puts a pair that is no
member into `overtaken`; whoever removes a member meanwhile
finds it on its way, and cancels the row if there is one already. `LaunchesReachAll` is
`NoneForgotten`: a member of an active campaign was handled or drafted, or there
is a job of the campaign that has yet to handle it (`Cared`); that a job does handle what it has in hand
needs `Handling`, that an event a job waits for is of the lead in its hand.

Its theorem on leads is for any leads of the pipeline that have an identifier at all, any file,
edits and handlers (`StoreAssumption`); `FoundStoredOnce` is `StoredOnce`. Its first half rests
on `StoreAlone`: unless `overlapped` is set, whoever is between `findDuplicate` and the creation is
the only one there, and what it looked for is still not to be found; what the import has
not found shares identifiers with nothing but rows it has created itself. Its second half rests
on `FoundCovered`: from the lookup of `lead_found`'s handler on, a lead that matches is in the
database, or, of one that was skipped, a lead with its source's URL, or a suppression kept it out, or
a user removed the identifier or the URL.

Its theorems on the wizard are for any texts, campaigns, jobs, requests at once, edits and faults;
`WizardAssumption` asks that the analysis writes something and that no text is the empty one,
which stands for a template that is deleted. `WizardSaves` is `SavedAsShown`, and only its last
step is about the end: `WizardInv` follows the templates from the answer to the save. Before the
review whatever answer waits to be shown names all templates of its campaign, each once
(`ReadAll`), since one that is stored later sets `late`. In the review the list on the page, with
what was deleted on it, names all the campaign has (`ListedIn`). While the save runs, the templates
of the campaign are those of the confirmed list that were there before, the deletions still to be
sent, and one row for each request done, with its text and no row twice (`SavedSoFar`,
`Placed`). A save that breaks off before it creates anything leaves `ListedIn` (`BrokenOff`): of
what is done, everything was on the list before. From `SavedSoFar` with nothing left to send, the counts of
`SavedAsShown` follow, because the function `Placed` speaks of pairs confirmed and stored
templates off.

`PageProofs` is for any accounts, invitations and requests at once, and for any threads, mails,
lists and faults; and for a campaign of any leads and texts. `AccountsStayWhole` is `AccountsWhole`, which says nothing of an account that
is being set up; its invariant does: what rows a request has written when it comes to a step
(`Reached`), that an account that lacks a membership has a request at work on it (`Whole`), that
requests of one account at once are noted (`Together`), and that workspaces, memberships and
invitations agree. `RepliesAlwaysSettle` is `RepliesSettle`, by three invariants side by side: a
row not applied belongs to the synchronisation that has just stored it (`Applies`); while the
synchronisations run one at a time and no reply is posted beside them, what the customer had written
when the threads were listed (`due`), or something later, is stored, or its thread is still to be read, or it is
in hand, or a draft of the user's hid it when the thread was read (`SyncAlone`, `CaughtUp`); and the list and the answers under way are of the
scope they were asked for, the draft of the reply selected (`View`). `PageSettled` is `PageSettles`,
by `PageInv`, which says of every state what the property says of one at rest. The campaign as
loaded is the campaign as stored, or a load that brings it, or a request that will be followed by
one, is on its way (`Current`). A text on the page that is not marked as unsaved is stored, or the
last request to save the template carries it (`TextsKept`): `LastSent` of `ListProofs` is what
makes an answer that was overtaken harmless. A card polls its own job, and has stopped only when
that one ended (`CardKept`). `PageAssumption` says what texts and campaigns are, that no text is the
empty one, and that the campaign opened has no more templates than the bound `MaxSteps`.

`ListsAlwaysSettle` is `ListsSettle` in the composition of the pages, from one theorem for each
list. Requests under way are a sequence, and `ListProofs` has first what such a sequence keeps
when one is answered, one is written and others are sent: that something is on its way
(`OnTheWay`), or the last of its kind (`LastSent`). The list of leads is right because, unless
answers have crossed, it is, or what makes it right is on its way: `ListKept` says this of the
leads and `GroupsKept` of the groups, `Aimed` that a load to come is of the group selected, and
`Alone` that nothing loads the list while a lead is being created. It is for any leads and groups and
any number of requests; a row of a group has a group and a lead, as its foreign keys say
(`ListAssumption`). Of the sidebar, `ListShown` says the same: a request that changes a session
and will ask for the list is on its way, or the last load shows what is stored, or the list does.
`PlaceKept` says that whoever deletes the session in the URL knows that it is open, so that the
user is taken away from it. `WholeKept` is about `Wholes`, the sessions that have or had
messages: only those are named, renamed and shown.

`FileProofs` is about the file of the leads page, for any characters, titles and leads, so for
texts of any length. `FileAssumption` asks what `leads/page.tsx` has: quote, comma and the two
ends of line are different characters, no two titles are alike or have blanks around them, and
the first title that resembles a field (`findCloseMatch`, lines 397-420) is the one exported for it.
`FileReadBack` is `ReadBack`. What a text is made of is said by positions: `TextAt`,
`RowAt` and `CellAt` say from where to where each row and cell lies, and that both files, as exported and as
saved again, lie so is proved from what `FlattenSeq` gives (`OneByOne`, by a least number again,
since the fold is recursive). The parser, a character a step, keeps `OnTheRows`: it is within a
cell whose read part it has, with all cells and lines before it as `Expected`, or at the end with all
of them. A doubled quote is the hard case: the parser looks one character ahead, so that it
must be known that what follows a quoted cell is no quote. At the end nothing is left
(`TextEnds`), no line is blank because each has a status, so `Filled` drops none, and each field finds its own
column (`OwnMatch`). `FileInv` adds that what is read stays (`AsRead`) and what is posted was
read (`AsPosted`), up to a column the user chose.

The types of the leads, the list and the sidebar needed invariants of their own. `StoreTypesCorrect`
says of what the worker waits for that it is the event it posted last, which holds because it posts
only when nobody is waited for (`WorkerWaits`); that a stored lead has a source, not that
it has an identifier, since the import stores a row that has a business name alone. `ListTypesCorrect` needs that
the leads a creation will put on top are in the list it puts them on (`Topped`); that the group
selected is one the sidebar shows does not hold, because an older answer with fewer groups can come last:
TLC shows it with four requests at once. `SidebarTypesCorrect` is about the marks. `PagesTypesCorrect` joins
the nine parts of `MCPages`: a step of one is a step of its specification and a stutter of the others.

Every invariant that a passing run checks is so the subject of a theorem. Only model-checked are
the liveness properties `DueIsDecided`, `ReplySettles`, `RunEnds`, `DiscoveryRunEnds` and
`BarGoesOut`, which hold under fairness and are out of the prover's reach.

## Not modelled

Prompts and answers of language models, HTML and regular expressions, calls of search
engines, hashes, signatures and cookies, the creation of tenant databases, and pages
that only show rows: TLC has nothing to explore there. Dead code: the scope "state" of
location expansion, `createTenant`, `canReEngageLater`, the status `needs_review` and the
`approvals` page, which nothing feeds, and `PendingDraftsPanel`. The wizard offers no cancellation of its analysis, and
the in-memory rate limit is lost with the process: neither has states worth a model.

## Plan

Done: `SendQueue` with `Delivery`, `FollowUps`, `JobLifecycle`, `RenderLimiter`, `LeadDiscovery`,
`ChatConsole`, `LeadStore`, `CampaignDrafts`, `Access` and the six pages. Left:

1. Versions and rewrites of drafts; Telegram's menus as far as they keep a state.
2. An abstract specification of a sequence of follow-ups and of a job.
3. `Outreach`: queue, follow-ups and replies composed.
