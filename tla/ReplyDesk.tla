------------------------------ MODULE ReplyDesk ------------------------------
(***************************************************************************)
(* How an answer of a customer in Gmail becomes a row of the workspace, and *)
(* how the replies page shows it.  A synchronisation, started by the page   *)
(* or by the cron, reads one thread after another, stores the newest        *)
(* message there that is not sent and applies what it says to the lead; the *)
(* cron and the page can do so at once, and a reply can also be posted.  The *)
(* newest message that is not sent may be one the user has begun to write   *)
(* in Gmail: it is taken for the customer's.  The page loads the rows for   *)
(* one of two scopes, with each one's thread read in Gmail to see whether   *)
(* the user has answered, and asks for a draft of an answer to the one      *)
(* selected.                                                                *)
(*                                                                         *)
(* What applyClassification does to tasks, items and the lead, statement by *)
(* statement, is in SendQueue and FollowUps: it is one step here.  The age  *)
(* of a row only tells "waiting" from "needs a reply", both of them open.   *)
(***************************************************************************)
EXTENDS Integers, Sequences, FiniteSets

CONSTANTS
  Thread,      \* threads of the mailbox
  Known,       \* those whose customer is a lead
  Outreach,    \* those of them that began with a mail of the workspace
  Mailed,      \* those that are stored and applied at first
  TakeRows,    \* how many rows a list has at most
  MaxMails, MaxDeskActs, MaxDeskFaults  \* bounds: mails, clicks and runs of the cron, and
                                        \* calls of Gmail or of the server that fail

ASSUME DeskAssumption ==
  /\ Mailed \subseteq Known /\ Outreach \subseteq Known /\ Known \subseteq Thread
  /\ IsFiniteSet(Mailed) /\ TakeRows \in Nat \ {0}
  /\ MaxMails \in Nat /\ MaxDeskActs \in Nat /\ MaxDeskFaults \in Nat

VARIABLES
  thread,      \* thread[t]: its messages in order: "human" or "settled" of the customer, "ours", the
               \* user's "draft" in Gmail, and where one was that is "gone"
  rows,        \* Reply, oldest first: [thread, mail, kind, at], mail 0 for no messageId, at the number
               \* of messages when stored
  applied,     \* the rows applyClassification was called for, [thread, mail]
  syncs,       \* syncReplies of the page and of the cron, and a POST: [at, todo, thread, mail], and
               \* the scope the page had when it was asked for
  all,         \* showAll
  replies,     \* replies on the page, by their place in rows
  selected,    \* selectedId, 0 for none
  hidden,      \* loading: the list is not to be seen
  fetches,     \* loads under way: [n, all, at, got], and whether a synchronisation waits for it
  syncing,     \* the Sync button is disabled
  drafting,    \* the reply a draft is being written for: [id, moved], NoDraft for none
  draft,       \* the draft on the page
  answered,    \* history: the load that was answered last: [n, all, ofSync, failed]
  started,     \* history: how many loads were started
  due,         \* history: due[t]: the customer's newest mail when the threads were last listed
  masked,      \* history: threads read since in which a draft of the user's was the newest
  doubled,     \* history: the last synchronisation overlapped with the other or with a POST
  cut,         \* history: the last one broke, or found no mailbox
  unapplied,   \* history: rows whose synchronisation broke before it applied them
  brought,     \* history: how many rows there were when a synchronisation of the page ended
  mails, deskActs, deskFaults  \* history: what the bounds count

historyVars == <<due, masked, doubled, cut, unapplied, brought>>
syncVars == <<thread, rows, applied, syncs, historyVars, mails>>
viewVars == <<all, replies, selected, hidden, fetches, syncing, drafting, draft, answered, started>>
deskVars == <<syncVars, viewVars, deskActs, deskFaults>>

NoDraft == [id |-> 0, moved |-> FALSE]
Resting == [at |-> "rest", todo |-> {}, thread |-> "none", mail |-> 0, all |-> FALSE]

Ours(t, n) == thread[t][n] = "ours"
FromCustomer == {"human", "settled"}
NewestOf(m, kinds) ==
  LET those == {n \in 1 .. Len(m) : m[n] \in kinds}
  IN IF those = {} THEN 0 ELSE CHOOSE n \in those : \A k \in those : k <= n
Newest(t) == NewestOf(thread[t], FromCustomer \cup {"draft"})
CustomersNewest(t) == NewestOf(thread[t], FromCustomer)
Stored(t, n) == n > 0 /\ \E i \in 1 .. Len(rows) : rows[i].thread = t /\ rows[i].mail = n
(* The user answered once the row was there: its date is that of its storing. *)
UserReplied(row) == \E n \in row.at + 1 .. Len(thread[row.thread]) : Ours(row.thread, n)
Id(row) == [thread |-> row.thread, mail |-> row.mail]

NewLoad(scope, ofSync) ==
  [n |-> started + 1, all |-> scope, at |-> "sent", got |-> {}, ofSync |-> ofSync]

DeskInit ==
  /\ thread = [t \in Thread |-> <<"human">>]
  /\ \E order \in [1 .. Cardinality(Mailed) -> Mailed] :
       /\ {order[i] : i \in DOMAIN order} = Mailed
       /\ rows = [i \in DOMAIN order |-> [thread |-> order[i], mail |-> 1, kind |-> "human", at |-> 1]]
  /\ applied = {[thread |-> t, mail |-> 1] : t \in Mailed}
  /\ syncs = [s \in {"page", "cron", "post"} |-> Resting]
  /\ all = FALSE /\ replies = {} /\ selected = 0 /\ hidden = TRUE /\ syncing = FALSE
  /\ started = 1 /\ fetches = {[n |-> 1, all |-> FALSE, at |-> "sent", got |-> {}, ofSync |-> FALSE]}
  /\ drafting = NoDraft /\ draft = NoDraft
  /\ answered = [n |-> 0, all |-> FALSE, ofSync |-> FALSE, failed |-> FALSE]
  /\ due = [t \in Thread |-> 0] /\ masked = {} /\ doubled = FALSE /\ cut = FALSE /\ unapplied = {} /\ brought = 0
  /\ mails = 0 /\ deskActs = 0 /\ deskFaults = 0

DeskAct == deskActs < MaxDeskActs /\ deskActs' = deskActs + 1 /\ UNCHANGED deskFaults
DeskFault == deskFaults < MaxDeskFaults /\ deskFaults' = deskFaults + 1 /\ UNCHANGED deskActs
NoDeskFault == UNCHANGED <<deskActs, deskFaults>>

-----------------------------------------------------------------------------
(* Gmail *)

Changes(t, messages) ==
  /\ mails < MaxMails /\ mails' = mails + 1 /\ thread' = [thread EXCEPT ![t] = messages]
  /\ UNCHANGED <<rows, applied, syncs, historyVars, viewVars>> /\ NoDeskFault

MailComes(t, from) == Changes(t, Append(thread[t], from))

(* A draft that is saved again is another message, and one that is sent is    *)
(* its thread's newest.                                                       *)
WithoutDraft(m) == [n \in 1 .. Len(m) |-> IF m[n] = "draft" THEN "gone" ELSE m[n]]
UserWrites(t, what) == Changes(t, Append(WithoutDraft(thread[t]), what))
UserDiscards(t) ==
  /\ \E n \in 1 .. Len(thread[t]) : thread[t][n] = "draft"
  /\ Changes(t, WithoutDraft(thread[t]))

-----------------------------------------------------------------------------
(* syncReplies *)

Moves(s, at) == syncs' = [syncs EXCEPT ![s].at = at]
Running(s) == syncs[s].at \notin {"rest", "done", "failed"}
BeginSync(s) ==
  /\ syncs[s] = Resting /\ syncs' = [syncs EXCEPT ![s].at = "start", ![s].all = all]
  /\ doubled' = \E r \in DOMAIN syncs \ {s} : Running(r)
  /\ UNCHANGED <<thread, rows, applied, due, masked, cut, unapplied, brought, mails>>

CronSyncs == BeginSync("cron") /\ DeskAct /\ UNCHANGED viewVars

(* POST /api/replies names a lead, and may name a message; MaxDeskActs counts *)
(* it too.                                                                    *)
PostReply(t, n) ==
  /\ syncs["post"] = Resting /\ DeskAct
  /\ syncs' = [syncs EXCEPT !["post"].at = "ingest", !["post"].thread = t, !["post"].mail = n]
  /\ doubled' = (doubled \/ \E r \in {"page", "cron"} : Running(r))
  /\ UNCHANGED <<thread, rows, applied, due, masked, cut, unapplied, brought, mails, viewVars>>

ListThreads(s) ==
  /\ syncs[s].at = "start"
  /\ syncs' = [syncs EXCEPT ![s].at = "next", ![s].todo = {t \in Thread : CustomersNewest(t) > 0}]
  /\ due' = [t \in Thread |-> CustomersNewest(t)] /\ masked' = {} /\ cut' = FALSE
  /\ UNCHANGED <<thread, rows, applied, doubled, unapplied, brought, mails, viewVars>> /\ NoDeskFault

(* The newest message that is not sent is looked at and no earlier one.  Its  *)
(* sender is a lead, or a mail of the thread was sent to one.                 *)
HasLead(t, n) == t \in Known /\ (t \in Outreach \/ thread[t][n] \in FromCustomer)
ReadThread(s, t) ==
  /\ syncs[s].at = "next" /\ t \in syncs[s].todo
  /\ syncs' = [syncs EXCEPT ![s].todo = @ \ {t}, ![s].thread = t, ![s].mail = Newest(t),
                            ![s].at = IF HasLead(t, Newest(t)) /\ ~Stored(t, Newest(t)) THEN "ingest" ELSE "next"]
  /\ masked' = IF thread[t][Newest(t)] = "draft" THEN masked \cup {t} ELSE masked
  /\ UNCHANGED <<thread, rows, applied, due, doubled, cut, unapplied, brought, mails, viewVars>> /\ NoDeskFault

Ingest(s) ==
  /\ syncs[s].at = "ingest"
  /\ Moves(s, IF Stored(syncs[s].thread, syncs[s].mail) THEN "next" ELSE "create")
  /\ UNCHANGED <<thread, rows, applied, historyVars, mails, viewVars>> /\ NoDeskFault

(* The second row of one message is refused, and ends what tried to add it.   *)
(* Whatever the user or a POST has written there, the row is classified by    *)
(* its words, or as the POST says.                                            *)
Kinds(s) ==
  LET n == syncs[s].mail  from == IF n = 0 THEN "draft" ELSE thread[syncs[s].thread][n]
  IN IF s # "post" /\ from \in FromCustomer THEN {from} ELSE {"human", "settled"}
CreateReply(s) ==
  LET t == syncs[s].thread n == syncs[s].mail IN
  /\ syncs[s].at = "create"
  /\ IF Stored(t, n) THEN Moves(s, "failed") /\ UNCHANGED rows
     ELSE /\ \E kind \in Kinds(s) :
               rows' = Append(rows, [thread |-> t, mail |-> n, kind |-> kind, at |-> Len(thread[t])])
          /\ Moves(s, "apply")
  /\ UNCHANGED <<thread, applied, historyVars, mails, viewVars>> /\ NoDeskFault

ApplyClassification(s) ==
  /\ syncs[s].at = "apply" /\ Moves(s, "next")
  /\ applied' = applied \cup {[thread |-> syncs[s].thread, mail |-> syncs[s].mail]}
  /\ UNCHANGED <<thread, rows, historyVars, mails, viewVars>> /\ NoDeskFault

(* All threads are read; or the mailbox is not connected, which is no error.  *)
Finished(s) == IF s = "page" THEN [syncs[s] EXCEPT !.at = "done"] ELSE Resting
SyncDone(s) ==
  /\ syncs[s].at = "next" /\ syncs[s].todo = {} /\ syncs' = [syncs EXCEPT ![s] = Finished(s)]
  /\ UNCHANGED <<thread, rows, applied, historyVars, mails, viewVars>> /\ NoDeskFault

NotConnected(s) ==
  /\ syncs[s].at = "start" /\ DeskFault /\ syncs' = [syncs EXCEPT ![s] = Finished(s)] /\ cut' = TRUE
  /\ UNCHANGED <<thread, rows, applied, due, masked, doubled, unapplied, brought, mails, viewVars>>

SyncBreaks(s) ==
  /\ Running(s) /\ DeskFault /\ Moves(s, "failed") /\ cut' = IF s = "post" THEN cut ELSE TRUE
  /\ unapplied' = IF syncs[s].at = "apply" THEN unapplied \cup {[thread |-> syncs[s].thread, mail |-> syncs[s].mail]}
                  ELSE unapplied
  /\ UNCHANGED <<thread, rows, applied, due, masked, doubled, brought, mails, viewVars>>

(* The cron goes on to the next workspace, and the POST has an error.         *)
GivenUp(s) ==
  /\ syncs[s].at = "failed" /\ syncs' = [syncs EXCEPT ![s] = Resting]
  /\ UNCHANGED <<thread, rows, applied, historyVars, mails, viewVars>> /\ NoDeskFault

-----------------------------------------------------------------------------
(* GET /api/replies *)

(* The newest rows; a thread that cannot be read counts as one the user has   *)
(* not answered.                                                              *)
GetReplies(l) ==
  /\ l.at = "sent"
  /\ \E unread \in {{}, Thread} :
       LET Open(row) == row.kind = "human" /\ (row.thread \in unread \/ ~UserReplied(row))
           given == {i \in 1 .. Len(rows) : i > Len(rows) - TakeRows /\ (l.all \/ Open(rows[i]))}
       IN /\ IF unread = {} THEN NoDeskFault ELSE DeskFault
          /\ fetches' = (fetches \ {l}) \cup {[l EXCEPT !.at = "done", !.got = given]}
  /\ UNCHANGED <<syncVars, all, replies, selected, hidden, syncing, drafting, draft, answered, started>>

-----------------------------------------------------------------------------
(* The page.  Another selection, by whoever, takes the draft away.            *)

Selecting_keepDraft(id) == selected' = id /\ UNCHANGED <<draft, drafting>>
Selecting(id) ==
  /\ selected' = id
  /\ IF id = selected THEN UNCHANGED <<draft, drafting>>
     ELSE draft' = NoDraft /\ drafting' = [drafting EXCEPT !.moved = drafting # NoDraft]

(* The newest is selected when what was is not in the list any more.          *)
Latest(some) == IF some = {} THEN 0 ELSE CHOOSE i \in some : \A k \in some : k <= i
RepliesLoaded(l) ==
  /\ l.at = "done" /\ fetches' = fetches \ {l} /\ hidden' = FALSE
  /\ replies' = l.got /\ answered' = [n |-> l.n, all |-> l.all, ofSync |-> l.ofSync, failed |-> FALSE]
  /\ Selecting(IF selected \in l.got THEN selected ELSE Latest(l.got))
  /\ syncing' = (syncing /\ ~l.ofSync)
  /\ UNCHANGED <<syncVars, all, started>> /\ NoDeskFault

RepliesFail(l) ==
  /\ DeskFault /\ fetches' = fetches \ {l} /\ hidden' = FALSE /\ answered' = [answered EXCEPT !.failed = TRUE]
  /\ syncing' = (syncing /\ ~l.ofSync)
  /\ UNCHANGED <<syncVars, all, replies, selected, drafting, draft, started>>

ToggleAll ==
  /\ DeskAct /\ all' = ~all /\ hidden' = TRUE /\ started' = started + 1
  /\ fetches' = fetches \cup {NewLoad(~all, FALSE)}
  /\ UNCHANGED <<syncVars, replies, selected, syncing, drafting, draft, answered>>

Select(i) ==
  /\ ~hidden /\ DeskAct /\ Selecting(i)
  /\ UNCHANGED <<syncVars, all, replies, hidden, fetches, syncing, answered, started>>

SyncNow ==
  /\ ~syncing /\ syncing' = TRUE /\ DeskAct /\ BeginSync("page")
  /\ UNCHANGED <<all, replies, selected, hidden, fetches, drafting, draft, answered, started>>

(* The list is loaded for the scope there was when the button was pressed.    *)
SyncAnswered ==
  /\ syncs["page"].at = "done" /\ hidden' = TRUE /\ started' = started + 1
  /\ fetches' = fetches \cup {NewLoad(syncs["page"].all, TRUE)} /\ brought' = Len(rows)
  /\ syncs' = [syncs EXCEPT !["page"] = Resting]
  /\ UNCHANGED <<thread, rows, applied, due, masked, doubled, cut, unapplied, mails>>
  /\ UNCHANGED <<all, replies, selected, syncing, drafting, draft, answered>> /\ NoDeskFault

SyncRefused ==
  /\ syncs["page"].at = "failed" /\ syncing' = FALSE /\ syncs' = [syncs EXCEPT !["page"] = Resting]
  /\ UNCHANGED <<thread, rows, applied, historyVars, mails>>
  /\ UNCHANGED <<all, replies, selected, hidden, fetches, drafting, draft, answered, started>> /\ NoDeskFault

(* The server answers with the worker's draft or one of its own.              *)
GenerateDraft ==
  /\ selected # 0 /\ drafting = NoDraft /\ DeskAct
  /\ drafting' = [id |-> selected, moved |-> FALSE]
  /\ UNCHANGED <<syncVars, all, replies, selected, hidden, fetches, syncing, draft, answered, started>>

DraftAnswered ==
  /\ drafting # NoDraft /\ drafting' = NoDraft
  /\ (draft' = drafting /\ NoDeskFault) \/ (UNCHANGED draft /\ DeskFault)
  /\ UNCHANGED <<syncVars, all, replies, selected, hidden, fetches, syncing, answered, started>>

DeskNext ==
  \/ \E t \in Known, from \in FromCustomer : MailComes(t, from)
  \/ \E t \in Known, what \in {"draft", "ours"} : UserWrites(t, what) \/ UserDiscards(t)
  \/ CronSyncs \/ GivenUp("cron") \/ GivenUp("post")
  \/ \E t \in Known : \E n \in {0} \cup {m \in 1 .. Len(thread[t]) : thread[t][m] \in FromCustomer} : PostReply(t, n)
  \/ \E s \in {"page", "cron"} : ListThreads(s) \/ NotConnected(s) \/ \E t \in Thread : ReadThread(s, t)
  \/ \E s \in {"page", "cron", "post"} :
       Ingest(s) \/ CreateReply(s) \/ ApplyClassification(s) \/ SyncDone(s) \/ SyncBreaks(s)
  \/ \E l \in fetches : GetReplies(l) \/ RepliesLoaded(l) \/ RepliesFail(l)
  \/ ToggleAll \/ SyncNow \/ SyncAnswered \/ SyncRefused \/ GenerateDraft \/ DraftAnswered
  \/ \E i \in replies : Select(i)

DeskSpec == DeskInit /\ [][DeskNext]_deskVars

-----------------------------------------------------------------------------
DeskTypeOK ==
  /\ \A t \in Thread : \A n \in 1 .. Len(thread[t]) : thread[t][n] \in FromCustomer \cup {"ours", "draft", "gone"}
  /\ \A i \in 1 .. Len(rows) : rows[i].thread \in Known /\ rows[i].at \in rows[i].mail .. Len(thread[rows[i].thread])
  /\ \A s \in DOMAIN syncs : syncs[s].todo \subseteq Thread
  /\ all \in BOOLEAN /\ hidden \in BOOLEAN /\ syncing \in BOOLEAN /\ answered.n \in 0 .. started
  /\ mails \in 0 .. MaxMails /\ deskActs \in 0 .. MaxDeskActs /\ deskFaults \in 0 .. MaxDeskFaults

(* What the button says is what the list is of, unless loads were answered    *)
(* out of order, the last failed, or the scope was changed while a            *)
(* synchronisation ran; a list of all replies has those the page's            *)
(* synchronisation has brought, or is full.                                   *)
ListIsOfScope ==
  fetches = {} /\ answered.n = started /\ ~answered.failed =>
    /\ answered.ofSync \/ answered.all = all
    /\ answered.all => \A i \in 1 .. brought : i \in replies \/ Cardinality(replies) = TakeRows

(* The selected reply is one of the list, and the draft is an answer to it,   *)
(* unless another was selected while it was written.                          *)
DraftIsOfSelected ==
  /\ IF replies = {} THEN selected = 0 ELSE selected \in replies
  /\ draft # NoDraft => draft.id = selected \/ draft.moved

(* Once no synchronisation and no POST runs, every thread of a lead has the   *)
(* customer's newest mail of the last listing, or a later one, stored, unless *)
(* the user's own unsent draft hid it when the thread was read, or it had     *)
(* overlapped or broke; and what is stored is applied to its lead, unless it  *)
(* broke just between: no later one looks at it again.                        *)
SyncedIsApplied ==
  (\A s \in DOMAIN syncs : ~Running(s)) =>
    /\ ~doubled /\ ~cut =>
         \A t \in Known \ masked : due[t] > 0 =>
           \E i \in 1 .. Len(rows) :
             /\ rows[i].thread = t /\ rows[i].mail >= due[t]
             /\ thread[t][rows[i].mail] \in FromCustomer
    /\ \A i \in 1 .. Len(rows) : Id(rows[i]) \in applied \cup unapplied

(* The page and the rows settle to what the mailbox, the scope and the        *)
(* selection say.                                                             *)
RepliesSettle == ListIsOfScope /\ DraftIsOfSelected /\ SyncedIsApplied
=============================================================================
