-------------------------- MODULE FollowUpsProofs --------------------------
(***************************************************************************)
(* What holds of the follow-up sequence for every limit, every number of   *)
(* crons and webhook requests, and all events: its type, the order of the  *)
(* steps, that a task in processing has somebody at work on it, and how    *)
(* many drafts and e-mails overlapping requests can make.                  *)
(***************************************************************************)
EXTENDS FollowUps, FiniteSetTheorems, TLAPS

USE FollowUpsAssumption

-----------------------------------------------------------------------------
(* Type correctness, action by action                                      *)

(* The first draft of the sequence, queued, and nothing else, is a state   *)
(* of the declared type.                                                   *)
LEMMA InitType == Init => TypeOK
BY DEF Init, TypeOK, Draft, CronBusy, HookBusy, EditorBusy

(* An event keeps the set of events that have happened within the bound.   *)
LEMMA HappensType ==
    ASSUME TypeOK, NEW e, Happens(e)
    PROVE  events' \subseteq Events
BY DEF TypeOK, Happens

(* Every statement of processDueTasks keeps the types.                     *)
LEMMA CronType ==
    ASSUME TypeOK, NEW c \in Cron, CronStep(c) \/ CronDies(c)
    PROVE  TypeOK'
<1> USE DEF UnchangedByCron, CronGoto, draftVars, afterVars, hookVars, editorVars, stopVars, CronBusy
<1>1. CASE List(c)
  BY <1>1 DEF TypeOK, List
<1>2. CASE NextTask(c)
  <2>1. CASE todo[c] = {}
    BY <1>2, <2>1 DEF TypeOK, NextTask
  <2>2. ASSUME NEW n \in todo[c],
               todo' = [todo EXCEPT ![c] = @ \ {n}],
               at' = [at EXCEPT ![c] = n],
               CronGoto(c, "policy")
        PROVE  TypeOK'
    <3>1. n \in Step
      BY DEF TypeOK
    <3> QED
      BY <1>2, <2>2, <3>1 DEF TypeOK, NextTask
  <2> QED
    BY <1>2, <2>1, <2>2 DEF NextTask
<1>3. CASE AskPolicy(c)
  BY <1>3 DEF TypeOK, AskPolicy
<1>4. CASE SkipTask(c) \/ Mark(c) \/ Remark(c) \/ Revert(c)
  BY <1>4 DEF TypeOK, SkipTask, Mark, Remark, Revert, Write, Put
<1>5. CASE Post(c)
  <2>1. at[c] \in Step /\ pc[c] = "post"
    BY <1>5 DEF TypeOK, Post
  <2>2. posts' \in [Step -> Nat] /\ pc' \in [Cron -> {"idle", "next"} \cup CronBusy]
    <3>1. posts' = posts \/ posts' = [posts EXCEPT ![at[c]] = @ + 1]
      BY <1>5 DEF Post
    <3>2. pc' = [pc EXCEPT ![c] = "next"] \/ pc' = [pc EXCEPT ![c] = "revert"]
      BY <1>5 DEF Post
    <3> QED
      BY <2>1, <3>1, <3>2 DEF TypeOK
  <2>3. events' \subseteq Events
    BY <1>5, HappensType DEF TypeOK, Post
  <2>4. \A b \in Cron : pc'[b] \in CronBusy => at'[b] \in Step
    BY <1>5, <2>1 DEF TypeOK, Post
  <2> QED
    BY <1>5, <2>2, <2>3, <2>4 DEF TypeOK, Post
<1>6. CASE CronDies(c)
  BY <1>6, HappensType DEF TypeOK, CronDies
<1> QED
  BY <1>1, <1>2, <1>3, <1>4, <1>5, <1>6 DEF CronStep

(* Every statement of a webhook request keeps the types.                   *)
LEMMA HookType ==
    ASSUME TypeOK, NEW h \in Hook, HookStep(h) \/ HookFails(h) \/ HookDies(h)
    PROVE  TypeOK'
<1> USE DEF UnchangedByHook, HookGoto, draftVars, afterVars, cronVars, hookVars, editorVars, stopVars,
           HookBusy
<1>1. ASSUME NEW n \in Step, Receive(h, n) PROVE TypeOK'
  <2>1. posts' \in [Step -> Nat] /\ events' \subseteq Events
    BY <1>1, HappensType DEF TypeOK, Receive
  <2> QED
    BY <1>1, <2>1 DEF TypeOK, Receive
<1>2. CASE AskDraft(h) \/ AskQueue(h)
  BY <1>2 DEF TypeOK, AskDraft, AskQueue
<1>3. ASSUME NEW d \in Draft, Create(h, d) PROVE TypeOK'
  BY <1>3 DEF TypeOK, Create, NewDraft
<1>4. CASE Enqueue(h)
  <2>1. /\ item' \in [Draft -> {"none", "waiting", "cleared", "sending", "sent", "failed",
                                 "blocked", "cancelled"}]
        /\ hpc' \in [Hook -> {"idle"} \cup HookBusy] /\ hpc[h] \in HookBusy
        /\ \A g \in Hook : g # h => hpc'[g] = hpc[g]
    BY <1>4 DEF TypeOK, Enqueue
  <2> QED
    BY <1>4, <2>1 DEF TypeOK, Enqueue
<1>5. ASSUME Leave(h)
      PROVE  /\ hpc' \in [Hook -> {"idle"} \cup HookBusy]
             /\ hstep' \in [Hook -> Step \cup {0}]
             /\ hdraft' \in [Hook -> Draft]
             /\ \A g \in Hook : hpc'[g] \in HookBusy => hstep'[g] \in Step
  <2>1. 0 \in Draft
    BY DEF Draft
  <2> QED
    BY <1>5, <2>1 DEF TypeOK, Leave
<1>6. CASE Complete(h)
  BY <1>5, <1>6 DEF TypeOK, Complete, Leave, Put
<1>7. CASE Release(h)
  <2>1. hstep[h] \in Step
    BY <1>7 DEF TypeOK, Release
  <2>2. task' \in [Step -> {"none", "scheduled", "processing", "completed", "skipped", "cancelled"}]
    BY <1>7, <2>1 DEF TypeOK, Release, Put, Released
  <2> QED
    BY <1>5, <1>7, <2>2 DEF TypeOK, Release, Leave
<1>8. CASE HookFails(h)
  BY <1>8, HappensType DEF TypeOK, HookFails
<1>9. CASE HookDies(h)
  <2>1. hstep[h] \in Step
    BY <1>9 DEF TypeOK, HookDies
  <2>2. posts' \in [Step -> Nat] /\ lost' \subseteq Step /\ events' \subseteq Events
    BY <1>9, <2>1, HappensType DEF TypeOK, HookDies
  <2> QED
    BY <1>5, <1>9, <2>2 DEF TypeOK, HookDies, Leave
<1> QED
  BY <1>1, <1>2, <1>3, <1>4, <1>6, <1>7, <1>8, <1>9 DEF HookStep

(* Everything a sender does keeps the types.                               *)
LEMMA SendType ==
    ASSUME TypeOK, NEW d \in Draft, SendStep(d) \/ SenderDies(d)
    PROVE  TypeOK'
<1> USE DEF UnchangedBySend, cronVars, hookVars, editorVars, stopVars, afterVars
<1>1. CASE Check(d)
  <2>1. Verdicts(d) \subseteq {"cleared", "sent", "blocked"}
    BY DEF Verdicts
  <2>2. item' \in [Draft -> {"none", "waiting", "cleared", "sending", "sent", "failed",
                             "blocked", "cancelled"}]
    BY <1>1, <2>1 DEF TypeOK, Check
  <2> QED
    BY <1>1, <2>2 DEF TypeOK, Check
<1>2. CASE SendEmail(d)
  <2>1. /\ item' \in [Draft -> {"none", "waiting", "cleared", "sending", "sent", "failed",
                                 "blocked", "cancelled"}]
        /\ draft' \in [Draft -> {"none", "approved", "cancelled", "sent"}]
        /\ mail' \in [Draft -> {"none", "reserved", "sent"}]
        /\ deciding' \subseteq Draft
    BY <1>2 DEF TypeOK, SendEmail
  <2>2. events' \subseteq Events
    BY <1>2, HappensType DEF TypeOK, SendEmail
  <2> QED
    BY <1>2, <2>1, <2>2 DEF TypeOK, SendEmail
<1>3. CASE Decide(d)
  BY <1>3 DEF TypeOK, Decide
<1>4. CASE Count(d)
  BY <1>4 DEF TypeOK, Count
<1>5. ASSUME NEW n \in Step, Schedule(d, n) PROVE TypeOK'
  BY <1>5 DEF TypeOK, Schedule, Put
<1>6. CASE SenderDies(d)
  <2>1. deciding' \subseteq Draft /\ counting' \subseteq Draft /\ upserts' \subseteq Draft \X Step
    BY <1>6 DEF TypeOK, SenderDies
  <2>2. events' \subseteq Events
    BY <1>6, HappensType DEF SenderDies
  <2> QED
    BY <1>6, <2>1, <2>2 DEF TypeOK, SenderDies
<1> QED
  BY <1>1, <1>2, <1>3, <1>4, <1>5, <1>6 DEF SendStep

(* Replies, users and lost jobs keep the types.                            *)
LEMMA UserType ==
    ASSUME TypeOK,
           \/ StopStep \/ StopDies \/ SetCampaign \/ RemoveLead
           \/ \E n \in Step : LoseJob(n) \/ Skip(n)
           \/ \E d \in Draft : Reject(d)
           \/ \E kind \in {"human", "unsubscribe"} : Reply(kind)
    PROVE  TypeOK'
<1> USE DEF UnchangedByUser, cronVars, hookVars, editorVars, stopVars, afterVars, draftVars
<1>1. CASE StopStep
  BY <1>1 DEF TypeOK, StopStep, StopTasks, StopQueue, Suppress, CancelTasks, CancelItems
<1>2. CASE StopDies \/ SetCampaign
  BY <1>2, HappensType DEF TypeOK, StopDies, SetCampaign
<1>3. CASE RemoveLead
  BY <1>3, HappensType DEF TypeOK, RemoveLead, CancelTasks, CancelItems
<1>4. ASSUME NEW n \in Step, LoseJob(n) PROVE TypeOK'
  <2>1. posts' \in [Step -> Nat] /\ events' \subseteq Events
    BY <1>4, HappensType DEF TypeOK, LoseJob
  <2> QED
    BY <1>4, <2>1 DEF TypeOK, LoseJob, UnchangedByHook
<1>5. ASSUME NEW n \in Step, Skip(n) PROVE TypeOK'
  BY <1>5, HappensType DEF TypeOK, Skip, Put
<1>6. ASSUME NEW d \in Draft, Reject(d) PROVE TypeOK'
  BY <1>6, HappensType DEF TypeOK, Reject
<1>7. ASSUME NEW kind \in {"human", "unsubscribe"}, Reply(kind) PROVE TypeOK'
  BY <1>7, HappensType DEF TypeOK, Reply
<1> QED
  BY <1>1, <1>2, <1>3, <1>4, <1>5, <1>6, <1>7

(* What a request of a user on a draft does.                               *)
EditorAct(e) == EditorStep(e) \/ EditorDies(e) \/ \E d \in Draft : Ask(e, d)

(* Every statement of such a request keeps the types.                      *)
LEMMA EditorType ==
    ASSUME TypeOK, NEW e \in Editor, EditorAct(e)
    PROVE  TypeOK'
<1> USE DEF UnchangedByEditor, cronVars, hookVars, stopVars, afterVars
<1>1. ASSUME NEW where \in {"idle"} \cup EditorBusy, NEW d \in Draft, EditorAt(e, where, d)
      PROVE  epc' \in [Editor -> {"idle"} \cup EditorBusy] /\ edraft' \in [Editor -> Draft]
  <2>1. 0 \in Draft
    BY DEF Draft
  <2> QED
    BY <1>1, <2>1 DEF TypeOK, EditorAt
<1>2. edraft[e] \in Draft /\ 0 \in Draft
  BY DEF TypeOK, Draft
<1>3. ASSUME NEW d \in Draft, Ask(e, d) PROVE TypeOK'
  <2>1. events' \subseteq Events
    BY <1>3, HappensType DEF Ask
  <2>2. epc' \in [Editor -> {"idle"} \cup EditorBusy] /\ edraft' \in [Editor -> Draft]
    BY <1>1, <1>3 DEF Ask, EditorBusy
  <2> QED
    BY <1>3, <2>1, <2>2 DEF TypeOK, Ask
<1>4. CASE AskEditorPolicy(e)
  <2>1. epc' \in [Editor -> {"idle"} \cup EditorBusy] /\ edraft' \in [Editor -> Draft]
    BY <1>1, <1>2, <1>4 DEF AskEditorPolicy, EditorBusy
  <2> QED
    BY <1>4, <2>1 DEF TypeOK, AskEditorPolicy
<1>5. ASSUME NEW d \in Draft, Compose(e, d) PROVE TypeOK'
  <2>1. epc' \in [Editor -> {"idle"} \cup EditorBusy] /\ edraft' \in [Editor -> Draft]
    BY <1>1, <1>5 DEF Compose, EditorBusy
  <2> QED
    BY <1>5, <2>1 DEF TypeOK, Compose, NewDraft
<1>6. CASE NewVersion(e)
  <2>1. epc' \in [Editor -> {"idle"} \cup EditorBusy] /\ edraft' \in [Editor -> Draft]
    BY <1>1, <1>2, <1>6 DEF NewVersion, EditorBusy
  <2> QED
    BY <1>2, <1>6, <2>1 DEF TypeOK, NewVersion
<1>7. CASE Reopen(e)
  <2>1. epc' \in [Editor -> {"idle"} \cup EditorBusy] /\ edraft' \in [Editor -> Draft]
    BY <1>1, <1>2, <1>7 DEF Reopen, EditorBusy
  <2>2. /\ draft' \in [Draft -> {"none", "approved", "cancelled", "sent"}]
        /\ reopened' \subseteq Draft
    BY <1>2, <1>7 DEF TypeOK, Reopen
  <2> QED
    BY <1>7, <2>1, <2>2 DEF TypeOK, Reopen
<1>8. CASE EditorQueues(e)
  <2>1. epc' \in [Editor -> {"idle"} \cup EditorBusy] /\ edraft' \in [Editor -> Draft]
    BY <1>1, <1>2, <1>8 DEF EditorQueues
  <2>2. item' \in [Draft -> {"none", "waiting", "cleared", "sending", "sent", "failed",
                             "blocked", "cancelled"}]
    BY <1>8 DEF TypeOK, EditorQueues
  <2> QED
    BY <1>8, <2>1, <2>2 DEF TypeOK, EditorQueues
<1>9. CASE EditorDies(e)
  <2>1. epc' \in [Editor -> {"idle"} \cup EditorBusy] /\ edraft' \in [Editor -> Draft]
    BY <1>1, <1>2, <1>9 DEF EditorDies
  <2>2. events' \subseteq Events
    BY <1>9, HappensType DEF EditorDies
  <2> QED
    BY <1>9, <2>1, <2>2 DEF TypeOK, EditorDies
<1> QED
  BY <1>3, <1>4, <1>5, <1>6, <1>7, <1>8, <1>9 DEF EditorAct, EditorStep

(* The families of steps, for the case distinctions below.                 *)
UserStep ==
    \/ StopStep \/ StopDies \/ SetCampaign \/ RemoveLead
    \/ \E n \in Step : LoseJob(n) \/ Skip(n)
    \/ \E d \in Draft : Reject(d)
    \/ \E kind \in {"human", "unsubscribe"} : Reply(kind)

(* Every step belongs to a cron, a webhook request, a sender, an editor,   *)
(* or another act of a user.                                               *)
LEMMA Families ==
    ASSUME Next
    PROVE  \/ \E c \in Cron : CronStep(c) \/ CronDies(c)
           \/ \E h \in Hook : HookStep(h) \/ HookFails(h) \/ HookDies(h)
           \/ \E d \in Draft : SendStep(d) \/ SenderDies(d)
           \/ \E e \in Editor : EditorAct(e)
           \/ UserStep
BY DEF Next, Environment, UserStep, EditorAct

(* The rows and the positions of the actors always have the declared type. *)
THEOREM TypeCorrect == Spec => []TypeOK
<1>1. ASSUME TypeOK, [Next]_vars PROVE TypeOK'
  <2>1. CASE UNCHANGED vars
    BY <1>1, <2>1 DEF TypeOK, vars, draftVars, afterVars, cronVars, hookVars, editorVars, stopVars
  <2>2. CASE Next
    BY <1>1, <2>2, Families, CronType, HookType, SendType, EditorType, UserType DEF UserStep
  <2> QED
    BY <1>1, <2>1, <2>2
<1> QED
  BY <1>1, InitType, PTL DEF Spec

-----------------------------------------------------------------------------
(* A task in processing has somebody at work on it                         *)

(* At the start there is no task.                                          *)
LEMMA InitOwned == Init => ProcessingIsOwned
BY DEF Init, ProcessingIsOwned

(* A cron that marks a task goes on to its request; the answer, a failure  *)
(* or its death hands the task over to the worker, back, or to the lost.   *)
LEMMA CronOwned ==
    ASSUME TypeOK, ProcessingIsOwned, NEW c \in Cron, CronStep(c) \/ CronDies(c)
    PROVE  ProcessingIsOwned'
<1> SUFFICES ASSUME NEW n \in Step, task'[n] = "processing"
             PROVE  Working(n)' \/ n \in lost'
  BY DEF ProcessingIsOwned
<1> USE DEF UnchangedByCron, CronGoto, hookVars, CronBusy, Working, ProcessingIsOwned
<1>1. CASE List(c)
  BY <1>1 DEF TypeOK, List
<1>2. CASE NextTask(c)
  BY <1>2 DEF TypeOK, NextTask
<1>3. CASE AskPolicy(c)
  BY <1>3 DEF TypeOK, AskPolicy
<1>4. CASE SkipTask(c) \/ Mark(c) \/ Remark(c) \/ Revert(c)
  BY <1>4 DEF TypeOK, SkipTask, Mark, Remark, Revert, Write, Put
<1>5. CASE Post(c)
  <2>1. at[c] \in Step /\ pc[c] = "post"
    BY <1>5 DEF TypeOK, Post
  <2>2. \A m \in Step : posts'[m] >= posts[m]
    BY <1>5, <2>1 DEF TypeOK, Post
  <2>3. at[c] = n => posts'[n] > 0 \/ pc'[c] = "revert"
    BY <1>5, <2>1 DEF TypeOK, Post
  <2>4. posts[n] \in Nat /\ posts'[n] \in Nat
    BY <1>5, CronType DEF TypeOK, CronStep
  <2>5. Working(n) \/ n \in lost
    BY <1>5 DEF Post
  <2>6. CASE posts[n] > 0
    BY <2>2, <2>4, <2>6
  <2>7. CASE \E h \in Hook : hpc[h] # "idle" /\ hstep[h] = n
    BY <1>5, <2>7 DEF Post
  <2>8. ASSUME NEW b \in Cron, pc[b] \in {"remark", "post", "revert"}, at[b] = n
        PROVE  Working(n)'
    <3>1. CASE b = c
      BY <1>5, <2>1, <2>3, <2>8, <3>1 DEF TypeOK, Post
    <3>2. CASE b # c
      BY <1>5, <2>8, <3>2 DEF TypeOK, Post
    <3> QED
      BY <3>1, <3>2
  <2> QED
    BY <1>5, <2>5, <2>6, <2>7, <2>8 DEF Post
<1>6. CASE CronDies(c)
  BY <1>6 DEF TypeOK, CronDies
<1> QED
  BY <1>1, <1>2, <1>3, <1>4, <1>5, <1>6 DEF CronStep

(* A webhook request works on its task until it completes or releases it;  *)
(* one that dies is repeated or lost.                                      *)
LEMMA HookOwned ==
    ASSUME TypeOK, ProcessingIsOwned, NEW h \in Hook,
           HookStep(h) \/ HookFails(h) \/ HookDies(h)
    PROVE  ProcessingIsOwned'
<1> SUFFICES ASSUME NEW n \in Step, task'[n] = "processing"
             PROVE  Working(n)' \/ n \in lost'
  BY DEF ProcessingIsOwned
<1> USE DEF UnchangedByHook, HookGoto, cronVars, HookBusy, Working, ProcessingIsOwned
<1>1. ASSUME NEW m \in Step, Receive(h, m) PROVE Working(n)' \/ n \in lost'
  <2>1. hpc'[h] = "policy" /\ hstep'[h] = m
    BY <1>1 DEF TypeOK, Receive
  <2>2. CASE n = m
    BY <2>1, <2>2
  <2>3. CASE n # m
    <3>1. posts'[n] = posts[n]
      BY <1>1, <2>3 DEF TypeOK, Receive
    <3> QED
      BY <1>1, <3>1 DEF TypeOK, Receive
  <2> QED
    BY <2>2, <2>3
<1>2. CASE AskDraft(h) \/ AskQueue(h)
  BY <1>2 DEF TypeOK, AskDraft, AskQueue
<1>3. ASSUME NEW d \in Draft, Create(h, d) PROVE Working(n)' \/ n \in lost'
  BY <1>3 DEF TypeOK, Create
<1>4. CASE Enqueue(h)
  <2>1. hpc'[h] # "idle" /\ UNCHANGED <<hstep, posts, task, lost, cronVars>>
        /\ \A g \in Hook : g # h => hpc'[g] = hpc[g]
    BY <1>4 DEF TypeOK, Enqueue
  <2> QED
    BY <1>4, <2>1 DEF TypeOK, Enqueue
<1>5. ASSUME Leave(h), posts'[n] = posts[n], n # hstep[h], task'[n] = task[n], lost \subseteq lost'
      PROVE  Working(n)' \/ n \in lost'
  BY <1>5 DEF TypeOK, Leave
<1>6. CASE Complete(h)
  BY <1>5, <1>6 DEF TypeOK, Complete, Put
<1>7. CASE Release(h)
  <2>1. n # hstep[h] /\ task'[n] = task[n]
    BY <1>7 DEF TypeOK, Release, Released, Put
  <2> QED
    BY <1>5, <1>7, <2>1 DEF Release
<1>8. CASE HookFails(h)
  BY <1>8 DEF TypeOK, HookFails
<1>9. CASE HookDies(h)
  <2>1. n # hstep[h] => posts'[n] = posts[n]
    BY <1>9 DEF TypeOK, HookDies
  <2>2. n = hstep[h] => posts'[n] > 0 \/ n \in lost'
    BY <1>9 DEF TypeOK, HookDies
  <2> QED
    BY <1>5, <1>9, <2>1, <2>2 DEF HookDies
<1> QED
  BY <1>1, <1>2, <1>3, <1>4, <1>6, <1>7, <1>8, <1>9 DEF HookStep

(* A sender touches a task only to schedule it.                            *)
LEMMA SendOwned ==
    ASSUME TypeOK, ProcessingIsOwned, NEW d \in Draft, SendStep(d) \/ SenderDies(d)
    PROVE  ProcessingIsOwned'
<1> USE DEF UnchangedBySend, cronVars, hookVars
<1>1. UNCHANGED <<cronVars, hookVars, posts, lost>>
  BY DEF SendStep, SenderDies, Check, SendEmail, Decide, Count, Schedule
<1>2. \A n \in Step : task'[n] = "processing" => task[n] = "processing"
  BY DEF TypeOK, SendStep, SenderDies, Check, SendEmail, Decide, Count, Schedule, Put
<1> QED
  BY <1>1, <1>2 DEF ProcessingIsOwned, Working

(* No editor touches what ProcessingIsOwned or the order of the steps is   *)
(* about: tasks, crons, webhook requests, upserts.                         *)
LEMMA EditorAside ==
    ASSUME NEW e \in Editor, EditorAct(e)
    PROVE  UNCHANGED <<task, mail, afterVars, cronVars, posts, hookVars, lost>>
BY DEF EditorAct, EditorStep, EditorDies, Ask, AskEditorPolicy, Compose, NewVersion, Reopen,
   EditorQueues, UnchangedByEditor

(* So a task in processing keeps whom it has.                              *)
LEMMA EditorOwned ==
    ASSUME ProcessingIsOwned, NEW e \in Editor, EditorAct(e)
    PROVE  ProcessingIsOwned'
BY EditorAside DEF ProcessingIsOwned, Working, cronVars, hookVars

(* Users cancel and skip tasks; a lost job is remembered.                  *)
LEMMA UserOwned ==
    ASSUME TypeOK, ProcessingIsOwned, UserStep
    PROVE  ProcessingIsOwned'
<1> USE DEF UnchangedByUser, UnchangedByHook, cronVars, hookVars
<1>1. ASSUME NEW m \in Step, LoseJob(m) PROVE ProcessingIsOwned'
  BY <1>1 DEF TypeOK, LoseJob, ProcessingIsOwned, Working
<1>2. CASE ~(\E m \in Step : LoseJob(m))
  <2>1. UNCHANGED <<cronVars, hookVars, posts, lost>>
    BY <1>2 DEF UserStep, StopStep, StopTasks, StopQueue, Suppress, StopDies, SetCampaign,
       RemoveLead, Skip, Reject, Reply
  <2>2. \A n \in Step : task'[n] = "processing" => task[n] = "processing"
    BY <1>2 DEF TypeOK, UserStep, StopStep, StopTasks, StopQueue, Suppress, StopDies,
       SetCampaign, RemoveLead, Skip, Reject, Reply, CancelTasks, Put
  <2> QED
    BY <2>1, <2>2 DEF ProcessingIsOwned, Working
<1> QED
  BY <1>1, <1>2

(* Unless a job or a request was lost, no task is left in processing with  *)
(* nobody to take it out: however crons, requests and faults interleave.   *)
THEOREM ProcessingOwned == Spec => []ProcessingIsOwned
<1>1. ASSUME TypeOK, ProcessingIsOwned, [Next]_vars PROVE ProcessingIsOwned'
  <2>1. CASE UNCHANGED vars
    BY <1>1, <2>1 DEF ProcessingIsOwned, Working, vars, cronVars, hookVars
  <2>2. CASE Next
    BY <1>1, <2>2, Families, CronOwned, HookOwned, SendOwned, EditorOwned, UserOwned
  <2> QED
    BY <1>1, <2>1, <2>2
<1> QED
  BY <1>1, InitOwned, TypeCorrect, PTL DEF Spec

-----------------------------------------------------------------------------
(* Overlapping requests: open drafts and e-mails                           *)

Request == Hook \cup Editor
OpenDrafts == {d \in Draft : Open(d)} \ reopened
Creators == {h \in Hook : hpc[h] = "create"} \cup {e \in Editor : epc[e] = "create"}
Queued == {d \in Draft : item[d] \in {"waiting", "cleared"}}

(* Past canQueueSend; Telegram writes the draft in between.                *)
Queuers ==
    {h \in Hook : hpc[h] = "queue"}
        \cup {e \in Editor : epc[e] \in {"mark", "queue", "queueNew"}}

(* The first draft is created when there is no open one, and whoever then  *)
(* still asks is refused: the requests past canDraftEmail are among those  *)
(* that overlap it.                                                        *)
DraftOverlap ==
    OpenDrafts # {} => Cardinality(OpenDrafts) + Cardinality(Creators) <= Cardinality(Request)

(* The same of the queue, with canQueueSend.                               *)
QueueOverlap ==
    Queued # {} => Cardinality(Queued) + Cardinality(Queuers) <= Cardinality(Request)

(* Two finite sets that shrink stay within the bound on their sizes.       *)
LEMMA SumShrinks ==
    ASSUME NEW S, NEW T, IsFiniteSet(S), IsFiniteSet(T),
           NEW U \in SUBSET S, NEW V \in SUBSET T, NEW n \in Nat,
           Cardinality(S) + Cardinality(T) <= n
    PROVE  Cardinality(U) + Cardinality(V) <= n
<1>1. /\ Cardinality(U) <= Cardinality(S) /\ Cardinality(V) <= Cardinality(T)
      /\ IsFiniteSet(U) /\ IsFiniteSet(V)
  BY FS_Subset
<1>2. /\ Cardinality(S) \in Nat /\ Cardinality(T) \in Nat
      /\ Cardinality(U) \in Nat /\ Cardinality(V) \in Nat
  BY <1>1, FS_CardinalityType
<1> QED
  BY <1>1, <1>2

(* When one member moves from the second set to the first, the sum of      *)
(* their sizes does not grow.                                              *)
LEMMA SumMoves ==
    ASSUME NEW S, NEW T, IsFiniteSet(S), IsFiniteSet(T),
           NEW U, NEW x, U \subseteq S \cup {x},
           NEW y \in T, NEW n \in Nat,
           Cardinality(S) + Cardinality(T) <= n
    PROVE  Cardinality(U) + Cardinality(T \ {y}) <= n
<1>1. /\ Cardinality(S \cup {x}) <= Cardinality(S) + 1
      /\ IsFiniteSet(S \cup {x})
      /\ Cardinality(S) \in Nat
  <2>1. Cardinality(S) \in Nat
    BY FS_CardinalityType
  <2>2. /\ IsFiniteSet(S \cup {x})
        /\ Cardinality(S \cup {x}) \in {Cardinality(S), Cardinality(S) + 1}
    BY FS_AddElement
  <2> QED
    BY <2>1, <2>2
<1>2. /\ Cardinality(U) <= Cardinality(S \cup {x})
      /\ Cardinality(U) \in Nat
      /\ Cardinality(S \cup {x}) \in Nat
  <2>1. IsFiniteSet(U) /\ Cardinality(U) <= Cardinality(S \cup {x})
    BY <1>1, FS_Subset
  <2> QED
    BY <1>1, <2>1, FS_CardinalityType
<1>3. /\ Cardinality(T \ {y}) = Cardinality(T) - 1
      /\ Cardinality(T) \in Nat
  BY FS_RemoveElement, FS_CardinalityType
<1> QED
  BY <1>1, <1>2, <1>3

(* The sets that are counted are finite.                                   *)
LEMMA Finite ==
    /\ IsFiniteSet(Draft) /\ IsFiniteSet(OpenDrafts) /\ IsFiniteSet(Queued)
    /\ IsFiniteSet(Attempted) /\ IsFiniteSet(Cleared)
    /\ IsFiniteSet(Creators) /\ IsFiniteSet(Queuers)
    /\ Cardinality(Request) \in Nat /\ Cardinality(Request) >= 1
    /\ Cardinality(Creators) <= Cardinality(Request) /\ Cardinality(Creators) \in Nat
    /\ Cardinality(Queuers) <= Cardinality(Request) /\ Cardinality(Queuers) \in Nat
<1>1. IsFiniteSet(Draft)
  BY FS_Interval DEF Draft
<1>2. /\ OpenDrafts \subseteq Draft /\ Queued \subseteq Draft
      /\ Attempted \subseteq Draft /\ Cleared \subseteq Draft
      /\ Creators \subseteq Request /\ Queuers \subseteq Request
  BY DEF OpenDrafts, Queued, Attempted, Cleared, Creators, Queuers, Request
<1>0. IsFiniteSet(Request) /\ Request # {}
  BY FS_Union DEF Request
<1>3. /\ IsFiniteSet(OpenDrafts) /\ IsFiniteSet(Queued)
      /\ IsFiniteSet(Attempted) /\ IsFiniteSet(Cleared)
      /\ IsFiniteSet(Creators) /\ IsFiniteSet(Queuers)
      /\ Cardinality(Creators) <= Cardinality(Request)
      /\ Cardinality(Queuers) <= Cardinality(Request)
  BY <1>0, <1>1, <1>2, FS_Subset
<1>4. Cardinality(Request) # 0 /\ Cardinality(Request) \in Nat
  BY <1>0, FS_EmptySet, FS_CardinalityType
<1> QED
  BY <1>1, <1>3, <1>4, FS_CardinalityType

(* Only Create and Compose open a draft that was not opened again, and     *)
(* only canDraftEmail lets a request create one, when none is open.        *)
LEMMA DraftSteps ==
    ASSUME TypeOK, Next
    PROVE  \/ OpenDrafts' \subseteq OpenDrafts /\ Creators' \subseteq Creators
           \/ OpenDrafts = {} /\ OpenDrafts' = {}
           \/ \E h \in Creators, d \in Draft :
                  OpenDrafts' \subseteq OpenDrafts \cup {d} /\ Creators' = Creators \ {h}
<1> USE DEF OpenDrafts, Creators, Open
<1>1. ASSUME NEW c \in Cron, CronStep(c) \/ CronDies(c) PROVE UNCHANGED <<draft, reopened, hpc, epc>>
  BY <1>1 DEF CronStep, CronDies, List, NextTask, AskPolicy, SkipTask, Mark, Remark, Revert, Write,
     Post, UnchangedByCron, draftVars, hookVars, editorVars
<1>2. ASSUME NEW h \in Hook, HookStep(h) \/ HookFails(h) \/ HookDies(h)
      PROVE  \/ OpenDrafts' \subseteq OpenDrafts /\ Creators' \subseteq Creators
             \/ OpenDrafts = {} /\ OpenDrafts' = {}
             \/ \E d \in Draft :
                    /\ OpenDrafts' \subseteq OpenDrafts \cup {d}
                    /\ h \in Creators /\ Creators' = Creators \ {h}
  <2>0. UNCHANGED <<epc, reopened>>
    BY <1>2 DEF HookStep, HookFails, HookDies, AskDraft, Create, NewDraft, AskQueue, Enqueue, Complete,
       Release, Receive, Leave, UnchangedByHook, editorVars, draftVars
  <2>1. CASE AskDraft(h)
    BY <2>0, <2>1 DEF TypeOK, AskDraft, CanDraftEmail, HookGoto, draftVars
  <2>2. ASSUME NEW d \in Draft, Create(h, d)
        PROVE  /\ OpenDrafts' \subseteq OpenDrafts \cup {d}
               /\ h \in Creators /\ Creators' = Creators \ {h}
    BY <2>0, <2>2 DEF TypeOK, Create, NewDraft, HookGoto
  <2>3. CASE HookFails(h) \/ HookDies(h) \/ AskQueue(h) \/ Enqueue(h) \/ Complete(h) \/ Release(h)
             \/ \E n \in Step : Receive(h, n)
    BY <2>0, <2>3 DEF TypeOK, HookFails, HookDies, AskQueue, Enqueue, Complete, Release, Receive, Leave,
       HookGoto, draftVars
  <2> QED
    BY <1>2, <2>1, <2>2, <2>3 DEF HookStep
<1>3. ASSUME NEW d \in Draft, SendStep(d) \/ SenderDies(d)
      PROVE  OpenDrafts' \subseteq OpenDrafts /\ UNCHANGED <<hpc, epc>>
  BY <1>3 DEF TypeOK, SendStep, SenderDies, Check, SendEmail, Decide, Count, Schedule,
     UnchangedBySend, hookVars, editorVars
<1>4. ASSUME UserStep PROVE OpenDrafts' \subseteq OpenDrafts /\ UNCHANGED <<hpc, epc>>
  BY <1>4 DEF TypeOK, UserStep, StopStep, StopTasks, StopQueue, Suppress, StopDies, SetCampaign,
     RemoveLead, Skip, Reject, Reply, LoseJob, UnchangedByUser, UnchangedByHook, hookVars, draftVars,
     editorVars
<1>5. ASSUME NEW e \in Editor, EditorAct(e)
      PROVE  \/ OpenDrafts' \subseteq OpenDrafts /\ Creators' \subseteq Creators
             \/ OpenDrafts = {} /\ OpenDrafts' = {}
             \/ \E d \in Draft :
                    /\ OpenDrafts' \subseteq OpenDrafts \cup {d}
                    /\ e \in Creators /\ Creators' = Creators \ {e}
  <2>0. UNCHANGED hpc /\ e \notin Hook /\ \A f \in Editor : f # e => epc'[f] = epc[f]
    BY <1>5, EditorAside DEF TypeOK, EditorAct, EditorStep, EditorDies, Ask, AskEditorPolicy, Compose,
       NewVersion, Reopen, EditorQueues, EditorAt, hookVars
  <2>1. CASE AskEditorPolicy(e)
    <3>1. UNCHANGED <<draft, reopened>> /\ (epc'[e] = "create" => CanDraftEmail)
      BY <2>1 DEF TypeOK, AskEditorPolicy, EditorAt
    <3>2. CASE epc'[e] = "create"
      BY <3>1, <3>2 DEF CanDraftEmail
    <3>3. CASE epc'[e] # "create"
      BY <2>0, <3>1, <3>3
    <3> QED
      BY <3>2, <3>3
  <2>2. ASSUME NEW d \in Draft, Compose(e, d)
        PROVE  /\ OpenDrafts' \subseteq OpenDrafts \cup {d}
               /\ e \in Creators /\ Creators' = Creators \ {e}
    <3>1. OpenDrafts' \subseteq OpenDrafts \cup {d} /\ epc[e] = "create" /\ epc'[e] = "askNew"
      BY <2>2 DEF TypeOK, Compose, NewDraft, EditorAt
    <3> QED
      BY <2>0, <3>1
  <2>3. CASE Reopen(e)
    <3>1. OpenDrafts' \subseteq OpenDrafts
      BY <2>3 DEF TypeOK, Reopen
    <3>2. epc'[e] # "create"
      BY <2>3 DEF TypeOK, Reopen, EditorAt
    <3> QED
      BY <2>0, <3>1, <3>2
  <2>4. CASE NewVersion(e) \/ EditorQueues(e) \/ EditorDies(e) \/ \E d \in Draft : Ask(e, d)
    <3>1. UNCHANGED <<draft, reopened>> /\ epc'[e] # "create"
      BY <2>4 DEF TypeOK, NewVersion, EditorQueues, EditorDies, Ask, EditorAt
    <3> QED
      BY <2>0, <3>1
  <2> QED
    BY <1>5, <2>1, <2>2, <2>3, <2>4 DEF EditorAct, EditorStep
<1> QED
  BY <1>1, <1>2, <1>3, <1>4, <1>5, Families

(* Requests that overlap may leave several open drafts, but never more     *)
(* than overlap.                                                           *)
THEOREM OpenDraftsBound == Spec => []OpenDraftsBounded
<1>1. Init => DraftOverlap
  <2> SUFFICES ASSUME Init PROVE Cardinality(OpenDrafts) + Cardinality(Creators) <= Cardinality(Request)
    BY DEF DraftOverlap
  <2>1. OpenDrafts = {0} /\ Creators = {}
    BY DEF Init, OpenDrafts, Open, Creators, Draft
  <2>2. Cardinality({0}) = 1 /\ Cardinality({}) = 0
    BY FS_EmptySet, FS_Singleton
  <2> QED
    BY <2>1, <2>2, Finite
<1>2. ASSUME TypeOK, DraftOverlap, [Next]_vars PROVE DraftOverlap'
  <2>1. CASE UNCHANGED vars
    BY <1>2, <2>1 DEF DraftOverlap, OpenDrafts, Open, Creators, vars, draftVars, hookVars, editorVars
  <2>2. CASE OpenDrafts' \subseteq OpenDrafts /\ Creators' \subseteq Creators
    BY <1>2, <2>2, Finite, SumShrinks DEF DraftOverlap
  <2>3. CASE OpenDrafts = {} /\ OpenDrafts' = {}
    BY <2>3 DEF DraftOverlap
  <2>4. ASSUME NEW h \in Creators, NEW d \in Draft,
               OpenDrafts' \subseteq OpenDrafts \cup {d}, Creators' = Creators \ {h}
        PROVE  DraftOverlap'
    <3>1. CASE OpenDrafts = {}
      <4>1. Cardinality(OpenDrafts) = 0
        BY <3>1, FS_EmptySet
      <4>2. Cardinality(OpenDrafts) + Cardinality(Creators) <= Cardinality(Request)
        BY <4>1, Finite
      <4>3. Cardinality(OpenDrafts') + Cardinality(Creators \ {h}) <= Cardinality(Request)
        BY <2>4, <4>2, Finite, SumMoves
      <4> QED
        BY <2>4, <4>3 DEF DraftOverlap
    <3>2. CASE OpenDrafts # {}
      <4>1. Cardinality(OpenDrafts') + Cardinality(Creators \ {h}) <= Cardinality(Request)
        BY <1>2, <2>4, <3>2, Finite, SumMoves DEF DraftOverlap
      <4> QED
        BY <2>4, <4>1 DEF DraftOverlap
    <3> QED
      BY <3>1, <3>2
  <2> QED
    BY <1>2, <2>1, <2>2, <2>3, <2>4, DraftSteps
<1>3. ASSUME DraftOverlap PROVE OpenDraftsBounded
  <2>1. CASE OpenDrafts = {}
    BY <2>1, Finite, FS_EmptySet DEF OpenDraftsBounded, OpenDrafts, Request
  <2>2. CASE OpenDrafts # {}
    <3>1. Cardinality(OpenDrafts) \in Nat
      BY Finite, FS_CardinalityType
    <3>2. Cardinality(OpenDrafts) <= Cardinality(Request)
      BY <1>3, <2>2, <3>1, Finite DEF DraftOverlap
    <3> QED
      BY <3>2 DEF OpenDraftsBounded, OpenDrafts, Request
  <2> QED
    BY <2>1, <2>2
<1> QED
  BY <1>1, <1>2, <1>3, TypeCorrect, PTL DEF Spec

(* Only Enqueue and EditorQueues queue a draft, and only canQueueSend lets *)
(* a request do so, when nothing is queued.                                *)
LEMMA QueueSteps ==
    ASSUME TypeOK, Next
    PROVE  \/ Queued' \subseteq Queued /\ Queuers' \subseteq Queuers
           \/ Queued = {} /\ Queued' = {}
           \/ \E h \in Queuers, d \in Draft :
                  Queued' \subseteq Queued \cup {d} /\ Queuers' = Queuers \ {h}
<1> USE DEF Queued, Queuers
<1>1. ASSUME NEW c \in Cron, CronStep(c) \/ CronDies(c) PROVE UNCHANGED <<item, hpc, epc>>
  BY <1>1 DEF CronStep, CronDies, List, NextTask, AskPolicy, SkipTask, Mark, Remark, Revert, Write,
     Post, UnchangedByCron, draftVars, hookVars, editorVars
<1>2. ASSUME NEW h \in Hook, HookStep(h) \/ HookFails(h) \/ HookDies(h)
      PROVE  \/ Queued' \subseteq Queued /\ Queuers' \subseteq Queuers
             \/ Queued = {} /\ Queued' = {}
             \/ \E d \in Draft :
                    /\ Queued' \subseteq Queued \cup {d}
                    /\ h \in Queuers /\ Queuers' = Queuers \ {h}
  <2>0. UNCHANGED epc /\ h \notin Editor
    BY <1>2 DEF HookStep, HookFails, HookDies, AskDraft, Create, AskQueue, Enqueue, Complete,
       Release, Receive, UnchangedByHook, Leave, editorVars
  <2>1. CASE AskQueue(h)
    BY <2>0, <2>1 DEF TypeOK, AskQueue, CanQueueSend, HookGoto, draftVars
  <2>2. ASSUME Enqueue(h)
        PROVE  /\ hdraft[h] \in Draft /\ Queued' \subseteq Queued \cup {hdraft[h]}
               /\ h \in Queuers /\ Queuers' = Queuers \ {h}
    <3>1. /\ hdraft[h] \in Draft /\ Queued' \subseteq Queued \cup {hdraft[h]}
          /\ hpc[h] = "queue" /\ hpc'[h] # "queue"
          /\ \A g \in Hook : g # h => hpc'[g] = hpc[g]
      BY <2>2 DEF TypeOK, Enqueue, HookGoto
    <3> QED
      BY <2>0, <3>1
  <2>3. CASE HookFails(h) \/ HookDies(h) \/ AskDraft(h) \/ (\E d \in Draft : Create(h, d))
             \/ Complete(h) \/ Release(h) \/ \E n \in Step : Receive(h, n)
    BY <2>0, <2>3 DEF TypeOK, HookFails, HookDies, AskDraft, Create, NewDraft, Complete, Release,
       Receive, Leave, HookGoto, draftVars
  <2> QED
    BY <1>2, <2>1, <2>2, <2>3 DEF HookStep
<1>3. ASSUME NEW d \in Draft, SendStep(d) \/ SenderDies(d)
      PROVE  Queued' \subseteq Queued /\ UNCHANGED <<hpc, epc>>
  BY <1>3 DEF TypeOK, SendStep, SenderDies, Check, SendEmail, Decide, Count, Schedule,
     UnchangedBySend, hookVars, editorVars
<1>4. ASSUME UserStep PROVE Queued' \subseteq Queued /\ UNCHANGED <<hpc, epc>>
  BY <1>4 DEF TypeOK, UserStep, StopStep, StopTasks, StopQueue, Suppress, StopDies, SetCampaign,
     RemoveLead, Skip, Reject, Reply, LoseJob, CancelItems, UnchangedByUser, UnchangedByHook,
     hookVars, draftVars, editorVars
<1>5. ASSUME NEW e \in Editor, EditorAct(e)
      PROVE  \/ Queued' \subseteq Queued /\ Queuers' \subseteq Queuers
             \/ Queued = {} /\ Queued' = {}
             \/ \E d \in Draft :
                    /\ Queued' \subseteq Queued \cup {d}
                    /\ e \in Queuers /\ Queuers' = Queuers \ {e}
  <2>0. UNCHANGED hpc /\ e \notin Hook /\ \A f \in Editor : f # e => epc'[f] = epc[f]
    BY <1>5, EditorAside DEF TypeOK, EditorAct, EditorStep, EditorDies, Ask, AskEditorPolicy, Compose,
       NewVersion, Reopen, EditorQueues, EditorAt, hookVars
  <2>1. CASE AskEditorPolicy(e)
    <3>1. UNCHANGED item /\ (epc'[e] \in {"mark", "queue", "queueNew"} => CanQueueSend)
      BY <2>1 DEF TypeOK, AskEditorPolicy, EditorAt
    <3>2. CASE CanQueueSend
      BY <3>1, <3>2 DEF CanQueueSend
    <3>3. CASE epc'[e] \notin {"mark", "queue", "queueNew"}
      BY <2>0, <3>1, <3>3
    <3> QED
      BY <3>1, <3>2, <3>3
  <2>2. CASE EditorQueues(e)
    <3>1. /\ edraft[e] \in Draft /\ Queued' \subseteq Queued \cup {edraft[e]}
          /\ epc[e] \in {"mark", "queue", "queueNew"} /\ epc'[e] = "idle"
      BY <2>2 DEF TypeOK, EditorQueues, EditorAt
    <3> QED
      BY <2>0, <3>1
  <2>3. CASE Reopen(e)
    <3>1. UNCHANGED item /\ (epc'[e] \in {"mark", "queue", "queueNew"} => epc[e] = "mark")
      BY <2>3 DEF TypeOK, Reopen, EditorAt
    <3> QED
      BY <2>0, <3>1
  <2>4. CASE \/ NewVersion(e) \/ EditorDies(e) \/ \E d \in Draft : Ask(e, d) \/ Compose(e, d)
    <3>1. UNCHANGED item /\ epc'[e] \notin {"mark", "queue", "queueNew"}
      BY <2>4 DEF TypeOK, NewVersion, EditorDies, Ask, Compose, NewDraft, EditorAt
    <3> QED
      BY <2>0, <3>1
  <2> QED
    BY <1>5, <2>1, <2>2, <2>3, <2>4 DEF EditorAct, EditorStep
<1> QED
  BY <1>1, <1>2, <1>3, <1>4, <1>5, Families

(* What is queued when something is queued first is what overlaps.         *)
LEMMA QueueOverlapHolds == Spec => []QueueOverlap
<1>1. Init => QueueOverlap
  <2> SUFFICES ASSUME Init PROVE Cardinality(Queued) + Cardinality(Queuers) <= Cardinality(Request)
    BY DEF QueueOverlap
  <2>1. Queued = {0} /\ Queuers = {}
    BY DEF Init, Queued, Queuers, Draft
  <2>2. Cardinality({0}) = 1 /\ Cardinality({}) = 0
    BY FS_EmptySet, FS_Singleton
  <2> QED
    BY <2>1, <2>2, Finite
<1>2. ASSUME TypeOK, QueueOverlap, [Next]_vars PROVE QueueOverlap'
  <2>1. CASE UNCHANGED vars
    BY <1>2, <2>1 DEF QueueOverlap, Queued, Queuers, vars, draftVars, hookVars, editorVars
  <2>2. CASE Queued' \subseteq Queued /\ Queuers' \subseteq Queuers
    BY <1>2, <2>2, Finite, SumShrinks DEF QueueOverlap
  <2>3. CASE Queued = {} /\ Queued' = {}
    BY <2>3 DEF QueueOverlap
  <2>4. ASSUME NEW h \in Queuers, NEW d \in Draft,
               Queued' \subseteq Queued \cup {d}, Queuers' = Queuers \ {h}
        PROVE  QueueOverlap'
    <3>1. CASE Queued = {}
      <4>1. Cardinality(Queued) = 0
        BY <3>1, FS_EmptySet
      <4>2. Cardinality(Queued) + Cardinality(Queuers) <= Cardinality(Request)
        BY <4>1, Finite
      <4>3. Cardinality(Queued') + Cardinality(Queuers \ {h}) <= Cardinality(Request)
        BY <2>4, <4>2, Finite, SumMoves
      <4> QED
        BY <2>4, <4>3 DEF QueueOverlap
    <3>2. CASE Queued # {}
      <4>1. Cardinality(Queued') + Cardinality(Queuers \ {h}) <= Cardinality(Request)
        BY <1>2, <2>4, <3>2, Finite, SumMoves DEF QueueOverlap
      <4> QED
        BY <2>4, <4>1 DEF QueueOverlap
    <3> QED
      BY <3>1, <3>2
  <2> QED
    BY <1>2, <2>1, <2>2, <2>3, <2>4, QueueSteps
<1> QED
  BY <1>1, <1>2, TypeCorrect, PTL DEF Spec

(* The e-mails made and under way grow only when canSendNow clears one.    *)
LEMMA EmailSteps ==
    ASSUME TypeOK, Next
    PROVE  \/ Attempted' \cup Cleared' \subseteq Attempted \cup Cleared
           \/ /\ Cardinality(Attempted) <= MaxFollowUps
              /\ \E d \in Queued : Attempted' = Attempted /\ Cleared' = Cleared \cup {d}
<1> USE DEF Queued, Attempted, Cleared
<1>1. ASSUME NEW c \in Cron, CronStep(c) \/ CronDies(c) PROVE UNCHANGED <<item, mail>>
  BY <1>1 DEF CronStep, CronDies, List, NextTask, AskPolicy, SkipTask, Mark, Remark, Revert, Write,
     Post, UnchangedByCron, draftVars
<1>2. ASSUME NEW h \in Hook, HookStep(h) \/ HookFails(h) \/ HookDies(h)
      PROVE  Attempted' \cup Cleared' \subseteq Attempted \cup Cleared
  BY <1>2 DEF TypeOK, HookStep, HookFails, HookDies, AskDraft, Create, NewDraft, AskQueue, Enqueue,
     Complete, Release, Receive, Leave, draftVars
<1>3. ASSUME NEW d \in Draft, Check(d)
      PROVE  \/ Attempted' \cup Cleared' \subseteq Attempted \cup Cleared
             \/ /\ Cardinality(Attempted) <= MaxFollowUps /\ d \in Queued
                /\ Attempted' = Attempted /\ Cleared' = Cleared \cup {d}
  <2>1. CASE CanSendNow
    <3>1. Cardinality(Attempted) <= MaxFollowUps
      BY <2>1 DEF CanSendNow
    <3>2. d \in Queued /\ Attempted' = Attempted
      BY <1>3 DEF Check
    <3>3. Cleared' = Cleared \cup {d} \/ Cleared' \subseteq Cleared
      BY <1>3 DEF TypeOK, Check
    <3> QED
      BY <3>1, <3>2, <3>3
  <2>2. CASE ~CanSendNow
    BY <1>3, <2>2 DEF TypeOK, Check, Verdicts
  <2> QED
    BY <2>1, <2>2
<1>4. ASSUME NEW d \in Draft, SendStep(d) \/ SenderDies(d), ~Check(d)
      PROVE  Attempted' \cup Cleared' \subseteq Attempted \cup Cleared
  BY <1>4 DEF TypeOK, SendStep, SenderDies, SendEmail, Decide, Count, Schedule, UnchangedBySend
<1>5. ASSUME UserStep PROVE Attempted' \cup Cleared' \subseteq Attempted \cup Cleared
  BY <1>5 DEF TypeOK, UserStep, StopStep, StopTasks, StopQueue, Suppress, StopDies, SetCampaign,
     RemoveLead, Skip, Reject, Reply, LoseJob, CancelItems, UnchangedByUser, UnchangedByHook,
     draftVars
<1>6. ASSUME NEW e \in Editor, EditorAct(e)
      PROVE  Attempted' \cup Cleared' \subseteq Attempted \cup Cleared
  <2>1. UNCHANGED mail
    BY <1>6, EditorAside
  <2>2. UNCHANGED item \/ EditorQueues(e)
    BY <1>6 DEF EditorAct, EditorStep, EditorDies, Ask, AskEditorPolicy, Compose, NewDraft,
       NewVersion, Reopen
  <2>3. CASE EditorQueues(e)
    BY <2>1, <2>3 DEF TypeOK, EditorQueues
  <2> QED
    BY <2>1, <2>2, <2>3
<1> QED
  BY <1>1, <1>2, <1>3, <1>4, <1>5, <1>6, Families

(* Whatever is dispatched or delivered twice, the e-mails of the sequence  *)
(* exceed the campaign's limit, and the first one, by less than the        *)
(* requests that overlap: canSendNow counts the attempts, and what it may  *)
(* clear at one count was queued together.                                 *)
THEOREM EmailsBound == Spec => []EmailsBounded
<1>1. Init => EmailsBounded
  <2> SUFFICES ASSUME Init PROVE EmailsBounded
    OBVIOUS
  <2>1. Attempted \cup Cleared = {}
    BY DEF Init, Attempted, Cleared
  <2>2. Cardinality(Attempted \cup Cleared) = 0
    BY <2>1, FS_EmptySet
  <2> QED
    BY <2>2, Finite DEF EmailsBounded, Request
<1>2. ASSUME TypeOK, QueueOverlap, QueueOverlap', EmailsBounded, [Next]_vars
      PROVE  EmailsBounded'
  <2>1. IsFiniteSet(Attempted \cup Cleared) /\ Cardinality(Attempted \cup Cleared) \in Nat
    BY Finite, FS_Union, FS_CardinalityType
  <2>2. ASSUME Attempted' \cup Cleared' \subseteq Attempted \cup Cleared PROVE EmailsBounded'
    <3>1. /\ Cardinality(Attempted' \cup Cleared') <= Cardinality(Attempted \cup Cleared)
          /\ IsFiniteSet(Attempted' \cup Cleared')
      BY <2>1, <2>2, FS_Subset
    <3>2. Cardinality(Attempted' \cup Cleared') \in Nat
      BY <3>1, FS_CardinalityType
    <3> QED
      BY <1>2, <2>1, <3>1, <3>2, Finite DEF EmailsBounded, Request
  <2>3. CASE UNCHANGED vars
    BY <2>2, <2>3 DEF Attempted, Cleared, vars, draftVars
  <2>4. ASSUME Cardinality(Attempted) <= MaxFollowUps, NEW d \in Queued,
               Attempted' = Attempted, Cleared' = Cleared \cup {d}
        PROVE  EmailsBounded'
    <3>1. Cleared \cup {d} \subseteq Queued
      BY DEF Cleared, Queued
    <3>2. Cardinality(Queued) <= Cardinality(Request)
      <4>1. Cardinality(Queued) \in Nat
        BY Finite, FS_CardinalityType
      <4> QED
        BY <1>2, <4>1, Finite DEF QueueOverlap
    <3>3. /\ IsFiniteSet(Cleared \cup {d})
          /\ Cardinality(Cleared \cup {d}) <= Cardinality(Queued)
      BY <3>1, Finite, FS_Subset
    <3>4. /\ Cardinality(Attempted) \in Nat /\ Cardinality(Cleared \cup {d}) \in Nat
          /\ Cardinality(Queued) \in Nat
      BY <3>3, Finite, FS_CardinalityType
    <3>5. Cardinality(Attempted \cup (Cleared \cup {d}))
            <= Cardinality(Attempted) + Cardinality(Cleared \cup {d})
      <4>1. IsFiniteSet(Attempted \cap (Cleared \cup {d}))
        BY Finite, FS_Subset
      <4>2. Cardinality(Attempted \cap (Cleared \cup {d})) \in Nat
        BY <4>1, FS_CardinalityType
      <4>3. Cardinality(Attempted \cup (Cleared \cup {d}))
              = Cardinality(Attempted) + Cardinality(Cleared \cup {d})
                  - Cardinality(Attempted \cap (Cleared \cup {d}))
        BY <3>3, Finite, FS_Union
      <4> QED
        BY <3>4, <4>2, <4>3
    <3>6. Cardinality(Attempted \cup (Cleared \cup {d})) \in Nat
      BY <3>3, Finite, FS_Union, FS_CardinalityType
    <3>7. Cardinality(Attempted \cup (Cleared \cup {d})) <= MaxFollowUps + Cardinality(Request)
      BY <2>4, <3>2, <3>3, <3>4, <3>5, <3>6, Finite
    <3> QED
      BY <2>4, <3>7 DEF EmailsBounded, Request
  <2> QED
    BY <1>2, <2>2, <2>3, <2>4, EmailSteps
<1> QED
  BY <1>1, <1>2, TypeCorrect, QueueOverlapHolds, PTL DEF Spec

-----------------------------------------------------------------------------
(* The order of the steps                                                  *)

Exists(n) == task[n] # "none"
HasDraft(n) == \E d \in Draft : draft[d] # "none" /\ step[d] = n
Due(n) == (\A m \in Step : m < n => Exists(m)) /\ \A m \in 0..(n - 1) : HasDraft(m)

(* Crons, the worker and its requests handle existing tasks only: an       *)
(* update by id never makes a new one.                                     *)
HandledExist ==
    /\ \A c \in Cron : (\A n \in todo[c] : Exists(n)) /\ (at[c] # 0 => Exists(at[c]))
    /\ \A n \in Step : posts[n] > 0 => Exists(n)
    /\ \A h \in Hook : hstep[h] # 0 => Exists(hstep[h])

(* A request that goes on to complete its task has made its draft.         *)
HookHasDraft ==
    \A h \in Hook : hpc[h] \in {"ask", "queue", "complete"} =>
        draft[hdraft[h]] # "none" /\ step[hdraft[h]] = hstep[h]

(* A step exists, and is about to be upserted, only when it is due: all    *)
(* steps before have a task and a draft.                                   *)
StepsDue ==
    /\ HasDraft(0)
    /\ \A n \in Step : task[n] = "completed" => HasDraft(n)
    /\ \A n \in Step : Exists(n) => Due(n)
    /\ \A d \in Draft, n \in Step : <<d, n>> \in upserts => Due(n)

OrderInv == HandledExist /\ HookHasDraft /\ StepsDue

(* Completed tasks are among the existing ones, so their number says that  *)
(* the next step is due, whichever of them were completed.                 *)
LEMMA NextStepDue ==
    ASSUME TypeOK, StepsDue, NextStep \in Step
    PROVE  Due(NextStep)
<1> DEFINE k == Cardinality(Completed)
<1>0. k \in Nat /\ NextStep = k + 1 /\ Limit \in Nat
  <2>1. Limit \in Nat
    BY DEF Limit
  <2>2. IsFiniteSet(Step) /\ Completed \subseteq Step
    BY <2>1, FS_Interval DEF Step, Completed
  <2>3. IsFiniteSet(Completed)
    BY <2>2, FS_Subset
  <2> QED
    BY <2>1, <2>3, FS_CardinalityType DEF NextStep
<1>1. ASSUME NEW m \in 1..k PROVE Exists(m) /\ HasDraft(m)
  <2>1. \E n \in Completed : n >= m
    <3> SUFFICES ASSUME \A n \in Completed : n < m PROVE FALSE
      BY <1>0 DEF Completed, Step
    <3>1. Completed \subseteq 1..(m - 1)
      BY <1>0 DEF Completed, Step
    <3>2. IsFiniteSet(1..(m - 1)) /\ Cardinality(1..(m - 1)) = m - 1
      <4>1. m \in Nat /\ m >= 1 /\ 1 \in Int /\ m - 1 \in Int
        BY <1>0
      <4>2. Cardinality(1..(m - 1)) = IF 1 > m - 1 THEN 0 ELSE (m - 1) - 1 + 1
        BY <4>1, FS_Interval
      <4>3. IsFiniteSet(1..(m - 1))
        BY <4>1, FS_Interval
      <4> QED
        BY <4>1, <4>2, <4>3
    <3>3. k <= m - 1
      BY <3>1, <3>2, FS_Subset
    <3> QED
      BY <1>0, <3>3
  <2>2. PICK n \in Completed : n >= m
    BY <2>1
  <2>3. n \in Step /\ task[n] = "completed" /\ m \in Step
    BY <1>0, <2>2 DEF Completed, Step
  <2>4. HasDraft(n) /\ Exists(n) /\ Due(n)
    BY <2>3 DEF StepsDue, Exists
  <2>5. CASE m = n
    BY <2>4, <2>5
  <2>6. CASE m < n
    <3>1. m \in 0..(n - 1)
      BY <1>0, <2>3, <2>6 DEF Step
    <3> QED
      BY <2>3, <2>4, <2>6, <3>1 DEF Due
  <2> QED
    BY <1>0, <2>2, <2>3, <2>5, <2>6 DEF Step
<1>2. ASSUME NEW m \in Step, m < k + 1 PROVE Exists(m)
  BY <1>0, <1>1, <1>2 DEF Step
<1>3. ASSUME NEW m \in 0..k PROVE HasDraft(m)
  BY <1>0, <1>1, <1>3 DEF StepsDue
<1> QED
  BY <1>0, <1>2, <1>3 DEF Due

(* Drafts and tasks are never deleted, a new task comes from an upsert,    *)
(* a completed one from a request, an upsert from a count.                 *)
LEMMA OrderSteps ==
    ASSUME TypeOK, HandledExist, HookHasDraft, Next
    PROVE  /\ \A d \in Draft : draft[d] # "none" => draft'[d] # "none" /\ step'[d] = step[d]
           /\ \A n \in Step : task'[n] # "none" =>
                  Exists(n) \/ \E d \in Draft : <<d, n>> \in upserts
           /\ \A n \in Step : Exists(n) => task'[n] # "none"
           /\ \A n \in Step : task'[n] = "completed" =>
                  task[n] = "completed" \/ HasDraft(n)
           /\ \A d \in Draft, n \in Step : <<d, n>> \in upserts' =>
                  <<d, n>> \in upserts \/ n = NextStep
<1> DEFINE Drafts == \A d \in Draft : draft[d] # "none" => draft'[d] # "none" /\ step'[d] = step[d]
<1> DEFINE Tasks == /\ \A n \in Step : task'[n] # "none" =>
                         Exists(n) \/ \E d \in Draft : <<d, n>> \in upserts
                    /\ \A n \in Step : Exists(n) => task'[n] # "none"
                    /\ \A n \in Step : task'[n] = "completed" =>
                         task[n] = "completed" \/ HasDraft(n)
<1> DEFINE Upserts == \A d \in Draft, n \in Step : <<d, n>> \in upserts' =>
                          <<d, n>> \in upserts \/ n = NextStep
<1>1. ASSUME NEW c \in Cron, CronStep(c) \/ CronDies(c) PROVE Drafts /\ Tasks /\ Upserts
  <2>1. UNCHANGED <<draftVars, afterVars>>
    BY <1>1 DEF CronStep, CronDies, List, NextTask, AskPolicy, SkipTask, Mark, Remark, Revert,
       Write, Post, UnchangedByCron
  <2>2. Tasks
    <3>1. CASE SkipTask(c) \/ Mark(c) \/ Remark(c) \/ Revert(c)
      <4>1. at[c] \in Step /\ Exists(at[c])
        <5>1. at[c] \in Step
          BY <3>1 DEF TypeOK, SkipTask, Mark, Remark, Revert, Write, CronBusy
        <5> QED
          BY <5>1 DEF HandledExist, Step
      <4> QED
        BY <3>1, <4>1 DEF TypeOK, SkipTask, Mark, Remark, Revert, Write, Put, Exists
    <3>2. CASE UNCHANGED task
      BY <3>2 DEF Exists
    <3> QED
      BY <1>1, <3>1, <3>2 DEF CronStep, CronDies, List, NextTask, AskPolicy, Post
  <2> QED
    BY <2>1, <2>2 DEF draftVars, afterVars
<1>2. ASSUME NEW h \in Hook, HookStep(h) \/ HookFails(h) \/ HookDies(h)
      PROVE  Drafts /\ Tasks /\ Upserts
  <2>1. Drafts
    BY <1>2 DEF TypeOK, HookStep, HookFails, HookDies, AskDraft, Create, NewDraft, AskQueue, Enqueue,
       Complete, Release, Receive, Leave, draftVars
  <2>2. UNCHANGED upserts
    BY <1>2 DEF HookStep, HookFails, HookDies, AskDraft, Create, NewDraft, AskQueue, Enqueue,
       Complete, Release, Receive, Leave, UnchangedByHook, afterVars
  <2>3. Tasks
    <3>1. CASE Complete(h) \/ Release(h)
      <4>1. hstep[h] \in Step
        BY <3>1 DEF TypeOK, Complete, Release, HookBusy
      <4>2. Exists(hstep[h])
        BY <4>1 DEF HandledExist, Step
      <4>3. hpc[h] = "complete" => HasDraft(hstep[h])
        BY DEF TypeOK, HookHasDraft, HasDraft
      <4> QED
        BY <3>1, <4>1, <4>2, <4>3 DEF TypeOK, Complete, Release, Released, Put, Exists
    <3>2. CASE UNCHANGED task
      BY <3>2 DEF Exists
    <3> QED
      BY <1>2, <3>1, <3>2 DEF HookStep, HookFails, HookDies, AskDraft, Create, NewDraft, AskQueue, Enqueue,
         Receive
  <2> QED
    BY <2>1, <2>2, <2>3
<1>3. ASSUME NEW d \in Draft, SendStep(d) \/ SenderDies(d) PROVE Drafts /\ Tasks /\ Upserts
  <2>1. Drafts
    BY <1>3 DEF TypeOK, SendStep, SenderDies, Check, SendEmail, Decide, Count, Schedule,
       UnchangedBySend
  <2>2. Upserts
    <3>1. CASE Count(d)
      BY <3>1 DEF Count
    <3>2. CASE ~Count(d)
      BY <1>3, <3>2 DEF SendStep, SenderDies, Check, SendEmail, Decide, Schedule, afterVars
    <3> QED
      BY <3>1, <3>2
  <2>3. Tasks
    <3>1. ASSUME NEW n \in Step, Schedule(d, n) PROVE Tasks
      BY <3>1 DEF TypeOK, Schedule, Put, Exists
    <3>2. CASE UNCHANGED task
      BY <3>2 DEF Exists
    <3> QED
      BY <1>3, <3>1, <3>2 DEF SendStep, SenderDies, Check, SendEmail, Decide, Count
  <2> QED
    BY <2>1, <2>2, <2>3
<1>4. ASSUME UserStep PROVE Drafts /\ Tasks /\ Upserts
  <2>1. Drafts
    BY <1>4 DEF TypeOK, UserStep, StopStep, StopTasks, StopQueue, Suppress, StopDies, SetCampaign,
       RemoveLead, Skip, Reject, Reply, LoseJob, UnchangedByUser, UnchangedByHook, draftVars
  <2>2. UNCHANGED upserts
    BY <1>4 DEF UserStep, StopStep, StopTasks, StopQueue, Suppress, StopDies, SetCampaign,
       RemoveLead, Skip, Reject, Reply, LoseJob, UnchangedByUser, UnchangedByHook, afterVars
  <2>3. Tasks
    BY <1>4 DEF TypeOK, UserStep, StopStep, StopTasks, StopQueue, Suppress, StopDies, SetCampaign,
       RemoveLead, Skip, Reject, Reply, LoseJob, CancelTasks, Put, Exists, Live
  <2> QED
    BY <2>1, <2>2, <2>3
<1>5. ASSUME NEW e \in Editor, EditorAct(e) PROVE Drafts /\ Tasks /\ Upserts
  <2>1. UNCHANGED <<task, upserts>>
    BY <1>5, EditorAside DEF afterVars
  <2>2. Drafts
    <3>1. CASE Reopen(e)
      BY <3>1 DEF TypeOK, Reopen
    <3>2. ASSUME NEW d \in Draft, Compose(e, d) PROVE Drafts
      BY <3>2 DEF TypeOK, Compose, NewDraft
    <3>3. CASE UNCHANGED <<draft, step>>
      BY <3>3
    <3> QED
      BY <1>5, <3>1, <3>2, <3>3 DEF EditorAct, EditorStep, EditorDies, Ask, AskEditorPolicy,
         NewVersion, EditorQueues
  <2> QED
    BY <2>1, <2>2 DEF Exists
<1> QED
  BY <1>1, <1>2, <1>3, <1>4, <1>5, Families

(* Whoever handles a task got it from the rows, or from one who did.       *)
LEMMA HandledStep ==
    ASSUME TypeOK, OrderInv, Next
    PROVE  HandledExist'
<1>1. \A n \in Step : Exists(n) => task'[n] # "none"
  BY OrderSteps DEF OrderInv
<1>2. ASSUME NEW c \in Cron, CronStep(c) \/ CronDies(c) PROVE HandledExist'
  <2>1. \A b \in Cron : (\A n \in todo'[b] : n \in Step /\ Exists(n))
                     /\ (at'[b] # 0 => at'[b] \in Step /\ Exists(at'[b]))
    BY <1>2 DEF TypeOK, OrderInv, HandledExist, CronStep, CronDies, List, NextTask, AskPolicy,
       SkipTask, Mark, Remark, Revert, Write, Post, Exists
  <2>2. \A n \in Step : posts'[n] > 0 => Exists(n)
    <3>1. CASE Post(c)
      <4>1. at[c] \in Step /\ Exists(at[c])
        <5>1. at[c] \in Step
          BY <3>1 DEF TypeOK, Post, CronBusy
        <5> QED
          BY <5>1 DEF OrderInv, HandledExist, Step
      <4> QED
        BY <3>1, <4>1 DEF TypeOK, Post, OrderInv, HandledExist
    <3>2. CASE ~Post(c)
      BY <1>2, <3>2 DEF CronStep, CronDies, List, NextTask, AskPolicy,
         SkipTask, Mark, Remark, Revert, Write, OrderInv, HandledExist
    <3> QED
      BY <3>1, <3>2
  <2>3. UNCHANGED hookVars
    BY <1>2 DEF CronStep, CronDies, List, NextTask, AskPolicy, SkipTask, Mark, Remark, Revert,
       Write, Post, UnchangedByCron
  <2>4. \A h \in Hook : hstep[h] # 0 => hstep[h] \in Step /\ Exists(hstep[h])
    BY DEF TypeOK, OrderInv, HandledExist
  <2> QED
    BY <1>1, <2>1, <2>2, <2>3, <2>4 DEF HandledExist, Exists, hookVars
<1>3. ASSUME NEW h \in Hook, HookStep(h) \/ HookFails(h) \/ HookDies(h) PROVE HandledExist'
  <2>1. UNCHANGED cronVars
    BY <1>3 DEF HookStep, HookFails, HookDies, AskDraft, Create, NewDraft, AskQueue, Enqueue,
       Complete, Release, Receive, Leave, UnchangedByHook
  <2>2. \A b \in Cron : (\A n \in todo[b] : n \in Step /\ Exists(n))
                     /\ (at[b] # 0 => at[b] \in Step /\ Exists(at[b]))
    BY DEF TypeOK, OrderInv, HandledExist
  <2> DEFINE Kept == /\ \A n \in Step : posts'[n] > 0 => Exists(n)
                     /\ \A g \in Hook : hstep'[g] # 0 => hstep'[g] \in Step /\ Exists(hstep'[g])
  <2>3. Kept
    <3>1. ASSUME NEW n \in Step, Receive(h, n) PROVE Kept
      <4>1. \A m \in Step : posts'[m] > 0 => posts[m] > 0
        BY <3>1 DEF TypeOK, Receive
      <4>2. Exists(n)
        BY <3>1 DEF Receive, OrderInv, HandledExist
      <4> QED
        BY <3>1, <4>1, <4>2 DEF TypeOK, Receive, OrderInv, HandledExist
    <3>2. CASE HookDies(h)
      <4>1. hstep[h] \in Step
        BY <3>2 DEF TypeOK, HookDies
      <4>2. Exists(hstep[h])
        BY <4>1 DEF OrderInv, HandledExist, Step
      <4> QED
        BY <3>2, <4>1, <4>2 DEF TypeOK, HookDies, Leave, OrderInv, HandledExist
    <3>3. CASE Complete(h) \/ Release(h)
      BY <3>3 DEF TypeOK, Complete, Release, Leave, OrderInv, HandledExist
    <3>4. CASE UNCHANGED <<posts, hstep>>
      BY <3>4 DEF TypeOK, OrderInv, HandledExist
    <3> QED
      BY <1>3, <3>1, <3>2, <3>3, <3>4 DEF HookStep, HookFails, AskDraft, Create, NewDraft, AskQueue, Enqueue
  <2> QED
    BY <1>1, <2>1, <2>2, <2>3 DEF HandledExist, Exists, cronVars
<1>4. ASSUME UNCHANGED <<cronVars, hookVars>>, \A n \in Step : posts'[n] > 0 => posts[n] > 0
      PROVE  HandledExist'
  <2>1. /\ \A b \in Cron : (\A n \in todo[b] : n \in Step /\ Exists(n))
                        /\ (at[b] # 0 => at[b] \in Step /\ Exists(at[b]))
        /\ \A h \in Hook : hstep[h] # 0 => hstep[h] \in Step /\ Exists(hstep[h])
        /\ \A n \in Step : posts[n] > 0 => Exists(n)
    BY DEF TypeOK, OrderInv, HandledExist
  <2> QED
    BY <1>1, <1>4, <2>1 DEF HandledExist, Exists, cronVars, hookVars
<1>5. ASSUME NEW d \in Draft, SendStep(d) \/ SenderDies(d) PROVE HandledExist'
  BY <1>4, <1>5 DEF SendStep, SenderDies, Check, SendEmail, Decide, Count, Schedule,
     UnchangedBySend
<1>6. ASSUME UserStep PROVE HandledExist'
  <2>1. ASSUME NEW n \in Step, LoseJob(n) PROVE HandledExist'
    <3>1. \A m \in Step : posts'[m] > 0 => posts[m] > 0
      BY <2>1 DEF TypeOK, LoseJob
    <3> QED
      BY <1>4, <2>1, <3>1 DEF LoseJob, UnchangedByHook
  <2>2. CASE ~(\E n \in Step : LoseJob(n))
    BY <1>4, <1>6, <2>2 DEF UserStep, StopStep, StopTasks, StopQueue, Suppress, StopDies,
       SetCampaign, RemoveLead, Skip, Reject, Reply, UnchangedByUser
  <2> QED
    BY <2>1, <2>2
<1>7. ASSUME NEW e \in Editor, EditorAct(e) PROVE HandledExist'
  BY <1>4, <1>7, EditorAside
<1> QED
  BY <1>2, <1>3, <1>5, <1>6, <1>7, Families

(* The draft a request has made is the draft of its task.                  *)
LEMMA HookDraftStep ==
    ASSUME TypeOK, OrderInv, Next
    PROVE  HookHasDraft'
<1>1. \A d \in Draft : draft[d] # "none" => draft'[d] # "none" /\ step'[d] = step[d]
  BY OrderSteps DEF OrderInv
<1>2. ASSUME NEW g \in Hook, hpc'[g] = hpc[g], hstep'[g] = hstep[g], hdraft'[g] = hdraft[g],
             hpc'[g] \in {"ask", "queue", "complete"}
      PROVE  draft'[hdraft'[g]] # "none" /\ step'[hdraft'[g]] = hstep'[g]
  BY <1>1, <1>2 DEF TypeOK, OrderInv, HookHasDraft
<1>3. ASSUME UNCHANGED hookVars PROVE HookHasDraft'
  BY <1>2, <1>3 DEF HookHasDraft, hookVars
<1>4. ASSUME NEW h \in Hook, HookStep(h) \/ HookFails(h) \/ HookDies(h) PROVE HookHasDraft'
  <2>1. \A g \in Hook : g # h => hpc'[g] = hpc[g] /\ hstep'[g] = hstep[g] /\ hdraft'[g] = hdraft[g]
    BY <1>4 DEF TypeOK, HookStep, HookFails, HookDies, AskDraft, Create, NewDraft, AskQueue, Enqueue,
       Complete, Release, Receive, Leave, HookGoto
  <2> DEFINE Own == hpc'[h] \in {"ask", "queue", "complete"} =>
                        draft'[hdraft'[h]] # "none" /\ step'[hdraft'[h]] = hstep'[h]
  <2>2. Own
    <3>1. ASSUME NEW d \in Draft, Create(h, d) PROVE Own
      BY <3>1 DEF TypeOK, Create, NewDraft
    <3>2. CASE AskQueue(h) \/ Enqueue(h)
      BY <1>1, <3>2 DEF TypeOK, AskQueue, Enqueue, HookGoto, OrderInv, HookHasDraft, draftVars
    <3>3. CASE HookFails(h) \/ HookDies(h) \/ AskDraft(h) \/ Complete(h) \/ Release(h)
               \/ \E n \in Step : Receive(h, n)
      BY <3>3 DEF TypeOK, HookFails, HookDies, AskDraft, Complete, Release, Receive, Leave, HookGoto
    <3> QED
      BY <1>4, <3>1, <3>2, <3>3 DEF HookStep
  <2> QED
    BY <1>2, <2>1, <2>2 DEF HookHasDraft
<1>5. ASSUME NEW c \in Cron, CronStep(c) \/ CronDies(c) PROVE UNCHANGED hookVars
  BY <1>5 DEF CronStep, CronDies, List, NextTask, AskPolicy, SkipTask, Mark, Remark, Revert,
     Write, Post, UnchangedByCron
<1>6. ASSUME NEW d \in Draft, SendStep(d) \/ SenderDies(d) PROVE UNCHANGED hookVars
  BY <1>6 DEF SendStep, SenderDies, Check, SendEmail, Decide, Count, Schedule, UnchangedBySend
<1>7. ASSUME UserStep PROVE UNCHANGED hookVars
  BY <1>7 DEF UserStep, StopStep, StopTasks, StopQueue, Suppress, StopDies,
     SetCampaign, RemoveLead, Skip, Reject, Reply, LoseJob, UnchangedByUser, UnchangedByHook
<1>8. ASSUME NEW e \in Editor, EditorAct(e) PROVE UNCHANGED hookVars
  BY <1>8, EditorAside
<1> QED
  BY <1>3, <1>4, <1>5, <1>6, <1>7, <1>8, Families

(* What is due stays due; what is upserted or about to be is due.          *)
LEMMA StepsDueStep ==
    ASSUME TypeOK, OrderInv, Next
    PROVE  StepsDue'
<1>1. ASSUME NEW n, HasDraft(n) PROVE HasDraft(n)'
  BY <1>1, OrderSteps DEF HasDraft, OrderInv
<1>2. ASSUME NEW n, Due(n) PROVE Due(n)'
  <2>1. \A m \in Step : m < n => task'[m] # "none"
    BY <1>2, OrderSteps DEF Due, OrderInv, Exists
  <2>2. \A m \in 0..(n - 1) : HasDraft(m)'
    BY <1>1, <1>2 DEF Due
  <2> QED
    BY <2>1, <2>2 DEF Due, Exists
<1>3. HasDraft(0)'
  BY <1>1 DEF OrderInv, StepsDue
<1>4. ASSUME NEW n \in Step, task'[n] = "completed" PROVE HasDraft(n)'
  BY <1>1, <1>4, OrderSteps DEF OrderInv, StepsDue
<1>5. ASSUME NEW n \in Step, task'[n] # "none" PROVE Due(n)'
  BY <1>2, <1>5, OrderSteps DEF OrderInv, StepsDue
<1>6. ASSUME NEW d \in Draft, NEW n \in Step, <<d, n>> \in upserts' PROVE Due(n)'
  BY <1>2, <1>6, OrderSteps, NextStepDue DEF OrderInv, StepsDue
<1> QED
  BY <1>3, <1>4, <1>5, <1>6 DEF StepsDue, Exists

(* The order invariant holds from the start and is kept by every step.     *)
LEMMA OrderHolds == Spec => []OrderInv
<1>1. Init => OrderInv
  BY DEF Init, OrderInv, HandledExist, HookHasDraft, StepsDue, HasDraft, Exists, Due, Draft
<1>2. ASSUME TypeOK, OrderInv, [Next]_vars PROVE OrderInv'
  <2>1. CASE UNCHANGED vars
    BY <1>2, <2>1 DEF OrderInv, HandledExist, HookHasDraft, StepsDue, HasDraft, Exists, Due, vars,
       draftVars, afterVars, cronVars, hookVars
  <2>2. CASE Next
    BY <1>2, <2>2, HandledStep, HookDraftStep, StepsDueStep DEF OrderInv
  <2> QED
    BY <1>2, <2>1, <2>2
<1> QED
  BY <1>1, <1>2, TypeCorrect, PTL DEF Spec

(* The tasks of the sequence have no gap, however many of them were        *)
(* completed twice, skipped, cancelled or revived.                         *)
THEOREM NoGapsHolds == Spec => []NoGaps
<1>1. OrderInv => NoGaps
  BY DEF OrderInv, StepsDue, Due, Exists, NoGaps
<1> QED
  BY <1>1, OrderHolds, PTL

(* A step is scheduled only when every step before it has had its draft.   *)
THEOREM StepsOrdered == Spec => []StepsInOrder
<1>1. OrderInv => StepsInOrder
  BY DEF OrderInv, StepsDue, Due, Exists, HasDraft, StepsInOrder
<1> QED
  BY <1>1, OrderHolds, PTL

=============================================================================
