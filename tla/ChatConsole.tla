---------------------------- MODULE ChatConsole ----------------------------
(***************************************************************************)
(* The chat page and the command route.  A browser tab (ChatShell.tsx)     *)
(* shows one session at a time; it loads the session's messages, posts     *)
(* commands, shows what they answer, polls the job of every progress       *)
(* message it shows and draws one status bar for all of them.  The route   *)
(* (chat/command) plans the command, asks the workspace's active jobs to   *)
(* cancel, creates and starts a job, and stores a progress message.        *)
(* Answers arrive in any order and after the user has gone elsewhere.      *)
(* Enter sends a command even while another is being planned.              *)
(*                                                                         *)
(* Command c launches job c.  Of a job the module has only what the page   *)
(* and the route see; JobLifecycle has the rest.                           *)
(***************************************************************************)
EXTENDS Integers, FiniteSets

CONSTANTS
  Session,     \* the sessions of the workspace
  New,         \* the one the page makes when it is opened without a session
  MaxCommands, \* bound: commands sent
  MaxOpens,    \* bound: sessions opened from the sidebar
  MaxChatFaults \* bound: failed loads, plans, cancellations and starts

ASSUME ChatAssumption ==
  New \in Session /\ MaxCommands \in Nat \ {0} /\ MaxOpens \in Nat /\ MaxChatFaults \in Nat

Command == 1 .. MaxCommands

VARIABLES
  jobs,       \* jobs[c]: "none", "pending", "running", "stopping" or "ended"
  begun,      \* jobs whose worker has reported job_started
  told,       \* history: jobs that were asked to cancel before they had ended
  revived,    \* history: jobs that job_started set running after they had ended
  stored,     \* stored[s]: commands with a progress message in the database
  command,    \* command[c]: [stage, session] of the request
  toCancel,   \* toCancel[c]: the active jobs the route read
  target,     \* sessionId of the page, {} until the first session is made
  shown,      \* commands whose progress message the page shows
  loads,      \* messages on their way to the page, as [session, jobs]
  loading,    \* loadingMessages: the spinner hides the messages
  active,     \* activeJobId, 0 for null
  bar,        \* the job the active status bar is about, 0 when inactive
  polls,      \* answers of polls on their way, as [job, ended]
  settled,    \* shown jobs whose polling has stopped
  slipped,    \* history: a job was created beside one the route did not cancel
  early,      \* history: the page left a session with answers of it to come
  stray,      \* history: a poll was overtaken or outlived its card
  opens, chatFaults \* history: what the bounds count

routeVars == <<jobs, begun, told, revived, stored, command, toCancel, slipped>>
pageVars == <<target, shown, loads, loading, active, bar, polls, settled, early, stray, opens>>
chatVars == <<routeVars, pageVars, chatFaults>>

ChatInit ==
  /\ jobs = [c \in Command |-> "none"] /\ begun = {} /\ told = {} /\ revived = {}
  /\ stored = [s \in Session |-> {}]
  /\ command = [c \in Command |-> [stage |-> "unsent", session |-> New]]
  /\ toCancel = [c \in Command |-> {}]
  /\ target = {} /\ shown = {} /\ loads = {[session |-> New, jobs |-> {}]}
  /\ loading = TRUE
  /\ active = 0 /\ bar = 0 /\ polls = {} /\ settled = {}
  /\ slipped = FALSE /\ early = FALSE /\ stray = FALSE /\ opens = 0 /\ chatFaults = 0

AtStage(c, stage) == command[c].stage = stage
ChatFault == chatFaults < MaxChatFaults /\ chatFaults' = chatFaults + 1
Goes(c, stage) == command' = [command EXCEPT ![c].stage = stage]
(* The status bar goes out with the card that lit it. *)
Unmounting(gone) == polls # {} /\ \E p \in polls : p.job \in gone

(* JobService.requestCancellation leaves a job that has ended as it is. *)
RequestCancellation(j) ==
  IF jobs[j] = "ended" THEN UNCHANGED <<jobs, told>>
  ELSE jobs' = [jobs EXCEPT ![j] = "stopping"] /\ told' = told \cup {j}

-----------------------------------------------------------------------------
(* The command route *)

(* Blocked by the domain guard, or planned; the planner may be down. *)
PlanCommand(c) ==
  /\ AtStage(c, "asked")
  /\ \/ Goes(c, "list") /\ UNCHANGED chatFaults
     \/ Goes(c, "refused") /\ ChatFault
  /\ UNCHANGED <<jobs, begun, told, revived, stored, toCancel, slipped, pageVars>>

ListActive_running(c) ==
  /\ AtStage(c, "list")
  /\ toCancel' = [toCancel EXCEPT ![c] = {j \in Command : jobs[j] = "running"}]
  /\ slipped' = (slipped \/ \E d \in Command : command[d].stage \in {"cancel", "create"})
  /\ Goes(c, "cancel")
  /\ UNCHANGED <<jobs, begun, told, revived, stored, pageVars, chatFaults>>
ListActive(c) ==
  /\ AtStage(c, "list")
  /\ toCancel' = [toCancel EXCEPT ![c] = {j \in Command : jobs[j] \in {"pending", "running"}}]
  /\ slipped' = (slipped \/ \E d \in Command : command[d].stage \in {"cancel", "create"})
  /\ Goes(c, "cancel")
  /\ UNCHANGED <<jobs, begun, told, revived, stored, pageVars, chatFaults>>

CancelActive(c) ==
  /\ AtStage(c, "cancel")
  /\ IF toCancel[c] = {}
     THEN Goes(c, "create") /\ UNCHANGED <<jobs, told, toCancel>>
     ELSE \E j \in toCancel[c] :
            /\ RequestCancellation(j)
            /\ toCancel' = [toCancel EXCEPT ![c] = @ \ {j}]
            /\ UNCHANGED command
  /\ UNCHANGED <<begun, revived, stored, slipped, pageVars, chatFaults>>

(* An error among them is logged, and the job is created all the same. *)
CancelActiveFails(c) ==
  /\ AtStage(c, "cancel") /\ ChatFault
  /\ Goes(c, "create") /\ toCancel' = [toCancel EXCEPT ![c] = {}]
  /\ slipped' = TRUE
  /\ UNCHANGED <<jobs, begun, told, revived, stored, pageVars>>

CreateCommandJob(c) ==
  /\ AtStage(c, "create")
  /\ jobs' = [jobs EXCEPT ![c] = "pending"]
  /\ Goes(c, "start")
  /\ UNCHANGED <<begun, told, revived, stored, toCancel, slipped, pageVars, chatFaults>>

(* When the worker's answer is lost, the job is recorded as failed, whether *)
(* or not the worker has taken it.                                          *)
StartJob(c) ==
  /\ AtStage(c, "start")
  /\ \/ Goes(c, "tell") /\ UNCHANGED <<jobs, chatFaults>>
     \/ Goes(c, "refused") /\ jobs' = [jobs EXCEPT ![c] = "ended"] /\ ChatFault
  /\ UNCHANGED <<begun, told, revived, stored, toCancel, slipped, pageVars>>

StoreMessage(c) ==
  /\ AtStage(c, "tell")
  /\ stored' = [stored EXCEPT ![command[c].session] = @ \cup {c}]
  /\ Goes(c, "answered")
  /\ UNCHANGED <<jobs, begun, told, revived, toCancel, slipped, pageVars, chatFaults>>

RouteStep(c) ==
  \/ PlanCommand(c) \/ ListActive(c) \/ CancelActive(c) \/ CancelActiveFails(c)
  \/ CreateCommandJob(c) \/ StartJob(c) \/ StoreMessage(c)

-----------------------------------------------------------------------------
(* The worker, as far as the page sees it *)

(* job_started sets running whatever the status: of a job whose launch was  *)
(* taken for failed, of one that was swept while it waited in the queue, and *)
(* of any job when its post is repeated after a time-out and handled late.   *)
JobStarts(j) ==
  /\ jobs[j] # "none"
  /\ IF j \in begun THEN ChatFault ELSE UNCHANGED chatFaults
  /\ jobs' = [jobs EXCEPT ![j] = "running"] /\ begun' = begun \cup {j}
  /\ revived' = IF jobs[j] = "ended" THEN revived \cup {j} ELSE revived
  /\ UNCHANGED <<told, stored, command, toCancel, slipped, pageVars>>

(* By an event of the worker, or by the sweep. *)
JobEnds(j) ==
  /\ jobs[j] \in {"pending", "running", "stopping"}
  /\ jobs' = [jobs EXCEPT ![j] = "ended"]
  /\ UNCHANGED <<begun, told, revived, stored, command, toCancel, slipped, pageVars, chatFaults>>

-----------------------------------------------------------------------------
(* The page *)

InProgress == {c \in Command : command[c].stage \notin {"unsent", "over"}}

OpenSession_keepJob(s) ==
  /\ opens < MaxOpens /\ target # {s}
  /\ s = New => target # {}
  /\ opens' = opens + 1
  /\ target' = {s} /\ bar' = 0
  /\ loads' = loads \cup {[session |-> s, jobs |-> stored[s]]}
  /\ early' = (early \/ loads # {} \/ InProgress # {})
  /\ stray' = (stray \/ Unmounting(shown))
  /\ shown' = {} /\ settled' = {} /\ loading' = TRUE
  /\ UNCHANGED <<routeVars, active, polls, chatFaults>>
(* Another session is opened: the spinner takes the place of the messages. *)
OpenSession(s) ==
  /\ opens < MaxOpens /\ target # {s}
  /\ s = New => target # {}
  /\ opens' = opens + 1
  /\ target' = {s} /\ active' = 0 /\ bar' = 0
  /\ loads' = loads \cup {[session |-> s, jobs |-> stored[s]]}
  /\ early' = (early \/ loads # {} \/ InProgress # {})
  /\ stray' = (stray \/ Unmounting(shown))
  /\ shown' = {} /\ settled' = {} /\ loading' = TRUE
  /\ UNCHANGED <<routeVars, polls, chatFaults>>

(* The answer replaces what is shown, whatever has been sent or opened since. *)
(* That of a new session also makes it the page's.                            *)
Loaded(load) ==
  /\ \E jobsShown \in {load.jobs, stored[load.session]} :
       /\ shown' = jobsShown
       /\ settled' = settled \cap jobsShown
       /\ bar' = IF shown \subseteq jobsShown THEN bar ELSE 0
       /\ stray' = (stray \/ Unmounting(shown \ jobsShown))
  /\ loads' = loads \ {load} /\ loading' = FALSE
  /\ target' = IF load.session = New /\ target = {} THEN {New} ELSE target
  /\ UNCHANGED <<routeVars, active, polls, early, opens, chatFaults>>

LoadFails(load) ==
  /\ ChatFault
  /\ loads' = loads \ {load} /\ loading' = FALSE
  /\ shown' = {} /\ settled' = {} /\ bar' = 0
  /\ stray' = (stray \/ Unmounting(shown))
  /\ UNCHANGED <<routeVars, target, active, polls, early, opens>>

SendCommand(c) ==
  /\ AtStage(c, "unsent") /\ \A d \in 1 .. c - 1 : ~AtStage(d, "unsent")
  /\ \E s \in target : command' = [command EXCEPT ![c] = [stage |-> "asked", session |-> s]]
  /\ UNCHANGED <<jobs, begun, told, revived, stored, toCancel, slipped, pageVars, chatFaults>>

(* The answer of a command goes to whatever is shown by then, and is lost *)
(* with what a load under way replaces.                                   *)
Answered(c) ==
  /\ \/ /\ AtStage(c, "answered")
        /\ shown' = IF loading THEN shown ELSE shown \cup {c}
        /\ active' = c
     \/ /\ AtStage(c, "refused")
        /\ UNCHANGED <<shown, active>>
  /\ Goes(c, "over")
  /\ UNCHANGED <<jobs, begun, told, revived, stored, toCancel, slipped, target, loads, loading, bar, polls,
                 settled, early, stray, opens, chatFaults>>

(* Every two seconds, whether or not the poll before has been answered. *)
Poll(j) ==
  /\ j \in shown \ settled /\ jobs[j] # "none"
  /\ Cardinality({p \in polls : p.job = j}) < 2
  /\ polls' = polls \cup {[job |-> j, ended |-> jobs[j] = "ended"]}
  /\ stray' = (stray \/ \E p \in polls : p.job = j /\ p.ended # (jobs[j] = "ended"))
  /\ UNCHANGED <<routeVars, target, shown, loads, loading, active, bar, settled, early, opens, chatFaults>>

PollAnswered_quiet(p) ==
  /\ bar' = IF p.ended THEN bar ELSE p.job
  /\ settled' = IF p.ended THEN settled \cup ({p.job} \cap shown) ELSE settled
  /\ polls' = polls \ {p}
  /\ UNCHANGED <<routeVars, target, shown, loads, loading, active, early, stray, opens, chatFaults>>
PollAnswered(p) ==
  /\ bar' = IF p.ended THEN 0 ELSE p.job
  /\ settled' = IF p.ended THEN settled \cup ({p.job} \cap shown) ELSE settled
  /\ polls' = polls \ {p}
  /\ UNCHANGED <<routeVars, target, shown, loads, loading, active, early, stray, opens, chatFaults>>

(* The stop button asks for the job of the last answer, not for the bar's. *)
StopJob ==
  /\ active # 0 /\ (bar # 0 \/ InProgress # {})
  /\ RequestCancellation(active)
  /\ bar' = 0
  /\ UNCHANGED <<begun, revived, stored, command, toCancel, slipped, target, shown, loads, loading, active, polls,
                 settled, early, stray, opens, chatFaults>>

PageStep ==
  \/ \E s \in Session : OpenSession(s)
  \/ \E load \in loads : Loaded(load) \/ LoadFails(load)
  \/ \E c \in Command : SendCommand(c) \/ Answered(c)
  \/ StopJob

Polling(j) == Poll(j) \/ \E p \in polls : p.job = j /\ PollAnswered(p)

ChatNext ==
  \/ \E c \in Command : RouteStep(c) \/ JobStarts(c) \/ JobEnds(c) \/ Polling(c)
  \/ PageStep

(* The timer of a card fires again and again, and polls are answered. *)
ChatFairness ==
  \A j \in Command :
    /\ WF_chatVars(Poll(j) /\ \A p \in polls : p.job # j)
    /\ WF_chatVars(\E p \in polls : p.job = j /\ PollAnswered(p))

ChatSpec == ChatInit /\ [][ChatNext]_chatVars /\ ChatFairness

-----------------------------------------------------------------------------
ChatTypeOK ==
  /\ jobs \in [Command -> {"none", "pending", "running", "stopping", "ended"}]
  /\ begun \subseteq Command /\ told \subseteq Command /\ revived \subseteq Command
  /\ \A c \in Command : command[c].stage \in {"unsent", "asked", "list", "cancel", "create", "start",
                                              "tell", "answered", "refused", "over"}
  /\ \A c \in Command : jobs[c] # "none" => command[c].stage \in
                          {"start", "tell", "answered", "refused", "over"}
  /\ target \subseteq Session /\ Cardinality(target) <= 1
  /\ \A s \in Session : stored[s] \subseteq {c \in Command : command[c].session = s}
  /\ settled \subseteq shown /\ shown \subseteq Command
  /\ active \in 0 .. MaxCommands /\ bar \in 0 .. MaxCommands

(* Of the jobs at work, only that of the last command has not been asked to   *)
(* cancel, unless two commands overlapped or a cancellation failed; a job     *)
(* that job_started brought back after it had ended comes on top, as no       *)
(* command finds it among the active jobs before.                             *)
PreviousTold ==
  ~slipped =>
    Cardinality({j \in Command : jobs[j] \in {"pending", "running"}} \ (told \cup revived)) <= 1

(* The page shows, stops and waits for jobs of its own session only, as long  *)
(* as the user leaves no session while an answer of it is still to come; the  *)
(* bar also as long as no poll outlives its card.                             *)
PageIsSession ==
  ~early =>
    /\ \A c \in shown \cup ({active} \ {0}) : {command[c].session} = target
    /\ ~stray => \A c \in {bar} \ {0} : {command[c].session} = target

(* The status bar does not stay lit: again and again it is out, or a job is   *)
(* at work, unless a poll was overtaken or answered after its card had gone.  *)
BarGoesOut ==
  []<>(bar = 0 \/ stray \/ \E j \in Command : jobs[j] \in {"pending", "running", "stopping"})
=============================================================================
