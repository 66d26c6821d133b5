---------------------------- MODULE TaskSidebar ----------------------------
(***************************************************************************)
(* The tasks of the sidebar, AppSidebar.tsx: the chat sessions of the      *)
(* workspace, which can be opened, renamed and deleted, one from its menu  *)
(* or those that are ticked, while the chat beside it makes sessions and   *)
(* writes to the one it is on.  Every request that changes a session makes *)
(* the sidebar load the list again.  Deleting is three statements without  *)
(* a transaction, and the database refuses to delete a session that has    *)
(* got a message or a command in between.                                  *)
(*                                                                         *)
(* ChatConsole has the chat's sessions, messages and jobs: here it is only *)
(* what it writes to a session's rows.  The user stays on the chat page.   *)
(* Sharing, archiving and the like only show a toast.                      *)
(***************************************************************************)
EXTENDS Integers, Sequences, SequencesExt, FiniteSets

CONSTANTS
  Task,          \* the sessions there are and can be
  Earliest,      \* those there are at first
  NoTask,        \* null
  TaskNames,     \* what the user types for a name
  MaxSent, MaxSideActs, MaxSideFaults  \* bounds: requests under way when the user sends another,
                                       \* what the user does, and requests that fail

ASSUME SidebarAssumption ==
  /\ Earliest \subseteq Task /\ NoTask \notin Task
  /\ MaxSent \in Nat /\ MaxSideActs \in Nat /\ MaxSideFaults \in Nat

VARIABLES
  tasks,      \* tasks[t]: [state, title, said, ordered]: "none", "there" or "gone"; whether it
              \* has messages and commands
  taskList,   \* sessions, as the sidebar loaded them: [task, title, said]
  place,      \* activeSessionId, of the URL
  writing,    \* sessionId of the chat
  selecting,  \* isSelectMode
  marked,     \* selectedSessionIds
  sends,      \* requests under way, in the order they were sent
  halved,     \* history: tasks a deletion left without their messages
  skewed,     \* history: loads crossed, or a load or an answer was lost
  astray,     \* history: the user opened a task that was being deleted
  sideActs, sideFaults  \* history: what the bounds count

sidebarVars == <<tasks, taskList, place, writing, selecting, marked, sends, halved, skewed, astray,
                 sideActs, sideFaults>>

There(t) == tasks[t].state = "there"
Visible == {r.task : r \in {r \in taskList : r.title # "" \/ r.said}}
fetchSessions == [what |-> "list", at |-> "sent", read |-> {}]
NewTask == [what |-> "new", at |-> "sent", task |-> NoTask]
Say == [what |-> "say", at |-> "read", task |-> writing, titled |-> FALSE]
AskPlan(t) == [what |-> "command", at |-> "plan", task |-> t, ok |-> FALSE]
Rename(t, title) == [what |-> "rename", at |-> "sent", task |-> t, title |-> title, ok |-> FALSE]
(* With the URL's session as the button saw it.                               *)
Delete(ts, several) ==
  [what |-> "delete", at |-> "commands", all |-> ts, several |-> several, on |-> place, ok |-> FALSE]

SidebarInit ==
  /\ tasks = [t \in Task |-> IF t \in Earliest THEN [state |-> "there", title |-> "first", said |-> TRUE, ordered |-> TRUE]
                             ELSE [state |-> "none", title |-> "", said |-> FALSE, ordered |-> FALSE]]
  /\ taskList = {} /\ selecting = FALSE /\ marked = {} /\ halved = {} /\ skewed = FALSE /\ astray = FALSE
  /\ \/ \E t \in Earliest : place = t /\ writing = t /\ sends = <<fetchSessions>>
     \/ place = NoTask /\ writing = NoTask /\ sends = <<fetchSessions, NewTask>>
  /\ sideActs = 0 /\ sideFaults = 0

Doing == sideActs < MaxSideActs /\ sideActs' = sideActs + 1
SideFault == sideFaults < MaxSideFaults /\ sideFaults' = sideFaults + 1
SendOff(request) == Len(sends) < MaxSent /\ sends' = Append(sends, request)
Deleting(t) == \E n \in 1 .. Len(sends) : sends[n].what = "delete" /\ t \in sends[n].all

-----------------------------------------------------------------------------
(* The user *)

OpenTask(t) ==
  /\ Doing /\ ~selecting /\ t \in Visible \ {place} /\ place' = t /\ writing' = t
  /\ astray' = (astray \/ Deleting(t) \/ ~There(t))
  /\ UNCHANGED <<tasks, taskList, selecting, marked, sends, halved, skewed, sideFaults>>

(* The chat without a session makes one, which the URL does not get.          *)
OpenChat ==
  /\ Doing /\ place # NoTask /\ place' = NoTask /\ SendOff(NewTask)
  /\ UNCHANGED <<tasks, taskList, writing, selecting, marked, halved, skewed, astray, sideFaults>>

SendMessage ==
  /\ Doing /\ writing # NoTask /\ SendOff(Say)
  /\ UNCHANGED <<tasks, taskList, place, writing, selecting, marked, halved, skewed, astray, sideFaults>>

handleRename(t, title) ==
  /\ Doing /\ ~selecting /\ t \in Visible /\ SendOff(Rename(t, title))
  /\ UNCHANGED <<tasks, taskList, place, writing, selecting, marked, halved, skewed, astray, sideFaults>>

handleDelete(t) ==
  /\ Doing /\ ~selecting /\ t \in Visible /\ SendOff(Delete({t}, FALSE))
  /\ UNCHANGED <<tasks, taskList, place, writing, selecting, marked, halved, skewed, astray, sideFaults>>

SelectTasks ==
  /\ Doing /\ ~selecting /\ Visible # {} /\ selecting' = TRUE
  /\ UNCHANGED <<tasks, taskList, place, writing, marked, sends, halved, skewed, astray, sideFaults>>

CancelSelection ==
  /\ selecting /\ selecting' = FALSE /\ marked' = {}
  /\ UNCHANGED <<tasks, taskList, place, writing, sends, halved, skewed, astray, sideActs, sideFaults>>

handleToggleSelect(t) ==
  /\ Doing /\ selecting /\ t \in Visible /\ marked' = IF t \in marked THEN marked \ {t} ELSE marked \cup {t}
  /\ UNCHANGED <<tasks, taskList, place, writing, selecting, sends, halved, skewed, astray, sideFaults>>

handleSelectAllToggle ==
  /\ Doing /\ selecting /\ marked' = IF Cardinality(marked) = Cardinality(Visible) THEN {} ELSE Visible
  /\ UNCHANGED <<tasks, taskList, place, writing, selecting, sends, halved, skewed, astray, sideFaults>>

handleDeleteSelected ==
  /\ selecting /\ marked # {} /\ SendOff(Delete(marked, TRUE))
  /\ UNCHANGED <<tasks, taskList, place, writing, selecting, marked, halved, skewed, astray, sideActs, sideFaults>>

-----------------------------------------------------------------------------
(* The routes *)

Step(n, request) == sends' = [sends EXCEPT ![n] = request]
PageKept == UNCHANGED <<taskList, place, writing, selecting, marked, skewed, astray, sideActs, sideFaults>>

ListSessions(n) ==
  /\ sends[n].what = "list" /\ sends[n].at = "sent"
  /\ Step(n, [sends[n] EXCEPT !.at = "done",
                !.read = {[task |-> t, title |-> tasks[t].title, said |-> tasks[t].said] : t \in {t \in Task : There(t)}}])
  /\ UNCHANGED <<tasks, halved>> /\ PageKept

createSession(n) ==
  /\ sends[n].what = "new" /\ sends[n].at = "sent"
  /\ \E t \in Task : /\ tasks[t].state = "none" /\ tasks' = [tasks EXCEPT ![t].state = "there"]
                     /\ Step(n, [sends[n] EXCEPT !.at = "done", !.task = t])
  /\ UNCHANGED halved /\ PageKept

(* The message of the user, and the title it gives a session without one: a   *)
(* name that was given meanwhile is lost.                                     *)
SaveMessage(n) ==
  LET r == sends[n] t == r.task IN
  /\ r.what = "say"
  /\ CASE r.at = "read" -> Step(n, [r EXCEPT !.at = IF There(t) THEN "write" ELSE "done", !.titled = (tasks[t].title # "")])
                           /\ UNCHANGED tasks
       [] r.at = "write" -> /\ Step(n, [r EXCEPT !.at = IF There(t) /\ ~r.titled THEN "title" ELSE "done"])
                            /\ tasks' = IF There(t) THEN [tasks EXCEPT ![t].said = TRUE] ELSE tasks
       [] r.at = "title" -> /\ Step(n, [r EXCEPT !.at = "done"])
                            /\ tasks' = IF There(t) THEN [tasks EXCEPT ![t].title = "first"] ELSE tasks
       [] OTHER -> FALSE
  /\ UNCHANGED halved /\ PageKept

(* The command's row, and with its job started the message that says so; a    *)
(* command out of scope gets a message only, and one nobody could plan none.  *)
SaveCommand(n) ==
  LET r == sends[n] t == r.task IN
  /\ r.what = "command" /\ r.at \in {"plan", "started"}
  /\ \/ r.at = "plan" /\ Step(n, [r EXCEPT !.at = "done"]) /\ UNCHANGED tasks
     \/ /\ There(t) /\ r.at = "plan"
        /\ tasks' = [tasks EXCEPT ![t].ordered = TRUE] /\ Step(n, [r EXCEPT !.at = "started"])
     \/ /\ There(t) /\ tasks' = [tasks EXCEPT ![t].said = TRUE] /\ Step(n, [r EXCEPT !.at = "done", !.ok = TRUE])
     \/ ~There(t) /\ r.at = "started" /\ Step(n, [r EXCEPT !.at = "done"]) /\ UNCHANGED tasks
  /\ UNCHANGED halved /\ PageKept

RenameSession(n) ==
  LET r == sends[n] IN
  /\ r.what = "rename" /\ r.at = "sent" /\ Step(n, [r EXCEPT !.at = "done", !.ok = There(r.task)])
  /\ tasks' = IF There(r.task) THEN [tasks EXCEPT ![r.task].title = r.title] ELSE tasks
  /\ UNCHANGED halved /\ PageKept

(* Their commands, their messages, and then the sessions, unless one of them  *)
(* has a message or a command again.                                          *)
DeleteSessions(n) ==
  LET r == sends[n]
      Set(f(_)) == tasks' = [t \in Task |-> IF t \in r.all THEN f(tasks[t]) ELSE tasks[t]]
      Bare(row) == [row EXCEPT !.ordered = FALSE]
      Mute(row) == [row EXCEPT !.said = FALSE]
      Gone(row) == [row EXCEPT !.state = "gone"]
  IN /\ r.what = "delete"
     /\ CASE r.at = "commands" -> Set(Bare) /\ Step(n, [r EXCEPT !.at = "messages"]) /\ UNCHANGED halved
          [] r.at = "messages" -> Set(Mute) /\ Step(n, [r EXCEPT !.at = "sessions"]) /\ UNCHANGED halved
          [] r.at = "sessions" ->
               IF \E t \in r.all : tasks[t].said \/ tasks[t].ordered
               THEN Step(n, [r EXCEPT !.at = "done"]) /\ halved' = halved \cup r.all /\ UNCHANGED tasks
               ELSE Set(Gone) /\ Step(n, [r EXCEPT !.at = "done", !.ok = TRUE]) /\ UNCHANGED halved
          [] OTHER -> FALSE
     /\ PageKept

-----------------------------------------------------------------------------
(* Answers *)

Left(n) == RemoveAt(sends, n)
Back(n, what) == sends[n].what = what /\ sends[n].at = "done"

SessionsListed(n) ==
  /\ Back(n, "list") /\ taskList' = sends[n].read /\ sends' = Left(n)
  /\ skewed' = (skewed \/ \E m \in 1 .. n - 1 : sends[m].what = "list")
  /\ UNCHANGED <<tasks, place, writing, selecting, marked, halved, astray, sideActs, sideFaults>>

Created(n) ==
  /\ Back(n, "new") /\ writing' = sends[n].task /\ sends' = Append(Left(n), fetchSessions)
  /\ UNCHANGED <<tasks, taskList, place, selecting, marked, halved, skewed, astray, sideActs, sideFaults>>

Said(n) ==
  /\ Back(n, "say") /\ sends' = Left(n) \o <<fetchSessions, AskPlan(sends[n].task)>>
  /\ UNCHANGED <<tasks, halved>> /\ PageKept

Commanded(n) ==
  /\ Back(n, "command") /\ sends' = IF sends[n].ok THEN Append(Left(n), fetchSessions) ELSE Left(n)
  /\ UNCHANGED <<tasks, halved>> /\ PageKept

(* The list is loaded once by the handler and once for the event it sends.    *)
Renamed(n) ==
  /\ Back(n, "rename")
  /\ sends' = IF sends[n].ok THEN Left(n) \o <<fetchSessions, fetchSessions>> ELSE Left(n)
  /\ UNCHANGED <<tasks, halved>> /\ PageKept

(* The user is taken to the empty chat if the session that was open when the  *)
(* button was pressed is gone, whichever is open now.  A refused deletion     *)
(* loads nothing, although the messages are gone.                             *)
Leaves(r) == r.on \in r.all
TasksDeleted(n) ==
  LET r == sends[n] IN
  /\ Back(n, "delete")
  /\ IF ~r.ok THEN sends' = Left(n) /\ skewed' = TRUE /\ UNCHANGED <<place, selecting, marked>>
     ELSE /\ place' = IF Leaves(r) THEN NoTask ELSE place
          /\ selecting' = (selecting /\ ~r.several) /\ marked' = IF r.several THEN {} ELSE marked
          /\ sends' = Left(n) \o (IF place' # place THEN <<NewTask>> ELSE <<>>) \o <<fetchSessions, fetchSessions>>
          /\ UNCHANGED skewed
  /\ UNCHANGED <<tasks, taskList, writing, halved, astray, sideActs, sideFaults>>

(* A request fails before or after it was performed, or stops halfway.        *)
SendLost(n) ==
  LET r == sends[n] IN
  /\ SideFault /\ sends' = Left(n)
  /\ skewed' = TRUE /\ astray' = (astray \/ r.what = "delete")
  /\ halved' = IF r.what = "delete" /\ r.at \in {"messages", "sessions"} THEN halved \cup r.all ELSE halved
  /\ UNCHANGED <<tasks, taskList, place, writing, selecting, marked, sideActs>>

SidebarNext ==
  \/ OpenChat \/ SendMessage \/ SelectTasks \/ CancelSelection \/ handleSelectAllToggle \/ handleDeleteSelected
  \/ \E t \in Task : \/ OpenTask(t) \/ handleDelete(t) \/ handleToggleSelect(t)
                     \/ \E title \in TaskNames : handleRename(t, title)
  \/ \E n \in 1 .. Len(sends) :
       \/ ListSessions(n) \/ createSession(n) \/ SaveMessage(n) \/ SaveCommand(n) \/ RenameSession(n) \/ DeleteSessions(n)
       \/ SessionsListed(n) \/ Created(n) \/ Said(n) \/ Commanded(n) \/ Renamed(n) \/ TasksDeleted(n) \/ SendLost(n)

SidebarSpec == SidebarInit /\ [][SidebarNext]_sidebarVars

-----------------------------------------------------------------------------
SidebarTypeOK ==
  /\ \A t \in Task : tasks[t].state \in {"none", "there", "gone"} /\ tasks[t].title \in TaskNames \cup {"", "first"}
  /\ {r.task : r \in taskList} \subseteq Task /\ {place, writing} \subseteq Task \cup {NoTask}
  /\ selecting \in BOOLEAN /\ marked \subseteq Task /\ (marked # {} => selecting)
  /\ halved \subseteq Task /\ sideActs \in 0 .. MaxSideActs /\ sideFaults \in 0 .. MaxSideFaults

(* When nothing is on its way any more, the sidebar lists the sessions there  *)
(* are under their names, unless loads crossed, a deletion was refused or a   *)
(* request failed; and the URL is of a session that is there, unless the user *)
(* opened one whose deletion was under way.  A session that has a name has    *)
(* its messages, unless a deletion took them and stopped or was refused.      *)
SidebarSettles ==
  /\ sends = <<>> =>
       /\ ~skewed => taskList = {[task |-> t, title |-> tasks[t].title, said |-> tasks[t].said] : t \in {t \in Task : There(t)}}
       /\ ~astray => place = NoTask \/ There(place)
  /\ \A t \in Task : There(t) /\ t \notin halved /\ ~Deleting(t) /\ tasks[t].title # "" => tasks[t].said
=============================================================================
