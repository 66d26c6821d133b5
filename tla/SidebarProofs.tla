--------------------------- MODULE SidebarProofs ---------------------------
(***************************************************************************)
(* What holds of the tasks of the sidebar for any sessions, names and      *)
(* number of requests, and any bounds; and of the composition of the       *)
(* pages: both lists settle, and every part keeps its types.               *)
(***************************************************************************)
EXTENDS MCPages, StoreProofs, PageProofs, ListProofs, FileProofs, SequenceTheorems, FiniteSetTheorems, TLAPS

-----------------------------------------------------------------------------
(***************************************************************************)
(* The tasks of the sidebar                                                *)
(***************************************************************************)
TaskTitle == TaskNames \cup {"", "first"}
TaskRow == [task : Task, title : TaskTitle, said : BOOLEAN]
AnyPlace == Task \cup {NoTask}
ListSend == [what : {"list"}, at : {"sent", "done"}, read : SUBSET TaskRow]
NewSend == [what : {"new"}, at : {"sent"}, task : {NoTask}] \cup [what : {"new"}, at : {"done"}, task : Task]
SaySend == [what : {"say"}, at : {"read", "write", "title", "done"}, task : Task, titled : BOOLEAN]
CommandSend == [what : {"command"}, at : {"plan", "started", "done"}, task : Task, ok : BOOLEAN]
RenameSend == [what : {"rename"}, at : {"sent"}, task : Task, title : TaskNames, ok : {FALSE}]
              \cup [what : {"rename"}, at : {"done"}, task : Task, title : TaskNames, ok : BOOLEAN]
DeleteSend == [what : {"delete"}, at : {"commands", "messages", "sessions", "done"}, all : SUBSET Task,
               several : BOOLEAN, on : AnyPlace, ok : BOOLEAN]
AnySend == ListSend \cup NewSend \cup SaySend \cup CommandSend \cup RenameSend \cup DeleteSend
TaskState == [state : {"none", "there", "gone"}, title : TaskTitle, said : BOOLEAN, ordered : BOOLEAN]

SideTypes ==
  /\ tasks \in [Task -> TaskState] /\ taskList \subseteq TaskRow /\ place \in AnyPlace /\ writing \in AnyPlace
  /\ selecting \in BOOLEAN /\ marked \subseteq Task /\ sends \in Seq(AnySend) /\ halved \subseteq Task
  /\ skewed \in BOOLEAN /\ astray \in BOOLEAN

(* A session with a name, or listed as one to show, has its messages, or a *)
(* deletion has taken them; so has one that will get a name.               *)
Muting(t) == {r \in DeleteSend : r.at = "sessions" /\ t \in r.all}
Wholes == {t \in Task : tasks[t].state = "gone" \/ t \in halved \/ tasks[t].said \/ OnTheWay(sends, Muting(t))}
Naming(whole) == {r \in AnySend : /\ r.what = "rename" => r.task \in whole
                                  /\ r.what = "say" /\ r.at = "title" => r.task \in whole
                                  /\ r.what = "list" => \A e \in r.read : e.title # "" \/ e.said => e.task \in whole}
WholeKept ==
  /\ \A t \in Task : tasks[t].title # "" => t \in Wholes
  /\ \A e \in taskList : e.title # "" \/ e.said => e.task \in Wholes
  /\ \A i \in 1 .. Len(sends) : sends[i] \in Naming(Wholes)

(* What changes a session will load the list, or it has been asked for     *)
(* since, unless the list is right.                                        *)
Listed == {[task |-> t, title |-> tasks[t].title, said |-> tasks[t].said] : t \in {t \in Task : There(t)}}
Reloading == NewSend \cup SaySend \cup DeleteSend \cup {r \in RenameSend \cup CommandSend : r.ok}
FreshList == {r \in ListSend : r.at = "done" => r.read = Listed}
ListShown == \/ OnTheWay(sends, Reloading)
             \/ LastSent(sends, FreshList, ListSend)
             \/ ~OnTheWay(sends, ListSend) /\ taskList = Listed

(* A deletion of the session that is open knows that it is, and the        *)
(* session is there until one is done.                                     *)
Minding == {r \in AnySend : r.what = "delete" /\ place \in r.all => r.on = place}
Ending == {r \in DeleteSend : r.at = "done" /\ r.ok /\ place \in r.all}
PlaceKept == place # NoTask => /\ \A i \in 1 .. Len(sends) : sends[i] \in Minding
                               /\ There(place) \/ OnTheWay(sends, Ending)

SideInv == SideTypes /\ WholeKept /\ (~skewed => ListShown) /\ (~astray => PlaceKept)

LEMMA SendKinds ==
    ASSUME NEW c \in AnySend
    PROVE  /\ c.what = "list" <=> c \in ListSend
           /\ c.what = "new" <=> c \in NewSend
           /\ c.what = "say" <=> c \in SaySend
           /\ c.what = "command" <=> c \in CommandSend
           /\ c.what = "rename" <=> c \in RenameSend
           /\ c.what = "delete" <=> c \in DeleteSend
           /\ c.what \in {"list", "new", "say", "command", "rename", "delete"}
<1>1. c \in ListSend => c.what = "list"
  BY DEF ListSend
<1>2. c \in NewSend => c.what = "new"
  BY DEF NewSend
<1>3. c \in SaySend => c.what = "say"
  BY DEF SaySend
<1>4. c \in CommandSend => c.what = "command"
  BY DEF CommandSend
<1>5. c \in RenameSend => c.what = "rename"
  BY DEF RenameSend
<1>6. c \in DeleteSend => c.what = "delete"
  BY DEF DeleteSend
<1>7. c \in ListSend \cup NewSend \cup SaySend \cup CommandSend \cup RenameSend \cup DeleteSend
  BY DEF AnySend
<1> QED
  BY <1>1, <1>2, <1>3, <1>4, <1>5, <1>6, <1>7

LEMMA SideCalls ==
    ASSUME SideTypes
    PROVE  /\ sends \in Seq(AnySend) /\ Len(sends) \in Nat /\ \A i \in 1 .. Len(sends) : sends[i] \in AnySend
           /\ fetchSessions \in AnySend /\ fetchSessions \in ListSend /\ NewTask \in AnySend
<1>1. fetchSessions \in ListSend /\ NewTask \in NewSend
  BY DEF fetchSessions, NewTask, ListSend, NewSend
<1> QED
  BY <1>1 DEF SideTypes, AnySend

(* What is whole stays whole.                                              *)
LEMMA NamingGrows == ASSUME NEW W, NEW V, W \subseteq V PROVE Naming(W) \subseteq Naming(V)
BY DEF Naming

LEMMA WholesMoved ==
    ASSUME SideTypes, NEW n, NEW t \in Seq(AnySend), sends' \in Seq(AnySend), Moved(sends', sends, n, t),
           UNCHANGED tasks, halved \subseteq halved',
           n # 0 /\ sends[n].what = "delete" /\ sends[n].at = "sessions" => sends[n].all \subseteq halved'
    PROVE  Wholes \subseteq Wholes'
<1> SUFFICES ASSUME NEW k \in Wholes
             PROVE  k \in Wholes'
  OBVIOUS
<1>1. sends \in Seq(AnySend) /\ k \in Task
  BY DEF SideTypes, Wholes
<1>2. CASE tasks[k].state = "gone" \/ k \in halved \/ tasks[k].said
  BY <1>1, <1>2 DEF Wholes
<1>3. CASE OnTheWay(sends, Muting(k))
  <2> DEFINE u == sends'
             M == Muting(k)
  <2>1. u \in Seq(AnySend) /\ Moved(u, sends, n, t) /\ Muting(k)' = M
    BY DEF Muting
  <2>2. CASE n # 0 /\ sends[n] \in M
    <3>1. k \in halved'
      BY <2>2 DEF Muting, DeleteSend
    <3> QED
      BY <1>1, <3>1 DEF Wholes
  <2>3. CASE n # 0 => sends[n] \notin M
    <3> HIDE DEF u, M
    <3>1. OnTheWay(u, M)
      BY ONLY <1>1, <1>3, <2>1, <2>3, MovedHolds, t \in Seq(AnySend) DEF M
    <3> QED
      BY <1>1, <2>1, <3>1 DEF Wholes, u
  <2> QED
    BY <2>2, <2>3
<1> QED
  BY <1>2, <1>3 DEF Wholes

LEMMA WholeMoved ==
    ASSUME SideTypes, WholeKept, NEW n, NEW t \in Seq(AnySend), sends' \in Seq(AnySend), Moved(sends', sends, n, t),
           UNCHANGED tasks, halved \subseteq halved',
           n # 0 /\ sends[n].what = "delete" /\ sends[n].at = "sessions" => sends[n].all \subseteq halved',
           taskList' = taskList \/ (n # 0 /\ n \in 1 .. Len(sends) /\ sends[n].what = "list" /\ taskList' = sends[n].read),
           \A k \in 1 .. Len(t) : t[k] \in Naming(Wholes)
    PROVE  WholeKept'
<1> DEFINE W == Wholes
           V == Wholes'
           N == Naming(V)
           u == sends'
<1>1. W \subseteq V
  BY WholesMoved
<1>2. Naming(W) \subseteq N
  BY <1>1, NamingGrows
<1>3. Naming(Wholes)' = N
  BY DEF Naming
<1>4. \A k \in Task : tasks'[k].title # "" => k \in V
  BY <1>1 DEF WholeKept
<1>5. \A e \in taskList' : e.title # "" \/ e.said => e.task \in V
  <2>1. CASE taskList' = taskList
    BY <1>1, <2>1 DEF WholeKept
  <2>2. CASE n \in 1 .. Len(sends) /\ sends[n].what = "list" /\ taskList' = sends[n].read
    <3>1. sends[n] \in Naming(W)
      BY <2>2 DEF WholeKept
    <3> QED
      BY <1>1, <2>2, <3>1 DEF Naming
  <2> QED
    BY <2>1, <2>2
<1>6. \A i \in 1 .. Len(sends) : sends[i] \in N
  BY <1>2 DEF WholeKept
<1>7. \A k \in 1 .. Len(t) : t[k] \in N
  BY <1>2
<1>8. sends \in Seq(AnySend) /\ u \in Seq(AnySend) /\ t \in Seq(AnySend) /\ Moved(u, sends, n, t)
  BY DEF SideTypes
<1> HIDE DEF W, V, N, u
<1>9. \A i \in 1 .. Len(sends) : i # n => sends[i] \in N
  BY <1>6
<1>10. \A i \in 1 .. Len(u) : u[i] \in N
  BY ONLY <1>7, <1>8, <1>9, MovedAll
<1> QED
  BY <1>3, <1>4, <1>5, <1>10 DEF WholeKept, V, u

LEMMA ShownMoved ==
    ASSUME SideTypes, ListShown, NEW n, NEW t \in Seq(AnySend), sends' \in Seq(AnySend), Moved(sends', sends, n, t),
           UNCHANGED <<tasks, taskList>>, ~OnTheWay(t, ListSend),
           n # 0 => sends[n] \notin Reloading /\ sends[n] \notin ListSend
    PROVE  ListShown'
<1> DEFINE u == sends'
<1>1. sends \in Seq(AnySend) /\ u \in Seq(AnySend) /\ t \in Seq(AnySend) /\ Moved(u, sends, n, t)
  BY DEF SideTypes
<1>2. Listed' = Listed
  BY DEF Listed, There
<1>3. FreshList' = FreshList
  BY <1>2 DEF FreshList
<1>4. \A k \in 1 .. Len(t) : t[k] \notin ListSend
  BY DEF OnTheWay
<1>5. n # 0 => sends[n] \notin FreshList
  BY DEF FreshList
<1> HIDE DEF u
<1>6. OnTheWay(sends, Reloading) => OnTheWay(u, Reloading)
  BY <1>1, MovedHolds
<1>7. LastSent(sends, FreshList, ListSend) => LastSent(u, FreshList, ListSend)
  BY <1>1, <1>4, <1>5, MovedKeeps
<1>8. ~OnTheWay(sends, ListSend) => ~OnTheWay(u, ListSend)
  BY <1>1, MovedKeeps
<1> QED
  BY <1>2, <1>3, <1>6, <1>7, <1>8 DEF ListShown, u

LEMMA ShownAsked ==
    ASSUME SideTypes, NEW n, NEW t \in Seq(AnySend), sends' \in Seq(AnySend), Moved(sends', sends, n, t),
           UNCHANGED tasks, LastSent(t, FreshList, ListSend)
    PROVE  ListShown'
<1> DEFINE u == sends'
<1>1. sends \in Seq(AnySend) /\ u \in Seq(AnySend) /\ t \in Seq(AnySend) /\ Moved(u, sends, n, t)
  BY DEF SideTypes
<1>2. Listed' = Listed
  BY DEF Listed, There
<1>3. FreshList' = FreshList
  BY <1>2 DEF FreshList
<1> HIDE DEF u
<1>4. LastSent(u, FreshList, ListSend)
  BY <1>1, MovedKeeps
<1> QED
  BY <1>3, <1>4 DEF ListShown, u

(* The first list to come is the last that was asked for, or that one is   *)
(* still on its way.                                                       *)
LEMMA ShownLoaded ==
    ASSUME SideTypes, ListShown, NEW n \in 1 .. Len(sends), sends' \in Seq(AnySend), Taken(sends', sends, n, <<>>),
           UNCHANGED tasks, sends[n] \in ListSend, sends[n].at = "done", taskList' = sends[n].read,
           \A m \in 1 .. n - 1 : sends[m] \notin ListSend
    PROVE  ListShown'
<1> DEFINE u == sends'
           t == <<>>
<1>1. /\ sends \in Seq(AnySend) /\ u \in Seq(AnySend) /\ t \in Seq(AnySend) /\ Taken(u, sends, n, t)
      /\ n \in 1 .. Len(sends) /\ \A k \in 1 .. Len(t) : t[k] \notin ListSend
  BY DEF SideTypes
<1>2. Listed' = Listed
  BY DEF Listed, There
<1>3. FreshList' = FreshList /\ FreshList \subseteq ListSend
  BY <1>2 DEF FreshList
<1>4. Moved(u, sends, n, t) /\ sends[n] \notin Reloading /\ OnTheWay(sends, ListSend)
  <2>1. sends[n] \notin Reloading
    BY DEF Reloading, ListSend, NewSend, SaySend, DeleteSend, RenameSend, CommandSend
  <2> QED
    BY <1>1, <2>1 DEF Moved, OnTheWay
<1> HIDE DEF u, t
<1>5. OnTheWay(sends, Reloading) => OnTheWay(u, Reloading)
  BY <1>1, <1>4, MovedHolds
<1>6. LastSent(sends, FreshList, ListSend) =>
        LastSent(u, FreshList, ListSend) \/ (sends[n] \in FreshList /\ ~OnTheWay(u, ListSend))
  BY <1>1, <1>3, FirstTaken
<1>7. sends[n] \in FreshList => taskList' = Listed
  BY DEF FreshList
<1> QED
  BY <1>2, <1>3, <1>4, <1>5, <1>6, <1>7 DEF ListShown, u

LEMMA PlaceMoved ==
    ASSUME SideTypes, PlaceKept, NEW n, NEW t \in Seq(AnySend), sends' \in Seq(AnySend), Moved(sends', sends, n, t),
           UNCHANGED <<tasks, place>>, \A k \in 1 .. Len(t) : t[k] \in Minding, n # 0 => sends[n] \notin Ending
    PROVE  PlaceKept'
<1> DEFINE u == sends'
<1>1. sends \in Seq(AnySend) /\ u \in Seq(AnySend) /\ t \in Seq(AnySend) /\ Moved(u, sends, n, t)
  BY DEF SideTypes
<1>2. Minding' = Minding /\ Ending' = Ending /\ There(place)' = There(place)
  BY DEF Minding, Ending, There
<1> HIDE DEF u
<1>3. OnTheWay(sends, Ending) => OnTheWay(u, Ending)
  BY <1>1, MovedHolds
<1>4. ASSUME \A i \in 1 .. Len(sends) : sends[i] \in Minding
      PROVE  \A i \in 1 .. Len(u) : u[i] \in Minding
  <2>1. \A i \in 1 .. Len(sends) : i # n => sends[i] \in Minding
    BY <1>4
  <2> QED
    BY ONLY <1>1, <2>1, MovedAll, \A k \in 1 .. Len(t) : t[k] \in Minding
<1> QED
  BY <1>2, <1>3, <1>4 DEF PlaceKept, u

(* The requests t are sent, by the user (n = 0) or when the one at n has   *)
(* been answered or has failed.                                            *)
LEMMA SideMoved ==
    ASSUME SideInv, SideTypes', NEW n, NEW t \in Seq(AnySend), sends' \in Seq(AnySend), Moved(sends', sends, n, t),
           UNCHANGED tasks, halved \subseteq halved',
           n # 0 /\ sends[n].what = "delete" /\ sends[n].at = "sessions" => sends[n].all \subseteq halved',
           taskList' = taskList \/ (n # 0 /\ n \in 1 .. Len(sends) /\ sends[n].what = "list" /\ taskList' = sends[n].read),
           \A k \in 1 .. Len(t) : t[k] \in Naming(Wholes),
           ~skewed' => ~skewed /\ (\/ LastSent(t, FreshList, ListSend)
                                   \/ /\ taskList' = taskList /\ ~OnTheWay(t, ListSend)
                                      /\ n # 0 => sends[n] \notin Reloading /\ sends[n] \notin ListSend
                                   \/ ListShown'),
           ~astray' => \/ place' = NoTask
                       \/ /\ ~astray /\ place' = place /\ \A k \in 1 .. Len(t) : t[k] \in Minding
                          /\ n # 0 => sends[n] \notin Ending
    PROVE  SideInv'
<1>1. SideTypes /\ WholeKept
  BY DEF SideInv
<1>2. WholeKept'
  BY <1>1, WholeMoved
<1>3. ASSUME ~skewed'
      PROVE  ListShown'
  <2>1. ListShown
    BY <1>3 DEF SideInv
  <2>2. CASE LastSent(t, FreshList, ListSend)
    BY <1>1, <2>2, ShownAsked
  <2>3. CASE taskList' = taskList /\ ~OnTheWay(t, ListSend) /\ (n # 0 => sends[n] \notin Reloading /\ sends[n] \notin ListSend)
    BY <1>1, <2>1, <2>3, ShownMoved
  <2> QED
    BY <1>3, <2>2, <2>3
<1>4. ASSUME ~astray'
      PROVE  PlaceKept'
  <2>1. CASE place' = NoTask
    BY <2>1 DEF PlaceKept
  <2>2. CASE ~astray /\ place' = place /\ (\A k \in 1 .. Len(t) : t[k] \in Minding) /\ (n # 0 => sends[n] \notin Ending)
    <3>1. PlaceKept
      BY <2>2 DEF SideInv
    <3> QED
      BY <1>1, <2>2, <3>1, PlaceMoved
  <2> QED
    BY <1>4, <2>1, <2>2
<1> QED
  BY <1>2, <1>3, <1>4 DEF SideInv

(* The server takes a step with the request at n.                          *)
Wrote(n, d) == n \in 1 .. Len(sends) /\ d \in AnySend /\ sends' = [sends EXCEPT ![n] = d] /\ d.what = sends[n].what

LEMMA WholesWritten ==
    ASSUME SideTypes, NEW n, NEW d, Wrote(n, d), NEW k \in Wholes, halved \subseteq halved',
           tasks[k].state = "gone" => tasks'[k].state = "gone",
           tasks[k].said => tasks'[k].said \/ d \in Muting(k),
           sends[n] \in Muting(k) => d \in Muting(k) \/ k \in halved' \/ tasks'[k].state = "gone"
    PROVE  k \in Wholes'
<1> DEFINE u == sends'
           M == Muting(k)
<1>1. /\ sends \in Seq(AnySend) /\ n \in 1 .. Len(sends) /\ d \in AnySend /\ u \in Seq(AnySend) /\ Written(u, sends, n, d)
      /\ k \in Task /\ Muting(k)' = M
  BY WrittenIs DEF SideTypes, Wrote, Wholes, Muting
<1> HIDE DEF u, M
<1>2. d \in M => OnTheWay(u, M)
  BY ONLY <1>1, WrittenHolds
<1>3. OnTheWay(sends, M) /\ sends[n] \notin M => OnTheWay(u, M)
  BY ONLY <1>1, WrittenHolds
<1>4. k \in halved' \/ tasks'[k].state = "gone" \/ tasks'[k].said \/ OnTheWay(u, M)
  BY <1>1, <1>2, <1>3 DEF Wholes, M
<1> QED
  BY <1>1, <1>4 DEF Wholes, u

LEMMA WholeWritten ==
    ASSUME SideTypes, WholeKept, NEW n, NEW d, Wrote(n, d), UNCHANGED taskList, Wholes \subseteq Wholes',
           \A t \in Task : tasks'[t].title # "" => tasks[t].title # "" \/ t \in Wholes,
           d \in Naming(Wholes) \/ d \in Naming(Wholes)'
    PROVE  WholeKept'
<1> DEFINE V == Wholes'
           N == Naming(V)
           u == sends'
<1>1. Naming(Wholes) \subseteq N /\ Naming(Wholes)' = N
  BY NamingGrows DEF Naming
<1>2. d \in N
  BY <1>1
<1>3. \A i \in 1 .. Len(sends) : sends[i] \in N
  BY <1>1 DEF WholeKept
<1>4. \A k \in Task : tasks'[k].title # "" => k \in V
  BY DEF WholeKept
<1>5. \A e \in taskList' : e.title # "" \/ e.said => e.task \in V
  BY DEF WholeKept
<1>6. sends \in Seq(AnySend) /\ n \in 1 .. Len(sends) /\ d \in AnySend /\ u \in Seq(AnySend) /\ Written(u, sends, n, d)
  BY WrittenIs DEF SideTypes, Wrote
<1> HIDE DEF V, N, u
<1>7. \A i \in 1 .. Len(u) : u[i] \in N
  BY ONLY <1>2, <1>3, <1>6, WrittenHolds
<1> QED
  BY <1>1, <1>4, <1>5, <1>7 DEF WholeKept, V, u

LEMMA ShownWritten ==
    ASSUME SideTypes, ListShown, NEW n, NEW d, Wrote(n, d), UNCHANGED taskList,
           d \in Reloading \/ (Listed' = Listed /\ (d.what = "list" => d.at = "done" /\ d.read = Listed)),
           sends[n] \in Reloading => d \in Reloading
    PROVE  ListShown'
<1> DEFINE c == sends[n]
           u == sends'
<1>1. sends \in Seq(AnySend) /\ n \in 1 .. Len(sends) /\ d \in AnySend /\ u \in Seq(AnySend) /\ Written(u, sends, n, d)
  BY WrittenIs DEF SideTypes, Wrote
<1>2. c \in AnySend /\ d.what = c.what
  BY <1>1 DEF Wrote
<1> HIDE DEF u
<1>3. CASE d \in Reloading
  <2>1. OnTheWay(u, Reloading)
    BY ONLY <1>1, <1>3, WrittenHolds
  <2> QED
    BY <2>1 DEF ListShown, u
<1>4. CASE d \notin Reloading
  <2>1. Listed' = Listed /\ (d.what = "list" => d.at = "done" /\ d.read = Listed)
    BY <1>4
  <2>2. FreshList' = FreshList
    BY <2>1 DEF FreshList
  <2>3. d \in ListSend <=> c \in ListSend
    BY <1>1, <1>2, SendKinds
  <2>4. c \in FreshList => d \in FreshList
    BY <1>1, <2>1, <2>3, SendKinds DEF FreshList
  <2>5. OnTheWay(sends, Reloading) => OnTheWay(u, Reloading)
    BY <1>1, WrittenHolds
  <2>6. LastSent(sends, FreshList, ListSend) => LastSent(u, FreshList, ListSend)
    BY ONLY <1>1, <2>3, <2>4, WrittenSent DEF c
  <2>7. ASSUME ~OnTheWay(sends, ListSend)
        PROVE  ~OnTheWay(u, ListSend)
    <3>1. d \notin ListSend
      BY <1>1, <2>3, <2>7 DEF OnTheWay
    <3> QED
      BY ONLY <1>1, <2>7, <3>1, WrittenHolds
  <2> QED
    BY <2>1, <2>2, <2>5, <2>6, <2>7 DEF ListShown, u
<1> QED
  BY <1>3, <1>4

LEMMA PlaceWritten ==
    ASSUME SideTypes, PlaceKept, NEW n, NEW d, Wrote(n, d), UNCHANGED place,
           place \in Task /\ There(place) => There(place)' \/ (d.what = "delete" /\ d.at = "done" /\ d.ok /\ place \in d.all),
           d.what = "delete" => d.all = sends[n].all /\ d.on = sends[n].on /\ sends[n].at # "done"
    PROVE  PlaceKept'
<1> DEFINE c == sends[n]
           u == sends'
<1>1. sends \in Seq(AnySend) /\ n \in 1 .. Len(sends) /\ d \in AnySend /\ u \in Seq(AnySend) /\ Written(u, sends, n, d)
  BY WrittenIs DEF SideTypes, Wrote
<1>2. c \in AnySend /\ d.what = c.what
  BY <1>1 DEF Wrote
<1>3. Minding' = Minding /\ Ending' = Ending
  BY DEF Minding, Ending
<1> HIDE DEF u
<1> SUFFICES ASSUME place # NoTask
             PROVE  /\ \A i \in 1 .. Len(u) : u[i] \in Minding
                    /\ There(place)' \/ OnTheWay(u, Ending)
  BY <1>3 DEF PlaceKept, u
<1>4. (\A i \in 1 .. Len(sends) : sends[i] \in Minding) /\ (There(place) \/ OnTheWay(sends, Ending))
  BY DEF PlaceKept
<1>5. d \in Minding
  <2>1. c \in Minding
    BY <1>1, <1>4
  <2> QED
    BY <1>1, <1>2, <2>1 DEF Minding
<1>6. c \notin Ending
  BY <1>2 DEF Ending, DeleteSend
<1>7. \A i \in 1 .. Len(u) : u[i] \in Minding
  BY ONLY <1>1, <1>4, <1>5, WrittenHolds
<1>8. OnTheWay(sends, Ending) => OnTheWay(u, Ending)
  BY ONLY <1>1, <1>6, WrittenHolds DEF c
<1>9. There(place) => There(place)' \/ d \in Ending
  <2>1. place \in Task
    BY DEF SideTypes, AnyPlace
  <2>2. d.what = "delete" => d \in DeleteSend
    BY <1>1, SendKinds
  <2> QED
    BY <2>1, <2>2 DEF Ending
<1>10. d \in Ending => OnTheWay(u, Ending)
  BY ONLY <1>1, WrittenHolds
<1> QED
  BY <1>4, <1>7, <1>8, <1>9, <1>10

LEMMA SideWritten ==
    ASSUME SideInv, SideTypes', NEW n, NEW d, Wrote(n, d), UNCHANGED <<taskList, place, skewed, astray>>,
           Wholes \subseteq Wholes',
           \A t \in Task : tasks'[t].title # "" => tasks[t].title # "" \/ t \in Wholes,
           d \in Naming(Wholes) \/ d \in Naming(Wholes)',
           d \in Reloading \/ (Listed' = Listed /\ (d.what = "list" => d.at = "done" /\ d.read = Listed)),
           sends[n] \in Reloading => d \in Reloading,
           \A t \in Task : There(t) => There(t)' \/ (d.what = "delete" /\ d.at = "done" /\ d.ok /\ t \in d.all),
           d.what = "delete" => d.all = sends[n].all /\ d.on = sends[n].on /\ sends[n].at # "done"
    PROVE  SideInv'
<1>1. SideTypes
  BY DEF SideInv
<1>2. WholeKept'
  BY <1>1, WholeWritten DEF SideInv
<1>3. ~skewed' => ListShown'
  BY <1>1, ShownWritten DEF SideInv
<1>4. ASSUME ~astray'
      PROVE  PlaceKept'
  <2>1. PlaceKept
    BY <1>4 DEF SideInv
  <2>2. place \in Task /\ There(place) => There(place)' \/ (d.what = "delete" /\ d.at = "done" /\ d.ok /\ place \in d.all)
    BY DEF There
  <2> QED
    BY <1>1, <2>1, <2>2, PlaceWritten
<1> QED
  BY <1>2, <1>3, <1>4 DEF SideInv

(***************************************************************************)
(* The steps                                                               *)
(***************************************************************************)
LEMMA SideInvInit == SidebarInit => SideInv
<1> SUFFICES ASSUME SidebarInit
             PROVE  SideInv
  OBVIOUS
<1>1. tasks \in [Task -> TaskState] /\ taskList = {} /\ halved = {}
  BY DEF SidebarInit, TaskState, TaskTitle
<1>2. /\ Earliest \subseteq Task /\ selecting = FALSE /\ marked = {} /\ skewed = FALSE /\ astray = FALSE
      /\ \A t \in Task : tasks[t].title # "" => tasks[t].said
      /\ \A t \in Earliest : There(t)
  BY SidebarAssumption DEF SidebarInit, There
<1>3. place \in AnyPlace /\ writing \in AnyPlace /\ (place = NoTask \/ There(place))
  BY <1>2 DEF SidebarInit, AnyPlace
<1> DEFINE f == fetchSessions
           g == NewTask
<1>4. /\ f \in ListSend /\ f \in AnySend /\ g \in NewSend /\ g \in AnySend
      /\ f.what = "list" /\ f.at = "sent" /\ f.read = {} /\ g.what = "new"
  BY DEF fetchSessions, NewTask, ListSend, NewSend, AnySend
<1>5. sends = <<f>> \/ sends = <<f, g>>
  BY DEF SidebarInit
<1> HIDE DEF f, g
<1>6. sends \in Seq(AnySend)
  <2>1. f \in AnySend /\ g \in AnySend
    BY <1>4
  <2>2. <<f>> \in Seq(AnySend)
    BY ONLY <2>1
  <2>3. <<f, g>> \in Seq(AnySend)
    BY ONLY <2>1
  <2> QED
    BY ONLY <1>5, <2>2, <2>3
<1>7. SideTypes
  BY <1>1, <1>2, <1>3, <1>6 DEF SideTypes
<1>8. f \in FreshList /\ g \notin ListSend /\ f \in Minding /\ g \in Minding /\ f \in Naming(Wholes) /\ g \in Naming(Wholes)
  BY <1>4, SendKinds DEF FreshList, Minding, Naming
<1>9. LastSent(sends, FreshList, ListSend)
  BY <1>5, <1>8, OneSent, TwoSent
<1>10. \A i \in 1 .. Len(sends) : sends[i] = f \/ sends[i] = g
  BY <1>5, OneSent, TwoSent
<1>11. WholeKept
  BY <1>1, <1>2, <1>8, <1>10 DEF WholeKept, Wholes
<1>12. PlaceKept
  BY <1>3, <1>8, <1>10 DEF PlaceKept
<1> QED
  BY <1>7, <1>9, <1>11, <1>12 DEF SideInv, ListShown

LEMMA VisibleWhole == ASSUME SideInv PROVE Visible \subseteq Wholes /\ Visible \subseteq Task
BY DEF SideInv, WholeKept, Visible, Wholes

(* Nothing changes that anything is known of.                              *)
LEMMA SideUnmoved ==
    ASSUME SideInv, SideTypes', UNCHANGED <<tasks, taskList, place, sends, halved, skewed, astray>>
    PROVE  SideInv'
<1>1. Wholes' = Wholes /\ Listed' = Listed /\ Minding' = Minding /\ Ending' = Ending /\ There(place)' = There(place)
  BY DEF Wholes, Muting, Listed, There, Minding, Ending
<1>2. FreshList' = FreshList /\ Naming(Wholes)' = Naming(Wholes)
  BY <1>1 DEF FreshList, Naming
<1> QED
  BY <1>1, <1>2 DEF SideInv, WholeKept, ListShown, PlaceKept

LEMMA SideSent ==
    ASSUME SideInv, SideTypes', NEW c \in AnySend, sends' = Append(sends, c), c \in Naming(Wholes), c.what # "list",
           UNCHANGED <<tasks, taskList, halved, skewed, astray>>, place' = NoTask \/ (place' = place /\ c \in Minding)
    PROVE  SideInv'
<1> DEFINE t == <<c>>
<1>1. sends \in Seq(AnySend) /\ c \notin ListSend
  BY SendKinds DEF SideInv, SideTypes
<1>2. t \in Seq(AnySend) /\ sends' = sends \o t
  BY <1>1, AppendIsConcat
<1>3. sends' \in Seq(AnySend) /\ Moved(sends', sends, 0, t)
  BY <1>2 DEF SideTypes, Moved
<1>4. ~OnTheWay(t, ListSend) /\ \A k \in 1 .. Len(t) : t[k] = c
  BY <1>1, OneSent
<1> HIDE DEF t
<1>5. \A k \in 1 .. Len(t) : t[k] \in Naming(Wholes) /\ (c \in Minding => t[k] \in Minding)
  BY <1>4
<1>6. ~astray' => \/ place' = NoTask
                  \/ ~astray /\ place' = place /\ \A k \in 1 .. Len(t) : t[k] \in Minding
  BY <1>5
<1>7. ~skewed' => ~skewed /\ taskList' = taskList /\ ~OnTheWay(t, ListSend)
  BY <1>4
<1> QED
  BY <1>2, <1>3, <1>5, <1>6, <1>7, SideMoved

LEMMA SideUser ==
    ASSUME SideInv,
           \/ OpenChat \/ SendMessage \/ SelectTasks \/ CancelSelection \/ handleSelectAllToggle \/ handleDeleteSelected
           \/ \E t \in Task : \/ handleDelete(t) \/ handleToggleSelect(t)
                              \/ \E title \in TaskNames : handleRename(t, title)
    PROVE  SideInv'
<1>1. SideTypes /\ Visible \subseteq Wholes /\ Visible \subseteq Task /\ sends \in Seq(AnySend)
  BY VisibleWhole DEF SideInv, SideTypes
<1>2. ASSUME SelectTasks \/ CancelSelection \/ handleSelectAllToggle \/ \E t \in Task : handleToggleSelect(t)
      PROVE  SideInv'
  <2>1. /\ UNCHANGED <<tasks, taskList, place, writing, sends, halved, skewed, astray>>
        /\ selecting' \in BOOLEAN /\ marked' \subseteq Task
    BY <1>1, <1>2 DEF SelectTasks, CancelSelection, handleSelectAllToggle, handleToggleSelect, SideTypes
  <2>2. SideTypes'
    BY <1>1, <2>1 DEF SideTypes
  <2> QED
    BY <2>1, <2>2, SideUnmoved
<1>3. ASSUME NEW c \in AnySend, sends' = Append(sends, c),
             UNCHANGED <<tasks, taskList, writing, selecting, marked, halved, skewed, astray>>, place' \in {NoTask, place}
      PROVE  SideTypes'
  <2>1. sends' \in Seq(AnySend) /\ place' \in AnyPlace
    BY <1>1, <1>3 DEF SideTypes, AnyPlace
  <2> QED
    BY <1>1, <1>3, <2>1 DEF SideTypes
<1>4. CASE OpenChat
  <2>1. /\ place' = NoTask /\ sends' = Append(sends, NewTask)
        /\ UNCHANGED <<tasks, taskList, writing, selecting, marked, halved, skewed, astray>>
    BY <1>4 DEF OpenChat, SendOff
  <2>2. NewTask \in AnySend /\ NewTask.what = "new"
    BY <1>1, SideCalls DEF NewTask
  <2>3. NewTask \in Naming(Wholes)
    BY <2>2 DEF Naming
  <2> QED
    BY <1>3, <2>1, <2>2, <2>3, SideSent
<1>5. CASE SendMessage
  <2>1. /\ writing # NoTask /\ sends' = Append(sends, Say)
        /\ UNCHANGED <<tasks, taskList, place, writing, selecting, marked, halved, skewed, astray>>
    BY <1>5 DEF SendMessage, SendOff
  <2>2. Say \in AnySend /\ Say.what = "say" /\ Say.at = "read"
    BY <1>1, <2>1 DEF Say, SaySend, AnySend, SideTypes, AnyPlace
  <2>3. Say \in Naming(Wholes) /\ Say \in Minding
    BY <2>2 DEF Naming, Minding
  <2> QED
    BY <1>3, <2>1, <2>2, <2>3, SideSent
<1>6. ASSUME NEW t \in Task, NEW title \in TaskNames, handleRename(t, title)
      PROVE  SideInv'
  <2> DEFINE c == Rename(t, title)
  <2>1. /\ t \in Visible /\ sends' = Append(sends, c)
        /\ UNCHANGED <<tasks, taskList, place, writing, selecting, marked, halved, skewed, astray>>
    BY <1>6 DEF handleRename, SendOff
  <2>2. c \in RenameSend /\ c.what = "rename" /\ c.task = t
    BY DEF Rename, RenameSend
  <2> HIDE DEF c
  <2>3. c \in AnySend
    BY <2>2 DEF AnySend
  <2>4. c \in Naming(Wholes) /\ c \in Minding
    BY <1>1, <2>1, <2>2, <2>3 DEF Naming, Minding
  <2> QED
    BY <1>3, <2>1, <2>2, <2>3, <2>4, SideSent
<1>7. ASSUME NEW ts \in SUBSET Task, NEW several \in BOOLEAN, sends' = Append(sends, Delete(ts, several)),
             UNCHANGED <<tasks, taskList, place, writing, selecting, marked, halved, skewed, astray>>
      PROVE  SideInv'
  <2> DEFINE c == Delete(ts, several)
  <2>1. c \in DeleteSend /\ c.what = "delete" /\ c.on = place
    BY <1>1 DEF Delete, DeleteSend, SideTypes
  <2> HIDE DEF c
  <2>2. c \in AnySend
    BY <2>1 DEF AnySend
  <2>3. c \in Naming(Wholes) /\ c \in Minding
    BY <2>1, <2>2 DEF Naming, Minding
  <2>4. sends' = Append(sends, c)
    BY <1>7 DEF c
  <2> QED
    BY <1>3, <1>7, <2>1, <2>2, <2>3, <2>4, SideSent
<1>8. ASSUME NEW t \in Task, handleDelete(t)
      PROVE  SideInv'
  <2>1. {t} \in SUBSET Task /\ FALSE \in BOOLEAN
    OBVIOUS
  <2>2. /\ sends' = Append(sends, Delete({t}, FALSE))
        /\ UNCHANGED <<tasks, taskList, place, writing, selecting, marked, halved, skewed, astray>>
    BY <1>8 DEF handleDelete, SendOff
  <2> QED
    BY <1>7, <2>1, <2>2
<1>9. CASE handleDeleteSelected
  <2>1. marked \in SUBSET Task /\ TRUE \in BOOLEAN
    BY <1>1 DEF SideTypes
  <2>2. /\ sends' = Append(sends, Delete(marked, TRUE))
        /\ UNCHANGED <<tasks, taskList, place, writing, selecting, marked, halved, skewed, astray>>
    BY <1>9 DEF handleDeleteSelected, SendOff
  <2> QED
    BY <1>7, <2>1, <2>2
<1> QED
  BY <1>2, <1>4, <1>5, <1>6, <1>8, <1>9

LEMMA OpenTaskStep == ASSUME SideInv, NEW t \in Task, OpenTask(t) PROVE SideInv'
<1>1. SideTypes
  BY DEF SideInv
<1>2. /\ place' = t /\ writing' = t /\ astray' = (astray \/ Deleting(t) \/ ~There(t))
      /\ UNCHANGED <<tasks, taskList, selecting, marked, sends, halved, skewed>>
  BY DEF OpenTask
<1>3. SideTypes'
  <2>1. place' \in AnyPlace /\ writing' \in AnyPlace /\ astray' \in BOOLEAN
    BY <1>1, <1>2 DEF SideTypes, AnyPlace
  <2> QED
    BY <1>1, <1>2, <2>1 DEF SideTypes
<1>4. Wholes' = Wholes /\ Listed' = Listed
  BY <1>2 DEF Wholes, Muting, Listed, There
<1>5. FreshList' = FreshList /\ Naming(Wholes)' = Naming(Wholes)
  BY <1>4 DEF FreshList, Naming
<1>6. WholeKept' /\ (~skewed' => ListShown')
  BY <1>2, <1>4, <1>5 DEF SideInv, WholeKept, ListShown
<1>7. ASSUME ~astray'
      PROVE  PlaceKept'
  <2>1. There(place)'
    BY <1>2, <1>7 DEF There
  <2>2. \A i \in 1 .. Len(sends) : sends[i] \in Minding'
    <3>1. \A i \in 1 .. Len(sends) : sends[i] \in AnySend /\ (sends[i].what = "delete" => t \notin sends[i].all)
      BY <1>1, <1>2, <1>7, SideCalls DEF Deleting
    <3> QED
      BY <1>2, <3>1 DEF Minding
  <2> QED
    BY <1>2, <2>1, <2>2 DEF PlaceKept
<1> QED
  BY <1>3, <1>6, <1>7 DEF SideInv

(* The request at n has been answered or has failed, and t are sent.       *)
SendAnswered(n, t) ==
  n \in 1 .. Len(sends) /\ t \in Seq(AnySend) /\ sends' \in Seq(AnySend) /\ Taken(sends', sends, n, t)
    /\ Moved(sends', sends, n, t)

LEMMA SendLeft ==
    ASSUME SideTypes, NEW n \in 1 .. Len(sends)
    PROVE  /\ sends' = Left(n) => SendAnswered(n, <<>>)
           /\ \A c \in AnySend : sends' = Append(Left(n), c) => SendAnswered(n, <<c>>)
           /\ \A t \in Seq(AnySend) : sends' = Left(n) \o t => SendAnswered(n, t)
<1>1. sends \in Seq(AnySend) /\ Left(n) = RemoveAt(sends, n)
  BY DEF SideTypes, Left
<1>2. RemoveAt(sends, n) \in Seq(AnySend) /\ Taken(RemoveAt(sends, n), sends, n, <<>>)
  BY <1>1, Removed
<1>3. <<>> \in Seq(AnySend)
  OBVIOUS
<1>4. sends' = Left(n) => SendAnswered(n, <<>>)
  BY <1>1, <1>2, <1>3 DEF SendAnswered, Moved
<1>5. ASSUME NEW c \in AnySend, sends' = Append(Left(n), c)
      PROVE  SendAnswered(n, <<c>>)
  <2>1. Append(RemoveAt(sends, n), c) \in Seq(AnySend) /\ Taken(Append(RemoveAt(sends, n), c), sends, n, <<c>>)
    BY <1>1, RemovedAdding
  <2>2. <<c>> \in Seq(AnySend)
    OBVIOUS
  <2> QED
    BY <1>1, <1>5, <2>1, <2>2 DEF SendAnswered, Moved
<1>6. ASSUME NEW t \in Seq(AnySend), sends' = Left(n) \o t
      PROVE  SendAnswered(n, t)
  <2>1. RemoveAt(sends, n) \o t \in Seq(AnySend) /\ Taken(RemoveAt(sends, n) \o t, sends, n, t)
    BY <1>1, RemovedFor
  <2> QED
    BY <1>1, <1>6, <2>1 DEF SendAnswered, Moved
<1> QED
  BY <1>4, <1>5, <1>6

LEMMA Fetching ==
    ASSUME SideTypes
    PROVE  fetchSessions \in FreshList /\ fetchSessions \in Naming(Wholes) /\ fetchSessions \in Minding
<1>1. fetchSessions \in ListSend /\ fetchSessions \in AnySend /\ fetchSessions.what = "list" /\ fetchSessions.at = "sent"
      /\ fetchSessions.read = {}
  BY SideCalls DEF fetchSessions
<1> QED
  BY <1>1 DEF FreshList, Naming, Minding

(* A request that is not a load has been answered, and the page asks for   *)
(* the list, last, or nothing that the list shows has changed.             *)
LEMMA SideAnswered ==
    ASSUME SideInv, NEW n, NEW t, SendAnswered(n, t), UNCHANGED <<tasks, taskList, place, halved, skewed, astray>>,
           writing' \in AnyPlace, UNCHANGED <<selecting, marked>>, sends[n].what \notin {"list", "delete"},
           LastSent(t, FreshList, ListSend) \/ (t = <<>> /\ sends[n] \notin Reloading),
           \A k \in 1 .. Len(t) : t[k] \in Naming(Wholes) /\ t[k] \in Minding
    PROVE  SideInv'
<1>1. SideTypes /\ n \in 1 .. Len(sends) /\ n # 0 /\ t \in Seq(AnySend) /\ sends' \in Seq(AnySend) /\ Moved(sends', sends, n, t)
  BY DEF SideInv, SendAnswered
<1>2. SideTypes'
  BY <1>1 DEF SideTypes
<1>3. sends[n] \notin ListSend /\ sends[n] \notin Ending
  BY DEF ListSend, Ending, DeleteSend
<1>4. ~skewed' => ~skewed /\ (\/ LastSent(t, FreshList, ListSend)
                              \/ taskList' = taskList /\ ~OnTheWay(t, ListSend)
                                 /\ sends[n] \notin Reloading /\ sends[n] \notin ListSend)
  BY <1>3, OneSent
<1>5. ~astray' => ~astray /\ place' = place /\ (\A k \in 1 .. Len(t) : t[k] \in Minding) /\ sends[n] \notin Ending
  BY <1>3
<1>6. taskList' = taskList /\ halved \subseteq halved' /\ ~(n # 0 /\ sends[n].what = "delete" /\ sends[n].at = "sessions")
      /\ \A k \in 1 .. Len(t) : t[k] \in Naming(Wholes)
  OBVIOUS
<1> QED
  BY <1>1, <1>2, <1>4, <1>5, <1>6, SideMoved

LEMMA SessionsListedStep == ASSUME SideInv, NEW n \in 1 .. Len(sends), SessionsListed(n) PROVE SideInv'
<1> DEFINE c == sends[n]
<1>1. SideTypes /\ c \in AnySend /\ c.what = "list" /\ c.at = "done"
  BY SideCalls DEF SideInv, SessionsListed, Back
<1>2. c \in ListSend /\ c.read \subseteq TaskRow
  BY <1>1, SendKinds DEF ListSend
<1>3. /\ taskList' = c.read /\ sends' = Left(n)
      /\ skewed' = (skewed \/ \E m \in 1 .. n - 1 : sends[m].what = "list")
      /\ UNCHANGED <<tasks, place, writing, selecting, marked, halved, astray>>
  BY DEF SessionsListed
<1>4. SendAnswered(n, <<>>)
  BY <1>1, <1>3, SendLeft
<1>5. /\ n # 0 /\ <<>> \in Seq(AnySend) /\ sends' \in Seq(AnySend) /\ Taken(sends', sends, n, <<>>)
      /\ Moved(sends', sends, n, <<>>)
  BY <1>4 DEF SendAnswered
<1>6. SideTypes'
  <2>1. skewed' \in BOOLEAN
    BY <1>1, <1>3 DEF SideTypes
  <2> QED
    BY <1>1, <1>2, <1>3, <1>5, <2>1 DEF SideTypes
<1>7. ASSUME ~skewed'
      PROVE  ~skewed /\ ListShown'
  <2>1. ~skewed /\ \A m \in 1 .. n - 1 : sends[m].what # "list"
    BY <1>3, <1>7
  <2>2. \A m \in 1 .. n - 1 : sends[m] \notin ListSend
    BY <2>1 DEF ListSend
  <2>3. ListShown
    BY <2>1 DEF SideInv
  <2> QED
    BY <1>1, <1>2, <1>3, <1>5, <2>1, <2>2, <2>3, ShownLoaded
<1>8. c \notin Ending
  BY <1>1 DEF Ending, DeleteSend
<1>9. (\A k \in 1 .. Len(<<>>) : FALSE) /\ halved \subseteq halved'
  BY <1>3, OneSent
<1> QED
  BY <1>1, <1>3, <1>5, <1>6, <1>7, <1>8, <1>9, SideMoved

LEMMA AnswerSteps ==
    ASSUME SideInv, NEW n \in 1 .. Len(sends), Created(n) \/ Said(n) \/ Commanded(n) \/ Renamed(n)
    PROVE  SideInv'
<1> DEFINE c == sends[n]
           f == fetchSessions
<1>1. SideTypes /\ c \in AnySend /\ f \in AnySend
  BY SideCalls DEF SideInv
<1>2. f \in FreshList /\ f \in Naming(Wholes) /\ f \in Minding
  BY <1>1, Fetching
<1>3. ASSUME UNCHANGED <<tasks, taskList, place, halved, skewed, astray, selecting, marked>>, writing' \in AnyPlace,
             c.what \notin {"list", "delete"}, NEW a \in AnySend, a \in Naming(Wholes), a \in Minding, a \notin ListSend \/ a = f,
             \/ sends' = Append(Left(n), f)
             \/ sends' = Left(n) \o <<f, a>>
             \/ sends' = Left(n) /\ c \notin Reloading
      PROVE  SideInv'
  <2> HIDE DEF f
  <2>1. CASE sends' = Append(Left(n), f)
    <3>1. SendAnswered(n, <<f>>)
      BY <1>1, <2>1, SendLeft
    <3>2. LastSent(<<f>>, FreshList, ListSend) /\ \A k \in 1 .. Len(<<f>>) : <<f>>[k] = f
      BY <1>2, OneSent
    <3> QED
      BY <1>2, <1>3, <3>1, <3>2, SideAnswered
  <2>2. CASE sends' = Left(n) \o <<f, a>>
    <3>1. <<f, a>> \in Seq(AnySend)
      BY ONLY a \in AnySend, <1>1
    <3>2. SendAnswered(n, <<f, a>>)
      BY <1>1, <2>2, <3>1, SendLeft
    <3>3. LastSent(<<f, a>>, FreshList, ListSend) /\ \A k \in 1 .. Len(<<f, a>>) : <<f, a>>[k] = f \/ <<f, a>>[k] = a
      BY <1>2, <1>3, TwoSent
    <3>4. \A k \in 1 .. Len(<<f, a>>) : <<f, a>>[k] \in Naming(Wholes) /\ <<f, a>>[k] \in Minding
      BY <1>2, <1>3, <3>3
    <3> QED
      BY <1>3, <3>2, <3>3, <3>4, SideAnswered
  <2>3. CASE sends' = Left(n) /\ c \notin Reloading
    <3>1. SendAnswered(n, <<>>)
      BY <1>1, <2>3, SendLeft
    <3>2. \A k \in 1 .. Len(<<>>) : FALSE
      BY OneSent
    <3> QED
      BY <1>3, <2>3, <3>1, <3>2, SideAnswered
  <2> QED
    BY <1>3, <2>1, <2>2, <2>3
<1>4. CASE Created(n)
  <2>1. /\ c.what = "new" /\ c.at = "done" /\ writing' = c.task /\ sends' = Append(Left(n), f)
        /\ UNCHANGED <<tasks, taskList, place, halved, skewed, astray, selecting, marked>>
    BY <1>4 DEF Created, Back
  <2>2. writing' \in AnyPlace
    BY <1>1, <2>1, SendKinds DEF NewSend, AnyPlace
  <2> QED
    BY <1>1, <1>2, <1>3, <2>1, <2>2
<1>5. ASSUME PageKept PROVE UNCHANGED <<taskList, place, skewed, astray, selecting, marked>> /\ writing' \in AnyPlace
  BY <1>1, <1>5 DEF PageKept, SideTypes
<1>6. CASE Said(n)
  <2> DEFINE a == AskPlan(c.task)
  <2>1. c.what = "say" /\ sends' = Left(n) \o <<f, a>> /\ UNCHANGED <<tasks, halved>> /\ PageKept
    BY <1>6 DEF Said, Back
  <2>2. a \in CommandSend /\ a.what = "command"
    BY <1>1, <2>1, SendKinds DEF SaySend, AskPlan, CommandSend
  <2>3. a \in AnySend
    BY <2>2 DEF AnySend
  <2> HIDE DEF a
  <2>4. a \notin ListSend /\ a \in Naming(Wholes) /\ a \in Minding
    BY <2>2, <2>3, SendKinds DEF Naming, Minding
  <2> QED
    BY <1>3, <1>5, <2>1, <2>3, <2>4
<1>7. CASE Commanded(n)
  <2>1. c.what = "command" /\ sends' = (IF c.ok THEN Append(Left(n), f) ELSE Left(n)) /\ UNCHANGED <<tasks, halved>> /\ PageKept
    BY <1>7 DEF Commanded, Back
  <2>2. ~c.ok => c \notin Reloading
    BY <1>1, <2>1 DEF Reloading, NewSend, SaySend, DeleteSend
  <2>3. sends' = Append(Left(n), f) \/ (sends' = Left(n) /\ c \notin Reloading)
    BY <2>1, <2>2
  <2> QED
    BY <1>1, <1>2, <1>3, <1>5, <2>1, <2>3
<1>8. CASE Renamed(n)
  <2>1. c.what = "rename" /\ sends' = (IF c.ok THEN Left(n) \o <<f, f>> ELSE Left(n)) /\ UNCHANGED <<tasks, halved>> /\ PageKept
    BY <1>8 DEF Renamed, Back
  <2>2. ~c.ok => c \notin Reloading
    BY <1>1, <2>1 DEF Reloading, NewSend, SaySend, DeleteSend
  <2>3. sends' = Left(n) \o <<f, f>> \/ (sends' = Left(n) /\ c \notin Reloading)
    BY <2>1, <2>2
  <2> QED
    BY <1>1, <1>2, <1>3, <1>5, <2>1, <2>3
<1> QED
  BY <1>4, <1>6, <1>7, <1>8

LEMMA TasksDeletedStep == ASSUME SideInv, NEW n \in 1 .. Len(sends), TasksDeleted(n) PROVE SideInv'
<1> DEFINE c == sends[n]
           f == fetchSessions
<1>1. SideTypes /\ c \in AnySend /\ f \in AnySend /\ NewTask \in AnySend
  BY SideCalls DEF SideInv
<1>2. c.what = "delete" /\ c.at = "done" /\ UNCHANGED <<tasks, taskList, writing, halved, astray>>
  BY DEF TasksDeleted, Back
<1>3. c \in DeleteSend /\ c \notin ListSend
  BY <1>1, <1>2, SendKinds
<1>4. halved \subseteq halved' /\ taskList' = taskList /\ ~(n # 0 /\ c.what = "delete" /\ c.at = "sessions") /\ n # 0
  BY <1>2
<1>5. CASE ~c.ok
  <2>1. sends' = Left(n) /\ skewed' = TRUE /\ UNCHANGED <<place, selecting, marked>>
    BY <1>5 DEF TasksDeleted
  <2>2. SendAnswered(n, <<>>)
    BY <1>1, <2>1, SendLeft
  <2>3. <<>> \in Seq(AnySend) /\ sends' \in Seq(AnySend) /\ Moved(sends', sends, n, <<>>)
    BY <2>2 DEF SendAnswered
  <2>4. SideTypes'
    BY <1>1, <1>2, <2>1, <2>3 DEF SideTypes
  <2>5. c \notin Ending
    BY <1>5 DEF Ending
  <2>6. ~astray' => ~astray /\ place' = place
    BY <1>2, <2>1
  <2>7. \A k \in 1 .. Len(<<>>) : FALSE
    BY OneSent
  <2> QED
    BY <1>2, <1>4, <2>1, <2>3, <2>4, <2>5, <2>6, <2>7, SideMoved
<1>6. CASE c.ok
  <2> DEFINE x == IF place' # place THEN <<NewTask>> ELSE <<>>
             y == <<f, f>>
             t == x \o y
  <2>1. /\ place' = (IF Leaves(c) THEN NoTask ELSE place) /\ skewed' = skewed
        /\ selecting' = (selecting /\ ~c.several) /\ marked' = (IF c.several THEN {} ELSE marked)
        /\ sends' = Left(n) \o x \o y
    BY <1>6 DEF TasksDeleted
  <2>2. <<NewTask>> \in Seq(AnySend) /\ <<>> \in Seq(AnySend)
    BY ONLY <1>1
  <2>3. y \in Seq(AnySend)
    BY ONLY <1>1
  <2>4. x \in Seq(AnySend)
    BY <2>2
  <2>5. Left(n) \in Seq(AnySend)
    BY <1>1, Removed DEF Left, SideTypes
  <2>6. \A k \in 1 .. Len(x) : x[k] = NewTask
    BY OneSent
  <2>7. f \in FreshList /\ f \in Naming(Wholes) /\ f \in Minding
    BY <1>1, Fetching
  <2>8. NewTask \in Naming(Wholes) /\ NewTask \in Minding
    <3>1. NewTask.what = "new"
      BY DEF NewTask
    <3> QED
      BY <1>1, <3>1 DEF Naming, Minding
  <2> HIDE DEF f, x
  <2>9. LastSent(y, FreshList, ListSend) /\ \A k \in 1 .. Len(y) : y[k] = f
    BY <2>7, TwoSent
  <2> HIDE DEF y
  <2>10. /\ t \in Seq(AnySend) /\ LastSent(t, FreshList, ListSend)
         /\ \A j \in 1 .. Len(t) : (\E i \in 1 .. Len(x) : t[j] = x[i]) \/ (\E k \in 1 .. Len(y) : t[j] = y[k])
    BY <2>3, <2>4, <2>9, AddedLast
  <2>11. \A j \in 1 .. Len(t) : t[j] \in Naming(Wholes) /\ t[j] \in Minding
    BY <2>6, <2>7, <2>8, <2>9, <2>10
  <2>12. sends' = Left(n) \o t
    BY <2>1, <2>3, <2>4, <2>5, ConcatAssociative
  <2> HIDE DEF t
  <2>13. SendAnswered(n, t)
    BY <1>1, <2>10, <2>12, SendLeft
  <2>14. t \in Seq(AnySend) /\ sends' \in Seq(AnySend) /\ Moved(sends', sends, n, t)
    BY <2>13 DEF SendAnswered
  <2>15. SideTypes'
    <3>1. place' \in AnyPlace /\ selecting' \in BOOLEAN /\ marked' \subseteq Task
      BY <1>1, <1>3, <2>1 DEF SideTypes, AnyPlace, DeleteSend
    <3> QED
      BY <1>1, <1>2, <2>1, <2>14, <3>1 DEF SideTypes
  <2>16. ~skewed' => ~skewed /\ LastSent(t, FreshList, ListSend)
    BY <2>1, <2>10
  <2>17. ~astray' => \/ place' = NoTask
                     \/ ~astray /\ place' = place /\ c \notin Ending
    <3>1. CASE Leaves(c)
      BY <2>1, <3>1
    <3>2. ASSUME ~Leaves(c), ~astray', place # NoTask
          PROVE  ~astray /\ place' = place /\ c \notin Ending
      <4>1. ~astray /\ place' = place
        BY <1>2, <2>1, <3>2
      <4>2. c \in Minding
        BY <3>2, <4>1 DEF SideInv, PlaceKept
      <4>3. place \notin c.all
        BY <1>2, <3>2, <4>2 DEF Minding, Leaves
      <4> QED
        BY <4>1, <4>3 DEF Ending
    <3> QED
      BY <2>1, <3>1, <3>2
  <2> QED
    BY <1>2, <1>4, <2>11, <2>14, <2>15, <2>16, <2>17, SideMoved
<1> QED
  BY <1>5, <1>6

LEMMA SendLostStep == ASSUME SideInv, NEW n \in 1 .. Len(sends), SendLost(n) PROVE SideInv'
<1> DEFINE c == sends[n]
<1>1. SideTypes /\ c \in AnySend
  BY SideCalls DEF SideInv
<1>2. /\ sends' = Left(n) /\ skewed' = TRUE /\ astray' = (astray \/ c.what = "delete")
      /\ halved' = (IF c.what = "delete" /\ c.at \in {"messages", "sessions"} THEN halved \cup c.all ELSE halved)
      /\ UNCHANGED <<tasks, taskList, place, writing, selecting, marked>>
  BY DEF SendLost
<1>3. SendAnswered(n, <<>>)
  BY <1>1, <1>2, SendLeft
<1>4. <<>> \in Seq(AnySend) /\ sends' \in Seq(AnySend) /\ Moved(sends', sends, n, <<>>)
  BY <1>3 DEF SendAnswered
<1>5. halved \subseteq halved' /\ (c.what = "delete" /\ c.at = "sessions" => c.all \subseteq halved')
  BY <1>2
<1>6. SideTypes'
  <2>1. halved' \subseteq Task
    <3>1. c.what = "delete" => c.all \subseteq Task
      BY <1>1, SendKinds DEF DeleteSend
    <3> QED
      BY <1>1, <1>2, <3>1 DEF SideTypes
  <2>2. astray' \in BOOLEAN
    BY <1>1, <1>2 DEF SideTypes
  <2> QED
    BY <1>1, <1>2, <1>4, <2>1, <2>2 DEF SideTypes
<1>7. c.what # "delete" => c \notin Ending
  BY DEF Ending, DeleteSend
<1>8. ~astray' => ~astray /\ place' = place /\ c \notin Ending
  BY <1>2, <1>7
<1>9. \A k \in 1 .. Len(<<>>) : FALSE
  BY OneSent
<1> QED
  BY <1>2, <1>4, <1>5, <1>6, <1>8, <1>9, SideMoved

(* The server takes a step: what it writes keeps its type.                 *)
LEMMA ServerTypes ==
    ASSUME SideInv, NEW n \in 1 .. Len(sends), NEW d \in AnySend, Step(n, d), d.what = sends[n].what, PageKept,
           tasks' \in [Task -> TaskState], halved' \subseteq Task
    PROVE  /\ SideTypes /\ SideTypes' /\ sends[n] \in AnySend /\ Wrote(n, d)
           /\ UNCHANGED <<taskList, place, skewed, astray>>
<1>1. SideTypes /\ sends[n] \in AnySend
  BY SideCalls DEF SideInv
<1>2. sends' \in Seq(AnySend)
  BY <1>1, WrittenIs DEF Step, SideTypes
<1>3. UNCHANGED <<taskList, place, writing, selecting, marked, skewed, astray>>
  BY DEF PageKept
<1>4. SideTypes'
  BY <1>1, <1>2, <1>3 DEF SideTypes
<1> QED
  BY <1>1, <1>3, <1>4 DEF Wrote, Step

(* It adds to the rows and takes nothing away.                             *)
LEMMA ServerAdds ==
    ASSUME SideInv, NEW n \in 1 .. Len(sends), NEW d \in AnySend, Step(n, d), d.what = sends[n].what, PageKept,
           d.what # "delete", tasks' \in [Task -> TaskState], UNCHANGED halved,
           \A t \in Task : /\ tasks[t].state # "none" => tasks'[t].state = tasks[t].state
                           /\ tasks[t].said => tasks'[t].said
                           /\ tasks'[t].title # "" => tasks[t].title # "" \/ t \in Wholes,
           d \in Naming(Wholes) \/ d \in Naming(Wholes)',
           d \in Reloading \/ (Listed' = Listed /\ (d.what = "list" => d.at = "done" /\ d.read = Listed)),
           sends[n] \in Reloading => d \in Reloading
    PROVE  SideInv'
<1>1. halved' \subseteq Task
  BY DEF SideInv, SideTypes
<1>2. SideTypes /\ SideTypes' /\ sends[n] \in AnySend /\ Wrote(n, d) /\ UNCHANGED <<taskList, place, skewed, astray>>
  BY <1>1, ServerTypes
<1>3. ASSUME NEW k \in Wholes
      PROVE  k \in Wholes'
  <2>1. k \in Task /\ sends[n] \notin Muting(k)
    BY DEF Wholes, Muting, DeleteSend
  <2>2. /\ tasks[k].state = "gone" => tasks'[k].state = "gone"
        /\ tasks[k].said => tasks'[k].said
    BY <2>1
  <2> QED
    BY <1>2, <2>1, <2>2, WholesWritten
<1>4. Wholes \subseteq Wholes'
  BY <1>3
<1>5. \A t \in Task : There(t) => There(t)'
  BY DEF There
<1>6. \A t \in Task : tasks'[t].title # "" => tasks[t].title # "" \/ t \in Wholes
  OBVIOUS
<1> QED
  BY <1>2, <1>4, <1>5, <1>6, SideWritten

LEMMA ListSessionsStep == ASSUME SideInv, NEW n \in 1 .. Len(sends), ListSessions(n) PROVE SideInv'
<1> DEFINE c == sends[n]
           d == [c EXCEPT !.at = "done", !.read = Listed]
<1>1. SideTypes /\ c \in AnySend /\ c.what = "list"
  BY SideCalls DEF SideInv, ListSessions
<1>2. Step(n, d) /\ UNCHANGED <<tasks, halved>> /\ PageKept
  BY DEF ListSessions, Listed
<1>3. c \in ListSend
  BY <1>1, SendKinds
<1>4. tasks \in [Task -> TaskState]
  BY <1>1 DEF SideTypes
<1>5. Listed \subseteq TaskRow
  BY <1>4 DEF Listed, TaskRow, TaskState
<1>6. d \in ListSend /\ d.what = "list" /\ d.at = "done" /\ d.read = Listed
  BY <1>3, <1>5 DEF ListSend
<1> HIDE DEF d
<1>7. d \in AnySend
  BY <1>6 DEF AnySend
<1>8. d \in Naming(Wholes)
  <2>1. ASSUME NEW e \in Listed, e.title # "" \/ e.said
        PROVE  e.task \in Wholes
    <3>1. e.task \in Task /\ e.title = tasks[e.task].title /\ e.said = tasks[e.task].said
      BY DEF Listed
    <3> QED
      BY <2>1, <3>1 DEF SideInv, WholeKept, Wholes
  <2> QED
    BY <1>6, <1>7, <2>1 DEF Naming
<1>9. Listed' = Listed
  BY <1>2 DEF Listed, There
<1>10. c \notin Reloading
  BY <1>1 DEF Reloading, NewSend, SaySend, DeleteSend, RenameSend, CommandSend
<1>11. /\ tasks' \in [Task -> TaskState]
       /\ \A t \in Task : /\ tasks[t].state # "none" => tasks'[t].state = tasks[t].state
                          /\ tasks[t].said => tasks'[t].said
                          /\ tasks'[t].title # "" => tasks[t].title # "" \/ t \in Wholes
  BY <1>2, <1>4
<1> QED
  BY <1>1, <1>2, <1>6, <1>7, <1>8, <1>9, <1>10, <1>11, ServerAdds

LEMMA createSessionStep == ASSUME SideInv, NEW n \in 1 .. Len(sends), createSession(n) PROVE SideInv'
<1> DEFINE c == sends[n]
<1>1. SideTypes /\ c \in AnySend /\ c.what = "new" /\ UNCHANGED halved /\ PageKept
  BY SideCalls DEF SideInv, createSession
<1>2. PICK k \in Task : /\ tasks[k].state = "none" /\ tasks' = [tasks EXCEPT ![k].state = "there"]
                        /\ Step(n, [sends[n] EXCEPT !.at = "done", !.task = k])
  BY DEF createSession
<1> DEFINE d == [c EXCEPT !.at = "done", !.task = k]
<1>3. c \in NewSend
  BY <1>1, SendKinds
<1>4. d \in NewSend /\ d.what = "new" /\ Step(n, d)
  BY <1>2, <1>3 DEF NewSend
<1> HIDE DEF d
<1>5. d \in AnySend /\ d \in Reloading
  BY <1>4 DEF AnySend, Reloading
<1>6. d \in Naming(Wholes)
  BY <1>4, <1>5 DEF Naming
<1>7. tasks \in [Task -> TaskState]
  BY <1>1 DEF SideTypes
<1>8. tasks' \in [Task -> TaskState]
  BY <1>2, <1>7 DEF TaskState
<1>9. \A t \in Task : /\ tasks[t].state # "none" => tasks'[t].state = tasks[t].state
                      /\ tasks'[t].said = tasks[t].said /\ tasks'[t].title = tasks[t].title
  BY <1>2, <1>7 DEF TaskState
<1> QED
  BY <1>1, <1>4, <1>5, <1>6, <1>8, <1>9, ServerAdds

LEMMA SaveMessageStep == ASSUME SideInv, NEW n \in 1 .. Len(sends), SaveMessage(n) PROVE SideInv'
<1> DEFINE c == sends[n]
           k == c.task
<1>1. SideTypes /\ c \in AnySend /\ c.what = "say" /\ UNCHANGED halved /\ PageKept
  BY SideCalls DEF SideInv, SaveMessage
<1>2. c \in SaySend
  BY <1>1, SendKinds
<1>3. k \in Task /\ c.titled \in BOOLEAN
  BY <1>2 DEF SaySend
<1>4. tasks \in [Task -> TaskState]
  BY <1>1 DEF SideTypes
<1>5. ASSUME NEW d \in SaySend, Step(n, d), d.what = "say", d.task = k, tasks' \in [Task -> TaskState],
             \A t \in Task : /\ tasks'[t].state = tasks[t].state /\ (tasks[t].said => tasks'[t].said)
                             /\ tasks'[t].title # "" => tasks[t].title # "" \/ t \in Wholes,
             d.at = "title" => tasks'[k].said
      PROVE  SideInv'
  <2>1. d \in AnySend /\ d \in Reloading
    BY DEF AnySend, Reloading
  <2>2. d \in Naming(Wholes)'
    <3>1. d.at = "title" => k \in Wholes'
      BY <1>3, <1>5 DEF Wholes
    <3> QED
      BY <1>5, <2>1, <3>1 DEF Naming
  <2> QED
    BY <1>1, <1>5, <2>1, <2>2, ServerAdds
<1>6. CASE c.at = "read"
  <2> DEFINE d == [c EXCEPT !.at = IF There(k) THEN "write" ELSE "done", !.titled = (tasks[k].title # "")]
  <2>1. Step(n, d) /\ UNCHANGED tasks
    BY <1>6 DEF SaveMessage
  <2>2. d \in SaySend /\ d.what = "say" /\ d.task = k /\ d.at # "title"
    BY <1>2 DEF SaySend
  <2> HIDE DEF d
  <2> QED
    BY <1>4, <1>5, <2>1, <2>2
<1>7. CASE c.at = "write"
  <2> DEFINE d == [c EXCEPT !.at = IF There(k) /\ ~c.titled THEN "title" ELSE "done"]
  <2>1. Step(n, d) /\ tasks' = IF There(k) THEN [tasks EXCEPT ![k].said = TRUE] ELSE tasks
    BY <1>7 DEF SaveMessage
  <2>2. d \in SaySend /\ d.what = "say" /\ d.task = k /\ (d.at = "title" => There(k))
    BY <1>2 DEF SaySend
  <2> HIDE DEF d
  <2>3. tasks' \in [Task -> TaskState]
    BY <1>3, <1>4, <2>1 DEF TaskState
  <2>4. \A t \in Task : tasks'[t].state = tasks[t].state /\ (tasks[t].said => tasks'[t].said) /\ tasks'[t].title = tasks[t].title
    BY <1>3, <1>4, <2>1 DEF TaskState
  <2>5. There(k) => tasks'[k].said
    BY <1>3, <1>4, <2>1 DEF TaskState
  <2>6. \A t \in Task : tasks'[t].title # "" => tasks[t].title # "" \/ t \in Wholes
    BY <2>4
  <2> QED
    BY <1>5, <2>1, <2>2, <2>3, <2>4, <2>5, <2>6
<1>8. CASE c.at = "title"
  <2> DEFINE d == [c EXCEPT !.at = "done"]
  <2>1. Step(n, d) /\ tasks' = IF There(k) THEN [tasks EXCEPT ![k].title = "first"] ELSE tasks
    BY <1>8 DEF SaveMessage
  <2>2. d \in SaySend /\ d.what = "say" /\ d.task = k /\ d.at # "title"
    BY <1>2 DEF SaySend
  <2> HIDE DEF d
  <2>3. tasks' \in [Task -> TaskState]
    BY <1>3, <1>4, <2>1 DEF TaskState, TaskTitle
  <2>4. \A t \in Task : tasks'[t].state = tasks[t].state /\ (tasks[t].said => tasks'[t].said)
                        /\ (t # k => tasks'[t].title = tasks[t].title)
    BY <1>3, <1>4, <2>1 DEF TaskState
  <2>5. k \in Wholes
    BY <1>1, <1>8 DEF SideInv, WholeKept, Naming
  <2> QED
    BY <1>5, <2>1, <2>2, <2>3, <2>4, <2>5
<1>9. c.at \in {"read", "write", "title"}
  BY DEF SaveMessage
<1> QED
  BY <1>6, <1>7, <1>8, <1>9

LEMMA SaveCommandStep == ASSUME SideInv, NEW n \in 1 .. Len(sends), SaveCommand(n) PROVE SideInv'
<1> DEFINE c == sends[n]
           k == c.task
<1>1. SideTypes /\ c \in AnySend /\ c.what = "command" /\ c.at \in {"plan", "started"} /\ UNCHANGED halved /\ PageKept
  BY SideCalls DEF SideInv, SaveCommand
<1>2. c \in CommandSend
  BY <1>1, SendKinds
<1>3. k \in Task /\ c.ok \in BOOLEAN
  BY <1>2 DEF CommandSend
<1>4. tasks \in [Task -> TaskState]
  BY <1>1 DEF SideTypes
<1>5. c \in Reloading => c.ok
  BY <1>1 DEF Reloading, NewSend, SaySend, DeleteSend
<1>6. ASSUME NEW d \in CommandSend, Step(n, d), d.what = "command", tasks' \in [Task -> TaskState], c.ok => d.ok,
             \A t \in Task : /\ tasks'[t].state = tasks[t].state /\ tasks'[t].title = tasks[t].title
                             /\ tasks[t].said => tasks'[t].said,
             d.ok \/ \A t \in Task : tasks'[t].said = tasks[t].said
      PROVE  SideInv'
  <2>1. d \in AnySend /\ (d.ok => d \in Reloading)
    BY DEF AnySend, Reloading
  <2>2. d \in Naming(Wholes)
    BY <1>6, <2>1 DEF Naming
  <2>3. d.ok \/ Listed' = Listed
    BY <1>6 DEF Listed, There
  <2>4. \A t \in Task : /\ tasks[t].state # "none" => tasks'[t].state = tasks[t].state
                        /\ tasks[t].said => tasks'[t].said
                        /\ tasks'[t].title # "" => tasks[t].title # "" \/ t \in Wholes
    BY <1>6
  <2> QED
    BY <1>1, <1>5, <1>6, <2>1, <2>2, <2>3, <2>4, ServerAdds
<1>7. CASE Step(n, [c EXCEPT !.at = "done"]) /\ UNCHANGED tasks
  <2> DEFINE d == [c EXCEPT !.at = "done"]
  <2>1. d \in CommandSend /\ d.what = "command" /\ d.ok = c.ok
    BY <1>2 DEF CommandSend
  <2>2. Step(n, d)
    BY <1>7
  <2> HIDE DEF d
  <2> QED
    BY <1>4, <1>6, <1>7, <2>1, <2>2
<1>8. CASE tasks' = [tasks EXCEPT ![k].ordered = TRUE] /\ Step(n, [c EXCEPT !.at = "started"])
  <2> DEFINE d == [c EXCEPT !.at = "started"]
  <2>1. d \in CommandSend /\ d.what = "command" /\ d.ok = c.ok
    BY <1>2 DEF CommandSend
  <2>2. Step(n, d)
    BY <1>8
  <2> HIDE DEF d
  <2>3. tasks' \in [Task -> TaskState]
    BY <1>3, <1>4, <1>8 DEF TaskState
  <2>4. \A t \in Task : tasks'[t].state = tasks[t].state /\ tasks'[t].title = tasks[t].title /\ tasks'[t].said = tasks[t].said
    BY <1>3, <1>4, <1>8 DEF TaskState
  <2> QED
    BY <1>6, <2>1, <2>2, <2>3, <2>4
<1>9. CASE tasks' = [tasks EXCEPT ![k].said = TRUE] /\ Step(n, [c EXCEPT !.at = "done", !.ok = TRUE])
  <2> DEFINE d == [c EXCEPT !.at = "done", !.ok = TRUE]
  <2>1. d \in CommandSend /\ d.what = "command" /\ d.ok
    BY <1>2 DEF CommandSend
  <2>2. Step(n, d)
    BY <1>9
  <2> HIDE DEF d
  <2>3. tasks' \in [Task -> TaskState]
    BY <1>3, <1>4, <1>9 DEF TaskState
  <2>4. \A t \in Task : tasks'[t].state = tasks[t].state /\ tasks'[t].title = tasks[t].title /\ (tasks[t].said => tasks'[t].said)
    BY <1>3, <1>4, <1>9 DEF TaskState
  <2> QED
    BY <1>6, <2>1, <2>2, <2>3, <2>4
<1> QED
  BY <1>7, <1>8, <1>9 DEF SaveCommand

LEMMA RenameSessionStep == ASSUME SideInv, NEW n \in 1 .. Len(sends), RenameSession(n) PROVE SideInv'
<1> DEFINE c == sends[n]
           k == c.task
           d == [c EXCEPT !.at = "done", !.ok = There(k)]
<1>1. SideTypes /\ c \in AnySend /\ c.what = "rename" /\ c.at = "sent" /\ UNCHANGED halved /\ PageKept
  BY SideCalls DEF SideInv, RenameSession
<1>2. c \in RenameSend
  BY <1>1, SendKinds
<1>3. k \in Task /\ c.title \in TaskNames /\ c.ok = FALSE
  BY <1>1, <1>2 DEF RenameSend
<1>4. tasks \in [Task -> TaskState]
  BY <1>1 DEF SideTypes
<1>5. Step(n, d) /\ tasks' = IF There(k) THEN [tasks EXCEPT ![k].title = c.title] ELSE tasks
  BY DEF RenameSession
<1>6. d \in RenameSend /\ d.what = "rename" /\ d.task = k /\ (There(k) => d.ok)
  <2>1. There(k) \in BOOLEAN
    BY DEF There
  <2> QED
    BY <1>1, <1>2, <2>1 DEF RenameSend
<1> HIDE DEF d
<1>7. d \in AnySend /\ (d.ok => d \in Reloading)
  BY <1>6 DEF AnySend, Reloading
<1>8. k \in Wholes
  BY <1>1 DEF SideInv, WholeKept, Naming
<1>9. d \in Naming(Wholes)
  BY <1>6, <1>7, <1>8 DEF Naming
<1>10. c \notin Reloading
  BY <1>1, <1>3 DEF Reloading, NewSend, SaySend, DeleteSend
<1>11. d \in Reloading \/ Listed' = Listed
  BY <1>5, <1>6, <1>7 DEF Listed, There
<1>12. tasks' \in [Task -> TaskState]
  BY <1>3, <1>4, <1>5 DEF TaskState, TaskTitle
<1>13. \A t \in Task : /\ tasks'[t].state = tasks[t].state /\ tasks'[t].said = tasks[t].said
                       /\ t # k => tasks'[t].title = tasks[t].title
  BY <1>3, <1>4, <1>5 DEF TaskState
<1> QED
  BY <1>1, <1>5, <1>6, <1>7, <1>8, <1>9, <1>10, <1>11, <1>12, <1>13, ServerAdds

(* A deletion takes commands, messages and sessions.                       *)
LEMMA DeleteSessionsStep == ASSUME SideInv, NEW n \in 1 .. Len(sends), DeleteSessions(n) PROVE SideInv'
<1> DEFINE c == sends[n]
<1>1. SideTypes /\ c \in AnySend /\ c.what = "delete" /\ PageKept
  BY SideCalls DEF SideInv, DeleteSessions
<1>2. c \in DeleteSend /\ c.all \subseteq Task
  BY <1>1, SendKinds DEF DeleteSend
<1>3. tasks \in [Task -> TaskState]
  BY <1>1 DEF SideTypes
<1>4. ASSUME NEW d \in DeleteSend, Step(n, d), d.what = "delete", d.all = c.all, d.on = c.on, c.at # "done",
             tasks' \in [Task -> TaskState], halved \subseteq halved', halved' \subseteq Task,
             \A t \in Task : tasks'[t].title = tasks[t].title,
             \A t \in Task : /\ tasks[t].state = "gone" => tasks'[t].state = "gone"
                             /\ There(t) => There(t)' \/ (d.at = "done" /\ d.ok /\ t \in d.all),
             \A t \in Task : tasks[t].said => tasks'[t].said \/ (d.at = "sessions" /\ t \in d.all),
             c.at = "sessions" => \A t \in c.all : t \in halved' \/ tasks'[t].state = "gone"
      PROVE  SideInv'
  <2>1. d \in AnySend /\ d \in Reloading
    BY DEF AnySend, Reloading
  <2>2. SideTypes' /\ Wrote(n, d) /\ UNCHANGED <<taskList, place, skewed, astray>>
    BY <1>1, <1>4, <2>1, ServerTypes
  <2>3. ASSUME NEW k \in Wholes
        PROVE  k \in Wholes'
    <3>1. k \in Task
      BY DEF Wholes
    <3>2. tasks[k].said => tasks'[k].said \/ d \in Muting(k)
      BY <1>4, <3>1 DEF Muting
    <3>3. c \in Muting(k) => k \in halved' \/ tasks'[k].state = "gone"
      BY <1>4 DEF Muting
    <3>4. tasks[k].state = "gone" => tasks'[k].state = "gone"
      BY <1>4, <3>1
    <3> QED
      BY <1>1, <1>4, <2>2, <3>2, <3>3, <3>4, WholesWritten
  <2>4. d \in Naming(Wholes)
    BY <1>4, <2>1 DEF Naming
  <2>5. Wholes \subseteq Wholes'
    BY <2>3
  <2> QED
    BY <1>4, <2>1, <2>2, <2>4, <2>5, SideWritten
<1>5. CASE c.at = "commands"
  <2> DEFINE d == [c EXCEPT !.at = "messages"]
  <2>1. /\ tasks' = [t \in Task |-> IF t \in c.all THEN [tasks[t] EXCEPT !.ordered = FALSE] ELSE tasks[t]]
        /\ Step(n, d) /\ UNCHANGED halved
    BY <1>5 DEF DeleteSessions
  <2>2. d \in DeleteSend /\ d.what = "delete" /\ d.all = c.all /\ d.on = c.on
    BY <1>2 DEF DeleteSend
  <2> HIDE DEF d
  <2>3. tasks' \in [Task -> TaskState]
    BY <1>3, <2>1 DEF TaskState
  <2>4. \A t \in Task : tasks'[t].state = tasks[t].state /\ tasks'[t].title = tasks[t].title /\ tasks'[t].said = tasks[t].said
    BY <1>3, <2>1 DEF TaskState
  <2> QED
    BY <1>1, <1>4, <1>5, <2>1, <2>2, <2>3, <2>4 DEF There, SideTypes
<1>6. CASE c.at = "messages"
  <2> DEFINE d == [c EXCEPT !.at = "sessions"]
  <2>1. /\ tasks' = [t \in Task |-> IF t \in c.all THEN [tasks[t] EXCEPT !.said = FALSE] ELSE tasks[t]]
        /\ Step(n, d) /\ UNCHANGED halved
    BY <1>6 DEF DeleteSessions
  <2>2. d \in DeleteSend /\ d.what = "delete" /\ d.all = c.all /\ d.on = c.on /\ d.at = "sessions"
    BY <1>2 DEF DeleteSend
  <2> HIDE DEF d
  <2>3. tasks' \in [Task -> TaskState]
    BY <1>3, <2>1 DEF TaskState
  <2>4. \A t \in Task : /\ tasks'[t].state = tasks[t].state /\ tasks'[t].title = tasks[t].title
                        /\ t \notin c.all => tasks'[t].said = tasks[t].said
    BY <1>3, <2>1 DEF TaskState
  <2> QED
    BY <1>1, <1>4, <1>6, <2>1, <2>2, <2>3, <2>4 DEF There, SideTypes
<1>7. CASE c.at = "sessions" /\ \E t \in c.all : tasks[t].said \/ tasks[t].ordered
  <2> DEFINE d == [c EXCEPT !.at = "done"]
  <2>1. UNCHANGED tasks /\ Step(n, d) /\ halved' = halved \cup c.all
    BY <1>7 DEF DeleteSessions
  <2>2. d \in DeleteSend /\ d.what = "delete" /\ d.all = c.all /\ d.on = c.on
    BY <1>2 DEF DeleteSend
  <2> HIDE DEF d
  <2>3. halved \subseteq halved' /\ halved' \subseteq Task
    BY <1>1, <1>2, <2>1 DEF SideTypes
  <2> QED
    BY <1>3, <1>4, <1>7, <2>1, <2>2, <2>3 DEF There
<1>8. CASE c.at = "sessions" /\ ~\E t \in c.all : tasks[t].said \/ tasks[t].ordered
  <2> DEFINE d == [c EXCEPT !.at = "done", !.ok = TRUE]
  <2>1. /\ tasks' = [t \in Task |-> IF t \in c.all THEN [tasks[t] EXCEPT !.state = "gone"] ELSE tasks[t]]
        /\ Step(n, d) /\ UNCHANGED halved
    BY <1>8 DEF DeleteSessions
  <2>2. d \in DeleteSend /\ d.what = "delete" /\ d.all = c.all /\ d.on = c.on /\ d.at = "done" /\ d.ok
    BY <1>2 DEF DeleteSend
  <2> HIDE DEF d
  <2>3. tasks' \in [Task -> TaskState]
    BY <1>3, <2>1 DEF TaskState
  <2>4. \A t \in Task : /\ tasks'[t].said = tasks[t].said /\ tasks'[t].title = tasks[t].title
                        /\ t \in c.all => tasks'[t].state = "gone"
                        /\ t \notin c.all => tasks'[t].state = tasks[t].state
    BY <1>3, <2>1 DEF TaskState
  <2> QED
    BY <1>1, <1>2, <1>4, <1>8, <2>1, <2>2, <2>3, <2>4 DEF There, SideTypes
<1> QED
  BY <1>5, <1>6, <1>7, <1>8 DEF DeleteSessions

LEMMA SideInvStep == SideInv /\ [SidebarNext]_sidebarVars => SideInv'
<1> SUFFICES ASSUME SideInv, [SidebarNext]_sidebarVars
             PROVE  SideInv'
  OBVIOUS
<1>1. CASE UNCHANGED sidebarVars
  <2>1. UNCHANGED <<tasks, taskList, place, writing, selecting, marked, sends, halved, skewed, astray>>
    BY <1>1 DEF sidebarVars
  <2>2. SideTypes'
    BY <2>1 DEF SideInv, SideTypes
  <2> QED
    BY <2>1, <2>2, SideUnmoved
<1>2. CASE \/ OpenChat \/ SendMessage \/ SelectTasks \/ CancelSelection \/ handleSelectAllToggle \/ handleDeleteSelected
           \/ \E t \in Task : \/ handleDelete(t) \/ handleToggleSelect(t)
                              \/ \E title \in TaskNames : handleRename(t, title)
  BY <1>2, SideUser
<1>3. CASE \E t \in Task : OpenTask(t)
  BY <1>3, OpenTaskStep
<1>4. ASSUME NEW n \in 1 .. Len(sends),
             \/ ListSessions(n) \/ createSession(n) \/ SaveMessage(n) \/ SaveCommand(n) \/ RenameSession(n) \/ DeleteSessions(n)
             \/ SessionsListed(n) \/ Created(n) \/ Said(n) \/ Commanded(n) \/ Renamed(n) \/ TasksDeleted(n) \/ SendLost(n)
      PROVE  SideInv'
  BY <1>4, ListSessionsStep, createSessionStep, SaveMessageStep, SaveCommandStep, RenameSessionStep, DeleteSessionsStep,
     SessionsListedStep, AnswerSteps, TasksDeletedStep, SendLostStep
<1> QED
  BY <1>1, <1>2, <1>3, <1>4 DEF SidebarNext

LEMMA SideSettled == SideInv => SidebarSettles
<1> SUFFICES ASSUME SideInv
             PROVE  SidebarSettles
  OBVIOUS
<1>1. ASSUME sends = <<>>
      PROVE  (~skewed => taskList = Listed) /\ (~astray => place = NoTask \/ There(place))
  <2>1. \A i \in 1 .. Len(sends) : FALSE
    BY <1>1
  <2>2. \A P, Q : ~OnTheWay(sends, P) /\ ~LastSent(sends, P, Q)
    BY <2>1 DEF OnTheWay, LastSent
  <2> QED
    BY <2>2 DEF SideInv, ListShown, PlaceKept
<1>2. ASSUME NEW t \in Task, There(t), t \notin halved, ~Deleting(t), tasks[t].title # ""
      PROVE  tasks[t].said
  <2>1. t \in Wholes
    BY <1>2 DEF SideInv, WholeKept
  <2>2. ~OnTheWay(sends, Muting(t))
    BY <1>2 DEF OnTheWay, Muting, Deleting, DeleteSend
  <2> QED
    BY <1>2, <2>1, <2>2 DEF Wholes, There
<1> QED
  BY <1>1, <1>2 DEF SidebarSettles, Listed

(* When nothing is on its way any more, the sidebar lists the sessions     *)
(* there are, the URL is of one of them, and a session with a name has its *)
(* messages: SidebarSettles, for any sessions, names and number of         *)
(* requests, with all the deletions, messages, commands and answers that   *)
(* can come between.                                                       *)
THEOREM SidebarAlwaysSettles == SidebarSpec => []SidebarSettles
<1>1. SidebarInit => SideInv
  BY SideInvInit
<1>2. SideInv /\ [SidebarNext]_sidebarVars => SideInv'
  BY SideInvStep
<1>3. SideInv => SidebarSettles
  BY SideSettled
<1> QED
  BY <1>1, <1>2, <1>3, PTL DEF SidebarSpec

(* The rest of the types: tasks are marked in the selection mode only, and *)
(* the bounds hold.                                                        *)
SideMarks == (marked # {} => selecting) /\ selecting \in BOOLEAN
SideCounted == sideActs \in 0 .. MaxSideActs /\ sideFaults \in 0 .. MaxSideFaults

LEMMA SideMarksStep == ASSUME SideMarks, SidebarNext PROVE SideMarks'
<1>1. CASE UNCHANGED <<selecting, marked>>
  BY <1>1 DEF SideMarks
<1>2. CASE SelectTasks \/ CancelSelection \/ handleSelectAllToggle
  BY <1>2 DEF SideMarks, SelectTasks, CancelSelection, handleSelectAllToggle
<1>3. ASSUME NEW t \in Task, handleToggleSelect(t) PROVE SideMarks'
  BY <1>3 DEF SideMarks, handleToggleSelect
<1>4. ASSUME NEW n \in 1 .. Len(sends), TasksDeleted(n) PROVE SideMarks'
  <2>1. \/ UNCHANGED <<selecting, marked>>
        \/ /\ selecting' = (selecting /\ ~sends[n].several)
           /\ marked' = IF sends[n].several THEN {} ELSE marked
    BY <1>4 DEF TasksDeleted
  <2>2. CASE sends[n].several
    BY <1>1, <2>1, <2>2 DEF SideMarks
  <2>3. CASE ~sends[n].several
    BY <1>1, <2>1, <2>3 DEF SideMarks
  <2> QED
    BY <2>2, <2>3
<1>5. \/ UNCHANGED <<selecting, marked>>
      \/ SelectTasks \/ CancelSelection \/ handleSelectAllToggle
      \/ \E t \in Task : handleToggleSelect(t)
      \/ \E n \in 1 .. Len(sends) : TasksDeleted(n)
  BY DEF SidebarNext, OpenChat, SendMessage, handleDeleteSelected, OpenTask, handleDelete, handleRename,
         ListSessions, createSession, SaveMessage, SaveCommand, RenameSession, DeleteSessions, PageKept,
         SessionsListed, Created, Said, Commanded, Renamed, SendLost
<1> QED
  BY <1>1, <1>2, <1>3, <1>4, <1>5

LEMMA SideCountedStep == ASSUME SideCounted, SidebarNext PROVE SideCounted'
<1>1. CASE Doing /\ UNCHANGED sideFaults
  BY <1>1, SidebarAssumption DEF SideCounted, Doing
<1>2. CASE UNCHANGED <<sideActs, sideFaults>>
  BY <1>2 DEF SideCounted
<1>3. CASE SideFault /\ UNCHANGED sideActs
  BY <1>3, SidebarAssumption DEF SideCounted, SideFault
<1>4. \/ Doing /\ UNCHANGED sideFaults
      \/ UNCHANGED <<sideActs, sideFaults>>
      \/ SideFault /\ UNCHANGED sideActs
  BY DEF SidebarNext, OpenChat, SendMessage, SelectTasks, CancelSelection, handleSelectAllToggle, handleDeleteSelected,
         OpenTask, handleDelete, handleToggleSelect, handleRename, ListSessions, createSession, SaveMessage,
         SaveCommand, RenameSession, DeleteSessions, PageKept, SessionsListed, Created, Said, Commanded, Renamed,
         TasksDeleted, SendLost
<1> QED
  BY <1>1, <1>2, <1>3, <1>4

(* The variables of the sidebar keep their types, and tasks are marked in  *)
(* the selection mode only: SidebarTypeOK.                                 *)
THEOREM SidebarTypesCorrect == SidebarSpec => []SidebarTypeOK
<1>1. SidebarInit => SideInv /\ SideMarks /\ SideCounted
  <2>1. SidebarInit => marked = {} /\ selecting = FALSE /\ sideActs = 0 /\ sideFaults = 0
    BY DEF SidebarInit
  <2>2. marked = {} /\ selecting = FALSE => SideMarks
    BY DEF SideMarks
  <2>3. sideActs = 0 /\ sideFaults = 0 => SideCounted
    BY SidebarAssumption DEF SideCounted
  <2> QED
    BY <2>1, <2>2, <2>3, SideInvInit
<1>2. SideInv /\ SideMarks /\ SideCounted /\ [SidebarNext]_sidebarVars => (SideInv /\ SideMarks /\ SideCounted)'
  <2>1. SideMarks /\ SideCounted /\ UNCHANGED sidebarVars => SideMarks' /\ SideCounted'
    BY DEF sidebarVars, SideMarks, SideCounted
  <2> QED
    BY <2>1, SideInvStep, SideMarksStep, SideCountedStep
<1>3. SideInv /\ SideMarks /\ SideCounted => SidebarTypeOK
  <2> SUFFICES ASSUME SideInv, SideMarks, SideCounted PROVE SidebarTypeOK
    OBVIOUS
  <2>1. /\ tasks \in [Task -> TaskState] /\ taskList \subseteq TaskRow /\ place \in AnyPlace /\ writing \in AnyPlace
        /\ marked \subseteq Task /\ halved \subseteq Task
    BY DEF SideInv, SideTypes
  <2>2. \A t \in Task : tasks[t].state \in {"none", "there", "gone"} /\ tasks[t].title \in TaskNames \cup {"", "first"}
    BY <2>1 DEF TaskState, TaskTitle
  <2>3. {r.task : r \in taskList} \subseteq Task
    BY <2>1 DEF TaskRow
  <2> QED
    BY <2>1, <2>2, <2>3 DEF SidebarTypeOK, AnyPlace, SideMarks, SideCounted
<1> QED
  BY <1>1, <1>2, <1>3, PTL DEF SidebarSpec

-----------------------------------------------------------------------------
(* In the composition of the pages every step of a component is one of its *)
(* own, and the others stay where they were: both lists settle, which is   *)
(* ListsSettle.                                                            *)
THEOREM ListsAlwaysSettle == PagesSpec => []ListsSettle
<1>1. PagesInit => ListInv /\ SideInv
  BY ListInvInit, SideInvInit DEF PagesInit
<1>2. ListInv /\ SideInv /\ [PagesNext]_pagesVars => ListInv' /\ SideInv'
  <2>1. [PagesNext]_pagesVars => [LeadListNext]_listVars /\ [SidebarNext]_sidebarVars
    <3>1. CASE PagesNext
      <4>1. LeadListNext \/ UNCHANGED listVars
        BY <3>1 DEF PagesNext
      <4>2. SidebarNext \/ UNCHANGED sidebarVars
        BY <3>1 DEF PagesNext
      <4> QED
        BY <4>1, <4>2
    <3>2. CASE UNCHANGED pagesVars
      BY <3>2 DEF pagesVars
    <3> QED
      BY <3>1, <3>2
  <2> QED
    BY <2>1, ListInvStep, SideInvStep
<1>3. ListInv /\ SideInv => ListsSettle
  BY ListSettled, SideSettled DEF ListsSettle
<1> QED
  BY <1>1, <1>2, <1>3, PTL DEF PagesSpec

(* The variables of every page and route keep their types, whichever of    *)
(* them is at work: PagesTypeOK.                                           *)
THEOREM PagesTypesCorrect == PagesSpec => []PagesTypeOK
<1>1. PagesInit => /\ StoreInit /\ DraftsInit /\ AccessInit /\ FileInit /\ WizardInit /\ CampaignPageInit
                   /\ LeadListInit /\ DeskInit /\ SidebarInit
  BY DEF PagesInit
<1>2. [PagesNext]_pagesVars => /\ [StoreNext]_storeVars /\ [DraftsNext]_draftsVars /\ [AccessNext]_accessVars
                               /\ [FileNext]_fileVars /\ [WizardNext]_wizardVars
  <2>1. PagesNext => /\ StoreNext \/ UNCHANGED storeVars
                     /\ DraftsNext \/ UNCHANGED draftsVars
                     /\ AccessNext \/ UNCHANGED accessVars
                     /\ FileNext \/ UNCHANGED fileVars
                     /\ WizardNext \/ UNCHANGED wizardVars
    BY DEF PagesNext
  <2> QED
    BY <2>1 DEF pagesVars
<1>3. [PagesNext]_pagesVars => /\ [CampaignPageNext]_cpageVars /\ [LeadListNext]_listVars /\ [DeskNext]_deskVars
                               /\ [SidebarNext]_sidebarVars
  <2>1. PagesNext => /\ CampaignPageNext \/ UNCHANGED cpageVars
                     /\ LeadListNext \/ UNCHANGED listVars
                     /\ DeskNext \/ UNCHANGED deskVars
                     /\ SidebarNext \/ UNCHANGED sidebarVars
    BY DEF PagesNext
  <2> QED
    BY <2>1 DEF pagesVars
<1>4. PagesSpec => StoreSpec /\ DraftsSpec /\ AccessSpec /\ FileSpec /\ WizardSpec
  BY <1>1, <1>2, PTL DEF PagesSpec, StoreSpec, DraftsSpec, AccessSpec, FileSpec, WizardSpec
<1>5. PagesSpec => CampaignPageSpec /\ LeadListSpec /\ DeskSpec /\ SidebarSpec
  BY <1>1, <1>3, PTL DEF PagesSpec, CampaignPageSpec, LeadListSpec, DeskSpec, SidebarSpec
<1>6. /\ StoreTypeOK /\ DraftsTypeOK /\ AccessTypeOK /\ FileTypeOK /\ WizardTypeOK /\ CampaignPageTypeOK
      /\ LeadListTypeOK /\ DeskTypeOK /\ SidebarTypeOK
      => PagesTypeOK
  BY DEF PagesTypeOK
<1> QED
  BY <1>4, <1>5, <1>6, StoreTypesCorrect, DraftsTypesCorrect, AccessTypesCorrect, FileTypesCorrect, WizardTypesCorrect,
     CampaignPageTypes, ListTypesCorrect, DeskTypesCorrect, SidebarTypesCorrect, PTL
=============================================================================
