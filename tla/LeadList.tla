------------------------------ MODULE LeadList ------------------------------
(***************************************************************************)
(* The list of leads, app/leads/page.tsx: leads of a group or of all, those *)
(* a search finds or all, and the groups with how many leads each has.  A  *)
(* button for the ticked leads -- put them into groups or a campaign, take *)
(* them out of the group, delete them -- sends its request, and when it is *)
(* answered loads the groups and then the list, of the group and for the   *)
(* search there were when the button was pressed.  Another group, a search *)
(* or a new lead can come between, and answers come in any order.          *)
(*                                                                         *)
(* LeadFile has the page's import and export, LeadStore the creation of a  *)
(* lead; what a campaign refuses is in CampaignDrafts.  The list stops at  *)
(* 200 leads.                                                              *)
(***************************************************************************)
EXTENDS Integers, Sequences, SequencesExt, FiniteSets

CONSTANTS
  ListLead, ListGroup,  \* leads and groups that are or can be created
  Kept,                 \* the workspace at first: [leads, groups, inGroup]
  Found,                \* the leads the search finds
  All,                  \* no group: the whole list
  MaxCalls, MaxListActs, MaxListFaults  \* bounds: requests sent while others are under way,
                                        \* clicks, and requests that fail

(* A row of a group has a group and a lead, by its foreign keys.              *)
ASSUME ListAssumption ==
  /\ Kept \in [leads : SUBSET ListLead, groups : SUBSET ListGroup, inGroup : SUBSET (ListGroup \X ListLead)]
  /\ Kept.inGroup \subseteq Kept.groups \X Kept.leads /\ Found \subseteq ListLead
  /\ All \notin ListGroup /\ MaxCalls \in Nat /\ MaxListActs \in Nat /\ MaxListFaults \in Nat

VARIABLES
  base,       \* the database: leads, groups, and pairs <<group, lead>>
  listing,    \* leads: [leads, inGroup], as the page shows them
  sidebar,    \* groups: the count of each
  group,      \* selectedGroupId
  query,      \* whether a search is typed
  ticked,     \* selectedLeadIds
  loadingRows,    \* the rows are hidden
  form,       \* "closed" or "open"
  calls,      \* requests under way, in the order they were sent
  onTop,      \* leads created on the page since the list was loaded
  sought,     \* history: whether the last load asked for was a search
  crossed,    \* history: the list or the groups can be other than was asked last
  listActs, listFaults  \* history: what the bounds count

asking == <<group, query, ticked, form>>
listVars == <<base, listing, sidebar, asking, loadingRows, calls, onTop, sought, crossed, listActs, listFaults>>

Counts(b) == [g \in b.groups |-> Cardinality({l \in b.leads : <<g, l>> \in b.inGroup})]
Matching(b, q, g) ==
  LET of == {l \in b.leads : (q => l \in Found) /\ (g # All => <<g, l>> \in b.inGroup)}
  IN [leads |-> of, inGroup |-> {p \in b.inGroup : p[2] \in of}]
Empty == [leads |-> {}, inGroup |-> {}]

(* loadGroups, with the list to load after it if there is one; loadLeads; and *)
(* a request about leads or a group that has `then` loaded.                   *)
Groups(then) == [what |-> "groups", done |-> FALSE, read |-> <<>>, then |-> then]
Leads(q, g) == [what |-> "leads", done |-> FALSE, read |-> Empty, q |-> q, g |-> g]
Bulk(what, leads, groups) ==
  [what |-> what, done |-> FALSE, ok |-> TRUE, leads |-> leads, groups |-> groups, then |-> {<<query, group>>}]

LeadListInit ==
  /\ base = Kept /\ listing = Empty /\ sidebar = <<>>
  /\ group = All /\ query = FALSE /\ ticked = {} /\ loadingRows = TRUE /\ form = "closed"
  /\ calls = <<Groups({}), Leads(FALSE, All)>> /\ onTop = {} /\ sought = FALSE /\ crossed = FALSE
  /\ listActs = 0 /\ listFaults = 0

Act == listActs < MaxListActs /\ listActs' = listActs + 1
Issue(call) == Len(calls) < MaxCalls /\ calls' = Append(calls, call)
ListFault == listFaults < MaxListFaults /\ listFaults' = listFaults + 1
Pending(what) == \E n \in 1 .. Len(calls) : calls[n].what = what
(* The list will be loaded as a button asked for it before, or a lead be put  *)
(* on top of the list there was.                                              *)
StaleToCome == Pending("create") \/ \E n \in 1 .. Len(calls) : calls[n].what # "leads" /\ calls[n].then # {}

-----------------------------------------------------------------------------
(* The page *)

SelectGroup_keepList(g) ==
  /\ Act /\ form = "closed" /\ g # group /\ g \in DOMAIN sidebar \cup {All}
  /\ group' = g /\ ticked' = {} /\ Issue(Groups({}))
  /\ crossed' = (crossed \/ StaleToCome)
  /\ UNCHANGED <<base, listing, sidebar, query, loadingRows, form, onTop, sought, listFaults>>
(* The effect of a group that is selected.                                    *)
SelectGroup(g) ==
  /\ Act /\ form = "closed" /\ g # group /\ g \in DOMAIN sidebar \cup {All}
  /\ group' = g /\ ticked' = {} /\ loadingRows' = TRUE /\ sought' = query
  /\ Len(calls) < MaxCalls /\ calls' = calls \o <<Groups({}), Leads(query, g)>>
  /\ crossed' = (crossed \/ StaleToCome)
  /\ UNCHANGED <<base, listing, sidebar, query, form, onTop, listFaults>>

TypeQuery ==
  /\ Act /\ form = "closed" /\ query' = ~query
  /\ UNCHANGED <<base, listing, sidebar, group, ticked, form, loadingRows, calls, onTop, sought, crossed, listFaults>>

handleSearchSubmit ==
  /\ Act /\ form = "closed" /\ Issue(Leads(query, group))
  /\ loadingRows' = TRUE /\ sought' = query /\ crossed' = (crossed \/ StaleToCome)
  /\ UNCHANGED <<base, listing, sidebar, asking, onTop, listFaults>>

handleToggleSelectLead(l) ==
  /\ Act /\ form = "closed" /\ ~loadingRows /\ l \in listing.leads
  /\ ticked' = IF l \in ticked THEN ticked \ {l} ELSE ticked \cup {l}
  /\ UNCHANGED <<base, listing, sidebar, group, query, form, loadingRows, calls, onTop, sought, crossed, listFaults>>

(* As many ticked as there are in the list counts as all of them ticked.      *)
handleToggleSelectAll ==
  /\ Act /\ form = "closed"
  /\ ticked' = IF Cardinality(ticked) = Cardinality(listing.leads) THEN {} ELSE listing.leads
  /\ UNCHANGED <<base, listing, sidebar, group, query, form, loadingRows, calls, onTop, sought, crossed, listFaults>>

DeselectAll ==
  /\ form = "closed" /\ ticked # {} /\ ticked' = {}
  /\ UNCHANGED <<base, listing, sidebar, group, query, form, loadingRows, calls, onTop, sought, crossed, listActs, listFaults>>

handleCreateGroup ==
  /\ Act /\ form = "closed" /\ ~Pending("newgroup")
  /\ Issue([Bulk("newgroup", {}, {}) EXCEPT !.then = {}])
  /\ UNCHANGED <<base, listing, sidebar, asking, loadingRows, onTop, sought, crossed, listFaults>>

(* The bar is there while leads are ticked. *)
Press(call) ==
  /\ Act /\ form = "closed" /\ ticked # {} /\ Issue(call)
  /\ crossed' = (crossed \/ Pending("create"))
  /\ UNCHANGED <<base, listing, sidebar, asking, onTop, sought, listFaults>>

handleBulkAddLeadsToGroups(groups) ==
  groups # {} /\ groups \subseteq DOMAIN sidebar /\ Press(Bulk("add", ticked, groups)) /\ UNCHANGED loadingRows
handleRemoveLeadsFromGroup == group # All /\ Press(Bulk("remove", ticked, {group})) /\ UNCHANGED loadingRows
handleBulkDelete == Press(Bulk("delete", ticked, {})) /\ UNCHANGED loadingRows
handleBulkAddLeadsToCampaign == Press(Bulk("campaign", ticked, {})) /\ loadingRows' = TRUE

OpenForm ==
  /\ Act /\ form = "closed" /\ form' = "open"
  /\ UNCHANGED <<base, listing, sidebar, group, query, ticked, loadingRows, calls, onTop, sought, crossed, listFaults>>
CloseForm ==
  /\ form = "open" /\ form' = "closed"
  /\ UNCHANGED <<base, listing, sidebar, group, query, ticked, loadingRows, calls, onTop, sought, crossed, listActs, listFaults>>

(* The new lead will be put on top of the list there is now.                  *)
handleCreateLead(l) ==
  /\ form = "open" /\ ~Pending("create")
  /\ Issue([what |-> "create", done |-> FALSE, ok |-> TRUE, lead |-> l, below |-> listing, above |-> onTop, then |-> {}])
  /\ crossed' = (crossed \/ Pending("leads") \/ StaleToCome)
  /\ UNCHANGED <<base, listing, sidebar, asking, loadingRows, onTop, sought, listActs, listFaults>>

-----------------------------------------------------------------------------
(* The routes *)

Done(n, call) == calls' = [calls EXCEPT ![n] = [call EXCEPT !.done = TRUE]]

ReadCall(n) ==
  LET c == calls[n] IN
  /\ ~c.done
  /\ \/ c.what = "groups" /\ Done(n, [c EXCEPT !.read = Counts(base)])
     \/ c.what = "leads" /\ Done(n, [c EXCEPT !.read = Matching(base, c.q, c.g)])
  /\ UNCHANGED <<base, listing, sidebar, asking, loadingRows, onTop, sought, crossed, listActs, listFaults>>

Effect_noCascade(c) ==
  LET there == c.leads \cap base.leads IN
  CASE c.what = "add" -> [base EXCEPT !.inGroup = @ \cup (c.groups \X there)]
    [] c.what = "remove" -> [base EXCEPT !.inGroup = @ \ (c.groups \X c.leads)]
    [] c.what = "delete" -> [base EXCEPT !.leads = @ \ c.leads]
    [] c.what = "campaign" -> base
(* leads/groups, groups/add, groups/remove, leads/delete and leads; none of   *)
(* the leads being there any more is refused when they are added or deleted.  *)
Effect(c) ==
  LET there == c.leads \cap base.leads IN
  CASE c.what = "add" -> [base EXCEPT !.inGroup = @ \cup (c.groups \X there)]
    [] c.what = "remove" -> [base EXCEPT !.inGroup = @ \ (c.groups \X c.leads)]
    [] c.what = "delete" -> [base EXCEPT !.leads = @ \ c.leads, !.inGroup = {p \in @ : p[2] \notin c.leads}]
    [] c.what = "campaign" -> base
NoneDeleted(c) == c.what = "delete" /\ c.leads \cap base.leads = {}

PerformCall(n) ==
  LET c == calls[n] IN
  /\ ~c.done
  /\ \/ /\ c.what \in {"add", "remove", "delete", "campaign"}
        /\ base' = Effect(c) /\ Done(n, [c EXCEPT !.ok = ~NoneDeleted(c)])
     \/ /\ c.what = "newgroup"
        /\ \E g \in ListGroup \ base.groups : base' = [base EXCEPT !.groups = @ \cup {g}]
        /\ Done(n, c)
     \/ /\ c.what = "create"
        /\ base' = [base EXCEPT !.leads = @ \cup {c.lead}]
        /\ Done(n, [c EXCEPT !.ok = c.lead \notin base.leads])
  /\ UNCHANGED <<listing, sidebar, asking, loadingRows, onTop, sought, crossed, listActs, listFaults>>

-----------------------------------------------------------------------------
(* Answers *)

Others(n) == RemoveAt(calls, n)
Earlier(n) == \E m \in 1 .. n - 1 : calls[m].what = calls[n].what
Comes(n, what) == calls[n].what = what /\ calls[n].done
LoadNext(n, then) ==
  /\ calls' = Others(n) \o (IF then = {} THEN <<>> ELSE LET t == CHOOSE t \in then : TRUE IN <<Leads(t[1], t[2])>>)
  /\ loadingRows' = (loadingRows \/ then # {})
  /\ sought' = IF then = {} THEN sought ELSE (CHOOSE t \in then : TRUE)[1]

GroupsLoaded(n) ==
  /\ Comes(n, "groups") /\ sidebar' = calls[n].read /\ LoadNext(n, calls[n].then)
  /\ crossed' = (crossed \/ Earlier(n))
  /\ UNCHANGED <<base, listing, asking, onTop, listActs, listFaults>>

LeadsLoaded(n) ==
  /\ Comes(n, "leads") /\ listing' = calls[n].read /\ loadingRows' = FALSE /\ calls' = Others(n) /\ onTop' = {}
  /\ crossed' = (crossed \/ Earlier(n))
  /\ UNCHANGED <<base, sidebar, asking, sought, listActs, listFaults>>

(* Whatever the answers of groups/add were.  A refused deletion or removal    *)
(* shows an error and loads nothing; a campaign's leads change no group.      *)
PressDone(n) ==
  LET c == calls[n] IN
  /\ Comes(n, "add") \/ Comes(n, "remove") \/ Comes(n, "delete") \/ Comes(n, "campaign")
  /\ IF ~c.ok THEN calls' = Others(n) /\ UNCHANGED <<ticked, loadingRows, sought>>
     ELSE /\ ticked' = {}
          /\ IF c.what = "campaign" THEN LoadNext(n, c.then)
             ELSE calls' = Append(Others(n), Groups(c.then)) /\ UNCHANGED <<loadingRows, sought>>
  /\ UNCHANGED <<base, listing, sidebar, group, query, form, onTop, crossed, listActs, listFaults>>

GroupCreated(n) ==
  /\ Comes(n, "newgroup") /\ calls' = Append(Others(n), Groups({}))
  /\ UNCHANGED <<base, listing, sidebar, asking, loadingRows, onTop, sought, crossed, listActs, listFaults>>

(* A duplicate leaves the form open.                                          *)
LeadCreated(n) ==
  LET c == calls[n] IN
  /\ Comes(n, "create") /\ calls' = Others(n)
  /\ form' = IF c.ok THEN "closed" ELSE form
  /\ listing' = IF c.ok THEN [c.below EXCEPT !.leads = @ \cup {c.lead}] ELSE listing
  /\ onTop' = IF c.ok THEN c.above \cup {c.lead} ELSE onTop
  /\ UNCHANGED <<base, sidebar, group, query, ticked, loadingRows, sought, crossed, listActs, listFaults>>

(* A request fails before or after it was performed.  Loading the groups      *)
(* fails silently, and the list is loaded after it all the same.  The failure *)
(* of a lead to be put into a campaign is caught and taken for an answer, so  *)
(* that PressDone is what follows it.                                         *)
CallLost(n) ==
  LET c == calls[n] IN
  /\ ListFault /\ c.what # "campaign"
  /\ IF c.what = "groups" THEN LoadNext(n, c.then)
     ELSE /\ calls' = Others(n) /\ UNCHANGED sought
          /\ loadingRows' = (loadingRows /\ c.what # "leads")
  /\ crossed' = (crossed \/ c.what \in {"groups", "leads"} \/ c.done)
  /\ UNCHANGED <<base, listing, sidebar, asking, onTop, listActs>>

LeadListNext ==
  \/ TypeQuery \/ handleSearchSubmit \/ handleToggleSelectAll \/ DeselectAll
  \/ handleCreateGroup \/ handleRemoveLeadsFromGroup \/ handleBulkDelete \/ handleBulkAddLeadsToCampaign
  \/ OpenForm \/ CloseForm
  \/ \E g \in ListGroup \cup {All} : SelectGroup(g)
  \/ \E groups \in SUBSET ListGroup : handleBulkAddLeadsToGroups(groups)
  \/ \E l \in ListLead : handleToggleSelectLead(l) \/ handleCreateLead(l)
  \/ \E n \in 1 .. Len(calls) :
       \/ ReadCall(n) \/ PerformCall(n) \/ CallLost(n)
       \/ GroupsLoaded(n) \/ LeadsLoaded(n) \/ PressDone(n) \/ GroupCreated(n) \/ LeadCreated(n)

LeadListSpec == LeadListInit /\ [][LeadListNext]_listVars

-----------------------------------------------------------------------------
LeadListTypeOK ==
  /\ base.leads \subseteq ListLead /\ base.inGroup \subseteq base.groups \X base.leads
  /\ listing.leads \subseteq ListLead /\ onTop \subseteq listing.leads
  /\ group \in ListGroup \cup {All} /\ ticked \subseteq ListLead
  /\ loadingRows \in BOOLEAN /\ query \in BOOLEAN /\ sought \in BOOLEAN /\ form \in {"closed", "open"}
  /\ listActs \in 0 .. MaxListActs /\ listFaults \in 0 .. MaxListFaults

(* When nothing is on its way any more, the page shows the groups there are   *)
(* with how many leads each has, and of the group that is selected the leads  *)
(* that the search asked for last finds, with the groups they are in, below   *)
(* the leads created since -- whatever was added, removed, deleted, searched  *)
(* or selected before.  Where the code gives that up `crossed` says so:       *)
(* answers of the same kind that cross, a group or a search chosen while a    *)
(* button's request was under way, a lead created over a list that was being  *)
(* loaded, a load that failed and a change whose answer was lost.             *)
ListSettles ==
  calls = <<>> /\ ~crossed =>
    LET now == Matching(base, sought, group) IN
    /\ sidebar = Counts(base) /\ ~loadingRows
    /\ listing.leads = now.leads \cup onTop
    /\ now.inGroup = listing.inGroup
=============================================================================
