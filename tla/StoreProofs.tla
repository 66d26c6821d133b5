---------------------------- MODULE StoreProofs -----------------------------
(***************************************************************************)
(* What holds of the leads of any pipeline, file and user, and of the      *)
(* drafts of any campaigns, leads, tabs, jobs and requests of the webhook  *)
(* at once, with any number of posts, acts and faults; and of the wizard   *)
(* that makes a campaign and its templates, for any texts, jobs, requests  *)
(* and edits.                                                              *)
(***************************************************************************)
EXTENDS LeadStore, CampaignDrafts, CampaignWizard, SequenceTheorems, FiniteSetTheorems, TLAPS

-----------------------------------------------------------------------------
(***************************************************************************)
(* The leads                                                               *)
(***************************************************************************)

(* Type correctness                                                        *)

FoundItem == 1 .. Len(Items)
Ident == UNION ({Items[i] : i \in FoundItem} \cup {Rows[r] : r \in 1 .. Len(Rows)} \cup ByHand \cup Edits)
Url == {Source[i] : i \in FoundItem} \cup {"website"}
LeadRow == [ids : SUBSET Ident, sources : SUBSET Url]
RequestRow == [stage : {"free", "policy", "lookup", "create", "merge"}, item : Nat,
               match : Nat]

StoreTypes ==
  /\ leads \in Seq(LeadRow)
  /\ request \in [Handlers -> RequestRow]
  /\ \A h \in Handlers : request[h].stage # "free" => request[h].item \in FoundItem
  /\ item \in Nat \ {0} /\ kind \in {"lead_found", "agent_event"}
  /\ importing \in BOOLEAN /\ rowsDone \in Nat /\ (importing => rowsDone < Len(Rows))
  /\ entered \subseteq ByHand
  /\ overlapped \in BOOLEAN /\ edited \in BOOLEAN

(* A lead that is there has a source.                                      *)
Sourced == \A l \in 1 .. Len(leads) : leads[l] = NoLead \/ leads[l].sources # {}

LEMMA RowsOfLeads ==
    ASSUME StoreTypes
    PROVE  /\ Len(leads) \in Nat /\ Present \subseteq 1 .. Len(leads)
           /\ \A l \in 1 .. Len(leads) : leads[l] \in LeadRow
BY ElementOfSeq, LenProperties DEF StoreTypes, Present

(* What a step does to the leads: their identifiers stay, one is added, or *)
(* some go.                                                                *)
FewerIds == Present' \subseteq Present /\ \A l \in Present' : leads'[l].ids = leads[l].ids
KeepsSources == \A l \in Present : l \in Present' /\ leads[l].sources \subseteq leads'[l].sources
SameIds == /\ Present' = Present /\ \A l \in Present : leads'[l].ids = leads[l].ids
           /\ KeepsSources
LeadAdded(ids) ==
  \E n \in Nat \ Present :
    /\ Present' = Present \cup {n} /\ leads'[n].ids = ids
    /\ \A l \in Present : leads'[l].ids = leads[l].ids
    /\ KeepsSources

LEMMA LeadsStay == ASSUME leads' = leads PROVE SameIds /\ FewerIds
BY DEF SameIds, FewerIds, KeepsSources, Present

LEMMA AppendAdds ==
    ASSUME StoreTypes, NEW ids \in SUBSET Ident, NEW url \in Url,
           leads' = Append(leads, [ids |-> ids, sources |-> {url}])
    PROVE  leads' \in Seq(LeadRow) /\ LeadAdded(ids)
<1> DEFINE n == Len(leads) + 1
           row == [ids |-> ids, sources |-> {url}]
<1>1. row \in LeadRow /\ row.ids = ids /\ row # NoLead
  BY DEF LeadRow, NoLead
<1>2. /\ leads' \in Seq(LeadRow) /\ Len(leads') = n /\ leads'[n] = row
      /\ \A l \in 1 .. Len(leads) : leads'[l] = leads[l]
  BY <1>1, AppendProperties DEF StoreTypes
<1>3. n \in Nat \ Present /\ 1 .. n = 1 .. Len(leads) \cup {n}
  BY RowsOfLeads
<1> HIDE DEF n, row
<1>4. Present' = Present \cup {n}
  BY <1>1, <1>2, <1>3 DEF Present, NoLead
<1>5. \A l \in Present : leads'[l] = leads[l]
  BY <1>2 DEF Present
<1> QED
  BY <1>1, <1>2, <1>3, <1>4, <1>5 DEF LeadAdded, KeepsSources

(* One row of the leads is written.                                        *)
LEMMA LeadWritten ==
    ASSUME StoreTypes, NEW l \in Present, NEW row \in LeadRow, leads' = [leads EXCEPT ![l] = row]
    PROVE  /\ leads' \in Seq(LeadRow) /\ Len(leads') = Len(leads)
           /\ \A m \in 1 .. Len(leads) : leads'[m] = IF m = l THEN row ELSE leads[m]
<1>1. l \in 1 .. Len(leads)
  BY DEF Present
<1> QED
  BY <1>1, ExceptSeq DEF StoreTypes

LEMMA SourceAdded ==
    ASSUME StoreTypes, NEW l \in Present, NEW url \in Url, leads' = WithSource(l, url)
    PROVE  leads' \in Seq(LeadRow) /\ SameIds
<1> DEFINE row == [leads[l] EXCEPT !.sources = leads[l].sources \cup {url}]
<1>1. leads[l] \in LeadRow /\ l \in 1 .. Len(leads)
  BY RowsOfLeads DEF Present
<1>2. row \in LeadRow /\ row.ids = leads[l].ids /\ row.sources # {} /\ leads[l].sources \subseteq row.sources
  BY <1>1 DEF LeadRow
<1>3. leads' = [leads EXCEPT ![l] = row]
  BY <1>1 DEF WithSource
<1>4. /\ leads' \in Seq(LeadRow) /\ Len(leads') = Len(leads)
      /\ \A m \in 1 .. Len(leads) : leads'[m] = IF m = l THEN row ELSE leads[m]
  BY <1>2, <1>3, LeadWritten
<1>5. row # NoLead
  BY <1>2 DEF NoLead
<1>6. Present' = Present
  BY <1>1, <1>4, <1>5 DEF Present, NoLead
<1> QED
  BY <1>1, <1>2, <1>4, <1>6 DEF SameIds, KeepsSources, Present

LEMMA DeleteTakes ==
    ASSUME StoreTypes, NEW l \in Present, DeleteLead(l)
    PROVE  /\ leads' \in Seq(LeadRow) /\ FewerIds /\ Present' = Present \ {l}
           /\ \A m \in Present' : leads'[m] = leads[m]
<1>1. NoLead \in LeadRow
  BY DEF NoLead, LeadRow
<1>2. leads' = [leads EXCEPT ![l] = NoLead]
  BY DEF DeleteLead
<1>3. /\ leads' \in Seq(LeadRow) /\ Len(leads') = Len(leads)
      /\ \A m \in 1 .. Len(leads) : leads'[m] = IF m = l THEN NoLead ELSE leads[m]
  BY <1>1, <1>2, LeadWritten
<1>4. Present' = Present \ {l}
  BY <1>3 DEF Present, NoLead
<1>5. FewerIds
  BY <1>3, <1>4 DEF FewerIds, Present
<1>6. \A m \in Present' : leads'[m] = leads[m]
  BY <1>3, <1>4 DEF Present
<1> QED
  BY <1>3, <1>4, <1>5, <1>6

LEMMA EditWrites ==
    ASSUME StoreTypes, NEW l \in Present, NEW ids \in Edits, EditLead(l, ids)
    PROVE  /\ leads' \in Seq(LeadRow)
           /\ Len(leads') = Len(leads) /\ leads'[l].ids = ids
           /\ \A m \in Present : m # l => leads'[m] = leads[m]
           /\ \A m \in Present : m # l => m \in Present'
           /\ ids # {} => l \in Present'
           /\ Sourced => KeepsSources
<1> DEFINE row == [leads[l] EXCEPT !.ids = ids]
<1>1. leads[l] \in LeadRow /\ l \in 1 .. Len(leads) /\ ids \subseteq Ident
  BY RowsOfLeads DEF Present, Ident
<1>2. row \in LeadRow /\ row.ids = ids /\ row.sources = leads[l].sources
  BY <1>1 DEF LeadRow
<1>3. leads' = [leads EXCEPT ![l] = row]
  BY DEF EditLead
<1>4. /\ leads' \in Seq(LeadRow) /\ Len(leads') = Len(leads)
      /\ \A m \in 1 .. Len(leads) : leads'[m] = IF m = l THEN row ELSE leads[m]
  BY <1>2, <1>3, LeadWritten
<1>5. ids # {} => row # NoLead
  BY <1>2 DEF NoLead
<1>6. ASSUME Sourced PROVE KeepsSources
  <2>1. row.sources # {} /\ row # NoLead
    BY <1>1, <1>2, <1>6 DEF Sourced, Present, NoLead
  <2> HIDE DEF row
  <2> QED
    BY <1>1, <1>2, <1>4, <2>1 DEF KeepsSources, Present, NoLead
<1> QED
  BY <1>1, <1>2, <1>4, <1>5, <1>6 DEF Present, NoLead

-----------------------------------------------------------------------------
(* The requests                                                            *)

LEMMA RequestRead ==
    ASSUME StoreTypes, NEW h \in Handlers
    PROVE  /\ request[h] \in RequestRow
           /\ request[h].stage # "free" =>
                /\ request[h].item \in FoundItem /\ Items[request[h].item] \subseteq Ident
                /\ Source[request[h].item] \in Url
BY DEF StoreTypes, RequestRow, Ident, Url

(* What a step does to the requests: none comes to create or to merge.     *)
NoneFurther ==
  \A h \in Handlers : request'[h].stage \in {"create", "merge"} => request'[h] = request[h]
RequestsTyped ==
  /\ request' \in [Handlers -> RequestRow]
  /\ \A h \in Handlers : request'[h].stage # "free" => request'[h].item \in FoundItem

LEMMA StoreAnswered ==
    ASSUME StoreTypes, NEW h \in Handlers, request' = [request EXCEPT ![h] = Free]
    PROVE  RequestsTyped /\ NoneFurther /\ \A g \in Handlers : request'[g].stage = "create" => g # h
<1>1. Free \in RequestRow /\ Free.stage = "free"
  BY DEF Free, RequestRow
<1>2. request' \in [Handlers -> RequestRow] /\ \A g \in Handlers : request'[g] = IF g = h THEN Free ELSE request[g]
  BY <1>1 DEF StoreTypes
<1> QED
  BY <1>1, <1>2 DEF StoreTypes, RequestsTyped, NoneFurther

LEMMA StoreMoved ==
    ASSUME StoreTypes, NEW h \in Handlers, NEW stage \in {"lookup", "create", "merge"}, NEW match \in Nat,
           Move(h, stage, match), request[h].stage # "free"
    PROVE  /\ RequestsTyped
           /\ \A g \in Handlers : g # h => request'[g] = request[g]
           /\ request'[h].stage = stage /\ request'[h].item = request[h].item
<1> DEFINE row == [request[h] EXCEPT !.stage = stage, !.match = match]
<1>1. row \in RequestRow /\ row.stage = stage /\ row.item = request[h].item
  BY RequestRead DEF RequestRow
<1>2. request' = [request EXCEPT ![h] = row]
  BY DEF Move
<1>3. request' \in [Handlers -> RequestRow] /\ \A g \in Handlers : request'[g] = IF g = h THEN row ELSE request[g]
  BY <1>1, <1>2 DEF StoreTypes
<1> QED
  BY <1>1, <1>3 DEF StoreTypes, RequestsTyped

LEMMA RequestsStay == ASSUME StoreTypes, request' = request PROVE RequestsTyped /\ NoneFurther
BY DEF StoreTypes, RequestsTyped, NoneFurther

EventsTyped == item' \in Nat \ {0} /\ kind' \in {"lead_found", "agent_event"}

LEMMA EventTypes ==
    ASSUME StoreTypes, NextEvent \/ UNCHANGED <<item, kind>>
    PROVE  EventsTyped
BY DEF StoreTypes, NextEvent, EventsTyped

(* CheckPolicy refuses the lead or looks for it.                           *)
LEMMA CheckPolicyEffect ==
    ASSUME StoreTypes, NEW h \in Handlers, CheckPolicy(h)
    PROVE  /\ RequestsTyped /\ NoneFurther /\ EventsTyped
           /\ refused \subseteq refused'
           /\ \/ acked' = acked
              \/ acked' = acked \cup {request[h].item} /\ request[h].item \in refused'
<1>1. CASE Items[request[h].item] \cap suppressed # {}
  BY <1>1, StoreAnswered, EventTypes DEF CheckPolicy, AnswerOk
<1>2. CASE Items[request[h].item] \cap suppressed = {}
  <2>1. Move(h, "lookup", 0) /\ refused' = refused /\ request[h].stage # "free"
    BY <1>2 DEF CheckPolicy
  <2>2. RequestsTyped /\ NoneFurther
    BY <2>1, StoreMoved DEF NoneFurther
  <2> QED
    BY <2>1, <2>2, EventTypes DEF Move
<1> QED
  BY <1>1, <1>2

(* LookUp goes on to create, when it has found nothing, or to merge.       *)
LEMMA LookUpEffect ==
    ASSUME StoreTypes, NEW h \in Handlers, LookUp(h)
    PROVE  /\ RequestsTyped /\ EventsTyped /\ acked' = acked
           /\ \A g \in Handlers : g # h => request'[g] = request[g]
           /\ request'[h].item = request[h].item /\ skipped \subseteq skipped'
           /\ request[h].stage = "lookup" /\ request[h].item \in FoundItem
           /\ \/ /\ request'[h].stage = "create" /\ SharingIds(Items[request[h].item]) = {}
                 /\ overlapped' = (overlapped \/ Creating # {} \/ importing \/ entered # {})
              \/ /\ request'[h].stage = "merge" /\ overlapped' = overlapped
                 /\ \/ SharingIds(Items[request[h].item]) # {}
                    \/ request[h].item \in skipped' /\ FromSource(Source[request[h].item]) # {}
<1>1. request[h].stage = "lookup" /\ request[h].item \in FoundItem
  BY RequestRead DEF LookUp
<1>2. Matches(request[h].item) \subseteq Nat
  BY RowsOfLeads DEF Matches, SharingIds, FromSource, Present
<1>3. CASE Matches(request[h].item) = {}
  <2>1. /\ Move(h, "create", 0) /\ SharingIds(Items[request[h].item]) = {}
        /\ overlapped' = (overlapped \/ Creating # {} \/ importing \/ entered # {})
    BY <1>3 DEF LookUp, Matches
  <2>2. skipped' = skipped
    BY <1>3 DEF LookUp
  <2> QED
    BY <1>1, <2>1, <2>2, StoreMoved, EventTypes DEF Move
<1>4. CASE Matches(request[h].item) # {}
  <2>1. PICK l \in Matches(request[h].item) :
          /\ Move(h, "merge", l)
          /\ skipped' = IF l \in SharingIds(Items[request[h].item]) THEN skipped
                        ELSE skipped \cup {request[h].item}
    BY <1>4 DEF LookUp
  <2>2. overlapped' = overlapped
    BY <1>4 DEF LookUp
  <2>3. /\ skipped \subseteq skipped'
        /\ \/ SharingIds(Items[request[h].item]) # {}
           \/ request[h].item \in skipped' /\ FromSource(Source[request[h].item]) # {}
    BY <2>1, Zenon DEF Matches
  <2> QED
    BY <1>1, <1>2, <2>1, <2>2, <2>3, StoreMoved, EventTypes DEF Move
<1> QED
  BY <1>3, <1>4

(* Create and Merge end the request.                                       *)
LEMMA StoreCreateEffect ==
    ASSUME StoreTypes, NEW h \in Handlers, Create(h)
    PROVE  /\ request' = [request EXCEPT ![h] = Free] /\ EventsTyped
           /\ leads' \in Seq(LeadRow)
           /\ \/ SameIds /\ FewerIds /\ acked' = acked
              \/ /\ LeadAdded(Items[request[h].item])
                 /\ acked' \in {acked, acked \cup {request[h].item}}
<1> DEFINE url == Source[request[h].item]
<1>1. Items[request[h].item] \subseteq Ident /\ url \in Url
  BY RequestRead DEF Create, Url
<1>2. AnswerOk(h) \/ AnswerError(h)
  BY DEF Create
<1>3. request' = [request EXCEPT ![h] = Free] /\ EventsTyped
  BY <1>2, EventTypes DEF AnswerOk, AnswerError
<1>4. CASE AddressTaken(Items[request[h].item])
  BY <1>3, <1>4, LeadsStay DEF Create, AnswerError, StoreTypes
<1>5. CASE ~AddressTaken(Items[request[h].item])
  <2>1. leads' = Append(leads, [ids |-> Items[request[h].item], sources |-> {url}])
    BY <1>5 DEF Create
  <2>2. acked' \in {acked, acked \cup {request[h].item}}
    BY <1>2 DEF AnswerOk, AnswerError
  <2> QED
    BY <1>1, <1>3, <2>1, <2>2, AppendAdds
<1> QED
  BY <1>4, <1>5

LEMMA MergeEffect ==
    ASSUME StoreTypes, NEW h \in Handlers, Merge(h)
    PROVE  /\ request' = [request EXCEPT ![h] = Free] /\ EventsTyped
           /\ leads' \in Seq(LeadRow) /\ SameIds /\ FewerIds
           /\ acked' \in {acked, acked \cup {request[h].item}}
<1>1. AnswerOk(h) \/ AnswerError(h)
  BY DEF Merge
<1>2. /\ request' = [request EXCEPT ![h] = Free] /\ EventsTyped
      /\ acked' \in {acked, acked \cup {request[h].item}}
  BY <1>1, EventTypes DEF AnswerOk, AnswerError
<1>3. CASE leads' = leads
  BY <1>2, <1>3, LeadsStay DEF StoreTypes
<1>4. CASE leads' # leads
  <2>1. /\ request[h].match \in Present /\ leads' = WithSource(request[h].match, Source[request[h].item])
        /\ Source[request[h].item] \in Url
    BY <1>4, RequestRead DEF Merge
  <2>2. leads' \in Seq(LeadRow) /\ SameIds
    BY <2>1, SourceAdded
  <2> QED
    BY <1>2, <2>2 DEF SameIds, FewerIds
<1> QED
  BY <1>3, <1>4

(* A row of the file, or a lead entered by hand, is created or not.        *)
LEMMA ImportRowEffect ==
    ASSUME StoreTypes, ImportRow
    PROVE  /\ leads' \in Seq(LeadRow) /\ rowsDone + 1 \in 1 .. Len(Rows) /\ rowsDone' = rowsDone + 1
           /\ importing' \in BOOLEAN /\ (importing' => rowsDone' < Len(Rows))
           /\ \/ SameIds /\ FewerIds
                 /\ (importing' => rowsDone + 1 \in known \/ TakenBefore(rowsDone + 1))
              \/ LeadAdded(Rows[rowsDone + 1]) /\ rowsDone + 1 \notin known /\ ~TakenBefore(rowsDone + 1)
<1> DEFINE r == rowsDone + 1
           skip == r \in known \/ TakenBefore(r)
<1>1. r \in 1 .. Len(Rows) /\ rowsDone' = r /\ Rows[r] \subseteq Ident /\ "website" \in Url
  BY StoreAssumption DEF ImportRow, StoreTypes, Ident, Url
<1>2. importing' = (r < Len(Rows) /\ (skip \/ ~AddressTaken(Rows[r])))
  BY DEF ImportRow
<1>3. CASE skip \/ AddressTaken(Rows[r])
  BY <1>1, <1>2, <1>3, LeadsStay DEF ImportRow, StoreTypes
<1>4. CASE ~skip /\ ~AddressTaken(Rows[r])
  <2>1. leads' = Append(leads, [ids |-> Rows[r], sources |-> {"website"}])
    BY <1>4 DEF ImportRow
  <2> QED
    BY <1>1, <1>2, <1>4, <2>1, AppendAdds
<1> QED
  BY <1>3, <1>4

LEMMA CreateEnteredEffect ==
    ASSUME StoreTypes, CreateEntered
    PROVE  /\ leads' \in Seq(LeadRow) /\ entered' = {}
           /\ (SameIds /\ FewerIds) \/ \E ids \in entered : LeadAdded(ids)
<1>1. PICK ids \in entered :
        leads' = IF AddressTaken(ids) THEN leads ELSE Append(leads, [ids |-> ids, sources |-> {"website"}])
  BY DEF CreateEntered
<1>2. ids \subseteq Ident /\ "website" \in Url /\ entered' = {}
  BY DEF CreateEntered, StoreTypes, Ident, Url
<1> QED
  BY <1>1, <1>2, LeadsStay, AppendAdds DEF StoreTypes

-----------------------------------------------------------------------------
(* Every step keeps the types                                              *)

LEMMA StoreTypedStep == StoreTypes /\ StoreNext => StoreTypes'
<1> SUFFICES ASSUME StoreTypes, StoreNext PROVE StoreTypes'
  OBVIOUS
<1> USE DEF StoreTypes, RequestsTyped, EventsTyped
<1>1. CASE EventRefused \/ PostLost \/ TimedOut
  BY <1>1 DEF EventRefused, PostLost, TimedOut
<1>2. CASE DropEvent
  BY <1>2, EventTypes DEF DropEvent
<1>3. ASSUME NEW h \in Handlers, PostEvent(h) PROVE StoreTypes'
  <2> DEFINE row == [stage |-> "policy", item |-> item, match |-> 0]
  <2>1. item \in FoundItem
    BY <1>3, StoreAssumption DEF PostEvent, Reporting, FoundItem
  <2>2. row \in RequestRow /\ row.item \in FoundItem
    BY <2>1 DEF RequestRow
  <2>3. request' = [request EXCEPT ![h] = row]
    BY <1>3 DEF PostEvent
  <2>4. RequestsTyped
    <3>1. \A g \in Handlers : request'[g] = IF g = h THEN row ELSE request[g]
      BY <2>3
    <3> QED
      BY <2>2, <2>3, <3>1
  <2> QED
    BY <1>3, <2>4 DEF PostEvent
<1>4. ASSUME NEW h \in Handlers, CheckPolicy(h) PROVE StoreTypes'
  BY <1>4, CheckPolicyEffect DEF CheckPolicy
<1>5. ASSUME NEW h \in Handlers, LookUp(h) PROVE StoreTypes'
  <2>1. overlapped' \in BOOLEAN
    BY <1>5, LookUpEffect
  <2> QED
    BY <1>5, <2>1, LookUpEffect DEF LookUp
<1>6. ASSUME NEW h \in Handlers, Create(h) PROVE StoreTypes'
  BY <1>6, StoreCreateEffect, StoreAnswered DEF Create
<1>7. ASSUME NEW h \in Handlers, Merge(h) PROVE StoreTypes'
  BY <1>7, MergeEffect, StoreAnswered DEF Merge
<1>8. CASE StartImport
  <2>1. overlapped' \in BOOLEAN
    BY <1>8 DEF StartImport
  <2>2. importing' = TRUE /\ rowsDone' = rowsDone /\ rowsDone < Len(Rows)
    BY <1>8 DEF StartImport
  <2> QED
    BY <1>8, <2>1, <2>2 DEF StartImport
<1>9. CASE ImportRow
  <2>1. /\ leads' \in Seq(LeadRow) /\ rowsDone' \in Nat
        /\ importing' \in BOOLEAN /\ (importing' => rowsDone' < Len(Rows))
    BY <1>9, ImportRowEffect
  <2> QED
    BY <1>9, <2>1 DEF ImportRow
<1>10. CASE CreateEntered
  BY <1>10, CreateEnteredEffect DEF CreateEntered
<1>11. ASSUME NEW ids \in ByHand, EnterLead(ids) PROVE StoreTypes'
  <2>1. overlapped' \in BOOLEAN
    BY <1>11 DEF EnterLead
  <2> QED
    BY <1>11, <2>1 DEF EnterLead
<1>12. ASSUME NEW k \in Suppressible, Suppress(k) PROVE StoreTypes'
  BY <1>12 DEF Suppress
<1>13. ASSUME NEW l \in Present, DeleteLead(l) PROVE StoreTypes'
  <2>1. leads' \in Seq(LeadRow)
    BY <1>13, DeleteTakes
  <2> QED
    BY <1>13, <2>1 DEF DeleteLead
<1>14. ASSUME NEW l \in Present, NEW ids \in Edits, EditLead(l, ids) PROVE StoreTypes'
  <2>1. leads' \in Seq(LeadRow)
    BY <1>14, EditWrites
  <2> QED
    BY <1>14, <2>1 DEF EditLead
<1> QED
  BY <1>1, <1>2, <1>3, <1>4, <1>5, <1>6, <1>7, <1>8, <1>9, <1>10, <1>11, <1>12, <1>13, <1>14 DEF StoreNext

-----------------------------------------------------------------------------
(* No two leads share an identifier                                        *)

Separate == \A l, m \in Present : l # m => leads[l].ids \cap leads[m].ids = {}

(* Whoever is between its look and its create is alone there, and what it  *)
(* looked for is still not to be found; what the import has not found      *)
(* shares identifiers with nothing but rows it has created.                *)
AloneCreating ==
  \A h \in Creating : /\ SharingIds(Items[request[h].item]) = {} /\ Creating = {h}
                      /\ ~importing /\ entered = {}
AloneEntering ==
  \A ids \in entered : SharingIds(ids) = {} /\ entered = {ids} /\ ~importing
AloneImporting ==
  importing => \A r \in rowsDone + 1 .. Len(Rows) : r \notin known =>
    \A l \in SharingIds(Rows[r]) : \E q \in 1 .. rowsDone : q \notin known /\ Rows[q] \cap Rows[r] # {}
StoreAlone == AloneCreating /\ AloneEntering /\ AloneImporting

OneLooks == ~overlapped /\ ~edited => Separate /\ StoreAlone

(* Steps that add no lead and after which nobody more is about to.         *)
LEMMA LooksStay ==
    ASSUME OneLooks, FewerIds, \A h \in Handlers : request'[h].stage = "create" => request'[h] = request[h],
           UNCHANGED <<overlapped, edited, importing, rowsDone, known, entered>>
    PROVE  OneLooks'
<1> SUFFICES ASSUME ~overlapped, ~edited, Separate, StoreAlone PROVE Separate' /\ StoreAlone'
  BY DEF OneLooks
<1>1. Separate'
  BY DEF Separate, FewerIds
<1>2. \A x : SharingIds(x)' \subseteq SharingIds(x)
  BY DEF SharingIds, FewerIds
<1>3. Creating' \subseteq Creating /\ \A h \in Creating' : request'[h] = request[h]
  BY DEF Creating
<1>4. AloneCreating'
  <2> SUFFICES ASSUME NEW h \in Creating'
               PROVE  /\ SharingIds(Items[request[h].item])' = {} /\ Creating' = {h}
                      /\ ~importing /\ entered = {}
    BY <1>3 DEF AloneCreating, SharingIds
  <2>1. h \in Creating
    BY <1>3
  <2>2. SharingIds(Items[request[h].item]) = {} /\ Creating = {h} /\ ~importing /\ entered = {}
    BY <2>1 DEF StoreAlone, AloneCreating
  <2>3. SharingIds(Items[request[h].item])' = {}
    BY <1>3, <2>2 DEF SharingIds, FewerIds
  <2> QED
    BY <1>3, <2>2, <2>3
<1>5. AloneEntering'
  BY <1>2 DEF StoreAlone, AloneEntering
<1>6. AloneImporting'
  BY <1>2 DEF StoreAlone, AloneImporting
<1> QED
  BY <1>1, <1>4, <1>5, <1>6 DEF StoreAlone

(* A lead that shares nothing with those there is added by the only one    *)
(* about to add one.                                                       *)
LEMMA AddedAlone ==
    ASSUME Separate, NEW ids, LeadAdded(ids), SharingIds(ids) = {}
    PROVE  /\ Separate'
           /\ \A x : \A l \in SharingIds(x)' : l \in SharingIds(x) \/ x \cap ids # {}
<1>1. PICK n \in Nat \ Present :
        /\ Present' = Present \cup {n} /\ leads'[n].ids = ids
        /\ \A l \in Present : leads'[l].ids = leads[l].ids
  BY DEF LeadAdded
<1>2. \A l \in Present : leads[l].ids \cap ids = {}
  BY DEF SharingIds
<1>3. Separate'
  BY <1>1, <1>2 DEF Separate
<1>4. \A x : \A l \in SharingIds(x)' : l \in SharingIds(x) \/ x \cap ids # {}
  BY <1>1 DEF SharingIds
<1> QED
  BY <1>3, <1>4

LEMMA LooksStep == StoreTypes /\ OneLooks /\ StoreNext => OneLooks'
<1> SUFFICES ASSUME StoreTypes, OneLooks, StoreNext PROVE OneLooks'
  OBVIOUS
<1>1. CASE EventRefused \/ PostLost \/ TimedOut \/ DropEvent
  BY <1>1, LooksStay, LeadsStay DEF EventRefused, PostLost, TimedOut, DropEvent
<1>2. ASSUME NEW h \in Handlers, PostEvent(h) PROVE OneLooks'
  <2>1. \A g \in Handlers : request'[g].stage = "create" => request'[g] = request[g]
    BY <1>2 DEF PostEvent, StoreTypes
  <2> QED
    BY <1>2, <2>1, LooksStay, LeadsStay DEF PostEvent
<1>3. ASSUME NEW h \in Handlers, CheckPolicy(h) PROVE OneLooks'
  <2>1. NoneFurther /\ leads' = leads
    BY <1>3, CheckPolicyEffect DEF CheckPolicy
  <2> QED
    BY <1>3, <2>1, LooksStay, LeadsStay DEF CheckPolicy, NoneFurther
<1>4. ASSUME NEW h \in Handlers, LookUp(h) PROVE OneLooks'
  <2>1. /\ \A g \in Handlers : g # h => request'[g] = request[g]
        /\ request'[h].item = request[h].item /\ request[h].stage = "lookup"
        /\ UNCHANGED <<leads, edited, importing, rowsDone, known, entered>>
    BY <1>4, LookUpEffect DEF LookUp
  <2>2. CASE request'[h].stage = "merge" /\ overlapped' = overlapped
    BY <2>1, <2>2, LooksStay, LeadsStay
  <2>3. CASE /\ request'[h].stage = "create" /\ SharingIds(Items[request[h].item]) = {}
             /\ overlapped' = (overlapped \/ Creating # {} \/ importing \/ entered # {})
    <3> SUFFICES ASSUME ~overlapped', ~edited PROVE Separate' /\ StoreAlone'
      BY <2>1 DEF OneLooks
    <3>1. Creating = {} /\ ~importing /\ entered = {} /\ Separate
      BY <2>3 DEF OneLooks, StoreTypes
    <3>2. Creating' = {h} /\ SharingIds(Items[request[h].item])' = {} /\ Separate'
      BY <2>1, <2>3, <3>1 DEF Creating, SharingIds, Present, Separate
    <3> QED
      BY <2>1, <3>1, <3>2 DEF StoreAlone, AloneCreating, AloneEntering, AloneImporting
  <2> QED
    BY <1>4, <2>2, <2>3, LookUpEffect
<1>5. ASSUME NEW h \in Handlers, Create(h) PROVE OneLooks'
  <2>1. /\ request' = [request EXCEPT ![h] = Free] /\ h \in Creating
        /\ UNCHANGED <<overlapped, edited, importing, rowsDone, known, entered>>
    BY <1>5, StoreCreateEffect DEF Create, Creating
  <2>2. NoneFurther /\ h \notin Creating'
    BY <2>1, StoreAnswered DEF Creating
  <2>3. CASE FewerIds
    BY <2>1, <2>2, <2>3, LooksStay DEF NoneFurther
  <2>4. CASE LeadAdded(Items[request[h].item])
    <3> SUFFICES ASSUME ~overlapped, ~edited, Separate, StoreAlone PROVE Separate' /\ StoreAlone'
      BY <2>1 DEF OneLooks
    <3>1. SharingIds(Items[request[h].item]) = {} /\ Creating = {h} /\ ~importing /\ entered = {}
      BY <2>1 DEF StoreAlone, AloneCreating
    <3>2. Separate' /\ Creating' = {}
      BY <2>2, <2>4, <3>1, AddedAlone DEF Creating, NoneFurther
    <3> QED
      BY <2>1, <3>1, <3>2 DEF StoreAlone, AloneCreating, AloneEntering, AloneImporting
  <2> QED
    BY <1>5, <2>3, <2>4, StoreCreateEffect
<1>6. ASSUME NEW h \in Handlers, Merge(h) PROVE OneLooks'
  <2>1. FewerIds /\ NoneFurther
    BY <1>6, MergeEffect, StoreAnswered
  <2> QED
    BY <1>6, <2>1, LooksStay DEF Merge, NoneFurther
<1>7. CASE StartImport
  <2> SUFFICES ASSUME ~overlapped', ~edited PROVE Separate' /\ StoreAlone'
    BY <1>7 DEF StartImport, OneLooks
  <2>1. Creating = {} /\ entered = {} /\ Separate
    BY <1>7 DEF StartImport, OneLooks, StoreTypes
  <2>2. Creating' = {} /\ entered' = {} /\ Separate'
    BY <1>7, <2>1 DEF StartImport, Creating, Separate, Present
  <2>3. \A r \in rowsDone' + 1 .. Len(Rows) : r \notin known' => SharingIds(Rows[r])' = {}
    BY <1>7 DEF StartImport, SharingIds, Present
  <2> QED
    BY <2>2, <2>3 DEF StoreAlone, AloneCreating, AloneEntering, AloneImporting
<1>8. CASE ImportRow
  <2> DEFINE n == rowsDone + 1
  <2>1. UNCHANGED <<overlapped, edited, known, entered, request>> /\ importing /\ rowsDone' = n
    BY <1>8 DEF ImportRow
  <2> SUFFICES ASSUME ~overlapped, ~edited, Separate, StoreAlone PROVE Separate' /\ StoreAlone'
    BY <2>1 DEF OneLooks
  <2>2. Creating' = {} /\ entered' = {}
    BY <2>1 DEF StoreAlone, AloneCreating, AloneEntering, Creating
  <2>3. /\ n \in 1 .. Len(Rows) /\ rowsDone \in Nat /\ Len(Rows) \in Nat
        /\ 1 .. n = 1 .. rowsDone \cup {n} /\ n - 1 = rowsDone
        /\ n + 1 .. Len(Rows) \subseteq n .. Len(Rows)
    BY <1>8, ImportRowEffect, StoreAssumption DEF StoreTypes
  <2>4. ASSUME FewerIds PROVE Separate' /\ StoreAlone'
    <3>1. Separate' /\ \A x : SharingIds(x)' \subseteq SharingIds(x)
      BY <2>4 DEF Separate, SharingIds, FewerIds
    <3>2. AloneImporting'
      BY <2>1, <2>3, <3>1 DEF StoreAlone, AloneImporting
    <3> QED
      BY <2>2, <3>1, <3>2 DEF StoreAlone, AloneCreating, AloneEntering
  <2>5. ASSUME LeadAdded(Rows[n]), n \notin known, ~TakenBefore(n) PROVE Separate' /\ StoreAlone'
    <3>1. SharingIds(Rows[n]) = {}
      <4>1. n \in n .. Len(Rows)
        BY <2>3
      <4>2. \A l \in SharingIds(Rows[n]) : \E q \in 1 .. rowsDone : q \notin known /\ Rows[q] \cap Rows[n] # {}
        BY <2>1, <2>5, <4>1 DEF StoreAlone, AloneImporting
      <4>3. ~\E q \in 1 .. rowsDone : q \notin known /\ Rows[q] \cap Rows[n] # {}
        BY <2>3, <2>5 DEF TakenBefore
      <4> QED
        BY <4>2, <4>3
    <3>2. /\ Separate'
          /\ \A x : \A l \in SharingIds(x)' : l \in SharingIds(x) \/ x \cap Rows[n] # {}
      BY <2>5, <3>1, AddedAlone
    <3>3. ASSUME NEW r \in n + 1 .. Len(Rows), r \notin known, NEW l \in SharingIds(Rows[r])'
          PROVE  \E q \in 1 .. n : q \notin known /\ Rows[q] \cap Rows[r] # {}
      <4>1. CASE l \in SharingIds(Rows[r])
        BY <2>1, <2>3, <3>3, <4>1 DEF StoreAlone, AloneImporting
      <4>2. CASE Rows[r] \cap Rows[n] # {}
        BY <2>3, <2>5, <4>2
      <4> QED
        BY <3>2, <3>3, <4>1, <4>2
    <3>4. AloneImporting'
      BY <2>1, <3>3 DEF AloneImporting
    <3> QED
      BY <2>2, <3>2, <3>4 DEF StoreAlone, AloneCreating, AloneEntering
  <2> QED
    BY <1>8, <2>4, <2>5, ImportRowEffect
<1>9. CASE CreateEntered
  <2>1. UNCHANGED <<overlapped, edited, known, importing, rowsDone, request>> /\ entered' = {} /\ entered # {}
    BY <1>9, CreateEnteredEffect DEF CreateEntered
  <2> SUFFICES ASSUME ~overlapped, ~edited, Separate, StoreAlone PROVE Separate' /\ StoreAlone'
    BY <2>1 DEF OneLooks
  <2>2. Creating' = {} /\ ~importing'
    BY <2>1 DEF StoreAlone, AloneCreating, AloneEntering, Creating
  <2>3. Separate'
    <3>1. CASE FewerIds
      BY <3>1 DEF FewerIds, Separate
    <3>2. ASSUME NEW ids \in entered, LeadAdded(ids) PROVE Separate'
      BY <3>2, AddedAlone DEF StoreAlone, AloneEntering
    <3> QED
      BY <1>9, <3>1, <3>2, CreateEnteredEffect
  <2> QED
    BY <2>1, <2>2, <2>3 DEF StoreAlone, AloneCreating, AloneEntering, AloneImporting
<1>10. ASSUME NEW ids \in ByHand, EnterLead(ids) PROVE OneLooks'
  <2> SUFFICES ASSUME ~overlapped', ~edited PROVE Separate' /\ StoreAlone'
    BY <1>10 DEF EnterLead, OneLooks
  <2>1. Creating = {} /\ ~importing /\ Separate
    BY <1>10 DEF EnterLead, OneLooks, StoreTypes
  <2>2. Creating' = {} /\ ~importing' /\ Separate' /\ entered' = {ids} /\ SharingIds(ids)' = {}
    BY <1>10, <2>1 DEF EnterLead, Creating, Separate, Present, SharingIds
  <2> QED
    BY <2>2 DEF StoreAlone, AloneCreating, AloneEntering, AloneImporting
<1>11. ASSUME NEW k \in Suppressible, Suppress(k) PROVE OneLooks'
  BY <1>11, LooksStay, LeadsStay DEF Suppress
<1>12. ASSUME NEW l \in Present, DeleteLead(l) PROVE OneLooks'
  BY <1>12, LooksStay, DeleteTakes DEF DeleteLead
<1>13. ASSUME NEW l \in Present, NEW ids \in Edits, EditLead(l, ids) PROVE OneLooks'
  BY <1>13 DEF EditLead, OneLooks
<1> QED
  BY <1>1, <1>2, <1>3, <1>4, <1>5, <1>6, <1>7, <1>8, <1>9, <1>10, <1>11, <1>12, <1>13 DEF StoreNext

-----------------------------------------------------------------------------
(* A lead that is there has a source                                       *)

Longer == Len(leads') \in Nat /\ Len(leads) <= Len(leads') /\ Sourced'

LEMMA LeadsUntouched == ASSUME StoreTypes, Sourced, leads' = leads PROVE Longer
BY RowsOfLeads DEF Longer, Sourced

LEMMA LeadSourced ==
    ASSUME StoreTypes, Sourced, NEW row \in LeadRow, row.sources # {}, leads' = Append(leads, row)
    PROVE  Longer
<1>1. /\ Len(leads') = Len(leads) + 1 /\ leads'[Len(leads) + 1] = row
      /\ \A l \in 1 .. Len(leads) : leads'[l] = leads[l]
  BY AppendProperties DEF StoreTypes
<1>2. Len(leads) \in Nat
  BY RowsOfLeads
<1>3. ASSUME NEW l \in 1 .. Len(leads')
      PROVE  leads'[l] = NoLead \/ leads'[l].sources # {}
  <2>1. CASE l = Len(leads) + 1
    BY <1>1, <2>1
  <2>2. CASE l # Len(leads) + 1
    <3>1. l \in 1 .. Len(leads)
      BY <1>1, <1>2, <2>2
    <3> QED
      BY <1>1, <3>1 DEF Sourced
  <2> QED
    BY <2>1, <2>2
<1>4. Sourced'
  BY <1>3 DEF Sourced, NoLead
<1> QED
  BY <1>1, <1>2, <1>4 DEF Longer

LEMMA RowSourced ==
    ASSUME StoreTypes, Sourced, NEW l \in Present, NEW row \in LeadRow, row = NoLead \/ row.sources # {},
           leads' = [leads EXCEPT ![l] = row]
    PROVE  Longer
<1>1. /\ Len(leads') = Len(leads)
      /\ \A m \in 1 .. Len(leads) : leads'[m] = IF m = l THEN row ELSE leads[m]
  BY LeadWritten
<1>2. Len(leads) \in Nat
  BY RowsOfLeads
<1>3. ASSUME NEW m \in 1 .. Len(leads)
      PROVE  leads'[m] = NoLead \/ leads'[m].sources # {}
  <2>1. CASE m = l
    BY <1>1, <2>1, Zenon
  <2>2. CASE m # l
    BY <1>1, <2>2, Zenon DEF Sourced
  <2> QED
    BY <2>1, <2>2
<1>4. NoLead' = NoLead
  BY DEF NoLead
<1>5. Sourced'
  BY <1>1, <1>3, <1>4, Zenon DEF Sourced
<1> QED
  BY <1>1, <1>2, <1>5 DEF Longer

(* Whatever a step does to the leads.                                      *)
LEMMA LeadsLonger == ASSUME StoreTypes, Sourced, StoreNext PROVE Longer
<1>1. ASSUME NEW ids \in SUBSET Ident, NEW url \in Url, leads' = Append(leads, [ids |-> ids, sources |-> {url}])
      PROVE  Longer
  <2> DEFINE row == [ids |-> ids, sources |-> {url}]
  <2>1. row \in LeadRow /\ row.sources # {}
    BY DEF LeadRow
  <2>2. leads' = Append(leads, row)
    BY <1>1
  <2> HIDE DEF row
  <2> QED
    BY <2>1, <2>2, LeadSourced
<1>2. CASE EventRefused \/ PostLost \/ TimedOut \/ DropEvent \/ StartImport
  BY <1>2, LeadsUntouched DEF EventRefused, PostLost, TimedOut, DropEvent, StartImport
<1>3. ASSUME NEW h \in Handlers, PostEvent(h) \/ CheckPolicy(h) \/ LookUp(h) PROVE Longer
  BY <1>3, LeadsUntouched DEF PostEvent, CheckPolicy, LookUp
<1>4. ASSUME NEW h \in Handlers, Create(h) PROVE Longer
  <2> DEFINE url == Source[request[h].item]
  <2>1. Items[request[h].item] \subseteq Ident /\ url \in Url
    BY <1>4, RequestRead DEF Create, Url
  <2>2. leads' = leads \/ leads' = Append(leads, [ids |-> Items[request[h].item], sources |-> {url}])
    BY <1>4 DEF Create
  <2> HIDE DEF url
  <2> QED
    BY <1>1, <2>1, <2>2, LeadsUntouched
<1>5. ASSUME NEW h \in Handlers, Merge(h) PROVE Longer
  <2>1. CASE leads' = leads
    BY <2>1, LeadsUntouched
  <2>2. CASE leads' # leads
    <3> DEFINE l == request[h].match
               url == Source[request[h].item]
               row == [leads[l] EXCEPT !.sources = leads[l].sources \cup {url}]
    <3>1. l \in Present /\ leads' = WithSource(l, url) /\ url \in Url
      BY <1>5, <2>2, RequestRead DEF Merge
    <3>2. leads[l] \in LeadRow
      BY <3>1, RowsOfLeads DEF Present
    <3>3. row \in LeadRow /\ row.sources # {}
      BY <3>1, <3>2 DEF LeadRow
    <3>4. leads' = [leads EXCEPT ![l] = row]
      BY <3>1 DEF WithSource
    <3> HIDE DEF row, l
    <3> QED
      BY <3>1, <3>3, <3>4, RowSourced
  <2> QED
    BY <2>1, <2>2
<1>6. CASE ImportRow
  <2>1. rowsDone + 1 \in 1 .. Len(Rows)
    BY <1>6, ImportRowEffect
  <2>2. Rows[rowsDone + 1] \subseteq Ident /\ "website" \in Url
    BY <2>1 DEF Ident, Url
  <2>3. leads' = leads \/ leads' = Append(leads, [ids |-> Rows[rowsDone + 1], sources |-> {"website"}])
    BY <1>6 DEF ImportRow
  <2> QED
    BY <1>1, <2>2, <2>3, LeadsUntouched
<1>7. CASE CreateEntered
  <2>1. PICK ids \in entered :
          leads' = IF AddressTaken(ids) THEN leads ELSE Append(leads, [ids |-> ids, sources |-> {"website"}])
    BY <1>7 DEF CreateEntered
  <2>2. ids \subseteq Ident /\ "website" \in Url
    BY DEF StoreTypes, Ident, Url
  <2> QED
    BY <1>1, <2>1, <2>2, LeadsUntouched
<1>8. ASSUME NEW ids \in ByHand, EnterLead(ids) PROVE Longer
  BY <1>8, LeadsUntouched DEF EnterLead
<1>9. ASSUME NEW k \in Suppressible, Suppress(k) PROVE Longer
  BY <1>9, LeadsUntouched DEF Suppress
<1>10. ASSUME NEW l \in Present, DeleteLead(l) PROVE Longer
  <2>1. NoLead \in LeadRow
    BY DEF NoLead, LeadRow
  <2>2. leads' = [leads EXCEPT ![l] = NoLead]
    BY <1>10 DEF DeleteLead
  <2> QED
    BY <2>1, <2>2, RowSourced
<1>11. ASSUME NEW l \in Present, NEW ids \in Edits, EditLead(l, ids) PROVE Longer
  <2> DEFINE row == [leads[l] EXCEPT !.ids = ids]
  <2>1. leads[l] \in LeadRow /\ l \in 1 .. Len(leads) /\ leads[l] # NoLead /\ ids \subseteq Ident
    BY RowsOfLeads DEF Present, Ident
  <2>2. row \in LeadRow /\ row.sources # {}
    BY <2>1 DEF LeadRow, Sourced
  <2>3. leads' = [leads EXCEPT ![l] = row]
    BY <1>11 DEF EditLead
  <2> HIDE DEF row
  <2> QED
    BY <2>2, <2>3, RowSourced
<1> QED
  BY <1>2, <1>3, <1>4, <1>5, <1>6, <1>7, <1>8, <1>9, <1>10, <1>11 DEF StoreNext

-----------------------------------------------------------------------------
(* What is found is stored                                                 *)

(* Lead i has its match in the database, or there is a reason for it.      *)
FoundCovered(i) ==
  \/ SharingIds(Items[i]) # {} \/ (i \in skipped /\ FromSource(Source[i]) # {})
  \/ i \in refused \/ Items[i] \cap removed # {} \/ Source[i] \in removed

(* An event is answered only when its lead is covered, which it is from    *)
(* the look of its handler on.                                             *)
InStore ==
  /\ \A i \in acked : i \in FoundItem /\ FoundCovered(i)
  /\ \A h \in Handlers : request[h].stage = "merge" => FoundCovered(request[h].item)

LEMMA CoverStays ==
    ASSUME StoreTypes, SameIds \/ (\E ids : LeadAdded(ids)), refused \subseteq refused', skipped \subseteq skipped',
           removed' = removed
    PROVE  \A i \in FoundItem : FoundCovered(i) => FoundCovered(i)'
<1>1. \A x : SharingIds(x) \subseteq SharingIds(x)'
  BY DEF SharingIds, SameIds, LeadAdded
<1>2. \A url : FromSource(url) \subseteq FromSource(url)'
  BY DEF FromSource, SameIds, LeadAdded, KeepsSources
<1> QED
  BY <1>1, <1>2 DEF FoundCovered

LEMMA CoverSurvivesDeletion ==
    ASSUME StoreTypes, NEW l \in Present, DeleteLead(l)
    PROVE  \A i \in FoundItem : FoundCovered(i) => FoundCovered(i)'
<1> SUFFICES ASSUME NEW i \in FoundItem, FoundCovered(i) PROVE FoundCovered(i)'
  OBVIOUS
<1>1. removed' = removed \cup leads[l].ids \cup leads[l].sources /\ refused' = refused /\ skipped' = skipped
  BY DEF DeleteLead
<1>2. Present' = Present \ {l} /\ \A m \in Present' : leads'[m] = leads[m]
  BY DeleteTakes
<1>3. CASE SharingIds(Items[i]) # {}
  <2>1. PICK m \in SharingIds(Items[i]) : TRUE
    BY <1>3
  <2>2. CASE m = l
    BY <1>1, <2>1, <2>2 DEF SharingIds, FoundCovered
  <2>3. CASE m # l
    <3>1. m \in SharingIds(Items[i])'
      BY <1>2, <2>1, <2>3 DEF SharingIds
    <3> QED
      BY <3>1 DEF FoundCovered
  <2> QED
    BY <2>2, <2>3
<1>4. CASE i \in skipped /\ FromSource(Source[i]) # {}
  <2>1. PICK m \in FromSource(Source[i]) : TRUE
    BY <1>4
  <2>2. CASE m = l
    BY <1>1, <2>1, <2>2 DEF FromSource, FoundCovered
  <2>3. CASE m # l
    <3>1. m \in FromSource(Source[i])'
      BY <1>2, <2>1, <2>3 DEF FromSource
    <3> QED
      BY <1>1, <1>4, <3>1 DEF FoundCovered
  <2> QED
    BY <2>2, <2>3
<1> QED
  BY <1>1, <1>3, <1>4 DEF FoundCovered

LEMMA CoverSurvivesEdit ==
    ASSUME StoreTypes, Sourced, NEW l \in Present, NEW ids \in Edits, EditLead(l, ids)
    PROVE  \A i \in FoundItem : FoundCovered(i) => FoundCovered(i)'
<1> SUFFICES ASSUME NEW i \in FoundItem, FoundCovered(i) PROVE FoundCovered(i)'
  OBVIOUS
<1>1. removed' = removed \cup (leads[l].ids \ ids) /\ refused' = refused /\ skipped' = skipped
  BY DEF EditLead
<1>2. /\ leads'[l].ids = ids
      /\ \A m \in Present : m # l => leads'[m] = leads[m] /\ m \in Present'
      /\ ids # {} => l \in Present'
      /\ KeepsSources
  BY EditWrites
<1>3. CASE SharingIds(Items[i]) # {}
  <2>1. PICK m \in SharingIds(Items[i]) : TRUE
    BY <1>3
  <2>2. CASE m = l /\ Items[i] \cap ids = {}
    BY <1>1, <2>1, <2>2 DEF SharingIds, FoundCovered
  <2>3. CASE m # l \/ Items[i] \cap ids # {}
    <3>1. m \in SharingIds(Items[i])'
      BY <1>2, <2>1, <2>3 DEF SharingIds
    <3> QED
      BY <3>1 DEF FoundCovered
  <2> QED
    BY <2>2, <2>3
<1>4. CASE i \in skipped /\ FromSource(Source[i]) # {}
  <2>1. FromSource(Source[i]) \subseteq FromSource(Source[i])'
    BY <1>2 DEF FromSource, KeepsSources
  <2> QED
    BY <1>1, <1>4, <2>1 DEF FoundCovered
<1> QED
  BY <1>1, <1>3, <1>4 DEF FoundCovered

(* Steps after which nobody more is about to merge, and which answer only  *)
(* for covered leads.                                                      *)
LEMMA StoredFollows ==
    ASSUME StoreTypes, InStore, NoneFurther, \A i \in FoundItem : FoundCovered(i) => FoundCovered(i)',
           \A i \in acked' \ acked : i \in FoundItem /\ FoundCovered(i)'
    PROVE  InStore'
<1>1. ASSUME NEW i \in acked' PROVE i \in FoundItem /\ FoundCovered(i)'
  BY <1>1 DEF InStore
<1>2. ASSUME NEW h \in Handlers, request'[h].stage = "merge" PROVE FoundCovered(request[h].item)'
  <2>1. request'[h] = request[h] /\ request[h].item \in FoundItem
    BY <1>2 DEF NoneFurther, StoreTypes
  <2>2. FoundCovered(request[h].item)
    BY <1>2, <2>1 DEF InStore
  <2>3. ASSUME NEW i \in FoundItem, i = request'[h].item, FoundCovered(i)' PROVE FoundCovered(request[h].item)'
    BY <2>3 DEF FoundCovered, SharingIds, FromSource
  <2> QED
    BY <2>1, <2>2, <2>3
<1>3. \A h \in Handlers : request'[h].stage = "merge" => FoundCovered(request[h].item)'
  BY <1>2
<1> QED
  BY <1>1, <1>3 DEF InStore, FoundItem

LEMMA InStoreStep == StoreTypes /\ Sourced /\ InStore /\ StoreNext => InStore'
<1> SUFFICES ASSUME StoreTypes, Sourced, InStore, StoreNext PROVE InStore'
  OBVIOUS
<1>1. CASE EventRefused \/ PostLost \/ TimedOut \/ DropEvent \/ StartImport
  BY <1>1, StoredFollows, CoverStays, LeadsStay, RequestsStay DEF EventRefused, PostLost, TimedOut, DropEvent, StartImport
<1>2. ASSUME NEW h \in Handlers, PostEvent(h) PROVE InStore'
  <2>1. NoneFurther
    BY <1>2 DEF PostEvent, StoreTypes, NoneFurther
  <2> QED
    BY <1>2, <2>1, StoredFollows, CoverStays, LeadsStay DEF PostEvent
<1>3. ASSUME NEW h \in Handlers, CheckPolicy(h) PROVE InStore'
  <2>1. NoneFurther /\ UNCHANGED <<leads, removed, skipped>> /\ refused \subseteq refused'
    BY <1>3, CheckPolicyEffect DEF CheckPolicy
  <2>2. \A i \in acked' \ acked : i \in FoundItem /\ i \in refused'
    BY <1>3, CheckPolicyEffect, RequestRead DEF CheckPolicy
  <2> QED
    BY <2>1, <2>2, StoredFollows, CoverStays, LeadsStay DEF FoundCovered
<1>4. ASSUME NEW h \in Handlers, LookUp(h) PROVE InStore'
  <2>1. UNCHANGED <<leads, refused, removed, acked>> /\ skipped \subseteq skipped'
    BY <1>4, LookUpEffect DEF LookUp
  <2>2. /\ \A g \in Handlers : g # h => request'[g] = request[g]
        /\ request'[h].item = request[h].item /\ request[h].item \in FoundItem
    BY <1>4, LookUpEffect
  <2>3. request'[h].stage = "merge" =>
          \/ SharingIds(Items[request[h].item]) # {}
          \/ request[h].item \in skipped' /\ FromSource(Source[request[h].item]) # {}
    BY <1>4, LookUpEffect
  <2>5. \A i \in FoundItem : FoundCovered(i) => FoundCovered(i)'
    BY <2>1, LeadsStay, CoverStays
  <2>6. ASSUME NEW g \in Handlers, request'[g].stage = "merge" PROVE FoundCovered(request[g].item)'
    <3>1. PICK i \in FoundItem : i = request[g].item /\ i = request'[g].item
      BY <2>2, RequestRead, <2>6 DEF StoreTypes
    <3>2. FoundCovered(i)'
      <4>1. CASE g = h
        <5>1. \/ SharingIds(Items[i]) # {}
              \/ i \in skipped' /\ FromSource(Source[i]) # {}
          BY <2>3, <2>6, <3>1, <4>1
        <5>2. SharingIds(Items[i])' = SharingIds(Items[i]) /\ FromSource(Source[i])' = FromSource(Source[i])
          BY <2>1 DEF SharingIds, FromSource, Present
        <5> QED
          BY <5>1, <5>2 DEF FoundCovered
      <4>2. CASE g # h
        BY <2>2, <2>5, <2>6, <3>1, <4>2 DEF InStore
      <4> QED
        BY <4>1, <4>2
    <3> QED
      BY <3>1, <3>2 DEF FoundCovered, SharingIds, FromSource
  <2>7. \A i \in acked' : i \in FoundItem /\ FoundCovered(i)'
    BY <2>1, <2>5 DEF InStore
  <2>8. \A g \in Handlers : request'[g].stage = "merge" => FoundCovered(request[g].item)'
    BY <2>6
  <2> QED
    BY <2>7, <2>8 DEF InStore, FoundItem
<1>5. ASSUME NEW h \in Handlers, Create(h) PROVE InStore'
  <2> DEFINE i == request[h].item
  <2>1. NoneFurther /\ i \in FoundItem /\ UNCHANGED <<refused, removed, skipped>>
    BY <1>5, StoreCreateEffect, StoreAnswered, RequestRead DEF Create
  <2>2. CASE SameIds /\ acked' = acked
    BY <2>1, <2>2, StoredFollows, CoverStays
  <2>3. CASE LeadAdded(Items[i]) /\ acked' \in {acked, acked \cup {i}}
    <3>1. \A j \in FoundItem : FoundCovered(j) => FoundCovered(j)'
      BY <2>1, <2>3, CoverStays
    <3>2. \A j \in FoundItem : j = i => FoundCovered(j)'
      BY <2>1, <2>3, StoreAssumption DEF LeadAdded, FoundCovered, SharingIds, FoundItem
    <3> QED
      BY <2>1, <2>3, <3>1, <3>2, StoredFollows
  <2> QED
    BY <1>5, <2>2, <2>3, StoreCreateEffect
<1>6. ASSUME NEW h \in Handlers, Merge(h) PROVE InStore'
  <2> DEFINE i == request[h].item
  <2>1. NoneFurther /\ i \in FoundItem /\ UNCHANGED <<refused, removed, skipped>> /\ SameIds
        /\ acked' \in {acked, acked \cup {i}}
    BY <1>6, MergeEffect, StoreAnswered, RequestRead DEF Merge
  <2>2. \A j \in FoundItem : FoundCovered(j) => FoundCovered(j)'
    BY <2>1, CoverStays
  <2>3. FoundCovered(i)
    BY <1>6 DEF Merge, InStore
  <2>4. \A j \in acked' \ acked : j \in FoundItem /\ FoundCovered(j)'
    BY <2>1, <2>2, <2>3
  <2> QED
    BY <2>1, <2>2, <2>4, StoredFollows
<1>7. CASE ImportRow
  <2>1. (SameIds \/ \E ids : LeadAdded(ids)) /\ NoneFurther
    BY <1>7, ImportRowEffect, RequestsStay DEF ImportRow
  <2> QED
    BY <1>7, <2>1, StoredFollows, CoverStays DEF ImportRow
<1>8. CASE CreateEntered
  <2>1. (SameIds \/ \E ids : LeadAdded(ids)) /\ NoneFurther
    BY <1>8, CreateEnteredEffect, RequestsStay DEF CreateEntered
  <2> QED
    BY <1>8, <2>1, StoredFollows, CoverStays DEF CreateEntered
<1>9. ASSUME NEW ids \in ByHand, EnterLead(ids) PROVE InStore'
  BY <1>9, StoredFollows, CoverStays, LeadsStay, RequestsStay DEF EnterLead
<1>10. ASSUME NEW k \in Suppressible, Suppress(k) PROVE InStore'
  BY <1>10, StoredFollows, CoverStays, LeadsStay, RequestsStay DEF Suppress
<1>11. ASSUME NEW l \in Present, DeleteLead(l) PROVE InStore'
  BY <1>11, StoredFollows, CoverSurvivesDeletion, RequestsStay DEF DeleteLead
<1>12. ASSUME NEW l \in Present, NEW ids \in Edits, EditLead(l, ids) PROVE InStore'
  BY <1>12, StoredFollows, CoverSurvivesEdit, RequestsStay DEF EditLead
<1> QED
  BY <1>1, <1>2, <1>3, <1>4, <1>5, <1>6, <1>7, <1>8, <1>9, <1>10, <1>11, <1>12 DEF StoreNext

-----------------------------------------------------------------------------
StoreInv == StoreTypes /\ Sourced /\ OneLooks /\ InStore

LEMMA StoreInvInit == StoreInit => StoreInv
<1> SUFFICES ASSUME StoreInit PROVE StoreInv
  OBVIOUS
<1>1. Free \in RequestRow /\ Free.stage = "free"
  BY DEF Free, RequestRow
<1>2. StoreTypes
  <2>1. leads \in Seq(LeadRow) /\ entered \subseteq ByHand
    BY EmptySeq DEF StoreInit
  <2>2. request \in [Handlers -> RequestRow] /\ \A h \in Handlers : request[h].stage = "free"
    BY <1>1 DEF StoreInit
  <2>3. item \in Nat \ {0} /\ kind \in {"lead_found", "agent_event"} /\ rowsDone \in Nat
    BY DEF StoreInit
  <2>4. importing = FALSE /\ overlapped = FALSE /\ edited = FALSE
    BY DEF StoreInit
  <2> QED
    BY <2>1, <2>2, <2>3, <2>4, Zenon DEF StoreTypes
<1>3. Present = {} /\ Creating = {} /\ entered = {} /\ ~importing
  BY <1>1 DEF StoreInit, Present, Creating
<1>4. OneLooks
  BY <1>3 DEF OneLooks, Separate, StoreAlone, AloneCreating, AloneEntering, AloneImporting
<1>5. InStore
  BY <1>1 DEF StoreInit, InStore
<1>6. Sourced
  BY DEF StoreInit, Sourced
<1> QED
  BY <1>2, <1>4, <1>5, <1>6 DEF StoreInv

LEMMA StoreInvStep == StoreInv /\ [StoreNext]_storeVars => StoreInv'
<1>1. CASE StoreNext
  BY <1>1, StoreTypedStep, LeadsLonger, LooksStep, InStoreStep DEF StoreInv, Longer
<1>2. CASE UNCHANGED storeVars
  BY <1>2 DEF storeVars, StoreInv, StoreTypes, OneLooks, Separate, StoreAlone, AloneCreating, AloneEntering,
              AloneImporting, InStore, FoundCovered, SharingIds, FromSource, Present, Creating, Sourced
<1> QED
  BY <1>1, <1>2

(* However the worker's posts are lost, repeated and handled twice, and    *)
(* whatever is imported, entered and deleted beside them, what the         *)
(* pipeline found is stored once: no two leads share an identifier unless  *)
(* two looked at once or a lead was edited, and its lead_found is answered *)
(* only when the lead is there, or one with the same source URL is.        *)
THEOREM FoundStoredOnce == StoreSpec => []StoredOnce
<1>1. StoreInv => StoredOnce
  BY DEF StoreInv, OneLooks, Separate, InStore, FoundCovered, StoredOnce, NoTwins, FoundIsStored, FoundItem
<1> QED
  BY <1>1, StoreInvInit, StoreInvStep, PTL DEF StoreSpec

-----------------------------------------------------------------------------
(* The rest of the types: a request merges into a lead there has been, and *)
(* the worker waits for at most one handler, which handles the lead_found  *)
(* the worker reports.                                                     *)
MatchesThere == \A h \in Handlers : request[h].match \in 0 .. Len(leads)
Answering(h) == request[h].stage # "free" /\ request[h].item = item /\ kind = "lead_found"
WorkerWaits ==
  /\ item \in 1 .. Len(Items) + 1 /\ posts \in 0 .. MaxPosts
  /\ awaits = {} \/ \E h \in Handlers : awaits = {h} /\ Answering(h)
RowsCounted == rowsDone \in 0 .. Len(Rows) /\ known \subseteq 1 .. Len(Rows)
StoreWaits == StoreTypes /\ Sourced /\ MatchesThere /\ WorkerWaits /\ RowsCounted

(* A request that is made, moved on or answered merges into a lead there   *)
(* is.                                                                     *)
LEMMA MatchWritten ==
    ASSUME StoreTypes, MatchesThere, Longer, NEW h \in Handlers, NEW row, row.match \in 0 .. Len(leads),
           request' = [request EXCEPT ![h] = row]
    PROVE  MatchesThere'
<1>1. \A g \in Handlers : request'[g] = IF g = h THEN row ELSE request[g]
  BY DEF StoreTypes
<1>2. Len(leads) \in Nat /\ Len(leads') \in Nat /\ Len(leads) <= Len(leads')
  BY RowsOfLeads DEF Longer
<1>3. ASSUME NEW g \in Handlers
      PROVE  request'[g].match \in 0 .. Len(leads')
  <2>1. request'[g].match \in 0 .. Len(leads)
    BY <1>1, Zenon DEF MatchesThere
  <2> QED
    BY <1>2, <2>1
<1> QED
  BY <1>3, Zenon DEF MatchesThere

LEMMA MatchesKept == ASSUME MatchesThere, StoreTypes, Longer, request' = request PROVE MatchesThere'
BY RowsOfLeads DEF Longer, MatchesThere

LEMMA MoveMatches ==
    ASSUME StoreTypes, MatchesThere, Longer, NEW h \in Handlers, NEW stage, NEW m \in 0 .. Len(leads),
           Move(h, stage, m)
    PROVE  MatchesThere'
<1> DEFINE row == [request[h] EXCEPT !.stage = stage, !.match = m]
<1>1. row.match = m /\ request' = [request EXCEPT ![h] = row]
  BY RequestRead DEF RequestRow, Move
<1> HIDE DEF row
<1> QED
  BY <1>1, MatchWritten

LEMMA FreeMatches ==
    ASSUME StoreTypes, MatchesThere, Longer, NEW h \in Handlers, request' = [request EXCEPT ![h] = Free]
    PROVE  MatchesThere'
<1>1. Free.match \in 0 .. Len(leads)
  BY RowsOfLeads DEF Free
<1> QED
  BY <1>1, MatchWritten

LEMMA MatchesStep == ASSUME StoreTypes, MatchesThere, Longer, StoreNext PROVE MatchesThere'
<1>0. Len(leads) \in Nat /\ 0 \in 0 .. Len(leads) /\ Present \subseteq 0 .. Len(leads)
  BY RowsOfLeads
<1>1. ASSUME NEW h \in Handlers, PostEvent(h) PROVE MatchesThere'
  <2> DEFINE row == [stage |-> "policy", item |-> item, match |-> 0]
  <2>1. row.match = 0 /\ request' = [request EXCEPT ![h] = row]
    BY <1>1 DEF PostEvent
  <2> HIDE DEF row
  <2> QED
    BY <1>0, <2>1, MatchWritten
<1>2. ASSUME NEW h \in Handlers, CheckPolicy(h) PROVE MatchesThere'
  BY <1>0, <1>2, MoveMatches, FreeMatches DEF CheckPolicy, AnswerOk
<1>3. ASSUME NEW h \in Handlers, LookUp(h) PROVE MatchesThere'
  <2>1. Matches(request[h].item) \subseteq Present
    BY DEF Matches, SharingIds, FromSource
  <2> QED
    BY <1>0, <1>3, <2>1, MoveMatches DEF LookUp
<1>4. ASSUME NEW h \in Handlers, Create(h) \/ Merge(h) PROVE MatchesThere'
  BY <1>4, StoreCreateEffect, MergeEffect, FreeMatches
<1> QED
  BY <1>1, <1>2, <1>3, <1>4, MatchesKept
     DEF StoreNext, EventRefused, PostLost, TimedOut, DropEvent, StartImport, ImportRow, CreateEntered, EnterLead, Suppress,
         DeleteLead, EditLead

(* The worker goes on to the next event only when it waits for nobody any  *)
(* more, and a handler leaves an event only by answering it.               *)
LEMMA EventFollows ==
    ASSUME item \in 1 .. Len(Items), kind \in {"lead_found", "agent_event"}, NextEvent
    PROVE  item' \in 1 .. Len(Items) + 1 /\ posts' \in 0 .. MaxPosts
BY StoreAssumption DEF NextEvent

LEMMA WaitsStay ==
    ASSUME WorkerWaits, UNCHANGED <<item, kind, posts, awaits>>,
           \A h \in awaits : request'[h].stage # "free" /\ request'[h].item = request[h].item
    PROVE  WorkerWaits'
BY DEF WorkerWaits, Answering

LEMMA NobodyAwaited ==
    ASSUME item' \in 1 .. Len(Items) + 1, posts' \in 0 .. MaxPosts, awaits' = {}
    PROVE  WorkerWaits'
BY DEF WorkerWaits

LEMMA AnswerWaits ==
    ASSUME StoreTypes, WorkerWaits, NEW h \in Handlers, request[h].stage # "free", AnswerOk(h) \/ AnswerError(h)
    PROVE  WorkerWaits'
<1>1. /\ item \in 1 .. Len(Items) + 1 /\ posts \in 0 .. MaxPosts /\ kind \in {"lead_found", "agent_event"}
      /\ awaits = {} \/ \E g \in Handlers : awaits = {g} /\ Answering(g)
  BY DEF WorkerWaits, StoreTypes
<1>2. CASE awaits = {h}
  <2>1. awaits' = {}
    BY <1>2 DEF AnswerOk, AnswerError
  <2>2. item = request[h].item
    BY <1>1, <1>2 DEF Answering
  <2>3. item \in 1 .. Len(Items)
    BY <2>2, RequestRead DEF FoundItem
  <2>4. item' \in 1 .. Len(Items) + 1 /\ posts' \in 0 .. MaxPosts
    BY <1>1, <1>2, <2>3, EventFollows DEF AnswerOk, AnswerError
  <2> QED
    BY <2>1, <2>4, NobodyAwaited
<1>3. CASE awaits # {h}
  <2>1. UNCHANGED <<item, kind, posts, awaits>>
    BY <1>1, <1>3 DEF AnswerOk, AnswerError
  <2>2. ASSUME NEW g \in awaits
        PROVE  request'[g] = request[g] /\ request[g].stage # "free"
    <3>1. g \in Handlers /\ g # h /\ Answering(g)
      BY <1>1, <1>3
    <3>2. request' = [request EXCEPT ![h] = Free]
      BY DEF AnswerOk, AnswerError
    <3> QED
      BY <3>1, <3>2 DEF StoreTypes, Answering
  <2> QED
    BY <2>1, <2>2, WaitsStay
<1> QED
  BY <1>2, <1>3

LEMMA MoveWaits ==
    ASSUME StoreTypes, WorkerWaits, NEW h \in Handlers, NEW stage \in {"lookup", "create", "merge"}, NEW m \in Nat,
           Move(h, stage, m), request[h].stage # "free"
    PROVE  WorkerWaits'
<1>1. /\ \A g \in Handlers : g # h => request'[g] = request[g]
      /\ request'[h].stage = stage /\ request'[h].item = request[h].item
  BY StoreMoved
<1>2. UNCHANGED <<item, kind, posts, awaits>>
  BY DEF Move
<1>3. ASSUME NEW g \in awaits
      PROVE  request'[g].stage # "free" /\ request'[g].item = request[g].item
  <2>1. g \in Handlers /\ request[g].stage # "free"
    BY DEF WorkerWaits, Answering
  <2> QED
    BY <1>1, <2>1
<1> QED
  BY <1>2, <1>3, WaitsStay

LEMMA WaitsStep == ASSUME StoreTypes, WorkerWaits, StoreNext PROVE WorkerWaits'
<1>1. /\ item \in 1 .. Len(Items) + 1 /\ posts \in 0 .. MaxPosts /\ kind \in {"lead_found", "agent_event"}
      /\ awaits = {} \/ \E g \in Handlers : awaits = {g} /\ Answering(g)
  BY DEF WorkerWaits, StoreTypes
<1>2. Reporting => item \in 1 .. Len(Items)
  BY <1>1, StoreAssumption DEF Reporting
<1>3. CASE EventRefused \/ PostLost
  <2>1. posts' \in 0 .. MaxPosts /\ UNCHANGED <<item, awaits>> /\ awaits = {}
    BY <1>1, <1>3, StoreAssumption DEF EventRefused, PostLost, Reporting
  <2> QED
    BY <1>1, <2>1, NobodyAwaited
<1>4. CASE TimedOut
  BY <1>1, <1>4, NobodyAwaited DEF TimedOut
<1>5. CASE DropEvent
  BY <1>1, <1>2, <1>5, EventFollows, NobodyAwaited DEF DropEvent, Reporting
<1>6. ASSUME NEW h \in Handlers, PostEvent(h) PROVE WorkerWaits'
  <2> DEFINE row == [stage |-> "policy", item |-> item, match |-> 0]
  <2>1. request'[h] = row
    BY <1>6 DEF PostEvent, StoreTypes
  <2>2. awaits' = {h} /\ UNCHANGED <<item, kind>> /\ kind = "lead_found"
    BY <1>6 DEF PostEvent
  <2>3. posts' \in 0 .. MaxPosts
    BY <1>1, <1>6, StoreAssumption DEF PostEvent
  <2>4. Answering(h)'
    BY <2>1, <2>2 DEF Answering
  <2> QED
    BY <1>1, <2>2, <2>3, <2>4 DEF WorkerWaits
<1>7. ASSUME NEW h \in Handlers, CheckPolicy(h) PROVE WorkerWaits'
  BY <1>7, AnswerWaits, MoveWaits DEF CheckPolicy
<1>8. ASSUME NEW h \in Handlers, LookUp(h) PROVE WorkerWaits'
  <2>1. Matches(request[h].item) \subseteq Nat
    BY RowsOfLeads DEF Matches, SharingIds, FromSource, Present
  <2> QED
    BY <1>8, <2>1, MoveWaits DEF LookUp
<1>9. ASSUME NEW h \in Handlers, Create(h) \/ Merge(h) PROVE WorkerWaits'
  <2>1. request[h].stage # "free" /\ (AnswerOk(h) \/ AnswerError(h))
    BY <1>9 DEF Create, Merge
  <2> QED
    BY <2>1, AnswerWaits
<1>10. ASSUME UNCHANGED <<request, item, kind, posts, awaits>> PROVE WorkerWaits'
  BY <1>10 DEF WorkerWaits, Answering
<1> QED
  BY <1>3, <1>4, <1>5, <1>6, <1>7, <1>8, <1>9, <1>10
     DEF StoreNext, StartImport, ImportRow, CreateEntered, EnterLead, Suppress, DeleteLead, EditLead

LEMMA RowsCountedStep == ASSUME StoreTypes, RowsCounted, StoreNext PROVE RowsCounted'
<1>1. CASE ImportRow
  <2>1. rowsDone' = rowsDone + 1 /\ rowsDone + 1 \in 1 .. Len(Rows)
    BY <1>1, ImportRowEffect
  <2> QED
    BY <1>1, <2>1 DEF RowsCounted, ImportRow
<1>2. CASE StartImport
  BY <1>2 DEF RowsCounted, StartImport
<1> QED
  BY <1>1, <1>2
     DEF RowsCounted, StoreNext, EventRefused, PostLost, TimedOut, DropEvent, PostEvent, CheckPolicy, LookUp, Create, Merge,
         CreateEntered, EnterLead, Suppress, DeleteLead, EditLead

LEMMA StoreWaitsInit == StoreInit => StoreWaits
<1> SUFFICES ASSUME StoreInit PROVE StoreWaits
  OBVIOUS
<1>1. StoreTypes
  BY StoreInvInit DEF StoreInv
<1>2. Sourced
  BY DEF StoreInit, Sourced
<1>3. MatchesThere
  BY DEF StoreInit, MatchesThere, Free
<1>4. WorkerWaits /\ RowsCounted
  BY StoreAssumption DEF StoreInit, WorkerWaits, RowsCounted
<1> QED
  BY <1>1, <1>2, <1>3, <1>4 DEF StoreWaits

LEMMA StoreWaitsStep == StoreWaits /\ [StoreNext]_storeVars => StoreWaits'
<1> SUFFICES ASSUME StoreWaits, [StoreNext]_storeVars PROVE StoreWaits'
  OBVIOUS
<1>1. CASE StoreNext
  BY <1>1, StoreTypedStep, LeadsLonger, MatchesStep, WaitsStep, RowsCountedStep DEF StoreWaits, Longer
<1>2. CASE UNCHANGED storeVars
  BY <1>2 DEF storeVars, StoreWaits, StoreTypes, Sourced, MatchesThere, WorkerWaits, Answering, RowsCounted
<1> QED
  BY <1>1, <1>2

LEMMA StoreWaitsTyped == ASSUME StoreWaits PROVE StoreTypeOK
<1>1. awaits = {} \/ \E h \in Handlers : awaits = {h} /\ Answering(h)
  BY DEF StoreWaits, WorkerWaits
<1>2. awaits \subseteq Handlers /\ \A h \in awaits : Answering(h)
  BY <1>1
<1>3. Cardinality(awaits) <= 1
  <2>1. CASE awaits = {}
    BY <2>1, FS_EmptySet
  <2>2. ASSUME NEW h \in Handlers, awaits = {h} PROVE Cardinality(awaits) <= 1
    BY <2>2, FS_Singleton
  <2> QED
    BY <1>1, <2>1, <2>2
<1>4. \A h \in Handlers : request[h].stage \in {"free", "policy", "lookup", "create", "merge"}
  BY DEF StoreWaits, StoreTypes, RequestRow
<1> QED
  BY <1>2, <1>3, <1>4
     DEF StoreWaits, StoreTypes, Sourced, MatchesThere, WorkerWaits, Answering, RowsCounted, StoreTypeOK

(* The variables of the leads keep their types, and the handler the worker *)
(* waits for is handling the event the worker reports: StoreTypeOK.        *)
THEOREM StoreTypesCorrect == StoreSpec => []StoreTypeOK
BY StoreWaitsInit, StoreWaitsStep, StoreWaitsTyped, PTL DEF StoreSpec

-----------------------------------------------------------------------------
(***************************************************************************)
(* Campaigns and their drafts                                              *)
(***************************************************************************)

(* Type correctness                                                        *)

CampaignStatus == {"draft", "active", "paused", "deleted"}
DraftRow == [campaign : Campaign, lead : Lead, status : {"approved", "sent", "cancelled", "deleted"},
             row : {"none", "pending", "sent", "blocked", "cancelled"}, delivered : BOOLEAN]
ActRow == [what : {"none", "active", "paused", "add", "join"}, campaign : Campaign, lead : Lead,
           read : CampaignStatus]
JobRow == [campaign : Campaign, stage : {"queued", "working", "over"}, todo : SUBSET Lead,
           hand : SUBSET Lead, waits : SUBSET Hook]
EventRow == [stage : {"free", "check", "create", "queue"}, campaign : Campaign, lead : Lead,
             draft : Nat]

RowsTyped ==
  /\ statusOf \in [Campaign -> CampaignStatus]
  /\ members \in SUBSET (Campaign \X Lead)
  /\ drafts \in Seq(DraftRow)
  /\ act \in [Tab -> ActRow]
  /\ jobsOf \in Seq(JobRow)
  /\ hook \in [Hook -> EventRow]

LEMMA FreeRows == NoAct \in ActRow /\ NoEvent \in EventRow
<1>1. (CHOOSE c \in Campaign : TRUE) \in Campaign /\ (CHOOSE l \in Lead : TRUE) \in Lead
  BY DraftsAssumption
<1> QED
  BY <1>1 DEF NoAct, NoEvent, ActRow, EventRow, CampaignStatus

LEMMA InitTyped == DraftsInit => RowsTyped
BY FreeRows, DraftsAssumption, EmptySeq DEF DraftsInit, RowsTyped, CampaignStatus

(* A table of drafts or jobs of which each row is one of the former's.     *)
LEMMA BodyMapped ==
    ASSUME NEW S, NEW n \in Nat, NEW f \in [1 .. n -> S]
    PROVE  f \in Seq(S) /\ Len(f) = n
<1>1. f \in Seq(S)
  BY SeqDef
<1>2. DOMAIN f = 1 .. n /\ DOMAIN f = 1 .. Len(f) /\ Len(f) \in Nat
  BY <1>1, LenProperties
<1> QED
  BY <1>1, <1>2

(* One row of the jobs is written.                                         *)
LEMMA JobWritten ==
    ASSUME RowsTyped, NEW j \in 1 .. Len(jobsOf), NEW row \in JobRow,
           jobsOf' = [jobsOf EXCEPT ![j] = row]
    PROVE  /\ jobsOf' \in Seq(JobRow) /\ Len(jobsOf') = Len(jobsOf)
           /\ \A i \in 1 .. Len(jobsOf) : jobsOf'[i] = IF i = j THEN row ELSE jobsOf[i]
BY ExceptSeq DEF RowsTyped

LEMMA JobRead ==
    ASSUME RowsTyped
    PROVE  Len(jobsOf) \in Nat /\ \A j \in 1 .. Len(jobsOf) : jobsOf[j] \in JobRow
BY ElementOfSeq, LenProperties DEF RowsTyped

LEMMA DraftRead ==
    ASSUME RowsTyped
    PROVE  Len(drafts) \in Nat /\ \A d \in DraftIds : drafts[d] \in DraftRow
BY ElementOfSeq, LenProperties DEF RowsTyped, DraftIds

(* What becomes of the jobs' leads: none is on its way that was not before *)
(* or is a member.                                                         *)
JobsKept ==
  /\ jobsOf' \in Seq(JobRow)
  /\ \A j \in 1 .. Len(jobsOf') :
       \A l \in jobsOf'[j].todo \cup jobsOf'[j].hand :
         \/ <<jobsOf'[j].campaign, l>> \in members
         \/ j \in 1 .. Len(jobsOf) /\ jobsOf'[j].campaign = jobsOf[j].campaign
            /\ l \in jobsOf[j].todo \cup jobsOf[j].hand

LEMMA LaunchJobs ==
    ASSUME RowsTyped, NEW c \in Campaign, StartDrafting(c)
    PROVE  JobsKept
<1> DEFINE row == [campaign |-> c, stage |-> "queued", todo |-> {}, hand |-> {}, waits |-> {}]
<1>1. row \in JobRow
  BY DEF JobRow
<1>2. CASE jobsOf' = jobsOf
  BY <1>2 DEF JobsKept, RowsTyped
<1>3. CASE jobsOf' = Append(jobsOf, row)
  BY <1>1, <1>3, AppendProperties, JobRead DEF JobsKept, RowsTyped
<1> QED
  BY <1>2, <1>3 DEF StartDrafting

LEMMA JobStepKeeps ==
    ASSUME RowsTyped, NEW j \in 1 .. Len(jobsOf),
           ReadCampaign(j) \/ TakeLead(j) \/ CutJob(j) \/ AnswerLate(j) \/ \E h \in Hook : PostDraft(j, h)
    PROVE  JobsKept
<1> DEFINE old == jobsOf[j]
<1>1. old \in JobRow /\ Len(jobsOf) \in Nat
  BY JobRead
<1>2. ASSUME NEW row \in JobRow, jobsOf' = [jobsOf EXCEPT ![j] = row],
             row.campaign = old.campaign,
             \A l \in row.todo \cup row.hand : <<old.campaign, l>> \in members \/ l \in old.todo \cup old.hand
      PROVE  JobsKept
  <2>1. /\ jobsOf' \in Seq(JobRow) /\ Len(jobsOf') = Len(jobsOf)
        /\ \A i \in 1 .. Len(jobsOf) : jobsOf'[i] = IF i = j THEN row ELSE jobsOf[i]
    BY <1>2, JobWritten
  <2>2. ASSUME NEW i \in 1 .. Len(jobsOf), NEW l \in jobsOf'[i].todo \cup jobsOf'[i].hand
        PROVE  \/ <<jobsOf'[i].campaign, l>> \in members
               \/ /\ i \in 1 .. Len(jobsOf) /\ jobsOf'[i].campaign = jobsOf[i].campaign
                  /\ l \in jobsOf[i].todo \cup jobsOf[i].hand
    <3>1. CASE i = j
      BY <1>2, <2>1, <2>2, <3>1
    <3>2. CASE i # j
      BY <2>1, <2>2, <3>2
    <3> QED
      BY <3>1, <3>2
  <2> QED
    BY <2>1, <2>2 DEF JobsKept
<1>3. CASE ReadCampaign(j)
  <2> DEFINE row == [old EXCEPT !.stage = IF statusOf[old.campaign] = "deleted" THEN "over" ELSE "working",
                                !.todo = {l \in Lead : <<old.campaign, l>> \in members /\ DraftsOf(old.campaign, l) = {}}]
  <2>1. jobsOf' = [jobsOf EXCEPT ![j] = row]
    BY <1>3 DEF ReadCampaign
  <2>2. row \in JobRow /\ row.campaign = old.campaign
    BY <1>1 DEF JobRow
  <2>3. \A l \in row.todo \cup row.hand : <<old.campaign, l>> \in members \/ l \in old.todo \cup old.hand
    BY <1>1 DEF JobRow
  <2> QED
    BY <1>2, <2>1, <2>2, <2>3
<1>4. CASE TakeLead(j)
  <2>1. CASE old.todo = {}
    <3> DEFINE row == [old EXCEPT !.stage = "over"]
    <3>1. jobsOf' = [jobsOf EXCEPT ![j] = row]
      BY <1>4, <2>1 DEF TakeLead
    <3>2. row \in JobRow /\ row.campaign = old.campaign /\ row.todo = old.todo /\ row.hand = old.hand
      BY <1>1 DEF JobRow
    <3> QED
      BY <1>2, <3>1, <3>2
  <2>2. CASE old.todo # {}
    <3>1. PICK l \in old.todo : jobsOf' = [jobsOf EXCEPT ![j].hand = {l}, ![j].todo = @ \ {l}]
      BY <1>4, <2>2 DEF TakeLead
    <3> DEFINE row == [old EXCEPT !.hand = {l}, !.todo = old.todo \ {l}]
    <3>2. jobsOf' = [jobsOf EXCEPT ![j] = row]
      BY <3>1, <1>1 DEF JobRow
    <3>3. row \in JobRow /\ row.campaign = old.campaign /\ row.todo \cup row.hand = old.todo
      BY <1>1, <3>1 DEF JobRow
    <3> QED
      BY <1>2, <3>2, <3>3
  <2> QED
    BY <2>1, <2>2
<1>5. CASE CutJob(j)
  <2> DEFINE row == [old EXCEPT !.stage = "over", !.todo = {}, !.hand = {}, !.waits = {}]
  <2>1. jobsOf' = [jobsOf EXCEPT ![j] = row]
    BY <1>5 DEF CutJob
  <2>2. row \in JobRow /\ row.campaign = old.campaign /\ row.todo = {} /\ row.hand = {}
    BY <1>1 DEF JobRow
  <2> QED
    BY <1>2, <2>1, <2>2
<1>6. CASE AnswerLate(j)
  <2>1. PICK rest \in {{}, old.hand} :
          jobsOf' = [jobsOf EXCEPT ![j] = [old EXCEPT !.waits = {}, !.hand = rest]]
    BY <1>1, <1>6 DEF AnswerLate, JobRow
  <2> DEFINE row == [old EXCEPT !.waits = {}, !.hand = rest]
  <2>2. row \in JobRow /\ row.campaign = old.campaign /\ row.todo = old.todo /\ row.hand \subseteq old.hand
    BY <1>1 DEF JobRow
  <2> QED
    BY <1>2, <2>1, <2>2
<1>7. ASSUME NEW h \in Hook, PostDraft(j, h) PROVE JobsKept
  <2> DEFINE row == [old EXCEPT !.waits = {h}]
  <2>1. jobsOf' = [jobsOf EXCEPT ![j] = row]
    BY <1>7 DEF PostDraft
  <2>2. row \in JobRow /\ row.campaign = old.campaign /\ row.todo = old.todo /\ row.hand = old.hand
    BY <1>1 DEF JobRow
  <2> QED
    BY <1>2, <2>1, <2>2
<1> QED
  BY <1>3, <1>4, <1>5, <1>6, <1>7

(* A request of the webhook that ends answers the job that waits for it.   *)
LEMMA HookDoneKeeps ==
    ASSUME RowsTyped, NEW h \in Hook, HookDone(h)
    PROVE  JobsKept /\ hook' = [hook EXCEPT ![h] = NoEvent] /\ hook' \in [Hook -> EventRow]
<1> DEFINE f == [j \in 1 .. Len(jobsOf) |-> IF h \in jobsOf[j].waits
                   THEN [jobsOf[j] EXCEPT !.waits = {}, !.hand = {}] ELSE jobsOf[j]]
<1>1. jobsOf' = f /\ hook' = [hook EXCEPT ![h] = NoEvent]
  BY DEF HookDone
<1>2. \A j \in 1 .. Len(jobsOf) : f[j] \in JobRow /\ f[j].campaign = jobsOf[j].campaign
                                  /\ f[j].todo = jobsOf[j].todo /\ f[j].hand \subseteq jobsOf[j].hand
  BY JobRead DEF JobRow
<1>3. f \in [1 .. Len(jobsOf) -> JobRow]
  BY <1>2
<1>4. f \in Seq(JobRow) /\ Len(f) = Len(jobsOf)
  BY <1>3, BodyMapped, JobRead
<1>5. JobsKept
  BY <1>1, <1>2, <1>4 DEF JobsKept
<1> QED
  BY <1>1, <1>5, FreeRows DEF RowsTyped

(* What becomes of the drafts when none is added: their campaign and lead  *)
(* stay, none is opened but by users and, when they only age, none is      *)
(* queued.                                                                 *)
NoneOpened ==
  /\ drafts' \in Seq(DraftRow) /\ Len(drafts') = Len(drafts)
  /\ \A d \in DraftIds :
       /\ drafts'[d].campaign = drafts[d].campaign /\ drafts'[d].lead = drafts[d].lead
       /\ drafts'[d].status = "approved" => drafts[d].status = "approved" \/ d \in reopened'
DraftsAged ==
  /\ NoneOpened
  /\ \A d \in DraftIds :
       /\ drafts'[d].row = "pending" => drafts[d].row = "pending"
       /\ drafts'[d].status = "deleted" /\ drafts'[d].row = "pending" => drafts[d].status = "deleted"

LEMMA DraftsStay == ASSUME RowsTyped, drafts' = drafts PROVE DraftsAged
BY DEF RowsTyped, NoneOpened, DraftsAged, DraftIds

LEMMA DraftWritten ==
    ASSUME RowsTyped, NEW d \in DraftIds, NEW row \in DraftRow,
           drafts' = [drafts EXCEPT ![d] = row]
    PROVE  /\ drafts' \in Seq(DraftRow) /\ Len(drafts') = Len(drafts)
           /\ \A e \in DraftIds : drafts'[e] = IF e = d THEN row ELSE drafts[e]
BY ExceptSeq DEF RowsTyped, DraftIds

LEMMA RemoveAges ==
    ASSUME RowsTyped, NEW c \in Campaign, NEW l \in Lead, RemoveMember(c, l)
    PROVE  /\ DraftsAged
           /\ \A d \in DraftsOf(c, l) : drafts'[d].row # "pending"
<1> DEFINE f == [d \in DraftIds |-> IF d \in DraftsOf(c, l) /\ drafts[d].row \in Cancellable
                                    THEN [drafts[d] EXCEPT !.row = "cancelled"] ELSE drafts[d]]
<1>1. drafts' = f
  BY DEF RemoveMember
<1>2. \A d \in DraftIds : /\ f[d] \in DraftRow /\ f[d].campaign = drafts[d].campaign
                          /\ f[d].lead = drafts[d].lead /\ f[d].status = drafts[d].status
                          /\ f[d].row = "pending" => drafts[d].row = "pending" /\ d \notin DraftsOf(c, l)
  BY DraftRead DEF DraftRow, Cancellable
<1>3. f \in Seq(DraftRow) /\ Len(f) = Len(drafts)
  <2>1. f \in [1 .. Len(drafts) -> DraftRow] /\ Len(drafts) \in Nat
    BY <1>2, DraftRead DEF DraftIds
  <2> QED
    BY <2>1, BodyMapped
<1>4. DraftsAged
  BY <1>1, <1>2, <1>3 DEF NoneOpened, DraftsAged
<1>5. DraftsOf(c, l) \subseteq DraftIds
  BY DEF DraftsOf
<1> QED
  BY <1>1, <1>2, <1>4, <1>5

LEMMA DropAges ==
    ASSUME RowsTyped, NEW c \in Campaign, DropCampaign(c)
    PROVE  /\ DraftsAged
           /\ \A d \in DraftIds : drafts[d].campaign = c => drafts'[d].row # "pending"
<1> DEFINE f == [d \in DraftIds |-> IF drafts[d].campaign = c
                                    THEN [drafts[d] EXCEPT !.status = "deleted", !.row = "none"]
                                    ELSE drafts[d]]
<1>1. drafts' = f
  BY DEF DropCampaign
<1>2. \A d \in DraftIds : /\ f[d] \in DraftRow /\ f[d].campaign = drafts[d].campaign
                          /\ f[d].lead = drafts[d].lead
                          /\ f[d] = drafts[d] \/ (f[d].status = "deleted" /\ f[d].row = "none")
                          /\ drafts[d].campaign = c => f[d].row = "none"
  BY DraftRead DEF DraftRow
<1>3. f \in Seq(DraftRow) /\ Len(f) = Len(drafts)
  <2>1. f \in [1 .. Len(drafts) -> DraftRow] /\ Len(drafts) \in Nat
    BY <1>2, DraftRead DEF DraftIds
  <2> QED
    BY <2>1, BodyMapped
<1>4. DraftsAged
  BY <1>1, <1>2, <1>3 DEF NoneOpened, DraftsAged
<1> QED
  BY <1>1, <1>2, <1>4

Processed(d) == {[drafts[d] EXCEPT !.row = "sent", !.status = "sent", !.delivered = TRUE],
                 [drafts[d] EXCEPT !.row = "sent"], [drafts[d] EXCEPT !.row = "blocked"]}

LEMMA ProcessAges ==
    ASSUME RowsTyped, NEW d \in DraftIds, ProcessItem(d)
    PROVE  DraftsAged
<1>1. drafts[d] \in DraftRow
  BY DraftRead
<1>2. PICK row \in Processed(d) : drafts' = [drafts EXCEPT ![d] = row]
  BY DEF ProcessItem, Processed
<1>3. /\ row \in DraftRow /\ row.campaign = drafts[d].campaign /\ row.lead = drafts[d].lead
      /\ row.status = "approved" => drafts[d].status = "approved"
      /\ row.row # "pending"
  BY <1>1, <1>2 DEF DraftRow, Processed
<1>4. /\ drafts' \in Seq(DraftRow) /\ Len(drafts') = Len(drafts)
      /\ \A e \in DraftIds : drafts'[e] = IF e = d THEN row ELSE drafts[e]
  BY <1>2, <1>3, DraftWritten
<1> QED
  BY <1>3, <1>4 DEF NoneOpened, DraftsAged

-----------------------------------------------------------------------------
(* The steps of the users keep the types                                   *)

(* What a request of a user does to the rest.                              *)
UserEffect ==
  /\ statusOf' \in [Campaign -> CampaignStatus]
  /\ \A c \in Campaign : statusOf'[c] # "deleted" => statusOf[c] # "deleted"
  /\ members' \in SUBSET (Campaign \X Lead) /\ members \subseteq members'
  /\ act' \in [Tab -> ActRow]
  /\ JobsKept
  /\ UNCHANGED <<drafts, hook, raced, overtaken>>

LEMMA JobsStay == ASSUME RowsTyped, jobsOf' = jobsOf PROVE JobsKept
BY DEF RowsTyped, JobsKept

LEMMA UserStepEffect ==
    ASSUME RowsTyped, NEW t \in Tab, UserStep(t)
    PROVE  UserEffect
<1> DEFINE c == act[t].campaign
<1>1. act[t] \in ActRow /\ c \in Campaign /\ act[t].lead \in Lead /\ statusOf[c] \in CampaignStatus
  BY DEF RowsTyped, ActRow
<1>2. ASSUME NEW what \in {"active", "paused", "add"}, NEW d \in Campaign, NEW l \in Lead,
             Ask(t, what, d, l)
      PROVE  UserEffect
  <2>1. [what |-> what, campaign |-> d, lead |-> l, read |-> statusOf[d]] \in ActRow
    BY DEF RowsTyped, ActRow
  <2> QED
    BY <1>2, <2>1, JobsStay DEF Ask, UserEffect, RowsTyped
<1>3. CASE WriteStatus(t)
  <2>1. act' \in [Tab -> ActRow] /\ UNCHANGED <<members, drafts, hook, raced, overtaken>>
    BY <1>3, FreeRows DEF WriteStatus, RowsTyped
  <2>2. CASE statusOf[c] = "deleted"
    BY <1>3, <2>1, <2>2, JobsStay DEF WriteStatus, UserEffect, RowsTyped
  <2>3. CASE statusOf[c] # "deleted"
    <3>1. statusOf' = [statusOf EXCEPT ![c] = act[t].what] /\ act[t].what \in {"active", "paused"}
      BY <1>3, <2>3 DEF WriteStatus
    <3>2. jobsOf' = jobsOf \/ StartDrafting(c)
      BY <1>3, <2>3 DEF WriteStatus
    <3>3. JobsKept
      BY <1>1, <3>2, JobsStay, LaunchJobs
    <3>4. /\ statusOf' \in [Campaign -> CampaignStatus]
          /\ \A d \in Campaign : statusOf'[d] # "deleted" => statusOf[d] # "deleted"
      BY <1>1, <2>3, <3>1 DEF RowsTyped, CampaignStatus
    <3> QED
      BY <2>1, <3>3, <3>4 DEF UserEffect, RowsTyped
  <2> QED
    BY <2>2, <2>3
<1>4. CASE CheckAdd(t)
  <2>1. [act[t] EXCEPT !.what = "join"] \in ActRow
    BY <1>1 DEF ActRow
  <2>2. act' \in [Tab -> ActRow]
    BY <1>4, <2>1, FreeRows DEF CheckAdd, RowsTyped
  <2> QED
    BY <1>4, <2>2, JobsStay DEF CheckAdd, UserEffect, RowsTyped
<1>5. CASE JoinCampaign(t)
  <2>1. act' \in [Tab -> ActRow] /\ UNCHANGED <<statusOf, drafts, hook, raced, overtaken>>
    BY <1>5, FreeRows DEF JoinCampaign, RowsTyped
  <2>2. members' = members \/ members' = members \cup {<<c, act[t].lead>>}
    BY <1>5 DEF JoinCampaign
  <2>3. jobsOf' = jobsOf \/ StartDrafting(c)
    BY <1>5 DEF JoinCampaign
  <2>4. JobsKept
    BY <1>1, <2>3, JobsStay, LaunchJobs
  <2> QED
    BY <1>1, <2>1, <2>2, <2>4 DEF UserEffect, RowsTyped
<1> QED
  BY <1>2, <1>3, <1>4, <1>5, FreeRows DEF UserStep, ReadStatus, ReadForAdd, NoAct, ActRow

LEMMA PauseEffect ==
    ASSUME RowsTyped, NEW c \in Campaign, NEW next \in {"active", "paused"}, PauseResume(c, next)
    PROVE  UserEffect
BY JobsStay DEF PauseResume, UserEffect, RowsTyped, CampaignStatus

-----------------------------------------------------------------------------
(* The steps of the jobs and of the webhook                                *)

(* Each request is free, where it was, or of a lead in the hand of a job;  *)
(* none creates or queues that did not.                                    *)
HookFollows ==
  /\ hook' \in [Hook -> EventRow]
  /\ \A g \in Hook : hook'[g].stage # "free" =>
       \/ /\ hook[g].stage # "free"
          /\ hook'[g].campaign = hook[g].campaign /\ hook'[g].lead = hook[g].lead
       \/ \E j \in 1 .. Len(jobsOf) :
            hook'[g].campaign = jobsOf[j].campaign /\ hook'[g].lead \in jobsOf[j].hand
HookNoFurther ==
  \A g \in Hook : hook'[g].stage \in {"create", "queue"} => hook'[g] = hook[g]

LEMMA HookStays == ASSUME RowsTyped, hook' = hook PROVE HookFollows /\ HookNoFurther
BY DEF RowsTyped, HookFollows, HookNoFurther

LEMMA HookFreed ==
    ASSUME RowsTyped, NEW h \in Hook, HookDone(h)
    PROVE  JobsKept /\ HookFollows /\ HookNoFurther
<1>1. JobsKept /\ hook' = [hook EXCEPT ![h] = NoEvent] /\ hook' \in [Hook -> EventRow]
  BY HookDoneKeeps
<1>2. \A g \in Hook : hook'[g] = IF g = h THEN NoEvent ELSE hook[g]
  BY <1>1 DEF RowsTyped
<1>3. NoEvent.stage = "free"
  BY DEF NoEvent
<1> QED
  BY <1>1, <1>2, <1>3 DEF HookFollows, HookNoFurther

(* What a job does to the rest.                                            *)
JobEffect ==
  /\ JobsKept /\ HookFollows /\ HookNoFurther
  /\ UNCHANGED <<statusOf, members, drafts, act, raced, overtaken>>

LEMMA DraftJobEffect ==
    ASSUME RowsTyped, NEW j \in 1 .. Len(jobsOf), DraftJobStep(j)
    PROVE  JobEffect
<1>1. JobsKept
  BY JobStepKeeps DEF DraftJobStep
<1>2. CASE ReadCampaign(j) \/ TakeLead(j) \/ CutJob(j) \/ AnswerLate(j)
  BY <1>1, <1>2, HookStays DEF ReadCampaign, TakeLead, CutJob, AnswerLate, JobEffect
<1>3. ASSUME NEW h \in Hook, PostDraft(j, h) PROVE JobEffect
  <2>1. PICK l \in jobsOf[j].hand :
          hook' = [hook EXCEPT ![h] = [NoEvent EXCEPT !.stage = "check",
                                         !.campaign = jobsOf[j].campaign, !.lead = l]]
    BY <1>3 DEF PostDraft
  <2> DEFINE row == [NoEvent EXCEPT !.stage = "check", !.campaign = jobsOf[j].campaign, !.lead = l]
  <2>2. jobsOf[j].campaign \in Campaign /\ l \in Lead
    BY JobRead DEF JobRow
  <2>3. row \in EventRow /\ row.stage = "check" /\ row.campaign = jobsOf[j].campaign /\ row.lead = l
    BY <2>2, FreeRows DEF EventRow
  <2>4. hook' \in [Hook -> EventRow] /\ \A g \in Hook : hook'[g] = IF g = h THEN row ELSE hook[g]
    BY <2>1, <2>3 DEF RowsTyped
  <2>5. HookFollows /\ HookNoFurther
    BY <2>3, <2>4 DEF HookFollows, HookNoFurther
  <2> QED
    BY <1>1, <1>3, <2>5 DEF PostDraft, JobEffect
<1> QED
  BY <1>2, <1>3 DEF DraftJobStep

(* CheckDraft goes on, or ends the request.                                *)
LEMMA CheckEffect ==
    ASSUME RowsTyped, NEW h \in Hook, CheckDraft(h)
    PROVE  /\ JobsKept /\ HookFollows
           /\ \A g \in Hook : hook'[g].stage = "queue" => hook'[g] = hook[g]
           /\ UNCHANGED <<statusOf, members, drafts, act, overtaken>>
<1>1. CASE HookDone(h)
  BY <1>1, HookFreed DEF CheckDraft, HookNoFurther
<1>2. CASE ~HookDone(h)
  <2> DEFINE row == [hook[h] EXCEPT !.stage = "create"]
  <2>1. hook[h] \in EventRow
    BY DEF RowsTyped
  <2>2. row \in EventRow /\ row.stage = "create" /\ row.campaign = hook[h].campaign
        /\ row.lead = hook[h].lead
    BY <2>1 DEF EventRow
  <2>3. hook[h].stage = "check" /\ hook' = [hook EXCEPT ![h] = row] /\ jobsOf' = jobsOf
    BY <1>2 DEF CheckDraft
  <2>4. hook' \in [Hook -> EventRow] /\ \A g \in Hook : hook'[g] = IF g = h THEN row ELSE hook[g]
    BY <2>2, <2>3 DEF RowsTyped
  <2>5. HookFollows /\ \A g \in Hook : hook'[g].stage = "queue" => hook'[g] = hook[g]
    BY <2>2, <2>3, <2>4 DEF HookFollows
  <2> QED
    BY <2>3, <2>5, JobsStay DEF CheckDraft
<1> QED
  BY <1>1, <1>2

(* CreateDraft appends the draft, unless the campaign is gone.             *)
NewDraft(h) == [campaign |-> hook[h].campaign, lead |-> hook[h].lead, status |-> "approved", row |-> "none",
                delivered |-> FALSE]
Appended(h) ==
  /\ drafts' \in Seq(DraftRow) /\ Len(drafts') = Len(drafts) + 1
  /\ drafts'[Len(drafts) + 1] = NewDraft(h)
  /\ \A d \in DraftIds : drafts'[d] = drafts[d]

LEMMA CreateEffect ==
    ASSUME RowsTyped, NEW h \in Hook, CreateDraft(h), statusOf[hook[h].campaign] # "deleted"
    PROVE  /\ Appended(h) /\ JobsKept /\ HookFollows
           /\ hook[h].stage = "create"
           /\ \A g \in Hook : g # h => hook'[g] = hook[g]
           /\ hook'[h].stage = "queue" /\ hook'[h].draft = Len(drafts) + 1
           /\ hook'[h].campaign = hook[h].campaign /\ hook'[h].lead = hook[h].lead
<1>1. hook[h] \in EventRow /\ NewDraft(h) \in DraftRow /\ Len(drafts) \in Nat
  BY DraftRead DEF RowsTyped, EventRow, NewDraft, DraftRow
<1>2. drafts' = Append(drafts, NewDraft(h))
  BY DEF CreateDraft, NewDraft
<1>3. Appended(h)
  BY <1>1, <1>2, AppendProperties DEF Appended, RowsTyped, DraftIds
<1> DEFINE row == [hook[h] EXCEPT !.stage = "queue", !.draft = Len(drafts) + 1]
<1>4. hook' = [hook EXCEPT ![h] = row] /\ hook[h].stage = "create" /\ jobsOf' = jobsOf
  BY <1>1 DEF CreateDraft, EventRow
<1>5. row \in EventRow /\ row.stage = "queue" /\ row.draft = Len(drafts) + 1
      /\ row.campaign = hook[h].campaign /\ row.lead = hook[h].lead
  <2> DEFINE next == Len(drafts) + 1
  <2>1. next \in Nat
    BY <1>1
  <2> HIDE DEF next
  <2>2. /\ [hook[h] EXCEPT !.stage = "queue", !.draft = next] \in EventRow
        /\ [hook[h] EXCEPT !.stage = "queue", !.draft = next].draft = next
    BY <1>1, <2>1 DEF EventRow
  <2> QED
    BY <1>1, <2>2 DEF EventRow, next
<1>6. hook' \in [Hook -> EventRow] /\ \A g \in Hook : hook'[g] = IF g = h THEN row ELSE hook[g]
  BY <1>4, <1>5 DEF RowsTyped
<1>7. HookFollows
  BY <1>4, <1>5, <1>6 DEF HookFollows
<1> QED
  BY <1>3, <1>4, <1>5, <1>6, <1>7, JobsStay

(* QueueDraft writes the row of the draft it made, or nothing.             *)
LEMMA QueueEffect ==
    ASSUME RowsTyped, NEW h \in Hook, QueueDraft(h), hook[h].draft \in DraftIds
    PROVE  /\ NoneOpened /\ JobsKept /\ HookFollows /\ HookNoFurther
           /\ \A e \in DraftIds :
                \/ drafts'[e] = drafts[e]
                \/ /\ e = hook[h].draft /\ drafts'[e].status # "deleted"
                   /\ statusOf[hook[h].campaign] = "active"
<1> DEFINE d == hook[h].draft
<1>1. JobsKept /\ HookFollows /\ HookNoFurther
  BY HookFreed DEF QueueDraft
<1>2. CASE drafts' = drafts
  BY <1>1, <1>2 DEF NoneOpened, RowsTyped, DraftIds
<1>3. CASE drafts' # drafts
  <2> DEFINE row == [drafts[d] EXCEPT !.row = "pending"]
  <2>1. drafts' = [drafts EXCEPT ![d] = row] /\ drafts[d].status # "deleted"
        /\ statusOf[hook[h].campaign] = "active"
    BY <1>3 DEF QueueDraft, CanQueue
  <2>2. row \in DraftRow /\ row.campaign = drafts[d].campaign /\ row.lead = drafts[d].lead
        /\ row.status = drafts[d].status
    BY DraftRead DEF DraftRow
  <2>3. /\ drafts' \in Seq(DraftRow) /\ Len(drafts') = Len(drafts)
        /\ \A e \in DraftIds : drafts'[e] = IF e = d THEN row ELSE drafts[e]
    BY <2>1, <2>2, DraftWritten
  <2> QED
    BY <1>1, <2>1, <2>2, <2>3 DEF NoneOpened
<1> QED
  BY <1>2, <1>3

(* A draft stays, but for those of a deleted campaign.                     *)
DraftsLast ==
  \A d \in DraftIds :
    /\ d \in DraftIds' /\ drafts'[d].campaign = drafts[d].campaign /\ drafts'[d].lead = drafts[d].lead
    /\ drafts[d].status # "deleted" /\ statusOf'[drafts[d].campaign] # "deleted" => drafts'[d].status # "deleted"

LEMMA LastSame == drafts' = drafts => DraftsLast
BY DEF DraftsLast, DraftIds

LEMMA LastWritten ==
    ASSUME RowsTyped, NEW d \in DraftIds, NEW row \in DraftRow, drafts' = [drafts EXCEPT ![d] = row],
           row.campaign = drafts[d].campaign, row.lead = drafts[d].lead, row.status # "deleted" \/ row.status = drafts[d].status
    PROVE  DraftsLast
<1>1. /\ Len(drafts') = Len(drafts)
      /\ \A e \in DraftIds : drafts'[e] = IF e = d THEN row ELSE drafts[e]
  BY DraftWritten
<1> QED
  BY <1>1 DEF DraftsLast, DraftIds

(* A draft written by hand starts a call of createDraft that no job waits  *)
(* for, of a member or recorded as overtaken.                              *)
HandWritten ==
  /\ hook' \in [Hook -> EventRow] /\ HookNoFurther /\ overtaken \subseteq overtaken'
  /\ \A g \in Hook :
       \/ hook'[g] = hook[g]
       \/ /\ hook[g].stage = "free" /\ hook'[g].draft = 0
          /\ <<hook'[g].campaign, hook'[g].lead>> \in members \cup overtaken'
  /\ UNCHANGED <<statusOf, members, drafts, act, jobsOf, tried, excused, raced>>

LEMMA WriteEffect ==
    ASSUME RowsTyped, NEW h \in Hook, NEW c \in Campaign, NEW l \in Lead, WriteByHand(h, c, l)
    PROVE  HandWritten
<1> DEFINE row == [NoEvent EXCEPT !.stage = "check", !.campaign = c, !.lead = l]
<1>1. row \in EventRow /\ row.stage = "check" /\ row.campaign = c /\ row.lead = l /\ row.draft = 0
  BY FreeRows DEF EventRow, NoEvent
<1>2. hook' = [hook EXCEPT ![h] = row] /\ hook[h].stage = "free"
  BY DEF WriteByHand
<1>3. /\ <<c, l>> \in members \cup overtaken' /\ overtaken \subseteq overtaken'
      /\ UNCHANGED <<statusOf, members, drafts, act, jobsOf, tried, excused, raced>>
  BY DEF WriteByHand
<1> HIDE DEF row
<1>4. hook' \in [Hook -> EventRow] /\ \A g \in Hook : hook'[g] = IF g = h THEN row ELSE hook[g]
  BY <1>1, <1>2 DEF RowsTyped
<1>5. HookNoFurther
  BY <1>1, <1>4 DEF HookNoFurther
<1> QED
  BY <1>1, <1>2, <1>3, <1>4, <1>5 DEF HandWritten

-----------------------------------------------------------------------------
(* The reviews of drafts                                                   *)

ReviewRow == [stage : {"free", "ask", "mark", "queue"}, draft : Nat]
(* A review that is in progress is of a draft.                             *)
InReview ==
  /\ review \in [Reviewer -> ReviewRow] /\ reopened \subseteq DraftIds
  /\ \A r \in Reviewer : review[r].draft \in 0 .. Len(drafts) /\ (review[r].stage # "free" => review[r].draft # 0)

(* A review opens drafts that it records, and queues those of members or   *)
(* that it records.                                                        *)
Reviewed ==
  /\ NoneOpened /\ DraftsLast
  /\ \A d \in DraftIds :
       /\ drafts'[d].row = "pending" => \/ drafts[d].row = "pending"
                                        \/ <<drafts[d].campaign, drafts[d].lead>> \in members \cup overtaken'
       /\ drafts'[d].status = "deleted" => drafts'[d] = drafts[d]
  /\ reopened \subseteq reopened' /\ overtaken \subseteq overtaken' /\ InReview'
  /\ UNCHANGED <<statusOf, members, act, jobsOf, hook, tried, excused, raced>>

LEMMA ReviewWrites ==
    ASSUME RowsTyped, NEW d \in DraftIds, NEW row \in DraftRow, drafts' = [drafts EXCEPT ![d] = row],
           row.campaign = drafts[d].campaign, row.lead = drafts[d].lead, row.status # "deleted",
           row.status = "approved" => drafts[d].status = "approved" \/ d \in reopened',
           row.row = "pending" => \/ drafts[d].row = "pending"
                                  \/ <<drafts[d].campaign, drafts[d].lead>> \in members \cup overtaken'
    PROVE  /\ NoneOpened /\ DraftsLast /\ Len(drafts') = Len(drafts)
           /\ \A e \in DraftIds :
                /\ drafts'[e].row = "pending" => \/ drafts[e].row = "pending"
                                                 \/ <<drafts[e].campaign, drafts[e].lead>> \in members \cup overtaken'
                /\ drafts'[e].status = "deleted" => drafts'[e] = drafts[e]
<1>1. /\ drafts' \in Seq(DraftRow) /\ Len(drafts') = Len(drafts)
      /\ \A e \in DraftIds : drafts'[e] = IF e = d THEN row ELSE drafts[e]
  BY DraftWritten
<1>2. DraftsLast
  BY LastWritten
<1> QED
  BY <1>1, <1>2 DEF NoneOpened

LEMMA ReviewKeepsDrafts ==
    ASSUME RowsTyped, drafts' = drafts
    PROVE  /\ NoneOpened /\ DraftsLast /\ Len(drafts') = Len(drafts)
           /\ \A e \in DraftIds :
                /\ drafts'[e].row = "pending" => \/ drafts[e].row = "pending"
                                                 \/ <<drafts[e].campaign, drafts[e].lead>> \in members \cup overtaken'
                /\ drafts'[e].status = "deleted" => drafts'[e] = drafts[e]
BY LastSame, DraftsStay DEF DraftsAged

LEMMA ReopensIs ==
    ASSUME RowsTyped, NEW d \in DraftIds, Reopens(d), overtaken' = overtaken
    PROVE  /\ NoneOpened /\ DraftsLast /\ Len(drafts') = Len(drafts)
           /\ \A e \in DraftIds :
                /\ drafts'[e].row = "pending" => \/ drafts[e].row = "pending"
                                                 \/ <<drafts[e].campaign, drafts[e].lead>> \in members \cup overtaken'
                /\ drafts'[e].status = "deleted" => drafts'[e] = drafts[e]
           /\ reopened \subseteq reopened' /\ reopened' \subseteq reopened \cup {d}
<1> DEFINE row == [drafts[d] EXCEPT !.status = "approved"]
<1>1. drafts' = [drafts EXCEPT ![d] = row] /\ (drafts[d].status = "approved" \/ d \in reopened')
  BY DEF Reopens, Open
<1>2. /\ row \in DraftRow /\ row.campaign = drafts[d].campaign /\ row.lead = drafts[d].lead
      /\ row.status = "approved" /\ row.row = drafts[d].row
  BY DraftRead DEF DraftRow
<1>3. reopened \subseteq reopened' /\ reopened' \subseteq reopened \cup {d}
  BY DEF Reopens
<1> HIDE DEF row
<1> QED
  BY <1>1, <1>2, <1>3, ReviewWrites

(* Where a review is after its step.                                       *)
LEMMA ReviewPut ==
    ASSUME InReview, NEW r \in Reviewer, NEW d \in 0 .. Len(drafts), NEW stage \in {"free", "ask", "mark", "queue"},
           stage = "free" \/ d # 0, ReviewAt(r, stage, d),
           Len(drafts) \in Nat, Len(drafts') = Len(drafts), reopened' \subseteq reopened \cup DraftIds
    PROVE  InReview'
<1> DEFINE row == [stage |-> stage, draft |-> d]
<1>1. row \in ReviewRow /\ row.stage = stage /\ row.draft = d
  BY DEF ReviewRow
<1>2. review' = [review EXCEPT ![r] = row]
  BY DEF ReviewAt
<1> HIDE DEF row
<1>3. review' \in [Reviewer -> ReviewRow] /\ \A q \in Reviewer : review'[q] = IF q = r THEN row ELSE review[q]
  BY <1>1, <1>2 DEF InReview
<1>4. DraftIds' = DraftIds
  BY DEF DraftIds
<1> QED
  BY <1>1, <1>3, <1>4 DEF InReview

LEMMA ReviewEffect == RowsTyped /\ InReview /\ ReviewNext => Reviewed
<1> SUFFICES ASSUME RowsTyped, InReview, ReviewNext PROVE Reviewed
  OBVIOUS
<1> DEFINE KeptAll == /\ NoneOpened /\ DraftsLast /\ Len(drafts') = Len(drafts)
                   /\ \A e \in DraftIds :
                        /\ drafts'[e].row = "pending" => \/ drafts[e].row = "pending"
                                                         \/ <<drafts[e].campaign, drafts[e].lead>> \in members \cup overtaken'
                        /\ drafts'[e].status = "deleted" => drafts'[e] = drafts[e]
<1>0. /\ UNCHANGED <<statusOf, members, act, jobsOf, hook, tried, excused, raced>>
      /\ Len(drafts) \in Nat
  BY DraftRead DEF ReviewNext
<1>1. ASSUME KeptAll, reopened \subseteq reopened', overtaken \subseteq overtaken', InReview' PROVE Reviewed
  BY <1>0, <1>1 DEF Reviewed
<1>2. \A d \in DraftIds : d \in 0 .. Len(drafts) /\ d # 0
  BY <1>0 DEF DraftIds
<1>3. \A r \in Reviewer : review[r].stage # "free" => review[r].draft \in DraftIds
  BY <1>0 DEF InReview, DraftIds
<1>4. 0 \in 0 .. Len(drafts)
  BY <1>0
<1>5. drafts' = drafts => KeptAll
  BY ReviewKeepsDrafts
<1>6. ASSUME NEW d \in DraftIds, Reopens(d), overtaken' = overtaken
      PROVE  KeptAll /\ reopened \subseteq reopened' /\ reopened' \subseteq reopened \cup DraftIds
  BY <1>6, ReopensIs
<1> HIDE DEF KeptAll
<1>7. KeptAll => Len(drafts') = Len(drafts)
  BY DEF KeptAll
<1>8. ASSUME NEW r \in Reviewer, NEW d \in DraftIds, Approve(r, d) PROVE Reviewed
  <2>1. Reopens(d) /\ ReviewAt(r, "ask", d) /\ overtaken' = overtaken
    BY <1>8 DEF Approve
  <2>2. KeptAll /\ reopened \subseteq reopened' /\ reopened' \subseteq reopened \cup DraftIds
    BY <1>6, <2>1
  <2>3. InReview'
    BY <1>0, <1>2, <1>7, <2>1, <2>2, ReviewPut
  <2> QED
    BY <1>1, <2>1, <2>2, <2>3
<1>9. ASSUME NEW r \in Reviewer, NEW d \in DraftIds, AskFirst(r, d) PROVE Reviewed
  <2>1. /\ ReviewAt(r, "mark", d) \/ ReviewAt(r, "queue", d)
        /\ drafts' = drafts /\ reopened' = reopened /\ overtaken' = overtaken
    BY <1>9 DEF AskFirst
  <2>2. InReview'
    BY <1>0, <1>2, <2>1, ReviewPut
  <2> QED
    BY <1>1, <1>5, <2>1, <2>2
<1>10. ASSUME NEW r \in Reviewer, AskToQueue(r) PROVE Reviewed
  <2>1. /\ ReviewAt(r, "queue", review[r].draft) \/ ReviewAt(r, "free", 0)
        /\ drafts' = drafts /\ reopened' = reopened /\ overtaken' = overtaken /\ review[r].draft \in DraftIds
    BY <1>3, <1>10 DEF AskToQueue
  <2>2. InReview'
    BY <1>0, <1>2, <1>4, <2>1, ReviewPut
  <2> QED
    BY <1>1, <1>5, <2>1, <2>2
<1>11. ASSUME NEW r \in Reviewer, MarkApproved(r) PROVE Reviewed
  <2> DEFINE d == review[r].draft
  <2>1. d \in DraftIds /\ overtaken' = overtaken
    BY <1>3, <1>11 DEF MarkApproved
  <2>2. CASE drafts' = drafts /\ reopened' = reopened /\ ReviewAt(r, "free", 0)
    <3>1. InReview'
      BY <1>0, <1>4, <2>2, ReviewPut
    <3> QED
      BY <1>1, <1>5, <2>1, <2>2, <3>1
  <2>3. CASE Reopens(d) /\ ReviewAt(r, "queue", d)
    <3>1. KeptAll /\ reopened \subseteq reopened' /\ reopened' \subseteq reopened \cup DraftIds
      BY <1>6, <2>1, <2>3
    <3>2. InReview'
      BY <1>0, <1>2, <1>7, <2>1, <2>3, <3>1, ReviewPut
    <3> QED
      BY <1>1, <2>1, <3>1, <3>2
  <2> QED
    BY <1>11, <2>2, <2>3 DEF MarkApproved
<1>12. ASSUME NEW r \in Reviewer, QueueAgain(r) PROVE Reviewed
  <2> DEFINE d == review[r].draft
             pair == <<drafts[d].campaign, drafts[d].lead>>
  <2>1. d \in DraftIds /\ ReviewAt(r, "free", 0) /\ reopened' = reopened
    BY <1>3, <1>12 DEF QueueAgain
  <2>2. KeptAll /\ overtaken \subseteq overtaken'
    <3>1. CASE drafts' = drafts /\ overtaken' = overtaken
      BY <1>5, <3>1
    <3>2. CASE /\ drafts' = [drafts EXCEPT ![d].row = "pending"] /\ drafts[d].status # "deleted"
               /\ overtaken' = IF pair \in members THEN overtaken ELSE overtaken \cup {pair}
      <4> DEFINE row == [drafts[d] EXCEPT !.row = "pending"]
      <4>1. drafts' = [drafts EXCEPT ![d] = row]
        BY <3>2
      <4>2. /\ row \in DraftRow /\ row.campaign = drafts[d].campaign /\ row.lead = drafts[d].lead
            /\ row.status = drafts[d].status
        BY <2>1, DraftRead DEF DraftRow
      <4>3. pair \in members \cup overtaken' /\ overtaken \subseteq overtaken'
        BY <3>2
      <4> HIDE DEF row
      <4> QED
        BY <2>1, <3>2, <4>1, <4>2, <4>3, ReviewWrites DEF KeptAll
    <3> QED
      BY <1>12, <3>1, <3>2 DEF QueueAgain
  <2>3. InReview'
    BY <1>0, <1>4, <1>7, <2>1, <2>2, ReviewPut
  <2> QED
    BY <1>1, <2>1, <2>2, <2>3
<1>13. ASSUME Len(drafts') = Len(drafts), reopened' \subseteq reopened \cup DraftIds, review' = review PROVE InReview'
  BY <1>13 DEF InReview, DraftIds
<1>14. ASSUME NEW d \in DraftIds, EditDraft(d) PROVE Reviewed
  <2>1. Reopens(d) /\ review' = review /\ overtaken' = overtaken
    BY <1>14 DEF EditDraft
  <2>2. KeptAll /\ reopened \subseteq reopened' /\ reopened' \subseteq reopened \cup DraftIds
    BY <1>6, <2>1
  <2> QED
    BY <1>1, <1>7, <1>13, <2>1, <2>2
<1>15. ASSUME NEW d \in DraftIds, RejectDraft(d) PROVE Reviewed
  <2> DEFINE row == [drafts[d] EXCEPT !.status = "cancelled"]
  <2>1. /\ drafts' = [drafts EXCEPT ![d] = row] /\ UNCHANGED <<review, reopened, overtaken>>
    BY <1>15 DEF RejectDraft, reviewVars
  <2>2. /\ row \in DraftRow /\ row.campaign = drafts[d].campaign /\ row.lead = drafts[d].lead
        /\ row.status = "cancelled" /\ row.row = drafts[d].row
    BY DraftRead DEF DraftRow
  <2> HIDE DEF row
  <2>3. KeptAll
    BY <2>1, <2>2, ReviewWrites DEF KeptAll
  <2> QED
    BY <1>1, <1>7, <1>13, <2>1, <2>3
<1> QED
  BY <1>8, <1>9, <1>10, <1>11, <1>12, <1>14, <1>15 DEF ReviewNext, ReviewStep

(* Every step keeps the drafts there are.                                  *)

(* The draft that an event is about to queue is the one it made.           *)
Held ==
  \A h \in Hook : hook[h].stage = "queue" =>
    /\ hook[h].draft \in DraftIds
    /\ drafts[hook[h].draft].campaign = hook[h].campaign
    /\ drafts[hook[h].draft].lead = hook[h].lead

LEMMA LastStep == RowsTyped /\ Held /\ InReview /\ [DraftsNext]_draftsVars => DraftsLast
<1> SUFFICES ASSUME RowsTyped, Held, InReview, [DraftsNext]_draftsVars PROVE DraftsLast
  OBVIOUS
<1>11. CASE ReviewNext
  BY <1>11, ReviewEffect DEF Reviewed
<1>12. ASSUME NEW h \in Hook, NEW c \in Campaign, NEW l \in Lead, WriteByHand(h, c, l) PROVE drafts' = drafts
  BY <1>12 DEF WriteByHand
<1>1. ASSUME NEW t \in Tab, UserStep(t) PROVE drafts' = drafts
  BY <1>1, UserStepEffect DEF UserEffect
<1>2. ASSUME NEW j \in 1 .. Len(jobsOf), DraftJobStep(j) PROVE drafts' = drafts
  BY <1>2, DraftJobEffect DEF JobEffect
<1>3. ASSUME NEW c \in Campaign, DropCampaign(c) PROVE DraftsLast
  <2>1. Len(drafts') = Len(drafts)
    BY <1>3, DropAges DEF DraftsAged, NoneOpened
  <2>2. drafts' = [d \in DraftIds |-> IF drafts[d].campaign = c
                                      THEN [drafts[d] EXCEPT !.status = "deleted", !.row = "none"]
                                      ELSE drafts[d]]
        /\ statusOf' = [statusOf EXCEPT ![c] = "deleted"]
    BY <1>3 DEF DropCampaign
  <2>3. statusOf'[c] = "deleted"
    BY <2>2 DEF RowsTyped
  <2>4. \A d \in DraftIds : /\ drafts'[d].campaign = drafts[d].campaign /\ drafts'[d].lead = drafts[d].lead
                            /\ drafts[d].campaign # c => drafts'[d] = drafts[d]
    BY <2>2, DraftRead DEF DraftRow
  <2> QED
    BY <2>1, <2>3, <2>4 DEF DraftsLast, DraftIds
<1>4. ASSUME NEW c \in Campaign, NEW l \in Lead, RemoveMember(c, l) PROVE DraftsLast
  <2>1. Len(drafts') = Len(drafts)
    BY <1>4, RemoveAges DEF DraftsAged, NoneOpened
  <2>2. drafts' = [d \in DraftIds |-> IF d \in DraftsOf(c, l) /\ drafts[d].row \in Cancellable
                                      THEN [drafts[d] EXCEPT !.row = "cancelled"] ELSE drafts[d]]
    BY <1>4 DEF RemoveMember
  <2>3. \A d \in DraftIds : /\ drafts'[d].campaign = drafts[d].campaign /\ drafts'[d].lead = drafts[d].lead
                            /\ drafts'[d].status = drafts[d].status
    BY <2>2, DraftRead DEF DraftRow
  <2> QED
    BY <2>1, <2>3 DEF DraftsLast, DraftIds
<1>5. ASSUME NEW d \in DraftIds, ProcessItem(d) PROVE DraftsLast
  <2>1. PICK row \in Processed(d) : drafts' = [drafts EXCEPT ![d] = row]
    BY <1>5 DEF ProcessItem, Processed
  <2>2. drafts[d] \in DraftRow
    BY DraftRead
  <2>3. /\ row \in DraftRow /\ row.campaign = drafts[d].campaign /\ row.lead = drafts[d].lead
        /\ row.status # "deleted" \/ row.status = drafts[d].status
    BY <2>1, <2>2 DEF DraftRow, Processed
  <2> QED
    BY <2>1, <2>3, LastWritten
<1>6. ASSUME NEW h \in Hook, CheckDraft(h) PROVE drafts' = drafts
  BY <1>6 DEF CheckDraft
<1>7. ASSUME NEW h \in Hook, CreateDraft(h) PROVE DraftsLast
  <2>1. CASE drafts' = drafts
    BY <2>1, LastSame
  <2>2. CASE statusOf[hook[h].campaign] # "deleted"
    <3>1. Appended(h) /\ Len(drafts) \in Nat
      BY <1>7, <2>2, CreateEffect, DraftRead
    <3> QED
      BY <3>1 DEF Appended, DraftsLast, DraftIds
  <2> QED
    BY <1>7, <2>1, <2>2 DEF CreateDraft
<1>8. ASSUME NEW h \in Hook, QueueDraft(h) PROVE DraftsLast
  <2>1. CASE drafts' = drafts
    BY <2>1, LastSame
  <2>2. CASE drafts' # drafts
    <3> DEFINE d == hook[h].draft
               row == [drafts[d] EXCEPT !.row = "pending"]
    <3>1. d \in DraftIds /\ drafts' = [drafts EXCEPT ![d] = row]
      BY <1>8, <2>2 DEF QueueDraft, Held
    <3>2. drafts[d] \in DraftRow
      BY <3>1, DraftRead
    <3>3. row \in DraftRow /\ row.campaign = drafts[d].campaign /\ row.lead = drafts[d].lead
          /\ row.status = drafts[d].status
      BY <3>2 DEF DraftRow
    <3> HIDE DEF row
    <3> QED
      BY <3>1, <3>3, LastWritten
  <2> QED
    BY <2>1, <2>2
<1>9. ASSUME NEW c \in Campaign, PauseResume(c, "active") \/ PauseResume(c, "paused") PROVE drafts' = drafts
  BY <1>9 DEF PauseResume
<1>10. CASE UNCHANGED draftsVars
  BY <1>10, LastSame DEF draftsVars
<1> QED
  BY <1>1, <1>2, <1>3, <1>4, <1>5, <1>6, <1>7, <1>8, <1>9, <1>10, <1>11, <1>12, LastSame
     DEF DraftsNext, CampaignNext, HookStep

-----------------------------------------------------------------------------
(* Every step keeps the types                                              *)

LEMMA TypedStep == RowsTyped /\ InReview /\ DraftsNext => RowsTyped'
<1> SUFFICES ASSUME RowsTyped, InReview, DraftsNext PROVE RowsTyped'
  OBVIOUS
<1>1. ASSUME UserEffect PROVE RowsTyped'
  BY <1>1 DEF UserEffect, JobsKept, RowsTyped
<1>2. ASSUME NEW t \in Tab, UserStep(t) PROVE RowsTyped'
  BY <1>1, <1>2, UserStepEffect
<1>3. ASSUME NEW c \in Campaign, NEW next \in {"active", "paused"}, PauseResume(c, next) PROVE RowsTyped'
  BY <1>1, <1>3, PauseEffect
<1>4. ASSUME NEW c \in Campaign, DropCampaign(c) PROVE RowsTyped'
  <2>1. drafts' \in Seq(DraftRow)
    BY <1>4, DropAges DEF DraftsAged, NoneOpened
  <2>2. statusOf' \in [Campaign -> CampaignStatus]
    BY <1>4 DEF DropCampaign, RowsTyped, CampaignStatus
  <2>3. members' \in SUBSET (Campaign \X Lead)
    BY <1>4 DEF DropCampaign, RowsTyped
  <2> QED
    BY <1>4, <2>1, <2>2, <2>3 DEF DropCampaign, RowsTyped
<1>5. ASSUME NEW c \in Campaign, NEW l \in Lead, RemoveMember(c, l) PROVE RowsTyped'
  <2>1. drafts' \in Seq(DraftRow)
    BY <1>5, RemoveAges DEF DraftsAged, NoneOpened
  <2> QED
    BY <1>5, <2>1 DEF RemoveMember, RowsTyped
<1>6. ASSUME NEW j \in 1 .. Len(jobsOf), DraftJobStep(j) PROVE RowsTyped'
  <2>1. JobEffect
    BY <1>6, DraftJobEffect
  <2> QED
    BY <2>1 DEF JobEffect, JobsKept, HookFollows, RowsTyped
<1>7. ASSUME NEW d \in DraftIds, ProcessItem(d) PROVE RowsTyped'
  <2>1. drafts' \in Seq(DraftRow)
    BY <1>7, ProcessAges DEF DraftsAged, NoneOpened
  <2> QED
    BY <1>7, <2>1 DEF ProcessItem, RowsTyped
<1>8. ASSUME NEW h \in Hook, CheckDraft(h) PROVE RowsTyped'
  <2>1. JobsKept /\ HookFollows /\ UNCHANGED <<statusOf, members, drafts, act>>
    BY <1>8, CheckEffect
  <2> QED
    BY <2>1 DEF JobsKept, HookFollows, RowsTyped
<1>9. ASSUME NEW h \in Hook, CreateDraft(h) PROVE RowsTyped'
  <2>1. drafts' \in Seq(DraftRow) /\ JobsKept /\ HookFollows
    <3>1. CASE statusOf[hook[h].campaign] = "deleted"
      BY <1>9, <3>1, HookFreed DEF CreateDraft, RowsTyped
    <3>2. CASE statusOf[hook[h].campaign] # "deleted"
      BY <1>9, <3>2, CreateEffect DEF Appended
    <3> QED
      BY <3>1, <3>2
  <2> QED
    BY <1>9, <2>1 DEF CreateDraft, JobsKept, HookFollows, RowsTyped
<1>10. ASSUME NEW h \in Hook, QueueDraft(h) PROVE RowsTyped'
  <2> DEFINE d == hook[h].draft
  <2>1. JobsKept /\ HookFollows
    BY <1>10, HookFreed DEF QueueDraft
  <2>2. drafts' \in Seq(DraftRow)
    <3>1. CASE d \in DraftIds
      BY <1>10, <3>1, QueueEffect DEF NoneOpened
    <3>2. CASE d \notin DraftIds
      <4>1. [drafts EXCEPT ![d].row = "pending"] = drafts
        <5>1. drafts \in [DraftIds -> DraftRow]
          BY LenProperties DEF RowsTyped, DraftIds
        <5> QED
          BY <3>2, <5>1
      <4> QED
        BY <1>10, <4>1 DEF QueueDraft, RowsTyped
    <3> QED
      BY <3>1, <3>2
  <2> QED
    BY <1>10, <2>1, <2>2 DEF QueueDraft, JobsKept, HookFollows, RowsTyped
<1>11. ASSUME NEW h \in Hook, NEW c \in Campaign, NEW l \in Lead, WriteByHand(h, c, l) PROVE RowsTyped'
  BY <1>11, WriteEffect DEF HandWritten, RowsTyped
<1>12. CASE ReviewNext
  BY <1>12, ReviewEffect DEF Reviewed, NoneOpened, RowsTyped
<1> QED
  BY <1>2, <1>3, <1>4, <1>5, <1>6, <1>7, <1>8, <1>9, <1>10, <1>11, <1>12 DEF DraftsNext, CampaignNext, HookStep

(* A review in progress is of a draft.                                     *)
LEMMA InReviewStep == RowsTyped /\ Held /\ InReview /\ DraftsNext => InReview'
<1> SUFFICES ASSUME RowsTyped, Held, InReview, DraftsNext PROVE InReview'
  OBVIOUS
<1>1. CASE ReviewNext
  BY <1>1, ReviewEffect DEF Reviewed
<1>2. CASE UNCHANGED reviewVars
  <2>1. Len(drafts) \in Nat /\ Len(drafts') \in Nat
    <3>1. RowsTyped'
      BY TypedStep
    <3> QED
      BY <3>1, LenProperties DEF RowsTyped
  <2>2. DraftIds \subseteq DraftIds'
    BY LastStep DEF DraftsLast
  <2>3. \A n \in 0 .. Len(drafts) : n \in 0 .. Len(drafts')
    BY <2>1, <2>2 DEF DraftIds
  <2> QED
    BY <1>2, <2>2, <2>3 DEF InReview, reviewVars
<1> QED
  BY <1>1, <1>2 DEF DraftsNext

-----------------------------------------------------------------------------
(* One open draft                                                          *)

(* A lead of which no two events were checked side by side has one open    *)
(* draft at most, besides those that users opened again, and none while an *)
(* event is between its check and its draft, which no other event of the   *)
(* lead is then.                                                           *)
FirstOpen(d) == Open(d) /\ d \notin reopened
Single ==
  \A l \in Lead \ raced :
    /\ \A d, e \in DraftIds :
         drafts[d].lead = l /\ FirstOpen(d) /\ drafts[e].lead = l /\ FirstOpen(e) => d = e
    /\ \A h \in Hook : hook[h].stage = "create" /\ hook[h].lead = l =>
         /\ \A g \in Hook : hook[g].stage = "create" /\ hook[g].lead = l => g = h
         /\ \A d \in DraftIds : drafts[d].lead = l => ~FirstOpen(d)

LEMMA SingleStays ==
    ASSUME RowsTyped, Single, NoneOpened, raced \subseteq raced', reopened \subseteq reopened',
           \A g \in Hook : hook'[g].stage = "create" => hook'[g] = hook[g]
    PROVE  Single'
<1> SUFFICES ASSUME NEW l \in Lead \ raced'
             PROVE  /\ \A d, e \in DraftIds' :
                         drafts'[d].lead = l /\ FirstOpen(d)' /\ drafts'[e].lead = l /\ FirstOpen(e)' => d = e
                    /\ \A h \in Hook : hook'[h].stage = "create" /\ hook'[h].lead = l =>
                         /\ \A g \in Hook : hook'[g].stage = "create" /\ hook'[g].lead = l => g = h
                         /\ \A d \in DraftIds' : drafts'[d].lead = l => ~FirstOpen(d)'
  BY DEF Single
<1>1. /\ DraftIds' = DraftIds /\ l \in Lead \ raced
      /\ \A d \in DraftIds : drafts'[d].lead = drafts[d].lead /\ (FirstOpen(d)' => FirstOpen(d))
  BY DEF NoneOpened, DraftIds, FirstOpen, Open
<1> QED
  BY <1>1 DEF Single

LEMMA SingleCampaign == RowsTyped /\ Single /\ CampaignNext /\ reopened' = reopened => Single'
<1> SUFFICES ASSUME RowsTyped, Single, CampaignNext, reopened' = reopened PROVE Single'
  OBVIOUS
<1>1. ASSUME UserEffect PROVE Single'
  BY <1>1, SingleStays, DraftsStay DEF UserEffect, DraftsAged
<1>2. ASSUME NEW t \in Tab, UserStep(t) PROVE Single'
  BY <1>1, <1>2, UserStepEffect
<1>3. ASSUME NEW c \in Campaign, NEW next \in {"active", "paused"}, PauseResume(c, next) PROVE Single'
  BY <1>1, <1>3, PauseEffect
<1>4. ASSUME NEW c \in Campaign, DropCampaign(c) PROVE Single'
  BY <1>4, DropAges, SingleStays DEF DropCampaign, DraftsAged
<1>5. ASSUME NEW c \in Campaign, NEW l \in Lead, RemoveMember(c, l) PROVE Single'
  BY <1>5, RemoveAges, SingleStays DEF RemoveMember, DraftsAged
<1>6. ASSUME NEW j \in 1 .. Len(jobsOf), DraftJobStep(j) PROVE Single'
  BY <1>6, DraftJobEffect, DraftsStay, SingleStays DEF JobEffect, HookNoFurther, DraftsAged
<1>7. ASSUME NEW d \in DraftIds, ProcessItem(d) PROVE Single'
  BY <1>7, ProcessAges, SingleStays DEF ProcessItem, DraftsAged
<1>8. ASSUME NEW h \in Hook, CheckDraft(h) PROVE Single'
  <2> DEFINE l == hook[h].lead
  <2>1. CASE HookDone(h)
    BY <1>8, <2>1, HookFreed, DraftsStay, SingleStays DEF CheckDraft, HookNoFurther, DraftsAged
  <2>2. CASE ~HookDone(h)
    <3>1. /\ CanDraft(hook[h].campaign, l) /\ UNCHANGED drafts
          /\ hook' = [hook EXCEPT ![h].stage = "create"]
          /\ raced' = IF \E g \in Hook : hook[g].stage = "create" /\ hook[g].lead = l
                      THEN raced \cup {l} ELSE raced
      BY <1>8, <2>2 DEF CheckDraft
    <3>2. /\ \A g \in Hook : g # h => hook'[g] = hook[g]
          /\ hook'[h].stage = "create" /\ hook'[h].lead = l
      BY <3>1 DEF RowsTyped, EventRow
    <3>3. \A d \in DraftIds : drafts[d].lead = l => ~FirstOpen(d)
      <4>1. SUFFICES ASSUME NEW d \in DraftIds, drafts[d].lead = l, FirstOpen(d) PROVE FALSE
        OBVIOUS
      <4>2. d \in DraftsOf(drafts[d].campaign, l) /\ drafts[d].campaign \in Campaign
        BY <4>1, DraftRead DEF DraftsOf, FirstOpen, Open, DraftRow
      <4> QED
        BY <3>1, <4>1, <4>2 DEF CanDraft, FirstOpen
    <3>4. /\ DraftIds' = DraftIds /\ \A d \in DraftIds : drafts'[d] = drafts[d] /\ (FirstOpen(d)' <=> FirstOpen(d))
      BY <3>1 DEF DraftIds, FirstOpen, Open
    <3>5. SUFFICES ASSUME NEW m \in Lead \ raced'
                   PROVE  /\ \A d, e \in DraftIds :
                               drafts[d].lead = m /\ FirstOpen(d) /\ drafts[e].lead = m /\ FirstOpen(e) => d = e
                          /\ \A f \in Hook : hook'[f].stage = "create" /\ hook'[f].lead = m =>
                               /\ \A g \in Hook : hook'[g].stage = "create" /\ hook'[g].lead = m => g = f
                               /\ \A d \in DraftIds : drafts[d].lead = m => ~FirstOpen(d)
      BY <3>4 DEF Single
    <3>6. m \in Lead \ raced
      BY <3>1, <3>5
    <3>7. CASE m # l
      BY <3>2, <3>6, <3>7 DEF Single
    <3>8. CASE m = l
      <4>1. \A g \in Hook : ~(hook[g].stage = "create" /\ hook[g].lead = l)
        BY <3>1, <3>5, <3>8
      <4> QED
        BY <3>2, <3>3, <3>8, <4>1
    <3> QED
      BY <3>7, <3>8
  <2> QED
    BY <2>1, <2>2
<1>9. ASSUME NEW h \in Hook, CreateDraft(h) PROVE Single'
  <2> DEFINE n == Len(drafts) + 1
             k == hook[h].lead
  <2>1. CASE statusOf[hook[h].campaign] = "deleted"
    BY <1>9, <2>1, HookFreed, DraftsStay, SingleStays DEF CreateDraft, HookNoFurther, DraftsAged
  <2>2. CASE statusOf[hook[h].campaign] # "deleted"
    <3>1. /\ Appended(h) /\ hook[h].stage = "create"
          /\ \A g \in Hook : g # h => hook'[g] = hook[g]
          /\ hook'[h].stage = "queue" /\ raced' = raced
      BY <1>9, <2>2, CreateEffect DEF CreateDraft
    <3>2. /\ DraftIds' = DraftIds \cup {n} /\ n \notin DraftIds
          /\ \A d \in DraftIds : drafts'[d] = drafts[d] /\ (FirstOpen(d)' <=> FirstOpen(d))
          /\ drafts'[n].lead = k
      BY <3>1, DraftRead DEF Appended, DraftIds, FirstOpen, Open, NewDraft
    <3>3. SUFFICES ASSUME NEW m \in Lead \ raced
                   PROVE  /\ \A d, e \in DraftIds' :
                               drafts'[d].lead = m /\ FirstOpen(d)' /\ drafts'[e].lead = m /\ FirstOpen(e)' => d = e
                          /\ \A f \in Hook : hook'[f].stage = "create" /\ hook'[f].lead = m =>
                               /\ \A g \in Hook : hook'[g].stage = "create" /\ hook'[g].lead = m => g = f
                               /\ \A d \in DraftIds' : drafts'[d].lead = m => ~FirstOpen(d)'
      BY <3>1 DEF Single
    <3> HIDE DEF n
    <3>4. CASE m # k
      BY <3>1, <3>2, <3>4 DEF Single
    <3>5. CASE m = k
      <4>1. /\ \A g \in Hook : hook[g].stage = "create" /\ hook[g].lead = m => g = h
            /\ \A d \in DraftIds : drafts[d].lead = m => ~FirstOpen(d)
        BY <3>1, <3>3, <3>5 DEF Single
      <4> QED
        BY <3>1, <3>2, <4>1
    <3> QED
      BY <3>4, <3>5
  <2> QED
    BY <2>1, <2>2
<1>10. ASSUME NEW h \in Hook, QueueDraft(h) PROVE Single'
  <2> DEFINE d == hook[h].draft
  <2>1. HookNoFurther /\ raced' = raced
    BY <1>10, HookFreed DEF QueueDraft
  <2>2. NoneOpened
    <3>1. CASE d \in DraftIds
      BY <1>10, <3>1, QueueEffect
    <3>2. CASE d \notin DraftIds
      <4>1. [drafts EXCEPT ![d].row = "pending"] = drafts
        <5>1. drafts \in [DraftIds -> DraftRow]
          BY LenProperties DEF RowsTyped, DraftIds
        <5> QED
          BY <3>2, <5>1
      <4> QED
        BY <1>10, <4>1, DraftsStay DEF QueueDraft, DraftsAged
    <3> QED
      BY <3>1, <3>2
  <2> QED
    BY <2>1, <2>2, SingleStays DEF HookNoFurther
<1>11. ASSUME NEW h \in Hook, NEW c \in Campaign, NEW l \in Lead, WriteByHand(h, c, l) PROVE Single'
  BY <1>11, WriteEffect, DraftsStay, SingleStays DEF HandWritten, HookNoFurther, DraftsAged
<1> QED
  BY <1>2, <1>3, <1>4, <1>5, <1>6, <1>7, <1>8, <1>9, <1>10, <1>11 DEF CampaignNext, HookStep

LEMMA SingleStep == RowsTyped /\ InReview /\ Single /\ DraftsNext => Single'
<1>1. RowsTyped /\ Single /\ Reviewed => Single'
  BY SingleStays DEF Reviewed
<1> QED
  BY <1>1, SingleCampaign, ReviewEffect DEF DraftsNext, reviewVars

-----------------------------------------------------------------------------
(* Nothing queued for a lead that was removed                              *)

(* A lead on its way is of the campaign, or was removed meanwhile.         *)
Ways ==
  \A c \in Campaign, l \in Lead :
    statusOf[c] # "deleted" /\ OnItsWay(c, l) => <<c, l>> \in members \cup overtaken
(* A deleted draft has no pending row.                                     *)
Gone == \A d \in DraftIds : drafts[d].status = "deleted" => drafts[d].row # "pending"

Followed == Ways /\ Held /\ Gone /\ RemovedUnqueued

LEMMA WayFollows ==
    ASSUME RowsTyped, JobsKept, HookFollows, NEW c \in Campaign, NEW l \in Lead, OnItsWay(c, l)'
    PROVE  OnItsWay(c, l) \/ <<c, l>> \in members
<1>1. CASE \E j \in 1 .. Len(jobsOf') : jobsOf'[j].campaign = c /\ l \in jobsOf'[j].todo \cup jobsOf'[j].hand
  BY <1>1 DEF JobsKept, OnItsWay
<1>2. CASE \E h \in Hook : hook'[h].stage # "free" /\ hook'[h].campaign = c /\ hook'[h].lead = l
  BY <1>2 DEF HookFollows, OnItsWay
<1> QED
  BY <1>1, <1>2 DEF OnItsWay

LEMMA WaysStay ==
    ASSUME RowsTyped, Ways, JobsKept, HookFollows, members \subseteq members', overtaken' = overtaken,
           \A c \in Campaign : statusOf'[c] # "deleted" => statusOf[c] # "deleted"
    PROVE  Ways'
<1> SUFFICES ASSUME NEW c \in Campaign, NEW l \in Lead, statusOf'[c] # "deleted", OnItsWay(c, l)'
             PROVE  <<c, l>> \in members' \cup overtaken'
  BY DEF Ways
<1>1. OnItsWay(c, l) \/ <<c, l>> \in members
  BY WayFollows
<1> QED
  BY <1>1 DEF Ways

LEMMA RowsStay ==
    ASSUME Followed, DraftsAged, members \subseteq members', overtaken \subseteq overtaken',
           \A g \in Hook : hook'[g].stage = "queue" => hook'[g] = hook[g]
    PROVE  Held' /\ Gone' /\ RemovedUnqueued'
<1>1. DraftIds' = DraftIds
  BY DEF DraftsAged, NoneOpened, DraftIds
<1>2. Held'
  BY <1>1 DEF Followed, Held, DraftsAged, NoneOpened
<1>3. Gone'
  BY <1>1 DEF Followed, Gone, DraftsAged
<1>4. RemovedUnqueued'
  BY <1>1 DEF Followed, RemovedUnqueued, DraftsAged, NoneOpened
<1> QED
  BY <1>2, <1>3, <1>4

LEMMA FollowedStep == RowsTyped /\ InReview /\ Followed /\ DraftsNext => Followed'
<1> SUFFICES ASSUME RowsTyped, InReview, Followed, DraftsNext PROVE Followed'
  OBVIOUS
<1>1. ASSUME UserEffect PROVE Followed'
  <2>1. HookFollows /\ HookNoFurther /\ DraftsAged
    BY <1>1, HookStays, DraftsStay DEF UserEffect
  <2>2. Ways'
    BY <1>1, <2>1, WaysStay DEF UserEffect, Followed
  <2>3. Held' /\ Gone' /\ RemovedUnqueued'
    BY <1>1, <2>1, RowsStay DEF UserEffect, HookNoFurther
  <2> QED
    BY <2>2, <2>3 DEF Followed
<1>2. ASSUME NEW t \in Tab, UserStep(t) PROVE Followed'
  BY <1>1, <1>2, UserStepEffect
<1>3. ASSUME NEW c \in Campaign, NEW next \in {"active", "paused"}, PauseResume(c, next) PROVE Followed'
  BY <1>1, <1>3, PauseEffect
<1>4. ASSUME NEW c \in Campaign, DropCampaign(c) PROVE Followed'
  <2>1. DraftsAged /\ \A d \in DraftIds : drafts[d].campaign = c => drafts'[d].row # "pending"
    BY <1>4, DropAges
  <2>2. /\ statusOf' = [statusOf EXCEPT ![c] = "deleted"] /\ members' = {p \in members : p[1] # c}
        /\ UNCHANGED <<jobsOf, hook, overtaken>> /\ DraftIds' = DraftIds
    BY <1>4, <2>1 DEF DropCampaign, DraftsAged, NoneOpened, DraftIds
  <2>3. \A e \in Campaign, l \in Lead : e # c /\ <<e, l>> \in members => <<e, l>> \in members'
    BY <2>2
  <2>4. Ways'
    <3>1. SUFFICES ASSUME NEW e \in Campaign, NEW l \in Lead, statusOf'[e] # "deleted", OnItsWay(e, l)'
                   PROVE  <<e, l>> \in members' \cup overtaken'
      BY DEF Ways
    <3>2. e # c /\ statusOf[e] # "deleted"
      BY <2>2, <3>1 DEF RowsTyped
    <3>3. OnItsWay(e, l)
      BY <2>2, <3>1 DEF OnItsWay
    <3> QED
      BY <2>2, <2>3, <3>2, <3>3 DEF Followed, Ways
  <2>5. Held' /\ Gone'
    BY <2>1, <2>2 DEF Followed, Held, Gone, DraftsAged, NoneOpened
  <2>6. RemovedUnqueued'
    <3>1. SUFFICES ASSUME NEW d \in DraftIds, drafts'[d].row = "pending"
                   PROVE  <<drafts'[d].campaign, drafts'[d].lead>> \in members' \cup overtaken'
      BY <2>2 DEF RemovedUnqueued
    <3>2. /\ drafts'[d].campaign = drafts[d].campaign /\ drafts'[d].lead = drafts[d].lead
          /\ drafts[d].row = "pending" /\ drafts[d].campaign # c
      BY <2>1, <3>1 DEF DraftsAged, NoneOpened
    <3>3. drafts[d].campaign \in Campaign /\ drafts[d].lead \in Lead
      BY DraftRead DEF DraftRow
    <3>4. <<drafts[d].campaign, drafts[d].lead>> \in members \cup overtaken
      BY <3>2 DEF Followed, RemovedUnqueued
    <3> QED
      BY <2>2, <2>3, <3>2, <3>3, <3>4
  <2> QED
    BY <2>4, <2>5, <2>6 DEF Followed
<1>5. ASSUME NEW c \in Campaign, NEW l \in Lead, RemoveMember(c, l) PROVE Followed'
  <2>1. DraftsAged /\ \A d \in DraftsOf(c, l) : drafts'[d].row # "pending"
    BY <1>5, RemoveAges
  <2>2. /\ UNCHANGED <<statusOf, jobsOf, hook>> /\ members' = members \ {<<c, l>>}
        /\ overtaken \subseteq overtaken' /\ (OnItsWay(c, l) => <<c, l>> \in overtaken')
        /\ DraftIds' = DraftIds
    BY <1>5, <2>1 DEF RemoveMember, DraftsAged, NoneOpened, DraftIds
  <2>3. Ways'
    <3>1. SUFFICES ASSUME NEW e \in Campaign, NEW m \in Lead, statusOf'[e] # "deleted", OnItsWay(e, m)'
                   PROVE  <<e, m>> \in members' \cup overtaken'
      BY DEF Ways
    <3>2. OnItsWay(e, m) /\ statusOf[e] # "deleted"
      BY <2>2, <3>1 DEF OnItsWay
    <3> QED
      BY <2>2, <3>2 DEF Followed, Ways
  <2>4. Held' /\ Gone'
    BY <2>1, <2>2 DEF Followed, Held, Gone, DraftsAged, NoneOpened
  <2>5. RemovedUnqueued'
    <3>1. SUFFICES ASSUME NEW d \in DraftIds, drafts'[d].row = "pending"
                   PROVE  <<drafts'[d].campaign, drafts'[d].lead>> \in members' \cup overtaken'
      BY <2>2 DEF RemovedUnqueued
    <3>2. /\ drafts'[d].campaign = drafts[d].campaign /\ drafts'[d].lead = drafts[d].lead
          /\ drafts[d].row = "pending" /\ d \notin DraftsOf(c, l)
      BY <2>1, <3>1 DEF DraftsAged, NoneOpened
    <3>3. ~(drafts[d].campaign = c /\ drafts[d].lead = l)
      BY <3>2 DEF DraftsOf, Followed, Gone
    <3>4. <<drafts[d].campaign, drafts[d].lead>> \in members \cup overtaken
      BY <3>2 DEF Followed, RemovedUnqueued
    <3> QED
      BY <2>2, <3>2, <3>3, <3>4
  <2> QED
    BY <2>3, <2>4, <2>5 DEF Followed
<1>6. ASSUME NEW j \in 1 .. Len(jobsOf), DraftJobStep(j) PROVE Followed'
  <2>1. JobEffect /\ DraftsAged
    BY <1>6, DraftJobEffect, DraftsStay DEF JobEffect
  <2>2. Ways'
    BY <2>1, WaysStay DEF JobEffect, Followed
  <2>3. Held' /\ Gone' /\ RemovedUnqueued'
    BY <2>1, RowsStay DEF JobEffect, HookNoFurther
  <2> QED
    BY <2>2, <2>3 DEF Followed
<1>7. ASSUME NEW d \in DraftIds, ProcessItem(d) PROVE Followed'
  <2>1. DraftsAged /\ UNCHANGED <<statusOf, members, jobsOf, hook, overtaken>>
    BY <1>7, ProcessAges DEF ProcessItem
  <2>2. Ways'
    BY <2>1, WaysStay, HookStays, JobsStay DEF Followed
  <2>3. Held' /\ Gone' /\ RemovedUnqueued'
    BY <2>1, RowsStay
  <2> QED
    BY <2>2, <2>3 DEF Followed
<1>8. ASSUME NEW h \in Hook, CheckDraft(h) PROVE Followed'
  <2>1. /\ JobsKept /\ HookFollows /\ DraftsAged
        /\ \A g \in Hook : hook'[g].stage = "queue" => hook'[g] = hook[g]
        /\ UNCHANGED <<statusOf, members, overtaken>>
    BY <1>8, CheckEffect, DraftsStay
  <2>2. Ways'
    BY <2>1, WaysStay DEF Followed
  <2>3. Held' /\ Gone' /\ RemovedUnqueued'
    BY <2>1, RowsStay
  <2> QED
    BY <2>2, <2>3 DEF Followed
<1>9. ASSUME NEW h \in Hook, CreateDraft(h) PROVE Followed'
  <2> DEFINE n == Len(drafts) + 1
  <2>1. UNCHANGED <<statusOf, members, overtaken>>
    BY <1>9 DEF CreateDraft
  <2>2. CASE statusOf[hook[h].campaign] = "deleted"
    <3>1. JobsKept /\ HookFollows /\ HookNoFurther /\ DraftsAged
      BY <1>9, <2>2, HookFreed, DraftsStay DEF CreateDraft
    <3>2. Ways'
      BY <2>1, <3>1, WaysStay DEF Followed
    <3>3. Held' /\ Gone' /\ RemovedUnqueued'
      BY <2>1, <3>1, RowsStay DEF HookNoFurther
    <3> QED
      BY <3>2, <3>3 DEF Followed
  <2>3. CASE statusOf[hook[h].campaign] # "deleted"
    <3>1. /\ Appended(h) /\ JobsKept /\ HookFollows
          /\ \A g \in Hook : g # h => hook'[g] = hook[g]
          /\ hook'[h].stage = "queue" /\ hook'[h].draft = n
          /\ hook'[h].campaign = hook[h].campaign /\ hook'[h].lead = hook[h].lead
      BY <1>9, <2>3, CreateEffect
    <3>2. /\ DraftIds' = DraftIds \cup {n}
          /\ \A d \in DraftIds : drafts'[d] = drafts[d]
          /\ drafts'[n].campaign = hook[h].campaign /\ drafts'[n].lead = hook[h].lead
          /\ drafts'[n].status = "approved" /\ drafts'[n].row = "none"
      BY <3>1, DraftRead DEF Appended, DraftIds, NewDraft
    <3> HIDE DEF n
    <3>3. Ways'
      BY <2>1, <3>1, WaysStay DEF Followed
    <3>4. Held'
      BY <3>1, <3>2 DEF Followed, Held
    <3>5. Gone' /\ RemovedUnqueued'
      BY <2>1, <3>2 DEF Followed, Gone, RemovedUnqueued
    <3> QED
      BY <3>3, <3>4, <3>5 DEF Followed
  <2> QED
    BY <2>2, <2>3
<1>10. ASSUME NEW h \in Hook, QueueDraft(h) PROVE Followed'
  <2> DEFINE d == hook[h].draft
  <2>1. /\ UNCHANGED <<statusOf, members, overtaken>> /\ hook[h].stage = "queue"
        /\ hook[h] \in EventRow
    BY <1>10 DEF QueueDraft, RowsTyped
  <2>2. d \in DraftIds /\ drafts[d].campaign = hook[h].campaign /\ drafts[d].lead = hook[h].lead
    BY <2>1 DEF Followed, Held
  <2>3. /\ NoneOpened /\ JobsKept /\ HookFollows /\ HookNoFurther
        /\ \A e \in DraftIds :
             \/ drafts'[e] = drafts[e]
             \/ /\ e = d /\ drafts'[e].status # "deleted"
                /\ statusOf[hook[h].campaign] = "active"
    BY <1>10, <2>2, QueueEffect
  <2>4. DraftIds' = DraftIds
    BY <2>3 DEF NoneOpened, DraftIds
  <2>5. Ways'
    BY <2>1, <2>3, WaysStay DEF Followed
  <2>6. Held'
    BY <2>3, <2>4 DEF Followed, Held, NoneOpened, HookNoFurther
  <2>7. Gone'
    BY <2>3, <2>4 DEF Followed, Gone
  <2>8. RemovedUnqueued'
    <3>1. SUFFICES ASSUME NEW e \in DraftIds, drafts'[e].row = "pending"
                   PROVE  <<drafts[e].campaign, drafts[e].lead>> \in members \cup overtaken
      BY <2>1, <2>3, <2>4 DEF RemovedUnqueued, NoneOpened
    <3>2. CASE drafts'[e] = drafts[e]
      BY <3>1, <3>2 DEF Followed, RemovedUnqueued
    <3>3. CASE e = d /\ statusOf[hook[h].campaign] = "active"
      <4>1. OnItsWay(hook[h].campaign, hook[h].lead)
        BY <2>1 DEF OnItsWay
      <4> QED
        BY <2>1, <2>2, <3>3, <4>1 DEF Followed, Ways, EventRow
    <3> QED
      BY <2>3, <3>2, <3>3
  <2> QED
    BY <2>5, <2>6, <2>7, <2>8 DEF Followed
<1>11. ASSUME NEW h \in Hook, NEW c \in Campaign, NEW l \in Lead, WriteByHand(h, c, l) PROVE Followed'
  <2>1. HandWritten /\ DraftsAged
    BY <1>11, WriteEffect, DraftsStay DEF HandWritten
  <2>2. Ways'
    <3>1. SUFFICES ASSUME NEW e \in Campaign, NEW m \in Lead, statusOf'[e] # "deleted", OnItsWay(e, m)'
                   PROVE  <<e, m>> \in members' \cup overtaken'
      BY DEF Ways
    <3>2. OnItsWay(e, m) \/ <<e, m>> \in members \cup overtaken'
      BY <2>1, <3>1 DEF HandWritten, OnItsWay
    <3> QED
      BY <2>1, <3>1, <3>2 DEF HandWritten, Followed, Ways
  <2>3. Held' /\ Gone' /\ RemovedUnqueued'
    BY <2>1, RowsStay DEF HandWritten, HookNoFurther
  <2> QED
    BY <2>2, <2>3 DEF Followed
<1>12. CASE ReviewNext
  <2>1. Reviewed
    BY <1>12, ReviewEffect
  <2>2. DraftIds' = DraftIds
    BY <2>1 DEF Reviewed, NoneOpened, DraftIds
  <2>3. Ways'
    BY <2>1 DEF Reviewed, Followed, Ways, OnItsWay
  <2>4. Held'
    BY <2>1, <2>2 DEF Reviewed, Followed, Held, NoneOpened
  <2>5. Gone'
    BY <2>1, <2>2 DEF Reviewed, Followed, Gone
  <2>6. RemovedUnqueued'
    BY <2>1, <2>2 DEF Reviewed, Followed, RemovedUnqueued, NoneOpened
  <2> QED
    BY <2>3, <2>4, <2>5, <2>6 DEF Followed
<1> QED
  BY <1>2, <1>3, <1>4, <1>5, <1>6, <1>7, <1>8, <1>9, <1>10, <1>11, <1>12 DEF DraftsNext, CampaignNext, HookStep

-----------------------------------------------------------------------------
DraftsInv == RowsTyped /\ Single /\ Followed /\ InReview

LEMMA InitReviewed == DraftsInit => InReview
BY EmptySeq DEF DraftsInit, InReview, ReviewRow, NoReview, DraftIds

LEMMA DraftsInvInit == DraftsInit => DraftsInv
<1> SUFFICES ASSUME DraftsInit PROVE DraftsInv
  OBVIOUS
<1>1. RowsTyped /\ DraftIds = {} /\ Len(jobsOf) = 0
  BY InitTyped DEF DraftsInit, DraftIds
<1>2. \A h \in Hook : hook[h].stage = "free"
  BY DEF DraftsInit, NoEvent
<1>3. Single
  BY <1>1, <1>2 DEF Single
<1>4. Followed
  BY <1>1, <1>2 DEF Followed, Ways, Held, Gone, RemovedUnqueued, OnItsWay
<1>5. InReview
  BY <1>1, InitReviewed
<1> QED
  BY <1>1, <1>3, <1>4, <1>5 DEF DraftsInv

LEMMA DraftsInvStep == DraftsInv /\ [DraftsNext]_draftsVars => DraftsInv'
<1>1. CASE DraftsNext
  BY <1>1, TypedStep, SingleStep, FollowedStep, InReviewStep DEF DraftsInv, Followed
<1>2. CASE UNCHANGED draftsVars
  BY <1>2 DEF draftsVars, reviewVars, DraftsInv, RowsTyped, Single, Followed, Ways, Held, Gone,
              RemovedUnqueued, OnItsWay, DraftIds, FirstOpen, Open, InReview
<1> QED
  BY <1>1, <1>2

LEMMA DraftsInvAlways == DraftsSpec => []DraftsInv
BY DraftsInvInit, DraftsInvStep, PTL DEF DraftsSpec

(* Two jobs of two campaigns that hold a lead, tabs that launch a campaign *)
(* twice, posts that are answered late and drafts written by hand leave the *)
(* lead with one open draft besides those that users opened again, except   *)
(* where two events passed canDraftEmail side by side.                      *)
THEOREM OpenDraftsSingle == DraftsSpec => []OneOpenDraft
<1>1. DraftsInv => OneOpenDraft
  <2> SUFFICES ASSUME DraftsInv, NEW l \in Lead \ raced
               PROVE  Cardinality({d \in DraftIds \ reopened : drafts[d].lead = l /\ Open(d)}) <= 1
    BY DEF OneOpenDraft
  <2> DEFINE O == {d \in DraftIds \ reopened : drafts[d].lead = l /\ Open(d)}
  <2>1. \A d, e \in O : d = e
    BY DEF DraftsInv, Single, FirstOpen
  <2> HIDE DEF O
  <2>2. CASE O = {}
    <3>1. Cardinality({}) = 0
      BY FS_EmptySet
    <3> QED
      BY <2>2, <3>1 DEF O
  <2>3. CASE O # {}
    <3>1. PICK d \in O : O = {d}
      BY <2>1, <2>3
    <3>2. Cardinality({d}) = 1
      BY FS_Singleton
    <3>3. Cardinality(O) = 1
      BY <3>1, <3>2
    <3> QED
      BY <3>3 DEF O
  <2> QED
    BY <2>2, <2>3
<1> QED
  BY <1>1, DraftsInvAlways, PTL

(* What is queued is for a lead of the campaign, for one that was removed  *)
(* while an event or a job was on its way with it, or for one that a user  *)
(* wrote to or queued without membership, whatever campaigns are paused,   *)
(* deleted and launched again and drafts rejected and approved meanwhile.  *)
THEOREM QueuedAreMembers == DraftsSpec => []RemovedUnqueued
<1>1. DraftsInv => RemovedUnqueued
  BY DEF DraftsInv, Followed
<1> QED
  BY <1>1, DraftsInvAlways, PTL

-----------------------------------------------------------------------------
(* Nobody forgotten                                                        *)

(* A job has one lead in hand at most, and waits for the event of that lead.  *)
GoodRow(row, held) ==
  /\ \A l, m \in row.hand : l = m
  /\ row.hand \cap row.todo = {} /\ (row.stage = "queued" => row.hand = {})
  /\ \A h \in row.waits : /\ held[h].stage # "free" /\ held[h].campaign = row.campaign
                          /\ row.hand = {held[h].lead}
Handling == \A j \in 1 .. Len(jobsOf) : GoodRow(jobsOf[j], hook)

(* What an event in hand is for does not change.                              *)
SameEvents == \A h \in Hook : hook[h].stage # "free" =>
  hook'[h].stage # "free" /\ hook'[h].campaign = hook[h].campaign /\ hook'[h].lead = hook[h].lead

LEMMA RowStays ==
    ASSUME RowsTyped, Handling, SameEvents, NEW j \in 1 .. Len(jobsOf)
    PROVE  GoodRow(jobsOf[j], hook')
<1>1. jobsOf[j].waits \subseteq Hook /\ GoodRow(jobsOf[j], hook)
  BY JobRead DEF JobRow, Handling
<1> QED
  BY <1>1 DEF GoodRow, SameEvents

LEMMA HandlingWritten ==
    ASSUME RowsTyped, Handling, SameEvents, NEW j \in 1 .. Len(jobsOf), NEW row \in JobRow,
           jobsOf' = [jobsOf EXCEPT ![j] = row], GoodRow(row, hook')
    PROVE  Handling'
<1>1. /\ Len(jobsOf') = Len(jobsOf)
      /\ \A i \in 1 .. Len(jobsOf) : jobsOf'[i] = IF i = j THEN row ELSE jobsOf[i]
  BY JobWritten
<1> QED
  BY <1>1, RowStays DEF Handling

LEMMA HandlingSame ==
    ASSUME RowsTyped, Handling, SameEvents, jobsOf' = jobsOf
    PROVE  Handling'
BY RowStays DEF Handling

LEMMA HandlingLaunch ==
    ASSUME RowsTyped, Handling, NEW c \in Campaign, StartDrafting(c), hook' = hook
    PROVE  Handling'
<1> DEFINE row == [campaign |-> c, stage |-> "queued", todo |-> {}, hand |-> {}, waits |-> {}]
<1>1. SameEvents
  BY DEF SameEvents
<1>2. CASE jobsOf' = jobsOf
  BY <1>1, <1>2, HandlingSame
<1>3. CASE jobsOf' = Append(jobsOf, row)
  <2>1. row \in JobRow /\ Len(jobsOf) \in Nat
    BY JobRead DEF JobRow
  <2>2. /\ Len(jobsOf') = Len(jobsOf) + 1 /\ jobsOf'[Len(jobsOf) + 1] = row
        /\ \A j \in 1 .. Len(jobsOf) : jobsOf'[j] = jobsOf[j]
    BY <1>3, <2>1, AppendProperties DEF RowsTyped
  <2>3. GoodRow(row, hook')
    BY DEF GoodRow
  <2> HIDE DEF row
  <2>4. \A j \in 1 .. Len(jobsOf') : j \in 1 .. Len(jobsOf) \/ j = Len(jobsOf) + 1
    BY <2>1, <2>2
  <2> QED
    BY <1>1, <2>2, <2>3, <2>4, RowStays DEF Handling
<1> QED
  BY <1>2, <1>3 DEF StartDrafting

(* The event ends, and so does what the job that waits for it has in hand.    *)
LEMMA DoneJobs ==
    ASSUME RowsTyped, Handling, NEW h \in Hook, HookDone(h)
    PROVE  /\ Len(jobsOf') = Len(jobsOf)
           /\ \A j \in 1 .. Len(jobsOf) :
                \/ jobsOf'[j] = jobsOf[j] /\ h \notin jobsOf[j].waits
                \/ /\ jobsOf'[j].campaign = jobsOf[j].campaign /\ jobsOf'[j].stage = jobsOf[j].stage
                   /\ jobsOf'[j].todo = jobsOf[j].todo /\ jobsOf'[j].hand = {} /\ jobsOf'[j].waits = {}
                   /\ jobsOf[j].campaign = hook[h].campaign /\ jobsOf[j].hand = {hook[h].lead}
           /\ \A g \in Hook \ {h} : hook'[g] = hook[g]
<1> DEFINE f == [j \in 1 .. Len(jobsOf) |-> IF h \in jobsOf[j].waits
                   THEN [jobsOf[j] EXCEPT !.waits = {}, !.hand = {}] ELSE jobsOf[j]]
<1>1. jobsOf' = f /\ hook' = [hook EXCEPT ![h] = NoEvent]
  BY DEF HookDone
<1>2. \A j \in 1 .. Len(jobsOf) : f[j] \in JobRow
  BY JobRead DEF JobRow
<1>3. f \in [1 .. Len(jobsOf) -> JobRow]
  BY <1>2
<1>4. Len(f) = Len(jobsOf)
  BY <1>3, BodyMapped, JobRead
<1>5. ASSUME NEW j \in 1 .. Len(jobsOf), h \in jobsOf[j].waits
      PROVE  /\ f[j].campaign = jobsOf[j].campaign /\ f[j].stage = jobsOf[j].stage
             /\ f[j].todo = jobsOf[j].todo /\ f[j].hand = {} /\ f[j].waits = {}
             /\ jobsOf[j].campaign = hook[h].campaign /\ jobsOf[j].hand = {hook[h].lead}
  BY <1>5, JobRead DEF JobRow, Handling, GoodRow
<1>6. ASSUME NEW j \in 1 .. Len(jobsOf), h \notin jobsOf[j].waits PROVE f[j] = jobsOf[j]
  BY <1>6
<1>7. \A g \in Hook \ {h} : hook'[g] = hook[g]
  BY <1>1 DEF RowsTyped
<1> HIDE DEF f
<1> QED
  BY <1>1, <1>4, <1>5, <1>6, <1>7

LEMMA HandlingDone ==
    ASSUME RowsTyped, Handling, NEW h \in Hook, HookDone(h)
    PROVE  Handling'
<1> SUFFICES ASSUME NEW j \in 1 .. Len(jobsOf) PROVE GoodRow(jobsOf'[j], hook')
  BY DoneJobs DEF Handling
<1>1. GoodRow(jobsOf[j], hook) /\ jobsOf[j].waits \subseteq Hook
  BY JobRead DEF Handling, JobRow
<1>2. CASE jobsOf'[j] = jobsOf[j] /\ h \notin jobsOf[j].waits
  BY <1>1, <1>2, DoneJobs DEF GoodRow
<1>3. CASE ~(jobsOf'[j] = jobsOf[j] /\ h \notin jobsOf[j].waits)
  <2>1. jobsOf'[j].hand = {} /\ jobsOf'[j].waits = {}
    BY <1>3, DoneJobs
  <2> QED
    BY <2>1 DEF GoodRow
<1> QED
  BY <1>2, <1>3

LEMMA HandlingStep == RowsTyped /\ Handling /\ [DraftsNext]_draftsVars => Handling'
<1> SUFFICES ASSUME RowsTyped, Handling, [DraftsNext]_draftsVars PROVE Handling'
  OBVIOUS
<1>0. hook' = hook => SameEvents
  BY DEF SameEvents
<1>1. ASSUME jobsOf' = jobsOf, hook' = hook PROVE Handling'
  BY <1>0, <1>1, HandlingSame
<1>2. ASSUME NEW t \in Tab, UserStep(t) PROVE Handling'
  <2>1. hook' = hook /\ act[t].campaign \in Campaign
    BY <1>2, UserStepEffect DEF UserEffect, RowsTyped, ActRow
  <2>2. jobsOf' = jobsOf \/ StartDrafting(act[t].campaign)
    BY <1>2 DEF UserStep, ReadStatus, ReadForAdd, Ask, WriteStatus, CheckAdd, JoinCampaign
  <2> QED
    BY <1>1, <2>1, <2>2, HandlingLaunch
<1>3. ASSUME NEW c \in Campaign, \/ DropCampaign(c) \/ \E l \in Lead : RemoveMember(c, l)
                                 \/ PauseResume(c, "active") \/ PauseResume(c, "paused")
      PROVE  Handling'
  BY <1>1, <1>3 DEF DropCampaign, RemoveMember, PauseResume
<1>4. ASSUME NEW j \in 1 .. Len(jobsOf), DraftJobStep(j) PROVE Handling'
  <2> DEFINE old == jobsOf[j]
  <2>1. old \in JobRow /\ GoodRow(old, hook)
    BY JobRead DEF Handling
  <2>2. ASSUME NEW row \in JobRow, jobsOf' = [jobsOf EXCEPT ![j] = row], hook' = hook, GoodRow(row, hook)
        PROVE  Handling'
    BY <1>0, <2>2, HandlingWritten
  <2>3. CASE ReadCampaign(j)
    <3> DEFINE row == [old EXCEPT !.stage = IF statusOf[old.campaign] = "deleted" THEN "over" ELSE "working",
                                  !.todo = {l \in Lead : <<old.campaign, l>> \in members /\ DraftsOf(old.campaign, l) = {}}]
    <3>1. jobsOf' = [jobsOf EXCEPT ![j] = row] /\ hook' = hook /\ old.stage = "queued"
      BY <2>3 DEF ReadCampaign
    <3>2. /\ row \in JobRow /\ row.campaign = old.campaign /\ row.hand = old.hand /\ row.waits = old.waits
          /\ row.stage # "queued"
      BY <2>1 DEF JobRow
    <3> HIDE DEF row
    <3>3. GoodRow(row, hook)
      BY <2>1, <3>1, <3>2 DEF GoodRow
    <3> QED
      BY <2>2, <3>1, <3>2, <3>3
  <2>4. CASE TakeLead(j)
    <3>0. old.hand = {} /\ hook' = hook
      BY <2>4 DEF TakeLead
    <3>00. old.waits = {}
      BY <2>1, <3>0 DEF GoodRow
    <3>1. CASE old.todo = {}
      <4> DEFINE row == [old EXCEPT !.stage = "over"]
      <4>1. jobsOf' = [jobsOf EXCEPT ![j] = row]
        BY <2>4, <3>1 DEF TakeLead
      <4>2. row \in JobRow /\ row.hand = {} /\ row.waits = {} /\ row.stage = "over"
        BY <2>1, <3>0, <3>00 DEF JobRow
      <4> HIDE DEF row
      <4>3. GoodRow(row, hook)
        BY <4>2 DEF GoodRow
      <4> QED
        BY <2>2, <3>0, <4>1, <4>2, <4>3
    <3>2. CASE old.todo # {}
      <4>1. PICK l \in old.todo : jobsOf' = [jobsOf EXCEPT ![j].hand = {l}, ![j].todo = @ \ {l}]
        BY <2>4, <3>2 DEF TakeLead
      <4> DEFINE row == [old EXCEPT !.hand = {l}, !.todo = old.todo \ {l}]
      <4>2. jobsOf' = [jobsOf EXCEPT ![j] = row]
        BY <4>1, <2>1 DEF JobRow
      <4>3. row \in JobRow /\ row.hand = {l} /\ row.todo = old.todo \ {l} /\ row.waits = {} /\ row.stage = "working"
        BY <2>1, <2>4, <3>00, <4>1 DEF JobRow, TakeLead
      <4> HIDE DEF row
      <4>4. GoodRow(row, hook)
        BY <4>3 DEF GoodRow
      <4> QED
        BY <2>2, <3>0, <4>2, <4>3, <4>4
    <3> QED
      BY <3>1, <3>2
  <2>5. CASE CutJob(j) \/ AnswerLate(j)
    <3>1. PICK row \in {[old EXCEPT !.stage = "over", !.todo = {}, !.hand = {}, !.waits = {}],
                        [old EXCEPT !.waits = {}], [old EXCEPT !.waits = {}, !.hand = {}]} :
            jobsOf' = [jobsOf EXCEPT ![j] = row]
      BY <2>1, <2>5 DEF CutJob, AnswerLate, JobRow
    <3>2. /\ row \in JobRow /\ row.hand \subseteq old.hand /\ row.todo \subseteq old.todo /\ row.waits = {}
          /\ row.stage \in {old.stage, "over"}
      BY <2>1, <3>1 DEF JobRow
    <3>3. GoodRow(row, hook) /\ hook' = hook
      BY <2>1, <2>5, <3>2 DEF GoodRow, CutJob, AnswerLate
    <3> QED
      BY <2>2, <3>1, <3>2, <3>3
  <2>6. ASSUME NEW h \in Hook, PostDraft(j, h) PROVE Handling'
    <3>1. PICK l \in old.hand :
            hook' = [hook EXCEPT ![h] = [NoEvent EXCEPT !.stage = "check", !.campaign = old.campaign, !.lead = l]]
      BY <2>6 DEF PostDraft
    <3> DEFINE event == [NoEvent EXCEPT !.stage = "check", !.campaign = old.campaign, !.lead = l]
               row == [old EXCEPT !.waits = {h}]
    <3>2. event.stage = "check" /\ event.campaign = old.campaign /\ event.lead = l
      BY DEF NoEvent
    <3>3. jobsOf' = [jobsOf EXCEPT ![j] = row] /\ hook[h].stage = "free"
      BY <2>6 DEF PostDraft
    <3>4. /\ row \in JobRow /\ row.campaign = old.campaign /\ row.hand = old.hand /\ row.todo = old.todo
          /\ row.stage = old.stage /\ row.waits = {h}
      BY <2>1 DEF JobRow
    <3> HIDE DEF row, event
    <3>5. hook'[h] = event /\ \A g \in Hook \ {h} : hook'[g] = hook[g]
      BY <3>1 DEF RowsTyped, event
    <3>6. SameEvents
      BY <3>3, <3>5 DEF SameEvents
    <3>7. old.hand = {l}
      BY <2>1 DEF GoodRow
    <3>8. GoodRow(row, hook')
      BY <2>1, <3>2, <3>4, <3>5, <3>7 DEF GoodRow
    <3> QED
      BY <3>3, <3>4, <3>6, <3>8, HandlingWritten
  <2> QED
    BY <1>4, <2>3, <2>4, <2>5, <2>6 DEF DraftJobStep
<1>5. ASSUME NEW h \in Hook, HookStep(h) PROVE Handling'
  <2>1. CASE HookDone(h)
    BY <2>1, HandlingDone
  <2>2. CASE ~HookDone(h)
    <3>1. /\ jobsOf' = jobsOf /\ hook[h] \in EventRow
          /\ (\/ hook' = [hook EXCEPT ![h].stage = "create"]
              \/ hook' = [hook EXCEPT ![h].stage = "queue", ![h].draft = Len(drafts) + 1])
      BY <1>5, <2>2 DEF HookStep, CheckDraft, CreateDraft, QueueDraft, RowsTyped
    <3>2. \A g \in Hook \ {h} : hook'[g] = hook[g]
      BY <3>1 DEF RowsTyped
    <3>3. hook'[h].stage # "free" /\ hook'[h].campaign = hook[h].campaign /\ hook'[h].lead = hook[h].lead
      <4>1. CASE hook' = [hook EXCEPT ![h].stage = "create"]
        BY <3>1, <4>1 DEF RowsTyped, EventRow
      <4>2. CASE hook' = [hook EXCEPT ![h].stage = "queue", ![h].draft = Len(drafts) + 1]
        <5> DEFINE row == [hook[h] EXCEPT !.stage = "queue", !.draft = Len(drafts) + 1]
        <5>1. hook' = [hook EXCEPT ![h] = row]
          BY <4>2 DEF RowsTyped
        <5>2. row.stage = "queue" /\ row.campaign = hook[h].campaign /\ row.lead = hook[h].lead
          BY <3>1 DEF EventRow
        <5> HIDE DEF row
        <5> QED
          BY <5>1, <5>2 DEF RowsTyped
      <4> QED
        BY <3>1, <4>1, <4>2
    <3>4. SameEvents
      BY <3>2, <3>3 DEF SameEvents
    <3> QED
      BY <3>1, <3>4, HandlingSame
  <2> QED
    BY <2>1, <2>2
<1>6. ASSUME NEW d \in DraftIds, ProcessItem(d) PROVE Handling'
  BY <1>1, <1>6 DEF ProcessItem
<1>7. CASE UNCHANGED draftsVars
  BY <1>1, <1>7 DEF draftsVars
<1>8. ASSUME NEW h \in Hook, NEW c \in Campaign, NEW l \in Lead, WriteByHand(h, c, l) PROVE Handling'
  <2>1. HandWritten
    BY <1>8, WriteEffect
  <2>2. SameEvents /\ jobsOf' = jobsOf
    BY <2>1 DEF SameEvents, HandWritten
  <2> QED
    BY <2>2, HandlingSame
<1>9. CASE ReviewNext
  BY <1>1, <1>9 DEF ReviewNext
<1> QED
  BY <1>2, <1>3, <1>4, <1>5, <1>6, <1>7, <1>8, <1>9 DEF DraftsNext, CampaignNext

(* Job j has yet to handle lead l.                                         *)
Awaits(j, l) ==
  \/ jobsOf[j].stage = "queued"
  \/ jobsOf[j].stage = "working" /\ l \in jobsOf[j].todo \cup jobsOf[j].hand
Covered(c, l) ==
  \/ <<c, l>> \in tried \/ DraftsOf(c, l) # {}
  \/ \E j \in 1 .. Len(jobsOf) : jobsOf[j].campaign = c /\ Awaits(j, l)
CaresFor(c) ==
  c \notin excused /\ statusOf[c] = "active" => \A l \in Lead : <<c, l>> \in members => Covered(c, l)
Cared == \A c \in Campaign : CaresFor(c)

(* Campaign c was active before the step and no lead joined it.            *)
NoneNew(c) ==
  c \notin excused' /\ statusOf'[c] = "active" =>
    /\ c \notin excused /\ statusOf[c] = "active"
    /\ \A l \in Lead : /\ <<c, l>> \in members' => <<c, l>> \in members
                       /\ <<c, l>> \in tried => <<c, l>> \in tried'
JobsCarry(c) ==
  c \notin excused' /\ statusOf'[c] = "active" =>
    \A j \in 1 .. Len(jobsOf), l \in Lead :
      jobsOf[j].campaign = c /\ <<c, l>> \in members' /\ Awaits(j, l) => Covered(c, l)'

LEMMA CareKept ==
    ASSUME NEW c \in Campaign, CaresFor(c), DraftsLast, NoneNew(c), JobsCarry(c)
    PROVE  CaresFor(c)'
<1> SUFFICES ASSUME c \notin excused', statusOf'[c] = "active", NEW l \in Lead, <<c, l>> \in members'
             PROVE  Covered(c, l)'
  BY DEF CaresFor
<1>1. Covered(c, l)
  BY DEF CaresFor, NoneNew
<1>2. CASE <<c, l>> \in tried
  BY <1>2 DEF NoneNew, Covered
<1>3. ASSUME NEW d \in DraftsOf(c, l) PROVE Covered(c, l)'
  <2>1. d \in DraftIds /\ drafts[d].campaign = c /\ drafts[d].lead = l /\ drafts[d].status # "deleted"
    BY DEF DraftsOf
  <2>2. d \in DraftsOf(c, l)'
    BY <2>1 DEF DraftsLast, DraftsOf
  <2> QED
    BY <2>2 DEF Covered
<1>4. CASE \E j \in 1 .. Len(jobsOf) : jobsOf[j].campaign = c /\ Awaits(j, l)
  BY <1>4 DEF JobsCarry
<1> QED
  BY <1>1, <1>2, <1>3, <1>4 DEF Covered

LEMMA CarrySame ==
    ASSUME jobsOf' = jobsOf, NEW c \in Campaign
    PROVE  JobsCarry(c)
BY DEF JobsCarry, Covered, Awaits

(* One row is written, and what it had to do is done or still to do.       *)
LEMMA CarryWritten ==
    ASSUME RowsTyped, NEW j \in 1 .. Len(jobsOf), NEW row \in JobRow,
           jobsOf' = [jobsOf EXCEPT ![j] = row], row.campaign = jobsOf[j].campaign,
           NEW c \in Campaign,
           row.campaign = c /\ c \notin excused' /\ statusOf'[c] = "active" =>
             \A l \in Lead : <<c, l>> \in members' /\ Awaits(j, l) => Awaits(j, l)' \/ DraftsOf(c, l)' # {}
    PROVE  JobsCarry(c)
<1> SUFFICES ASSUME c \notin excused', statusOf'[c] = "active", NEW i \in 1 .. Len(jobsOf), NEW l \in Lead,
                    jobsOf[i].campaign = c, <<c, l>> \in members', Awaits(i, l)
             PROVE  Covered(c, l)'
  BY DEF JobsCarry
<1>1. /\ Len(jobsOf') = Len(jobsOf)
      /\ \A k \in 1 .. Len(jobsOf) : jobsOf'[k] = IF k = j THEN row ELSE jobsOf[k]
  BY JobWritten
<1>2. CASE i = j
  <2>1. Awaits(i, l)' \/ DraftsOf(c, l)' # {}
    BY <1>2
  <2>2. i \in 1 .. Len(jobsOf') /\ jobsOf'[i].campaign = c
    BY <1>1, <1>2
  <2> QED
    BY <2>1, <2>2 DEF Covered
<1>3. CASE i # j
  <2>1. i \in 1 .. Len(jobsOf') /\ jobsOf'[i] = jobsOf[i]
    BY <1>1, <1>3
  <2>2. Awaits(i, l)'
    BY <2>1 DEF Awaits
  <2> QED
    BY <2>1, <2>2 DEF Covered
<1> QED
  BY <1>2, <1>3

(* A launch leaves all of the campaign to its new job, or excuses it.      *)
LEMMA CareLaunched ==
    ASSUME RowsTyped, NEW c \in Campaign, StartDrafting(c)
    PROVE  CaresFor(c)' /\ \A e \in Campaign \ {c} : JobsCarry(e)
<1> DEFINE row == [campaign |-> c, stage |-> "queued", todo |-> {}, hand |-> {}, waits |-> {}]
<1>1. CASE jobsOf' = Append(jobsOf, row)
  <2>1. row \in JobRow /\ Len(jobsOf) \in Nat
    BY JobRead DEF JobRow
  <2>2. /\ Len(jobsOf') = Len(jobsOf) + 1 /\ jobsOf'[Len(jobsOf) + 1] = row
        /\ \A j \in 1 .. Len(jobsOf) : jobsOf'[j] = jobsOf[j]
    BY <1>1, <2>1, AppendProperties DEF RowsTyped
  <2>3. row.stage = "queued" /\ row.campaign = c
    OBVIOUS
  <2> HIDE DEF row
  <2>4. PICK n \in 1 .. Len(jobsOf') : jobsOf'[n] = row
    BY <2>1, <2>2
  <2>5. ASSUME NEW l \in Lead PROVE Awaits(n, l)'
    BY <2>3, <2>4 DEF Awaits
  <2>6. CaresFor(c)'
    BY <2>3, <2>4, <2>5 DEF CaresFor, Covered
  <2>7. ASSUME NEW e \in Campaign \ {c}, NEW j \in 1 .. Len(jobsOf), NEW l \in Lead, jobsOf[j].campaign = e,
               Awaits(j, l)
        PROVE  Covered(e, l)'
    <3>1. j \in 1 .. Len(jobsOf') /\ jobsOf'[j] = jobsOf[j]
      BY <2>1, <2>2
    <3> QED
      BY <2>7, <3>1 DEF Covered, Awaits
  <2> QED
    BY <2>6, <2>7 DEF JobsCarry
<1>2. CASE jobsOf' = jobsOf /\ excused' = excused \cup {c}
  BY <1>2, CarrySame DEF CaresFor
<1> QED
  BY <1>1, <1>2 DEF StartDrafting

(* What a launch records of the others.                                    *)
LEMMA OthersRecorded ==
    ASSUME RowsTyped, NEW c \in Campaign, StartDrafting(c), NEW e \in Campaign \ {c}
    PROVE  /\ e \in excused' <=> e \in excused
           /\ \A l \in Lead : <<e, l>> \in tried => <<e, l>> \in tried'
<1>1. e \in excused' <=> e \in excused
  BY DEF StartDrafting
<1>2. ASSUME NEW l \in Lead, <<e, l>> \in tried PROVE <<e, l>> \in tried'
  <2>1. <<e, l>>[1] # c
    OBVIOUS
  <2> QED
    BY <1>2, <2>1 DEF StartDrafting
<1> QED
  BY <1>1, <1>2

LEMMA CareUser ==
    ASSUME RowsTyped, Cared, DraftsLast, NEW t \in Tab, UserStep(t), NEW e \in Campaign
    PROVE  CaresFor(e)'
<1> DEFINE c == act[t].campaign
<1>0. act[t] \in ActRow /\ c \in Campaign /\ CaresFor(e)
  BY DEF RowsTyped, ActRow, Cared
<1>1. ASSUME UNCHANGED <<statusOf, members, jobsOf, excused, tried>> PROVE CaresFor(e)'
  <2>1. NoneNew(e) /\ JobsCarry(e)
    BY <1>1, CarrySame DEF NoneNew
  <2> QED
    BY <1>0, <2>1, CareKept
<1>2. ASSUME StartDrafting(c), e # c => statusOf'[e] = statusOf[e],
             \A l \in Lead : e # c /\ <<e, l>> \in members' => <<e, l>> \in members
      PROVE  CaresFor(e)'
  <2>1. CASE e = c
    BY <1>0, <1>2, <2>1, CareLaunched
  <2>2. CASE e # c
    <3>1. NoneNew(e)
      BY <1>0, <1>2, <2>2, OthersRecorded DEF NoneNew
    <3>2. JobsCarry(e)
      BY <1>0, <1>2, <2>2, CareLaunched
    <3> QED
      BY <1>0, <3>1, <3>2, CareKept
  <2> QED
    BY <2>1, <2>2
<1>3. CASE WriteStatus(t)
  <2>1. CASE statusOf[c] = "deleted"
    BY <1>1, <1>3, <2>1 DEF WriteStatus
  <2>2. CASE statusOf[c] # "deleted"
    <3>1. statusOf' = [statusOf EXCEPT ![c] = act[t].what] /\ members' = members
      BY <1>3, <2>2 DEF WriteStatus
    <3>2. CASE StartDrafting(c)
      BY <1>0, <1>2, <3>1, <3>2 DEF RowsTyped
    <3>3. CASE ~StartDrafting(c)
      <4>1. /\ jobsOf' = jobsOf /\ tried' = tried
            /\ ~(act[t].what = "active" /\ LaunchesFrom(act[t].read))
            /\ excused' = IF act[t].read = "active" /\ statusOf[c] # "active" THEN excused \cup {c} ELSE excused
            /\ act[t].what \in {"active", "paused"}
        BY <1>3, <2>2, <3>3 DEF WriteStatus
      <4>2. e # c => statusOf'[e] = statusOf[e]
        BY <3>1 DEF RowsTyped
      <4>3. e = c => statusOf'[e] = act[t].what
        BY <1>0, <3>1 DEF RowsTyped
      <4>4. NoneNew(e)
        BY <3>1, <4>1, <4>2, <4>3 DEF NoneNew, LaunchesFrom
      <4> QED
        BY <1>0, <4>1, <4>4, CareKept, CarrySame
    <3> QED
      BY <3>2, <3>3
  <2> QED
    BY <2>1, <2>2
<1>4. CASE JoinCampaign(t)
  <2> DEFINE pair == <<c, act[t].lead>>
  <2>1. statusOf' = statusOf /\ (members' = members \/ members' = members \cup {pair})
    BY <1>4 DEF JoinCampaign
  <2>2. \A l \in Lead : e # c /\ <<e, l>> \in members' => <<e, l>> \in members
    BY <2>1
  <2>3. CASE StartDrafting(c)
    BY <1>2, <2>1, <2>2, <2>3
  <2>4. CASE ~StartDrafting(c)
    <3>1. \/ UNCHANGED <<statusOf, members, jobsOf, tried, excused>>
          \/ /\ excused' = IF statusOf[c] = "active" THEN excused \cup {c} ELSE excused
             /\ jobsOf' = jobsOf /\ tried' = tried
      BY <1>4, <2>4 DEF JoinCampaign
    <3>2. CASE UNCHANGED <<statusOf, members, jobsOf, tried, excused>>
      BY <1>1, <3>2
    <3>3. CASE /\ excused' = IF statusOf[c] = "active" THEN excused \cup {c} ELSE excused
               /\ jobsOf' = jobsOf /\ tried' = tried
      <4>1. NoneNew(e)
        BY <2>1, <2>2, <3>3 DEF NoneNew
      <4> QED
        BY <1>0, <3>3, <4>1, CareKept, CarrySame
    <3> QED
      BY <3>1, <3>2, <3>3
  <2> QED
    BY <2>3, <2>4
<1>5. CASE ~WriteStatus(t) /\ ~JoinCampaign(t)
  BY <1>1, <1>5 DEF UserStep, ReadStatus, ReadForAdd, Ask, CheckAdd
<1> QED
  BY <1>3, <1>4, <1>5

LEMMA CareCampaign ==
    ASSUME RowsTyped, Cared, DraftsLast, NEW c \in Campaign, NEW e \in Campaign,
           \/ DropCampaign(c) \/ \E l \in Lead : RemoveMember(c, l)
           \/ PauseResume(c, "active") \/ PauseResume(c, "paused")
    PROVE  CaresFor(e)'
<1>1. jobsOf' = jobsOf /\ tried' = tried /\ CaresFor(e)
  BY DEF DropCampaign, RemoveMember, PauseResume, Cared
<1>2. NoneNew(e)
  <2>1. CASE DropCampaign(c)
    BY <1>1, <2>1 DEF DropCampaign, NoneNew, RowsTyped
  <2>2. CASE \E l \in Lead : RemoveMember(c, l)
    BY <1>1, <2>2 DEF RemoveMember, NoneNew
  <2>3. CASE PauseResume(c, "active") \/ PauseResume(c, "paused")
    BY <1>1, <2>3 DEF PauseResume, NoneNew, RowsTyped
  <2> QED
    BY <2>1, <2>2, <2>3
<1> QED
  BY <1>1, <1>2, CareKept, CarrySame

LEMMA CareJob ==
    ASSUME RowsTyped, Cared, Handling, DraftsLast, NEW j \in 1 .. Len(jobsOf), DraftJobStep(j), NEW e \in Campaign
    PROVE  CaresFor(e)'
<1> DEFINE old == jobsOf[j]
<1>1. old \in JobRow /\ CaresFor(e) /\ GoodRow(old, hook)
  BY JobRead DEF Cared, Handling
<1>2. /\ statusOf' = statusOf /\ members' = members /\ drafts' = drafts /\ tried' = tried
      /\ excused' = excused \/ excused' = excused \cup {old.campaign}
  BY DEF DraftJobStep, ReadCampaign, TakeLead, CutJob, AnswerLate, PostDraft
<1>3. NoneNew(e)
  BY <1>2 DEF NoneNew
<1>4. ASSUME NEW row \in JobRow, jobsOf' = [jobsOf EXCEPT ![j] = row], row.campaign = old.campaign,
             row.campaign = e /\ e \notin excused' /\ statusOf[e] = "active" =>
               \A l \in Lead : <<e, l>> \in members /\ Awaits(j, l) =>
                 \/ DraftsOf(e, l) # {} \/ row.stage = "queued"
                 \/ row.stage = "working" /\ l \in row.todo \cup row.hand
      PROVE  CaresFor(e)'
  <2>1. jobsOf'[j] = row
    BY <1>4, JobWritten
  <2>2. \A l \in Lead : DraftsOf(e, l)' = DraftsOf(e, l)
    BY <1>2 DEF DraftsOf, DraftIds
  <2>3. row.campaign = e /\ e \notin excused' /\ statusOf'[e] = "active" =>
          \A l \in Lead : <<e, l>> \in members' /\ Awaits(j, l) => Awaits(j, l)' \/ DraftsOf(e, l)' # {}
    BY <1>2, <1>4, <2>1, <2>2 DEF Awaits
  <2>4. JobsCarry(e)
    BY <1>4, <2>3, CarryWritten
  <2> QED
    BY <1>1, <1>3, <2>4, CareKept
<1>5. CASE ReadCampaign(j)
  <2> DEFINE left == {l \in Lead : <<old.campaign, l>> \in members /\ DraftsOf(old.campaign, l) = {}}
             row == [old EXCEPT !.stage = IF statusOf[old.campaign] = "deleted" THEN "over" ELSE "working",
                                !.todo = left]
  <2>1. jobsOf' = [jobsOf EXCEPT ![j] = row]
    BY <1>5 DEF ReadCampaign
  <2>2. left \in SUBSET Lead
    OBVIOUS
  <2>3. /\ row \in JobRow /\ row.campaign = old.campaign /\ row.todo = left
        /\ row.stage = IF statusOf[old.campaign] = "deleted" THEN "over" ELSE "working"
    <3> HIDE DEF left
    <3> QED
      BY <1>1, <2>2 DEF JobRow
  <2> HIDE DEF row
  <2>4. ASSUME row.campaign = e, statusOf[e] = "active", NEW l \in Lead, <<e, l>> \in members
        PROVE  DraftsOf(e, l) # {} \/ (row.stage = "working" /\ l \in row.todo \cup row.hand)
    BY <2>3, <2>4
  <2> QED
    BY <1>4, <2>1, <2>3, <2>4
<1>6. CASE TakeLead(j)
  <2>1. old.stage = "working" /\ old.hand = {} /\ \A l \in Lead : Awaits(j, l) => l \in old.todo
    BY <1>6 DEF TakeLead, Awaits
  <2>2. CASE old.todo = {}
    <3> DEFINE row == [old EXCEPT !.stage = "over"]
    <3>1. jobsOf' = [jobsOf EXCEPT ![j] = row] /\ row \in JobRow /\ row.campaign = old.campaign
      BY <1>1, <1>6, <2>2 DEF TakeLead, JobRow
    <3> HIDE DEF row
    <3> QED
      BY <1>4, <2>1, <2>2, <3>1
  <2>3. CASE old.todo # {}
    <3>1. PICK l \in old.todo : jobsOf' = [jobsOf EXCEPT ![j].hand = {l}, ![j].todo = @ \ {l}]
      BY <1>6, <2>3 DEF TakeLead
    <3> DEFINE row == [old EXCEPT !.hand = {l}, !.todo = old.todo \ {l}]
    <3>2. jobsOf' = [jobsOf EXCEPT ![j] = row]
      BY <3>1, <1>1 DEF JobRow
    <3>3. /\ row \in JobRow /\ row.campaign = old.campaign
          /\ row.stage = "working" /\ row.hand = {l} /\ row.todo = old.todo \ {l}
      BY <1>1, <2>1 DEF JobRow
    <3> HIDE DEF row
    <3> QED
      BY <1>4, <2>1, <3>2, <3>3
  <2> QED
    BY <2>2, <2>3
<1>7. CASE CutJob(j)
  <2> DEFINE row == [old EXCEPT !.stage = "over", !.todo = {}, !.hand = {}, !.waits = {}]
  <2>1. /\ jobsOf' = [jobsOf EXCEPT ![j] = row] /\ row \in JobRow /\ row.campaign = old.campaign
        /\ excused' = excused \cup {old.campaign}
    BY <1>1, <1>7 DEF CutJob, JobRow
  <2> HIDE DEF row
  <2> QED
    BY <1>4, <2>1
<1>8. CASE AnswerLate(j)
  <2>1. CASE jobsOf' = [jobsOf EXCEPT ![j].waits = {}]
    <3> DEFINE row == [old EXCEPT !.waits = {}]
    <3>1. /\ jobsOf' = [jobsOf EXCEPT ![j] = row] /\ row \in JobRow /\ row.campaign = old.campaign
          /\ row.stage = old.stage /\ row.todo = old.todo /\ row.hand = old.hand
      BY <1>1, <2>1 DEF JobRow
    <3> HIDE DEF row
    <3> QED
      BY <1>4, <3>1 DEF Awaits
  <2>2. CASE /\ jobsOf' = [jobsOf EXCEPT ![j].waits = {}, ![j].hand = {}]
             /\ excused' = excused \cup {old.campaign}
    <3> DEFINE row == [old EXCEPT !.waits = {}, !.hand = {}]
    <3>1. jobsOf' = [jobsOf EXCEPT ![j] = row] /\ row \in JobRow /\ row.campaign = old.campaign
      BY <1>1, <2>2 DEF JobRow
    <3> HIDE DEF row
    <3> QED
      BY <1>4, <2>2, <3>1
  <2> QED
    BY <1>8, <2>1, <2>2 DEF AnswerLate
<1>9. ASSUME NEW h \in Hook, PostDraft(j, h) PROVE CaresFor(e)'
  <2> DEFINE row == [old EXCEPT !.waits = {h}]
  <2>1. /\ jobsOf' = [jobsOf EXCEPT ![j] = row] /\ row \in JobRow /\ row.campaign = old.campaign
        /\ row.stage = old.stage /\ row.todo = old.todo /\ row.hand = old.hand
    BY <1>1, <1>9 DEF JobRow, PostDraft
  <2> HIDE DEF row
  <2> QED
    BY <1>4, <2>1 DEF Awaits
<1> QED
  BY <1>5, <1>6, <1>7, <1>8, <1>9 DEF DraftJobStep

LEMMA CareHook ==
    ASSUME RowsTyped, Cared, Handling, DraftsLast, NEW h \in Hook, HookStep(h), NEW e \in Campaign
    PROVE  CaresFor(e)'
<1>1. /\ statusOf' = statusOf /\ members' = members /\ excused' = excused
      /\ (HookDone(h) \/ (jobsOf' = jobsOf /\ tried' = tried))
  <2>1. CASE CheckDraft(h)
    BY <2>1 DEF CheckDraft
  <2>2. CASE CreateDraft(h)
    BY <2>2 DEF CreateDraft
  <2>3. CASE QueueDraft(h)
    BY <2>3 DEF QueueDraft
  <2> QED
    BY <2>1, <2>2, <2>3 DEF HookStep
<1>2. CaresFor(e) /\ NoneNew(e)
  BY <1>1 DEF Cared, NoneNew, HookDone
<1>3. CASE HookDone(h)
  <2>1. tried' = tried \cup {<<hook[h].campaign, hook[h].lead>>}
    BY <1>3 DEF HookDone
  <2>2. ASSUME NEW j \in 1 .. Len(jobsOf), NEW l \in Lead, jobsOf[j].campaign = e, Awaits(j, l)
        PROVE  Covered(e, l)'
    <3>0. GoodRow(jobsOf[j], hook) /\ j \in 1 .. Len(jobsOf')
      BY <1>3, DoneJobs DEF Handling
    <3>1. CASE jobsOf'[j] = jobsOf[j]
      BY <2>2, <3>0, <3>1 DEF Covered, Awaits
    <3>2. CASE jobsOf'[j] # jobsOf[j]
      <4>1. /\ jobsOf'[j].campaign = e /\ jobsOf'[j].stage = jobsOf[j].stage /\ jobsOf'[j].todo = jobsOf[j].todo
            /\ hook[h].campaign = e /\ jobsOf[j].hand = {hook[h].lead}
        BY <1>3, <2>2, <3>2, DoneJobs
      <4>2. CASE l = hook[h].lead
        <5>1. <<e, l>> \in tried'
          BY <2>1, <4>1, <4>2
        <5> QED
          BY <5>1 DEF Covered
      <4>3. CASE l # hook[h].lead
        BY <2>2, <3>0, <4>1, <4>3 DEF Covered, Awaits
      <4> QED
        BY <4>2, <4>3
    <3> QED
      BY <3>1, <3>2
  <2> QED
    BY <1>2, <2>2, CareKept DEF JobsCarry
<1>4. CASE jobsOf' = jobsOf
  BY <1>2, <1>4, CareKept, CarrySame
<1> QED
  BY <1>1, <1>3, <1>4

LEMMA CaredStep == RowsTyped /\ Held /\ InReview /\ Handling /\ Cared /\ [DraftsNext]_draftsVars => Cared'
<1> SUFFICES ASSUME RowsTyped, Held, InReview, Handling, Cared, [DraftsNext]_draftsVars, NEW e \in Campaign
             PROVE  CaresFor(e)'
  BY DEF Cared
<1>1. DraftsLast
  BY LastStep
<1>2. ASSUME UNCHANGED <<statusOf, members, jobsOf, tried, excused>> PROVE CaresFor(e)'
  BY <1>1, <1>2, CareKept, CarrySame DEF NoneNew, Cared
<1>3. ASSUME NEW d \in DraftIds, ProcessItem(d) PROVE CaresFor(e)'
  BY <1>2, <1>3 DEF ProcessItem
<1>4. CASE UNCHANGED draftsVars
  BY <1>2, <1>4 DEF draftsVars
<1>5. ASSUME NEW h \in Hook, NEW c \in Campaign, NEW l \in Lead, WriteByHand(h, c, l) PROVE CaresFor(e)'
  BY <1>2, <1>5 DEF WriteByHand
<1>6. CASE ReviewNext
  BY <1>2, <1>6 DEF ReviewNext
<1> QED
  BY <1>1, <1>3, <1>4, <1>5, <1>6, CareUser, CareCampaign, CareJob, CareHook DEF DraftsNext, CampaignNext

(* An active campaign whose jobs are over has none of its leads forgotten: *)
(* each was handled since its launch, has a draft, or the campaign is      *)
(* excused by a fault, a stale write or a resume.                          *)
THEOREM LaunchesReachAll == DraftsSpec => []NoneForgotten
<1>1. DraftsInit => Handling /\ Cared
  BY DEF DraftsInit, Handling, Cared, CaresFor
<1>2. DraftsInv /\ (Handling /\ Cared) /\ [DraftsNext]_draftsVars => (Handling /\ Cared)'
  BY HandlingStep, CaredStep DEF DraftsInv, Followed
<1>3. Cared => NoneForgotten
  BY DEF Cared, CaresFor, Covered, Awaits, NoneForgotten, QuietIn
<1> QED
  BY <1>1, <1>2, <1>3, DraftsInvAlways, PTL DEF DraftsSpec

-----------------------------------------------------------------------------
(* Types that several tables have to agree on                              *)

(* No lead is left in a campaign that is gone, and every event names a     *)
(* draft that there is, or none.                                           *)
Alive == \A p \in members : statusOf[p[1]] # "deleted"
Numbered == \A h \in Hook : hook[h].draft \in 0 .. Len(drafts)

LEMMA AliveStep == RowsTyped /\ Alive /\ [DraftsNext]_draftsVars => Alive'
<1> SUFFICES ASSUME RowsTyped, Alive, [DraftsNext]_draftsVars PROVE Alive'
  OBVIOUS
<1>0. \A p \in members : p[1] \in Campaign
  BY DEF RowsTyped
<1>1. ASSUME UNCHANGED <<statusOf, members>> PROVE Alive'
  BY <1>1 DEF Alive
<1>2. ASSUME NEW t \in Tab, UserStep(t) PROVE Alive'
  <2> DEFINE c == act[t].campaign
  <2>0. c \in Campaign /\ statusOf \in [Campaign -> CampaignStatus]
    BY DEF RowsTyped, ActRow
  <2>1. CASE WriteStatus(t)
    <3>1. UNCHANGED <<statusOf, members>> \/
          (members' = members /\ act[t].what \in {"active", "paused"} /\ statusOf' = [statusOf EXCEPT ![c] = act[t].what])
      BY <2>1 DEF WriteStatus
    <3> QED
      BY <1>0, <1>1, <2>0, <3>1 DEF Alive
  <2>2. CASE JoinCampaign(t)
    <3>1. statusOf' = statusOf /\ (members' = members \/ (statusOf[c] # "deleted" /\ members' = members \cup {<<c, act[t].lead>>}))
      BY <2>2 DEF JoinCampaign
    <3> QED
      BY <1>0, <3>1 DEF Alive
  <2>3. CASE ~WriteStatus(t) /\ ~JoinCampaign(t)
    BY <1>1, <1>2, <2>3 DEF UserStep, ReadStatus, ReadForAdd, Ask, CheckAdd
  <2> QED
    BY <2>1, <2>2, <2>3
<1>3. ASSUME NEW c \in Campaign, DropCampaign(c) PROVE Alive'
  BY <1>0, <1>3 DEF DropCampaign, Alive, RowsTyped
<1>4. ASSUME NEW c \in Campaign, NEW l \in Lead, RemoveMember(c, l) PROVE Alive'
  BY <1>4 DEF RemoveMember, Alive
<1>5. ASSUME NEW c \in Campaign, PauseResume(c, "active") \/ PauseResume(c, "paused") PROVE Alive'
  BY <1>0, <1>5 DEF PauseResume, Alive, RowsTyped
<1>6. ASSUME NEW j \in 1 .. Len(jobsOf), DraftJobStep(j) PROVE Alive'
  BY <1>1, <1>6, DraftJobEffect DEF JobEffect
<1>7. ASSUME NEW h \in Hook, HookStep(h) PROVE Alive'
  <2>1. UNCHANGED <<statusOf, members>>
    <3>1. CASE CheckDraft(h)
      BY <3>1 DEF CheckDraft
    <3>2. CASE CreateDraft(h)
      BY <3>2 DEF CreateDraft
    <3>3. CASE QueueDraft(h)
      BY <3>3 DEF QueueDraft
    <3> QED
      BY <1>7, <3>1, <3>2, <3>3 DEF HookStep
  <2> QED
    BY <1>1, <2>1
<1>8. ASSUME NEW d \in DraftIds, ProcessItem(d) PROVE Alive'
  BY <1>1, <1>8 DEF ProcessItem
<1>9. CASE UNCHANGED draftsVars
  BY <1>1, <1>9 DEF draftsVars
<1>10. ASSUME NEW h \in Hook, NEW c \in Campaign, NEW l \in Lead, WriteByHand(h, c, l) PROVE Alive'
  BY <1>1, <1>10 DEF WriteByHand
<1>11. CASE ReviewNext
  BY <1>1, <1>11 DEF ReviewNext
<1> QED
  BY <1>2, <1>3, <1>4, <1>5, <1>6, <1>7, <1>8, <1>9, <1>10, <1>11 DEF DraftsNext, CampaignNext

LEMMA NumberedStep == RowsTyped /\ Held /\ InReview /\ Numbered /\ [DraftsNext]_draftsVars => Numbered'
<1> SUFFICES ASSUME RowsTyped, Held, InReview, Numbered, [DraftsNext]_draftsVars PROVE Numbered'
  OBVIOUS
<1>1. Len(drafts) \in Nat /\ Len(drafts') \in Nat /\ RowsTyped'
  <2>1. RowsTyped'
    BY TypedStep DEF RowsTyped, draftsVars
  <2> QED
    BY <2>1, LenProperties DEF RowsTyped
<1>2. Len(drafts) <= Len(drafts')
  BY <1>1, LastStep DEF DraftsLast, DraftIds
<1>3. ASSUME \A h \in Hook : \/ hook'[h] = hook[h] \/ hook'[h].draft = 0 \/ hook'[h].draft = hook[h].draft
      PROVE  Numbered'
  BY <1>1, <1>2, <1>3 DEF Numbered
<1>4. NoEvent.draft = 0
  BY DEF NoEvent
<1>5. ASSUME NEW h \in Hook, HookDone(h) PROVE Numbered'
  BY <1>3, <1>4, <1>5 DEF HookDone, RowsTyped
<1>6. ASSUME NEW j \in 1 .. Len(jobsOf), DraftJobStep(j) PROVE Numbered'
  <2>1. ASSUME NEW h \in Hook, PostDraft(j, h) PROVE Numbered'
    <3>1. PICK l \in jobsOf[j].hand :
            hook' = [hook EXCEPT ![h] = [NoEvent EXCEPT !.stage = "check", !.campaign = jobsOf[j].campaign, !.lead = l]]
      BY <2>1 DEF PostDraft
    <3> DEFINE event == [NoEvent EXCEPT !.stage = "check", !.campaign = jobsOf[j].campaign, !.lead = l]
    <3>2. event.draft = 0
      BY DEF NoEvent
    <3> HIDE DEF event
    <3>3. \A g \in Hook : hook'[g] = hook[g] \/ hook'[g] = event
      BY <3>1 DEF RowsTyped, event
    <3> QED
      BY <1>3, <3>2, <3>3
  <2>2. CASE hook' = hook
    BY <1>3, <2>2
  <2> QED
    BY <1>6, <2>1, <2>2 DEF DraftJobStep, ReadCampaign, TakeLead, CutJob, AnswerLate
<1>7. ASSUME NEW h \in Hook, HookStep(h) PROVE Numbered'
  <2>1. CASE HookDone(h)
    BY <1>5, <2>1
  <2>2. CASE CheckDraft(h) /\ ~HookDone(h)
    <3>1. hook' = [hook EXCEPT ![h].stage = "create"]
      BY <2>2 DEF CheckDraft
    <3>2. hook[h] \in EventRow
      BY DEF RowsTyped
    <3>3. [hook[h] EXCEPT !.stage = "create"].draft = hook[h].draft
      BY <3>2 DEF EventRow
    <3>4. \A g \in Hook : hook'[g] = hook[g] \/ hook'[g].draft = hook[g].draft
      BY <3>1, <3>3 DEF RowsTyped
    <3> QED
      BY <1>3, <3>4
  <2>3. CASE CreateDraft(h) /\ ~HookDone(h)
    <3>1. statusOf[hook[h].campaign] # "deleted"
      BY <2>3 DEF CreateDraft
    <3>2. /\ hook'[h].draft = Len(drafts) + 1 /\ Len(drafts') = Len(drafts) + 1
          /\ \A g \in Hook : g # h => hook'[g] = hook[g]
      BY <2>3, <3>1, CreateEffect DEF Appended
    <3> QED
      BY <1>1, <1>2, <3>2 DEF Numbered
  <2> QED
    BY <1>7, <2>1, <2>2, <2>3 DEF HookStep, QueueDraft
<1>8. CASE hook' = hook
  BY <1>3, <1>8
<1>9. ASSUME NEW t \in Tab, UserStep(t) PROVE hook' = hook
  BY <1>9, UserStepEffect DEF UserEffect
<1>10. ASSUME NEW c \in Campaign, \/ DropCampaign(c) \/ \E l \in Lead : RemoveMember(c, l)
                                  \/ PauseResume(c, "active") \/ PauseResume(c, "paused")
       PROVE hook' = hook
  BY <1>10 DEF DropCampaign, RemoveMember, PauseResume
<1>11. ASSUME NEW d \in DraftIds, ProcessItem(d) PROVE hook' = hook
  BY <1>11 DEF ProcessItem
<1>12. ASSUME NEW h \in Hook, NEW c \in Campaign, NEW l \in Lead, WriteByHand(h, c, l) PROVE Numbered'
  BY <1>3, <1>12, WriteEffect DEF HandWritten
<1>13. CASE ReviewNext
  BY <1>8, <1>13 DEF ReviewNext
<1> QED
  BY <1>6, <1>7, <1>8, <1>9, <1>10, <1>11, <1>12, <1>13 DEF DraftsNext, CampaignNext, draftsVars

(* The tables of campaigns, drafts, requests, jobs and events keep their   *)
(* types: members are of campaigns that are there, a job has one lead in   *)
(* hand at most and none of those still to do, an event names a draft.     *)
THEOREM DraftsTypesCorrect == DraftsSpec => []DraftsTypeOK
<1>1. DraftsInit => Handling /\ Alive /\ Numbered
  <2> SUFFICES ASSUME DraftsInit PROVE Handling /\ Alive /\ Numbered
    OBVIOUS
  <2>1. Handling
    BY DEF DraftsInit, Handling
  <2>2. Alive
    BY DraftsAssumption DEF DraftsInit, Alive
  <2>3. Numbered
    BY DEF DraftsInit, Numbered, NoEvent
  <2> QED
    BY <2>1, <2>2, <2>3
<1>2. DraftsInv /\ (Handling /\ Alive /\ Numbered) /\ [DraftsNext]_draftsVars => (Handling /\ Alive /\ Numbered)'
  BY HandlingStep, AliveStep, NumberedStep DEF DraftsInv, Followed
<1>3. DraftsInv /\ Handling /\ Alive /\ Numbered => DraftsTypeOK
  <2> SUFFICES ASSUME RowsTyped, InReview, Handling, Alive, Numbered PROVE DraftsTypeOK
    BY DEF DraftsInv
  <2>1. /\ statusOf \in [Campaign -> {"draft", "active", "paused", "deleted"}]
        /\ members \subseteq {p \in Campaign \X Lead : statusOf[p[1]] # "deleted"}
        /\ \A t \in Tab : act[t].what \in {"none", "active", "paused", "add", "join"}
    BY DEF RowsTyped, CampaignStatus, Alive, ActRow
  <2>2. \A d \in DraftIds : /\ drafts[d].campaign \in Campaign /\ drafts[d].lead \in Lead
                            /\ drafts[d].status \in {"approved", "sent", "cancelled", "deleted"}
                            /\ drafts[d].row \in {"none", "pending", "sent", "blocked", "cancelled"}
                            /\ drafts[d].delivered \in BOOLEAN
    BY DraftRead DEF DraftRow
  <2>3. ASSUME NEW j \in 1 .. Len(jobsOf)
        PROVE  /\ jobsOf[j].stage \in {"queued", "working", "over"}
               /\ Cardinality(jobsOf[j].hand) <= 1
               /\ jobsOf[j].waits \subseteq Hook
               /\ jobsOf[j].hand \cap jobsOf[j].todo = {}
    <3>1. jobsOf[j] \in JobRow /\ GoodRow(jobsOf[j], hook)
      BY JobRead DEF Handling
    <3>2. jobsOf[j].hand = {} \/ \E l \in jobsOf[j].hand : jobsOf[j].hand = {l}
      BY <3>1 DEF GoodRow
    <3>3. Cardinality(jobsOf[j].hand) <= 1
      <4>1. CASE jobsOf[j].hand = {}
        <5>1. Cardinality({}) = 0
          BY FS_EmptySet
        <5> QED
          BY <4>1, <5>1
      <4>2. ASSUME NEW l \in jobsOf[j].hand, jobsOf[j].hand = {l} PROVE Cardinality(jobsOf[j].hand) <= 1
        <5>1. Cardinality({l}) = 1
          BY FS_Singleton
        <5> QED
          BY <4>2, <5>1
      <4> QED
        BY <3>2, <4>1, <4>2
    <3> QED
      BY <3>1, <3>3 DEF JobRow, GoodRow
  <2>4. \A h \in Hook : hook[h].stage \in {"free", "check", "create", "queue"} /\ hook[h].draft \in 0 .. Len(drafts)
    BY DEF RowsTyped, EventRow, Numbered
  <2>5. /\ \A r \in Reviewer : review[r].stage \in {"free", "ask", "mark", "queue"} /\ review[r].draft \in 0 .. Len(drafts)
        /\ reopened \subseteq DraftIds
    BY DEF InReview, ReviewRow
  <2> QED
    BY <2>1, <2>2, <2>3, <2>4, <2>5 DEF DraftsTypeOK
<1> QED
  BY <1>1, <1>2, <1>3, DraftsInvAlways, PTL DEF DraftsSpec

-----------------------------------------------------------------------------
(***************************************************************************)
(* The wizard for a new campaign                                           *)
(***************************************************************************)
(* The elements of a finite set of numbers in order, as the database       *)
(* returns rows and the page its deletions.                                *)
Rank(S, i) == Cardinality({m \in S : m <= i})
Nth(S, k) == CHOOSE i \in S : Cardinality({m \in S : m <= i}) = k

LEMMA RankIs ==
    ASSUME NEW S, S \subseteq Int, IsFiniteSet(S), NEW i \in S
    PROVE  Rank(S, i) \in 1 .. Cardinality(S) /\ Cardinality(S) \in Nat
<1> DEFINE A == {m \in S : m <= i}
<1>1. A \in SUBSET S /\ i \in A
  OBVIOUS
<1> HIDE DEF A
<1>2. IsFiniteSet(A) /\ Cardinality(A) <= Cardinality(S) /\ A # {}
  BY <1>1, FS_Subset
<1>3. Cardinality(A) \in Nat /\ Cardinality(S) \in Nat /\ Cardinality(A) # 0
  BY <1>2, FS_CardinalityType, FS_EmptySet
<1> DEFINE a == Cardinality(A)
           c == Cardinality(S)
<1>4. a \in Nat /\ c \in Nat /\ a # 0 /\ a <= c
  BY <1>2, <1>3
<1> HIDE DEF a, c
<1>5. a \in 1 .. c
  BY <1>4
<1> QED
  BY <1>3, <1>5 DEF Rank, A, a, c

LEMMA RankGrows ==
    ASSUME NEW S, S \subseteq Int, IsFiniteSet(S), NEW i \in S, NEW j \in S, i < j
    PROVE  Rank(S, i) # Rank(S, j)
<1> DEFINE A == {m \in S : m <= i}
           B == {m \in S : m <= j}
<1>0. i \in Int /\ j \in Int /\ \A m \in S : m \in Int
  OBVIOUS
<1>1. A \in SUBSET B /\ j \in B /\ j \notin A /\ B \in SUBSET S
  <2>1. A \in SUBSET B
    <3>1. ASSUME NEW m \in A PROVE m \in B
      <4>1. m \in S /\ m <= i /\ m \in Int
        BY <1>0
      <4>2. m <= j
        BY <1>0, <4>1
      <4> QED
        BY <4>1, <4>2
    <3> QED
      BY <3>1
  <2>2. j \in B /\ B \in SUBSET S
    BY <1>0
  <2>3. j \notin A
    BY <1>0
  <2> QED
    BY <2>1, <2>2, <2>3
<1> HIDE DEF A, B
<1>2. IsFiniteSet(B)
  BY <1>1, FS_Subset
<1>3. Cardinality(B) = Cardinality(A) => B = A
  BY <1>1, <1>2, FS_Subset
<1>4. Cardinality(B) # Cardinality(A)
  BY <1>1, <1>3
<1> QED
  BY <1>4 DEF Rank, A, B

LEMMA RankMeets ==
    ASSUME NEW S, S \subseteq Int, IsFiniteSet(S), NEW k \in 1 .. Cardinality(S)
    PROVE  \E i \in S : Rank(S, i) = k
<1> DEFINE T == 1 .. Cardinality(S)
           f == [i \in S |-> Rank(S, i)]
<1>1. Cardinality(S) \in Nat
  BY FS_CardinalityType
<1>2. IsFiniteSet(T) /\ Cardinality(T) = Cardinality(S)
  <2> DEFINE c == Cardinality(S)
  <2>1. c \in Int /\ ~(1 > c /\ c # 0) /\ c - 1 + 1 = c
    BY <1>1
  <2> HIDE DEF c
  <2>2. IsFiniteSet(1 .. c) /\ Cardinality(1 .. c) = IF 1 > c THEN 0 ELSE c - 1 + 1
    BY <2>1, FS_Interval
  <2>3. IsFiniteSet(1 .. c) /\ Cardinality(1 .. c) = c
    BY <2>1, <2>2
  <2> QED
    BY <2>3 DEF c
<1>3. f \in [S -> T]
  BY RankIs
<1>4. \A i, j \in S : f[i] = f[j] => i = j
  <2> SUFFICES ASSUME NEW i \in S, NEW j \in S, f[i] = f[j], i # j PROVE FALSE
    OBVIOUS
  <2>1. i < j \/ j < i
    OBVIOUS
  <2>2. Rank(S, i) = Rank(S, j)
    OBVIOUS
  <2> QED
    BY <2>1, <2>2, RankGrows
<1> HIDE DEF f, T
<1>5. f \in Injection(S, T)
  BY <1>3, <1>4 DEF Injection, IsInjective
<1>6. f \in Surjection(S, T)
  BY <1>2, <1>5, FS_Injection
<1>7. k \in T
  BY DEF T
<1>8. \E i \in S : f[i] = k
  BY <1>6, <1>7 DEF Surjection
<1> QED
  BY <1>8 DEF f

LEMMA Enumerated ==
    ASSUME NEW S, S \subseteq Int, IsFiniteSet(S)
    PROVE  /\ \A k \in 1 .. Cardinality(S) : Nth(S, k) \in S
           /\ \A j, k \in 1 .. Cardinality(S) : j # k => Nth(S, j) # Nth(S, k)
           /\ \A i \in S : \E k \in 1 .. Cardinality(S) : Nth(S, k) = i
<1>1. ASSUME NEW k \in 1 .. Cardinality(S) PROVE Nth(S, k) \in S /\ Rank(S, Nth(S, k)) = k
  <2>1. \E i \in S : Cardinality({m \in S : m <= i}) = k
    BY RankMeets DEF Rank
  <2>2. Nth(S, k) \in S /\ Cardinality({m \in S : m <= Nth(S, k)}) = k
    BY <2>1, Zenon DEF Nth
  <2> QED
    BY <2>2 DEF Rank
<1>2. ASSUME NEW j \in 1 .. Cardinality(S), NEW k \in 1 .. Cardinality(S), j # k PROVE Nth(S, j) # Nth(S, k)
  BY <1>1, <1>2, Zenon
<1>3. ASSUME NEW i \in S PROVE \E k \in 1 .. Cardinality(S) : Nth(S, k) = i
  <2> DEFINE k == Rank(S, i)
             x == Nth(S, k)
  <2>1. k \in 1 .. Cardinality(S)
    BY RankIs
  <2>2. x \in S /\ Rank(S, x) = k
    BY <1>1, <2>1
  <2>3. x = i
    <3> HIDE DEF x
    <3>1. i \in Int /\ x \in Int
      BY <2>2
    <3>2. x = i \/ x < i \/ i < x
      BY <3>1
    <3>3. Rank(S, x) = Rank(S, i)
      BY <2>2
    <3> QED
      BY <2>2, <3>2, <3>3, RankGrows
  <2> QED
    BY <2>1, <2>3
<1> QED
  BY <1>1, <1>2, <1>3

(* The texts that a template can have; of one that is deleted, none.       *)
WizardText == {Typed, Fresh} \cup {Generated[g] : g \in 1 .. Len(Generated)}
AnyText == WizardText \cup {""}
MemoryRow == [campaign : Nat, text : AnyText]
ShownRow == [id : Int, text : WizardText]
SaveStep == [id : Int, text : AnyText]
AnalysisRow == [campaign : Nat, status : {"pending", "failed", "completed"}, hook : SUBSET Hooks,
                phase : {"crawling", "reporting", "again", "closing", "gone"}]
SlotRow == [stage : {"free", "status", "fetch", "show"}, job : Nat, status : {"pending", "failed", "completed"},
            read : Seq(ShownRow)]
HookRow == [job : Nat, next : 1 .. Len(Generated)]

(* The templates of campaign c in memory mem, those of a list that are in  *)
(* the database, and a list that names none of them twice.                 *)
KeptIn(mem, c) == {i \in 1 .. Len(mem) : mem[i].campaign = c /\ mem[i].text # ""}
OldIn(list) == {list[n].id : n \in {m \in 1 .. Len(list) : ~IsNew(list[m])}}
Distinct(list) == \A m, n \in 1 .. Len(list) : m # n /\ ~IsNew(list[m]) => list[m].id # list[n].id

FormTypes ==
  /\ step \in {"form", "crawl", "review", "left"} /\ submitting \in {"no", "creating", "starting", "restarting"}
  /\ campaigns \in Nat /\ campaignId \in 0 .. campaigns /\ jobStatus \in {"pending", "failed", "completed"}
  /\ stopped \in BOOLEAN
  /\ submitting \in {"starting", "restarting"} \/ step = "crawl" => campaignId # 0
AnalysisTypes ==
  /\ analyses \in Seq(AnalysisRow) /\ \A j \in 1 .. Len(analyses) : analyses[j].campaign \in 1 .. campaigns
  /\ jobId \in 0 .. Len(analyses)
SlotFits(s, jobs, rows) ==
  /\ s \in SlotRow /\ (s.stage # "free" => s.job \in 1 .. jobs)
  /\ \A n \in 1 .. Len(s.read) : s.read[n].id \in 1 .. rows
HookFits(e, jobs) == e \in HookRow /\ (e # IdleHook => e.job \in 1 .. jobs)
RowFits(t, rows) == t.id \in -MaxWizardActs .. rows /\ t.id # 0
Doable(rows, r) == r.id # 0 /\ (r.id > 0 => r.id \in 1 .. rows)
SlotTypes == slots \in [Slots -> SlotRow] /\ \A k \in Slots : SlotFits(slots[k], Len(analyses), Len(memories))
HookTypes == hooks \in [Hooks -> HookRow] /\ \A h \in Hooks : HookFits(hooks[h], Len(analyses))
ReviewTypes ==
  /\ memories \in Seq(MemoryRow) /\ emailTemplates \in Seq(ShownRow) /\ deletedTemplateIds \subseteq 1 .. Len(memories)
  /\ \A i \in 1 .. Len(emailTemplates) : RowFits(emailTemplates[i], Len(memories))
SaveRow == [on : BOOLEAN, requests : Seq(SaveStep), confirmed : Seq(ShownRow)]
SaveTypes == saving \in SaveRow /\ \A k \in 1 .. Len(saving.requests) : Doable(Len(memories), saving.requests[k])
HistoryTypes ==
  /\ late \in BOOLEAN /\ replaced \in BOOLEAN /\ halfSaved \in BOOLEAN /\ ignored \in BOOLEAN
  /\ wizardActs \in 0 .. MaxWizardActs /\ wizardFaults \in Nat
WizardTypes == FormTypes /\ AnalysisTypes /\ SlotTypes /\ HookTypes /\ ReviewTypes /\ SaveTypes /\ HistoryTypes

(* What was read is all that the campaign has.                             *)
ReadAll(mem, list, c) == OldIn(list) = KeptIn(mem, c) /\ Distinct(list)

(* The list on the page has all that the campaign has, but for what was    *)
(* deleted on the page.                                                    *)
ListedIn(mem, list, deleted, c) ==
  OldIn(list) \subseteq KeptIn(mem, c) /\ KeptIn(mem, c) \subseteq OldIn(list) \cup deleted

(* Of a save that has the requests q before it, for the list that was      *)
(* confirmed: of that list the first p are done, as the rows f.            *)
DoneOf(q, list) == IF Len(q) < Len(list) THEN Len(list) - Len(q) ELSE 0
PendingIn(q, list) == {q[k].id : k \in 1 .. Len(q) - Len(list)}
Aligned(q, list) ==
  /\ \A k \in 1 .. Len(q) : k - (Len(q) - Len(list)) >= 1 => q[k] = list[k - (Len(q) - Len(list))]
  /\ \A k \in 1 .. Len(q) - Len(list) : q[k].text = "" /\ q[k].id > 0 /\ q[k].id \notin OldIn(list)
Placed(mem, list, c, p, f) ==
  /\ f \in [1 .. p -> KeptIn(mem, c)] /\ \A m, n \in 1 .. p : m # n => f[m] # f[n]
  /\ \A n \in 1 .. p : /\ mem[f[n]].text = list[n].text
                       /\ IsNew(list[n]) => f[n] \notin OldIn(list)
                       /\ ~IsNew(list[n]) => f[n] = list[n].id
Image(f, p) == {f[n] : n \in 1 .. p}
SavedSoFar(mem, q, list, c) ==
  /\ Aligned(q, list) /\ Distinct(list) /\ OldIn(list) \subseteq KeptIn(mem, c)
  /\ \E f : /\ Placed(mem, list, c, DoneOf(q, list), f)
            /\ KeptIn(mem, c) \subseteq OldIn(list) \cup PendingIn(q, list) \cup Image(f, DoneOf(q, list))

BeforeReview == /\ emailTemplates = <<>> /\ deletedTemplateIds = {} /\ ~saving.on
          /\ \A k \in Slots : slots[k].stage = "show" => ReadAll(memories, slots[k].read, CampaignOf(slots[k].job))
Reviewing ==
  /\ submitting = "no" /\ campaignId # 0 /\ Distinct(emailTemplates) /\ OldIn(emailTemplates) \cap deletedTemplateIds = {}
  /\ ~saving.on => ListedIn(memories, emailTemplates, deletedTemplateIds, campaignId)
  /\ saving.on => /\ SavedSoFar(memories, saving.requests, saving.confirmed, campaignId)
                  /\ OldIn(emailTemplates) \subseteq OldIn(saving.confirmed)
                  /\ OldIn(saving.confirmed) \cup PendingIn(saving.requests, saving.confirmed)
                       \subseteq OldIn(emailTemplates) \cup deletedTemplateIds
Staged ==
  /\ step \in {"form", "crawl"} => BeforeReview
  /\ step \in {"review", "left"} => Reviewing
  /\ step = "left" => saving.on /\ saving.requests = <<>>
WizardInv == WizardTypes /\ (~Blemished => Staged)

LEMMA ListMade ==
    ASSUME NEW S, NEW k \in Nat, NEW f \in [1 .. k -> S]
    PROVE  f \in Seq(S) /\ Len(f) = k
<1>1. f \in Seq(S)
  BY SeqDef
<1>2. DOMAIN f = 1 .. k /\ DOMAIN f = 1 .. Len(f) /\ Len(f) \in Nat
  BY <1>1, LenProperties
<1> QED
  BY <1>1, <1>2

LEMMA KeptFinite ==
    ASSUME NEW mem \in Seq(MemoryRow), NEW c
    PROVE  /\ KeptIn(mem, c) \subseteq 1 .. Len(mem) /\ KeptIn(mem, c) \subseteq Int /\ IsFiniteSet(KeptIn(mem, c))
           /\ Cardinality(KeptIn(mem, c)) \in Nat /\ Len(mem) \in Nat
<1>1. Len(mem) \in Nat /\ KeptIn(mem, c) \subseteq 1 .. Len(mem)
  BY LenProperties DEF KeptIn
<1> DEFINE l == Len(mem)
           K == KeptIn(mem, c)
           T == 1 .. l
<1>2. l \in Nat /\ K \in SUBSET T /\ T \subseteq Int
  BY <1>1
<1>3. IsFiniteSet(T)
  BY <1>2, FS_Interval
<1> HIDE DEF K, T, l
<1>4. IsFiniteSet(K)
  BY <1>2, <1>3, FS_Subset
<1>5. Cardinality(K) \in Nat
  BY <1>4, FS_CardinalityType
<1>6. K \subseteq Int
  BY <1>2
<1> QED
  BY <1>1, <1>4, <1>5, <1>6 DEF K

NamedAs(list, S) == \A n \in 1 .. Cardinality(S) : list[n].id = Nth(S, n)
LEMMA NamedOnce ==
    ASSUME NEW S, NEW list, NamedAs(list, S), Len(list) = Cardinality(S),
           \A n \in 1 .. Cardinality(S) : ~IsNew(list[n]) /\ Nth(S, n) \in S,
           \A m, n \in 1 .. Cardinality(S) : m # n => Nth(S, m) # Nth(S, n),
           \A i \in S : \E n \in 1 .. Cardinality(S) : Nth(S, n) = i
    PROVE  OldIn(list) = S /\ Distinct(list)
<1> DEFINE k == Cardinality(S)
<1>0. /\ Len(list) = k /\ \A n \in 1 .. k : list[n].id = Nth(S, n) /\ ~IsNew(list[n]) /\ Nth(S, n) \in S
      /\ \A m, n \in 1 .. k : m # n => Nth(S, m) # Nth(S, n)
      /\ \A i \in S : \E n \in 1 .. k : Nth(S, n) = i
  BY DEF NamedAs
<1> HIDE DEF k
<1>1. {m \in 1 .. Len(list) : ~IsNew(list[m])} = 1 .. k
  BY <1>0
<1>2. OldIn(list) = {list[n].id : n \in 1 .. k}
  BY <1>1 DEF OldIn
<1>3. {list[n].id : n \in 1 .. k} = S
  BY <1>0
<1>4. Distinct(list)
  BY <1>0 DEF Distinct
<1> QED
  BY <1>2, <1>3, <1>4

(* One place of a sequence changed.                                        *)
LEMMA PlaceChanged ==
    ASSUME NEW S, NEW s \in Seq(S), NEW i \in 1 .. Len(s), NEW e \in S, NEW u, u = [s EXCEPT ![i] = e]
    PROVE  u \in Seq(S) /\ Len(u) = Len(s) /\ \A j \in 1 .. Len(s) : u[j] = IF j = i THEN e ELSE s[j]
<1> QED
  BY ExceptSeq

(* The route returns each template of the campaign once.                   *)
LEMMA ReadIsAll ==
    ASSUME NEW mem \in Seq(MemoryRow), NEW c, NEW S, S = KeptIn(mem, c), NEW list \in [1 .. Cardinality(S) -> ShownRow], NamedAs(list, S)
    PROVE  list \in Seq(ShownRow) /\ ReadAll(mem, list, c) /\ \A n \in 1 .. Len(list) : list[n].id \in 1 .. Len(mem)
<1> DEFINE k == Cardinality(S)
<1>1. S \subseteq 1 .. Len(mem) /\ S \subseteq Int /\ IsFiniteSet(S) /\ k \in Nat /\ Len(mem) \in Nat
  BY KeptFinite
<1>2. \A n \in 1 .. k : Nth(S, n) \in S
  BY <1>1, Enumerated
<1>3. \A m, n \in 1 .. k : m # n => Nth(S, m) # Nth(S, n)
  BY <1>1, Enumerated
<1>4. \A i \in S : \E n \in 1 .. k : Nth(S, n) = i
  BY <1>1, Enumerated
<1>5. \A i \in S : i \in 1 .. Len(mem) /\ mem[i].text \in WizardText
  <2> SUFFICES ASSUME NEW i \in S PROVE i \in 1 .. Len(mem) /\ mem[i].text \in WizardText
    OBVIOUS
  <2>1. i \in 1 .. Len(mem) /\ mem[i].text # ""
    BY DEF KeptIn
  <2>2. mem[i] \in MemoryRow
    BY <2>1, ElementOfSeq
  <2> QED
    BY <2>1, <2>2 DEF MemoryRow, AnyText
<1>7. list \in [1 .. k -> ShownRow] /\ \A n \in 1 .. k : list[n].id = Nth(S, n)
  BY DEF NamedAs
<1> HIDE DEF k
<1>8. list \in Seq(ShownRow) /\ Len(list) = k
  BY <1>1, <1>7, ListMade
<1>9. \A n \in 1 .. k : list[n].id \in S /\ list[n].id \in 1 .. Len(mem) /\ ~IsNew(list[n])
  <2> SUFFICES ASSUME NEW n \in 1 .. k PROVE list[n].id \in S /\ list[n].id \in 1 .. Len(mem) /\ ~IsNew(list[n])
    OBVIOUS
  <2> DEFINE i == list[n].id
             l == Len(mem)
  <2>1. i \in S /\ i \in 1 .. l
    BY <1>2, <1>5, <1>7
  <2>2. l \in Nat
    BY <1>1
  <2> HIDE DEF i, l
  <2>3. ~(i < 0)
    BY <2>1, <2>2
  <2> QED
    BY <2>1, <2>3 DEF IsNew, i, l
<1>10. \A n \in 1 .. k : ~IsNew(list[n]) /\ Nth(S, n) \in S
  BY <1>2, <1>9 DEF k
<1>11. OldIn(list) = S /\ Distinct(list)
  <2>1. Len(list) = k
    BY <1>8
  <2> QED
    BY <1>3, <1>4, <1>10, <2>1, NamedOnce DEF k
<1> QED
  BY <1>8, <1>9, <1>11 DEF ReadAll

(* A template that has no text.                                            *)
None(t) == t = ""
Cleared(r) == r.text = ""
Mine(e, c) == e.campaign = c
RowSet(mem, new, i, t) == new = [mem EXCEPT ![i].text = IF @ = "" THEN @ ELSE t]
Texted(mem, new, i, t) ==
  \A j \in 1 .. Len(mem) : new[j].text = IF j = i /\ mem[j].text # "" THEN t ELSE mem[j].text

(* What is stored for another campaign, and what is changed of one row.    *)
LEMMA StoredElsewhere ==
    ASSUME NEW mem \in Seq(MemoryRow), NEW e \in MemoryRow, NEW c
    PROVE  /\ Append(mem, e) \in Seq(MemoryRow) /\ Len(Append(mem, e)) = Len(mem) + 1
           /\ \A i \in 1 .. Len(mem) : Append(mem, e)[i] = mem[i]
           /\ Append(mem, e)[Len(mem) + 1] = e
           /\ ~Mine(e, c) => KeptIn(Append(mem, e), c) = KeptIn(mem, c)
           /\ Mine(e, c) /\ ~Cleared(e) => KeptIn(Append(mem, e), c) = KeptIn(mem, c) \cup {Len(mem) + 1}
<1> DEFINE u == Append(mem, e)
           l == Len(mem)
<1>1. /\ u \in Seq(MemoryRow) /\ Len(u) = l + 1 /\ l \in Nat /\ (\A i \in 1 .. l : u[i] = mem[i]) /\ u[l + 1] = e
  BY AppendProperties, LenProperties
<1> HIDE DEF u, l
<1>2. \A i \in 1 .. l + 1 : i \in 1 .. l \/ i = l + 1
  BY <1>1
<1>3. 1 .. l \subseteq 1 .. l + 1 /\ l + 1 \in 1 .. l + 1
  BY <1>1
<1>4. ~Mine(e, c) => KeptIn(u, c) = KeptIn(mem, c)
  BY <1>1, <1>2, <1>3 DEF KeptIn, Mine, Cleared, l
<1>5. Mine(e, c) /\ ~Cleared(e) => KeptIn(u, c) = KeptIn(mem, c) \cup {l + 1}
  BY <1>1, <1>2, <1>3 DEF KeptIn, Mine, Cleared, l
<1> QED
  BY <1>1, <1>4, <1>5 DEF u, l

LEMMA RowWritten ==
    ASSUME NEW mem \in Seq(MemoryRow), NEW i \in 1 .. Len(mem), NEW t \in AnyText, NEW c, NEW u, RowSet(mem, u, i, t)
    PROVE  /\ u \in Seq(MemoryRow) /\ Len(u) = Len(mem) /\ Texted(mem, u, i, t)
           /\ ~None(t) => KeptIn(u, c) = KeptIn(mem, c)
           /\ None(t) => KeptIn(u, c) = KeptIn(mem, c) \ {i}
<1> DEFINE e == [mem[i] EXCEPT !.text = IF @ = "" THEN @ ELSE t]
<1>0. mem[i] \in MemoryRow
  BY ElementOfSeq
<1>1. u = [mem EXCEPT ![i] = e]
  BY DEF RowSet
<1>2. e \in MemoryRow /\ e.campaign = mem[i].campaign /\ e.text = IF mem[i].text # "" THEN t ELSE mem[i].text
  BY <1>0 DEF MemoryRow, AnyText
<1> HIDE DEF e
<1>3. u \in Seq(MemoryRow) /\ Len(u) = Len(mem) /\ \A j \in 1 .. Len(mem) : u[j] = IF j = i THEN e ELSE mem[j]
  <2> DEFINE S == MemoryRow
  <2>1. e \in S /\ mem \in Seq(S)
    BY <1>2
  <2> HIDE DEF S
  <2>2. /\ [mem EXCEPT ![i] = e] \in Seq(S) /\ Len([mem EXCEPT ![i] = e]) = Len(mem)
        /\ \A j \in 1 .. Len(mem) : [mem EXCEPT ![i] = e][j] = IF j = i THEN e ELSE mem[j]
    BY <2>1, ExceptSeq
  <2> QED
    BY <1>1, <2>2 DEF S
<1>4. \A j \in 1 .. Len(mem) : /\ u[j].campaign = mem[j].campaign
                               /\ u[j].text = IF j = i /\ mem[j].text # "" THEN t ELSE mem[j].text
  BY <1>2, <1>3
<1>5. ~None(t) => KeptIn(u, c) = KeptIn(mem, c)
  BY <1>3, <1>4 DEF KeptIn, None
<1>6. None(t) => KeptIn(u, c) = KeptIn(mem, c) \ {i}
  BY <1>3, <1>4 DEF KeptIn, None
<1>7. Texted(mem, u, i, t)
  BY <1>4 DEF Texted
<1> QED
  BY <1>3, <1>5, <1>6, <1>7

(* What is as it was for a campaign, and one more row of a list stored.    *)
SameRows(mem, new, c) == KeptIn(new, c) = KeptIn(mem, c) /\ \A i \in KeptIn(mem, c) : new[i].text = mem[i].text
OneMore(mem, new, list, c, n, i) ==
  /\ KeptIn(new, c) = KeptIn(mem, c) \cup {i} /\ \A j \in KeptIn(mem, c) \ {i} : new[j].text = mem[j].text
  /\ new[i].text = list[n].text
  /\ IsNew(list[n]) => i \notin OldIn(list)
  /\ ~IsNew(list[n]) => i = list[n].id

LEMMA SavedElsewhere ==
    ASSUME NEW mem, NEW new, NEW c, NEW q, NEW list, SameRows(mem, new, c)
    PROVE  /\ SavedSoFar(mem, q, list, c) => SavedSoFar(new, q, list, c)
           /\ \A deleted : ListedIn(mem, list, deleted, c) => ListedIn(new, list, deleted, c)
           /\ ReadAll(mem, list, c) => ReadAll(new, list, c)
<1> DEFINE p == DoneOf(q, list)
<1>1. KeptIn(new, c) = KeptIn(mem, c) /\ \A i \in KeptIn(mem, c) : new[i].text = mem[i].text
  BY DEF SameRows
<1> HIDE DEF p
<1>2. ASSUME NEW f, Placed(mem, list, c, p, f) PROVE Placed(new, list, c, p, f)
  <2>1. \A n \in 1 .. p : f[n] \in KeptIn(mem, c)
    BY <1>2 DEF Placed
  <2> QED
    BY <1>1, <1>2, <2>1 DEF Placed
<1>3. SavedSoFar(mem, q, list, c) => SavedSoFar(new, q, list, c)
  BY <1>1, <1>2, Zenon DEF SavedSoFar, p
<1>4. \A deleted : ListedIn(mem, list, deleted, c) => ListedIn(new, list, deleted, c)
  BY <1>1, Zenon DEF ListedIn
<1>5. ReadAll(mem, list, c) => ReadAll(new, list, c)
  BY <1>1, Zenon DEF ReadAll
<1> QED
  BY <1>3, <1>4, <1>5

LEMMA PlacedOneMore ==
    ASSUME NEW mem, NEW new, NEW list, NEW c, NEW p \in Nat, NEW s, s = p + 1, NEW f, NEW i,
           Placed(mem, list, c, p, f), OneMore(mem, new, list, c, s, i), i \notin Image(f, p)
    PROVE  \E g : Placed(new, list, c, s, g) /\ Image(g, s) = Image(f, p) \cup {i}
<1> DEFINE g == [n \in 1 .. s |-> IF n = s THEN i ELSE f[n]]
           K == KeptIn(mem, c)
<1>1. /\ f \in [1 .. p -> K] /\ (\A m, n \in 1 .. p : m # n => f[m] # f[n])
      /\ \A n \in 1 .. p : /\ mem[f[n]].text = list[n].text
                           /\ IsNew(list[n]) => f[n] \notin OldIn(list)
                           /\ ~IsNew(list[n]) => f[n] = list[n].id
  BY DEF Placed
<1>2. KeptIn(new, c) = K \cup {i} /\ (\A j \in K \ {i} : new[j].text = mem[j].text) /\ new[i].text = list[s].text
  BY DEF OneMore
<1>3. (IsNew(list[s]) => i \notin OldIn(list)) /\ (~IsNew(list[s]) => i = list[s].id)
  BY DEF OneMore
<1>4. \A n \in 1 .. s : n = s \/ (n \in 1 .. p /\ n # s)
  OBVIOUS
<1>5. s \in 1 .. s /\ 1 .. p \subseteq 1 .. s /\ s \notin 1 .. p
  OBVIOUS
<1> HIDE DEF K
<1>6. g[s] = i /\ DOMAIN g = 1 .. s /\ \A n \in 1 .. p : g[n] = f[n]
  BY <1>5
<1>7. g \in [1 .. s -> KeptIn(new, c)]
  BY <1>1, <1>2, <1>4
<1> HIDE DEF g
<1>8. \A m, n \in 1 .. s : m # n => g[m] # g[n]
  <2>1. \A n \in 1 .. p : f[n] # i
    BY DEF Image
  <2> QED
    BY <1>1, <1>4, <1>6, <2>1
<1>9. \A n \in 1 .. p : new[g[n]].text = list[n].text
  <2> SUFFICES ASSUME NEW n \in 1 .. p PROVE new[g[n]].text = list[n].text
    OBVIOUS
  <2>1. f[n] \in K \ {i}
    BY <1>1 DEF Image
  <2> QED
    BY <1>1, <1>2, <1>6, <2>1
<1>10. \A n \in 1 .. s : new[g[n]].text = list[n].text
  BY <1>2, <1>4, <1>6, <1>9
<1>11. \A n \in 1 .. s : (IsNew(list[n]) => g[n] \notin OldIn(list)) /\ (~IsNew(list[n]) => g[n] = list[n].id)
  BY <1>1, <1>3, <1>4, <1>6
<1>12. Placed(new, list, c, s, g)
  BY <1>7, <1>8, <1>10, <1>11 DEF Placed
<1>13. Image(g, s) = Image(f, p) \cup {i}
  BY <1>4, <1>5, <1>6 DEF Image
<1> QED
  BY <1>12, <1>13

(* A request leaves the queue: a deletion, or the next of the list.        *)
LEMMA QueueShift ==
    ASSUME NEW q \in Seq(SaveStep), q # <<>>, NEW list \in Seq(ShownRow), Aligned(q, list)
    PROVE  /\ Aligned(Tail(q), list) /\ Tail(q) \in Seq(SaveStep) /\ Head(q) \in SaveStep /\ Head(q) = q[1]
           /\ DoneOf(q, list) \in Nat /\ PendingIn(Tail(q), list) \subseteq PendingIn(q, list)
           /\ \/ /\ DoneOf(q, list) = 0 /\ DoneOf(Tail(q), list) = 0
                 /\ PendingIn(q, list) \subseteq PendingIn(Tail(q), list) \cup {Head(q).id}
                 /\ Cleared(Head(q)) /\ Head(q).id > 0 /\ Head(q).id \notin OldIn(list)
              \/ /\ DoneOf(Tail(q), list) = DoneOf(q, list) + 1 /\ DoneOf(q, list) + 1 \in 1 .. Len(list)
                 /\ Head(q) = list[DoneOf(q, list) + 1] /\ PendingIn(q, list) = {} /\ PendingIn(Tail(q), list) = {}
<1> DEFINE t == Tail(q)
           a == Len(q)
           b == Len(list)
           p == DoneOf(q, list)
           r == DoneOf(t, list)
<1>1. /\ a \in Nat \ {0} /\ b \in Nat /\ t \in Seq(SaveStep) /\ Len(t) = a - 1 /\ Head(q) \in SaveStep
      /\ \A k \in 1 .. a - 1 : t[k] = q[k + 1]
  BY HeadTailProperties, LenProperties, EmptySeq
<1>2. Head(q) = q[1]
  OBVIOUS
<1>3. /\ \A k \in 1 .. a : k - (a - b) >= 1 => q[k] = list[k - (a - b)]
      /\ \A k \in 1 .. a - b : q[k].text = "" /\ q[k].id > 0 /\ q[k].id \notin OldIn(list)
  BY DEF Aligned
<1>4. p = (IF a < b THEN b - a ELSE 0) /\ r = IF a - 1 < b THEN b - (a - 1) ELSE 0
  BY <1>1 DEF DoneOf
<1>5. PendingIn(q, list) = {q[k].id : k \in 1 .. a - b} /\ PendingIn(t, list) = {t[k].id : k \in 1 .. a - 1 - b}
  BY <1>1 DEF PendingIn
<1> HIDE DEF t, a, b, p, r
<1>6. a \in Int /\ b \in Int /\ a >= 1 /\ b >= 0
  BY <1>1
<1>7. \A k \in 1 .. a - 1 : k + 1 \in 1 .. a /\ k + 1 - (a - b) = k - (a - 1 - b)
  BY <1>6
<1>8. \A k \in 1 .. a - 1 - b : k \in 1 .. a - 1 /\ k + 1 \in 1 .. a - b
  BY <1>6
<1>9. Aligned(t, list)
  <2>1. \A k \in 1 .. a - 1 : k - (a - 1 - b) >= 1 => t[k] = list[k - (a - 1 - b)]
    <3> SUFFICES ASSUME NEW k \in 1 .. a - 1, k - (a - 1 - b) >= 1 PROVE t[k] = list[k - (a - 1 - b)]
      OBVIOUS
    <3> DEFINE m == k + 1
               j == k - (a - 1 - b)
    <3>1. m \in 1 .. a /\ m - (a - b) = j
      BY <1>6
    <3>2. j >= 1 /\ t[k] = q[m]
      BY <1>1
    <3> HIDE DEF m, j
    <3>3. q[m] = list[j]
      BY <1>3, <3>1, <3>2
    <3> QED
      BY <3>2, <3>3 DEF j
  <2>2. \A k \in 1 .. a - 1 - b : t[k].text = "" /\ t[k].id > 0 /\ t[k].id \notin OldIn(list)
    BY <1>1, <1>3, <1>8
  <2> QED
    BY <1>1, <2>1, <2>2 DEF Aligned, b
<1>10. PendingIn(t, list) \subseteq PendingIn(q, list)
  BY <1>1, <1>5, <1>8
<1>11. p \in Nat
  BY <1>4, <1>6
<1>12. CASE a > b
  <2>1. p = 0 /\ r = 0 /\ 1 \in 1 .. a - b
    BY <1>4, <1>6, <1>12
  <2>2. q[1].text = "" /\ q[1].id > 0 /\ q[1].id \notin OldIn(list)
    BY <1>3, <2>1
  <2>3. \A k \in 1 .. a - b : k = 1 \/ (k - 1 \in 1 .. a - 1 - b /\ k - 1 \in 1 .. a - 1 /\ k - 1 + 1 = k)
    BY <1>6
  <2>4. \A k \in 1 .. a - b : k = 1 \/ (k - 1 \in 1 .. a - 1 - b /\ q[k] = t[k - 1])
    BY <1>1, <2>3
  <2>5. PendingIn(q, list) \subseteq PendingIn(t, list) \cup {q[1].id}
    BY <1>5, <2>4
  <2> QED
    BY <1>1, <1>2, <1>9, <1>10, <1>11, <2>1, <2>2, <2>5 DEF t, p, r, Cleared
<1>13. CASE ~(a > b)
  <2>1. p = b - a /\ r = p + 1 /\ p + 1 \in 1 .. b /\ 1 \in 1 .. a /\ 1 - (a - b) = p + 1 /\ p + 1 >= 1
    BY <1>4, <1>6, <1>13
  <2>2. q[1] = list[p + 1]
    BY <1>3, <2>1
  <2>3. 1 .. a - b = {} /\ 1 .. a - 1 - b = {}
    BY <1>6, <1>13
  <2>4. PendingIn(q, list) = {} /\ PendingIn(t, list) = {}
    BY <1>5, <2>3
  <2> QED
    BY <1>1, <1>2, <1>9, <1>10, <1>11, <2>1, <2>2, <2>4 DEF t, p, r, b
<1> QED
  BY <1>12, <1>13

(* A request of the save performed: a template is created or written, or   *)
(* erased.                                                                 *)
RowWrote(mem, new, c, r, i) ==
  KeptIn(new, c) = KeptIn(mem, c) \cup {i} /\ (\A j \in KeptIn(mem, c) \ {i} : new[j].text = mem[j].text)
  /\ new[i].text = r.text
Erased(mem, new, c, i) ==
  KeptIn(new, c) = KeptIn(mem, c) \ {i} /\ \A j \in KeptIn(new, c) : new[j].text = mem[j].text

LEMMA TextIsNotBlank == "" \notin WizardText
BY WizardAssumption DEF WizardText

LEMMA PerformedIs ==
    ASSUME memories \in Seq(MemoryRow), campaignId \in Nat, NEW r \in SaveStep, Doable(Len(memories), r)
    PROVE  /\ Performed(r) \in Seq(MemoryRow) /\ Len(memories) \in Nat /\ Len(Performed(r)) \in Len(memories) .. Len(memories) + 1
           /\ IsNew(r) /\ ~Cleared(r) => RowWrote(memories, Performed(r), campaignId, r, Len(memories) + 1)
           /\ ~IsNew(r) /\ ~Cleared(r) /\ r.id \in KeptIn(memories, campaignId) =>
                RowWrote(memories, Performed(r), campaignId, r, r.id)
           /\ ~IsNew(r) /\ Cleared(r) => Erased(memories, Performed(r), campaignId, r.id)
<1> DEFINE l == Len(memories)
           t == r.text
           i == r.id
           new == Performed(r)
<1>0. l \in Nat
  BY LenProperties
<1>1. i \in Int /\ t \in AnyText
  BY DEF SaveStep
<1>2. CASE IsNew(r)
  <2> DEFINE e == [campaign |-> campaignId, text |-> t]
  <2>1. new = Append(memories, e)
    BY <1>2 DEF Performed
  <2>2. e \in MemoryRow /\ Mine(e, campaignId) /\ e.text = t /\ (Cleared(e) <=> Cleared(r))
    BY <1>1 DEF MemoryRow, Mine, Cleared
  <2> HIDE DEF e, new
  <2>3. /\ new \in Seq(MemoryRow) /\ Len(new) = l + 1
        /\ (\A j \in 1 .. l : new[j] = memories[j]) /\ new[l + 1] = e
    BY <2>1, <2>2, StoredElsewhere
  <2>4. ~Cleared(e) => KeptIn(new, campaignId) = KeptIn(memories, campaignId) \cup {l + 1}
    BY <2>1, <2>2, StoredElsewhere
  <2>5. KeptIn(memories, campaignId) \subseteq 1 .. l
    BY KeptFinite
  <2>6. \A j \in KeptIn(memories, campaignId) \ {l + 1} : new[j].text = memories[j].text
    BY <2>3, <2>5
  <2>7. new[l + 1].text = t
    BY <2>2, <2>3
  <2>8. ~Cleared(r) => RowWrote(memories, new, campaignId, r, l + 1)
    BY <2>2, <2>4, <2>6, <2>7, Zenon DEF RowWrote
  <2>9. l + 1 \in l .. l + 1
    BY <1>0
  <2> QED
    BY <1>0, <1>2, <2>3, <2>8, <2>9 DEF new
<1>3. CASE ~IsNew(r)
  <2>1. i \in 1 .. l
    BY <1>1, <1>3 DEF Doable, IsNew
  <2>2. RowSet(memories, new, i, t)
    BY <1>3 DEF Performed, RowSet
  <2> HIDE DEF new, i, t
  <2>3. new \in Seq(MemoryRow) /\ Len(new) = l /\ Texted(memories, new, i, t)
    BY <1>1, <2>1, <2>2, RowWritten
  <2>4. /\ ~None(t) => KeptIn(new, campaignId) = KeptIn(memories, campaignId)
        /\ None(t) => KeptIn(new, campaignId) = KeptIn(memories, campaignId) \ {i}
    BY <1>1, <2>1, <2>2, RowWritten
  <2>5. KeptIn(memories, campaignId) \subseteq 1 .. l
    BY KeptFinite
  <2>6. \A j \in KeptIn(memories, campaignId) \ {i} : new[j].text = memories[j].text
    BY <2>3, <2>5 DEF Texted
  <2>7. i \in KeptIn(memories, campaignId) => new[i].text = t
    BY <2>1, <2>3 DEF KeptIn, Texted
  <2>8. ~Cleared(r) /\ i \in KeptIn(memories, campaignId) => RowWrote(memories, new, campaignId, r, i)
    <3>1. KeptIn(memories, campaignId) \cup {i} = KeptIn(memories, campaignId) \/ i \notin KeptIn(memories, campaignId)
      OBVIOUS
    <3> QED
      BY <2>4, <2>6, <2>7, <3>1, Zenon DEF RowWrote, Cleared, None, t
  <2>9. Cleared(r) => Erased(memories, new, campaignId, i)
    BY <2>4, <2>6, Zenon DEF Erased, Cleared, None, t
  <2>10. l \in l .. l + 1
    BY <1>0
  <2> QED
    BY <1>0, <1>3, <2>3, <2>8, <2>9, <2>10 DEF new, i
<1> QED
  BY <1>2, <1>3

LEMMA OldAreIn ==
    ASSUME NEW list, NEW n \in 1 .. Len(list), ~IsNew(list[n])
    PROVE  list[n].id \in OldIn(list)
BY DEF OldIn

LEMMA OldApart ==
    ASSUME NEW list, NEW m \in 1 .. Len(list), NEW n \in 1 .. Len(list), m # n, ~IsNew(list[m]), Distinct(list)
    PROVE  list[m].id # list[n].id
BY DEF Distinct

(* A deletion was performed: what is left to do is less by it.             *)
LEMMA ErasedKeeps ==
    ASSUME NEW mem, NEW new, NEW q, NEW t, NEW list, NEW c, NEW i, SavedSoFar(mem, q, list, c), Erased(mem, new, c, i),
           Aligned(t, list), DoneOf(q, list) = 0, DoneOf(t, list) = 0,
           PendingIn(q, list) \subseteq PendingIn(t, list) \cup {i}, i \notin OldIn(list)
    PROVE  SavedSoFar(new, t, list, c)
<1>1. KeptIn(new, c) = KeptIn(mem, c) \ {i}
  BY DEF Erased
<1>2. PICK f : /\ Placed(mem, list, c, 0, f)
               /\ KeptIn(mem, c) \subseteq OldIn(list) \cup PendingIn(q, list) \cup Image(f, 0)
  BY DEF SavedSoFar
<1>3. 1 .. 0 = {}
  OBVIOUS
<1>4. Placed(new, list, c, 0, f)
  BY <1>2, <1>3 DEF Placed
<1>5. KeptIn(new, c) \subseteq OldIn(list) \cup PendingIn(t, list) \cup Image(f, 0)
  BY <1>1, <1>2, <1>3 DEF Image
<1>6. Distinct(list) /\ OldIn(list) \subseteq KeptIn(new, c)
  BY <1>1 DEF SavedSoFar
<1> QED
  BY <1>4, <1>5, <1>6, Zenon DEF SavedSoFar

(* The next of the list was stored.                                        *)
LEMMA WroteKeeps ==
    ASSUME NEW mem, NEW new, NEW q, NEW t, NEW list \in Seq(ShownRow), NEW c, NEW i, NEW p \in Nat, SavedSoFar(mem, q, list, c),
           OneMore(mem, new, list, c, p + 1, i), Aligned(t, list), DoneOf(q, list) = p, DoneOf(t, list) = p + 1,
           PendingIn(q, list) = {}, p + 1 \in 1 .. Len(list),
           IsNew(list[p + 1]) => i \notin KeptIn(mem, c)
    PROVE  SavedSoFar(new, t, list, c)
<1> DEFINE s == p + 1
<1>0. s \in 1 .. Len(list) /\ 1 .. p \subseteq 1 .. Len(list) /\ s \notin 1 .. p
  <2> DEFINE l == Len(list)
  <2>1. s \in 1 .. l /\ l \in Nat
    BY LenProperties
  <2> HIDE DEF l
  <2>2. \A n \in 1 .. p : n \in 1 .. l
    BY <2>1
  <2> QED
    BY <2>1, <2>2 DEF l
<1>1. PICK f : /\ Placed(mem, list, c, p, f)
               /\ KeptIn(mem, c) \subseteq OldIn(list) \cup PendingIn(q, list) \cup Image(f, p)
  BY DEF SavedSoFar
<1>2. Distinct(list) /\ OldIn(list) \subseteq KeptIn(mem, c)
  BY DEF SavedSoFar
<1>3. KeptIn(new, c) = KeptIn(mem, c) \cup {i} /\ (~IsNew(list[s]) => i = list[s].id)
  BY DEF OneMore
<1> HIDE DEF s
<1>4. ASSUME NEW n \in 1 .. p PROVE f[n] # i
  <2>1. f[n] \in KeptIn(mem, c) /\ (IsNew(list[n]) => f[n] \notin OldIn(list)) /\ (~IsNew(list[n]) => f[n] = list[n].id)
    BY <1>1 DEF Placed
  <2>2. n \in 1 .. Len(list) /\ n # s
    BY <1>0
  <2>3. CASE IsNew(list[s])
    BY <2>1, <2>3 DEF s
  <2>4. CASE ~IsNew(list[s])
    <3>1. i \in OldIn(list) /\ i = list[s].id
      BY <1>0, <1>3, <2>4, OldAreIn
    <3>2. ~IsNew(list[n]) => list[n].id # list[s].id
      BY <1>0, <1>2, <2>2, OldApart
    <3> QED
      BY <2>1, <3>1, <3>2, Zenon
  <2> QED
    BY <2>3, <2>4
<1>5. PICK g : Placed(new, list, c, s, g) /\ Image(g, s) = Image(f, p) \cup {i}
  <2>1. Placed(mem, list, c, p, f)
    BY <1>1
  <2>2. i \notin Image(f, p)
    BY <1>4 DEF Image
  <2>3. OneMore(mem, new, list, c, s, i) /\ s = p + 1
    BY DEF s
  <2> QED
    BY <2>1, <2>2, <2>3, PlacedOneMore
<1>6. KeptIn(new, c) \subseteq OldIn(list) \cup PendingIn(t, list) \cup Image(g, s)
  BY <1>1, <1>3, <1>5
<1>7. DoneOf(t, list) = s /\ OldIn(list) \subseteq KeptIn(new, c)
  BY <1>2, <1>3 DEF s
<1> QED
  BY <1>2, <1>5, <1>6, <1>7, Zenon DEF SavedSoFar

LEMMA SaveOneKeeps ==
    ASSUME memories \in Seq(MemoryRow), campaignId \in Nat, NEW q \in Seq(SaveStep), q # <<>>,
           NEW list \in Seq(ShownRow), SavedSoFar(memories, q, list, campaignId), Doable(Len(memories), Head(q))
    PROVE  SavedSoFar(Performed(Head(q)), Tail(q), list, campaignId)
<1> DEFINE r == Head(q)
           t == Tail(q)
           p == DoneOf(q, list)
           new == Performed(r)
           l == Len(memories)
<1>1. Aligned(q, list) /\ OldIn(list) \subseteq KeptIn(memories, campaignId)
  BY DEF SavedSoFar
<1>2. /\ Aligned(t, list) /\ r \in SaveStep /\ p \in Nat
      /\ \/ /\ p = 0 /\ DoneOf(t, list) = 0 /\ PendingIn(q, list) \subseteq PendingIn(t, list) \cup {r.id}
            /\ Cleared(r) /\ r.id > 0 /\ r.id \notin OldIn(list)
         \/ /\ DoneOf(t, list) = p + 1 /\ p + 1 \in 1 .. Len(list)
            /\ r = list[p + 1] /\ PendingIn(q, list) = {} /\ PendingIn(t, list) = {}
  BY <1>1, QueueShift
<1>3. Doable(Len(memories), r)
  OBVIOUS
<1>4. /\ l \in Nat
      /\ IsNew(r) /\ ~Cleared(r) => RowWrote(memories, new, campaignId, r, l + 1)
      /\ ~IsNew(r) /\ ~Cleared(r) /\ r.id \in KeptIn(memories, campaignId) =>
           RowWrote(memories, new, campaignId, r, r.id)
      /\ ~IsNew(r) /\ Cleared(r) => Erased(memories, new, campaignId, r.id)
  BY <1>2, <1>3, PerformedIs
<1>5. KeptIn(memories, campaignId) \subseteq 1 .. l
  BY KeptFinite
<1> HIDE DEF r, t, p, new, l
<1>6. CASE /\ p = 0 /\ DoneOf(t, list) = 0 /\ PendingIn(q, list) \subseteq PendingIn(t, list) \cup {r.id}
           /\ Cleared(r) /\ r.id > 0 /\ r.id \notin OldIn(list)
  <2>1. Cleared(r)
    BY <1>6
  <2>2. ~IsNew(r)
    <3>1. r.id \in Int
      BY <1>2 DEF SaveStep
    <3> QED
      BY <1>6, <3>1 DEF IsNew
  <2>3. Erased(memories, new, campaignId, r.id)
    BY <1>4, <2>1, <2>2
  <2>4. DoneOf(q, list) = 0
    BY <1>6 DEF p
  <2> DEFINE i == r.id
  <2>5. /\ Erased(memories, new, campaignId, i) /\ DoneOf(t, list) = 0
        /\ PendingIn(q, list) \subseteq PendingIn(t, list) \cup {i} /\ i \notin OldIn(list)
    BY <1>6, <2>3
  <2> HIDE DEF i
  <2>6. SavedSoFar(new, t, list, campaignId)
    BY <1>2, <2>4, <2>5, ErasedKeeps
  <2> QED
    BY <2>6 DEF new, t, r
<1>7. CASE /\ DoneOf(t, list) = p + 1 /\ p + 1 \in 1 .. Len(list)
           /\ r = list[p + 1] /\ PendingIn(q, list) = {} /\ PendingIn(t, list) = {}
  <2> DEFINE s == p + 1
             i == IF IsNew(r) THEN l + 1 ELSE r.id
  <2>1. s \in 1 .. Len(list) /\ r = list[s]
    BY <1>7
  <2> HIDE DEF s
  <2>2. r \in ShownRow
    BY <2>1, ElementOfSeq
  <2>3. ~Cleared(r)
    BY <2>2, TextIsNotBlank DEF ShownRow, Cleared
  <2>4. ASSUME IsNew(r)
        PROVE  RowWrote(memories, new, campaignId, r, i) /\ i \notin KeptIn(memories, campaignId) /\ i \notin OldIn(list)
    <3>1. RowWrote(memories, new, campaignId, r, i) /\ i = l + 1
      BY <1>4, <2>3, <2>4
    <3>2. i \notin KeptIn(memories, campaignId)
      BY <1>4, <1>5, <3>1
    <3> QED
      BY <1>1, <3>1, <3>2
  <2>5. ASSUME ~IsNew(r) PROVE RowWrote(memories, new, campaignId, r, i)
    <3>1. r.id \in OldIn(list)
      BY <2>1, <2>5, OldAreIn
    <3>2. RowWrote(memories, new, campaignId, r, r.id)
      BY <1>1, <1>4, <2>3, <2>5, <3>1
    <3> QED
      BY <2>5, <3>2
  <2>6. RowWrote(memories, new, campaignId, r, i) /\ (IsNew(r) => i \notin KeptIn(memories, campaignId) /\ i \notin OldIn(list))
    BY <2>4, <2>5
  <2>7. ~IsNew(r) => i = r.id
    OBVIOUS
  <2> HIDE DEF i
  <2>8. OneMore(memories, new, list, campaignId, s, i)
    BY <2>1, <2>6, <2>7, Zenon DEF OneMore, RowWrote
  <2>9. IsNew(list[s]) => i \notin KeptIn(memories, campaignId)
    BY <2>1, <2>6
  <2>10. DoneOf(q, list) = p /\ DoneOf(t, list) = s /\ PendingIn(q, list) = {}
    BY <1>7 DEF p, s
  <2>11. SavedSoFar(new, t, list, campaignId)
    BY <1>2, <2>1, <2>8, <2>9, <2>10, WroteKeeps DEF s
  <2> QED
    BY <2>11 DEF new, t, r
<1> QED
  BY <1>2, <1>6, <1>7

(* The places of the new rows of a list.                                   *)
NewIn(list) == {i \in 1 .. Len(list) : IsNew(list[i])}

LEMMA SubFinite ==
    ASSUME NEW N \in Nat, NEW A, A \subseteq 1 .. N
    PROVE  IsFiniteSet(A) /\ Cardinality(A) \in Nat
<1>1. IsFiniteSet(1 .. N)
  BY FS_Interval
<1>2. IsFiniteSet(A)
  BY <1>1, FS_Subset
<1> QED
  BY <1>2, FS_CardinalityType

(* An injection into what lacks an element has fewer.                      *)
LEMMA Fewer ==
    ASSUME NEW A, NEW B, IsFiniteSet(B), NEW x \in B, NEW g \in [A -> B \ {x}],
           \A m, n \in A : g[m] = g[n] => m = n
    PROVE  Cardinality(A) < Cardinality(B)
<1> DEFINE C == B \ {x}
<1>1. IsFiniteSet(C) /\ Cardinality(C) = Cardinality(B) - 1 /\ Cardinality(B) \in Nat
  BY FS_RemoveElement, FS_CardinalityType
<1>2. g \in Injection(A, C)
  BY DEF Injection, IsInjective
<1>3. IsFiniteSet(A) /\ Cardinality(A) <= Cardinality(C)
  BY <1>1, <1>2, FS_Injection
<1>4. Cardinality(A) \in Nat
  BY <1>3, FS_CardinalityType
<1> DEFINE a == Cardinality(A)
           b == Cardinality(B)
<1>5. a \in Nat /\ b \in Nat /\ a <= b - 1
  BY <1>1, <1>3, <1>4
<1> HIDE DEF a, b
<1>6. a < b
  BY <1>5
<1> QED
  BY <1>6 DEF a, b

(* A save that broke off before it created a template has stored only what *)
(* the campaign had.                                                       *)
LEMMA NothingNew ==
    ASSUME NEW q \in Seq(SaveStep), NEW list \in Seq(ShownRow), NEW mem, NEW c, SavedSoFar(mem, q, list, c),
           ~(NewLeft(q) < NewLeft(list))
    PROVE  KeptIn(mem, c) \subseteq OldIn(list) \cup PendingIn(q, list)
<1> DEFINE p == DoneOf(q, list)
           a == Len(q)
           b == Len(list)
<1>1. a \in Nat /\ b \in Nat
  BY LenProperties
<1>2. PICK f : Placed(mem, list, c, p, f) /\ KeptIn(mem, c) \subseteq OldIn(list) \cup PendingIn(q, list) \cup Image(f, p)
  BY DEF SavedSoFar
<1>3. p = (IF a < b THEN b - a ELSE 0) /\ p \in Nat /\ 1 .. p \subseteq 1 .. b
  <2>1. p = (IF a < b THEN b - a ELSE 0)
    BY DEF DoneOf
  <2> HIDE DEF a, b, p
  <2>2. p \in Nat /\ p <= b
    BY <1>1, <2>1
  <2> QED
    BY <1>1, <2>1, <2>2
<1>4. \A k \in 1 .. a : k - (a - b) >= 1 => q[k] = list[k - (a - b)]
  BY DEF SavedSoFar, Aligned
<1>5. NewLeft(q) = Cardinality(NewIn(q)) /\ NewLeft(list) = Cardinality(NewIn(list))
  BY DEF NewLeft, NewIn
<1>6. ASSUME NEW n \in 1 .. p, IsNew(list[n]) PROVE FALSE
  <2> DEFINE A == NewIn(q)
             B == NewIn(list)
             g == [k \in A |-> k + p]
  <2>1. n \in B /\ n \in 1 .. b
    BY <1>3, <1>6 DEF NewIn
  <2>2. IsFiniteSet(B)
    BY <1>1, SubFinite DEF NewIn
  <2>3. p = b - a
    <3> HIDE DEF p, a, b
    <3> QED
      BY <1>1, <1>3
  <2>4. \A k \in A : k \in Int /\ k + p \in B /\ k + p # n
    <3> SUFFICES ASSUME NEW k \in A PROVE k \in Int /\ k + p \in B /\ k + p # n
      OBVIOUS
    <3>1. k \in 1 .. a /\ IsNew(q[k])
      BY DEF NewIn
    <3>2. k - (a - b) >= 1 /\ k - (a - b) = k + p /\ k + p \in 1 .. b /\ k \in Int /\ k + p # n
      <4> HIDE DEF p, a, b
      <4> QED
        BY <1>1, <1>3, <2>3, <3>1
    <3>3. q[k] = list[k + p]
      BY <1>4, <3>1, <3>2
    <3> QED
      BY <3>1, <3>2, <3>3 DEF NewIn
  <2>5. g \in [A -> B \ {n}] /\ \A k \in A : g[k] = k + p
    BY <2>4
  <2> HIDE DEF A, B, g, p, a, b
  <2>6. \A m, k \in A : g[m] = g[k] => m = k
    BY <1>3, <2>4, <2>5
  <2>7. Cardinality(A) < Cardinality(B)
    BY <2>1, <2>2, <2>5, <2>6, Fewer
  <2> QED
    BY <1>5, <2>7 DEF A, B
<1>7. Image(f, p) \subseteq OldIn(list)
  <2> SUFFICES ASSUME NEW n \in 1 .. p PROVE f[n] \in OldIn(list)
    BY DEF Image
  <2>1. ~IsNew(list[n]) /\ n \in 1 .. Len(list)
    BY <1>3, <1>6
  <2>2. f[n] = list[n].id
    BY <1>2, <2>1 DEF Placed
  <2> QED
    BY <2>1, <2>2, OldAreIn
<1> QED
  BY <1>2, <1>7

(* A save that is done has stored the list, and nothing else is there.     *)
KeptWith(mem, c, x) == {i \in KeptIn(mem, c) : mem[i].text = x}
ShownWith(list, x) == {n \in 1 .. Len(list) : list[n].text = x}
LEMMA AllSaved ==
    ASSUME NEW mem, NEW list \in Seq(ShownRow), NEW c, SavedSoFar(mem, <<>>, list, c)
    PROVE  /\ \A n \in 1 .. Len(list) : ~IsNew(list[n]) => list[n].id \in KeptIn(mem, c)
           /\ \A x : Cardinality(KeptWith(mem, c, x)) = Cardinality(ShownWith(list, x))
<1> DEFINE b == Len(list)
           K == KeptIn(mem, c)
<1>1. b \in Nat /\ Len(<<>>) = 0
  BY LenProperties
<1>2. DoneOf(<<>>, list) = b /\ PendingIn(<<>>, list) = {}
  <2>1. DoneOf(<<>>, list) = (IF 0 < b THEN b - 0 ELSE 0) /\ PendingIn(<<>>, list) = {<<>>[k].id : k \in 1 .. 0 - b}
    BY <1>1 DEF DoneOf, PendingIn
  <2> HIDE DEF b
  <2>2. 1 .. 0 - b = {}
    BY <1>1
  <2> QED
    BY <1>1, <2>1, <2>2
<1>3. PICK f : Placed(mem, list, c, b, f) /\ K \subseteq OldIn(list) \cup {} \cup Image(f, b)
  BY <1>2 DEF SavedSoFar
<1>4. OldIn(list) \subseteq Image(f, b)
  BY <1>3 DEF OldIn, Placed, Image
<1>5. /\ f \in [1 .. b -> K] /\ (\A m, n \in 1 .. b : m # n => f[m] # f[n])
      /\ \A n \in 1 .. b : mem[f[n]].text = list[n].text
  BY <1>3 DEF Placed
<1>6. \A i \in K : \E n \in 1 .. b : f[n] = i
  BY <1>3, <1>4 DEF Image
<1>7. \A n \in 1 .. Len(list) : ~IsNew(list[n]) => list[n].id \in K
  BY <1>3 DEF Placed
<1>8. ASSUME NEW x PROVE Cardinality(KeptWith(mem, c, x)) = Cardinality(ShownWith(list, x))
  <2> DEFINE A == ShownWith(list, x)
             B == KeptWith(mem, c, x)
             g == [n \in A |-> f[n]]
  <2>1. IsFiniteSet(A)
    BY <1>1, SubFinite DEF ShownWith
  <2>2. \A n : n \in A <=> n \in 1 .. b /\ list[n].text = x
    BY DEF ShownWith
  <2>3. \A i : i \in B <=> i \in K /\ mem[i].text = x
    BY DEF KeptWith
  <2> HIDE DEF A, B, K, b
  <2>4. \A n \in A : f[n] \in B
    BY <1>5, <2>2, <2>3
  <2>5. g \in [A -> B] /\ \A n \in A : g[n] = f[n]
    BY <2>4
  <2>6. \A m, n \in A : g[m] = g[n] => m = n
    BY <1>5, <2>2, <2>5
  <2>7. \A i \in B : \E n \in A : g[n] = i
    <3> SUFFICES ASSUME NEW i \in B PROVE \E n \in A : g[n] = i
      OBVIOUS
    <3>1. PICK n \in 1 .. b : f[n] = i
      BY <1>6, <2>3
    <3>2. n \in A
      BY <1>5, <2>2, <2>3, <3>1
    <3> QED
      BY <2>5, <3>1, <3>2
  <2> HIDE DEF g
  <2>8. g \in Bijection(A, B)
    BY <2>5, <2>6, <2>7 DEF Bijection, Injection, IsInjective, Surjection
  <2>9. ExistsBijection(A, B)
    BY <2>8 DEF ExistsBijection
  <2> QED
    BY <2>1, <2>9, FS_Bijection DEF A, B
<1> QED
  BY <1>7, <1>8

(* The requests of a save: what was deleted on the page, then its list.    *)
Deletion(D, S) == D = [k \in 1 .. Cardinality(S) |-> [id |-> Nth(S, k), text |-> ""]]
Deletions(D, S) ==
  /\ D \in Seq(SaveStep) /\ Len(D) = Cardinality(S) /\ Cardinality(S) \in Nat
  /\ \A k \in 1 .. Len(D) : Cleared(D[k]) /\ D[k].id \in S /\ D[k].id > 0
  /\ \A i \in S : \E k \in 1 .. Len(D) : D[k].id = i
LEMMA DeletionsAre ==
    ASSUME NEW N \in Nat, NEW S, S \subseteq 1 .. N, NEW D, Deletion(D, S)
    PROVE  Deletions(D, S)
<1> DEFINE n == Cardinality(S)
<1>1. IsFiniteSet(S) /\ n \in Nat /\ S \subseteq Int
  <2>1. S \subseteq 1 .. N /\ 1 .. N \subseteq Int
    OBVIOUS
  <2> QED
    BY <2>1, SubFinite
<1>2. (\A k \in 1 .. n : Nth(S, k) \in S) /\ \A i \in S : \E k \in 1 .. n : Nth(S, k) = i
  BY <1>1, Enumerated
<1> HIDE DEF n
<1>3. D = [k \in 1 .. n |-> [id |-> Nth(S, k), text |-> ""]]
  BY DEF Deletion, n
<1>4. \A k \in 1 .. n : [id |-> Nth(S, k), text |-> ""] \in SaveStep
  BY <1>1, <1>2 DEF SaveStep, AnyText
<1>5. D \in [1 .. n -> SaveStep]
  BY <1>3, <1>4
<1>6. \A k \in 1 .. n : D[k].id = Nth(S, k) /\ Cleared(D[k])
  BY <1>3 DEF Cleared
<1>7. D \in Seq(SaveStep) /\ Len(D) = n
  BY <1>1, <1>5, ListMade
<1>8. \A i \in S : i > 0
  OBVIOUS
<1>9. \A k \in 1 .. n : Cleared(D[k]) /\ D[k].id \in S /\ D[k].id > 0
  BY <1>2, <1>6, <1>8
<1>10. \A i \in S : \E k \in 1 .. n : D[k].id = i
  BY <1>2, <1>6
<1> QED
  BY <1>1, <1>7, <1>9, <1>10 DEF n, Deletions

FromBoth(q, S, list) == \A k \in 1 .. Len(q) : q[k].id \in S \/ \E n \in 1 .. Len(list) : q[k] = list[n]

LEMMA RequestsAre ==
    ASSUME NEW list \in Seq(ShownRow), NEW N \in Nat, NEW S, S \subseteq 1 .. N, NEW D, Deletion(D, S)
    PROVE  /\ D \o list \in Seq(SaveStep) /\ DoneOf(D \o list, list) = 0 /\ PendingIn(D \o list, list) = S
           /\ OldIn(list) \cap S = {} => Aligned(D \o list, list)
           /\ FromBoth(D \o list, S, list)
<1> DEFINE q == D \o list
           a == Len(q)
           b == Len(list)
           n == Len(D)
<1>1. /\ D \in Seq(SaveStep) /\ n \in Nat
      /\ (\A k \in 1 .. n : Cleared(D[k]) /\ D[k].id \in S /\ D[k].id > 0)
      /\ \A i \in S : \E k \in 1 .. n : D[k].id = i
  <2>1. Deletions(D, S)
    BY DeletionsAre
  <2> QED
    BY <2>1, Zenon DEF Deletions
<1>2. list \in Seq(SaveStep) /\ b \in Nat
  <2>1. b \in Nat /\ list \in [1 .. b -> ShownRow]
    BY LenProperties
  <2>2. ShownRow \subseteq SaveStep
    BY DEF ShownRow, SaveStep, AnyText
  <2>3. list \in [1 .. b -> SaveStep]
    BY <2>1, <2>2
  <2> QED
    BY <2>1, <2>3, ListMade
<1>3. /\ q \in Seq(SaveStep) /\ a = n + b
      /\ \A k \in 1 .. n + b : q[k] = IF k <= n THEN D[k] ELSE list[k - n]
  BY <1>1, <1>2, ConcatProperties
<1>5. DoneOf(q, list) = IF a < b THEN b - a ELSE 0
  BY DEF DoneOf
<1>6. PendingIn(q, list) = {q[k].id : k \in 1 .. a - b}
  BY DEF PendingIn
<1> HIDE DEF q, a, b, n
<1>7. \A k \in 1 .. n : q[k] = D[k]
  <2> SUFFICES ASSUME NEW k \in 1 .. n PROVE q[k] = D[k]
    OBVIOUS
  <2>1. k \in 1 .. n + b /\ k <= n
    BY <1>1, <1>2
  <2> QED
    BY <1>3, <2>1
<1>8. \A k \in 1 .. n + b : ~(k <= n) => q[k] = list[k - n] /\ k - n \in 1 .. b
  <2> SUFFICES ASSUME NEW k \in 1 .. n + b, ~(k <= n) PROVE q[k] = list[k - n] /\ k - n \in 1 .. b
    OBVIOUS
  <2>1. k - n \in 1 .. b
    BY <1>1, <1>2
  <2> QED
    BY <1>3, <2>1
<1>9. a - b = n /\ DoneOf(q, list) = 0
  BY <1>1, <1>2, <1>3, <1>5
<1>10. PendingIn(q, list) = S
  <2>1. PendingIn(q, list) = {q[k].id : k \in 1 .. n}
    BY <1>6, <1>9
  <2>2. \A k \in 1 .. n : q[k].id \in S
    BY <1>1, <1>7
  <2>3. \A i \in S : \E k \in 1 .. n : q[k].id = i
    BY <1>1, <1>7
  <2>4. \A x \in PendingIn(q, list) : x \in S
    BY <2>1, <2>2, Zenon
  <2>5. \A i \in S : i \in PendingIn(q, list)
    BY <2>1, <2>3, Zenon
  <2> QED
    BY <2>4, <2>5, Zenon
<1>11. ASSUME OldIn(list) \cap S = {} PROVE Aligned(q, list)
  <2>1. ASSUME NEW k \in 1 .. a, k - (a - b) >= 1 PROVE q[k] = list[k - (a - b)]
    <3>1. k \in 1 .. n + b /\ ~(k <= n) /\ k - (a - b) = k - n
      BY <1>1, <1>2, <1>3, <1>9, <2>1
    <3>2. q[k] = list[k - n]
      BY <1>8, <3>1
    <3> QED
      BY <3>1, <3>2
  <2>2. ASSUME NEW k \in 1 .. a - b PROVE Cleared(q[k]) /\ q[k].id > 0 /\ q[k].id \notin OldIn(list)
    BY <1>1, <1>7, <1>9, <1>11
  <2> QED
    BY <2>1, <2>2 DEF Aligned, a, b, Cleared
<1>13. \A k \in 1 .. a : q[k].id \in S \/ \E m \in 1 .. b : q[k] = list[m]
  <2> SUFFICES ASSUME NEW k \in 1 .. a PROVE q[k].id \in S \/ \E m \in 1 .. b : q[k] = list[m]
    OBVIOUS
  <2>1. CASE k <= n
    <3>1. k \in 1 .. n
      BY <1>1, <1>2, <2>1
    <3> QED
      BY <1>1, <1>7, <3>1
  <2>2. CASE ~(k <= n)
    BY <1>3, <1>8, <2>2
  <2> QED
    BY <2>1, <2>2
<1>14. FromBoth(q, S, list)
  BY <1>13, Zenon DEF FromBoth, a, b
<1> QED
  BY <1>3, <1>9, <1>10, <1>11, <1>14 DEF q

LEMMA SaveStarts ==
    ASSUME NEW mem, NEW c, NEW q, NEW list, NEW S, ListedIn(mem, list, S, c), Distinct(list),
           Aligned(q, list), DoneOf(q, list) = 0, PendingIn(q, list) = S
    PROVE  SavedSoFar(mem, q, list, c)
<1> DEFINE f == [x \in 1 .. 0 |-> x]
<1>1. 1 .. 0 = {}
  OBVIOUS
<1>2. Placed(mem, list, c, 0, f)
  BY <1>1 DEF Placed
<1> HIDE DEF f
<1>3. OldIn(list) \subseteq KeptIn(mem, c) /\ KeptIn(mem, c) \subseteq OldIn(list) \cup PendingIn(q, list) \cup Image(f, 0)
  BY DEF ListedIn
<1> QED
  BY <1>2, <1>3, Zenon DEF SavedSoFar

(* What the user does to the list.                                         *)
AlikeIds(list, new) == Len(new) = Len(list) /\ \A n \in 1 .. Len(list) : new[n].id = list[n].id
LEMMA EditedAlike ==
    ASSUME NEW list, NEW new, AlikeIds(list, new)
    PROVE  OldIn(new) = OldIn(list) /\ (Distinct(list) => Distinct(new))
<1>1. Len(new) = Len(list) /\ \A n \in 1 .. Len(list) : new[n].id = list[n].id
  BY DEF AlikeIds
<1>2. {m \in 1 .. Len(new) : ~IsNew(new[m])} = {m \in 1 .. Len(list) : ~IsNew(list[m])}
  BY <1>1 DEF IsNew
<1>3. OldIn(new) = OldIn(list)
  BY <1>1, <1>2 DEF OldIn
<1>4. Distinct(list) => Distinct(new)
  BY <1>1 DEF Distinct, IsNew
<1> QED
  BY <1>3, <1>4

LEMMA RowAdded ==
    ASSUME NEW list \in Seq(ShownRow), NEW e \in ShownRow, IsNew(e)
    PROVE  /\ Append(list, e) \in Seq(ShownRow) /\ OldIn(Append(list, e)) = OldIn(list)
           /\ Distinct(list) => Distinct(Append(list, e))
           /\ \A n \in 1 .. Len(Append(list, e)) : Append(list, e)[n] = e \/ \E m \in 1 .. Len(list) : Append(list, e)[n] = list[m]
<1> DEFINE u == Append(list, e)
           l == Len(list)
<1>1. /\ u \in Seq(ShownRow) /\ Len(u) = l + 1 /\ l \in Nat /\ (\A i \in 1 .. l : u[i] = list[i]) /\ u[l + 1] = e
  BY AppendProperties, LenProperties
<1> HIDE DEF u, l
<1>2. \A i \in 1 .. l + 1 : i \in 1 .. l \/ i = l + 1
  BY <1>1
<1>3. 1 .. l \subseteq 1 .. l + 1 /\ l + 1 \in 1 .. l + 1
  BY <1>1
<1>4. {m \in 1 .. Len(u) : ~IsNew(u[m])} = {m \in 1 .. l : ~IsNew(list[m])}
  BY <1>1, <1>2, <1>3
<1>5. OldIn(u) = OldIn(list)
  BY <1>1, <1>4 DEF OldIn, l
<1>6. Distinct(list) => Distinct(u)
  <2> SUFFICES ASSUME Distinct(list), NEW m \in 1 .. l + 1, NEW n \in 1 .. l + 1, m # n, ~IsNew(u[m]) PROVE u[m].id # u[n].id
    BY <1>1 DEF Distinct
  <2>1. m \in 1 .. l /\ u[m] = list[m]
    BY <1>1, <1>2
  <2>2. CASE n \in 1 .. l
    BY <1>1, <2>1, <2>2, OldApart DEF l
  <2>3. CASE n = l + 1
    <3>1. u[n] = e
      BY <1>1, <2>3
    <3> QED
      BY <3>1 DEF IsNew
  <2> QED
    BY <1>2, <2>2, <2>3
<1>7. \A n \in 1 .. l + 1 : u[n] = e \/ \E m \in 1 .. l : u[n] = list[m]
  BY <1>1, <1>2
<1> QED
  BY <1>1, <1>5, <1>6, <1>7 DEF u, l

Dropped(list, new, i) == new = [j \in 1 .. Len(list) - 1 |-> list[IF j < i THEN j ELSE j + 1]]
LEMMA DroppedIs ==
    ASSUME NEW list \in Seq(ShownRow), NEW i \in 1 .. Len(list), NEW new, Dropped(list, new, i)
    PROVE  /\ new \in Seq(ShownRow)
           /\ \A n \in 1 .. Len(new) : \E m \in 1 .. Len(list) : new[n] = list[m]
           /\ Distinct(list) => Distinct(new)
           /\ OldIn(new) \subseteq OldIn(list)
           /\ IsNew(list[i]) => OldIn(new) = OldIn(list)
           /\ ~IsNew(list[i]) => OldIn(list) \subseteq OldIn(new) \cup {list[i].id}
           /\ ~IsNew(list[i]) /\ Distinct(list) => list[i].id \notin OldIn(new)
<1> DEFINE l == Len(list)
           At(j) == IF j < i THEN j ELSE j + 1
<1>1. l \in Nat /\ i \in 1 .. l
  BY LenProperties
<1>2. \A j \in 1 .. l - 1 : At(j) \in 1 .. l /\ At(j) # i
  <2> HIDE DEF l
  <2> QED
    BY <1>1
<1>3. \A j, k \in 1 .. l - 1 : j # k => At(j) # At(k)
  <2> HIDE DEF l
  <2> QED
    BY <1>1
<1>4. \A m \in 1 .. l : m # i => \E j \in 1 .. l - 1 : At(j) = m
  <2> SUFFICES ASSUME NEW m \in 1 .. l, m # i PROVE \E j \in 1 .. l - 1 : At(j) = m
    OBVIOUS
  <2> DEFINE j == IF m < i THEN m ELSE m - 1
  <2>1. j \in 1 .. l - 1 /\ At(j) = m
    <3> HIDE DEF l
    <3> QED
      BY <1>1
  <2> QED
    BY <2>1
<1>5. new = [j \in 1 .. l - 1 |-> list[At(j)]]
  BY DEF Dropped
<1> DEFINE k == l - 1
<1>6. k \in Nat /\ 1 .. l - 1 = 1 .. k
  <2> HIDE DEF l
  <2> QED
    BY <1>1
<1> HIDE DEF At, l, k
<1>7. \A j \in 1 .. k : list[At(j)] \in ShownRow
  BY <1>2, <1>6, ElementOfSeq DEF l
<1>8. new \in [1 .. k -> ShownRow] /\ \A j \in 1 .. k : new[j] = list[At(j)]
  BY <1>5, <1>6, <1>7
<1>9. new \in Seq(ShownRow) /\ Len(new) = k
  BY <1>6, <1>8, ListMade
<1>10. \A j \in 1 .. k : At(j) \in 1 .. l /\ At(j) # i
  BY <1>2, <1>6
<1>11. \A m \in 1 .. l : m # i => \E j \in 1 .. k : At(j) = m
  BY <1>4, <1>6
<1>12. \A n \in 1 .. Len(new) : \E m \in 1 .. Len(list) : new[n] = list[m]
  BY <1>8, <1>9, <1>10 DEF l
<1>13. OldIn(new) \subseteq OldIn(list)
  BY <1>8, <1>9, <1>10 DEF OldIn, l
<1>14. ASSUME NEW m \in 1 .. l, m # i, ~IsNew(list[m]) PROVE list[m].id \in OldIn(new)
  <2>1. PICK j \in 1 .. k : At(j) = m
    BY <1>11, <1>14
  <2>2. new[j] = list[m]
    BY <1>8, <2>1
  <2> QED
    BY <1>9, <1>14, <2>2, OldAreIn
<1>15. ASSUME NEW x \in OldIn(list) PROVE \E m \in 1 .. l : ~IsNew(list[m]) /\ list[m].id = x
  BY DEF OldIn, l
<1>16. IsNew(list[i]) => OldIn(new) = OldIn(list)
  BY <1>13, <1>14, <1>15
<1>17. ~IsNew(list[i]) => OldIn(list) \subseteq OldIn(new) \cup {list[i].id}
  BY <1>14, <1>15
<1>18. ASSUME Distinct(list) PROVE Distinct(new)
  <2> SUFFICES ASSUME NEW m \in 1 .. k, NEW n \in 1 .. k, m # n, ~IsNew(new[m]) PROVE new[m].id # new[n].id
    BY <1>9 DEF Distinct
  <2>1. new[m] = list[At(m)] /\ new[n] = list[At(n)] /\ At(m) # At(n) /\ At(m) \in 1 .. Len(list) /\ At(n) \in 1 .. Len(list)
    BY <1>3, <1>6, <1>8, <1>10 DEF l
  <2> QED
    BY <1>18, <2>1, OldApart
<1>19. ASSUME ~IsNew(list[i]), Distinct(list) PROVE list[i].id \notin OldIn(new)
  <2> SUFFICES ASSUME NEW j \in 1 .. k, ~IsNew(new[j]), new[j].id = list[i].id PROVE FALSE
    BY <1>9 DEF OldIn
  <2>1. new[j] = list[At(j)] /\ At(j) \in 1 .. Len(list) /\ At(j) # i
    BY <1>8, <1>10 DEF l
  <2> QED
    BY <1>19, <2>1, OldApart
<1> QED
  BY <1>9, <1>12, <1>13, <1>16, <1>17, <1>18, <1>19

(* The analyses and the templates only grow in number, and an analysis     *)
(* stays that of its campaign.                                             *)
JobsGrown ==
  /\ analyses' \in Seq(AnalysisRow) /\ Len(analyses) \in Nat /\ Len(analyses') \in Nat /\ Len(analyses) <= Len(analyses')
  /\ \A j \in 1 .. Len(analyses) : analyses'[j].campaign = analyses[j].campaign
  /\ \A j \in 1 .. Len(analyses') : analyses'[j].campaign \in 1 .. campaigns'
RowsGrown ==
  memories' \in Seq(MemoryRow) /\ Len(memories) \in Nat /\ Len(memories') \in Nat /\ Len(memories) <= Len(memories')

LEMMA FitsOn ==
    ASSUME NEW j \in Nat, NEW k \in Nat, j <= k, NEW m \in Nat, NEW n \in Nat, m <= n
    PROVE  /\ \A s : SlotFits(s, j, m) => SlotFits(s, k, n)
           /\ \A e : HookFits(e, j) => HookFits(e, k)
           /\ \A t : RowFits(t, m) => RowFits(t, n)
           /\ \A r : Doable(m, r) => Doable(n, r)
           /\ 1 .. j \subseteq 1 .. k /\ 1 .. m \subseteq 1 .. n
<1>0. MaxWizardActs \in Nat
  BY WizardAssumption
<1>1. 1 .. j \subseteq 1 .. k /\ 1 .. m \subseteq 1 .. n /\ -MaxWizardActs .. m \subseteq -MaxWizardActs .. n
  <2> DEFINE x == -MaxWizardActs
  <2>1. x \in Int
    BY <1>0
  <2> HIDE DEF x
  <2> QED
    BY <2>1
<1>2. \A s : SlotFits(s, j, m) => SlotFits(s, k, n)
  BY <1>1 DEF SlotFits
<1>3. \A e : HookFits(e, j) => HookFits(e, k)
  BY <1>1 DEF HookFits
<1>4. \A t : RowFits(t, m) => RowFits(t, n)
  BY <1>1 DEF RowFits
<1>5. \A r : Doable(m, r) => Doable(n, r)
  BY <1>1 DEF Doable
<1> QED
  BY <1>1, <1>2, <1>3, <1>4, <1>5

LEMMA JobsSame ==
    ASSUME WizardTypes, UNCHANGED analyses, campaigns' \in Nat, campaigns <= campaigns'
    PROVE  JobsGrown
<1>1. /\ analyses \in Seq(AnalysisRow) /\ Len(analyses) \in Nat /\ campaigns \in Nat
      /\ \A j \in 1 .. Len(analyses) : analyses[j].campaign \in 1 .. campaigns
  BY LenProperties DEF WizardTypes, AnalysisTypes, FormTypes
<1>2. 1 .. campaigns \subseteq 1 .. campaigns'
  BY <1>1
<1>3. \A j \in 1 .. Len(analyses) : analyses[j].campaign \in 1 .. campaigns'
  BY <1>1, <1>2, Zenon
<1>4. Len(analyses) <= Len(analyses)
  BY <1>1
<1> QED
  BY <1>1, <1>3, <1>4, Zenon DEF JobsGrown

LEMMA JobPut ==
    ASSUME WizardTypes, NEW j \in 1 .. Len(analyses), NEW e \in AnalysisRow, e.campaign = analyses[j].campaign,
           analyses' = [analyses EXCEPT ![j] = e], UNCHANGED campaigns
    PROVE  JobsGrown /\ Len(analyses') = Len(analyses)
<1> DEFINE l == Len(analyses)
           S == AnalysisRow
<1>1. analyses \in Seq(S) /\ l \in Nat /\ (\A i \in 1 .. l : analyses[i].campaign \in 1 .. campaigns) /\ e \in S
  BY LenProperties DEF WizardTypes, AnalysisTypes
<1> HIDE DEF S
<1>2. analyses' \in Seq(S) /\ Len(analyses') = l /\ \A i \in 1 .. l : analyses'[i] = IF i = j THEN e ELSE analyses[i]
  BY <1>1, PlaceChanged
<1>3. \A i \in 1 .. l : analyses'[i].campaign = analyses[i].campaign
  BY <1>2
<1>4. \A i \in 1 .. l : analyses'[i].campaign \in 1 .. campaigns'
  BY <1>1, <1>3
<1>5. l <= l
  BY <1>1
<1> QED
  BY <1>1, <1>2, <1>3, <1>4, <1>5 DEF JobsGrown, S

LEMMA JobAdded ==
    ASSUME WizardTypes, NEW e \in AnalysisRow, e.campaign \in 1 .. campaigns,
           analyses' = Append(analyses, e), UNCHANGED campaigns
    PROVE  JobsGrown /\ Len(analyses') = Len(analyses) + 1
<1> DEFINE l == Len(analyses)
<1>1. analyses \in Seq(AnalysisRow) /\ l \in Nat /\ \A i \in 1 .. l : analyses[i].campaign \in 1 .. campaigns
  BY LenProperties DEF WizardTypes, AnalysisTypes
<1>2. /\ analyses' \in Seq(AnalysisRow) /\ Len(analyses') = l + 1 /\ (\A i \in 1 .. l : analyses'[i] = analyses[i])
      /\ analyses'[l + 1] = e
  BY <1>1, AppendProperties
<1> HIDE DEF l
<1>3. l <= l + 1 /\ l + 1 \in Nat /\ \A i \in 1 .. l + 1 : i \in 1 .. l \/ i = l + 1
  BY <1>1
<1>4. \A i \in 1 .. l : analyses'[i].campaign = analyses[i].campaign
  BY <1>2
<1>5. \A i \in 1 .. l + 1 : analyses'[i].campaign \in 1 .. campaigns'
  BY <1>1, <1>2, <1>3, <1>4
<1> QED
  BY <1>1, <1>2, <1>3, <1>4, <1>5 DEF JobsGrown, l

LEMMA RowsSame ==
    ASSUME WizardTypes, UNCHANGED memories
    PROVE  RowsGrown
<1>1. memories \in Seq(MemoryRow) /\ Len(memories) \in Nat
  BY LenProperties DEF WizardTypes, ReviewTypes
<1>2. Len(memories) <= Len(memories)
  BY <1>1
<1> QED
  BY <1>1, <1>2 DEF RowsGrown

(* What a step leaves alone keeps its type.                                *)
LEMMA Carried ==
    ASSUME WizardTypes, JobsGrown, RowsGrown
    PROVE  /\ UNCHANGED slots => SlotTypes'
           /\ slots' = [k \in Slots |-> FreeSlot] => SlotTypes'
           /\ UNCHANGED hooks => HookTypes'
           /\ UNCHANGED <<emailTemplates, deletedTemplateIds>> => ReviewTypes'
           /\ UNCHANGED saving => SaveTypes'
           /\ saving' = NotSaving => SaveTypes'
           /\ jobId \in 0 .. Len(analyses')
<1> DEFINE a == Len(analyses)
           b == Len(analyses')
           m == Len(memories)
           n == Len(memories')
<1>1. a \in Nat /\ b \in Nat /\ m \in Nat /\ n \in Nat /\ a <= b /\ m <= n
  BY DEF JobsGrown, RowsGrown
<1>2. /\ \A s : SlotFits(s, a, m) => SlotFits(s, b, n)
      /\ \A e : HookFits(e, a) => HookFits(e, b)
      /\ \A t : RowFits(t, m) => RowFits(t, n)
      /\ \A r : Doable(m, r) => Doable(n, r)
      /\ 1 .. a \subseteq 1 .. b /\ 1 .. m \subseteq 1 .. n
  BY <1>1, FitsOn
<1> USE DEF WizardTypes
<1>3. ASSUME UNCHANGED slots PROVE SlotTypes'
  BY <1>2, <1>3 DEF SlotTypes
<1>4. ASSUME slots' = [k \in Slots |-> FreeSlot] PROVE SlotTypes'
  <2>1. FreeSlot \in SlotRow /\ FreeSlot.stage = "free" /\ Len(FreeSlot.read) = 0
    BY EmptySeq DEF FreeSlot, SlotRow
  <2>2. 1 .. 0 = {}
    OBVIOUS
  <2>3. SlotFits(FreeSlot, b, n)
    BY <2>1, <2>2 DEF SlotFits
  <2> QED
    BY <1>4, <2>1, <2>3 DEF SlotTypes
<1>5. ASSUME UNCHANGED hooks PROVE HookTypes'
  BY <1>2, <1>5 DEF HookTypes
<1>6. ASSUME UNCHANGED <<emailTemplates, deletedTemplateIds>> PROVE ReviewTypes'
  BY <1>2, <1>6 DEF ReviewTypes, RowsGrown
<1>7. ASSUME UNCHANGED saving PROVE SaveTypes'
  BY <1>2, <1>7 DEF SaveTypes
<1>8. ASSUME saving' = NotSaving PROVE SaveTypes'
  <2>1. NotSaving \in SaveRow /\ Len(NotSaving.requests) = 0
    BY EmptySeq DEF NotSaving, SaveRow
  <2>2. 1 .. 0 = {}
    OBVIOUS
  <2> QED
    BY <1>8, <2>1, <2>2 DEF SaveTypes
<1>9. jobId \in 0 .. b
  BY <1>1 DEF AnalysisTypes
<1> QED
  BY <1>3, <1>4, <1>5, <1>6, <1>7, <1>8, <1>9

LEMMA SlotPut ==
    ASSUME WizardTypes, JobsGrown, RowsGrown, NEW k \in Slots, NEW s, SlotFits(s, Len(analyses'), Len(memories')),
           slots' = [slots EXCEPT ![k] = s]
    PROVE  SlotTypes'
<1> DEFINE b == Len(analyses')
           n == Len(memories')
<1>1. /\ \A x : SlotFits(x, Len(analyses), Len(memories)) => SlotFits(x, b, n)
  BY FitsOn DEF JobsGrown, RowsGrown
<1>2. slots \in [Slots -> SlotRow] /\ \A i \in Slots : SlotFits(slots[i], Len(analyses), Len(memories))
  BY DEF WizardTypes, SlotTypes
<1>3. s \in SlotRow
  BY DEF SlotFits
<1>4. slots' \in [Slots -> SlotRow] /\ slots'[k] = s /\ \A i \in Slots : i # k => slots'[i] = slots[i]
  BY <1>2, <1>3
<1>5. \A i \in Slots : SlotFits(slots'[i], b, n)
  BY <1>1, <1>2, <1>4
<1> QED
  BY <1>4, <1>5 DEF SlotTypes

LEMMA HookPut ==
    ASSUME WizardTypes, JobsGrown, NEW h \in Hooks, NEW e, HookFits(e, Len(analyses')),
           hooks' = [hooks EXCEPT ![h] = e]
    PROVE  HookTypes'
<1> DEFINE b == Len(analyses')
<1>1. /\ \A x : HookFits(x, Len(analyses)) => HookFits(x, b)
  BY FitsOn DEF JobsGrown
<1>2. hooks \in [Hooks -> HookRow] /\ \A i \in Hooks : HookFits(hooks[i], Len(analyses))
  BY DEF WizardTypes, HookTypes
<1>3. e \in HookRow
  BY DEF HookFits
<1>4. hooks' \in [Hooks -> HookRow] /\ hooks'[h] = e /\ \A i \in Hooks : i # h => hooks'[i] = hooks[i]
  BY <1>2, <1>3
<1>5. \A i \in Hooks : HookFits(hooks'[i], b)
  BY <1>1, <1>2, <1>4
<1> QED
  BY <1>4, <1>5 DEF HookTypes

StepTyped == WizardTypes' /\ JobsGrown /\ RowsGrown

LEMMA TypesMet ==
    ASSUME FormTypes', JobsGrown, RowsGrown, jobId' \in 0 .. Len(analyses'), SlotTypes', HookTypes', ReviewTypes',
           SaveTypes', HistoryTypes'
    PROVE  StepTyped
BY DEF StepTyped, WizardTypes, AnalysisTypes, JobsGrown

(* Flags are only set, and counters count.                                 *)
LEMMA WizardFaultCounted ==
    ASSUME WizardTypes, WizardFault
    PROVE  wizardFaults' \in Nat
BY DEF WizardTypes, HistoryTypes, WizardFault

LEMMA WizardActCounted ==
    ASSUME WizardTypes, WizardAct
    PROVE  wizardActs' \in 0 .. MaxWizardActs /\ wizardActs' = wizardActs + 1 /\ wizardActs \in Nat
<1>1. MaxWizardActs \in Nat
  BY WizardAssumption
<1>2. wizardActs \in 0 .. MaxWizardActs /\ wizardActs < MaxWizardActs /\ wizardActs' = wizardActs + 1
  BY DEF WizardTypes, HistoryTypes, WizardAct
<1> QED
  BY <1>1, <1>2

LEMMA FormStep ==
    ASSUME WizardTypes, Submit \/ CreateCampaign \/ CreateFails \/ Retry \/ GoBack
    PROVE  StepTyped
<1>1. /\ UNCHANGED <<jobId, analyses, slots, hooks, memories, emailTemplates, deletedTemplateIds, saving>>
      /\ UNCHANGED <<late, replaced, halfSaved, ignored, wizardActs>>
  BY Zenon DEF Submit, CreateCampaign, CreateFails, Retry, GoBack, reviewed, blemishes
<1>2. wizardFaults' \in Nat
  <2>1. UNCHANGED wizardFaults \/ WizardFault
    BY Zenon DEF Submit, CreateCampaign, CreateFails, Retry, GoBack
  <2> QED
    BY <2>1, WizardFaultCounted DEF WizardTypes, HistoryTypes
<1>3. FormTypes' /\ campaigns <= campaigns'
  <2>1. FormTypes
    BY DEF WizardTypes
  <2>2. CASE Submit
    BY <2>1, <2>2 DEF FormTypes, Submit
  <2>3. CASE CreateCampaign
    BY <2>1, <2>3 DEF FormTypes, CreateCampaign
  <2>4. CASE CreateFails
    BY <2>1, <2>4 DEF FormTypes, CreateFails
  <2>5. CASE Retry
    BY <2>1, <2>5 DEF FormTypes, Retry
  <2>6. CASE GoBack
    BY <2>1, <2>6 DEF FormTypes, GoBack
  <2> QED
    BY <2>2, <2>3, <2>4, <2>5, <2>6
<1>4. JobsGrown /\ RowsGrown
  BY <1>1, <1>3, JobsSame, RowsSame DEF FormTypes
<1>5. HistoryTypes'
  BY <1>1, <1>2 DEF WizardTypes, HistoryTypes
<1> QED
  BY <1>1, <1>3, <1>4, <1>5, Carried, TypesMet

LEMMA FreshJob ==
    ASSUME FormTypes, submitting \in {"starting", "restarting"}, NEW st \in {"pending", "failed"}
    PROVE  Job(st) \in AnalysisRow /\ Job(st).campaign \in 1 .. campaigns
<1>1. campaignId \in 1 .. campaigns /\ campaignId \in Nat
  BY DEF FormTypes
<1> QED
  BY <1>1 DEF Job, AnalysisRow

LEMMA AnalyzeStep ==
    ASSUME WizardTypes, StartAnalysis \/ AnalyzeFails
    PROVE  StepTyped
<1>1. /\ UNCHANGED <<campaigns, slots, hooks, memories, emailTemplates, deletedTemplateIds, saving>>
      /\ UNCHANGED <<late, replaced, halfSaved, ignored, wizardActs>>
  BY Zenon DEF StartAnalysis, AnalyzeFails, reviewed, blemishes
<1>2. wizardFaults' \in Nat
  <2>1. UNCHANGED wizardFaults \/ WizardFault
    BY Zenon DEF StartAnalysis, AnalyzeFails
  <2> QED
    BY <2>1, WizardFaultCounted DEF WizardTypes, HistoryTypes
<1>3. FormTypes /\ submitting \in {"starting", "restarting"} /\ Len(analyses) \in Nat /\ campaigns \in Nat
  BY LenProperties DEF WizardTypes, FormTypes, AnalysisTypes, StartAnalysis, AnalyzeFails
<1>4. FormTypes'
  <2>1. CASE StartAnalysis
    BY <1>3, <2>1 DEF FormTypes, StartAnalysis
  <2>2. CASE AnalyzeFails
    BY <1>3, <2>2 DEF FormTypes, AnalyzeFails
  <2> QED
    BY <2>1, <2>2
<1>5. JobsGrown /\ jobId' \in 0 .. Len(analyses')
  <2>1. CASE StartAnalysis
    <3>1. analyses' = Append(analyses, Job("pending")) /\ jobId' = Len(analyses) + 1
      BY <2>1 DEF StartAnalysis
    <3>2. JobsGrown /\ Len(analyses') = Len(analyses) + 1
      BY <1>1, <1>3, <3>1, FreshJob, JobAdded
    <3> QED
      BY <1>3, <3>1, <3>2
  <2>2. CASE AnalyzeFails
    <3>1. analyses' = Append(analyses, Job("failed")) \/ UNCHANGED analyses
      BY <2>2 DEF AnalyzeFails
    <3>2. JobsGrown
      <4>1. ASSUME analyses' = Append(analyses, Job("failed")) PROVE JobsGrown
        BY <1>1, <1>3, <4>1, FreshJob, JobAdded
      <4>2. ASSUME UNCHANGED analyses PROVE JobsGrown
        <5>1. campaigns' \in Nat /\ campaigns <= campaigns'
          BY <1>1, <1>3
        <5> QED
          BY <4>2, <5>1, JobsSame
      <4> QED
        BY <3>1, <4>1, <4>2
    <3>3. jobId' = jobId
      BY <2>2 DEF AnalyzeFails
    <3> QED
      BY <1>1, <3>2, <3>3, RowsSame, Carried
  <2> QED
    BY <2>1, <2>2
<1>6. RowsGrown
  BY <1>1, RowsSame
<1>7. HistoryTypes'
  BY <1>1, <1>2 DEF WizardTypes, HistoryTypes
<1> QED
  BY <1>1, <1>4, <1>5, <1>6, <1>7, Carried, TypesMet

PhaseNames == {"crawling", "reporting", "again", "closing", "gone"}
JobStates == {"pending", "failed", "completed"}

LEMMA PhaseSet ==
    ASSUME WizardTypes, NEW j \in 1 .. Len(analyses), NEW ph \in PhaseNames, NEW hk \in SUBSET Hooks, UNCHANGED campaigns,
           analyses' = [analyses EXCEPT ![j].phase = ph, ![j].hook = hk]
    PROVE  JobsGrown /\ Len(analyses') = Len(analyses)
<1> DEFINE e == [analyses[j] EXCEPT !.phase = ph, !.hook = hk]
<1>1. analyses[j] \in AnalysisRow
  BY ElementOfSeq DEF WizardTypes, AnalysisTypes
<1>2. e \in AnalysisRow /\ e.campaign = analyses[j].campaign
  BY <1>1 DEF AnalysisRow, PhaseNames
<1>3. analyses' = [analyses EXCEPT ![j] = e]
  OBVIOUS
<1> HIDE DEF e
<1> QED
  BY <1>2, <1>3, JobPut

LEMMA PhaseEnds ==
    ASSUME WizardTypes, NEW j \in 1 .. Len(analyses), NEW ph \in PhaseNames, NEW st \in JobStates, UNCHANGED campaigns,
           analyses' = [analyses EXCEPT ![j].phase = ph, ![j].status = st]
    PROVE  JobsGrown /\ Len(analyses') = Len(analyses)
<1> DEFINE e == [analyses[j] EXCEPT !.phase = ph, !.status = st]
<1>1. analyses[j] \in AnalysisRow
  BY ElementOfSeq DEF WizardTypes, AnalysisTypes
<1>2. e \in AnalysisRow /\ e.campaign = analyses[j].campaign
  BY <1>1 DEF AnalysisRow, PhaseNames, JobStates
<1>3. analyses' = [analyses EXCEPT ![j] = e]
  OBVIOUS
<1> HIDE DEF e
<1> QED
  BY <1>2, <1>3, JobPut

(* A step of a job.                                                        *)
LEMMA JobMoves ==
    ASSUME WizardTypes, NEW j \in 1 .. Len(analyses), UNCHANGED campaigns,
           \/ \E ph \in PhaseNames : Phase(j, ph)
           \/ \E ph \in PhaseNames, st \in JobStates : analyses' = [analyses EXCEPT ![j].phase = ph, ![j].status = st]
           \/ \E ph \in PhaseNames, hk \in SUBSET Hooks : analyses' = [analyses EXCEPT ![j].phase = ph, ![j].hook = hk]
           \/ UNCHANGED analyses
    PROVE  JobsGrown /\ Len(analyses') = Len(analyses)
<1>1. ASSUME NEW ph \in PhaseNames, Phase(j, ph) PROVE JobsGrown /\ Len(analyses') = Len(analyses)
  <2>1. {} \in SUBSET Hooks /\ analyses' = [analyses EXCEPT ![j].phase = ph, ![j].hook = {}]
    BY <1>1 DEF Phase
  <2> QED
    BY <2>1, PhaseSet
<1>2. ASSUME UNCHANGED analyses PROVE JobsGrown /\ Len(analyses') = Len(analyses)
  <2>1. campaigns \in Nat
    BY DEF WizardTypes, FormTypes
  <2>2. campaigns' \in Nat /\ campaigns <= campaigns'
    BY <2>1
  <2> QED
    BY <1>2, <2>2, JobsSame
<1>3. ASSUME NEW ph \in PhaseNames, NEW st \in JobStates, analyses' = [analyses EXCEPT ![j].phase = ph, ![j].status = st]
      PROVE  JobsGrown /\ Len(analyses') = Len(analyses)
  BY <1>3, PhaseEnds
<1>4. ASSUME NEW ph \in PhaseNames, NEW hk \in SUBSET Hooks, analyses' = [analyses EXCEPT ![j].phase = ph, ![j].hook = hk]
      PROVE  JobsGrown /\ Len(analyses') = Len(analyses)
  BY <1>4, PhaseSet
<1> QED
  BY <1>1, <1>2, <1>3, <1>4

LEMMA WorkerStep ==
    ASSUME WizardTypes, NEW j \in 1 .. Len(analyses),
           AnalysisFails(j) \/ NoAnswer(j) \/ CloseAnalysis(j) \/ \E h \in Hooks : PostAnalyzed(j, h)
    PROVE  StepTyped
<1>1. /\ UNCHANGED <<page, slots, memories, emailTemplates, deletedTemplateIds, saving>>
      /\ UNCHANGED <<late, replaced, halfSaved, ignored, wizardActs>>
  BY Zenon DEF AnalysisFails, NoAnswer, CloseAnalysis, PostAnalyzed, reviewed, blemishes
<1>2. wizardFaults' \in Nat
  <2>1. UNCHANGED wizardFaults \/ WizardFault
    BY Zenon DEF AnalysisFails, NoAnswer, CloseAnalysis, PostAnalyzed
  <2> QED
    BY <2>1, WizardFaultCounted DEF WizardTypes, HistoryTypes
<1>3. UNCHANGED campaigns /\ UNCHANGED jobId
  BY <1>1 DEF page
<1>4. JobsGrown
  <2>1. "again" \in PhaseNames /\ "closing" \in PhaseNames /\ "gone" \in PhaseNames /\ "reporting" \in PhaseNames
        /\ "failed" \in JobStates /\ "completed" \in JobStates
    BY DEF PhaseNames, JobStates
  <2>2. CASE AnalysisFails(j)
    <3>1. analyses' = [analyses EXCEPT ![j].phase = "gone", ![j].status = "failed"]
      BY <2>2 DEF AnalysisFails
    <3> QED
      BY <1>3, <2>1, <3>1, PhaseEnds
  <2>3. CASE NoAnswer(j)
    <3>1. Phase(j, "again") \/ Phase(j, "closing")
      BY <2>3 DEF NoAnswer
    <3> QED
      BY <1>3, <2>1, <3>1, JobMoves, Zenon
  <2>4. CASE CloseAnalysis(j)
    <3>1. analyses' = [analyses EXCEPT ![j].phase = "gone", ![j].status = "completed"] \/ Phase(j, "gone")
      BY <2>4 DEF CloseAnalysis
    <3> QED
      BY <1>3, <2>1, <3>1, JobMoves, Zenon
  <2>5. ASSUME NEW h \in Hooks, PostAnalyzed(j, h) PROVE JobsGrown
    <3>1. analyses' = [analyses EXCEPT ![j].phase = "reporting", ![j].hook = {h}] /\ {h} \in SUBSET Hooks
      BY <2>5 DEF PostAnalyzed
    <3> QED
      BY <1>3, <2>1, <3>1, PhaseSet
  <2> QED
    BY <2>2, <2>3, <2>4, <2>5
<1>5. RowsGrown
  BY <1>1, RowsSame
<1>6. HookTypes'
  <2>1. ASSUME NEW h \in Hooks, PostAnalyzed(j, h) PROVE HookTypes'
    <3> DEFINE e == [hooks[h] EXCEPT !.job = j]
    <3>1. hooks[h] \in HookRow /\ hooks \in [Hooks -> HookRow] /\ Len(analyses') \in Nat /\ Len(analyses) \in Nat
          /\ Len(analyses) <= Len(analyses')
      BY <1>4 DEF WizardTypes, HookTypes, JobsGrown
    <3>2. hooks' = [hooks EXCEPT ![h] = e]
      BY <2>1 DEF PostAnalyzed
    <3>3. j \in Nat /\ j \in 1 .. Len(analyses')
      <4> DEFINE a == Len(analyses)
                 b == Len(analyses')
      <4>1. a \in Nat /\ b \in Nat /\ a <= b /\ j \in 1 .. a
        BY <3>1
      <4> HIDE DEF a, b
      <4>2. j \in Nat /\ j \in 1 .. b
        BY <4>1
      <4> QED
        BY <4>2 DEF b
    <3>4. e \in HookRow /\ e.job = j
      BY <3>1, <3>3 DEF HookRow
    <3> HIDE DEF e
    <3>5. HookFits(e, Len(analyses'))
      BY <3>3, <3>4 DEF HookFits
    <3> QED
      BY <1>4, <3>2, <3>5, HookPut
  <2>2. UNCHANGED hooks \/ \E h \in Hooks : PostAnalyzed(j, h)
    BY Zenon DEF AnalysisFails, NoAnswer, CloseAnalysis
  <2> QED
    BY <1>4, <1>5, <2>1, <2>2, Carried
<1>7. FormTypes'
  BY <1>1 DEF WizardTypes, FormTypes, page
<1>8. HistoryTypes'
  BY <1>1, <1>2 DEF WizardTypes, HistoryTypes
<1>9. jobId' \in 0 .. Len(analyses')
  BY <1>3, <1>4, <1>5, Carried
<1> QED
  BY <1>1, <1>4, <1>5, <1>6, <1>7, <1>8, <1>9, Carried, TypesMet

LEMMA StoreTemplateStep ==
    ASSUME WizardTypes, NEW h \in Hooks, StoreTemplate(h)
    PROVE  /\ StepTyped
           /\ \E e \in MemoryRow : memories' = Append(memories, e) /\ Mine(e, CampaignOf(hooks[h].job))
           /\ late' = (late \/ ResultsOut(CampaignOf(hooks[h].job)))
<1> DEFINE w == hooks[h]
           j == w.job
           last == w.next = Len(Generated)
           e == [campaign |-> CampaignOf(j), text |-> Generated[w.next]]
           v == IF last THEN IdleHook ELSE [w EXCEPT !.next = @ + 1]
<1>1. w # IdleHook /\ w \in HookRow /\ j \in 1 .. Len(analyses)
  BY DEF StoreTemplate, WizardTypes, HookTypes, HookFits
<1>2. analyses[j] \in AnalysisRow /\ j \in Nat
  BY <1>1, ElementOfSeq DEF WizardTypes, AnalysisTypes, HookRow
<1>3. w.next \in 1 .. Len(Generated) /\ CampaignOf(j) \in Nat
  BY <1>1, <1>2 DEF HookRow, AnalysisRow, CampaignOf
<1>4. Generated[w.next] \in WizardText
  BY <1>3 DEF WizardText
<1>5. e \in MemoryRow /\ Mine(e, CampaignOf(j))
  BY <1>3, <1>4 DEF MemoryRow, AnyText, Mine
<1>6. /\ memories' = Append(memories, e)
      /\ late' = (late \/ ResultsOut(CampaignOf(j)))
      /\ hooks' = [hooks EXCEPT ![h] = v]
      /\ Phase(j, "closing") \/ UNCHANGED analyses
      /\ UNCHANGED <<page, slots, emailTemplates, deletedTemplateIds, saving, replaced, halfSaved, ignored, wizardActs, wizardFaults>>
  BY DEF StoreTemplate, reviewed
<1>7. UNCHANGED campaigns /\ UNCHANGED jobId
  BY <1>6 DEF page
<1>8. JobsGrown
  <2>1. "closing" \in PhaseNames
    BY DEF PhaseNames
  <2> QED
    BY <1>1, <1>6, <1>7, <2>1, JobMoves, Zenon
<1> HIDE DEF e
<1>9. RowsGrown
  <2> DEFINE m == Len(memories)
  <2>1. memories \in Seq(MemoryRow) /\ m \in Nat
    BY LenProperties DEF WizardTypes, ReviewTypes
  <2>2. memories' \in Seq(MemoryRow) /\ Len(memories') = m + 1
    BY <1>5, <1>6, <2>1, AppendProperties
  <2> HIDE DEF m
  <2>3. m + 1 \in Nat /\ m <= m + 1
    BY <2>1
  <2> QED
    BY <2>1, <2>2, <2>3 DEF RowsGrown, m
<1>10. HookTypes'
  <2>1. Len(Generated) \in Nat
    BY WizardAssumption
  <2>2. CASE last
    <3>1. IdleHook \in HookRow
      <4>1. Len(Generated) \in Nat \ {0}
        BY WizardAssumption
      <4> DEFINE g == Len(Generated)
      <4> HIDE DEF g
      <4>2. 1 \in 1 .. g
        BY <4>1 DEF g
      <4> QED
        BY <4>2 DEF IdleHook, HookRow, g
    <3>2. HookFits(IdleHook, Len(analyses')) /\ v = IdleHook
      BY <2>2, <3>1 DEF HookFits
    <3> QED
      BY <1>6, <1>8, <3>2, HookPut
  <2>3. CASE ~last
    <3> DEFINE g == Len(Generated)
               n == w.next
    <3>1. n \in 1 .. g /\ n # g /\ g \in Nat
      BY <1>3, <2>1, <2>3
    <3> HIDE DEF g, n
    <3>2. n + 1 \in 1 .. g
      BY <3>1
    <3>3. v = [w EXCEPT !.next = n + 1]
      BY <2>3 DEF n
    <3>4. v \in HookRow /\ v.job = j
      BY <1>1, <3>2, <3>3 DEF HookRow, g
    <3> HIDE DEF v
    <3>5. Len(analyses) \in Nat /\ Len(analyses') \in Nat /\ Len(analyses) <= Len(analyses')
      BY <1>8 DEF JobsGrown
    <3>6. j \in 1 .. Len(analyses')
      BY <1>1, <3>5, FitsOn
    <3>7. HookFits(v, Len(analyses'))
      BY <3>4, <3>6 DEF HookFits
    <3> QED
      BY <1>6, <1>8, <3>7, HookPut
  <2> QED
    BY <2>2, <2>3
<1>11. FormTypes'
  BY <1>6 DEF WizardTypes, FormTypes, page
<1>12. HistoryTypes'
  BY <1>6 DEF WizardTypes, HistoryTypes, ResultsOut
<1>13. jobId' \in 0 .. Len(analyses')
  BY <1>7, <1>8, <1>9, Carried
<1>14. StepTyped
  BY <1>6, <1>8, <1>9, <1>10, <1>11, <1>12, <1>13, Carried, TypesMet
<1> QED
  BY <1>5, <1>6, <1>14

(* Status and results.                                                     *)
LEMMA ReadIsTyped ==
    ASSUME WizardTypes, NEW k \in Slots, ReadResults(k)
    PROVE  /\ slots'[k].stage = "show" /\ slots'[k].job = slots[k].job /\ slots[k].stage # "free"
           /\ slots' = [slots EXCEPT ![k] = slots'[k]]
           /\ slots'[k].read \in Seq(ShownRow)
           /\ ReadAll(memories, slots'[k].read, CampaignOf(slots[k].job))
           /\ SlotFits(slots'[k], Len(analyses), Len(memories))
<1> DEFINE c == CampaignOf(slots[k].job)
           S == KeptIn(memories, c)
           list == [n \in 1 .. Cardinality(S) |-> [id |-> Nth(S, n), text |-> memories[Nth(S, n)].text]]
           s == [slots[k] EXCEPT !.stage = "show", !.read = list]
<1>1. /\ memories \in Seq(MemoryRow) /\ slots \in [Slots -> SlotRow] /\ slots[k] \in SlotRow
      /\ slots[k].stage # "free" /\ slots[k].job \in 1 .. Len(analyses)
  <2>1. slots \in [Slots -> SlotRow] /\ memories \in Seq(MemoryRow) /\ SlotFits(slots[k], Len(analyses), Len(memories))
    BY DEF WizardTypes, SlotTypes, ReviewTypes
  <2>2. slots[k].stage # "free"
    BY DEF ReadResults
  <2> QED
    BY <2>1, <2>2 DEF SlotFits
<1>2. slots' = [slots EXCEPT ![k] = s]
  <2>1. slots' = [slots EXCEPT ![k].stage = "show", ![k].read = list]
    BY Zenon DEF ReadResults, KeptIn, Nth
  <2> HIDE DEF list, c, S
  <2> QED
    BY <1>1, <2>1
<1>3. list \in [1 .. Cardinality(S) -> ShownRow] /\ NamedAs(list, S)
  <2> HIDE DEF c
  <2>1. S \subseteq 1 .. Len(memories) /\ S \subseteq Int /\ IsFiniteSet(S)
    BY <1>1, KeptFinite
  <2>2. \A n \in 1 .. Cardinality(S) : Nth(S, n) \in S
    <3> HIDE DEF S
    <3> QED
      BY <2>1, Enumerated
  <2>3. \A i \in S : i \in Int /\ memories[i].text \in WizardText
    <3>1. \A i \in S : i \in Int /\ memories[i] \in MemoryRow /\ ~Cleared(memories[i])
      BY <1>1, <2>1, ElementOfSeq DEF KeptIn, Cleared
    <3> HIDE DEF S
    <3> QED
      BY <3>1 DEF MemoryRow, AnyText, Cleared
  <2> HIDE DEF S
  <2>4. \A n \in 1 .. Cardinality(S) : [id |-> Nth(S, n), text |-> memories[Nth(S, n)].text] \in ShownRow
    BY <2>2, <2>3 DEF ShownRow
  <2>5. list \in [1 .. Cardinality(S) -> ShownRow]
    BY <2>4
  <2>6. NamedAs(list, S)
    BY DEF NamedAs
  <2> QED
    BY <2>5, <2>6
<1> HIDE DEF list
<1>4. list \in Seq(ShownRow) /\ ReadAll(memories, list, c) /\ \A n \in 1 .. Len(list) : list[n].id \in 1 .. Len(memories)
  <2> HIDE DEF c
  <2>1. \E T : T = S
    BY Zenon
  <2> QED
    BY <1>1, <1>3, ReadIsAll
<1>5. s \in SlotRow /\ s.stage = "show" /\ s.job = slots[k].job /\ s.read = list
  BY <1>1, <1>4 DEF SlotRow
<1> HIDE DEF s
<1>6. slots'[k] = s
  BY <1>1, <1>2
<1>7. SlotFits(s, Len(analyses), Len(memories))
  BY <1>1, <1>4, <1>5 DEF SlotFits
<1> QED
  BY <1>1, <1>2, <1>4, <1>5, <1>6, <1>7

LEMMA FreeFits == \A j, m : SlotFits(FreeSlot, j, m)
<1>1. FreeSlot \in SlotRow /\ FreeSlot.stage = "free" /\ Len(FreeSlot.read) = 0
  BY EmptySeq DEF FreeSlot, SlotRow
<1>2. 1 .. 0 = {}
  OBVIOUS
<1> QED
  BY <1>1, <1>2 DEF SlotFits

LEMMA SlotStep ==
    ASSUME WizardTypes, NEW k \in Slots, AskStatus(k) \/ StatusAnswered(k) \/ ReadResults(k) \/ RequestFails(k)
    PROVE  StepTyped
<1>1. /\ UNCHANGED <<campaigns, jobId, analyses, hooks, memories, emailTemplates, deletedTemplateIds, saving>>
      /\ UNCHANGED <<step, submitting, campaignId>>
      /\ UNCHANGED <<late, replaced, halfSaved, ignored, wizardActs>>
  BY Zenon DEF AskStatus, StatusAnswered, ReadResults, RequestFails, reviewed, blemishes, page
<1>2. wizardFaults' \in Nat
  <2>1. UNCHANGED wizardFaults \/ WizardFault
    BY Zenon DEF AskStatus, StatusAnswered, ReadResults, RequestFails
  <2> QED
    BY <2>1, WizardFaultCounted DEF WizardTypes, HistoryTypes
<1>3. JobsGrown /\ RowsGrown
  <2>1. campaigns \in Nat
    BY DEF WizardTypes, FormTypes
  <2>2. campaigns' \in Nat /\ campaigns <= campaigns'
    BY <1>1, <2>1
  <2> QED
    BY <1>1, <2>2, JobsSame, RowsSame
<1>4. \A i \in Slots : SlotFits(slots[i], Len(analyses), Len(memories)) /\ slots[i] \in SlotRow
  BY DEF WizardTypes, SlotTypes
<1>5. FormTypes' /\ SlotTypes'
  <2>1. FormTypes
    BY DEF WizardTypes
  <2>2. CASE AskStatus(k)
    <3> DEFINE s == [stage |-> "status", job |-> jobId, status |-> analyses[jobId].status, read |-> <<>>]
    <3>1. slots' = [slots EXCEPT ![k] = s] /\ jobId # 0 /\ UNCHANGED <<jobStatus, stopped>>
      BY <2>2 DEF AskStatus, page
    <3>2. jobId \in 1 .. Len(analyses) /\ jobId \in Nat
      <4>1. analyses \in Seq(AnalysisRow)
        BY DEF WizardTypes, AnalysisTypes
      <4>2. Len(analyses) \in Nat
        BY <4>1, LenProperties
      <4> QED
        BY <3>1, <4>2 DEF WizardTypes, AnalysisTypes
    <3>3. analyses[jobId] \in AnalysisRow
      BY <3>2, ElementOfSeq DEF WizardTypes, AnalysisTypes
    <3>4. s \in SlotRow /\ s.job = jobId /\ s.read = <<>>
      BY <3>2, <3>3, EmptySeq DEF SlotRow, AnalysisRow
    <3> HIDE DEF s
    <3>5. SlotFits(s, Len(analyses), Len(memories))
      <4>1. Len(s.read) = 0
        BY <3>4, EmptySeq
      <4>2. 1 .. 0 = {}
        OBVIOUS
      <4> QED
        BY <3>2, <3>4, <4>1, <4>2 DEF SlotFits
    <3> QED
      BY <1>1, <1>3, <2>1, <3>1, <3>5, SlotPut DEF FormTypes
  <2>3. CASE StatusAnswered(k)
    <3> DEFINE s == [slots[k] EXCEPT !.stage = "fetch"]
               t == slots[k].status
    <3>1. /\ slots' = [slots EXCEPT ![k] = IF t = "completed" THEN s ELSE FreeSlot]
          /\ jobStatus' = t /\ stopped' = (stopped \/ (t \in {"completed", "failed"} /\ slots[k].job = jobId))
          /\ slots[k].stage = "status"
      BY <2>3 DEF StatusAnswered
    <3>2. s \in SlotRow /\ s.job = slots[k].job /\ s.read = slots[k].read /\ t \in {"pending", "failed", "completed"}
      BY <1>4 DEF SlotRow
    <3> HIDE DEF s
    <3>3. SlotFits(s, Len(analyses), Len(memories))
      BY <1>4, <3>1, <3>2 DEF SlotFits
    <3>4. SlotTypes'
      BY <1>1, <1>3, <3>1, <3>3, FreeFits, SlotPut
    <3>5. FormTypes'
      BY <1>1, <2>1, <3>1, <3>2 DEF FormTypes
    <3> QED
      BY <3>4, <3>5
  <2>4. CASE ReadResults(k)
    <3>1. slots' = [slots EXCEPT ![k] = slots'[k]] /\ SlotFits(slots'[k], Len(analyses), Len(memories))
      BY <2>4, ReadIsTyped
    <3>2. UNCHANGED <<jobStatus, stopped>>
      BY <2>4 DEF ReadResults, page
    <3>3. \E s : s = slots'[k]
      BY Zenon
    <3>4. PICK s : s = slots'[k]
      BY <3>3
    <3>5. SlotTypes'
      BY <1>1, <1>3, <3>1, <3>4, SlotPut
    <3> QED
      BY <1>1, <2>1, <3>2, <3>5 DEF FormTypes
  <2>5. CASE RequestFails(k)
    <3>1. slots' = [slots EXCEPT ![k] = FreeSlot] /\ UNCHANGED <<jobStatus, stopped>>
      BY <2>5 DEF RequestFails, page
    <3>2. SlotTypes'
      BY <1>3, <3>1, FreeFits, SlotPut
    <3> QED
      BY <1>1, <2>1, <3>1, <3>2 DEF FormTypes
  <2> QED
    BY <2>2, <2>3, <2>4, <2>5
<1>6. HistoryTypes'
  BY <1>1, <1>2 DEF WizardTypes, HistoryTypes
<1>7. jobId' \in 0 .. Len(analyses')
  BY <1>1, <1>3, Carried
<1> QED
  BY <1>1, <1>3, <1>5, <1>6, <1>7, Carried, TypesMet

LEMMA ShowStep ==
    ASSUME WizardTypes, NEW k \in Slots, ShowResults(k)
    PROVE  StepTyped
<1>1. /\ UNCHANGED <<campaigns, jobId, analyses, hooks, memories, deletedTemplateIds, saving>>
      /\ UNCHANGED <<submitting, campaignId, jobStatus, stopped>>
      /\ UNCHANGED <<late, halfSaved, ignored, wizardActs, wizardFaults>>
      /\ slots' = [slots EXCEPT ![k] = FreeSlot] /\ emailTemplates' = slots[k].read /\ slots[k].stage = "show"
      /\ step' = "review" /\ step # "left"
  BY Zenon DEF ShowResults
<1>2. JobsGrown /\ RowsGrown
  <2>1. campaigns \in Nat
    BY DEF WizardTypes, FormTypes
  <2>2. campaigns' \in Nat /\ campaigns <= campaigns'
    BY <1>1, <2>1
  <2> QED
    BY <1>1, <2>2, JobsSame, RowsSame
<1>3. slots[k] \in SlotRow /\ SlotFits(slots[k], Len(analyses), Len(memories)) /\ slots[k].job \in 1 .. Len(analyses)
  <2>1. slots[k] \in SlotRow /\ SlotFits(slots[k], Len(analyses), Len(memories))
    BY DEF WizardTypes, SlotTypes
  <2> QED
    BY <1>1, <2>1 DEF SlotFits
<1>4. FormTypes'
  <2>1. FormTypes /\ AnalysisTypes
    BY DEF WizardTypes
  <2>2. submitting \in {"starting", "restarting"} => campaignId # 0
    BY <2>1 DEF FormTypes
  <2> QED
    BY <1>1, <2>1, <2>2 DEF FormTypes
<1>5. HistoryTypes'
  <2>1. replaced' \in BOOLEAN
    BY DEF ShowResults, WizardTypes, HistoryTypes
  <2> QED
    BY <1>1, <2>1 DEF WizardTypes, HistoryTypes
<1>6. SlotTypes'
  BY <1>1, <1>2, FreeFits, SlotPut
<1>7. ReviewTypes'
  <2>1. slots[k].read \in Seq(ShownRow) /\ \A n \in 1 .. Len(slots[k].read) : slots[k].read[n].id \in 1 .. Len(memories)
    BY <1>3 DEF SlotFits, SlotRow
  <2>2. \A n \in 1 .. Len(slots[k].read) : RowFits(slots[k].read[n], Len(memories))
    <3> DEFINE m == Len(memories)
               x == -MaxWizardActs
    <3>1. m \in Nat /\ MaxWizardActs \in Nat
      BY <1>2, WizardAssumption DEF RowsGrown
    <3>2. x \in Int /\ x <= 0
      BY <3>1
    <3> HIDE DEF m, x
    <3>3. \A i \in 1 .. m : i \in x .. m /\ i # 0
      BY <3>1, <3>2
    <3>4. \A i \in 1 .. Len(memories) : i \in -MaxWizardActs .. Len(memories) /\ i # 0
      BY <3>3 DEF m, x
    <3> QED
      BY <2>1, <3>4 DEF RowFits
  <2> QED
    BY <1>1, <2>1, <2>2 DEF WizardTypes, ReviewTypes
<1>8. jobId' \in 0 .. Len(analyses')
  BY <1>1, <1>2, Carried
<1> QED
  BY <1>1, <1>2, <1>4, <1>5, <1>6, <1>7, <1>8, Carried, TypesMet

(* The review.                                                             *)
Retyped(list, new, i) == new = [list EXCEPT ![i].text = Typed]

LEMMA EditIs ==
    ASSUME NEW list \in Seq(ShownRow), NEW i \in 1 .. Len(list), NEW new, Retyped(list, new, i)
    PROVE  new \in Seq(ShownRow) /\ AlikeIds(list, new)
<1> DEFINE e == [list[i] EXCEPT !.text = Typed]
<1>1. list[i] \in ShownRow /\ Len(list) \in Nat
  BY ElementOfSeq, LenProperties
<1>2. Typed \in WizardText
  BY DEF WizardText
<1>3. e \in ShownRow /\ e.id = list[i].id
  BY <1>1, <1>2 DEF ShownRow
<1>4. new = [list EXCEPT ![i] = e]
  BY DEF Retyped
<1> HIDE DEF e
<1> DEFINE T == ShownRow
<1>5. list \in Seq(T) /\ e \in T
  BY <1>3
<1> HIDE DEF T
<1>6. new \in Seq(T) /\ Len(new) = Len(list) /\ \A j \in 1 .. Len(list) : new[j] = IF j = i THEN e ELSE list[j]
  BY <1>4, <1>5, PlaceChanged
<1>7. \A j \in 1 .. Len(list) : new[j].id = list[j].id
  BY <1>3, <1>6
<1> QED
  BY <1>6, <1>7 DEF AlikeIds, T

(* What a template that is added looks like.                               *)
FreshRow == [id |-> -(wizardActs + 1), text |-> Fresh]
LEMMA FreshIs ==
    ASSUME WizardTypes, WizardAct
    PROVE  FreshRow \in ShownRow /\ IsNew(FreshRow) /\ RowFits(FreshRow, Len(memories)) /\ Len(memories) \in Nat
<1> DEFINE x == -(wizardActs + 1)
           m == Len(memories)
<1>1. wizardActs \in Nat /\ MaxWizardActs \in Nat /\ wizardActs < MaxWizardActs
  BY WizardActCounted, WizardAssumption DEF WizardAct
<1>2. m \in Nat
  BY LenProperties DEF WizardTypes, ReviewTypes
<1> HIDE DEF m
<1>3. x \in Int /\ x < 0 /\ x \in -MaxWizardActs .. m
  BY <1>1, <1>2
<1>4. Fresh \in WizardText
  BY DEF WizardText
<1>5. FreshRow.id = x
  BY DEF FreshRow
<1>6. FreshRow \in ShownRow
  BY <1>3, <1>4 DEF FreshRow, ShownRow
<1> HIDE DEF x
<1>7. IsNew(FreshRow)
  BY <1>3, <1>5 DEF IsNew
<1>8. RowFits(FreshRow, m)
  BY <1>3, <1>5 DEF RowFits
<1> QED
  BY <1>2, <1>6, <1>7, <1>8 DEF m

LEMMA EditIsStep ==
    ASSUME WizardTypes, NEW i,
           AddTemplate \/ (i \in 1 .. Len(emailTemplates) /\ (EditTemplate(i, Typed) \/ DeleteTemplate(i)))
    PROVE  StepTyped
<1>1. /\ UNCHANGED <<page, analyses, slots, hooks, memories, saving, wizardFaults>>
      /\ UNCHANGED <<late, replaced, halfSaved, ignored>>
      /\ WizardAct
  BY Zenon DEF AddTemplate, EditTemplate, DeleteTemplate, blemishes
<1>2. wizardActs' \in 0 .. MaxWizardActs
  BY <1>1, WizardActCounted
<1>3. UNCHANGED <<step, submitting, campaigns, campaignId, jobId, jobStatus, stopped>>
  BY <1>1 DEF page
<1>4. JobsGrown /\ RowsGrown
  <2>1. campaigns \in Nat
    BY DEF WizardTypes, FormTypes
  <2>2. campaigns' \in Nat /\ campaigns <= campaigns'
    BY <1>3, <2>1
  <2> QED
    BY <1>1, <2>2, JobsSame, RowsSame
<1>5. FormTypes'
  BY <1>3 DEF WizardTypes, FormTypes
<1>6. HistoryTypes'
  BY <1>1, <1>2 DEF WizardTypes, HistoryTypes
<1>7. ReviewTypes'
  <2>1. /\ emailTemplates \in Seq(ShownRow) /\ \A n \in 1 .. Len(emailTemplates) : RowFits(emailTemplates[n], Len(memories))
        /\ deletedTemplateIds \subseteq 1 .. Len(memories) /\ memories' \in Seq(MemoryRow)
    BY <1>4 DEF WizardTypes, ReviewTypes, RowsGrown
  <2>2. SUFFICES /\ emailTemplates' \in Seq(ShownRow)
                 /\ \A n \in 1 .. Len(emailTemplates') : RowFits(emailTemplates'[n], Len(memories))
                 /\ deletedTemplateIds' \subseteq 1 .. Len(memories)
    BY <1>1, <2>1, <2>2 DEF ReviewTypes
  <2>3. CASE i \in 1 .. Len(emailTemplates) /\ EditTemplate(i, Typed)
    <3>1. Retyped(emailTemplates, emailTemplates', i) /\ UNCHANGED deletedTemplateIds
      BY <2>3 DEF EditTemplate, Retyped
    <3>2. emailTemplates' \in Seq(ShownRow) /\ AlikeIds(emailTemplates, emailTemplates')
      <4>1. \E u : u = emailTemplates'
        BY Zenon
      <4>2. PICK u : u = emailTemplates'
        BY <4>1
      <4> QED
        BY <2>1, <3>1, <2>3, <4>2, EditIs
    <3>3. \A n \in 1 .. Len(emailTemplates') : RowFits(emailTemplates'[n], Len(memories))
      BY <2>1, <3>2 DEF AlikeIds, RowFits
    <3> QED
      BY <2>1, <3>1, <3>2, <3>3
  <2>4. CASE AddTemplate
    <3>1. emailTemplates' = Append(emailTemplates, FreshRow) /\ UNCHANGED deletedTemplateIds
      BY <2>4 DEF AddTemplate, FreshRow
    <3>2. FreshRow \in ShownRow /\ IsNew(FreshRow) /\ RowFits(FreshRow, Len(memories))
      BY <1>1, FreshIs
    <3>3. /\ emailTemplates' \in Seq(ShownRow)
          /\ \A n \in 1 .. Len(emailTemplates') : emailTemplates'[n] = FreshRow \/ \E m \in 1 .. Len(emailTemplates) : emailTemplates'[n] = emailTemplates[m]
      BY <2>1, <3>1, <3>2, RowAdded
    <3>4. \A n \in 1 .. Len(emailTemplates') : RowFits(emailTemplates'[n], Len(memories))
      BY <2>1, <3>2, <3>3, Zenon
    <3> QED
      BY <2>1, <3>1, <3>3, <3>4
  <2>5. CASE i \in 1 .. Len(emailTemplates) /\ DeleteTemplate(i)
    <3>1. /\ Dropped(emailTemplates, emailTemplates', i)
          /\ deletedTemplateIds' = deletedTemplateIds \cup (IF IsNew(emailTemplates[i]) THEN {} ELSE {emailTemplates[i].id})
      BY <2>5 DEF DeleteTemplate, Without, Dropped
    <3>2. /\ emailTemplates' \in Seq(ShownRow)
          /\ \A n \in 1 .. Len(emailTemplates') : \E m \in 1 .. Len(emailTemplates) : emailTemplates'[n] = emailTemplates[m]
      <4>1. \E u : u = emailTemplates'
        BY Zenon
      <4>2. PICK u : u = emailTemplates'
        BY <4>1
      <4> QED
        BY <2>1, <3>1, <2>5, <4>2, DroppedIs
    <3>3. \A n \in 1 .. Len(emailTemplates') : RowFits(emailTemplates'[n], Len(memories))
      BY <2>1, <3>2, Zenon
    <3>4. IsNew(emailTemplates[i]) \/ emailTemplates[i].id \in 1 .. Len(memories)
      <4> DEFINE x == emailTemplates[i].id
                 m == Len(memories)
      <4>1. x \in -MaxWizardActs .. m /\ x # 0 /\ m \in Nat /\ MaxWizardActs \in Nat
        BY <1>4, <2>1, <2>5, WizardAssumption DEF RowFits, RowsGrown
      <4>2. IsNew(emailTemplates[i]) <=> x < 0
        BY DEF IsNew
      <4> HIDE DEF x, m
      <4>3. x < 0 \/ x \in 1 .. m
        BY <4>1
      <4> QED
        BY <4>2, <4>3 DEF x, m
    <3>5. deletedTemplateIds' \subseteq 1 .. Len(memories)
      BY <2>1, <3>1, <3>4
    <3> QED
      BY <3>2, <3>3, <3>5
  <2> QED
    BY <2>3, <2>4, <2>5
<1>8. jobId' \in 0 .. Len(analyses')
  BY <1>3, <1>4, <1>1, Carried
<1> QED
  BY <1>1, <1>4, <1>5, <1>6, <1>7, <1>8, Carried, TypesMet

(* The save.                                                               *)
AllDoable(rows, q) == \A k \in 1 .. Len(q) : Doable(rows, q[k])

LEMMA TailFits ==
    ASSUME NEW q \in Seq(SaveStep), q # <<>>, NEW rows, AllDoable(rows, q)
    PROVE  Tail(q) \in Seq(SaveStep) /\ AllDoable(rows, Tail(q)) /\ Head(q) \in SaveStep /\ Doable(rows, Head(q))
<1> DEFINE S == SaveStep
           l == Len(q)
<1>1. q \in Seq(S) /\ l \in Nat
  BY LenProperties
<1> HIDE DEF S
<1>2. /\ Head(q) = q[1] /\ Tail(q) \in Seq(S) /\ Len(Tail(q)) = l - 1 /\ l # 0
      /\ \A k \in 1 .. l - 1 : Tail(q)[k] = q[k + 1]
  BY <1>1, HeadTailProperties, EmptySeq
<1> HIDE DEF l
<1>3. 1 \in 1 .. l /\ \A k \in 1 .. l - 1 : k + 1 \in 1 .. l
  BY <1>1, <1>2
<1>4. \A k \in 1 .. l : Doable(rows, q[k])
  BY DEF AllDoable, l
<1>5. AllDoable(rows, Tail(q))
  BY <1>2, <1>3, <1>4 DEF AllDoable
<1>6. q[1] \in S
  BY <1>1, <1>3, ElementOfSeq DEF l
<1> QED
  BY <1>2, <1>3, <1>4, <1>5, <1>6 DEF S

Asking(D, S, q, list) == Deletion(D, S) /\ q = D \o list

LEMMA ConfirmIs ==
    ASSUME WizardTypes, Confirm
    PROVE  /\ saving'.on /\ saving'.confirmed = emailTemplates /\ saving' \in SaveRow
           /\ DoneOf(saving'.requests, emailTemplates) = 0
           /\ PendingIn(saving'.requests, emailTemplates) = deletedTemplateIds
           /\ OldIn(emailTemplates) \cap deletedTemplateIds = {} => Aligned(saving'.requests, emailTemplates)
           /\ AllDoable(Len(memories), saving'.requests)
<1> DEFINE m == Len(memories)
           q == Deletes \o emailTemplates
<1>1. /\ emailTemplates \in Seq(ShownRow) /\ deletedTemplateIds \subseteq 1 .. m /\ m \in Nat
      /\ \A i \in 1 .. Len(emailTemplates) : RowFits(emailTemplates[i], m)
  BY LenProperties DEF WizardTypes, ReviewTypes
<1>2. Deletion(Deletes, deletedTemplateIds)
  BY DEF Deletes, Deletion, Nth
<1>3. saving' = [on |-> TRUE, requests |-> q, confirmed |-> emailTemplates]
  BY DEF Confirm
<1> HIDE DEF m
<1>4. /\ q \in Seq(SaveStep) /\ DoneOf(q, emailTemplates) = 0 /\ PendingIn(q, emailTemplates) = deletedTemplateIds
      /\ OldIn(emailTemplates) \cap deletedTemplateIds = {} => Aligned(q, emailTemplates)
      /\ FromBoth(q, deletedTemplateIds, emailTemplates)
  <2>1. ASSUME NEW D, Deletion(D, deletedTemplateIds)
        PROVE  /\ D \o emailTemplates \in Seq(SaveStep) /\ DoneOf(D \o emailTemplates, emailTemplates) = 0
               /\ PendingIn(D \o emailTemplates, emailTemplates) = deletedTemplateIds
               /\ OldIn(emailTemplates) \cap deletedTemplateIds = {} => Aligned(D \o emailTemplates, emailTemplates)
               /\ FromBoth(D \o emailTemplates, deletedTemplateIds, emailTemplates)
    BY <1>1, <2>1, RequestsAre
  <2> QED
    BY <1>2, <2>1, Zenon
<1> HIDE DEF q
<1>5. saving' \in SaveRow /\ saving'.requests = q /\ saving'.confirmed = emailTemplates /\ saving'.on
  BY <1>1, <1>3, <1>4 DEF SaveRow
<1>6. AllDoable(m, q)
  <2>1. \A i \in 1 .. m : i > 0 /\ i # 0
    BY <1>1
  <2>2. \A t : RowFits(t, m) => Doable(m, t)
    <3>1. MaxWizardActs \in Nat
      BY WizardAssumption
    <3> SUFFICES ASSUME NEW x \in -MaxWizardActs .. m, x # 0, x > 0 PROVE x \in 1 .. m
      BY DEF RowFits, Doable
    <3> QED
      BY <1>1, <3>1
  <2>3. \A r : r.id \in deletedTemplateIds => Doable(m, r)
    BY <1>1, <2>1 DEF Doable
  <2> QED
    BY <1>1, <1>4, <2>2, <2>3, Zenon DEF AllDoable, FromBoth
<1> QED
  BY <1>4, <1>5, <1>6 DEF m

LEMMA RequestIs ==
    ASSUME WizardTypes, Requested
    PROVE  /\ saving \in SaveRow /\ saving.on /\ saving.requests # <<>> /\ saving.requests \in Seq(SaveStep)
           /\ saving.confirmed \in Seq(ShownRow) /\ AllDoable(Len(memories), saving.requests)
           /\ Head(saving.requests) \in SaveStep /\ Doable(Len(memories), Head(saving.requests))
           /\ Tail(saving.requests) \in Seq(SaveStep) /\ AllDoable(Len(memories), Tail(saving.requests))
           /\ memories \in Seq(MemoryRow) /\ campaignId \in Nat /\ Len(memories) \in Nat
           /\ Performed(Head(saving.requests)) \in Seq(MemoryRow)
           /\ Len(Performed(Head(saving.requests))) \in Len(memories) .. Len(memories) + 1
<1>1. saving \in SaveRow /\ saving.on /\ saving.requests # <<>> /\ AllDoable(Len(memories), saving.requests)
  BY DEF WizardTypes, SaveTypes, Requested, AllDoable
<1>2. saving.requests \in Seq(SaveStep) /\ saving.confirmed \in Seq(ShownRow)
  BY <1>1 DEF SaveRow
<1>3. /\ Head(saving.requests) \in SaveStep /\ Doable(Len(memories), Head(saving.requests))
      /\ Tail(saving.requests) \in Seq(SaveStep) /\ AllDoable(Len(memories), Tail(saving.requests))
  <2> DEFINE q == saving.requests
             m == Len(memories)
  <2>1. q \in Seq(SaveStep) /\ q # <<>> /\ AllDoable(m, q)
    BY <1>1, <1>2
  <2> HIDE DEF q, m
  <2> QED
    BY <2>1, TailFits DEF q, m
<1>4. memories \in Seq(MemoryRow) /\ campaignId \in Nat
  BY DEF WizardTypes, ReviewTypes, FormTypes
<1>5. /\ Performed(Head(saving.requests)) \in Seq(MemoryRow) /\ Len(memories) \in Nat
      /\ Len(Performed(Head(saving.requests))) \in Len(memories) .. Len(memories) + 1
  BY <1>3, <1>4, PerformedIs
<1> QED
  BY <1>1, <1>2, <1>3, <1>4, <1>5

LEMMA RowsPerformed ==
    ASSUME WizardTypes, Requested, memories' = Performed(Head(saving.requests))
    PROVE  RowsGrown
<1> DEFINE m == Len(memories)
           n == Len(memories')
<1>1. memories' \in Seq(MemoryRow) /\ m \in Nat /\ n \in m .. m + 1
  BY RequestIs
<1> HIDE DEF m, n
<1>2. n \in Nat /\ m <= n
  BY <1>1
<1> QED
  BY <1>1, <1>2 DEF RowsGrown, m, n

LEMMA SavedTyped ==
    ASSUME WizardTypes, Requested, RowsGrown, saving' = [saving EXCEPT !.requests = Tail(@)]
    PROVE  /\ SaveTypes' /\ saving'.requests = Tail(saving.requests) /\ saving'.confirmed = saving.confirmed
           /\ saving'.on
<1>1. /\ saving \in SaveRow /\ Tail(saving.requests) \in Seq(SaveStep) /\ AllDoable(Len(memories), Tail(saving.requests))
      /\ saving.on
  BY RequestIs
<1>2. /\ saving' \in SaveRow /\ saving'.requests = Tail(saving.requests) /\ saving'.confirmed = saving.confirmed
      /\ saving'.on
  BY <1>1 DEF SaveRow
<1>3. AllDoable(Len(memories'), Tail(saving.requests))
  BY <1>1, FitsOn DEF AllDoable, RowsGrown
<1> QED
  BY <1>2, <1>3 DEF SaveTypes, AllDoable

LEMMA FlagsTyped ==
    ASSUME WizardTypes, NEW x, NEW q
    PROVE  (halfSaved \/ CreatedSome(q)) \in BOOLEAN /\ (halfSaved \/ (x /\ CreatedSome(q))) \in BOOLEAN
BY DEF WizardTypes, HistoryTypes

LEMMA SaveIsStep ==
    ASSUME WizardTypes, Confirm \/ SaveOne \/ SaveRefused \/ SaveBreaks \/ Leave
    PROVE  StepTyped
<1>1. /\ UNCHANGED <<submitting, campaigns, campaignId, jobId, jobStatus, stopped, analyses, hooks>>
      /\ UNCHANGED <<emailTemplates, deletedTemplateIds, late, replaced, wizardActs>>
  BY Zenon DEF Confirm, SaveOne, SaveRefused, SaveBreaks, Leave, reviewed, blemishes, page
<1>2. wizardFaults' \in Nat
  <2>1. UNCHANGED wizardFaults \/ WizardFault
    BY Zenon DEF Confirm, SaveOne, SaveRefused, SaveBreaks, Leave
  <2> QED
    BY <2>1, WizardFaultCounted DEF WizardTypes, HistoryTypes
<1>3. RowsGrown
  <2>1. UNCHANGED memories \/ (Requested /\ memories' = Performed(Head(saving.requests)))
    BY Zenon DEF Confirm, SaveOne, SaveRefused, SaveBreaks, Leave
  <2> QED
    BY <2>1, RowsSame, RowsPerformed
<1>4. JobsGrown
  <2>1. campaigns \in Nat
    BY DEF WizardTypes, FormTypes
  <2>2. campaigns' \in Nat /\ campaigns <= campaigns'
    BY <1>1, <2>1
  <2> QED
    BY <1>1, <2>2, JobsSame
<1>5. FormTypes'
  <2>1. UNCHANGED step \/ step' = "left"
    BY Zenon DEF Confirm, SaveOne, SaveRefused, SaveBreaks, Leave, page
  <2> QED
    BY <1>1, <2>1 DEF WizardTypes, FormTypes
<1>6. SlotTypes'
  <2>1. UNCHANGED slots \/ slots' = [k \in Slots |-> FreeSlot]
    BY Zenon DEF Confirm, SaveOne, SaveRefused, SaveBreaks, Leave
  <2> QED
    BY <1>3, <1>4, <2>1, Carried
<1>7. HistoryTypes'
  <2>1. ignored' \in BOOLEAN
    <3>1. UNCHANGED ignored \/ ignored' = TRUE
      BY Zenon DEF Confirm, SaveOne, SaveRefused, SaveBreaks, Leave, blemishes
    <3> QED
      BY <3>1 DEF WizardTypes, HistoryTypes
  <2>2. halfSaved' \in BOOLEAN
    <3>1. UNCHANGED halfSaved \/ \E q : halfSaved' = (halfSaved \/ CreatedSome(q))
      BY Zenon DEF Confirm, SaveOne, SaveRefused, SaveBreaks, Leave, blemishes
    <3> QED
      BY <3>1 DEF WizardTypes, HistoryTypes
  <2> QED
    BY <1>1, <1>2, <2>1, <2>2 DEF WizardTypes, HistoryTypes
<1>8. SaveTypes'
  <2>1. CASE Confirm
    <3>1. UNCHANGED memories /\ saving' \in SaveRow /\ AllDoable(Len(memories), saving'.requests)
      BY <2>1, ConfirmIs DEF Confirm
    <3> QED
      BY <3>1 DEF SaveTypes, AllDoable
  <2>2. CASE SaveOne
    BY <1>3, <2>2, SavedTyped DEF SaveOne
  <2>3. CASE SaveRefused
    BY <1>3, <2>3, SavedTyped DEF SaveRefused
  <2>4. CASE SaveBreaks
    <3>1. saving' = NotSaving
      BY <2>4 DEF SaveBreaks
    <3> QED
      BY <1>3, <1>4, <3>1, Carried
  <2>5. CASE Leave
    <3>1. UNCHANGED saving
      BY <2>5 DEF Leave
    <3> QED
      BY <1>3, <1>4, <3>1, Carried
  <2> QED
    BY <2>1, <2>2, <2>3, <2>4, <2>5
<1>9. jobId' \in 0 .. Len(analyses')
  BY <1>1, <1>3, <1>4, Carried
<1> QED
  BY <1>1, <1>3, <1>4, <1>5, <1>6, <1>7, <1>8, <1>9, Carried, TypesMet

LEMMA WizardReloads ==
    ASSUME WizardTypes, Reload
    PROVE  StepTyped
<1>1. /\ UNCHANGED <<step, campaignId, jobId, jobStatus, hooks, emailTemplates, deletedTemplateIds>>
      /\ UNCHANGED <<late, replaced, ignored, wizardActs>>
      /\ slots' = [k \in Slots |-> FreeSlot] /\ submitting' = "no" /\ stopped' = FALSE /\ saving' = NotSaving
  BY Zenon DEF Reload, reviewed
<1>2. wizardFaults' \in Nat
  BY WizardFaultCounted DEF Reload
<1>3. RowsGrown
  <2>1. UNCHANGED memories \/ (Requested /\ memories' = Performed(Head(saving.requests)))
    BY Zenon DEF Reload
  <2> QED
    BY <2>1, RowsSame, RowsPerformed
<1>4. FormTypes /\ campaigns \in Nat /\ campaignId \in 0 .. campaigns /\ submitting \in {"no", "creating", "starting", "restarting"}
  BY DEF WizardTypes, FormTypes
<1>5. JobsGrown /\ campaigns' \in Nat /\ campaigns <= campaigns'
  <2>1. CASE submitting \in {"starting", "restarting"}
    <3>1. UNCHANGED campaigns
      BY <2>1 DEF Reload
    <3>2. UNCHANGED analyses \/ analyses' = Append(analyses, Job("pending"))
      BY <2>1 DEF Reload
    <3>3. ASSUME UNCHANGED analyses PROVE JobsGrown
      <4>1. campaigns' \in Nat /\ campaigns <= campaigns'
        BY <1>4, <3>1
      <4> QED
        BY <3>3, <4>1, JobsSame
    <3>4. ASSUME analyses' = Append(analyses, Job("pending")) PROVE JobsGrown
      BY <1>4, <2>1, <3>1, <3>4, FreshJob, JobAdded
    <3> QED
      BY <1>4, <3>1, <3>2, <3>3, <3>4
  <2>2. CASE submitting \in {"no", "creating"}
    <3>1. UNCHANGED analyses
      BY <2>2 DEF Reload
    <3>2. campaigns' = campaigns \/ campaigns' = campaigns + 1
      BY DEF Reload
    <3>3. campaigns' \in Nat /\ campaigns <= campaigns'
      BY <1>4, <3>2
    <3> QED
      BY <3>1, <3>3, JobsSame
  <2> QED
    BY <1>4, <2>1, <2>2
<1>6. FormTypes'
  <2>1. campaignId \in 0 .. campaigns'
    BY <1>4, <1>5
  <2> QED
    BY <1>1, <1>4, <1>5, <2>1 DEF FormTypes
<1>7. HistoryTypes'
  <2>1. halfSaved' \in BOOLEAN
    <3>1. \E y : halfSaved' = (halfSaved \/ y)
      BY Zenon DEF Reload
    <3> QED
      BY <3>1 DEF WizardTypes, HistoryTypes
  <2> QED
    BY <1>1, <1>2, <2>1 DEF WizardTypes, HistoryTypes
<1>8. jobId' \in 0 .. Len(analyses')
  BY <1>1, <1>3, <1>5, Carried
<1> QED
  BY <1>1, <1>3, <1>5, <1>6, <1>7, <1>8, Carried, TypesMet

LEMMA StoreBreaksStep ==
    ASSUME WizardTypes, NEW h \in Hooks, StoreBreaks(h)
    PROVE  StepTyped
<1> DEFINE j == hooks[h].job
<1>1. /\ UNCHANGED <<page, slots, memories, emailTemplates, deletedTemplateIds, saving>>
      /\ UNCHANGED <<late, replaced, halfSaved, ignored, wizardActs>>
      /\ hooks' = [hooks EXCEPT ![h] = IdleHook] /\ WizardFault
      /\ Phase(j, "again") \/ UNCHANGED analyses
      /\ hooks[h] # IdleHook
  BY Zenon DEF StoreBreaks, reviewed, blemishes
<1>2. UNCHANGED <<step, submitting, campaigns, campaignId, jobId, jobStatus, stopped>>
  BY <1>1 DEF page
<1>3. j \in 1 .. Len(analyses)
  BY <1>1 DEF WizardTypes, HookTypes, HookFits
<1>4. RowsGrown /\ JobsGrown
  <2>1. "again" \in PhaseNames
    BY DEF PhaseNames
  <2> QED
    BY <1>1, <1>2, <1>3, <2>1, RowsSame, JobMoves, Zenon
<1>5. HookTypes'
  <2>1. IdleHook \in HookRow
    <3>1. Len(Generated) \in Nat \ {0}
      BY WizardAssumption
    <3> DEFINE g == Len(Generated)
    <3> HIDE DEF g
    <3>2. 1 \in 1 .. g
      BY <3>1 DEF g
    <3> QED
      BY <3>2 DEF IdleHook, HookRow, g
  <2>2. HookFits(IdleHook, Len(analyses'))
    BY <2>1 DEF HookFits
  <2> QED
    BY <1>1, <1>4, <2>2, HookPut
<1>6. FormTypes'
  BY <1>2 DEF WizardTypes, FormTypes
<1>7. HistoryTypes'
  <2>1. wizardFaults' \in Nat
    BY <1>1, WizardFaultCounted
  <2> QED
    BY <1>1, <2>1 DEF WizardTypes, HistoryTypes
<1>8. jobId' \in 0 .. Len(analyses')
  BY <1>2, <1>4, Carried
<1> QED
  BY <1>1, <1>4, <1>5, <1>6, <1>7, <1>8, Carried, TypesMet

(* Steps that leave alone what a stage is about.                           *)
LEMMA SameRowsStay ==
    ASSUME NEW mem, NEW c
    PROVE  SameRows(mem, mem, c)
BY DEF SameRows

LEMMA SameRowsApart ==
    ASSUME NEW mem \in Seq(MemoryRow), NEW e \in MemoryRow, NEW c, ~Mine(e, c)
    PROVE  SameRows(mem, Append(mem, e), c)
<1>1. \A i \in 1 .. Len(mem) : Append(mem, e)[i] = mem[i]
  BY StoredElsewhere
<1>2. KeptIn(Append(mem, e), c) = KeptIn(mem, c)
  BY StoredElsewhere
<1>3. KeptIn(mem, c) \subseteq 1 .. Len(mem)
  BY KeptFinite
<1> QED
  BY <1>1, <1>2, <1>3 DEF SameRows

LEMMA Blemish ==
    ASSUME WizardNext
    PROVE  ~Blemished' => ~Blemished
<1> DEFINE P == (late => late') /\ (replaced => replaced') /\ (halfSaved => halfSaved') /\ (ignored => ignored')
           U == UNCHANGED <<late, replaced, halfSaved, ignored>>
<1>0. ASSUME U PROVE P
  BY <1>0
<1>1. ASSUME Submit \/ CreateCampaign \/ CreateFails \/ StartAnalysis \/ AnalyzeFails \/ Retry \/ GoBack PROVE U
  BY <1>1, Zenon DEF Submit, CreateCampaign, CreateFails, StartAnalysis, AnalyzeFails, Retry, GoBack, blemishes
<1>2. ASSUME NEW j, AnalysisFails(j) \/ NoAnswer(j) \/ CloseAnalysis(j) \/ \E h \in Hooks : PostAnalyzed(j, h) PROVE U
  BY <1>2, Zenon DEF AnalysisFails, NoAnswer, CloseAnalysis, PostAnalyzed, blemishes
<1>3. ASSUME NEW h, StoreTemplate(h) \/ StoreBreaks(h) PROVE P
  <2>1. ASSUME StoreTemplate(h) PROVE P
    <3>1. UNCHANGED <<replaced, halfSaved, ignored>> /\ \E x : late' = (late \/ x)
      BY <2>1, Zenon DEF StoreTemplate
    <3> QED
      BY <3>1
  <2>2. ASSUME StoreBreaks(h) PROVE U
    BY <2>2, Zenon DEF StoreBreaks, blemishes
  <2> QED
    BY <1>0, <1>3, <2>1, <2>2
<1>4. ASSUME NEW k, AskStatus(k) \/ StatusAnswered(k) \/ ReadResults(k) \/ ShowResults(k) \/ RequestFails(k) PROVE P
  <2>1. ASSUME ShowResults(k) PROVE P
    <3>1. UNCHANGED <<late, halfSaved, ignored>> /\ \E x : replaced' = (replaced \/ x)
      <4>1. UNCHANGED <<late, halfSaved, ignored>>
        BY <2>1, Zenon DEF ShowResults
      <4>2. replaced' = (replaced \/ (step # "crawl" \/ submitting # "no" \/ CampaignOf(slots[k].job) # campaignId))
        BY <2>1 DEF ShowResults
      <4> QED
        BY <4>1, <4>2, Zenon
    <3> QED
      BY <3>1
  <2>2. ASSUME AskStatus(k) \/ StatusAnswered(k) \/ ReadResults(k) \/ RequestFails(k) PROVE U
    BY <2>2, Zenon DEF AskStatus, StatusAnswered, ReadResults, RequestFails, blemishes
  <2> QED
    BY <1>0, <1>4, <2>1, <2>2
<1>5. ASSUME NEW i, AddTemplate \/ EditTemplate(i, Typed) \/ DeleteTemplate(i) PROVE U
  BY <1>5, Zenon DEF AddTemplate, EditTemplate, DeleteTemplate, blemishes
<1>6. ASSUME Confirm \/ SaveOne \/ SaveRefused \/ SaveBreaks \/ Leave \/ Reload PROVE P
  <2>1. ASSUME Confirm \/ SaveOne \/ Leave PROVE U
    BY <2>1, Zenon DEF Confirm, SaveOne, Leave, blemishes
  <2>2. ASSUME SaveRefused PROVE P
    <3>1. UNCHANGED <<late, replaced, halfSaved>> /\ ignored' = TRUE
      BY <2>2, Zenon DEF SaveRefused
    <3> QED
      BY <3>1
  <2>3. ASSUME SaveBreaks \/ Reload PROVE P
    <3>1. UNCHANGED <<late, replaced, ignored>> /\ \E x : halfSaved' = (halfSaved \/ x)
      BY <2>3, Zenon DEF SaveBreaks, Reload
    <3> QED
      BY <3>1
  <2> QED
    BY <1>0, <1>6, <2>1, <2>2, <2>3
<1> HIDE DEF P, U
<1>7. P
  BY <1>0, <1>1, <1>2, <1>3, <1>4, <1>5, <1>6, Zenon DEF WizardNext
<1> QED
  BY <1>7, Zenon DEF Blemished, P

LEMMA BeforeStays ==
    ASSUME WizardTypes, JobsGrown, BeforeReview, UNCHANGED <<emailTemplates, deletedTemplateIds>>, ~saving'.on,
           \A k \in Slots : slots'[k].stage = "show" =>
             slots'[k] = slots[k] /\ SameRows(memories, memories', CampaignOf(slots[k].job))
    PROVE  BeforeReview'
<1>1. ASSUME NEW k \in Slots, slots'[k].stage = "show"
      PROVE  ReadAll(memories', slots'[k].read, analyses'[slots'[k].job].campaign)
  <2>1. slots'[k] = slots[k] /\ SameRows(memories, memories', CampaignOf(slots[k].job)) /\ slots[k].stage = "show"
    BY <1>1
  <2>2. slots[k].job \in 1 .. Len(analyses)
    BY <2>1 DEF WizardTypes, SlotTypes, SlotFits
  <2>3. analyses'[slots[k].job].campaign = CampaignOf(slots[k].job)
    BY <2>2 DEF JobsGrown, CampaignOf
  <2>4. ReadAll(memories, slots[k].read, CampaignOf(slots[k].job))
    BY <2>1 DEF BeforeReview
  <2>5. ReadAll(memories', slots[k].read, CampaignOf(slots[k].job))
    BY <2>1, <2>4, SavedElsewhere
  <2> QED
    BY <2>1, <2>3, <2>5
<1> QED
  BY <1>1 DEF BeforeReview, CampaignOf

LEMMA ReviewingStays ==
    ASSUME Reviewing, UNCHANGED <<submitting, campaignId, emailTemplates, deletedTemplateIds, saving>>,
           SameRows(memories, memories', campaignId)
    PROVE  Reviewing'
<1>1. /\ ListedIn(memories, emailTemplates, deletedTemplateIds, campaignId)
           => ListedIn(memories', emailTemplates, deletedTemplateIds, campaignId)
      /\ SavedSoFar(memories, saving.requests, saving.confirmed, campaignId)
           => SavedSoFar(memories', saving.requests, saving.confirmed, campaignId)
  BY SavedElsewhere
<1> QED
  BY <1>1 DEF Reviewing

(* A step of the others, seen from the page.                               *)
LEMMA NotThePage ==
    ASSUME WizardInv, StepTyped, (~Blemished' => ~Blemished),
           UNCHANGED <<step, submitting, campaignId, emailTemplates, deletedTemplateIds, saving>>,
           ~Blemished' =>
                  /\ (step \in {"review", "left"} => SameRows(memories, memories', campaignId))
                  /\ \A k \in Slots : slots'[k].stage = "show" =>
                       slots'[k] = slots[k] /\ SameRows(memories, memories', CampaignOf(slots[k].job))
    PROVE  WizardInv'
<1>1. WizardTypes' /\ WizardTypes /\ JobsGrown
  BY DEF StepTyped, WizardInv
<1>2. ASSUME ~Blemished' PROVE Staged'
  <2>1. Staged
    BY <1>2 DEF WizardInv
  <2>2. step \in {"form", "crawl"} => BeforeReview'
    <3>1. ASSUME step \in {"form", "crawl"} PROVE BeforeReview'
      <4>1. BeforeReview
        BY <2>1, <3>1 DEF Staged
      <4>2. ~saving'.on
        BY <4>1 DEF BeforeReview
      <4> QED
        BY <1>1, <1>2, <4>1, <4>2, BeforeStays
    <3> QED
      BY <3>1
  <2>3. step \in {"review", "left"} => Reviewing'
    BY <1>2, <2>1, ReviewingStays DEF Staged
  <2> QED
    BY <2>1, <2>2, <2>3 DEF Staged
<1> QED
  BY <1>1, <1>2 DEF WizardInv

(* The stages through the form's and the others' steps.                    *)
LEMMA FormKeeps ==
    ASSUME WizardInv, ~Blemished' => ~Blemished,
           \/ Submit \/ CreateCampaign \/ CreateFails \/ Retry \/ GoBack
           \/ StartAnalysis \/ AnalyzeFails
    PROVE  WizardInv'
<1>1. WizardTypes
  BY DEF WizardInv
<1>2. StepTyped
  BY <1>1, FormStep, AnalyzeStep
<1>3. UNCHANGED <<slots, memories, emailTemplates, deletedTemplateIds, saving>>
  BY Zenon DEF Submit, CreateCampaign, CreateFails, Retry, GoBack, StartAnalysis, AnalyzeFails, reviewed
<1>4. ASSUME ~Blemished' PROVE Staged'
  <2>1. Staged
    BY <1>4 DEF WizardInv
  <2>2. step \in {"form", "crawl"}
    <3>1. step \in {"review", "left"} => submitting = "no"
      BY <2>1 DEF Staged, Reviewing
    <3>2. step \in {"form", "crawl", "review", "left"}
      BY <1>1 DEF WizardTypes, FormTypes
    <3>3. step \in {"form", "crawl"} \/ submitting # "no"
      BY DEF Submit, CreateCampaign, CreateFails, Retry, GoBack, StartAnalysis, AnalyzeFails
    <3> QED
      BY <3>1, <3>2, <3>3
  <2>3. step' \in {"form", "crawl"}
    BY <2>2 DEF Submit, CreateCampaign, CreateFails, Retry, GoBack, StartAnalysis, AnalyzeFails
  <2>4. BeforeReview /\ ~saving'.on
    BY <1>3, <2>1, <2>2 DEF Staged, BeforeReview
  <2>5. \A k \in Slots : slots'[k].stage = "show" =>
             slots'[k] = slots[k] /\ SameRows(memories, memories', CampaignOf(slots[k].job))
    BY <1>3, SameRowsStay
  <2>6. BeforeReview'
    BY <1>1, <1>2, <1>3, <2>4, <2>5, BeforeStays DEF StepTyped
  <2> QED
    BY <2>3, <2>6 DEF Staged
<1> QED
  BY <1>2, <1>4 DEF WizardInv, StepTyped

LEMMA WorkerKeeps ==
    ASSUME WizardInv, ~Blemished' => ~Blemished, NEW j \in 1 .. Len(analyses),
           AnalysisFails(j) \/ NoAnswer(j) \/ CloseAnalysis(j) \/ \E h \in Hooks : PostAnalyzed(j, h)
    PROVE  WizardInv'
<1>1. StepTyped
  BY WorkerStep DEF WizardInv
<1>2. UNCHANGED <<page, slots, memories, emailTemplates, deletedTemplateIds, saving>>
  BY Zenon DEF AnalysisFails, NoAnswer, CloseAnalysis, PostAnalyzed, reviewed
<1>3. UNCHANGED <<step, submitting, campaignId>>
  BY <1>2 DEF page
<1>4. /\ SameRows(memories, memories', campaignId)
      /\ \A k \in Slots : slots'[k] = slots[k] /\ SameRows(memories, memories', CampaignOf(slots[k].job))
  BY <1>2, SameRowsStay
<1> QED
  BY <1>1, <1>2, <1>3, <1>4, NotThePage

LEMMA BreakKeepsIt ==
    ASSUME WizardInv, ~Blemished' => ~Blemished, NEW h \in Hooks, StoreBreaks(h)
    PROVE  WizardInv'
<1>1. StepTyped
  BY StoreBreaksStep DEF WizardInv
<1>2. UNCHANGED <<page, slots, memories, emailTemplates, deletedTemplateIds, saving>>
  BY Zenon DEF StoreBreaks, reviewed
<1>3. UNCHANGED <<step, submitting, campaignId>>
  BY <1>2 DEF page
<1>4. /\ SameRows(memories, memories', campaignId)
      /\ \A k \in Slots : slots'[k] = slots[k] /\ SameRows(memories, memories', CampaignOf(slots[k].job))
  BY <1>2, SameRowsStay
<1> QED
  BY <1>1, <1>2, <1>3, <1>4, NotThePage

(* A template that is stored when no results are out is of no campaign     *)
(* that the page shows.                                                    *)
LEMMA StoreKeeps ==
    ASSUME WizardInv, ~Blemished' => ~Blemished, NEW h \in Hooks, StoreTemplate(h)
    PROVE  WizardInv'
<1> DEFINE c == CampaignOf(hooks[h].job)
<1>1. StepTyped /\ (\E e \in MemoryRow : memories' = Append(memories, e) /\ Mine(e, c)) /\ late' = (late \/ ResultsOut(c))
  BY StoreTemplateStep DEF WizardInv
<1>2. UNCHANGED <<page, slots, emailTemplates, deletedTemplateIds, saving>>
  BY Zenon DEF StoreTemplate, reviewed
<1>3. UNCHANGED <<step, submitting, campaignId>>
  BY <1>2 DEF page
<1>4. memories \in Seq(MemoryRow)
  BY DEF WizardInv, WizardTypes, ReviewTypes
<1> HIDE DEF c
<1>5. ASSUME NEW d, d # c PROVE SameRows(memories, memories', d)
  <2>1. PICK e \in MemoryRow : memories' = Append(memories, e) /\ Mine(e, c)
    BY <1>1
  <2>2. ~Mine(e, d)
    BY <1>5, <2>1 DEF Mine
  <2> QED
    BY <1>4, <2>1, <2>2, SameRowsApart
<1>6. ASSUME ~Blemished'
      PROVE  /\ step \in {"review", "left"} => SameRows(memories, memories', campaignId)
             /\ \A k \in Slots : slots'[k].stage = "show" =>
                  slots'[k] = slots[k] /\ SameRows(memories, memories', CampaignOf(slots[k].job))
  <2>1. ~ResultsOut(c)
    BY <1>1, <1>6 DEF Blemished
  <2>2. step \in {"review", "left"} => campaignId # c
    BY <2>1 DEF ResultsOut
  <2>3. \A k \in Slots : slots[k].stage = "show" => CampaignOf(slots[k].job) # c
    BY <2>1 DEF ResultsOut
  <2> QED
    BY <1>2, <1>5, <2>2, <2>3
<1> QED
  BY <1>1, <1>2, <1>3, <1>6, NotThePage

LEMMA SlotKeeps ==
    ASSUME WizardInv, ~Blemished' => ~Blemished, NEW k \in Slots,
           AskStatus(k) \/ StatusAnswered(k) \/ ReadResults(k) \/ RequestFails(k)
    PROVE  WizardInv'
<1>1. StepTyped /\ WizardTypes
  BY SlotStep DEF WizardInv
<1>2. /\ UNCHANGED <<memories, analyses, emailTemplates, deletedTemplateIds, saving>>
      /\ UNCHANGED <<step, submitting, campaignId>>
  BY Zenon DEF AskStatus, StatusAnswered, ReadResults, RequestFails, reviewed, page
<1>3. SameRows(memories, memories', campaignId) /\ \A i \in Slots : SameRows(memories, memories', CampaignOf(slots[i].job))
  BY <1>2, SameRowsStay
<1>4. slots \in [Slots -> SlotRow]
  BY <1>1 DEF WizardTypes, SlotTypes
<1>5. ASSUME AskStatus(k) \/ StatusAnswered(k) \/ RequestFails(k) PROVE WizardInv'
  <2>1. \E s : slots' = [slots EXCEPT ![k] = s] /\ s.stage # "show"
    <3>1. CASE AskStatus(k)
      <4> DEFINE s == [stage |-> "status", job |-> jobId, status |-> analyses[jobId].status, read |-> <<>>]
      <4>1. slots' = [slots EXCEPT ![k] = s] /\ s.stage # "show"
        BY <3>1 DEF AskStatus
      <4> QED
        BY <4>1
    <3>2. CASE RequestFails(k)
      <4>1. slots' = [slots EXCEPT ![k] = FreeSlot] /\ FreeSlot.stage # "show"
        BY <3>2 DEF RequestFails, FreeSlot
      <4> QED
        BY <4>1
    <3>3. CASE StatusAnswered(k)
      <4> DEFINE s == IF slots[k].status = "completed" THEN [slots[k] EXCEPT !.stage = "fetch"] ELSE FreeSlot
      <4>1. slots' = [slots EXCEPT ![k] = s]
        BY <3>3 DEF StatusAnswered
      <4>2. slots[k] \in SlotRow
        BY <1>4
      <4>3. [slots[k] EXCEPT !.stage = "fetch"].stage = "fetch"
        BY <4>2 DEF SlotRow
      <4>4. FreeSlot.stage = "free"
        BY DEF FreeSlot
      <4>5. s.stage = "fetch" \/ s.stage = "free"
        BY <4>3, <4>4, Zenon
      <4> HIDE DEF s
      <4>6. s.stage # "show"
        BY <4>5
      <4> QED
        BY <4>1, <4>6
    <3> QED
      BY <1>5, <3>1, <3>2, <3>3
  <2>2. \A i \in Slots : slots'[i].stage = "show" => slots'[i] = slots[i]
    <3>1. PICK s : slots' = [slots EXCEPT ![k] = s] /\ s.stage # "show"
      BY <2>1
    <3>2. slots'[k].stage # "show" /\ \A i \in Slots : i # k => slots'[i] = slots[i]
      BY <1>4, <3>1
    <3> QED
      BY <3>2
  <2> QED
    BY <1>1, <1>2, <1>3, <2>2, NotThePage
<1>6. ASSUME ReadResults(k) PROVE WizardInv'
  <2>1. /\ slots' = [slots EXCEPT ![k] = slots'[k]] /\ slots'[k].job = slots[k].job
        /\ ReadAll(memories, slots'[k].read, CampaignOf(slots[k].job))
    BY <1>1, <1>6, ReadIsTyped
  <2>2. \A i \in Slots : i # k => slots'[i] = slots[i]
    BY <1>4, <2>1
  <2>3. ASSUME ~Blemished' PROVE Staged'
    <3>1. Staged
      BY <2>3 DEF WizardInv
    <3>2. ASSUME step \in {"form", "crawl"} PROVE BeforeReview'
      <4>1. BeforeReview
        BY <3>1, <3>2 DEF Staged
      <4>2. ASSUME NEW i \in Slots, slots'[i].stage = "show"
            PROVE  ReadAll(memories', slots'[i].read, analyses'[slots'[i].job].campaign)
        <5>1. CASE i = k
          BY <1>2, <2>1, <5>1 DEF CampaignOf
        <5>2. CASE i # k
          BY <1>2, <2>2, <4>1, <4>2, <5>2 DEF BeforeReview, CampaignOf
        <5> QED
          BY <5>1, <5>2
      <4> QED
        BY <1>2, <4>1, <4>2 DEF BeforeReview, CampaignOf
    <3>3. step \in {"review", "left"} => Reviewing'
      BY <1>2, <1>3, <3>1, ReviewingStays DEF Staged
    <3> QED
      BY <1>2, <3>1, <3>2, <3>3 DEF Staged
  <2> QED
    BY <1>1, <2>3 DEF WizardInv, StepTyped
<1> QED
  BY <1>5, <1>6

(* The first results are shown of the campaign that the page has.          *)
LEMMA ShowKeeps ==
    ASSUME WizardInv, ~Blemished' => ~Blemished, NEW k \in Slots, ShowResults(k)
    PROVE  WizardInv'
<1>1. StepTyped /\ WizardTypes
  BY ShowStep DEF WizardInv
<1>2. /\ UNCHANGED <<submitting, campaignId, memories, deletedTemplateIds, saving>>
      /\ emailTemplates' = slots[k].read /\ step' = "review" /\ slots[k].stage = "show"
  BY Zenon DEF ShowResults
<1>3. ASSUME ~Blemished' PROVE Reviewing'
  <2>1. ~replaced'
    BY <1>3 DEF Blemished
  <2>2. step = "crawl" /\ submitting = "no" /\ CampaignOf(slots[k].job) = campaignId
    BY <2>1 DEF ShowResults
  <2>3. BeforeReview
    BY <1>3, <2>2 DEF WizardInv, Staged
  <2>4. ReadAll(memories, slots[k].read, campaignId)
    BY <1>2, <2>2, <2>3 DEF BeforeReview
  <2>5. campaignId # 0
    BY <1>1, <2>2 DEF WizardTypes, FormTypes
  <2>6. Distinct(slots[k].read) /\ ListedIn(memories, slots[k].read, {}, campaignId)
    BY <2>4 DEF ReadAll, ListedIn
  <2>7. deletedTemplateIds = {} /\ ~saving.on
    BY <2>3 DEF BeforeReview
  <2>8. OldIn(emailTemplates') \cap deletedTemplateIds' = {}
    BY <1>2, <2>7
  <2> QED
    BY <1>2, <2>2, <2>5, <2>6, <2>7, <2>8 DEF Reviewing
<1> QED
  BY <1>1, <1>2, <1>3 DEF WizardInv, Staged, StepTyped

(* The stages through the review and the save.                             *)
LEMMA ListMoves ==
    ASSUME Reviewing, UNCHANGED <<submitting, campaignId, memories, saving>>, Distinct(emailTemplates'),
           OldIn(emailTemplates') \subseteq OldIn(emailTemplates),
           OldIn(emailTemplates) \cup deletedTemplateIds \subseteq OldIn(emailTemplates') \cup deletedTemplateIds',
           OldIn(emailTemplates') \cap deletedTemplateIds' = {}
    PROVE  Reviewing'
<1>1. ASSUME ListedIn(memories, emailTemplates, deletedTemplateIds, campaignId)
      PROVE  ListedIn(memories, emailTemplates', deletedTemplateIds', campaignId)
  BY <1>1 DEF ListedIn
<1> QED
  BY <1>1 DEF Reviewing

LEMMA EditKeeps ==
    ASSUME WizardInv, ~Blemished' => ~Blemished, NEW i,
           AddTemplate \/ (i \in 1 .. Len(emailTemplates) /\ (EditTemplate(i, Typed) \/ DeleteTemplate(i)))
    PROVE  WizardInv'
<1>1. StepTyped /\ WizardTypes
  BY EditIsStep DEF WizardInv
<1>2. /\ UNCHANGED <<page, memories, saving>> /\ step = "review" /\ WizardAct
  BY Zenon DEF AddTemplate, EditTemplate, DeleteTemplate
<1>3. UNCHANGED <<step, submitting, campaignId>>
  BY <1>2 DEF page
<1>4. emailTemplates \in Seq(ShownRow)
  BY <1>1 DEF WizardTypes, ReviewTypes
<1>5. ASSUME ~Blemished' PROVE Reviewing'
  <2>1. Reviewing
    BY <1>2, <1>5 DEF WizardInv, Staged
  <2>2. Distinct(emailTemplates) /\ OldIn(emailTemplates) \cap deletedTemplateIds = {}
    BY <2>1 DEF Reviewing
  <2>3. CASE i \in 1 .. Len(emailTemplates) /\ EditTemplate(i, Typed)
    <3>1. Retyped(emailTemplates, emailTemplates', i) /\ UNCHANGED deletedTemplateIds
      BY <2>3 DEF EditTemplate, Retyped
    <3>2. AlikeIds(emailTemplates, emailTemplates')
      <4>1. \E u : u = emailTemplates'
        BY Zenon
      <4>2. PICK u : u = emailTemplates'
        BY <4>1
      <4> QED
        BY <1>4, <3>1, <2>3, <4>2, EditIs
    <3>3. OldIn(emailTemplates') = OldIn(emailTemplates) /\ Distinct(emailTemplates')
      <4>1. \E u : u = emailTemplates'
        BY Zenon
      <4>2. PICK u : u = emailTemplates'
        BY <4>1
      <4> QED
        BY <2>2, <3>2, <4>2, EditedAlike
    <3> QED
      BY <1>2, <1>3, <2>1, <2>2, <3>1, <3>3, ListMoves
  <2>4. CASE AddTemplate
    <3>1. emailTemplates' = Append(emailTemplates, FreshRow) /\ UNCHANGED deletedTemplateIds
      BY <2>4 DEF AddTemplate, FreshRow
    <3>2. FreshRow \in ShownRow /\ IsNew(FreshRow)
      BY <1>1, <1>2, FreshIs
    <3>3. OldIn(emailTemplates') = OldIn(emailTemplates) /\ Distinct(emailTemplates')
      BY <1>4, <2>2, <3>1, <3>2, RowAdded
    <3> QED
      BY <1>2, <1>3, <2>1, <2>2, <3>1, <3>3, ListMoves
  <2>5. CASE i \in 1 .. Len(emailTemplates) /\ DeleteTemplate(i)
    <3> DEFINE x == emailTemplates[i].id
    <3>1. /\ Dropped(emailTemplates, emailTemplates', i)
          /\ deletedTemplateIds' = deletedTemplateIds \cup (IF IsNew(emailTemplates[i]) THEN {} ELSE {x})
      BY <2>5 DEF DeleteTemplate, Without, Dropped
    <3>2. /\ Distinct(emailTemplates) => Distinct(emailTemplates')
          /\ OldIn(emailTemplates') \subseteq OldIn(emailTemplates)
          /\ IsNew(emailTemplates[i]) => OldIn(emailTemplates') = OldIn(emailTemplates)
          /\ ~IsNew(emailTemplates[i]) => OldIn(emailTemplates) \subseteq OldIn(emailTemplates') \cup {x}
          /\ ~IsNew(emailTemplates[i]) /\ Distinct(emailTemplates) => x \notin OldIn(emailTemplates')
      <4>1. \E u : u = emailTemplates'
        BY Zenon
      <4>2. PICK u : u = emailTemplates'
        BY <4>1
      <4> QED
        BY <1>4, <3>1, <2>5, <4>2, DroppedIs
    <3> HIDE DEF x
    <3>3. OldIn(emailTemplates) \cup deletedTemplateIds \subseteq OldIn(emailTemplates') \cup deletedTemplateIds'
      BY <3>1, <3>2
    <3>4. OldIn(emailTemplates') \cap deletedTemplateIds' = {}
      BY <2>2, <3>1, <3>2
    <3> QED
      BY <1>2, <1>3, <2>1, <2>2, <3>2, <3>3, <3>4, ListMoves
  <2> QED
    BY <2>3, <2>4, <2>5
<1> QED
  BY <1>1, <1>2, <1>3, <1>5 DEF WizardInv, Staged, StepTyped

LEMMA ConfirmKeeps ==
    ASSUME WizardInv, ~Blemished' => ~Blemished, Confirm
    PROVE  WizardInv'
<1>1. StepTyped /\ WizardTypes
  BY SaveIsStep DEF WizardInv
<1>2. /\ UNCHANGED <<page, memories, emailTemplates, deletedTemplateIds>> /\ step = "review" /\ ~saving.on
  BY Zenon DEF Confirm, reviewed
<1>3. UNCHANGED <<step, submitting, campaignId>>
  BY <1>2 DEF page
<1>4. ASSUME ~Blemished' PROVE Reviewing'
  <2>1. Reviewing
    BY <1>2, <1>4 DEF WizardInv, Staged
  <2>2. /\ Distinct(emailTemplates) /\ OldIn(emailTemplates) \cap deletedTemplateIds = {}
        /\ ListedIn(memories, emailTemplates, deletedTemplateIds, campaignId)
    BY <1>2, <2>1 DEF Reviewing
  <2>3. /\ saving'.on /\ saving'.confirmed = emailTemplates
        /\ DoneOf(saving'.requests, emailTemplates) = 0
        /\ PendingIn(saving'.requests, emailTemplates) = deletedTemplateIds
        /\ Aligned(saving'.requests, emailTemplates)
    BY <1>1, <2>2, ConfirmIs
  <2>4. SavedSoFar(memories, saving'.requests, emailTemplates, campaignId)
    BY <2>2, <2>3, SaveStarts
  <2> QED
    BY <1>2, <1>3, <2>1, <2>2, <2>3, <2>4 DEF Reviewing
<1> QED
  BY <1>1, <1>2, <1>3, <1>4 DEF WizardInv, Staged, StepTyped

(* A save is in progress only while its list is reviewed.                  *)
LEMMA SavingIs ==
    ASSUME WizardInv, ~Blemished, saving.on
    PROVE  step \in {"review", "left"} /\ Reviewing /\ (step = "left" => saving.requests = <<>>)
<1>1. Staged /\ step \in {"form", "crawl", "review", "left"}
  BY DEF WizardInv, WizardTypes, FormTypes
<1> QED
  BY <1>1 DEF Staged, BeforeReview

LEMMA NextRequest ==
    ASSUME WizardInv, ~Blemished, Requested
    PROVE  /\ step = "review" /\ Reviewing
           /\ SavedSoFar(Performed(Head(saving.requests)), Tail(saving.requests), saving.confirmed, campaignId)
           /\ PendingIn(Tail(saving.requests), saving.confirmed) \subseteq PendingIn(saving.requests, saving.confirmed)
<1> DEFINE q == saving.requests
           list == saving.confirmed
<1>1. step = "review" /\ Reviewing /\ saving.on
  BY SavingIs DEF Requested
<1>2. SavedSoFar(memories, q, list, campaignId)
  BY <1>1 DEF Reviewing
<1>3. /\ memories \in Seq(MemoryRow) /\ campaignId \in Nat /\ q \in Seq(SaveStep) /\ q # <<>> /\ list \in Seq(ShownRow)
      /\ Doable(Len(memories), Head(q))
  BY RequestIs DEF WizardInv
<1> HIDE DEF q, list
<1>4. SavedSoFar(Performed(Head(q)), Tail(q), list, campaignId)
  BY <1>2, <1>3, SaveOneKeeps
<1>5. PendingIn(Tail(q), list) \subseteq PendingIn(q, list)
  <2>1. Aligned(q, list)
    BY <1>2 DEF SavedSoFar
  <2> QED
    BY <1>3, <2>1, QueueShift
<1> QED
  BY <1>1, <1>4, <1>5 DEF q, list

LEMMA SaveOneKeepsIt ==
    ASSUME WizardInv, ~Blemished' => ~Blemished, SaveOne
    PROVE  WizardInv'
<1>1. StepTyped /\ WizardTypes
  BY SaveIsStep DEF WizardInv
<1>2. /\ UNCHANGED <<page, emailTemplates, deletedTemplateIds>> /\ Requested /\ memories' = Performed(Head(saving.requests))
      /\ saving' = [saving EXCEPT !.requests = Tail(@)]
  BY Zenon DEF SaveOne, reviewed
<1>3. UNCHANGED <<step, submitting, campaignId>>
  BY <1>2 DEF page
<1>4. saving'.requests = Tail(saving.requests) /\ saving'.confirmed = saving.confirmed /\ saving'.on /\ saving.on
  BY <1>1, <1>2, SavedTyped DEF StepTyped, Requested
<1>5. ASSUME ~Blemished' PROVE step = "review" /\ Reviewing'
  <2>1. /\ step = "review" /\ Reviewing
        /\ SavedSoFar(memories', saving'.requests, saving'.confirmed, campaignId)
        /\ PendingIn(saving'.requests, saving'.confirmed) \subseteq PendingIn(saving.requests, saving.confirmed)
    BY <1>2, <1>4, <1>5, NextRequest
  <2> QED
    BY <1>2, <1>3, <1>4, <2>1 DEF Reviewing
<1> QED
  BY <1>1, <1>3, <1>5 DEF WizardInv, Staged, StepTyped

LEMMA RefusedKeeps ==
    ASSUME WizardInv, SaveRefused
    PROVE  WizardInv'
<1>1. StepTyped
  BY SaveIsStep DEF WizardInv
<1>2. Blemished'
  BY DEF SaveRefused, Blemished
<1> QED
  BY <1>1, <1>2 DEF WizardInv, StepTyped

(* A save that breaks off before it creates anything leaves the templates  *)
(* as the page lists them, but for what the page has deleted.              *)
LEMMA BrokenOff ==
    ASSUME Reviewing, saving.on, NEW mem, NEW q \in Seq(SaveStep), saving.confirmed \in Seq(ShownRow),
           SavedSoFar(mem, q, saving.confirmed, campaignId),
           PendingIn(q, saving.confirmed) \subseteq PendingIn(saving.requests, saving.confirmed), ~CreatedSome(q)
    PROVE  ListedIn(mem, emailTemplates, deletedTemplateIds, campaignId)
<1> DEFINE list == saving.confirmed
           K == KeptIn(mem, campaignId)
<1>1. /\ OldIn(emailTemplates) \subseteq OldIn(list)
      /\ OldIn(list) \cup PendingIn(saving.requests, list) \subseteq OldIn(emailTemplates) \cup deletedTemplateIds
  BY DEF Reviewing
<1>2. OldIn(list) \subseteq K
  BY DEF SavedSoFar
<1>3. K \subseteq OldIn(list) \cup PendingIn(q, list)
  BY NothingNew DEF CreatedSome
<1> HIDE DEF list, K
<1>4. OldIn(emailTemplates) \subseteq K /\ K \subseteq OldIn(emailTemplates) \cup deletedTemplateIds
  BY <1>1, <1>2, <1>3 DEF list
<1> QED
  BY <1>4 DEF ListedIn, K

LEMMA Interrupted ==
    ASSUME WizardInv, ~Blemished, ~halfSaved', saving.on,
           \/ memories' = memories /\ halfSaved' = (halfSaved \/ CreatedSome(saving.requests))
           \/ Requested /\ memories' = Performed(Head(saving.requests)) /\ halfSaved' = (halfSaved \/ CreatedSome(Tail(saving.requests)))
    PROVE  Reviewing /\ ListedIn(memories', emailTemplates, deletedTemplateIds, campaignId)
<1>1. Reviewing
  BY SavingIs
<1>2. saving.requests \in Seq(SaveStep) /\ saving.confirmed \in Seq(ShownRow)
  BY DEF WizardInv, WizardTypes, SaveTypes, SaveRow
<1>3. CASE memories' = memories /\ halfSaved' = (halfSaved \/ CreatedSome(saving.requests))
  <2>1. SavedSoFar(memories, saving.requests, saving.confirmed, campaignId) /\ ~CreatedSome(saving.requests)
    BY <1>1, <1>3 DEF Reviewing
  <2>2. ListedIn(memories, emailTemplates, deletedTemplateIds, campaignId)
    BY <1>1, <1>2, <2>1, BrokenOff
  <2> QED
    BY <1>1, <1>3, <2>2
<1>4. CASE Requested /\ memories' = Performed(Head(saving.requests)) /\ halfSaved' = (halfSaved \/ CreatedSome(Tail(saving.requests)))
  <2>1. /\ SavedSoFar(Performed(Head(saving.requests)), Tail(saving.requests), saving.confirmed, campaignId)
        /\ PendingIn(Tail(saving.requests), saving.confirmed) \subseteq PendingIn(saving.requests, saving.confirmed)
    BY <1>4, NextRequest
  <2>2. ~CreatedSome(Tail(saving.requests)) /\ Tail(saving.requests) \in Seq(SaveStep)
    BY <1>4, RequestIs DEF WizardInv
  <2>3. ListedIn(Performed(Head(saving.requests)), emailTemplates, deletedTemplateIds, campaignId)
    BY <1>1, <1>2, <2>1, <2>2, BrokenOff
  <2> QED
    BY <1>1, <1>4, <2>3
<1> QED
  BY <1>3, <1>4

LEMMA SaveBreaksKeeps ==
    ASSUME WizardInv, ~Blemished' => ~Blemished, SaveBreaks
    PROVE  WizardInv'
<1>1. StepTyped /\ WizardTypes
  BY SaveIsStep DEF WizardInv
<1>2. UNCHANGED <<page, emailTemplates, deletedTemplateIds>> /\ Requested /\ saving' = NotSaving /\ saving.on
  BY Zenon DEF SaveBreaks, reviewed, Requested
<1>3. UNCHANGED <<step, submitting, campaignId>>
  BY <1>2 DEF page
<1>4. ~saving'.on
  BY <1>2 DEF NotSaving
<1>5. ASSUME ~Blemished' PROVE step = "review" /\ Reviewing'
  <2>1. ~halfSaved' /\ step = "review"
    BY <1>2, <1>5, NextRequest DEF Blemished
  <2>2. Reviewing /\ ListedIn(memories', emailTemplates, deletedTemplateIds, campaignId)
    BY <1>2, <1>5, <2>1, Interrupted DEF SaveBreaks
  <2> QED
    BY <1>2, <1>3, <1>4, <2>1, <2>2 DEF Reviewing
<1> QED
  BY <1>1, <1>3, <1>5 DEF WizardInv, Staged, StepTyped

LEMMA LeaveKeeps ==
    ASSUME WizardInv, ~Blemished' => ~Blemished, Leave
    PROVE  WizardInv'
<1>1. StepTyped
  BY SaveIsStep DEF WizardInv
<1>2. /\ UNCHANGED <<submitting, campaignId, memories, emailTemplates, deletedTemplateIds, saving>>
      /\ step' = "left" /\ saving.on /\ saving.requests = <<>>
  BY Zenon DEF Leave, reviewed
<1>3. ASSUME ~Blemished' PROVE Reviewing'
  BY <1>2, <1>3, SavingIs, SameRowsStay, ReviewingStays
<1> QED
  BY <1>1, <1>2, <1>3 DEF WizardInv, Staged, StepTyped

LEMMA ReloadKeeps ==
    ASSUME WizardInv, ~Blemished' => ~Blemished, Reload
    PROVE  WizardInv'
<1>1. StepTyped /\ WizardTypes
  BY WizardReloads DEF WizardInv
<1>2. /\ UNCHANGED <<step, campaignId, emailTemplates, deletedTemplateIds>>
      /\ slots' = [k \in Slots |-> FreeSlot] /\ submitting' = "no" /\ saving' = NotSaving /\ step # "left"
  BY Zenon DEF Reload, reviewed
<1>3. ~saving'.on /\ \A k \in Slots : slots'[k].stage # "show"
  BY <1>2 DEF NotSaving, FreeSlot
<1>4. ~saving.on => memories' = memories
  BY DEF Reload, Requested
<1>5. ASSUME ~Blemished' PROVE Staged'
  <2>1. Staged /\ step \in {"form", "crawl", "review"}
    BY <1>1, <1>2, <1>5 DEF WizardInv, WizardTypes, FormTypes
  <2>2. ASSUME step \in {"form", "crawl"} PROVE BeforeReview'
    BY <1>2, <1>3, <2>1, <2>2 DEF Staged, BeforeReview
  <2>3. ASSUME step = "review" PROVE Reviewing'
    <3>1. Reviewing
      BY <2>1, <2>3 DEF Staged
    <3>2. ListedIn(memories', emailTemplates, deletedTemplateIds, campaignId)
      <4>1. CASE ~saving.on
        BY <1>4, <3>1, <4>1 DEF Reviewing
      <4>2. CASE saving.on
        <5>1. ~halfSaved'
          BY <1>5 DEF Blemished
        <5>2. \/ memories' = memories /\ halfSaved' = (halfSaved \/ CreatedSome(saving.requests))
              \/ Requested /\ memories' = Performed(Head(saving.requests)) /\ halfSaved' = (halfSaved \/ CreatedSome(Tail(saving.requests)))
          BY <4>2 DEF Reload
        <5> QED
          BY <1>5, <4>2, <5>1, <5>2, Interrupted
      <4> QED
        BY <4>1, <4>2
    <3> QED
      BY <1>2, <1>3, <3>1, <3>2 DEF Reviewing
  <2> QED
    BY <1>2, <2>1, <2>2, <2>3 DEF Staged
<1> QED
  BY <1>1, <1>5 DEF WizardInv, StepTyped

LEMMA WizardStarts ==
    ASSUME WizardInit
    PROVE  WizardInv
<1>1. FormTypes
  <2>1. /\ step = "form" /\ submitting = "no" /\ jobStatus = "pending" /\ stopped = FALSE
        /\ campaigns = 0 /\ campaignId = 0
    BY Zenon DEF WizardInit
  <2>2. 0 \in Nat /\ 0 \in 0 .. 0
    OBVIOUS
  <2>3. campaigns \in Nat /\ campaignId \in 0 .. campaigns
    BY <2>1, <2>2, Zenon
  <2> QED
    BY <2>1, <2>3 DEF FormTypes
<1>2. AnalysisTypes
  <2>1. analyses \in Seq(AnalysisRow) /\ Len(analyses) = 0 /\ jobId = 0
    BY EmptySeq DEF WizardInit
  <2>2. 1 .. 0 = {} /\ 0 \in 0 .. 0
    OBVIOUS
  <2> QED
    BY <2>1, <2>2 DEF AnalysisTypes
<1>3. SlotTypes
  <2>1. FreeSlot \in SlotRow
    BY EmptySeq DEF FreeSlot, SlotRow
  <2> QED
    BY <2>1, FreeFits DEF WizardInit, SlotTypes
<1>4. HookTypes
  <2>1. IdleHook \in HookRow
    <3>1. Len(Generated) \in Nat \ {0}
      BY WizardAssumption
    <3> DEFINE g == Len(Generated)
    <3> HIDE DEF g
    <3>2. 1 \in 1 .. g
      BY <3>1 DEF g
    <3> QED
      BY <3>2 DEF IdleHook, HookRow, g
  <2>2. hooks = [h \in Hooks |-> IdleHook]
    BY DEF WizardInit
  <2>3. HookFits(IdleHook, Len(analyses))
    BY <2>1 DEF HookFits
  <2> QED
    BY <2>1, <2>2, <2>3 DEF HookTypes
<1>5. ReviewTypes
  <2>1. memories \in Seq(MemoryRow) /\ emailTemplates \in Seq(ShownRow) /\ Len(emailTemplates) = 0 /\ deletedTemplateIds = {}
    BY EmptySeq DEF WizardInit
  <2>2. 1 .. 0 = {}
    OBVIOUS
  <2> QED
    BY <2>1, <2>2 DEF ReviewTypes
<1>6. SaveTypes /\ ~saving.on
  <2>1. saving = NotSaving
    BY DEF WizardInit
  <2>2. NotSaving \in SaveRow /\ Len(NotSaving.requests) = 0 /\ ~NotSaving.on
    BY EmptySeq DEF NotSaving, SaveRow
  <2>3. 1 .. 0 = {}
    OBVIOUS
  <2> QED
    BY <2>1, <2>2, <2>3 DEF SaveTypes
<1>7. HistoryTypes
  <2>1. MaxWizardActs \in Nat
    BY WizardAssumption
  <2>2. late = FALSE /\ replaced = FALSE /\ halfSaved = FALSE /\ ignored = FALSE /\ wizardActs = 0 /\ wizardFaults = 0
    BY Zenon DEF WizardInit
  <2>3. 0 \in 0 .. MaxWizardActs /\ 0 \in Nat
    BY <2>1
  <2>4. wizardActs \in 0 .. MaxWizardActs /\ wizardFaults \in Nat
    BY <2>2, <2>3, Zenon
  <2>5. late \in BOOLEAN /\ replaced \in BOOLEAN /\ halfSaved \in BOOLEAN /\ ignored \in BOOLEAN
    BY <2>2
  <2> QED
    BY <2>4, <2>5, Zenon DEF HistoryTypes
<1>8. Staged
  <2>1. \A k \in Slots : slots[k].stage = "free"
    BY DEF WizardInit, FreeSlot
  <2>2. emailTemplates = <<>> /\ deletedTemplateIds = {} /\ step = "form"
    BY DEF WizardInit
  <2> QED
    BY <1>6, <2>1, <2>2 DEF Staged, BeforeReview
<1> QED
  BY <1>1, <1>2, <1>3, <1>4, <1>5, <1>6, <1>7, <1>8 DEF WizardInv, WizardTypes

LEMMA WizardKeeps ==
    ASSUME WizardInv, [WizardNext]_wizardVars
    PROVE  WizardInv'
<1>1. ASSUME WizardNext PROVE WizardInv'
  <2>1. ~Blemished' => ~Blemished
    BY <1>1, Blemish
  <2>2. ASSUME \/ Submit \/ CreateCampaign \/ CreateFails \/ StartAnalysis \/ AnalyzeFails \/ Retry \/ GoBack
        PROVE  WizardInv'
    BY <2>1, <2>2, FormKeeps
  <2>3. ASSUME NEW j \in 1 .. Len(analyses),
               AnalysisFails(j) \/ NoAnswer(j) \/ CloseAnalysis(j) \/ \E h \in Hooks : PostAnalyzed(j, h)
        PROVE  WizardInv'
    BY <2>1, <2>3, WorkerKeeps
  <2>4. ASSUME NEW h \in Hooks, StoreTemplate(h) \/ StoreBreaks(h) PROVE WizardInv'
    BY <2>1, <2>4, StoreKeeps, BreakKeepsIt
  <2>5. ASSUME NEW k \in Slots, AskStatus(k) \/ StatusAnswered(k) \/ ReadResults(k) \/ ShowResults(k) \/ RequestFails(k)
        PROVE  WizardInv'
    BY <2>1, <2>5, SlotKeeps, ShowKeeps
  <2>6. ASSUME AddTemplate PROVE WizardInv'
    BY <2>1, <2>6, EditKeeps
  <2>7. ASSUME NEW i \in 1 .. Len(emailTemplates), EditTemplate(i, Typed) \/ DeleteTemplate(i) PROVE WizardInv'
    BY <2>1, <2>7, EditKeeps
  <2>8. ASSUME Confirm \/ SaveOne \/ SaveRefused \/ SaveBreaks \/ Leave \/ Reload PROVE WizardInv'
    BY <2>1, <2>8, ConfirmKeeps, SaveOneKeepsIt, RefusedKeeps, SaveBreaksKeeps, LeaveKeeps, ReloadKeeps
  <2> QED
    BY <1>1, <2>2, <2>3, <2>4, <2>5, <2>6, <2>7, <2>8, Zenon DEF WizardNext
<1>2. ASSUME UNCHANGED wizardVars PROVE WizardInv'
  <2>1. /\ UNCHANGED <<page, analyses, slots, hooks, memories, emailTemplates, deletedTemplateIds, saving>>
        /\ UNCHANGED <<late, replaced, halfSaved, ignored, wizardActs, wizardFaults>>
    BY <1>2, Zenon DEF wizardVars, reviewed, blemishes
  <2>2. UNCHANGED <<step, submitting, campaigns, campaignId, jobId, jobStatus, stopped>>
    BY <2>1, Zenon DEF page
  <2>3. WizardTypes
    BY DEF WizardInv
  <2>4. FormTypes' /\ HistoryTypes'
    BY <2>1, <2>2, <2>3 DEF WizardTypes, FormTypes, HistoryTypes
  <2>5. AnalysisTypes' /\ SlotTypes' /\ HookTypes'
    BY <2>1, <2>2, <2>3 DEF WizardTypes, AnalysisTypes, SlotTypes, HookTypes
  <2>6. ReviewTypes' /\ SaveTypes'
    BY <2>1, <2>3 DEF WizardTypes, ReviewTypes, SaveTypes
  <2>7. ~Blemished' => ~Blemished
    BY <2>1 DEF Blemished
  <2>8. Staged => Staged'
    BY <2>1, <2>2 DEF Staged, BeforeReview, Reviewing, CampaignOf
  <2> QED
    BY <2>4, <2>5, <2>6, <2>7, <2>8 DEF WizardInv, WizardTypes
<1> QED
  BY <1>1, <1>2

LEMMA WizardHolds == WizardSpec => []WizardInv
BY WizardStarts, WizardKeeps, PTL DEF WizardSpec

(* The wizard's page, the jobs, the slots and the templates are what       *)
(* page.tsx and the routes let them be, whatever is asked, answered, lost, *)
(* edited and loaded again.                                                *)
THEOREM WizardTypesCorrect == WizardSpec => []WizardTypeOK
<1>1. ASSUME WizardInv PROVE WizardTypeOK
  <2>1. FormTypes /\ AnalysisTypes /\ SlotTypes /\ ReviewTypes
    BY <1>1 DEF WizardInv, WizardTypes
  <2>2. \A k \in Slots : slots[k].stage \in {"free", "status", "fetch", "show"}
    <3>1. \A k \in Slots : slots[k] \in SlotRow
      BY <2>1 DEF SlotTypes
    <3> QED
      BY <3>1 DEF SlotRow
  <2>3. \A i \in 1 .. Len(emailTemplates) : emailTemplates[i].id \in -MaxWizardActs .. Len(memories)
    BY <2>1 DEF ReviewTypes, RowFits
  <2> QED
    BY <2>1, <2>2, <2>3 DEF WizardTypeOK, FormTypes, AnalysisTypes, ReviewTypes
<1> QED
  BY <1>1, WizardHolds, PTL

(* When the wizard is left with no blemish, the database has the templates *)
(* that handleSaveAndConfirm was given: those that were there before under *)
(* their numbers, and of each text as many as were shown -- for any texts, *)
(* any number of campaigns, jobs, requests at once, edits and faults.      *)
THEOREM WizardSaves == WizardSpec => []SavedAsShown
<1>1. ASSUME WizardInv PROVE SavedAsShown
  <2> DEFINE list == saving.confirmed
             K == KeptIn(memories, campaignId)
  <2> SUFFICES ASSUME step = "left", ~Blemished
               PROVE  /\ \A n \in 1 .. Len(list) : ~IsNew(list[n]) => list[n].id \in K
                      /\ \A x \in WizardText : Cardinality(KeptWith(memories, campaignId, x)) = Cardinality(ShownWith(list, x))
    BY Zenon DEF SavedAsShown, KeptIn, KeptWith, ShownWith, WizardText
  <2>1. Reviewing /\ saving.on /\ saving.requests = <<>>
    BY <1>1 DEF WizardInv, Staged
  <2>2. SavedSoFar(memories, <<>>, list, campaignId)
    BY <2>1 DEF Reviewing
  <2>3. list \in Seq(ShownRow)
    BY <1>1 DEF WizardInv, WizardTypes, SaveTypes, SaveRow
  <2> HIDE DEF list
  <2> QED
    BY <2>2, <2>3, AllSaved
<1> QED
  BY <1>1, WizardHolds, PTL
=============================================================================
