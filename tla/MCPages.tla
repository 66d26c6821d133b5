------------------------------ MODULE MCPages ------------------------------
(***************************************************************************)
(* An instance for the routes and pages of the web application.  A         *)
(* behaviour is one of a single component, chosen at first by `part` among *)
(* those a run checks, and the others stay where they were.                *)
(***************************************************************************)
EXTENDS LeadStore, CampaignDrafts, Access, LeadFile, CampaignWizard, CampaignPage, LeadList, ReplyDesk,
        TaskSidebar, TLC

CONSTANTS
  h1, h2,                                         \* handlers of lead events
  c1, c2,                                         \* campaigns
  l1, l2, l3, g1, g2,                             \* leads and groups
  t1,                                             \* a thread of a lead
  k1, k2,                                         \* tasks of the sidebar
  PageNames                                       \* the components a run checks

VARIABLE part

(* Three leads, two of one directory and two that share a phone, and a file   *)
(* whose row has the address of one of them and the name of another.          *)
PItems == << {"m1", "p"}, {"m2"}, {"p", "n"} >>
PSource == << "dir", "dir", "w3" >>
PRows == << {"m2", "n"} >>
PEdits == {{"m1"}}
PByHand == {{"p"}}

PJoined == {<<c2, l1>>}
PBefore == c1 :> "paused" @@ c2 :> "draft"

(* Two leads whose names, and one whose suburb, are any text of two, or one,  *)
(* of the characters that matter.                                             *)
PCharacter == {Quote, Comma, CR, LF, Blank, "x", "Business", "Suburb", "Status", "new"}
PTexts(n) == UNION {[1 .. k -> {Quote, Comma, CR, LF, Blank, "x"}] : k \in 0 .. n}
PTitles == << <<"Business">>, <<"Suburb">>, <<"Status">> >>
PStatus == <<"new">>
POneList == << <<PStatus, PStatus>> >>
PLists == {POneList} \cup {<< <<name, suburb>>, <<suburb, <<"x">> >> >> : name \in PTexts(2), suburb \in {<<Comma>>, <<LF>>, <<>>}}
PAlike == "businessName" :> { <<"Business">> } @@ "suburb" :> { <<"Suburb">>, <<"City">> } @@ "phone" :> { <<"Phone">> }
PColumn == "businessName" :> 1 @@ "suburb" :> 2 @@ "phone" :> 0

PGenerated == <<"first", "second">>

(* A paused campaign of one lead and two steps, and a workspace of two leads, *)
(* one of them in a group.                                                    *)
POpened == {[status |-> "paused", leads |-> {l1}, texts |-> <<"text1">>]}
PKept == [leads |-> {l1, l2}, groups |-> {g1}, inGroup |-> {<<g1, l1>>}]

pagesVars == <<part, storeVars, draftsVars, accessVars, fileVars, wizardVars, cpageVars, listVars, deskVars, sidebarVars>>

PagesInit ==
  /\ part \in PageNames
  /\ StoreInit /\ DraftsInit /\ AccessInit /\ FileInit /\ WizardInit /\ CampaignPageInit /\ LeadListInit
  /\ DeskInit /\ SidebarInit
  /\ part # "access" => ~users[Root].there
  /\ part # "file" => listed = POneList
  /\ part # "sidebar" => place = NoTask

(* A behaviour is not followed further once its history says that a race or a *)
(* failure the code does not handle has happened, after which the properties  *)
(* of its component claim next to nothing.  In four parts the bound on acts   *)
(* counts faults too.                                                         *)
PagesNext ==
  /\ UNCHANGED part
  /\ \/ /\ part = "store" /\ StoreNext
        /\ UNCHANGED <<draftsVars, accessVars, fileVars, wizardVars, cpageVars, listVars, deskVars, sidebarVars>>
     \/ /\ part = "drafts" /\ DraftsNext
        /\ UNCHANGED <<storeVars, accessVars, fileVars, wizardVars, cpageVars, listVars, deskVars, sidebarVars>>
     \/ /\ part = "access" /\ AccessNext /\ ~(twice # {} /\ accessFaults > 0)
        /\ UNCHANGED <<storeVars, draftsVars, fileVars, wizardVars, cpageVars, listVars, deskVars, sidebarVars>>
     \/ /\ part = "file" /\ FileNext
        /\ UNCHANGED <<storeVars, draftsVars, accessVars, wizardVars, cpageVars, listVars, deskVars, sidebarVars>>
     \/ /\ part = "wizard" /\ WizardNext /\ ~Blemished /\ wizardActs' + wizardFaults' <= MaxWizardActs
        /\ UNCHANGED <<storeVars, draftsVars, accessVars, fileVars, cpageVars, listVars, deskVars, sidebarVars>>
     \/ /\ part = "campaign" /\ CampaignPageNext /\ ~gap /\ ~strayed /\ pageActs' + pageFaults' <= MaxPageActs
        /\ UNCHANGED <<storeVars, draftsVars, accessVars, fileVars, wizardVars, listVars, deskVars, sidebarVars>>
     \/ /\ part = "list" /\ LeadListNext /\ ~crossed /\ listActs' + listFaults' <= MaxListActs
        /\ UNCHANGED <<storeVars, draftsVars, accessVars, fileVars, wizardVars, cpageVars, deskVars, sidebarVars>>
     \/ /\ part = "desk" /\ DeskNext /\ ~(doubled /\ deskFaults > 0) /\ ~draft.moved /\ ~answered.failed
        /\ deskActs' + deskFaults' <= MaxDeskActs /\ (mails' > 0 => deskActs' + deskFaults' < MaxDeskActs)
        /\ UNCHANGED <<storeVars, draftsVars, accessVars, fileVars, wizardVars, cpageVars, listVars, sidebarVars>>
     \/ /\ part = "sidebar" /\ SidebarNext /\ ~skewed
        /\ UNCHANGED <<storeVars, draftsVars, accessVars, fileVars, wizardVars, cpageVars, listVars, deskVars>>

PagesSpec == PagesInit /\ [][PagesNext]_pagesVars

(* The variables of every component keep their types. *)
PagesTypeOK ==
  /\ StoreTypeOK /\ DraftsTypeOK /\ AccessTypeOK /\ FileTypeOK /\ WizardTypeOK /\ CampaignPageTypeOK
  /\ LeadListTypeOK /\ DeskTypeOK /\ SidebarTypeOK

(* The two lists that are loaded again after every change show what there is: *)
(* the leads of the leads page and the tasks of the sidebar.                  *)
ListsSettle == ListSettles /\ SidebarSettles
=============================================================================
