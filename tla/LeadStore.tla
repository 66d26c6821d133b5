----------------------------- MODULE LeadStore -----------------------------
(***************************************************************************)
(* How leads get into the tenant database.  The worker posts two events    *)
(* for a lead its pipeline has saved, first lead_found and then an         *)
(* agent_event with step lead_found.  The webhook handles the first by     *)
(* handleLeadFound: it asks whether the address or the domain is           *)
(* suppressed, looks for a lead that shares an identifier or, failing      *)
(* that, the URL where the lead was found, and then creates a lead or adds *)
(* a source.  The second names no workspace and is refused each time it is *)
(* posted.  A post the worker gives up waiting for goes on in the web      *)
(* server, beside the worker's next one.  Beside both, a user imports a    *)
(* file, enters, edits and deletes leads and suppresses identifiers.       *)
(*                                                                         *)
(* An identifier is an address, a domain, a phone or a name with a suburb. *)
(* The database refuses a second lead with the same address, and nothing   *)
(* else.  Left out: snapshots, but for their failure, and job logs.        *)
(***************************************************************************)
EXTENDS Integers, Sequences, FiniteSets

CONSTANTS
  Items,        \* the identifiers of each lead the pipeline saves, in order
  Rows,         \* those of each row of the file
  Source,       \* Source[i]: the source_url of lead i, a directory or its site
  Addresses,    \* the identifiers that are addresses
  Suppressible, \* the identifiers a user may suppress: addresses and domains
  Edits,        \* what a user may make of a lead's identifiers
  ByHand,       \* the identifiers of a lead a user may enter
  Handlers,     \* the requests the web server can have in progress
  MaxPosts,  \* 4 in the code
  MaxStoreFaults, \* bound: lost posts, timeouts and failed writes
  MaxUserActs     \* bound: edits, deletions and suppressions

ASSUME StoreAssumption ==
  /\ MaxPosts \in Nat \ {0} /\ MaxStoreFaults \in Nat /\ MaxUserActs \in Nat
  /\ Len(Items) \in Nat /\ Len(Rows) \in Nat /\ \A i \in 1 .. Len(Items) : Items[i] # {}
  /\ IsFiniteSet(Handlers) /\ \A i \in 1 .. Len(Items) : Cardinality(Items[i] \cap Addresses) <= 1

VARIABLES
  leads,      \* the leads ever created: identifiers (none once deleted), sources
  suppressed, \* SuppressionEntry
  request,    \* request[h]: what handler h is doing, for which event
  item,       \* the lead the worker is reporting
  kind,       \* "lead_found" or "agent_event"
  posts,    \* attempts made to post that event
  awaits,     \* the handler whose answer it waits for, {} for none
  rowsDone,   \* rows of the import done with; 0 with known = {} before it
  known,      \* rows that were in the database when the import looked
  importing,  \* whether an import is in progress
  entered,    \* leads entered by hand that were looked for and not found yet
  acked,      \* history: items whose lead_found was answered with success
  refused,    \* history: items a suppression kept out
  skipped,    \* history: items taken for another lead, for their URL alone
  removed,    \* history: identifiers and URLs that were a lead's until a user acted
  overlapped, \* history: two looked and found nothing before either created
  edited,     \* history: a user has changed a lead's identifiers
  storeFaults, userActs \* history: what the bounds count

storeVars == <<leads, suppressed, request, item, kind, posts, awaits, rowsDone, known,
               importing, entered, acked, refused, skipped, removed, overlapped, edited, storeFaults, userActs>>

Free == [stage |-> "free", item |-> 0, match |-> 0]
NoLead == [ids |-> {}, sources |-> {}]
Present == {l \in 1 .. Len(leads) : leads[l] # NoLead}

StoreInit ==
  /\ leads = <<>> /\ suppressed = {} /\ request = [h \in Handlers |-> Free]
  /\ item = 1 /\ kind = "lead_found" /\ posts = 0 /\ awaits = {}
  /\ rowsDone = 0 /\ known = {} /\ importing = FALSE /\ entered = {}
  /\ acked = {} /\ refused = {} /\ skipped = {} /\ removed = {} /\ overlapped = FALSE /\ edited = FALSE
  /\ storeFaults = 0 /\ userActs = 0

StoreFault == storeFaults < MaxStoreFaults /\ storeFaults' = storeFaults + 1

-----------------------------------------------------------------------------
(* The worker: _save_pipeline_lead, then emit_event, each by _notify_webhook *)

NextEvent ==
  /\ posts' = 0
  /\ IF kind = "lead_found" THEN kind' = "agent_event" /\ item' = item
                            ELSE kind' = "lead_found" /\ item' = item + 1

Reporting == item <= Len(Items) /\ awaits = {}

PostEvent(h) ==
  /\ Reporting /\ kind = "lead_found" /\ posts < MaxPosts /\ request[h].stage = "free"
  /\ request' = [request EXCEPT ![h] = [stage |-> "policy", item |-> item, match |-> 0]]
  /\ awaits' = {h} /\ posts' = posts + 1
  /\ UNCHANGED <<leads, suppressed, item, kind, rowsDone, known, importing, entered, acked, refused,
                 skipped, removed, overlapped, edited, storeFaults, userActs>>

(* Without a workspace_id the webhook answers 400 before it does anything,    *)
(* and the worker posts the event again.                                      *)
EventRefused ==
  /\ Reporting /\ kind = "agent_event" /\ posts < MaxPosts
  /\ posts' = posts + 1
  /\ UNCHANGED <<leads, suppressed, request, item, kind, awaits, rowsDone, known, importing, entered, acked,
                 refused, skipped, removed, overlapped, edited, storeFaults, userActs>>

PostLost ==
  /\ Reporting /\ posts < MaxPosts /\ StoreFault
  /\ posts' = posts + 1
  /\ UNCHANGED <<leads, suppressed, request, item, kind, awaits, rowsDone, known, importing, entered, acked,
                 refused, skipped, removed, overlapped, edited, userActs>>

(* After ten seconds without an answer; the handler goes on. *)
TimedOut ==
  /\ awaits # {} /\ StoreFault
  /\ awaits' = {}
  /\ UNCHANGED <<leads, suppressed, request, item, kind, posts, rowsDone, known, importing, entered, acked,
                 refused, skipped, removed, overlapped, edited, userActs>>

DropEvent ==
  /\ Reporting /\ posts = MaxPosts
  /\ NextEvent
  /\ UNCHANGED <<leads, suppressed, request, awaits, rowsDone, known, importing, entered, acked, refused,
                 skipped, removed, overlapped, edited, storeFaults, userActs>>

-----------------------------------------------------------------------------
(* handleLeadFound *)

AnswerOk(h) ==
  /\ request' = [request EXCEPT ![h] = Free]
  /\ acked' = acked \cup {request[h].item}
  /\ IF awaits = {h} THEN awaits' = {} /\ NextEvent ELSE UNCHANGED <<awaits, item, kind, posts>>

AnswerError(h) ==
  /\ request' = [request EXCEPT ![h] = Free]
  /\ awaits' = awaits \ {h}
  /\ UNCHANGED <<acked, item, kind, posts>>

Move(h, stage, match) ==
  /\ request' = [request EXCEPT ![h].stage = stage, ![h].match = match]
  /\ UNCHANGED <<item, kind, posts, awaits, acked>>

CheckPolicy(h) ==
  /\ request[h].stage = "policy"
  /\ IF Items[request[h].item] \cap suppressed # {}
     THEN AnswerOk(h) /\ refused' = refused \cup {request[h].item}
     ELSE Move(h, "lookup", 0) /\ UNCHANGED refused
  /\ UNCHANGED <<leads, suppressed, rowsDone, known, importing, entered, skipped, removed, overlapped, edited,
                 storeFaults, userActs>>

SharingIds(ids) == {l \in Present : leads[l].ids \cap ids # {}}
FromSource(url) == {l \in Present : url \in leads[l].sources}
Matches_byAddress(i) ==
  {l \in Present : leads[l].ids \cap Items[i] \cap Addresses # {}}
(* The URL counts when nothing else does. *)
Matches(i) ==
  IF SharingIds(Items[i]) # {} THEN SharingIds(Items[i]) ELSE FromSource(Source[i])

Creating == {h \in Handlers : request[h].stage = "create"}

LookUp(h) ==
  /\ request[h].stage = "lookup"
  /\ IF Matches(request[h].item) = {}
     THEN /\ Move(h, "create", 0)
          /\ overlapped' = (overlapped \/ Creating # {} \/ importing \/ entered # {})
          /\ UNCHANGED skipped
     ELSE /\ \E l \in Matches(request[h].item) :
               /\ Move(h, "merge", l)
               /\ skipped' = IF l \in SharingIds(Items[request[h].item]) THEN skipped
                             ELSE skipped \cup {request[h].item}
          /\ UNCHANGED overlapped
  /\ UNCHANGED <<leads, suppressed, rowsDone, known, importing, entered, refused, removed, edited,
                 storeFaults, userActs>>

AddressTaken(ids) == \E l \in Present : leads[l].ids \cap ids \cap Addresses # {}
WithSource(l, url) == [leads EXCEPT ![l].sources = @ \cup {url}]

(* The lead with its first source; the snapshots after it may fail. *)
Create(h) ==
  /\ request[h].stage = "create"
  /\ LET ids == Items[request[h].item]
         url == Source[request[h].item]
     IN IF AddressTaken(ids)
        THEN AnswerError(h) /\ UNCHANGED <<leads, storeFaults>>
        ELSE /\ leads' = Append(leads, [ids |-> ids, sources |-> {url}])
             /\ \/ AnswerOk(h) /\ UNCHANGED storeFaults
                \/ AnswerError(h) /\ StoreFault
  /\ UNCHANGED <<suppressed, rowsDone, known, importing, entered, refused, skipped, removed, overlapped, edited, userActs>>

(* A duplicate gets the source unless it has it; a lead deleted meanwhile     *)
(* makes the write fail.                                                      *)
Merge(h) ==
  /\ request[h].stage = "merge"
  /\ LET l == request[h].match
         url == Source[request[h].item]
     IN IF l \notin Present
        THEN AnswerError(h) /\ UNCHANGED <<leads, storeFaults>>
        ELSE /\ leads' = WithSource(l, url)
             /\ \/ AnswerOk(h) /\ UNCHANGED storeFaults
                \/ AnswerError(h) /\ StoreFault
  /\ UNCHANGED <<suppressed, rowsDone, known, importing, entered, refused, skipped, removed, overlapped, edited, userActs>>

-----------------------------------------------------------------------------
(* The user *)

(* leads/import: one look at the database for all rows, no policy. *)
StartImport ==
  /\ rowsDone = 0 /\ ~importing /\ Len(Rows) > 0
  /\ importing' = TRUE
  /\ known' = {r \in 1 .. Len(Rows) : SharingIds(Rows[r]) # {}}
  /\ overlapped' = (overlapped \/ Creating # {} \/ entered # {})
  /\ UNCHANGED <<leads, suppressed, request, item, kind, posts, awaits, rowsDone, entered, acked, refused,
                 skipped, removed, edited, storeFaults, userActs>>

TakenBefore(r) == \E q \in 1 .. r - 1 : q \notin known /\ Rows[q] \cap Rows[r] # {}

(* One row more; an address that is taken ends the import. *)
ImportRow ==
  /\ importing
  /\ LET r == rowsDone + 1
         skip == r \in known \/ TakenBefore(r)
     IN /\ leads' = IF skip \/ AddressTaken(Rows[r]) THEN leads
                    ELSE Append(leads, [ids |-> Rows[r], sources |-> {"website"}])
        /\ rowsDone' = r
        /\ importing' = (r < Len(Rows) /\ (skip \/ ~AddressTaken(Rows[r])))
  /\ UNCHANGED <<suppressed, request, item, kind, posts, awaits, known, entered, acked, refused,
                 skipped, removed, overlapped, edited, storeFaults, userActs>>

UserAct == userActs < MaxUserActs /\ userActs' = userActs + 1

(* leads, POST: look for a duplicate, then create; no policy. *)
EnterLead(ids) ==
  /\ entered = {} /\ SharingIds(ids) = {} /\ UserAct
  /\ entered' = {ids}
  /\ overlapped' = (overlapped \/ Creating # {} \/ importing)
  /\ UNCHANGED <<leads, suppressed, request, item, kind, posts, awaits, rowsDone, known, importing, acked,
                 refused, skipped, removed, edited, storeFaults>>
CreateEntered ==
  /\ entered # {}
  /\ \E ids \in entered :
       leads' = IF AddressTaken(ids) THEN leads ELSE Append(leads, [ids |-> ids, sources |-> {"website"}])
  /\ entered' = {}
  /\ UNCHANGED <<suppressed, request, item, kind, posts, awaits, rowsDone, known, importing, acked,
                 refused, skipped, removed, overlapped, edited, storeFaults, userActs>>

Suppress(k) ==
  /\ UserAct /\ suppressed' = suppressed \cup {k}
  /\ UNCHANGED <<leads, request, item, kind, posts, awaits, rowsDone, known, importing, entered, acked,
                 refused, skipped, removed, overlapped, edited, storeFaults>>

DeleteLead(l) ==
  /\ UserAct /\ leads' = [leads EXCEPT ![l] = NoLead]
  /\ removed' = removed \cup leads[l].ids \cup leads[l].sources
  /\ UNCHANGED <<suppressed, request, item, kind, posts, awaits, rowsDone, known, importing, entered, acked,
                 refused, skipped, overlapped, edited, storeFaults>>

(* PATCH looks for no duplicate. *)
EditLead(l, ids) ==
  /\ UserAct
  /\ \A m \in Present \ {l} : leads[m].ids \cap ids \cap Addresses = {}
  /\ leads' = [leads EXCEPT ![l].ids = ids]
  /\ removed' = removed \cup (leads[l].ids \ ids)
  /\ edited' = TRUE
  /\ UNCHANGED <<suppressed, request, item, kind, posts, awaits, rowsDone, known, importing, entered, acked,
                 refused, skipped, overlapped, storeFaults>>

StoreNext ==
  \/ EventRefused \/ PostLost \/ TimedOut \/ DropEvent
  \/ \E h \in Handlers : PostEvent(h) \/ CheckPolicy(h) \/ LookUp(h) \/ Create(h) \/ Merge(h)
  \/ StartImport \/ ImportRow \/ CreateEntered \/ \E ids \in ByHand : EnterLead(ids)
  \/ \E k \in Suppressible \ suppressed : Suppress(k)
  \/ \E l \in Present : DeleteLead(l) \/ \E ids \in Edits : EditLead(l, ids)

StoreSpec == StoreInit /\ [][StoreNext]_storeVars

-----------------------------------------------------------------------------
StoreTypeOK ==
  /\ \A l \in 1 .. Len(leads) : leads[l] = NoLead \/ leads[l].sources # {}
  /\ item \in 1 .. Len(Items) + 1 /\ kind \in {"lead_found", "agent_event"}
  /\ posts \in 0 .. MaxPosts /\ awaits \subseteq Handlers /\ Cardinality(awaits) <= 1
  /\ \A h \in Handlers : /\ request[h].stage \in {"free", "policy", "lookup", "create", "merge"}
                         /\ request[h].match \in 0 .. Len(leads)
  /\ \A h \in awaits : request[h].stage # "free" /\ request[h].item = item /\ kind = "lead_found"
  /\ entered \subseteq ByHand /\ rowsDone \in 0 .. Len(Rows) /\ known \subseteq 1 .. Len(Rows)

(* As long as no two requests looked for a lead at once and no user gave one  *)
(* the identifiers of another, no two leads share an identifier, whatever is  *)
(* retried, posted twice, half done, imported or deleted.                     *)
NoTwins ==
  ~overlapped /\ ~edited =>
    \A l, m \in Present : l # m => leads[l].ids \cap leads[m].ids = {}

(* A lead whose lead_found was answered with success is in the database, or   *)
(* was taken for a lead with the same source URL, which is, unless it was     *)
(* refused or a user removed either.  A directory gives its URL to every lead *)
(* it lists, so that only the first of them is stored.                        *)
FoundIsStored ==
  \A i \in acked \ refused : Items[i] \cap removed = {} /\ Source[i] \notin removed =>
    \/ SharingIds(Items[i]) # {}
    \/ i \in skipped /\ FromSource(Source[i]) # {}

(* What is found is stored, once. *)
StoredOnce == NoTwins /\ FoundIsStored
=============================================================================
