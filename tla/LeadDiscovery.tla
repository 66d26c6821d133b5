--------------------------- MODULE LeadDiscovery ---------------------------
(***************************************************************************)
(* One run of lead_discovery_pipeline.py: a loop that takes, in this       *)
(* order, a batch of business websites, a directory, a batch of search     *)
(* queries or three more locations, until enough e-mail addresses are      *)
(* saved, nothing is left, the job is cancelled or the loop has turned     *)
(* MaxTurns times.  The status of the job is read over HTTP before every   *)
(* turn and every target, and a read that fails counts as "not cancelled". *)
(*                                                                         *)
(* A lead is known by its keys: its address, its website's domain, its     *)
(* phone, its name with its suburb or its postal address.  Names alike to  *)
(* 85% are one key here.  What a page shows and what the language model    *)
(* makes of it are chosen among the values of the constants.               *)
(***************************************************************************)
EXTENDS Integers, Sequences, FiniteSets

CONSTANTS
  Site, Directory, Query, Area,
  Suburbs,      \* the suburbs of the city whose file is found, in its order
  Cities,       \* locations that decide() calls a metro
  Neighbours,   \* Neighbours[a]: _PROXIMITY_MAP, for the suburbs that are in it
  Asked,        \* the locations a user may name
  Broad,        \* the queries about the city, the same for every suburb
  Direct,       \* Direct[a]: the queries about a location
  MaxQueries,   \* queries planned for one location: 100 in the code
  Hits,         \* Hits[q]: the URLs a query finds, in order
  Name, LeadKey, \* names of businesses in directories, and what leads are known by
  Shows,        \* Shows[s]: the extractions a crawl of s may give
  Fallback,     \* Fallback[s]: what the language model may make of s
  Cards,        \* Cards[d]: the entries of a directory page: [name, site, keys, place]
  Graph,        \* Graph[d]: the entries the language model sees on it
  Host,         \* Host[d]: the domain of a directory page
  Barred,       \* addresses disposable, of a refused prefix or without MX record
  NoSite, NoMail,
  Quantity,     \* addresses asked for
  SiteBatch, QueryBatch, AreaBatch, \* 4, 5 and 3 in the code
  AtOnce,       \* suburbs of a metro searched at once: 6 in the code
  FewCards,     \* entries below which the language model is asked: 3 in the code
  MaxTurns,     \* 500 in the code
  MaxFallbacks, \* SCRAPEGRAPH_FALLBACK_MAX_CALLS
  MaxMisses     \* bound: reads of the job's status that fail

Named == {"asked", "other", "none"}
(* An entry of a directory page, and a site to crawl with what is known of it.*)
Card == [name : Name, site : Site \cup {NoSite}, keys : SUBSET LeadKey, place : Named]
Target == [site : Site, keys : SUBSET LeadKey, place : Named]

ASSUME PageAssumptions ==
  /\ \A q \in Query : Len(Hits[q]) \in Nat
  /\ \A d \in Directory : Cards[d] \in Seq(Card) /\ Graph[d] \in Seq(Card) /\ Host[d] \in LeadKey
  /\ \A s \in Site : \A c \in Shows[s] \cup Fallback[s] : c.keys \subseteq LeadKey
  /\ Suburbs \in Seq(Area) /\ Asked \subseteq Area
  /\ \A i, j \in DOMAIN Suburbs : Suburbs[i] = Suburbs[j] => i = j
  /\ \A a \in DOMAIN Neighbours : Neighbours[a] \in Seq(Area)
  /\ Broad \in Seq(Query) /\ \A a \in Area : Direct[a] \in Seq(Query)
  /\ MaxQueries \in Nat /\ AtOnce \in Nat /\ FewCards \in Nat

ASSUME DiscoveryAssumption ==
  /\ Quantity \in Nat \ {0} /\ SiteBatch \in Nat \ {0} /\ QueryBatch \in Nat \ {0}
  /\ AreaBatch \in Nat \ {0} /\ MaxTurns \in Nat /\ MaxFallbacks \in Nat /\ MaxMisses \in Nat
  /\ NoSite \notin Site /\ Site \cap Directory = {}

VARIABLES
  at,         \* "loop", "sites", "directory", "listings", "queries" or "done"
  location,   \* the location asked for
  scope,      \* "generic", "exact_suburb", "nearby" or "metro"
  areas,      \* active_locations
  batch,      \* targets of the present batch not yet begun
  hand,       \* the target in work, as a sequence of at most one
  entries,    \* entries of the directory in hand not yet seen to
  named,      \* discovered_domains of that directory
  siteQueue, directoryQueue, queryPool, heldBack,
  seenDomains,
  index,      \* keys of the leads saved: the five discovered_ tables
  found,      \* the leads handed to save_lead, in order
  emails,     \* valid_emails_saved
  turns,      \* loop_counter
  fallbacks,  \* llm_fallback_calls
  cached,     \* cached[s]: what a crawl of s gave in the last seven days, {} if none
  cancelledAt, \* history: leads found when the job was cancelled, -1 before
  misses      \* history: reads of the status that failed

where == <<location, scope, areas>>
listing == <<entries, named>>
queues == <<siteQueue, directoryQueue, queryPool, heldBack>>
gains == <<index, found, emails>>
discoveryVars == <<at, where, batch, hand, listing, queues, seenDomains, gains,
                   turns, fallbacks, cached, cancelledAt, misses>>

Upto(s, n) == SubSeq(s, 1, IF Len(s) < n THEN Len(s) ELSE n)
After(s, n) == SubSeq(s, n + 1, Len(s))
Among(x, s) == \E i \in 1 .. Len(s) : s[i] = x
(* The elements of s that are in T, in their order. *)
Within(s, T) ==
  LET kept == {i \in 1 .. Len(s) : s[i] \in T}
      Nth(n) == CHOOSE i \in kept : Cardinality({j \in kept : j <= i}) = n
  IN [n \in 1 .. Cardinality(kept) |-> s[Nth(n)]]

-----------------------------------------------------------------------------
(* Where to search *)

(* The city's own name, its keywords and its suburbs lead to its file.        *)
Structured(a) == a \in Cities \/ Among(a, Suburbs)

(* Words like "near" or "around" in the prompt come first.  The scope "state" *)
(* of the code is left out: no state's name leads to a file.                  *)
Scope(a, near) ==
  CASE ~Structured(a) -> "generic"
    [] Structured(a) /\ near -> "nearby"
    [] Structured(a) /\ ~near /\ a \in Cities -> "metro"
    [] OTHER -> "exact_suburb"

Proximity_noRest(a) ==
  IF a \in DOMAIN Neighbours THEN Neighbours[a]
  ELSE IF ~Among(a, Suburbs) THEN <<>>
  ELSE LET n == Len(Suburbs)
           here == CHOOSE i \in 1 .. n : Suburbs[i] = a
           Around(d) == (IF here - d >= 1 THEN <<Suburbs[here - d]>> ELSE <<>>)
                     \o (IF here + d <= n THEN <<Suburbs[here + d]>> ELSE <<>>)
           upto[d \in 0 .. n - 1] ==
             IF d = 0 THEN [groups |-> <<>>, current |-> <<>>]
             ELSE LET more == upto[d - 1].current \o Around(d)
                      full == Len(more) >= 2
                  IN [groups |-> upto[d - 1].groups \o (IF full THEN more ELSE <<>>),
                      current |-> IF full THEN <<>> ELSE more]
       IN upto[n - 1].groups
(* get_proximity_groups, its groups joined: the suburbs by their distance in  *)
(* the file, gathered until a group has two or nothing is left.               *)
Proximity(a) ==
  IF a \in DOMAIN Neighbours THEN Neighbours[a]
  ELSE IF ~Among(a, Suburbs) THEN <<>>
  ELSE LET n == Len(Suburbs)
           here == CHOOSE i \in 1 .. n : Suburbs[i] = a
           Around(d) == (IF here - d >= 1 THEN <<Suburbs[here - d]>> ELSE <<>>)
                     \o (IF here + d <= n THEN <<Suburbs[here + d]>> ELSE <<>>)
           upto[d \in 0 .. n - 1] ==
             IF d = 0 THEN [groups |-> <<>>, current |-> <<>>]
             ELSE LET more == upto[d - 1].current \o Around(d)
                      full == Len(more) >= 2 \/ d = n - 1
                  IN [groups |-> upto[d - 1].groups \o (IF full THEN more ELSE <<>>),
                      current |-> IF full THEN <<>> ELSE more]
       IN upto[n - 1].groups

(* The suburbs of a metro, the one asked for first if it is one of them.      *)
Ordered(a) ==
  IF Among(a, Suburbs) THEN <<a>> \o Within(Suburbs, Area \ {a}) ELSE Suburbs
FirstAreas(a, sc) == IF sc = "metro" THEN Upto(Ordered(a), AtOnce) ELSE <<a>>
LaterAreas(a, sc) ==
  CASE sc = "generic" -> <<>> [] sc = "metro" -> After(Ordered(a), AtOnce) [] OTHER -> Proximity(a)

(* The queries about the city come first, again for every location. *)
Planned(a) == Upto(Broad \o Direct[a], MaxQueries)
Plan(as) == LET n == Len(as)
                all[i \in 0 .. n] == IF i = 0 THEN <<>> ELSE all[i - 1] \o Planned(as[i])
            IN all[n]

DiscoveryInit ==
  /\ location \in Asked
  /\ \E near \in BOOLEAN : scope = Scope(location, near)
  /\ areas = FirstAreas(location, scope) /\ heldBack = LaterAreas(location, scope)
  /\ queryPool = Plan(areas)
  /\ at = "loop" /\ batch = <<>> /\ hand = <<>> /\ entries = <<>> /\ named = {}
  /\ siteQueue = <<>> /\ directoryQueue = <<>>
  /\ seenDomains = {} /\ index = {} /\ found = <<>> /\ emails = 0
  /\ turns = 0 /\ fallbacks = 0
  /\ cached \in {c \in [Site -> {{}} \cup {{x} : x \in UNION {Shows[s] : s \in Site}}] :
                  \A s \in Site : c[s] \subseteq Shows[s]}
  /\ cancelledAt = -1 /\ misses = 0

Cancel ==
  /\ cancelledAt = -1 /\ at # "done"
  /\ cancelledAt' = Len(found)
  /\ UNCHANGED <<at, where, batch, hand, listing, queues, seenDomains, gains,
                 turns, fallbacks, cached, misses>>

NotCancelled ==
  \/ cancelledAt = -1 /\ UNCHANGED misses
  \/ cancelledAt # -1 /\ misses < MaxMisses /\ misses' = misses + 1

-----------------------------------------------------------------------------
(* The loop of run *)

Turning_past == at = "loop" /\ emails <= Quantity /\ turns < MaxTurns
Turning == at = "loop" /\ emails < Quantity /\ turns < MaxTurns

Exhausted_waiting ==
  siteQueue = <<>> /\ directoryQueue = <<>> /\ queryPool = <<>> /\ heldBack = <<>>
(* The suburbs around an exact one are only recommended. *)
Exhausted ==
  /\ siteQueue = <<>> /\ directoryQueue = <<>> /\ queryPool = <<>>
  /\ heldBack = <<>> \/ scope \notin {"nearby", "metro"}

EndRun ==
  /\ at = "loop"
  /\ ~Turning \/ cancelledAt # -1 \/ Exhausted
  /\ at' = "done"
  /\ UNCHANGED <<where, batch, hand, listing, queues, seenDomains, gains,
                 turns, fallbacks, cached, cancelledAt, misses>>

TakeSites ==
  /\ Turning /\ siteQueue # <<>> /\ NotCancelled
  /\ at' = "sites" /\ batch' = Upto(siteQueue, SiteBatch)
  /\ siteQueue' = After(siteQueue, SiteBatch)
  /\ turns' = turns + 1
  /\ UNCHANGED <<where, hand, listing, directoryQueue, queryPool, heldBack, seenDomains, gains,
                 fallbacks, cached, cancelledAt>>

TakeDirectory ==
  /\ Turning /\ siteQueue = <<>> /\ directoryQueue # <<>> /\ NotCancelled
  /\ at' = "directory" /\ batch' = Upto(directoryQueue, 1)
  /\ directoryQueue' = Tail(directoryQueue)
  /\ turns' = turns + 1
  /\ UNCHANGED <<where, hand, listing, siteQueue, queryPool, heldBack, seenDomains, gains,
                 fallbacks, cached, cancelledAt>>

TakeQueries ==
  /\ Turning /\ siteQueue = <<>> /\ directoryQueue = <<>> /\ queryPool # <<>> /\ NotCancelled
  /\ at' = "queries" /\ batch' = Upto(queryPool, QueryBatch)
  /\ queryPool' = After(queryPool, QueryBatch)
  /\ turns' = turns + 1
  /\ UNCHANGED <<where, hand, listing, siteQueue, directoryQueue, heldBack, seenDomains, gains,
                 fallbacks, cached, cancelledAt>>

ExpandArea ==
  /\ Turning /\ siteQueue = <<>> /\ directoryQueue = <<>> /\ queryPool = <<>>
  /\ heldBack # <<>> /\ scope \in {"nearby", "metro"} /\ NotCancelled
  /\ areas' = areas \o Upto(heldBack, AreaBatch)
  /\ queryPool' = Plan(Upto(heldBack, AreaBatch))
  /\ heldBack' = After(heldBack, AreaBatch)
  /\ turns' = turns + 1
  /\ UNCHANGED <<at, location, scope, batch, hand, listing, siteQueue, directoryQueue, seenDomains,
                 gains, fallbacks, cached, cancelledAt>>

-----------------------------------------------------------------------------
(* The targets of a batch *)

BeginTarget_unchecked ==
  /\ at # "loop" /\ hand = <<>> /\ batch # <<>>
  /\ hand' = <<Head(batch)>> /\ batch' = Tail(batch)
  /\ UNCHANGED <<at, where, listing, queues, seenDomains, gains,
                 turns, fallbacks, cached, cancelledAt, misses>>
BeginTarget ==
  /\ at # "loop" /\ hand = <<>> /\ batch # <<>> /\ NotCancelled
  /\ hand' = <<Head(batch)>> /\ batch' = Tail(batch)
  /\ UNCHANGED <<at, where, listing, queues, seenDomains, gains,
                 turns, fallbacks, cached, cancelledAt>>

(* What is left of the batch is in no queue any more. *)
DropBatch ==
  /\ at # "loop" /\ hand = <<>> /\ batch # <<>> /\ cancelledAt # -1
  /\ at' = "loop" /\ batch' = <<>>
  /\ UNCHANGED <<where, hand, listing, queues, seenDomains, gains,
                 turns, fallbacks, cached, cancelledAt, misses>>

Working(step) == at = step /\ hand # <<>>
Done ==
  /\ hand' = <<>> /\ at' = IF batch = <<>> THEN "loop" ELSE at

(* The search is refused, fails or finds something; a URL that is neither a   *)
(* site nor a directory is passed over.  A directory is queued every time it  *)
(* is found, a site only once.                                                *)
Results(q) == {<<>>, Hits[q]}
Search ==
  /\ Working("queries")
  /\ \E urls \in Results(hand[1]) :
       LET new == Within(urls, Site \ seenDomains)
       IN /\ siteQueue' = siteQueue \o
               [i \in 1 .. Len(new) |-> [site |-> new[i], keys |-> {}, place |-> "asked"]]
          /\ directoryQueue' = directoryQueue \o Within(urls, Directory)
          /\ seenDomains' = seenDomains \cup {new[i] : i \in 1 .. Len(new)}
  /\ Done
  /\ UNCHANGED <<where, batch, listing, queryPool, heldBack, gains,
                 turns, fallbacks, cached, cancelledAt, misses>>

-----------------------------------------------------------------------------
(* Candidates: [keys, mail, place].  The place is the one asked for unless a   *)
(* directory or the language model names another.                             *)

Duplicate(c) == c.keys \cap index # {}

(* A candidate without an address passes: all have the URL they come from.    *)
Mailable(c) == c.mail \notin Barred
(* A place that is known and another than the one asked for is let pass only  *)
(* if that was a city.                                                        *)
PlaceFits(c) == c.place = "other" => location \in Cities
Passes(c) == Mailable(c) /\ PlaceFits(c)
(* Of tier A or B, whatever the score. *)
Counts(c) == c.mail # NoMail

Save_unindexed(c) ==
  IF ~Duplicate(c) /\ Passes(c)
  THEN /\ found' = Append(found, c.keys)
       /\ index' = index \cup (IF Counts(c) THEN c.keys ELSE {})
       /\ emails' = IF Counts(c) THEN emails + 1 ELSE emails
  ELSE UNCHANGED gains
(* _process_extracted_data: a lead with an address is of tier A or B, one     *)
(* without of tier C.  A duplicate or a blocked candidate leaves no trace.    *)
Save(c) ==
  IF ~Duplicate(c) /\ Passes(c)
  THEN /\ found' = Append(found, c.keys)
       /\ index' = index \cup c.keys
       /\ emails' = IF Counts(c) THEN emails + 1 ELSE emails
  ELSE UNCHANGED gains

(* What a listing said of the site fills in what the site does not show.      *)
Candidates(c, item) ==
  {[keys |-> c.keys \cup more, mail |-> c.mail,
    place |-> IF c.place = "none" THEN item.place ELSE c.place] : more \in {{}, item.keys}}

-----------------------------------------------------------------------------
(* A directory *)

(* An entry of the language model fills in what the page's first entry of its *)
(* name lacks, or is one more.                                                *)
With(list, e) ==
  LET same == {i \in 1 .. Len(list) : list[i].name = e.name}
      first == CHOOSE i \in same : \A j \in same : i <= j
  IN IF same = {} THEN Append(list, e)
     ELSE [list EXCEPT ![first].site = IF @ = NoSite THEN e.site ELSE @,
                       ![first].keys = IF @ = {} THEN e.keys ELSE @]
Merged(cards, more) ==
  LET upto[n \in 0 .. Len(more)] == IF n = 0 THEN cards ELSE With(upto[n - 1], more[n])
  IN upto[Len(more)]

(* The page cannot be read, or is; with few entries the model may be asked.   *)
Read(d) ==
  {<<>>, Cards[d]} \cup IF Len(Cards[d]) < FewCards THEN {Merged(Cards[d], Graph[d])} ELSE {}

ReadDirectory ==
  /\ Working("directory")
  /\ entries' \in Read(hand[1]) /\ named' = {}
  /\ at' = "listings"
  /\ UNCHANGED <<where, batch, hand, queues, seenDomains, gains,
                 turns, fallbacks, cached, cancelledAt, misses>>

(* An entry with a website goes back to the sites, which does not make its    *)
(* domain a seen one; an entry without becomes a lead whose domain is that of *)
(* the directory, so that only the first of a directory is no duplicate.      *)
Listing ==
  /\ at = "listings" /\ entries # <<>>
  /\ LET entry == Head(entries) IN
     IF entry.site = NoSite
     THEN /\ Save([keys |-> entry.keys \cup {Host[hand[1]]}, mail |-> NoMail, place |-> entry.place])
          /\ UNCHANGED <<siteQueue, named>>
     ELSE /\ IF entry.site \in seenDomains \cup named THEN UNCHANGED <<siteQueue, named>>
             ELSE /\ siteQueue' = Append(siteQueue, [site |-> entry.site, keys |-> entry.keys,
                                                      place |-> entry.place])
                  /\ named' = named \cup {entry.site}
          /\ UNCHANGED gains
  /\ entries' = Tail(entries)
  /\ UNCHANGED <<at, where, batch, hand, directoryQueue, queryPool, heldBack, seenDomains,
                 turns, fallbacks, cached, cancelledAt, misses>>

(* A batch of directories is one directory. *)
EndDirectory ==
  /\ at = "listings" /\ entries = <<>>
  /\ at' = "loop" /\ hand' = <<>> /\ named' = {}
  /\ UNCHANGED <<where, batch, entries, queues, seenDomains, gains,
                 turns, fallbacks, cached, cancelledAt, misses>>

-----------------------------------------------------------------------------
(* A site *)

Item == hand[1]

(* Nothing is cached, or it is too old or cannot be read, and neither the      *)
(* static pages nor a rendering can be had.                                   *)
Unreachable ==
  /\ Working("sites")
  /\ Done
  /\ UNCHANGED <<where, batch, listing, queues, seenDomains, gains,
                 turns, fallbacks, cached, cancelledAt, misses>>

(* What the cache holds is what the site showed, without a place. *)
FromCache ==
  /\ Working("sites")
  /\ \E c \in cached[Item.site] : \E whole \in Candidates(c, Item) : Save(whole)
  /\ Done
  /\ UNCHANGED <<where, batch, listing, queues, seenDomains,
                 turns, fallbacks, cached, cancelledAt, misses>>

(* No address, no name or little confidence. *)
Weak(c) == c.mail = NoMail \/ ~c.sure

(* The language model fails, or its fields that the text supports replace the *)
(* extractor's.                                                               *)
Improved(s, c) == {c} \cup Fallback[s]

(* The cache file may not get written. *)
Remember(s, c) == cached' \in {cached, [cached EXCEPT ![s] = {c}]}

(* The extraction is cached before the language model is asked. *)
Crawl ==
  /\ Working("sites")
  /\ \E c \in Shows[Item.site] :
       /\ Remember(Item.site, c)
       /\ IF Weak(c) /\ fallbacks < MaxFallbacks
          THEN /\ fallbacks' = fallbacks + 1
               /\ \E better \in Improved(Item.site, c) : \E whole \in Candidates(better, Item) : Save(whole)
          ELSE /\ \E whole \in Candidates(c, Item) : Save(whole)
               /\ UNCHANGED fallbacks
  /\ Done
  /\ UNCHANGED <<where, batch, listing, queues, seenDomains, turns, cancelledAt, misses>>

DiscoveryWork ==
  \/ EndRun \/ TakeSites \/ TakeDirectory \/ TakeQueries \/ ExpandArea
  \/ BeginTarget \/ DropBatch \/ Search \/ ReadDirectory \/ Listing \/ EndDirectory
  \/ Unreachable \/ FromCache \/ Crawl
DiscoveryNext == DiscoveryWork \/ Cancel

(* Every call of a run ends: searches, fetches and renders have timeouts. *)
DiscoverySpec == DiscoveryInit /\ [][DiscoveryNext]_discoveryVars /\ WF_discoveryVars(DiscoveryWork)

-----------------------------------------------------------------------------
DiscoveryTypeOK ==
  /\ at \in {"loop", "sites", "directory", "listings", "queries", "done"}
  /\ Len(hand) <= 1 /\ (at \in {"loop", "done"} => hand = <<>> /\ batch = <<>>)
  /\ (at = "listings" => hand # <<>>) /\ (at # "listings" => entries = <<>> /\ named = {})
  /\ \A i \in 1 .. Len(siteQueue) : siteQueue[i].site \in Site
  /\ emails \in 0 .. Len(found) /\ turns \in 0 .. MaxTurns
  /\ fallbacks \in 0 .. MaxFallbacks /\ misses \in 0 .. MaxMisses
  /\ seenDomains \subseteq Site /\ cancelledAt \in -1 .. Len(found)
  /\ \A s \in Site : Cardinality(cached[s]) <= 1

(* A run saves no more addresses than it was asked for, but for the rest of   *)
(* one batch of sites: the count is read between batches, not between sites.  *)
Overshoot == emails < Quantity + SiteBatch

(* No two leads of a run share an address, a domain, a phone or a name,       *)
(* although a site may be queued and crawled several times over: a directory  *)
(* gives back sites that no search has seen.                                  *)
FoundOnce ==
  \A i, j \in 1 .. Len(found) : i # j => found[i] \cap found[j] = {}

(* Once the job is cancelled, the run saves the target it has in hand and no  *)
(* other, however many entries a directory has, unless a read of the job's    *)
(* status failed.                                                             *)
CancelStops == cancelledAt # -1 /\ misses = 0 => Len(found) <= cancelledAt + 1

(* A run for a city, or for what is near a suburb, that gives up although it  *)
(* was not cancelled, found too little and turned less than MaxTurns times    *)
(* has planned the queries of every suburb of the city, none of them twice.   *)
(* It does not hold near a city itself, which has no neighbours in the code,  *)
(* nor near the suburbs whose few neighbours are listed.                      *)
SuburbsCovered ==
  /\ at = "done" /\ cancelledAt = -1 /\ emails < Quantity /\ turns < MaxTurns
  /\ \/ scope = "metro"
     \/ scope = "nearby" /\ Among(location, Suburbs) /\ location \notin DOMAIN Neighbours
  => \A i \in 1 .. Len(Suburbs) : Cardinality({j \in 1 .. Len(areas) : areas[j] = Suburbs[i]}) = 1

(* Every run ends: no target, query or location is taken twice, even when     *)
(* directories and sites keep turning up again.                               *)
DiscoveryEnds == <>(at = "done")
=============================================================================
