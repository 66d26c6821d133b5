--------------------------- MODULE RenderLimiter ---------------------------
(***************************************************************************)
(* The limits on rendering: render_limiter.py, which counts renders under  *)
(* keys in Redis, and browser_pool.py, whose fetch_page and crawl_domain   *)
(* ask it for a page of the job's budget and for a lease before they open  *)
(* a page.  A lease takes one place under each of a chain of keys: all     *)
(* renders, those of the domain, those of the user.  Every call of Redis   *)
(* is a step of its own.  A call that times out or is refused may have     *)
(* been carried out or not; the process then turns to a table of its own,  *)
(* `own`.  RQ runs each job in a process of its own and a job renders one  *)
(* page at a time, so a render and its process are one here.               *)
(*                                                                         *)
(* Left out: what a page contains, and the restart of the browser after    *)
(* forty domains, which no limit depends on.                               *)
(***************************************************************************)
EXTENDS Integers, Sequences, FiniteSets

CONSTANTS
  Render,        \* the processes that render
  Place,         \* the keys of the semaphores
  Budget,        \* the keys of the page budgets
  Lease,         \* Lease[r]: the places a lease of r takes, in order
  Pages,         \* Pages[r]: its budgets, <<>> for a crawl outside a job
  Limit,         \* Limit[k]: the limit config.py gives for the key
  MaxExtraPages, \* links a crawl follows after the homepage: 2 in the code
  MaxRenderFaults \* bound: failed calls of Redis and killed processes

ASSUME ChainAssumption ==
  /\ IsFiniteSet(Render) /\ Place \cap Budget = {}
  /\ Lease \in [Render -> Seq(Place)] /\ Pages \in [Render -> Seq(Budget)]
  /\ \A r \in Render : /\ Len(Lease[r]) > 0
                       /\ \A i, j \in 1 .. Len(Lease[r]) : Lease[r][i] = Lease[r][j] => i = j
                       /\ Len(Pages[r]) \in {0, 2}
ASSUME LimitAssumption == Limit \in [Place \cup Budget -> Nat \ {0}]
ASSUME RenderBoundsAssumption == MaxExtraPages \in Nat /\ MaxRenderFaults \in Nat

VARIABLES
  places,  \* places[k]: the counter in Redis, 0 when there is none
  own,     \* own[r][k]: _local_counts of the process
  stage,   \* what r is doing
  paid,    \* keys of Pages[r] it has in the present can_render_page
  have,    \* keys of Lease[r] it has: the length of acquired_keys
  again,   \* keys of Lease[r] it has still to release a second time
  over,    \* whether its INCR went over the limit, so that it must DECR
  wipe,    \* the key it must DELETE, its DECR having returned 0 or less
  extra,   \* links followed in the present crawl
  spoiled, \* history: keys whose counter has lost a place that was in use
  renderFaults \* history: failed calls of Redis and killed processes

renderVars == <<places, own, stage, paid, have, again, over, wipe, extra,
                spoiled, renderFaults>>

Key == Place \cup Budget

RenderInit ==
  /\ places = [k \in Key |-> 0]
  /\ own = [r \in Render |-> [k \in Key |-> 0]]
  /\ stage = [r \in Render |-> "idle"]
  /\ paid = [r \in Render |-> 0] /\ have = [r \in Render |-> 0]
  /\ again = [r \in Render |-> 0] /\ extra = [r \in Render |-> 0]
  /\ over = [r \in Render |-> FALSE] /\ wipe = [r \in Render |-> {}]
  /\ spoiled = {} /\ renderFaults = 0

(* The renders whose INCR of place k has not been taken back. *)
Holds(r, k) == \E i \in 1 .. have[r] : Lease[r][i] = k
Trying(r, k) == stage[r] = "take" /\ over[r] /\ Lease[r][have[r] + 1] = k
Claims(k) == {r \in Render : Holds(r, k) \/ Trying(r, k)}
Losing(k) == IF Claims(k) = {} THEN spoiled ELSE spoiled \cup {k}

-----------------------------------------------------------------------------
(* Taking places *)

Wanted(r) == IF stage[r] = "page" THEN Pages[r][paid[r] + 1] ELSE Lease[r][have[r] + 1]
Asking(r) == stage[r] \in {"page", "take"} /\ wipe[r] = {}

(* One more key; with the last one the caller goes on. *)
Admit(r) ==
  IF stage[r] = "page"
  THEN /\ paid' = [paid EXCEPT ![r] = @ + 1]
       /\ stage' = [stage EXCEPT ![r] = IF paid[r] + 1 < Len(Pages[r]) THEN "page"
                                        ELSE IF have[r] = 0 THEN "take" ELSE "hold"]
       /\ UNCHANGED <<have, again>>
  ELSE /\ have' = [have EXCEPT ![r] = @ + 1]
       /\ stage' = [stage EXCEPT ![r] = IF have[r] + 1 < Len(Lease[r]) THEN "take" ELSE "hold"]
       /\ UNCHANGED <<paid, again>>

NoPage(r) == IF have[r] = 0 THEN "idle" ELSE "free"

(* A refused page gives the job's place back.  A refused lease releases its   *)
(* keys before it yields, and its `finally` releases the same keys again.     *)
Refuse(r) ==
  /\ stage' = [stage EXCEPT ![r] = IF stage[r] = "page" /\ paid[r] > 0 THEN "refund" ELSE NoPage(r)]
  /\ again' = [again EXCEPT ![r] = IF stage[r] = "take" THEN have[r] ELSE 0]
  /\ UNCHANGED <<paid, have>>

Take_late(r) ==
  /\ Asking(r) /\ ~over[r]
  /\ LET k == Wanted(r) IN
     /\ places' = [places EXCEPT ![k] = @ + 1]
     /\ IF places[k] > Limit[k]
        THEN over' = [over EXCEPT ![r] = TRUE] /\ UNCHANGED <<stage, paid, have, again>>
        ELSE Admit(r) /\ UNCHANGED over
  /\ UNCHANGED <<own, wipe, extra, spoiled, renderFaults>>
(* INCR, and EXPIRE with it. *)
Take(r) ==
  /\ Asking(r) /\ ~over[r]
  /\ LET k == Wanted(r) IN
     /\ places' = [places EXCEPT ![k] = @ + 1]
     /\ IF places[k] + 1 > Limit[k]
        THEN over' = [over EXCEPT ![r] = TRUE] /\ UNCHANGED <<stage, paid, have, again>>
        ELSE Admit(r) /\ UNCHANGED over
  /\ UNCHANGED <<own, wipe, extra, spoiled, renderFaults>>

(* DECR after an INCR over the limit. *)
Undo(r) ==
  /\ Asking(r) /\ over[r]
  /\ places' = [places EXCEPT ![Wanted(r)] = @ - 1]
  /\ over' = [over EXCEPT ![r] = FALSE]
  /\ Refuse(r)
  /\ UNCHANGED <<own, wipe, extra, spoiled, renderFaults>>

(* INCR or DECR fails, and the process's own table decides: after a failed    *)
(* DECR a render is admitted although the counter was over the limit.         *)
TakeOwn(r) ==
  /\ Asking(r) /\ renderFaults < MaxRenderFaults
  /\ LET k == Wanted(r) IN
     /\ \E change \in {0, IF over[r] THEN -1 ELSE 1} :
          places' = [places EXCEPT ![k] = @ + change]
     /\ spoiled' = spoiled \cup {k}
     /\ IF own[r][k] < Limit[k]
        THEN Admit(r) /\ own' = [own EXCEPT ![r][k] = @ + 1]
        ELSE Refuse(r) /\ UNCHANGED own
  /\ over' = [over EXCEPT ![r] = FALSE]
  /\ renderFaults' = renderFaults + 1
  /\ UNCHANGED <<wipe, extra>>

-----------------------------------------------------------------------------
(* Giving them back: DECR and, when it returns 0 or less, DELETE *)

Decrement(r, k) ==
  /\ places' = [places EXCEPT ![k] = @ - 1]
  /\ wipe' = [wipe EXCEPT ![r] = IF places[k] - 1 <= 0 THEN {k} ELSE {}]
  /\ UNCHANGED <<own, renderFaults>>

Lower(r, k) == own' = [own EXCEPT ![r][k] = IF @ <= 1 THEN 0 ELSE @ - 1]

(* The call fails, carried out or not. *)
DecrementFails(r, k) ==
  /\ renderFaults < MaxRenderFaults
  /\ \E change \in {0, -1} : places' = [places EXCEPT ![k] = @ + change]
  /\ Lower(r, k)
  /\ renderFaults' = renderFaults + 1
  /\ UNCHANGED wipe

GiveBack(r, k) == Decrement(r, k) \/ DecrementFails(r, k)

Refund(r) ==
  /\ stage[r] = "refund" /\ wipe[r] = {}
  /\ GiveBack(r, Pages[r][1])
  /\ stage' = [stage EXCEPT ![r] = NoPage(r)]
  /\ UNCHANGED <<paid, have, again, over, extra, spoiled>>

Freed(r) == [stage EXCEPT ![r] = IF have[r] + again[r] = 1 THEN "idle" ELSE "free"]

(* _release_many, last key first. *)
Release(r) ==
  /\ stage[r] = "free" /\ wipe[r] = {} /\ have[r] > 0
  /\ GiveBack(r, Lease[r][have[r]])
  /\ have' = [have EXCEPT ![r] = @ - 1]
  /\ stage' = Freed(r)
  /\ UNCHANGED <<paid, again, over, extra, spoiled>>

(* The `finally` after a refusal, whose keys are others' places by now. *)
ReleaseAgain(r) ==
  /\ stage[r] = "free" /\ wipe[r] = {} /\ have[r] = 0 /\ again[r] > 0
  /\ GiveBack(r, Lease[r][again[r]])
  /\ again' = [again EXCEPT ![r] = @ - 1]
  /\ spoiled' = spoiled \cup {Lease[r][again[r]]}
  /\ stage' = Freed(r)
  /\ UNCHANGED <<paid, have, over, extra>>

Wipe(r) ==
  /\ \E k \in wipe[r] :
       /\ places' = [places EXCEPT ![k] = 0]
       /\ spoiled' = Losing(k)
  /\ wipe' = [wipe EXCEPT ![r] = {}]
  /\ UNCHANGED <<own, stage, paid, have, again, over, extra, renderFaults>>

WipeFails(r) ==
  /\ renderFaults < MaxRenderFaults
  /\ \E k \in wipe[r] :
       \/ Lower(r, k) /\ UNCHANGED <<places, spoiled>>
       \/ Lower(r, k) /\ places' = [places EXCEPT ![k] = 0] /\ spoiled' = Losing(k)
  /\ wipe' = [wipe EXCEPT ![r] = {}]
  /\ renderFaults' = renderFaults + 1
  /\ UNCHANGED <<stage, paid, have, again, over, extra>>

-----------------------------------------------------------------------------
(* The crawl *)

Begin(r) ==
  /\ stage[r] = "idle" /\ wipe[r] = {}
  /\ stage' = [stage EXCEPT ![r] = IF Len(Pages[r]) = 0 THEN "take" ELSE "page"]
  /\ paid' = [paid EXCEPT ![r] = 0] /\ extra' = [extra EXCEPT ![r] = 0]
  /\ UNCHANGED <<places, own, have, again, over, wipe, spoiled, renderFaults>>

NextPage_unbounded(r) ==
  /\ stage[r] = "hold" /\ Len(Pages[r]) > 0
  /\ stage' = [stage EXCEPT ![r] = "page"]
  /\ paid' = [paid EXCEPT ![r] = 0] /\ extra' = [extra EXCEPT ![r] = @ + 1]
  /\ UNCHANGED <<places, own, have, again, over, wipe, spoiled, renderFaults>>
(* The next link of crawl_domain; outside a job no budget is asked. *)
NextPage(r) ==
  /\ stage[r] = "hold" /\ Len(Pages[r]) > 0 /\ extra[r] < MaxExtraPages
  /\ stage' = [stage EXCEPT ![r] = "page"]
  /\ paid' = [paid EXCEPT ![r] = 0] /\ extra' = [extra EXCEPT ![r] = @ + 1]
  /\ UNCHANGED <<places, own, have, again, over, wipe, spoiled, renderFaults>>

(* The pages are read, or something was raised: the lease ends either way. *)
Finish(r) ==
  /\ stage[r] = "hold"
  /\ stage' = [stage EXCEPT ![r] = "free"]
  /\ UNCHANGED <<places, own, paid, have, again, over, wipe, extra, spoiled, renderFaults>>

(* The process is killed; what it counted in Redis stays until it expires. *)
Kill(r) ==
  /\ renderFaults < MaxRenderFaults /\ (stage[r] # "idle" \/ wipe[r] # {})
  /\ stage' = [stage EXCEPT ![r] = "idle"]
  /\ own' = [own EXCEPT ![r] = [k \in Key |-> 0]]
  /\ paid' = [paid EXCEPT ![r] = 0] /\ have' = [have EXCEPT ![r] = 0]
  /\ again' = [again EXCEPT ![r] = 0] /\ over' = [over EXCEPT ![r] = FALSE]
  /\ wipe' = [wipe EXCEPT ![r] = {}] /\ extra' = [extra EXCEPT ![r] = 0]
  /\ renderFaults' = renderFaults + 1
  /\ UNCHANGED <<places, spoiled>>

(* The TTL of a counter runs out: twice the time a render may take, and 60    *)
(* seconds at least, after the last attempt on the key, whoever holds it.     *)
Expire(k) ==
  /\ places[k] # 0
  /\ places' = [places EXCEPT ![k] = 0]
  /\ spoiled' = Losing(k)
  /\ UNCHANGED <<own, stage, paid, have, again, over, wipe, extra, renderFaults>>

RenderStep(r) ==
  \/ Begin(r) \/ Take(r) \/ Undo(r) \/ TakeOwn(r) \/ Refund(r)
  \/ NextPage(r) \/ Finish(r) \/ Release(r) \/ ReleaseAgain(r) \/ Wipe(r) \/ WipeFails(r) \/ Kill(r)

RenderNext ==
  \/ \E r \in Render : RenderStep(r)
  \/ \E k \in Key : Expire(k)

RenderSpec == RenderInit /\ [][RenderNext]_renderVars

-----------------------------------------------------------------------------
RenderTypeOK ==
  /\ places \in [Key -> Int]
  /\ own \in [Render -> [Key -> Nat]]
  /\ stage \in [Render -> {"idle", "page", "refund", "take", "hold", "free"}]
  /\ paid \in [Render -> 0 .. 2] /\ extra \in [Render -> 0 .. MaxExtraPages]
  /\ have \in [Render -> Nat] /\ again \in [Render -> Nat]
  /\ \A r \in Render : /\ have[r] <= Len(Lease[r]) /\ again[r] <= Len(Lease[r])
                       /\ stage[r] = "take" => have[r] < Len(Lease[r])
                       /\ stage[r] = "page" => paid[r] < Len(Pages[r])
  /\ over \in [Render -> BOOLEAN] /\ wipe \in [Render -> SUBSET Key]
  /\ spoiled \subseteq Key /\ renderFaults \in 0 .. MaxRenderFaults

(* No more renders hold a place than its limit allows, however their calls of *)
(* Redis interleave and whichever of them are killed, until its counter has   *)
(* lost a place in use: to the second release of a refused lease, to a DELETE *)
(* or an expiry under a holder, or to a call of Redis that failed.            *)
Rendering(r) == have[r] = Len(Lease[r])
LimitHolds ==
  \A k \in Place \ spoiled :
    Cardinality({r \in Render : Rendering(r) /\ Holds(r, k)}) <= Limit[k]

(* Unless a call failed or a process was killed, a counter never stands for a *)
(* place nobody has: every refused or finished lease gives back all it took,  *)
(* and a counter does not stay up and shut renders out.                       *)
PlacesReturned ==
  renderFaults = 0 => \A k \in Place : places[k] <= Cardinality(Claims(k))

(* The counters of Redis stand for the renders there are: no fewer than the *)
(* limit must stop, no more than have taken a place.                          *)
RendersCounted == LimitHolds /\ PlacesReturned
=============================================================================
