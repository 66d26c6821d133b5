---------------------------- MODULE PartsProofs ----------------------------
(***************************************************************************)
(* What holds of the semaphores for any number of processes, any chains of *)
(* keys, any limits and any number of faults; of one discovery run for any *)
(* sites, directories, queries and locations, whatever their pages show;   *)
(* of the chat that launches jobs, for any number of commands and          *)
(* sessions; and of one job of the agent, for any number of requests to    *)
(* cancel and to sweep it; for any bounds.  At the end, the types of the   *)
(* composition of MCParts.                                                 *)
(***************************************************************************)
EXTENDS MCParts, SequenceTheorems, FiniteSetTheorems, WellFoundedInduction, TLAPS

-----------------------------------------------------------------------------
(***************************************************************************)
(* The semaphores                                                          *)
(***************************************************************************)

(* Type correctness                                                        *)

(* Where a process stands tells what it has: none when it is idle, and it has *)
(* an INCR to take back only while it asks.                                   *)
Steady ==
  \A r \in Render : /\ stage[r] = "idle" => have[r] = 0
                    /\ over[r] => stage[r] \in {"page", "take"}
                    /\ stage[r] = "refund" => Len(Pages[r]) = 2
RenderInv == RenderTypeOK /\ Steady

(* The keys of a chain are places, each of them once, and those of a budget   *)
(* are no places.                                                             *)
LEMMA ChainOf ==
    ASSUME NEW r \in Render
    PROVE  /\ Len(Lease[r]) \in Nat \ {0} /\ Len(Pages[r]) \in Nat
           /\ Len(Pages[r]) = 0 \/ Len(Pages[r]) = 2
           /\ \A i \in 1 .. Len(Lease[r]) : Lease[r][i] \in Place
           /\ \A i, j \in 1 .. Len(Lease[r]) : Lease[r][i] = Lease[r][j] => i = j
           /\ \A i \in 1 .. Len(Pages[r]) : Pages[r][i] \in Budget
BY ChainAssumption

LEMMA Lengths ==
    \A r \in Render : /\ Len(Lease[r]) \in Nat /\ Len(Lease[r]) > 0
                      /\ Len(Pages[r]) = 0 \/ Len(Pages[r]) = 2
BY ChainOf

(* Whoever asks wants a key.                                                  *)
LEMMA WantedIsKey ==
    ASSUME RenderInv, NEW r \in Render, Asking(r)
    PROVE  /\ Wanted(r) \in Key
           /\ stage[r] = "take" => Wanted(r) \in Place /\ Wanted(r) = Lease[r][have[r] + 1]
           /\ stage[r] = "page" => Wanted(r) \in Budget
<1>1. CASE stage[r] = "take"
  <2>1. have[r] + 1 \in 1 .. Len(Lease[r])
    BY <1>1, ChainOf DEF RenderInv, RenderTypeOK
  <2> QED
    BY <1>1, <2>1, ChainOf DEF Wanted, Key
<1>2. CASE stage[r] = "page"
  <2>1. paid[r] \in 0 .. 2 /\ paid[r] < Len(Pages[r])
    BY <1>2 DEF RenderInv, RenderTypeOK
  <2>2. paid[r] + 1 \in 1 .. Len(Pages[r])
    BY <2>1, ChainOf
  <2> QED
    BY <1>2, <2>2, ChainOf DEF Wanted, Key
<1> QED
  BY <1>1, <1>2 DEF Asking

(* No render is under way at first.                                           *)
LEMMA InitTypes == RenderInit => RenderInv
<1> SUFFICES ASSUME RenderInit PROVE RenderInv
  OBVIOUS
<1>1. over \in [Render -> BOOLEAN] /\ \A r \in Render : ~over[r]
  BY Zenon DEF RenderInit
<1>2. Steady
  BY <1>1 DEF RenderInit, Steady
<1> QED
  BY <1>1, <1>2, ChainOf, RenderBoundsAssumption DEF RenderInit, RenderInv, RenderTypeOK

(* What a process has when it took one key more, and when it was refused.     *)
Progress(r) ==
  /\ stage' \in [Render -> {"idle", "page", "refund", "take", "hold", "free"}]
  /\ paid' \in [Render -> 0 .. 2] /\ have' \in [Render -> Nat] /\ again' \in [Render -> Nat]
  /\ \A q \in Render : /\ have'[q] <= Len(Lease[q]) /\ again'[q] <= Len(Lease[q])
                       /\ stage'[q] = "take" => have'[q] < Len(Lease[q])
                       /\ stage'[q] = "page" => paid'[q] < Len(Pages[q])
                       /\ stage'[q] = "idle" => have'[q] = 0
                       /\ stage'[q] = "refund" => Len(Pages[q]) = 2
                       /\ q # r => stage'[q] = stage[q]

LEMMA PageLeft ==
    ASSUME NEW r \in Render, NEW p \in 0 .. 2, p < Len(Pages[r])
    PROVE  p + 1 \in 0 .. 2 /\ Len(Pages[r]) = 2
<1>1. Len(Pages[r]) = 2
  BY Lengths
<1> QED
  BY <1>1

LEMMA AdmitTypes ==
    ASSUME RenderInv, NEW r \in Render, Asking(r), Admit(r)
    PROVE  Progress(r) /\ stage'[r] \in {"page", "take", "hold"}
<1> USE DEF RenderInv, Steady, RenderTypeOK, Asking
<1>1. CASE stage[r] = "page"
  <2>1. paid[r] \in 0 .. 2 /\ paid[r] < Len(Pages[r])
    BY <1>1
  <2>2. paid[r] + 1 \in 0 .. 2 /\ (have[r] = 0 => have[r] < Len(Lease[r]))
    BY <2>1, PageLeft, Lengths
  <2>3. /\ paid' = [paid EXCEPT ![r] = paid[r] + 1]
        /\ stage' = [stage EXCEPT ![r] = IF paid[r] + 1 < Len(Pages[r]) THEN "page"
                                         ELSE IF have[r] = 0 THEN "take" ELSE "hold"]
        /\ have' = have /\ again' = again
    BY <1>1 DEF Admit
  <2> QED
    BY <2>2, <2>3 DEF Progress
<1>2. CASE stage[r] = "take"
  <2>1. have[r] \in Nat /\ have[r] < Len(Lease[r])
    BY <1>2
  <2>2. have[r] + 1 \in Nat /\ have[r] + 1 <= Len(Lease[r])
    BY <2>1, Lengths
  <2>3. /\ have' = [have EXCEPT ![r] = have[r] + 1]
        /\ stage' = [stage EXCEPT ![r] = IF have[r] + 1 < Len(Lease[r]) THEN "take" ELSE "hold"]
        /\ paid' = paid /\ again' = again
    BY <1>2 DEF Admit
  <2> QED
    BY <2>2, <2>3 DEF Progress
<1> QED
  BY <1>1, <1>2

LEMMA RefuseTypes ==
    ASSUME RenderInv, NEW r \in Render, Asking(r), Refuse(r)
    PROVE  Progress(r)
<1> USE DEF RenderInv, Steady, RenderTypeOK, Asking
<1>1. paid' = paid /\ have' = have
  BY DEF Refuse
<1>2. again' \in [Render -> Nat] /\ \A q \in Render : again'[q] <= Len(Lease[q])
  BY Lengths DEF Refuse
<1>3. /\ stage' \in [Render -> {"idle", "page", "refund", "take", "hold", "free"}]
      /\ \A q \in Render \ {r} : stage'[q] = stage[q]
      /\ stage'[r] = IF stage[r] = "page" /\ paid[r] > 0 THEN "refund" ELSE NoPage(r)
  BY DEF Refuse, NoPage
<1>4. stage[r] = "page" => Len(Pages[r]) = 2
  BY PageLeft
<1>5. stage'[r] = "idle" => have[r] = 0
  BY <1>3 DEF NoPage
<1>6. stage'[r] = "refund" => Len(Pages[r]) = 2
  BY <1>3, <1>4 DEF NoPage
<1>7. stage'[r] # "take" /\ stage'[r] # "page"
  BY <1>3 DEF NoPage
<1> QED
  BY <1>1, <1>2, <1>3, <1>5, <1>6, <1>7 DEF Progress

(* The steps that ask.                                                        *)
LEMMA TakePlaceTypes ==
    ASSUME RenderInv, NEW r \in Render, Take(r)
    PROVE  RenderInv'
<1> DEFINE k == Wanted(r)
<1>1. k \in Key
  BY WantedIsKey DEF Take
<1>2. places' \in [Key -> Int]
  BY <1>1 DEF Take, RenderInv, RenderTypeOK
<1>3. own' = own /\ wipe' = wipe /\ extra' = extra /\ spoiled' = spoiled /\ renderFaults' = renderFaults
  BY DEF Take
<1>4. CASE places[k] + 1 > Limit[k]
  <2>1. /\ over' = [over EXCEPT ![r] = TRUE] /\ stage' = stage /\ paid' = paid
        /\ have' = have /\ again' = again
    BY <1>4 DEF Take
  <2>2. over' \in [Render -> BOOLEAN]
    BY <2>1, Zenon DEF RenderInv, RenderTypeOK
  <2>3. \A q \in Render : over'[q] => stage'[q] \in {"page", "take"}
    BY <2>1 DEF Take, Asking, RenderInv, RenderTypeOK, Steady
  <2> QED
    BY <1>2, <1>3, <2>1, <2>2, <2>3 DEF RenderInv, RenderTypeOK, Steady
<1>5. CASE ~(places[k] + 1 > Limit[k])
  <2>1. Admit(r) /\ over' = over /\ ~over[r]
    BY <1>5 DEF Take
  <2>2. Progress(r)
    BY <2>1, AdmitTypes DEF Take
  <2>3. \A q \in Render : over'[q] => stage'[q] \in {"page", "take"}
    BY <2>1, <2>2 DEF Progress, RenderInv, Steady
  <2> QED
    BY <1>2, <1>3, <2>1, <2>2, <2>3 DEF Progress, RenderInv, RenderTypeOK, Steady
<1> QED
  BY <1>4, <1>5

LEMMA UndoTypes ==
    ASSUME RenderInv, NEW r \in Render, Undo(r)
    PROVE  RenderInv'
<1>1. places' \in [Key -> Int]
  BY WantedIsKey DEF Undo, RenderInv, RenderTypeOK
<1>2. own' = own /\ wipe' = wipe /\ extra' = extra /\ spoiled' = spoiled /\ renderFaults' = renderFaults
  BY DEF Undo
<1>3. Progress(r)
  BY RefuseTypes DEF Undo
<1>4. over' = [over EXCEPT ![r] = FALSE]
  BY DEF Undo
<1>5. over' \in [Render -> BOOLEAN]
  BY <1>4, Zenon DEF RenderInv, RenderTypeOK
<1>6. \A q \in Render : over'[q] => stage'[q] \in {"page", "take"}
  BY <1>3, <1>4 DEF Progress, RenderInv, RenderTypeOK, Steady
<1> QED
  BY <1>1, <1>2, <1>3, <1>5, <1>6 DEF Progress, RenderInv, RenderTypeOK, Steady

LEMMA TakeOwnTypes ==
    ASSUME RenderInv, NEW r \in Render, TakeOwn(r)
    PROVE  RenderInv'
<1> DEFINE k == Wanted(r)
<1>1. k \in Key
  BY WantedIsKey DEF TakeOwn
<1>2. places' \in [Key -> Int] /\ spoiled' \subseteq Key
  <2>1. PICK change \in {0, IF over[r] THEN -1 ELSE 1} : places' = [places EXCEPT ![k] = @ + change]
    BY DEF TakeOwn
  <2>2. change \in Int
    OBVIOUS
  <2> QED
    BY <1>1, <2>1, <2>2 DEF TakeOwn, RenderInv, RenderTypeOK
<1>3. Progress(r) /\ own' \in [Render -> [Key -> Nat]]
  <2>1. CASE own[r][k] < Limit[k]
    <3>1. Admit(r) /\ own' = [own EXCEPT ![r][k] = @ + 1]
      BY <2>1 DEF TakeOwn
    <3> QED
      BY <1>1, <3>1, AdmitTypes DEF TakeOwn, RenderInv, RenderTypeOK
  <2>2. CASE ~(own[r][k] < Limit[k])
    <3>1. Refuse(r) /\ own' = own
      BY <2>2 DEF TakeOwn
    <3> QED
      BY <3>1, RefuseTypes DEF TakeOwn, RenderInv, RenderTypeOK
  <2> QED
    BY <2>1, <2>2
<1>4. over' = [over EXCEPT ![r] = FALSE]
  BY DEF TakeOwn
<1>5. over' \in [Render -> BOOLEAN]
  BY <1>4, Zenon DEF RenderInv, RenderTypeOK
<1>6. \A q \in Render : over'[q] => stage'[q] \in {"page", "take"}
  BY <1>3, <1>4 DEF Progress, RenderInv, RenderTypeOK, Steady
<1>7. wipe' = wipe /\ extra' = extra /\ renderFaults' \in 0 .. MaxRenderFaults
  BY RenderBoundsAssumption DEF TakeOwn, RenderInv, RenderTypeOK
<1> QED
  BY <1>2, <1>3, <1>5, <1>6, <1>7 DEF Progress, RenderInv, RenderTypeOK, Steady

(* Giving a key back, whether or not the call of Redis fails.                 *)
LEMMA LowerTypes ==
    ASSUME RenderInv, NEW r \in Render, NEW k \in Key, Lower(r, k)
    PROVE  own' \in [Render -> [Key -> Nat]]
<1>1. own[r] \in [Key -> Nat] /\ own[r][k] \in Nat
  BY DEF RenderInv, RenderTypeOK
<1> QED
  BY <1>1 DEF Lower, RenderInv, RenderTypeOK

LEMMA GiveBackTypes ==
    ASSUME RenderInv, NEW r \in Render, NEW k \in Key, GiveBack(r, k)
    PROVE  /\ places' \in [Key -> Int] /\ own' \in [Render -> [Key -> Nat]]
           /\ wipe' \in [Render -> SUBSET Key] /\ renderFaults' \in 0 .. MaxRenderFaults
<1>1. CASE Decrement(r, k)
  BY <1>1 DEF Decrement, RenderInv, RenderTypeOK
<1>2. CASE DecrementFails(r, k)
  <2>1. PICK change \in {0, -1} : places' = [places EXCEPT ![k] = @ + change]
    BY <1>2 DEF DecrementFails
  <2>2. places' \in [Key -> Int]
    BY <2>1 DEF RenderInv, RenderTypeOK
  <2>3. wipe' = wipe /\ renderFaults' \in 0 .. MaxRenderFaults
    BY <1>2, RenderBoundsAssumption DEF DecrementFails, RenderInv, RenderTypeOK
  <2> QED
    BY <1>2, <2>2, <2>3, LowerTypes DEF DecrementFails, RenderInv, RenderTypeOK
<1> QED
  BY <1>1, <1>2 DEF GiveBack

LEMMA RefundTypes ==
    ASSUME RenderInv, NEW r \in Render, Refund(r)
    PROVE  RenderInv'
<1>1. Pages[r][1] \in Key
  BY ChainOf DEF Refund, RenderInv, Steady, Key
<1>2. GiveBack(r, Pages[r][1]) /\ over' = over
  BY DEF Refund
<1>3. Steady'
  BY <1>2 DEF Refund, NoPage, RenderInv, RenderTypeOK, Steady
<1> QED
  BY <1>1, <1>2, <1>3, GiveBackTypes DEF Refund, NoPage, RenderInv, RenderTypeOK

LEMMA ReleaseTypes ==
    ASSUME RenderInv, NEW r \in Render, Release(r)
    PROVE  RenderInv' /\ Lease[r][have[r]] \in Place
<1>1. have[r] \in 1 .. Len(Lease[r]) /\ again[r] \in Nat
  BY ChainOf DEF Release, RenderInv, RenderTypeOK
<1>2. Lease[r][have[r]] \in Place
  BY <1>1, ChainOf
<1>3. GiveBack(r, Lease[r][have[r]]) /\ over' = over /\ paid' = paid /\ extra' = extra
      /\ again' = again /\ spoiled' = spoiled
  BY DEF Release
<1>4. /\ have' = [have EXCEPT ![r] = have[r] - 1]
      /\ stage' = [stage EXCEPT ![r] = IF have[r] + again[r] = 1 THEN "idle" ELSE "free"]
  BY DEF Release, Freed
<1>5. /\ have' \in [Render -> Nat] /\ \A q \in Render : have'[q] <= Len(Lease[q])
      /\ \A q \in Render : stage'[q] = "take" => have'[q] < Len(Lease[q])
      /\ \A q \in Render : stage'[q] = "idle" => have'[q] = 0
  BY <1>1, <1>4, ChainOf DEF RenderInv, RenderTypeOK, Steady
<1>6. Steady'
  BY <1>3, <1>4, <1>5 DEF Release, RenderInv, RenderTypeOK, Steady
<1> QED
  BY <1>2, <1>3, <1>4, <1>5, <1>6, GiveBackTypes DEF RenderInv, RenderTypeOK, Key

LEMMA ReleaseAgainTypes ==
    ASSUME RenderInv, NEW r \in Render, ReleaseAgain(r)
    PROVE  RenderInv' /\ Lease[r][again[r]] \in Place
<1>1. again[r] \in 1 .. Len(Lease[r])
  BY ChainOf DEF ReleaseAgain, RenderInv, RenderTypeOK
<1>2. Lease[r][again[r]] \in Place
  BY <1>1, ChainOf
<1>3. GiveBack(r, Lease[r][again[r]]) /\ over' = over /\ paid' = paid /\ extra' = extra
      /\ have' = have /\ have[r] = 0 /\ spoiled' = spoiled \cup {Lease[r][again[r]]}
  BY DEF ReleaseAgain
<1>4. /\ again' = [again EXCEPT ![r] = again[r] - 1]
      /\ stage' = [stage EXCEPT ![r] = IF have[r] + again[r] = 1 THEN "idle" ELSE "free"]
  BY DEF ReleaseAgain, Freed
<1>5. again' \in [Render -> Nat] /\ \A q \in Render : again'[q] <= Len(Lease[q])
  BY <1>1, <1>4, ChainOf DEF RenderInv, RenderTypeOK
<1>6. Steady'
  BY <1>3, <1>4 DEF ReleaseAgain, RenderInv, RenderTypeOK, Steady
<1> QED
  BY <1>2, <1>3, <1>4, <1>5, <1>6, GiveBackTypes DEF RenderInv, RenderTypeOK, Key

LEMMA WipeTypes ==
    ASSUME RenderInv, NEW r \in Render, Wipe(r) \/ WipeFails(r)
    PROVE  RenderInv'
<1>1. PICK k \in wipe[r] : \/ places' = [places EXCEPT ![k] = 0] /\ spoiled' = Losing(k)
                           \/ places' = places /\ spoiled' = spoiled
  BY DEF Wipe, WipeFails
<1>2. k \in Key
  BY DEF RenderInv, RenderTypeOK
<1>3. places' \in [Key -> Int] /\ spoiled' \subseteq Key
  BY <1>1, <1>2 DEF Losing, RenderInv, RenderTypeOK
<1>4. own' \in [Render -> [Key -> Nat]]
  <2>1. CASE WipeFails(r)
    <3>1. PICK j \in wipe[r] : Lower(r, j)
      BY <2>1 DEF WipeFails
    <3> QED
      BY <3>1, LowerTypes DEF RenderInv, RenderTypeOK
  <2>2. CASE Wipe(r)
    BY <2>2 DEF Wipe, RenderInv, RenderTypeOK
  <2> QED
    BY <2>1, <2>2
<1>5. wipe' = [wipe EXCEPT ![r] = {}]
  BY DEF Wipe, WipeFails
<1>6. wipe' \in [Render -> SUBSET Key]
  BY <1>5 DEF RenderInv, RenderTypeOK
<1>7. renderFaults' \in 0 .. MaxRenderFaults
  <2>1. CASE Wipe(r)
    BY <2>1 DEF Wipe, RenderInv, RenderTypeOK
  <2>2. CASE WipeFails(r)
    BY <2>2, RenderBoundsAssumption DEF WipeFails, RenderInv, RenderTypeOK
  <2> QED
    BY <2>1, <2>2
<1>8. /\ stage' = stage /\ paid' = paid /\ have' = have
      /\ again' = again /\ over' = over /\ extra' = extra
  BY DEF Wipe, WipeFails
<1> QED
  BY <1>3, <1>4, <1>6, <1>7, <1>8 DEF RenderInv, RenderTypeOK, Steady

LEMMA CrawlTypes ==
    ASSUME RenderInv, NEW r \in Render, Begin(r) \/ NextPage(r) \/ Finish(r)
    PROVE  RenderInv'
<1>1. /\ over' = over /\ places' = places /\ own' = own /\ wipe' = wipe /\ spoiled' = spoiled
      /\ have' = have /\ again' = again /\ renderFaults' = renderFaults
  BY DEF Begin, NextPage, Finish
<1>2. ~over[r]
  BY DEF Begin, NextPage, Finish, RenderInv, Steady
<1>3. /\ stage' \in [Render -> {"idle", "page", "refund", "take", "hold", "free"}]
      /\ paid' \in [Render -> 0 .. 2] /\ extra' \in [Render -> 0 .. MaxExtraPages]
  <2>1. CASE Begin(r)
    BY <2>1, RenderBoundsAssumption DEF Begin, RenderInv, RenderTypeOK
  <2>2. CASE NextPage(r)
    <3>1. extra[r] \in 0 .. MaxExtraPages /\ extra[r] < MaxExtraPages
      BY <2>2 DEF NextPage, RenderInv, RenderTypeOK
    <3>2. extra[r] + 1 \in 0 .. MaxExtraPages
      BY <3>1, RenderBoundsAssumption
    <3> QED
      BY <2>2, <3>2 DEF NextPage, RenderInv, RenderTypeOK
  <2>3. CASE Finish(r)
    BY <2>3 DEF Finish, RenderInv, RenderTypeOK
  <2> QED
    BY <2>1, <2>2, <2>3
<1>4. \A q \in Render : /\ stage'[q] = "take" => have'[q] < Len(Lease[q])
                        /\ stage'[q] = "page" => paid'[q] < Len(Pages[q])
  BY <1>1, <1>3, Lengths DEF Begin, NextPage, Finish, RenderInv, RenderTypeOK, Steady
<1>5. Steady'
  BY <1>1, <1>2, <1>3 DEF Begin, NextPage, Finish, RenderInv, RenderTypeOK, Steady
<1>6. /\ places' \in [Key -> Int] /\ own' \in [Render -> [Key -> Nat]]
      /\ have' \in [Render -> Nat] /\ again' \in [Render -> Nat]
      /\ \A q \in Render : have'[q] <= Len(Lease[q]) /\ again'[q] <= Len(Lease[q])
      /\ wipe' \in [Render -> SUBSET Key] /\ spoiled' \subseteq Key /\ renderFaults' \in 0 .. MaxRenderFaults
  BY <1>1 DEF RenderInv, RenderTypeOK
<1>7. over' \in [Render -> BOOLEAN]
  BY <1>1 DEF RenderInv, RenderTypeOK
<1>8. \A q \in Render : /\ have'[q] <= Len(Lease[q]) /\ again'[q] <= Len(Lease[q])
                        /\ stage'[q] = "take" => have'[q] < Len(Lease[q])
                        /\ stage'[q] = "page" => paid'[q] < Len(Pages[q])
  BY <1>4, <1>6
<1>9. RenderTypeOK'
  BY <1>3, <1>6, <1>7, <1>8, Zenon DEF RenderTypeOK
<1> QED
  BY <1>5, <1>9 DEF RenderInv

LEMMA KillTypes ==
    ASSUME RenderInv, NEW r \in Render, Kill(r)
    PROVE  RenderInv'
<1>1. over' = [over EXCEPT ![r] = FALSE]
  BY DEF Kill
<1>2. over' \in [Render -> BOOLEAN]
  BY <1>1, Zenon DEF RenderInv, RenderTypeOK
<1>3. Steady'
  BY <1>1 DEF Kill, RenderInv, RenderTypeOK, Steady
<1>4. renderFaults' \in 0 .. MaxRenderFaults
  BY RenderBoundsAssumption DEF Kill, RenderInv, RenderTypeOK
<1> QED
  BY <1>2, <1>3, <1>4, ChainOf, RenderBoundsAssumption DEF Kill, RenderInv, RenderTypeOK

LEMMA ExpireTypes ==
    ASSUME RenderInv, NEW k \in Key, Expire(k)
    PROVE  RenderInv'
BY DEF Expire, Losing, RenderInv, RenderTypeOK, Steady

(* Every step keeps the types.                                                *)
LEMMA TypesStep == RenderInv /\ [RenderNext]_renderVars => RenderInv'
<1> SUFFICES ASSUME RenderInv, [RenderNext]_renderVars PROVE RenderInv'
  OBVIOUS
<1>1. ASSUME NEW r \in Render, RenderStep(r) PROVE RenderInv'
  BY <1>1, TakePlaceTypes, UndoTypes, TakeOwnTypes, RefundTypes, ReleaseTypes, ReleaseAgainTypes,
     WipeTypes, CrawlTypes, KillTypes DEF RenderStep
<1>2. ASSUME NEW k \in Key, Expire(k) PROVE RenderInv'
  BY <1>2, ExpireTypes
<1>3. CASE UNCHANGED renderVars
  BY <1>3 DEF renderVars, RenderInv, RenderTypeOK, Steady
<1> QED
  BY <1>1, <1>2, <1>3 DEF RenderNext

(* The variables of render_limiter.py and browser_pool.py keep their types    *)
(* for any processes and chains: a counter of Redis is an integer that may be *)
(* negative, and no process has more keys than its chain.                     *)
THEOREM RenderTypesCorrect == RenderSpec => []RenderTypeOK
<1>1. RenderInit => RenderInv
  BY InitTypes
<1>2. RenderInv /\ [RenderNext]_renderVars => RenderInv'
  BY TypesStep
<1>3. RenderInv => RenderTypeOK
  BY DEF RenderInv
<1> QED
  BY <1>1, <1>2, <1>3, PTL DEF RenderSpec

-----------------------------------------------------------------------------
(* The renders counted                                                     *)

(* A counter that has lost no place in use stands for no fewer renders than   *)
(* there are with an INCR of it, so that those admitted are within the limit; *)
(* without a fault it stands for no more of them either.                      *)
Holders(k) == {r \in Render : Holds(r, k)}
CountedAt(k) ==
  /\ k \notin spoiled => /\ Cardinality(Claims(k)) <= places[k]
                         /\ Cardinality(Holders(k)) <= Limit[k]
  /\ renderFaults = 0 => places[k] <= Cardinality(Claims(k))
Counted == \A k \in Place : CountedAt(k)

(* The counts are of finite sets.                                             *)
LEMMA CountsAll ==
    ASSUME NEW k \in Place
    PROVE  /\ IsFiniteSet(Claims(k)) /\ Cardinality(Claims(k)) \in Nat
           /\ IsFiniteSet(Holders(k)) /\ Cardinality(Holders(k)) \in Nat
           /\ Cardinality(Holders(k)) <= Cardinality(Claims(k))
<1>1. IsFiniteSet(Render) /\ Claims(k) \in SUBSET Render
  BY ChainAssumption DEF Claims
<1>2. IsFiniteSet(Claims(k))
  BY <1>1, FS_Subset
<1>3. Holders(k) \in SUBSET Claims(k)
  BY DEF Claims, Holders
<1>4. IsFiniteSet(Holders(k)) /\ Cardinality(Holders(k)) <= Cardinality(Claims(k))
  BY <1>2, <1>3, FS_Subset
<1> QED
  BY <1>2, <1>4, FS_CardinalityType

LEMMA CountsNext ==
    ASSUME NEW k \in Place
    PROVE  /\ IsFiniteSet(Claims(k)') /\ Cardinality(Claims(k)') \in Nat
           /\ IsFiniteSet(Holders(k)') /\ Cardinality(Holders(k)') \in Nat
<1>1. IsFiniteSet(Render) /\ Claims(k)' \in SUBSET Render /\ Holders(k)' \in SUBSET Render
  BY ChainAssumption DEF Claims, Holders
<1>2. IsFiniteSet(Claims(k)') /\ IsFiniteSet(Holders(k)')
  BY <1>1, FS_Subset
<1> QED
  BY <1>2, FS_CardinalityType

(* What one process does leaves the others' claims as they are.               *)
OnlyOf(r) == \A q \in Render \ {r} : have'[q] = have[q] /\ over'[q] = over[q] /\ stage'[q] = stage[q]

LEMMA OthersStay ==
    ASSUME NEW r \in Render, NEW k \in Place, OnlyOf(r)
    PROVE  \A q \in Render \ {r} : /\ (q \in Claims(k)') <=> (q \in Claims(k))
                                   /\ (q \in Holders(k)') <=> (q \in Holders(k))
<1> SUFFICES ASSUME NEW q \in Render \ {r}
             PROVE  /\ (q \in Claims(k)') <=> (q \in Claims(k))
                    /\ (q \in Holders(k)') <=> (q \in Holders(k))
  OBVIOUS
<1>1. have'[q] = have[q] /\ over'[q] = over[q] /\ stage'[q] = stage[q]
  BY DEF OnlyOf
<1>2. Holds(q, k)' <=> Holds(q, k)
  BY <1>1 DEF Holds
<1>3. Trying(q, k)' <=> Trying(q, k)
  BY <1>1 DEF Trying
<1> QED
  BY <1>2, <1>3 DEF Claims, Holders

(* Two sets that differ at most in r.                                         *)
LEMMA AllButOne ==
    ASSUME NEW R, NEW r, NEW C \in SUBSET R, NEW D \in SUBSET R,
           \A q \in R \ {r} : (q \in D) <=> (q \in C)
    PROVE  /\ ((r \in D) <=> (r \in C)) => D = C
           /\ r \in D /\ r \notin C => D = C \cup {r}
           /\ r \notin D /\ r \in C => D = C \ {r}
           /\ (r \in D => r \in C) => D \in SUBSET C
           /\ D \in SUBSET (C \cup {r})
OBVIOUS

LEMMA ClaimSets ==
    ASSUME NEW r \in Render, NEW k \in Place, OnlyOf(r)
    PROVE  /\ ((r \in Claims(k)') <=> (r \in Claims(k))) => Claims(k)' = Claims(k)
           /\ r \in Claims(k)' /\ r \notin Claims(k) => Claims(k)' = Claims(k) \cup {r}
           /\ r \notin Claims(k)' /\ r \in Claims(k) => Claims(k)' = Claims(k) \ {r}
           /\ (r \in Holders(k)' => r \in Holders(k)) => Holders(k)' \in SUBSET Holders(k)
           /\ Holders(k)' \in SUBSET (Holders(k) \cup {r})
<1>1. /\ Claims(k) \in SUBSET Render /\ Claims(k)' \in SUBSET Render
      /\ Holders(k) \in SUBSET Render /\ Holders(k)' \in SUBSET Render
  BY DEF Claims, Holders
<1>2. \A q \in Render \ {r} : (q \in Claims(k)') <=> (q \in Claims(k))
  BY OthersStay
<1>3. \A q \in Render \ {r} : (q \in Holders(k)') <=> (q \in Holders(k))
  BY OthersStay
<1>4. /\ ((r \in Claims(k)') <=> (r \in Claims(k))) => Claims(k)' = Claims(k)
      /\ r \in Claims(k)' /\ r \notin Claims(k) => Claims(k)' = Claims(k) \cup {r}
      /\ r \notin Claims(k)' /\ r \in Claims(k) => Claims(k)' = Claims(k) \ {r}
  BY <1>1, <1>2, AllButOne
<1>5. /\ (r \in Holders(k)' => r \in Holders(k)) => Holders(k)' \in SUBSET Holders(k)
      /\ Holders(k)' \in SUBSET (Holders(k) \cup {r})
  BY <1>1, <1>3, AllButOne
<1> QED
  BY <1>4, <1>5

(* A claim that stays, one that is new and one that is given up.              *)
LEMMA ClaimStays ==
    ASSUME NEW r \in Render, NEW k \in Place, OnlyOf(r),
           (r \in Claims(k)') <=> (r \in Claims(k)), r \in Holders(k)' => r \in Holders(k)
    PROVE  /\ Cardinality(Claims(k)') = Cardinality(Claims(k))
           /\ Cardinality(Holders(k)') <= Cardinality(Holders(k))
<1>1. Claims(k)' = Claims(k) /\ Holders(k)' \in SUBSET Holders(k)
  BY ClaimSets
<1> QED
  BY <1>1, CountsAll, FS_Subset

LEMMA ClaimNew ==
    ASSUME NEW r \in Render, NEW k \in Place, OnlyOf(r), r \in Claims(k)', r \notin Claims(k)
    PROVE  /\ Cardinality(Claims(k)') = Cardinality(Claims(k)) + 1
           /\ Cardinality(Holders(k)') <= Cardinality(Holders(k)) + 1
           /\ r \notin Holders(k)' => Cardinality(Holders(k)') <= Cardinality(Holders(k))
<1>1. Claims(k)' = Claims(k) \cup {r}
  BY ClaimSets
<1>2. Cardinality(Claims(k)') = Cardinality(Claims(k)) + 1
  BY <1>1, CountsAll, FS_AddElement
<1>3. Holders(k)' \in SUBSET (Holders(k) \cup {r})
  BY ClaimSets
<1>4. IsFiniteSet(Holders(k)) /\ Cardinality(Holders(k)) \in Nat
  BY CountsAll
<1>5. /\ IsFiniteSet(Holders(k) \cup {r}) /\ Cardinality(Holders(k) \cup {r}) \in Nat
      /\ Cardinality(Holders(k) \cup {r}) <= Cardinality(Holders(k)) + 1
  <2>1. IsFiniteSet(Holders(k) \cup {r})
    BY <1>4, FS_AddElement
  <2>2. Cardinality(Holders(k) \cup {r}) \in {Cardinality(Holders(k)), Cardinality(Holders(k)) + 1}
    BY <1>4, FS_AddElement
  <2> QED
    BY <1>4, <2>1, <2>2
<1>6. Cardinality(Holders(k)') <= Cardinality(Holders(k) \cup {r})
  BY <1>3, <1>5, FS_Subset
<1>7. r \notin Holders(k)' => Cardinality(Holders(k)') <= Cardinality(Holders(k))
  BY <1>4, ClaimSets, FS_Subset
<1> QED
  BY <1>2, <1>4, <1>5, <1>6, <1>7, CountsNext

LEMMA ClaimGone ==
    ASSUME NEW r \in Render, NEW k \in Place, OnlyOf(r), r \in Claims(k), r \notin Claims(k)'
    PROVE  /\ Cardinality(Claims(k)') = Cardinality(Claims(k)) - 1
           /\ Cardinality(Holders(k)') <= Cardinality(Holders(k))
<1>1. Claims(k)' = Claims(k) \ {r}
  BY ClaimSets
<1>2. r \notin Holders(k)'
  BY DEF Claims, Holders
<1>3. Holders(k)' \in SUBSET Holders(k)
  BY <1>2, ClaimSets
<1> QED
  BY <1>1, <1>3, CountsAll, FS_RemoveElement, FS_Subset

(* The same as counts: of a place that a step leaves to its claims, one that  *)
(* it gives up, and one that it takes.                                        *)
LEMMA StaysCounted ==
    ASSUME RenderInv, Counted, RenderInv', NEW r \in Render, NEW k \in Place, OnlyOf(r),
           (r \in Claims(k)') <=> (r \in Claims(k)), r \in Holders(k)' => r \in Holders(k),
           k \notin spoiled' => k \notin spoiled /\ places'[k] >= places[k],
           renderFaults' = 0 => renderFaults = 0 /\ places'[k] <= places[k]
    PROVE  CountedAt(k)'
<1>1. /\ Cardinality(Claims(k)') = Cardinality(Claims(k))
      /\ Cardinality(Holders(k)') <= Cardinality(Holders(k))
  BY ClaimStays
<1>2. places[k] \in Int /\ places'[k] \in Int /\ Limit[k] \in Nat
  BY LimitAssumption DEF RenderInv, RenderTypeOK, Key
<1>3. CountedAt(k)
  BY DEF Counted
<1> QED
  BY <1>1, <1>2, <1>3, CountsAll, CountsNext DEF CountedAt

LEMMA GoneCounted ==
    ASSUME RenderInv, Counted, RenderInv', NEW r \in Render, NEW k \in Place, OnlyOf(r),
           r \in Claims(k), r \notin Claims(k)',
           k \notin spoiled' => k \notin spoiled /\ places'[k] >= places[k] - 1,
           renderFaults' = 0 => renderFaults = 0 /\ places'[k] <= places[k] - 1
    PROVE  CountedAt(k)'
<1>1. /\ Cardinality(Claims(k)') = Cardinality(Claims(k)) - 1
      /\ Cardinality(Holders(k)') <= Cardinality(Holders(k))
  BY ClaimGone
<1>2. places[k] \in Int /\ places'[k] \in Int /\ Limit[k] \in Nat
  BY LimitAssumption DEF RenderInv, RenderTypeOK, Key
<1>3. CountedAt(k)
  BY DEF Counted
<1> QED
  BY <1>1, <1>2, <1>3, CountsAll, CountsNext DEF CountedAt

LEMMA NewCounted ==
    ASSUME RenderInv, Counted, RenderInv', NEW r \in Render, NEW k \in Place, OnlyOf(r),
           r \notin Claims(k), r \in Claims(k)',
           spoiled' = spoiled, renderFaults' = renderFaults, places'[k] = places[k] + 1,
           r \in Holders(k)' => places[k] + 1 <= Limit[k]
    PROVE  CountedAt(k)'
<1>1. /\ Cardinality(Claims(k)') = Cardinality(Claims(k)) + 1
      /\ Cardinality(Holders(k)') <= Cardinality(Holders(k)) + 1
      /\ r \notin Holders(k)' => Cardinality(Holders(k)') <= Cardinality(Holders(k))
  BY ClaimNew
<1>2. places[k] \in Int /\ places'[k] \in Int /\ Limit[k] \in Nat
  BY LimitAssumption DEF RenderInv, RenderTypeOK, Key
<1>3. CountedAt(k)
  BY DEF Counted
<1> QED
  BY <1>1, <1>2, <1>3, CountsAll, CountsNext DEF CountedAt

(* A counter that is deleted or expires is counted as lost if anyone has it.  *)
LEMMA WipedCounted ==
    ASSUME Counted, NEW k \in Place, NEW j \in Key, RenderInv,
           UNCHANGED <<stage, have, over>>, places' = [places EXCEPT ![j] = 0],
           spoiled' = Losing(j), renderFaults' = renderFaults \/ renderFaults' # 0
    PROVE  CountedAt(k)'
<1>1. Claims(k)' = Claims(k) /\ Holders(k)' = Holders(k)
  BY DEF Claims, Holders, Holds, Trying
<1>2. CountedAt(k) /\ k \in Key /\ places \in [Key -> Int]
  BY DEF Counted, Key, RenderInv, RenderTypeOK
<1>3. CASE k # j
  <2>1. places'[k] = places[k] /\ (k \notin spoiled' => k \notin spoiled)
    BY <1>2, <1>3 DEF Losing
  <2> QED
    BY <1>1, <1>2, <2>1 DEF CountedAt
<1>4. CASE k = j
  <2>1. places'[k] = 0 /\ (k \notin spoiled' => k \notin spoiled /\ Claims(k) = {})
    BY <1>2, <1>4 DEF Losing
  <2>2. Claims(k) = {} => Cardinality(Claims(k)) = 0
    BY FS_EmptySet
  <2> QED
    BY <1>1, <1>2, <2>1, <2>2, CountsAll DEF CountedAt
<1> QED
  BY <1>3, <1>4

(* A process that asks has no claim yet on the place it wants, and no INCR to *)
(* take back elsewhere.                                                       *)
LEMMA AskClaim ==
    ASSUME RenderInv, NEW r \in Render, NEW k \in Place, Asking(r)
    PROVE  /\ k # Wanted(r) => ~Trying(r, k)
           /\ k = Wanted(r) => /\ stage[r] = "take" /\ ~Holds(r, k)
                               /\ Trying(r, k) <=> over[r]
<1>1. CASE k # Wanted(r)
  BY <1>1 DEF Trying, Wanted
<1>2. CASE k = Wanted(r)
  <2>1. stage[r] = "take"
    BY <1>2, WantedIsKey, ChainAssumption DEF Asking
  <2>2. k = Lease[r][have[r] + 1]
    BY <1>2, <2>1 DEF Wanted
  <2>3. have[r] \in Nat /\ have[r] < Len(Lease[r])
    BY <2>1 DEF RenderInv, RenderTypeOK
  <2>4. \A i \in 1 .. have[r] : Lease[r][i] # k
    BY <2>2, <2>3, ChainOf
  <2>5. ~Holds(r, k)
    BY <2>4 DEF Holds
  <2>6. Trying(r, k) <=> over[r]
    BY <2>1, <2>2, Zenon DEF Trying
  <2> QED
    BY <1>2, <2>1, <2>5, <2>6
<1> QED
  BY <1>1, <1>2

LEMMA AdmitClaim ==
    ASSUME RenderInv, NEW r \in Render, NEW k \in Place, Asking(r), Admit(r), ~over'[r]
    PROVE  /\ ~Trying(r, k)'
           /\ Holds(r, k)' <=> (Holds(r, k) \/ k = Wanted(r))
           /\ \A q \in Render \ {r} : have'[q] = have[q] /\ stage'[q] = stage[q]
<1>1. ~Trying(r, k)'
  BY DEF Trying
<1>2. CASE stage[r] = "page"
  <2>1. have' = have /\ k # Wanted(r)
    BY <1>2, WantedIsKey, ChainAssumption DEF Admit
  <2>2. Holds(r, k)' <=> Holds(r, k)
    BY <2>1 DEF Holds
  <2>3. \A q \in Render \ {r} : stage'[q] = stage[q]
    BY <1>2 DEF Admit, RenderInv, RenderTypeOK
  <2> QED
    BY <1>1, <2>1, <2>2, <2>3
<1>3. CASE stage[r] = "take"
  <2>1. have' = [have EXCEPT ![r] = have[r] + 1]
    BY <1>3 DEF Admit
  <2>2. have[r] \in Nat /\ have'[r] = have[r] + 1
    BY <2>1 DEF RenderInv, RenderTypeOK
  <2>3. Wanted(r) = Lease[r][have[r] + 1]
    BY <1>3 DEF Wanted
  <2>4. Holds(r, k)' <=> \E i \in 1 .. have[r] + 1 : Lease[r][i] = k
    BY <2>2 DEF Holds
  <2>5. (\E i \in 1 .. have[r] + 1 : Lease[r][i] = k) <=> (Holds(r, k) \/ k = Wanted(r))
    BY <2>2, <2>3 DEF Holds
  <2>6. \A q \in Render \ {r} : have'[q] = have[q] /\ stage'[q] = stage[q]
    BY <1>3, <2>1 DEF Admit, RenderInv, RenderTypeOK
  <2> QED
    BY <1>1, <2>4, <2>5, <2>6
<1> QED
  BY <1>2, <1>3 DEF Asking

LEMMA RefuseClaim ==
    ASSUME RenderInv, NEW r \in Render, NEW k \in Place, Refuse(r), ~over'[r]
    PROVE  /\ ~Trying(r, k)'
           /\ Holds(r, k)' <=> Holds(r, k)
           /\ \A q \in Render \ {r} : have'[q] = have[q] /\ stage'[q] = stage[q]
BY DEF Trying, Holds, Refuse, RenderInv, RenderTypeOK

(* INCR counts the process that made it, and admits it within the limit only. *)
LEMMA TakeCounts ==
    ASSUME RenderInv, Counted, RenderInv', NEW r \in Render, NEW k \in Place, Take(r)
    PROVE  CountedAt(k)'
<1>1. Asking(r) /\ ~over[r] /\ Wanted(r) \in Key /\ spoiled' = spoiled /\ renderFaults' = renderFaults
  BY WantedIsKey DEF Take
<1>2. places' = [places EXCEPT ![Wanted(r)] = @ + 1]
  BY DEF Take
<1>3. /\ k # Wanted(r) => places'[k] = places[k]
      /\ k = Wanted(r) => places'[k] = places[k] + 1
      /\ places[k] \in Int
  BY <1>1, <1>2 DEF RenderInv, RenderTypeOK, Key
<1>4. /\ ~Trying(r, k)
      /\ k = Wanted(r) => stage[r] = "take" /\ ~Holds(r, k)
  BY <1>1, AskClaim
<1>5. CASE places[Wanted(r)] + 1 > Limit[Wanted(r)]
  <2>1. over' = [over EXCEPT ![r] = TRUE] /\ stage' = stage /\ have' = have
    BY <1>5 DEF Take
  <2>2. /\ \A q \in Render \ {r} : over'[q] = over[q]
        /\ over'[r]
    BY <2>1 DEF RenderInv, RenderTypeOK
  <2>3. OnlyOf(r)
    BY <2>1, <2>2 DEF OnlyOf
  <2>4. Holds(r, k)' <=> Holds(r, k)
    BY <2>1 DEF Holds
  <2>5. Trying(r, k)' <=> (k = Wanted(r))
    BY <1>4, <2>1, <2>2, WantedIsKey, <1>1 DEF Trying, Wanted
  <2>6. CASE k = Wanted(r)
    BY <1>1, <1>3, <1>4, <2>3, <2>4, <2>5, <2>6, NewCounted DEF Claims, Holders
  <2>7. CASE k # Wanted(r)
    BY <1>1, <1>3, <1>4, <2>3, <2>4, <2>5, <2>7, StaysCounted DEF Claims, Holders
  <2> QED
    BY <2>6, <2>7
<1>6. CASE ~(places[Wanted(r)] + 1 > Limit[Wanted(r)])
  <2>1. Admit(r) /\ over' = over
    BY <1>6 DEF Take
  <2>2. /\ ~Trying(r, k)'
        /\ Holds(r, k)' <=> (Holds(r, k) \/ k = Wanted(r))
        /\ \A q \in Render \ {r} : have'[q] = have[q] /\ stage'[q] = stage[q]
    BY <1>1, <2>1, AdmitClaim
  <2>3. OnlyOf(r)
    BY <2>1, <2>2 DEF OnlyOf
  <2>4. CASE k = Wanted(r)
    <3>1. places[k] + 1 <= Limit[k]
      BY <1>3, <1>6, <2>4, LimitAssumption
    <3> QED
      BY <1>1, <1>3, <1>4, <2>2, <2>3, <2>4, <3>1, NewCounted DEF Claims, Holders
  <2>5. CASE k # Wanted(r)
    BY <1>1, <1>3, <1>4, <2>2, <2>3, <2>5, StaysCounted DEF Claims, Holders
  <2> QED
    BY <2>4, <2>5
<1> QED
  BY <1>5, <1>6

(* DECR after an INCR over the limit takes that claim back.                   *)
LEMMA UndoCounts ==
    ASSUME RenderInv, Counted, RenderInv', NEW r \in Render, NEW k \in Place, Undo(r)
    PROVE  CountedAt(k)'
<1>1. Asking(r) /\ over[r] /\ Wanted(r) \in Key /\ spoiled' = spoiled /\ renderFaults' = renderFaults
  BY WantedIsKey DEF Undo
<1>2. places' = [places EXCEPT ![Wanted(r)] = @ - 1] /\ over' = [over EXCEPT ![r] = FALSE] /\ Refuse(r)
  BY DEF Undo
<1>3. /\ k # Wanted(r) => places'[k] = places[k]
      /\ k = Wanted(r) => places'[k] = places[k] - 1
      /\ places[k] \in Int
  BY <1>1, <1>2 DEF RenderInv, RenderTypeOK, Key
<1>4. ~over'[r] /\ \A q \in Render \ {r} : over'[q] = over[q]
  BY <1>2 DEF RenderInv, RenderTypeOK
<1>5. /\ ~Trying(r, k)' /\ (Holds(r, k)' <=> Holds(r, k))
      /\ \A q \in Render \ {r} : have'[q] = have[q] /\ stage'[q] = stage[q]
  BY <1>2, <1>4, RefuseClaim
<1>6. OnlyOf(r)
  BY <1>4, <1>5 DEF OnlyOf
<1>7. CASE k = Wanted(r)
  <2>1. Trying(r, k) /\ ~Holds(r, k)
    BY <1>1, <1>7, AskClaim
  <2> QED
    BY <1>1, <1>3, <1>5, <1>6, <1>7, <2>1, GoneCounted DEF Claims
<1>8. CASE k # Wanted(r)
  <2>1. ~Trying(r, k)
    BY <1>1, <1>8, AskClaim
  <2> QED
    BY <1>1, <1>3, <1>5, <1>6, <1>8, <2>1, StaysCounted DEF Claims, Holders
<1> QED
  BY <1>7, <1>8

(* A failed INCR or DECR counts as a place lost.                              *)
LEMMA TakeOwnCounts ==
    ASSUME RenderInv, Counted, RenderInv', NEW r \in Render, NEW k \in Place, TakeOwn(r)
    PROVE  CountedAt(k)'
<1>1. /\ Asking(r) /\ Wanted(r) \in Key /\ spoiled' = spoiled \cup {Wanted(r)}
      /\ over' = [over EXCEPT ![r] = FALSE] /\ renderFaults' # 0
  BY WantedIsKey DEF TakeOwn, RenderInv, RenderTypeOK
<1>2. CASE k = Wanted(r)
  BY <1>1, <1>2 DEF CountedAt
<1>3. CASE k # Wanted(r)
  <2>1. places'[k] = places[k] /\ places[k] \in Int
    BY <1>1, <1>3 DEF TakeOwn, RenderInv, RenderTypeOK, Key
  <2>2. ~over'[r] /\ \A q \in Render \ {r} : over'[q] = over[q]
    BY <1>1 DEF RenderInv, RenderTypeOK
  <2>3. Admit(r) \/ Refuse(r)
    BY DEF TakeOwn
  <2>4. /\ ~Trying(r, k)' /\ (Holds(r, k)' <=> Holds(r, k))
        /\ \A q \in Render \ {r} : have'[q] = have[q] /\ stage'[q] = stage[q]
    BY <1>1, <1>3, <2>2, <2>3, AdmitClaim, RefuseClaim
  <2>5. OnlyOf(r) /\ ~Trying(r, k)
    BY <1>1, <1>3, <2>2, <2>4, AskClaim DEF OnlyOf
  <2>6. k \notin spoiled' => k \notin spoiled /\ places'[k] >= places[k]
    BY <1>1, <2>1
  <2>7. ((r \in Claims(k)') <=> (r \in Claims(k))) /\ (r \in Holders(k)' => r \in Holders(k))
    BY <2>4, <2>5 DEF Claims, Holders
  <2> QED
    BY <1>1, <2>5, <2>6, <2>7, StaysCounted
<1> QED
  BY <1>2, <1>3

(* What giving a key back does to its counter and to the others.              *)
LEMMA GiveBackPlaces ==
    ASSUME RenderInv, NEW r \in Render, NEW j \in Key, GiveBack(r, j), NEW k \in Key
    PROVE  /\ k # j => places'[k] = places[k]
           /\ k = j => places'[k] >= places[k] - 1
           /\ k = j => places'[k] <= places[k]
           /\ renderFaults' = 0 => /\ renderFaults = 0
                                   /\ k = j => places'[k] <= places[k] - 1
<1>1. places \in [Key -> Int] /\ places[k] \in Int
  BY DEF RenderInv, RenderTypeOK
<1>2. CASE Decrement(r, j)
  <2>1. places' = [places EXCEPT ![j] = @ - 1] /\ renderFaults' = renderFaults
    BY <1>2 DEF Decrement
  <2> QED
    BY <1>1, <2>1
<1>3. CASE DecrementFails(r, j)
  <2>1. PICK change \in {0, -1} : places' = [places EXCEPT ![j] = @ + change]
    BY <1>3 DEF DecrementFails
  <2>2. renderFaults' # 0
    BY <1>3 DEF DecrementFails, RenderInv, RenderTypeOK
  <2>3. CASE change = 0
    BY <1>1, <2>1, <2>2, <2>3
  <2>4. CASE change = -1
    BY <1>1, <2>1, <2>2, <2>4
  <2> QED
    BY <2>3, <2>4
<1> QED
  BY <1>2, <1>3 DEF GiveBack

(* A page given back is no place of a lease.                                  *)
LEMMA RefundCounts ==
    ASSUME RenderInv, Counted, RenderInv', NEW r \in Render, NEW k \in Place, Refund(r)
    PROVE  CountedAt(k)'
<1>1. Pages[r][1] \in Budget
  BY ChainOf DEF Refund, RenderInv, Steady
<1>2. k # Pages[r][1] /\ Pages[r][1] \in Key /\ k \in Key
  BY <1>1, ChainAssumption DEF Key
<1>3. places'[k] = places[k] /\ places[k] \in Int /\ (renderFaults' = 0 => renderFaults = 0)
  <2>1. GiveBack(r, Pages[r][1])
    BY DEF Refund
  <2>2. places'[k] = places[k] /\ (renderFaults' = 0 => renderFaults = 0)
    BY <1>2, <2>1, GiveBackPlaces
  <2>3. places[k] \in Int
    BY <1>2 DEF RenderInv, RenderTypeOK
  <2> QED
    BY <2>2, <2>3
<1>4. have' = have /\ over' = over /\ spoiled' = spoiled /\ stage[r] = "refund"
  BY DEF Refund
<1>5. \A q \in Render \ {r} : stage'[q] = stage[q]
  BY DEF Refund, RenderInv, RenderTypeOK
<1>6. stage'[r] # "take"
  BY DEF Refund, NoPage, RenderInv, RenderTypeOK
<1>7. OnlyOf(r)
  BY <1>4, <1>5 DEF OnlyOf
<1>8. (Holds(r, k)' <=> Holds(r, k)) /\ ~Trying(r, k) /\ ~Trying(r, k)'
  BY <1>4, <1>6 DEF Holds, Trying
<1>9. ((r \in Claims(k)') <=> (r \in Claims(k))) /\ (r \in Holders(k)' => r \in Holders(k))
  BY <1>8 DEF Claims, Holders
<1> QED
  BY <1>3, <1>4, <1>7, <1>9, StaysCounted

(* A place given back is a claim given up.                                    *)
LEMMA ReleaseCounts ==
    ASSUME RenderInv, Counted, RenderInv', NEW r \in Render, NEW k \in Place, Release(r)
    PROVE  CountedAt(k)'
<1> DEFINE j == Lease[r][have[r]]
<1>1. have[r] \in 1 .. Len(Lease[r]) /\ j \in Key /\ k \in Key /\ GiveBack(r, j)
  <2>1. have[r] \in Nat /\ have[r] > 0 /\ have[r] <= Len(Lease[r]) /\ GiveBack(r, j)
    BY DEF Release, RenderInv, RenderTypeOK
  <2>2. j \in Place
    BY ReleaseTypes
  <2> QED
    BY <2>1, <2>2, Lengths DEF Key
<1>2. over' = over /\ spoiled' = spoiled /\ stage[r] = "free" /\ have' = [have EXCEPT ![r] = have[r] - 1]
  BY DEF Release
<1>3. have'[r] = have[r] - 1 /\ \A q \in Render \ {r} : have'[q] = have[q] /\ stage'[q] = stage[q]
  BY <1>2 DEF Release, Freed, RenderInv, RenderTypeOK
<1>4. stage'[r] # "take"
  BY DEF Release, Freed, RenderInv, RenderTypeOK
<1>5. OnlyOf(r)
  BY <1>2, <1>3 DEF OnlyOf
<1>6. ~Trying(r, k) /\ ~Trying(r, k)'
  BY <1>2, <1>4 DEF Trying
<1>7. Holds(r, k)' <=> \E i \in 1 .. have[r] - 1 : Lease[r][i] = k
  BY <1>3 DEF Holds
<1>8. places[k] \in Int
  BY <1>1 DEF RenderInv, RenderTypeOK
<1>9. CASE k = j
  <2>1. Holds(r, k)
    BY <1>1, <1>9 DEF Holds
  <2>2. ~Holds(r, k)'
    <3>1. \A i \in 1 .. have[r] - 1 : i \in 1 .. Len(Lease[r]) /\ i # have[r]
      BY <1>1, Lengths
    <3>2. \A i \in 1 .. have[r] - 1 : Lease[r][i] # k
      BY <1>1, <1>9, <3>1, ChainOf
    <3> QED
      BY <1>7, <3>2
  <2>3. r \in Claims(k) /\ r \notin Claims(k)'
    BY <1>6, <2>1, <2>2 DEF Claims
  <2>4. k \notin spoiled' => k \notin spoiled /\ places'[k] >= places[k] - 1
    BY <1>1, <1>2, <1>9, GiveBackPlaces
  <2>5. renderFaults' = 0 => renderFaults = 0 /\ places'[k] <= places[k] - 1
    BY <1>1, <1>9, GiveBackPlaces
  <2> QED
    BY <1>5, <2>3, <2>4, <2>5, GoneCounted
<1>10. CASE k # j
  <2>1. Holds(r, k)' <=> Holds(r, k)
    <3>1. Holds(r, k) <=> \E i \in 1 .. have[r] - 1 : Lease[r][i] = k
      BY <1>1, <1>10, Lengths DEF Holds
    <3> QED
      BY <1>7, <3>1
  <2>2. ((r \in Claims(k)') <=> (r \in Claims(k))) /\ (r \in Holders(k)' => r \in Holders(k))
    BY <1>6, <2>1 DEF Claims, Holders
  <2>3. places'[k] = places[k] /\ (renderFaults' = 0 => renderFaults = 0)
    BY <1>1, <1>10, GiveBackPlaces
  <2> QED
    BY <1>2, <1>5, <1>8, <2>2, <2>3, StaysCounted
<1> QED
  BY <1>9, <1>10

(* The second release of a refused lease is of a place it does not have.      *)
LEMMA ReleaseAgainCounts ==
    ASSUME RenderInv, Counted, RenderInv', NEW r \in Render, NEW k \in Place, ReleaseAgain(r)
    PROVE  CountedAt(k)'
<1> DEFINE j == Lease[r][again[r]]
<1>1. j \in Key /\ k \in Key /\ GiveBack(r, j) /\ spoiled' = spoiled \cup {j}
  BY ReleaseAgainTypes DEF ReleaseAgain, Key
<1>2. have' = have /\ over' = over /\ stage[r] = "free"
  BY DEF ReleaseAgain
<1>3. \A q \in Render \ {r} : stage'[q] = stage[q]
  BY DEF ReleaseAgain, Freed, RenderInv, RenderTypeOK
<1>4. stage'[r] # "take"
  BY DEF ReleaseAgain, Freed, RenderInv, RenderTypeOK
<1>5. OnlyOf(r)
  BY <1>2, <1>3 DEF OnlyOf
<1>6. (Holds(r, k)' <=> Holds(r, k)) /\ ~Trying(r, k) /\ ~Trying(r, k)'
  BY <1>2, <1>4 DEF Holds, Trying
<1>7. ((r \in Claims(k)') <=> (r \in Claims(k))) /\ (r \in Holders(k)' => r \in Holders(k))
  BY <1>6 DEF Claims, Holders
<1>8. places[k] \in Int
  BY <1>1 DEF RenderInv, RenderTypeOK
<1>9. k \notin spoiled' => k \notin spoiled /\ places'[k] >= places[k]
  BY <1>1, <1>8, GiveBackPlaces
<1>10. renderFaults' = 0 => renderFaults = 0 /\ places'[k] <= places[k]
  BY <1>1, <1>8, GiveBackPlaces
<1> QED
  BY <1>5, <1>7, <1>9, <1>10, StaysCounted

(* A DELETE, carried out or not.                                              *)
LEMMA WipeCounts ==
    ASSUME RenderInv, Counted, RenderInv', NEW r \in Render, NEW k \in Place, Wipe(r) \/ WipeFails(r)
    PROVE  CountedAt(k)'
<1>1. UNCHANGED <<stage, have, over>>
  BY DEF Wipe, WipeFails
<1>2. renderFaults' = renderFaults \/ renderFaults' # 0
  BY DEF Wipe, WipeFails, RenderInv, RenderTypeOK
<1>3. PICK j \in wipe[r] : \/ places' = [places EXCEPT ![j] = 0] /\ spoiled' = Losing(j)
                           \/ places' = places /\ spoiled' = spoiled
  BY DEF Wipe, WipeFails
<1>4. j \in Key
  BY DEF RenderInv, RenderTypeOK
<1>5. CASE places' = [places EXCEPT ![j] = 0] /\ spoiled' = Losing(j)
  BY <1>1, <1>2, <1>4, <1>5, WipedCounted
<1>6. CASE places' = places /\ spoiled' = spoiled
  <2>1. Claims(k)' = Claims(k) /\ Holders(k)' = Holders(k)
    BY <1>1 DEF Claims, Holders, Holds, Trying
  <2>2. CountedAt(k)
    BY DEF Counted
  <2> QED
    BY <1>2, <1>6, <2>1, <2>2 DEF CountedAt
<1> QED
  BY <1>3, <1>5, <1>6

LEMMA ExpireCounts ==
    ASSUME RenderInv, Counted, NEW j \in Key, NEW k \in Place, Expire(j)
    PROVE  CountedAt(k)'
BY WipedCounted DEF Expire

(* The steps of a crawl leave every claim alone.                              *)
LEMMA CrawlCounts ==
    ASSUME RenderInv, Counted, RenderInv', NEW r \in Render, NEW k \in Place,
           Begin(r) \/ NextPage(r) \/ Finish(r)
    PROVE  CountedAt(k)'
<1>1. /\ have' = have /\ over' = over /\ places' = places
      /\ spoiled' = spoiled /\ renderFaults' = renderFaults
  BY DEF Begin, NextPage, Finish
<1>2. ~over[r]
  BY DEF Begin, NextPage, Finish, RenderInv, Steady
<1>3. \A q \in Render \ {r} : stage'[q] = stage[q]
  BY DEF Begin, NextPage, Finish, RenderInv, RenderTypeOK
<1>4. OnlyOf(r) /\ places[k] \in Int
  BY <1>1, <1>3 DEF OnlyOf, RenderInv, RenderTypeOK, Key
<1>5. (Holds(r, k)' <=> Holds(r, k)) /\ ~Trying(r, k) /\ ~Trying(r, k)'
  BY <1>1, <1>2 DEF Holds, Trying
<1>6. ((r \in Claims(k)') <=> (r \in Claims(k))) /\ (r \in Holders(k)' => r \in Holders(k))
  BY <1>5 DEF Claims, Holders
<1> QED
  BY <1>1, <1>4, <1>6, StaysCounted

(* A killed process leaves its places counted, for nobody.                    *)
LEMMA KillCounts ==
    ASSUME RenderInv, Counted, RenderInv', NEW r \in Render, NEW k \in Place, Kill(r)
    PROVE  CountedAt(k)'
<1>1. places' = places /\ spoiled' = spoiled /\ renderFaults' # 0 /\ places[k] \in Int
  BY DEF Kill, RenderInv, RenderTypeOK, Key
<1>2. OnlyOf(r) /\ have'[r] = 0 /\ stage'[r] = "idle"
  BY DEF Kill, OnlyOf, RenderInv, RenderTypeOK
<1>3. ~Holds(r, k)' /\ ~Trying(r, k)'
  BY <1>2 DEF Holds, Trying
<1>4. r \notin Claims(k)' /\ r \notin Holders(k)'
  BY <1>3 DEF Claims, Holders
<1>5. CASE r \in Claims(k)
  BY <1>1, <1>2, <1>4, <1>5, GoneCounted
<1>6. CASE r \notin Claims(k)
  BY <1>1, <1>2, <1>4, <1>6, StaysCounted
<1> QED
  BY <1>5, <1>6

LEMMA CountedStep == RenderInv /\ Counted /\ [RenderNext]_renderVars => Counted'
<1> SUFFICES ASSUME RenderInv, Counted, [RenderNext]_renderVars, NEW k \in Place
             PROVE  CountedAt(k)'
  BY DEF Counted
<1>1. RenderInv'
  BY TypesStep
<1>2. ASSUME NEW r \in Render, RenderStep(r) PROVE CountedAt(k)'
  BY <1>1, <1>2, TakeCounts, UndoCounts, TakeOwnCounts, RefundCounts, ReleaseCounts,
     ReleaseAgainCounts, WipeCounts, CrawlCounts, KillCounts DEF RenderStep
<1>3. ASSUME NEW j \in Key, Expire(j) PROVE CountedAt(k)'
  BY <1>3, ExpireCounts
<1>4. CASE UNCHANGED renderVars
  BY <1>4 DEF renderVars, Counted, CountedAt, Claims, Holders, Holds, Trying
<1> QED
  BY <1>2, <1>3, <1>4 DEF RenderNext

LEMMA InitCounted == RenderInit => Counted
<1> SUFFICES ASSUME RenderInit, NEW k \in Place PROVE CountedAt(k)
  BY DEF Counted
<1>1. \A r \in Render : have[r] = 0 /\ stage[r] = "idle"
  BY DEF RenderInit
<1>2. \A r \in Render : ~Holds(r, k) /\ ~Trying(r, k)
  BY <1>1 DEF Holds, Trying
<1>3. Claims(k) = {} /\ Holders(k) = {}
  BY <1>2 DEF Claims, Holders
<1>4. Cardinality({}) = 0
  BY FS_EmptySet
<1>5. places[k] = 0 /\ Limit[k] \in Nat
  BY LimitAssumption DEF RenderInit, Key
<1> QED
  BY <1>3, <1>4, <1>5 DEF CountedAt

LEMMA CountedRenders == Counted => RendersCounted
<1> SUFFICES ASSUME Counted PROVE RendersCounted
  OBVIOUS
<1>1. PlacesReturned
  BY DEF Counted, CountedAt, PlacesReturned
<1>2. ASSUME NEW k \in Place \ spoiled
      PROVE  Cardinality({r \in Render : Rendering(r) /\ Holds(r, k)}) <= Limit[k]
  <2> DEFINE H == {r \in Render : Rendering(r) /\ Holds(r, k)}
  <2>1. H \in SUBSET Holders(k) /\ IsFiniteSet(Holders(k))
    BY CountsAll DEF Holders
  <2>2. IsFiniteSet(H) /\ Cardinality(H) <= Cardinality(Holders(k))
    BY <2>1, FS_Subset
  <2>3. Cardinality(H) \in Nat
    BY <2>2, FS_CardinalityType
  <2>4. Cardinality(Holders(k)) <= Limit[k] /\ Cardinality(Holders(k)) \in Nat /\ Limit[k] \in Nat
    BY CountsAll, LimitAssumption DEF Counted, CountedAt
  <2> HIDE DEF H
  <2>5. Cardinality(H) <= Limit[k]
    BY <2>2, <2>3, <2>4
  <2> QED
    BY <2>5 DEF H
<1> QED
  BY <1>1, <1>2 DEF RendersCounted, LimitHolds

(* Whatever the number of processes, of keys and of faults, and however the   *)
(* calls of acquire_render_slot, can_render_page and _release interleave, no  *)
(* more of them render under a key than its limit until its counter loses a   *)
(* place in use, and without a fault a counter stands for no place nobody has.*)
THEOREM RendersCountedAlways == RenderSpec => []RendersCounted
<1> DEFINE Inv == RenderInv /\ Counted
<1>1. RenderInit => Inv
  BY InitTypes, InitCounted
<1>2. Inv /\ [RenderNext]_renderVars => Inv'
  BY TypesStep, CountedStep
<1>3. Inv => RendersCounted
  BY CountedRenders
<1> QED
  BY <1>1, <1>2, <1>3, PTL DEF RenderSpec

-----------------------------------------------------------------------------
(***************************************************************************)
(* A discovery run                                                         *)
(***************************************************************************)

(* Induction, over a set of numbers                                        *)

(* A set of natural numbers has a least one.                                  *)
LEMMA LeastNumber ==
    ASSUME NEW S \in SUBSET Nat, S # {}
    PROVE  \E x \in S : \A y \in S : x <= y
<1>1. \E x \in S : \A y \in S : ~(<<y, x>> \in OpToRel(<, Nat))
  BY NatLessThanWellFounded, WFMin, Zenon
<1>2. PICK x \in S : \A y \in S : ~(<<y, x>> \in OpToRel(<, Nat))
  BY <1>1, Zenon
<1>3. ASSUME NEW y \in S, y < x
      PROVE  <<y, x>> \in OpToRel(<, Nat)
  <2>1. y \in Nat /\ x \in Nat /\ y < x
    BY <1>3, SMT
  <2> QED
    BY <2>1, Zenon DEF OpToRel
<1>4. \A y \in S : ~(y < x)
  BY <1>2, <1>3, Zenon
<1> QED
  BY <1>4, SMT

(* What has 0 and with a number the next has all of them.                     *)
LEMMA NextNumbers ==
    ASSUME NEW n \in Nat, NEW T, 0 \in T, \A i \in 1 .. n : i - 1 \in T => i \in T
    PROVE  0 .. n \subseteq T
<1> SUFFICES ASSUME NEW k \in 0 .. n, k \notin T PROVE FALSE
  OBVIOUS
<1> DEFINE out == {i \in 0 .. n : i \notin T}
<1>1. out \in SUBSET Nat /\ out # {}
  OBVIOUS
<1>2. PICK x \in out : \A y \in out : x <= y
  BY <1>1, LeastNumber
<1>3. x \in 1 .. n /\ x - 1 \in 0 .. n /\ ~(x <= x - 1)
  BY <1>2
<1> QED
  BY <1>2, <1>3

(* A function can be defined from its value before.                           *)
Iterated(n, V, first, step) ==
  \E f \in [0 .. n -> V] : f[0] = first /\ \A i \in 1 .. n : f[i] = step[i][f[i - 1]]

LEMMA StepByStep ==
    ASSUME NEW n \in Nat, NEW V, NEW first \in V, NEW step,
           \A i \in 1 .. n : \A v \in V : step[i][v] \in V
    PROVE  Iterated(n, V, first, step)
<1> DEFINE Good(m, f) == f[0] = first /\ \A i \in 1 .. m : f[i] = step[i][f[i - 1]]
           T == {m \in 0 .. n : \E f \in [0 .. m -> V] : Good(m, f)}
<1>1. 0 \in T
  <2> DEFINE f == [i \in 0 .. 0 |-> first]
  <2>1. f \in [0 .. 0 -> V] /\ Good(0, f)
    OBVIOUS
  <2>2. \E g \in [0 .. 0 -> V] : Good(0, g)
    BY <2>1, Zenon
  <2> QED
    BY <2>2
<1>2. ASSUME NEW m \in 1 .. n, m - 1 \in T
      PROVE  m \in T
  <2>1. PICK g \in [0 .. m - 1 -> V] : Good(m - 1, g)
    BY <1>2
  <2> DEFINE f == [i \in 0 .. m |-> IF i = m THEN step[m][g[m - 1]] ELSE g[i]]
  <2>2. f \in [0 .. m -> V]
    OBVIOUS
  <2>3. Good(m, f)
    <3>1. f[0] = first
      BY <2>1
    <3>2. ASSUME NEW i \in 1 .. m
          PROVE  f[i] = step[i][f[i - 1]]
      BY <2>1
    <3> QED
      BY <3>1, <3>2
  <2>4. \E h \in [0 .. m -> V] : Good(m, h)
    BY <2>2, <2>3, Zenon
  <2> QED
    BY <2>4
<1>3. 0 .. n \subseteq T
  <2> HIDE DEF T
  <2> QED
    BY <1>1, <1>2, NextNumbers
<1>4. n \in T
  BY <1>3
<1> QED
  BY <1>4 DEF Iterated

-----------------------------------------------------------------------------
(* Sequences                                                               *)

LEMMA Parts ==
    ASSUME NEW S, NEW s \in Seq(S), NEW n \in Nat
    PROVE  /\ Upto(s, n) \in Seq(S) /\ Len(Upto(s, n)) <= n
           /\ After(s, n) \in Seq(S)
<1>1. Len(s) \in Nat /\ \A i \in 1 .. Len(s) : s[i] \in S
  OBVIOUS
<1>2. Upto(s, n) \in Seq(S) /\ Len(Upto(s, n)) <= n
  <2>1. CASE Len(s) < n
    BY <1>1, <2>1 DEF Upto
  <2>2. CASE ~(Len(s) < n)
    BY <1>1, <2>2 DEF Upto
  <2> QED
    BY <2>1, <2>2
<1>3. After(s, n) \in Seq(S)
  BY <1>1 DEF After
<1> QED
  BY <1>2, <1>3

LEMMA Mapped ==
    ASSUME NEW S, NEW n \in Nat, NEW f \in [1 .. n -> S]
    PROVE  f \in Seq(S) /\ Len(f) = n
OBVIOUS

(* Of n things with places in a sequence, every number up to n is the rank of *)
(* one: the first place with so many up to it.                                *)
LEMMA Ranked ==
    ASSUME NEW m \in Nat, NEW kept \in SUBSET (1 .. m)
    PROVE  /\ IsFiniteSet(kept) /\ Cardinality(kept) \in Nat
           /\ \A n \in 1 .. Cardinality(kept) : \E i \in kept : Cardinality({j \in kept : j <= i}) = n
<1> DEFINE Below(i) == {j \in kept : j <= i}
<1>0. \A j \in kept : j \in Int /\ 1 <= j /\ j <= m
  OBVIOUS
<1>1. IsFiniteSet(1 .. m)
  BY FS_Interval
<1>2. IsFiniteSet(kept) /\ Cardinality(kept) \in Nat
  BY <1>1, FS_Subset, FS_CardinalityType
<1>3. \A i : IsFiniteSet(Below(i)) /\ Cardinality(Below(i)) \in Nat
  BY <1>2, FS_Subset, FS_CardinalityType
<1>4. ASSUME NEW n \in 1 .. Cardinality(kept)
      PROVE  \E i \in kept : Cardinality(Below(i)) = n
  <2> DEFINE reach == {i \in 0 .. m : Cardinality(Below(i)) >= n}
  <2>1. Below(m) = kept
    BY <1>0
  <2>2. m \in reach /\ reach \in SUBSET Nat
    BY <2>1
  <2>3. PICK i \in reach : \A y \in reach : i <= y
    BY <2>2, LeastNumber
  <2>4. i # 0
    <3>1. \A j \in kept : ~(j <= 0)
      BY <1>0
    <3>2. Below(0) = {}
      BY <3>1
    <3>3. Cardinality(Below(0)) = 0
      BY <3>2, FS_EmptySet
    <3> QED
      BY <3>3, <2>3
  <2>5. i \in 1 .. m /\ i - 1 \in 0 .. m
    BY <2>4
  <2>6. ~(Cardinality(Below(i - 1)) >= n)
    <3>1. ~(i <= i - 1)
      BY <2>5
    <3>2. i - 1 \notin reach
      <4> HIDE DEF reach
      <4> QED
        BY <2>3, <3>1
    <3> QED
      BY <3>2, <2>5
  <2>7. Below(i) = Below(i - 1) \cup (IF i \in kept THEN {i} ELSE {})
    <3>1. \A j \in kept : j <= i <=> (j <= i - 1 \/ j = i)
      BY <1>0, <2>5
    <3> QED
      BY <3>1, <2>5
  <2>8. i \in kept
    <3> SUFFICES ASSUME i \notin kept PROVE FALSE
      OBVIOUS
    <3>1. Below(i) = Below(i - 1)
      BY <2>7
    <3> HIDE DEF Below
    <3> QED
      BY <3>1, <2>3, <2>6
  <2>9. Below(i) = Below(i - 1) \cup {i} /\ i \notin Below(i - 1)
    BY <2>5, <2>7, <2>8
  <2>10. Cardinality(Below(i)) = Cardinality(Below(i - 1)) + 1
    <3>1. IsFiniteSet(Below(i - 1))
      BY <1>3
    <3> HIDE DEF Below
    <3> QED
      BY <2>9, <3>1, FS_AddElement
  <2>11. Cardinality(Below(i)) \in Nat /\ Cardinality(Below(i - 1)) \in Nat
    BY <1>3
  <2>12. Cardinality(Below(i)) >= n
    BY <2>3
  <2>13. Cardinality(Below(i)) = n
    <3> HIDE DEF Below
    <3> QED
      BY <2>6, <2>10, <2>11, <2>12
  <2> QED
    BY <2>8, <2>13
<1> QED
  BY <1>2, <1>4

LEMMA Selected ==
    ASSUME NEW s, Len(s) \in Nat, NEW T
    PROVE  Within(s, T) \in Seq(T)
<1> DEFINE kept == {i \in 1 .. Len(s) : s[i] \in T}
           Nth(n) == CHOOSE i \in kept : Cardinality({j \in kept : j <= i}) = n
<1>1. /\ Cardinality(kept) \in Nat
      /\ \A n \in 1 .. Cardinality(kept) : \E i \in kept : Cardinality({j \in kept : j <= i}) = n
  BY Ranked
<1>2. \A n \in 1 .. Cardinality(kept) : Nth(n) \in kept
  BY <1>1
<1>3. \A n \in 1 .. Cardinality(kept) : s[Nth(n)] \in T
  BY <1>2
<1>4. [n \in 1 .. Cardinality(kept) |-> s[Nth(n)]] \in [1 .. Cardinality(kept) -> T]
  <2> HIDE DEF kept, Nth
  <2> QED
    BY <1>3
<1>5. [n \in 1 .. Cardinality(kept) |-> s[Nth(n)]] \in Seq(T)
  <2> HIDE DEF kept, Nth
  <2> QED
    BY <1>1, <1>4, Mapped
<1> QED
  BY <1>5 DEF Within

-----------------------------------------------------------------------------
(* What the recursive functions give                                       *)

LEMMA PlannedTypes == \A a \in Area : Planned(a) \in Seq(Query)
<1> SUFFICES ASSUME NEW a \in Area PROVE Planned(a) \in Seq(Query)
  OBVIOUS
<1>1. Broad \o Direct[a] \in Seq(Query)
  BY PageAssumptions
<1> QED
  BY <1>1, PageAssumptions, Parts DEF Planned

(* What holds at first and with one value of the next holds at the end.       *)
LEMMA StepsTyped ==
    ASSUME NEW n \in Nat, NEW V, NEW all, all[0] \in V,
           \A i \in 1 .. n : all[i - 1] \in V => all[i] \in V
    PROVE  all[n] \in V
<1> DEFINE T == {i \in 0 .. n : all[i] \in V}
<1>1. 0 \in T /\ \A i \in 1 .. n : i - 1 \in T => i \in T
  OBVIOUS
<1>2. 0 .. n \subseteq T
  <2> HIDE DEF T
  <2> QED
    BY <1>1, NextNumbers
<1> QED
  BY <1>2

LEMMA PlanTypes ==
    ASSUME NEW list \in Seq(Area)
    PROVE  Plan(list) \in Seq(Query)
<1> DEFINE n == Len(list)
<1>1. n \in Nat /\ \A i \in 1 .. n : Planned(list[i]) \in Seq(Query)
  <2>1. n \in Nat /\ \A i \in 1 .. n : list[i] \in Area
    OBVIOUS
  <2> QED
    BY <2>1, PlannedTypes, Zenon
<1> DEFINE step == [i \in 1 .. n |-> [v \in Seq(Query) |-> v \o Planned(list[i])]]
<1>2. \A i \in 1 .. n : \A v \in Seq(Query) : step[i][v] = v \o Planned(list[i])
  OBVIOUS
<1> HIDE DEF step
<1>3. ASSUME NEW i \in 1 .. n, NEW v \in Seq(Query)
      PROVE  step[i][v] \in Seq(Query)
  <2>1. v \o Planned(list[i]) \in Seq(Query)
    BY <1>1
  <2> QED
    BY <1>2, <2>1, Zenon
<1>4. PICK f \in [0 .. n -> Seq(Query)] : f[0] = <<>> /\ \A i \in 1 .. n : f[i] = step[i][f[i - 1]]
  <2>1. <<>> \in Seq(Query)
    OBVIOUS
  <2>2. n \in Nat /\ \A i \in 1 .. n : \A v \in Seq(Query) : step[i][v] \in Seq(Query)
    BY <1>1, <1>3, Zenon
  <2>3. Iterated(n, Seq(Query), <<>>, step)
    <3> HIDE DEF n
    <3> QED
      BY <2>1, <2>2, StepByStep, Zenon
  <2> QED
    BY <2>3 DEF Iterated
<1>5. f = [i \in 0 .. n |-> IF i = 0 THEN <<>> ELSE f[i - 1] \o Planned(list[i])]
  <2>1. \A i \in 1 .. n : i - 1 \in 0 .. n /\ i # 0
    BY <1>1
  <2>2. \A i \in 0 .. n : i = 0 \/ i \in 1 .. n
    BY <1>1
  <2>3. \A i \in 0 .. n : f[i] = IF i = 0 THEN <<>> ELSE f[i - 1] \o Planned(list[i])
    BY <1>2, <1>4, <2>1, <2>2
  <2> QED
    BY <2>3
<1>6. PICK all : /\ all = [i \in 0 .. n |-> IF i = 0 THEN <<>> ELSE all[i - 1] \o Planned(list[i])]
                 /\ Plan(list) = all[n]
  BY <1>5, Zenon DEF Plan
<1>7. all[0] \in Seq(Query)
  BY <1>1, <1>6
<1>8. ASSUME NEW i \in 1 .. n, all[i - 1] \in Seq(Query)
      PROVE  all[i] \in Seq(Query)
  <2>1. i \in 0 .. n /\ i # 0
    BY <1>1
  <2>2. all[i] = all[i - 1] \o Planned(list[i])
    BY <1>6, <2>1
  <2> QED
    BY <1>1, <1>8, <2>2
<1>9. all[n] \in Seq(Query)
  BY <1>1, <1>7, <1>8, StepsTyped
<1> QED
  BY <1>6, <1>9

(* Merging an entry into a list gives a list of entries.                      *)
LEMMA WithTypes ==
    ASSUME NEW list \in Seq(Card), NEW e \in Card
    PROVE  With(list, e) \in Seq(Card)
<1> DEFINE same == {i \in 1 .. Len(list) : list[i].name = e.name}
           first == CHOOSE i \in same : \A j \in same : i <= j
<1>1. CASE same = {}
  <2>1. With(list, e) = Append(list, e)
    BY <1>1 DEF With
  <2> QED
    BY <2>1
<1>2. CASE same # {}
  <2>1. same \in SUBSET Nat
    OBVIOUS
  <2>2. first \in same
    BY <1>2, <2>1, LeastNumber
  <2> HIDE DEF first
  <2>3. first \in 1 .. Len(list) /\ list[first] \in Card
    BY <2>2
  <2> DEFINE merged == [list[first] EXCEPT !.site = IF @ = NoSite THEN e.site ELSE @,
                                           !.keys = IF @ = {} THEN e.keys ELSE @]
  <2>4. merged \in Card
    BY <2>3 DEF Card
  <2>5. With(list, e) = [list EXCEPT ![first] = merged]
    <3>1. With(list, e) = [list EXCEPT ![first].site = IF @ = NoSite THEN e.site ELSE @,
                                       ![first].keys = IF @ = {} THEN e.keys ELSE @]
      BY <1>2, Zenon DEF With, first
    <3> QED
      BY <3>1, <2>3 DEF Card
  <2> HIDE DEF merged
  <2> QED
    BY <2>3, <2>4, <2>5, ExceptSeq
<1> QED
  BY <1>1, <1>2

LEMMA MergedTypes ==
    ASSUME NEW cards \in Seq(Card), NEW more \in Seq(Card)
    PROVE  Merged(cards, more) \in Seq(Card)
<1> DEFINE m == Len(more)
<1>1. m \in Nat /\ \A n \in 1 .. m : more[n] \in Card
  OBVIOUS
<1> DEFINE step == [n \in 1 .. m |-> [v \in Seq(Card) |-> With(v, more[n])]]
<1>2. \A n \in 1 .. m : \A v \in Seq(Card) : step[n][v] = With(v, more[n])
  OBVIOUS
<1>3. \A n \in 1 .. m : \A v \in Seq(Card) : With(v, more[n]) \in Seq(Card)
  BY <1>1, WithTypes, Zenon
<1> HIDE DEF step
<1>4. Iterated(m, Seq(Card), cards, step)
  <2>1. \A n \in 1 .. m : \A v \in Seq(Card) : step[n][v] \in Seq(Card)
    BY <1>2, <1>3, Zenon
  <2> HIDE DEF m
  <2> QED
    BY <1>1, <2>1, StepByStep, Zenon
<1>5. PICK f \in [0 .. m -> Seq(Card)] : f[0] = cards /\ \A i \in 1 .. m : f[i] = step[i][f[i - 1]]
  BY <1>4 DEF Iterated
<1>6. f = [n \in 0 .. m |-> IF n = 0 THEN cards ELSE With(f[n - 1], more[n])]
  <2>1. \A i \in 1 .. m : i - 1 \in 0 .. m /\ i # 0
    BY <1>1
  <2>2. \A i \in 0 .. m : i = 0 \/ i \in 1 .. m
    BY <1>1
  <2>3. \A i \in 0 .. m : f[i] = IF i = 0 THEN cards ELSE With(f[i - 1], more[i])
    BY <1>2, <1>5, <2>1, <2>2
  <2> QED
    BY <2>3
<1>7. PICK upto : /\ upto = [n \in 0 .. m |-> IF n = 0 THEN cards ELSE With(upto[n - 1], more[n])]
                  /\ Merged(cards, more) = upto[m]
  BY <1>6, Zenon DEF Merged
<1>8. upto[0] \in Seq(Card)
  BY <1>1, <1>7
<1>9. ASSUME NEW i \in 1 .. m, upto[i - 1] \in Seq(Card)
      PROVE  upto[i] \in Seq(Card)
  <2>1. i \in 0 .. m /\ i # 0
    BY <1>1
  <2>2. upto[i] = With(upto[i - 1], more[i])
    BY <1>7, <2>1
  <2> QED
    BY <1>3, <1>9, <2>2
<1>10. upto[m] \in Seq(Card)
  BY <1>1, <1>8, <1>9, StepsTyped
<1> QED
  BY <1>7, <1>10

(* The suburbs around one are suburbs.                                        *)
(* get_proximity_groups, statement by statement: where the suburb is in the    *)
(* file, its neighbours at a distance, and a turn of the loop.                 *)
Here(a) == CHOOSE i \in 1 .. Len(Suburbs) : Suburbs[i] = a
One(i) == IF i \in 1 .. Len(Suburbs) THEN <<Suburbs[i]>> ELSE <<>>
Around(a, d) == One(Here(a) - d) \o One(Here(a) + d)
Ring == [groups : Seq(Area), current : Seq(Area)]
NoRing == [groups |-> <<>>, current |-> <<>>]
Full(a, v, d) == Len(v.current \o Around(a, d)) >= 2 \/ d = Len(Suburbs) - 1
Grown(a, v, d) ==
  [groups |-> v.groups \o (IF Full(a, v, d) THEN v.current \o Around(a, d) ELSE <<>>),
   current |-> IF Full(a, v, d) THEN <<>> ELSE v.current \o Around(a, d)]

LEMMA HereIs ==
    ASSUME NEW a \in Area, Among(a, Suburbs)
    PROVE  /\ Len(Suburbs) \in Nat /\ \A i \in 1 .. Len(Suburbs) : Suburbs[i] \in Area
           /\ Here(a) \in 1 .. Len(Suburbs) /\ Suburbs[Here(a)] = a
           /\ \A d : Around(a, d) \in Seq(Area)
<1>1. Len(Suburbs) \in Nat /\ \A i \in 1 .. Len(Suburbs) : Suburbs[i] \in Area
  BY PageAssumptions
<1>2. Here(a) \in 1 .. Len(Suburbs) /\ Suburbs[Here(a)] = a
  BY DEF Among, Here
<1>3. \A i : One(i) \in Seq(Area)
  BY <1>1 DEF One
<1>4. \A d : Around(a, d) \in Seq(Area)
  BY <1>3 DEF Around
<1> QED
  BY <1>1, <1>2, <1>4

LEMMA GrownIs ==
    ASSUME NEW a \in Area, Among(a, Suburbs), NEW v \in Ring, NEW d
    PROVE  Grown(a, v, d) \in Ring
<1>1. v.current \in Seq(Area) /\ v.groups \in Seq(Area) /\ Around(a, d) \in Seq(Area)
  BY HereIs DEF Ring
<1>2. v.current \o Around(a, d) \in Seq(Area)
  BY <1>1
<1>3. v.groups \o (v.current \o Around(a, d)) \in Seq(Area) /\ v.groups \o <<>> \in Seq(Area)
  BY <1>1, <1>2
<1> QED
  BY <1>2, <1>3 DEF Grown, Ring

(* The neighbours are those of a loop over all distances.                      *)
LEMMA ProximityGrown ==
    ASSUME NEW a \in Area, a \notin DOMAIN Neighbours, Among(a, Suburbs)
    PROVE  \E upto \in [0 .. Len(Suburbs) - 1 -> Ring] :
             /\ upto[0] = NoRing
             /\ \A d \in 1 .. Len(Suburbs) - 1 : upto[d] = Grown(a, upto[d - 1], d)
             /\ Proximity(a) = upto[Len(Suburbs) - 1].groups
<1> DEFINE n == Len(Suburbs)
           here == CHOOSE i \in 1 .. n : Suburbs[i] = a
           Nearby(d) == (IF here - d >= 1 THEN <<Suburbs[here - d]>> ELSE <<>>)
                     \o (IF here + d <= n THEN <<Suburbs[here + d]>> ELSE <<>>)
           More(v, d) ==
             LET more == v.current \o Nearby(d)
                 full == Len(more) >= 2 \/ d = n - 1
             IN [groups |-> v.groups \o (IF full THEN more ELSE <<>>),
                 current |-> IF full THEN <<>> ELSE more]
           none == [groups |-> <<>>, current |-> <<>>]
<1>1. n \in Nat /\ here \in 1 .. n /\ here = Here(a) /\ n - 1 \in Nat
  BY HereIs DEF Here
<1>2. none = NoRing /\ none \in Ring
  BY DEF NoRing, Ring
<1>3. ASSUME NEW d \in 1 .. n - 1 PROVE Nearby(d) = Around(a, d)
  <2> HIDE DEF here
  <2>1. (here - d >= 1 <=> here - d \in 1 .. n) /\ (here + d <= n <=> here + d \in 1 .. n)
    BY <1>1
  <2> QED
    BY <1>1, <2>1 DEF Around, One
<1> HIDE DEF here
<1>4. ASSUME NEW d \in 1 .. n - 1, NEW v \in Ring PROVE More(v, d) = Grown(a, v, d)
  <2> HIDE DEF Nearby
  <2> QED
    BY <1>3 DEF Grown, Full
<1> DEFINE step == [d \in 1 .. n - 1 |-> [v \in Ring |-> More(v, d)]]
<1> HIDE DEF More, none
<1>5. \A d \in 1 .. n - 1 : \A v \in Ring : step[d][v] = More(v, d) /\ step[d][v] \in Ring
  BY <1>4, GrownIs
<1> HIDE DEF step
<1>6. Iterated(n - 1, Ring, none, step)
  <2> DEFINE k == n - 1
  <2> HIDE DEF k
  <2>1. k \in Nat /\ \A d \in 1 .. k : \A v \in Ring : step[d][v] \in Ring
    BY <1>1, <1>5 DEF k
  <2>2. Iterated(k, Ring, none, step)
    BY <1>2, <2>1, StepByStep, Zenon
  <2> QED
    BY <2>2 DEF k
<1>7. PICK f \in [0 .. n - 1 -> Ring] : f[0] = none /\ \A i \in 1 .. n - 1 : f[i] = step[i][f[i - 1]]
  BY <1>6 DEF Iterated
<1>8. f = [d \in 0 .. n - 1 |-> IF d = 0 THEN none ELSE More(f[d - 1], d)]
  <2>1. \A i \in 1 .. n - 1 : i - 1 \in 0 .. n - 1 /\ i # 0
    BY <1>1
  <2>2. \A i \in 0 .. n - 1 : i = 0 \/ i \in 1 .. n - 1
    BY <1>1
  <2>3. \A i \in 0 .. n - 1 : f[i] = IF i = 0 THEN none ELSE More(f[i - 1], i)
    BY <1>5, <1>7, <2>1, <2>2
  <2> QED
    BY <2>3
<1>9. PICK upto : /\ upto = [d \in 0 .. n - 1 |-> IF d = 0 THEN none ELSE More(upto[d - 1], d)]
                  /\ Proximity(a) = upto[n - 1].groups
  BY <1>8, Zenon DEF Proximity, More, Nearby, here, none
<1>10. upto[0] = none
  BY <1>1, <1>9
<1>11. ASSUME NEW i \in 1 .. n - 1 PROVE upto[i] = More(upto[i - 1], i)
  <2>1. i \in 0 .. n - 1 /\ i # 0
    BY <1>1
  <2> QED
    BY <1>9, <2>1
<1>12. \A i \in 0 .. n - 1 : upto[i] \in Ring
  <2>1. ASSUME NEW i \in 1 .. n - 1, upto[i - 1] \in Ring PROVE upto[i] \in Ring
    BY <1>4, <1>11, <2>1, GrownIs
  <2> DEFINE T == {i \in 0 .. n - 1 : upto[i] \in Ring}
  <2>2. 0 \in T /\ \A i \in 1 .. n - 1 : i - 1 \in T => i \in T
    BY <1>1, <1>2, <1>10, <2>1
  <2>3. 0 .. n - 1 \subseteq T
    <3> DEFINE k == n - 1
    <3> HIDE DEF k, T
    <3>1. k \in Nat /\ 0 \in T /\ \A i \in 1 .. k : i - 1 \in T => i \in T
      BY <1>1, <2>2 DEF k
    <3>2. 0 .. k \subseteq T
      BY <3>1, NextNumbers
    <3> QED
      BY <3>2 DEF k
  <2> QED
    BY <2>3
<1>13. upto \in [0 .. n - 1 -> Ring]
  <2>1. DOMAIN upto = 0 .. n - 1 /\ upto = [d \in DOMAIN upto |-> upto[d]]
    BY <1>9
  <2> HIDE DEF n
  <2> QED
    BY <1>12, <2>1
<1>14. \A d \in 1 .. n - 1 : upto[d] = Grown(a, upto[d - 1], d)
  <2>1. ASSUME NEW d \in 1 .. n - 1 PROVE upto[d] = Grown(a, upto[d - 1], d)
    <3>1. d - 1 \in 0 .. n - 1
      BY <1>1
    <3> QED
      BY <1>4, <1>11, <1>12, <3>1
  <2> QED
    BY <2>1
<1> QED
  BY <1>2, <1>9, <1>10, <1>13, <1>14

LEMMA ProximityTypes ==
    ASSUME NEW a \in Area
    PROVE  Proximity(a) \in Seq(Area)
<1>1. CASE a \in DOMAIN Neighbours \/ ~Among(a, Suburbs)
  <2>1. /\ a \in DOMAIN Neighbours => Proximity(a) = Neighbours[a]
        /\ a \notin DOMAIN Neighbours => Proximity(a) = <<>>
    BY <1>1, Zenon DEF Proximity
  <2>2. <<>> \in Seq(Area)
    OBVIOUS
  <2> QED
    BY <2>1, <2>2, PageAssumptions, Zenon
<1>2. CASE a \notin DOMAIN Neighbours /\ Among(a, Suburbs)
  <2>1. PICK upto \in [0 .. Len(Suburbs) - 1 -> Ring] : Proximity(a) = upto[Len(Suburbs) - 1].groups
    BY <1>2, ProximityGrown
  <2>2. Len(Suburbs) - 1 \in 0 .. Len(Suburbs) - 1
    BY <1>2, HereIs
  <2> QED
    BY <2>1, <2>2 DEF Ring
<1> QED
  BY <1>1, <1>2

-----------------------------------------------------------------------------
(* Type correctness                                                        *)

AllShown == UNION {Shows[s] : s \in Site}

QueueTypes ==
  /\ location \in Area /\ areas \in Seq(Area) /\ heldBack \in Seq(Area)
  /\ siteQueue \in Seq(Target) /\ directoryQueue \in Seq(Directory) /\ queryPool \in Seq(Query)
  /\ seenDomains \subseteq Site /\ entries \in Seq(Card)
GainTypes ==
  /\ index \subseteq LeadKey /\ found \in Seq(SUBSET LeadKey) /\ emails \in 0 .. Len(found)
  /\ cancelledAt \in -1 .. Len(found)
CountTypes ==
  /\ turns \in 0 .. MaxTurns /\ fallbacks \in 0 .. MaxFallbacks /\ misses \in 0 .. MaxMisses
CacheTypes ==
  /\ cached \in [Site -> SUBSET AllShown]
  /\ \A s \in Site : cached[s] \subseteq Shows[s] /\ (cached[s] = {} \/ \E c \in AllShown : cached[s] = {c})

(* What a batch is of, and when there is none.                                *)
BatchOf(T) == batch \in Seq(T) /\ hand \in Seq(T) /\ Len(hand) <= 1
WorkTypes ==
  /\ at \in {"loop", "sites", "directory", "listings", "queries", "done"}
  /\ at \in {"loop", "done"} => hand = <<>> /\ batch = <<>>
  /\ at = "sites" => BatchOf(Target)
  /\ at \in {"directory", "listings"} => BatchOf(Directory) /\ Len(hand) + Len(batch) <= 1
  /\ at = "queries" => BatchOf(Query)
  /\ at = "listings" => hand # <<>>
  /\ at # "listings" => entries = <<>> /\ named = {}
DiscoveryTypes == QueueTypes /\ WorkTypes /\ GainTypes /\ CountTypes /\ CacheTypes

LEMMA TypesImply == DiscoveryTypes => DiscoveryTypeOK
<1> SUFFICES ASSUME DiscoveryTypes PROVE DiscoveryTypeOK
  OBVIOUS
<1>1. Len(hand) <= 1
  <2>1. CASE at \in {"loop", "done"}
    BY <2>1 DEF DiscoveryTypes, WorkTypes
  <2>2. CASE at \notin {"loop", "done"}
    BY <2>2 DEF DiscoveryTypes, WorkTypes, BatchOf
  <2> QED
    BY <2>1, <2>2
<1>2. \A i \in 1 .. Len(siteQueue) : siteQueue[i].site \in Site
  <2>1. \A i \in 1 .. Len(siteQueue) : siteQueue[i] \in Target
    BY DEF DiscoveryTypes, QueueTypes
  <2> QED
    BY <2>1 DEF Target
<1>3. \A s \in Site : Cardinality(cached[s]) <= 1
  <2> SUFFICES ASSUME NEW s \in Site PROVE Cardinality(cached[s]) <= 1
    OBVIOUS
  <2>1. CASE cached[s] = {}
    BY <2>1, FS_EmptySet
  <2>2. CASE \E c \in AllShown : cached[s] = {c}
    <3>1. PICK c : cached[s] = {c}
      BY <2>2
    <3>2. Cardinality({c}) = 1
      BY FS_Singleton
    <3> QED
      BY <3>1, <3>2
  <2> QED
    BY <2>1, <2>2 DEF DiscoveryTypes, CacheTypes
<1> QED
  BY <1>1, <1>2, <1>3 DEF DiscoveryTypes, WorkTypes, QueueTypes, GainTypes, CountTypes, DiscoveryTypeOK

LEMMA InitDiscovery == DiscoveryInit => DiscoveryTypes
<1> SUFFICES ASSUME DiscoveryInit PROVE DiscoveryTypes
  OBVIOUS
<1>1. location \in Area
  BY PageAssumptions DEF DiscoveryInit
<1>2. Ordered(location) \in Seq(Area)
  <2>1. Within(Suburbs, Area \ {location}) \in Seq(Area)
    <3>1. Within(Suburbs, Area \ {location}) \in Seq(Area \ {location})
      BY PageAssumptions, Selected
    <3> QED
      BY <3>1
  <2> QED
    BY <1>1, <2>1, PageAssumptions DEF Ordered
<1>3. areas \in Seq(Area)
  <2>1. Upto(Ordered(location), AtOnce) \in Seq(Area)
    BY <1>2, Parts, PageAssumptions
  <2> QED
    BY <1>1, <2>1 DEF DiscoveryInit, FirstAreas
<1>4. heldBack \in Seq(Area)
  <2>1. After(Ordered(location), AtOnce) \in Seq(Area)
    BY <1>2, Parts, PageAssumptions
  <2>2. Proximity(location) \in Seq(Area)
    BY <1>1, ProximityTypes
  <2>3. <<>> \in Seq(Area)
    OBVIOUS
  <2>4. heldBack \in {<<>>, After(Ordered(location), AtOnce), Proximity(location)}
    BY DEF DiscoveryInit, LaterAreas
  <2> QED
    BY <2>1, <2>2, <2>3, <2>4
<1>5. queryPool \in Seq(Query)
  BY <1>3, PlanTypes DEF DiscoveryInit
<1>6. QueueTypes
  BY <1>1, <1>3, <1>4, <1>5 DEF DiscoveryInit, QueueTypes
<1>7. CacheTypes
  BY DEF DiscoveryInit, CacheTypes, AllShown
<1> QED
  BY <1>6, <1>7, DiscoveryAssumption DEF DiscoveryInit, DiscoveryTypes, WorkTypes, GainTypes, CountTypes

(* A status that is read leaves the job uncancelled, or has failed.           *)
LEMMA ReadStatus ==
    ASSUME CountTypes, NotCancelled
    PROVE  /\ misses' \in 0 .. MaxMisses
           /\ cancelledAt = -1 \/ misses' # 0
BY DiscoveryAssumption DEF CountTypes, NotCancelled

LEMMA TakeTypes ==
    ASSUME DiscoveryTypes, TakeSites \/ TakeDirectory \/ TakeQueries \/ ExpandArea
    PROVE  DiscoveryTypes'
<1>1. /\ at = "loop" /\ emails < Quantity /\ turns < MaxTurns /\ turns' = turns + 1 /\ NotCancelled
      /\ UNCHANGED <<location, scope, hand, listing, seenDomains, gains, fallbacks, cached, cancelledAt>>
  BY DEF TakeSites, TakeDirectory, TakeQueries, ExpandArea, Turning, where
<1>2. CountTypes'
  BY <1>1, ReadStatus, DiscoveryAssumption DEF DiscoveryTypes, CountTypes
<1>3. GainTypes' /\ CacheTypes' /\ hand = <<>> /\ batch = <<>> /\ entries' = <<>> /\ named' = {}
  BY <1>1 DEF DiscoveryTypes, GainTypes, CacheTypes, WorkTypes, gains, listing
<1>4. CASE TakeSites
  <2>1. Upto(siteQueue, SiteBatch) \in Seq(Target) /\ After(siteQueue, SiteBatch) \in Seq(Target)
    BY Parts, DiscoveryAssumption DEF DiscoveryTypes, QueueTypes
  <2>2. QueueTypes'
    BY <1>1, <1>4, <2>1 DEF TakeSites, DiscoveryTypes, QueueTypes, where, listing
  <2>3. WorkTypes'
    BY <1>1, <1>3, <1>4, <2>1 DEF TakeSites, WorkTypes, BatchOf
  <2> QED
    BY <1>2, <1>3, <2>2, <2>3 DEF DiscoveryTypes
<1>5. CASE TakeDirectory
  <2>1. Upto(directoryQueue, 1) \in Seq(Directory) /\ Len(Upto(directoryQueue, 1)) <= 1
    BY Parts, DiscoveryAssumption DEF DiscoveryTypes, QueueTypes
  <2>2. Tail(directoryQueue) \in Seq(Directory)
    BY <1>5 DEF TakeDirectory, DiscoveryTypes, QueueTypes
  <2>3. QueueTypes'
    BY <1>1, <1>5, <2>2 DEF TakeDirectory, DiscoveryTypes, QueueTypes, where, listing
  <2>4. WorkTypes'
    BY <1>1, <1>3, <1>5, <2>1 DEF TakeDirectory, WorkTypes, BatchOf
  <2> QED
    BY <1>2, <1>3, <2>3, <2>4 DEF DiscoveryTypes
<1>6. CASE TakeQueries
  <2>1. Upto(queryPool, QueryBatch) \in Seq(Query) /\ After(queryPool, QueryBatch) \in Seq(Query)
    BY Parts, DiscoveryAssumption DEF DiscoveryTypes, QueueTypes
  <2>2. QueueTypes'
    BY <1>1, <1>6, <2>1 DEF TakeQueries, DiscoveryTypes, QueueTypes, where, listing
  <2>3. WorkTypes'
    BY <1>1, <1>3, <1>6, <2>1 DEF TakeQueries, WorkTypes, BatchOf
  <2> QED
    BY <1>2, <1>3, <2>2, <2>3 DEF DiscoveryTypes
<1>7. CASE ExpandArea
  <2>1. Upto(heldBack, AreaBatch) \in Seq(Area) /\ After(heldBack, AreaBatch) \in Seq(Area)
    BY Parts, DiscoveryAssumption DEF DiscoveryTypes, QueueTypes
  <2>2. Plan(Upto(heldBack, AreaBatch)) \in Seq(Query)
    BY <2>1, PlanTypes
  <2>3. areas \o Upto(heldBack, AreaBatch) \in Seq(Area)
    BY <2>1 DEF DiscoveryTypes, QueueTypes
  <2>4. QueueTypes'
    BY <1>1, <1>7, <2>1, <2>2, <2>3 DEF ExpandArea, DiscoveryTypes, QueueTypes, listing
  <2>5. WorkTypes'
    BY <1>1, <1>3, <1>7 DEF ExpandArea, WorkTypes, BatchOf
  <2> QED
    BY <1>2, <1>3, <2>4, <2>5 DEF DiscoveryTypes
<1> QED
  BY <1>4, <1>5, <1>6, <1>7

(* What most steps leave alone.                                               *)
LEMMA KeptTypes ==
    ASSUME DiscoveryTypes
    PROVE  /\ UNCHANGED <<where, queues, seenDomains, entries>> => QueueTypes'
           /\ UNCHANGED <<gains, cancelledAt>> => GainTypes'
           /\ UNCHANGED <<turns, fallbacks, misses>> => CountTypes'
           /\ UNCHANGED cached => CacheTypes'
BY DEF DiscoveryTypes, where, queues, gains, QueueTypes, GainTypes, CountTypes, CacheTypes

(* The first target of the batch is taken in hand, and what is left.          *)
LEMMA FirstOf ==
    ASSUME NEW T, batch \in Seq(T), batch # <<>>
    PROVE  /\ <<Head(batch)>> \in Seq(T) /\ Len(<<Head(batch)>>) = 1
           /\ Tail(batch) \in Seq(T) /\ Len(Tail(batch)) = Len(batch) - 1
OBVIOUS

LEMMA BeginTypes ==
    ASSUME DiscoveryTypes, BeginTarget
    PROVE  DiscoveryTypes'
<1>1. /\ at # "loop" /\ hand = <<>> /\ batch # <<>> /\ NotCancelled /\ at' = at
      /\ hand' = <<Head(batch)>> /\ batch' = Tail(batch)
      /\ UNCHANGED <<where, listing, entries, queues, seenDomains, gains, turns, fallbacks, cached, cancelledAt>>
  BY DEF BeginTarget, listing
<1>2. CountTypes'
  BY <1>1, ReadStatus DEF DiscoveryTypes, CountTypes
<1>3. QueueTypes' /\ GainTypes' /\ CacheTypes'
  BY <1>1, KeptTypes
<1>4. at = "sites" => BatchOf(Target)'
  BY <1>1, FirstOf DEF DiscoveryTypes, WorkTypes, BatchOf
<1>5. at = "queries" => BatchOf(Query)'
  BY <1>1, FirstOf DEF DiscoveryTypes, WorkTypes, BatchOf
<1>6. at \in {"directory", "listings"} => BatchOf(Directory)' /\ (Len(hand) + Len(batch) <= 1)'
  <2> SUFFICES ASSUME at \in {"directory", "listings"}
               PROVE  BatchOf(Directory)' /\ (Len(hand) + Len(batch) <= 1)'
    OBVIOUS
  <2>1. batch \in Seq(Directory) /\ Len(hand) = 0 /\ Len(batch) <= 1 /\ Len(batch) \in Nat
    BY <1>1 DEF DiscoveryTypes, WorkTypes, BatchOf
  <2>2. Len(hand') = 1 /\ Len(batch') <= 0 /\ hand' \in Seq(Directory) /\ batch' \in Seq(Directory)
        /\ Len(batch') \in Nat
    BY <1>1, <2>1, FirstOf
  <2> QED
    BY <2>2 DEF BatchOf
<1>7. WorkTypes'
  BY <1>1, <1>4, <1>5, <1>6 DEF DiscoveryTypes, WorkTypes, listing
<1> QED
  BY <1>2, <1>3, <1>7 DEF DiscoveryTypes

(* The target in hand is done with.                                           *)
LEMMA DoneTypes ==
    ASSUME DiscoveryTypes, Done, UNCHANGED <<batch, listing>>, at \in {"sites", "queries"}
    PROVE  WorkTypes'
<1>1. hand' = <<>> /\ batch' = batch /\ at' \in {at, "loop"} /\ (at' = "loop" => batch = <<>>)
  BY DEF Done
<1>2. entries' = <<>> /\ named' = {}
  BY DEF DiscoveryTypes, WorkTypes, listing
<1> QED
  BY <1>1, <1>2 DEF DiscoveryTypes, WorkTypes, BatchOf

LEMMA SearchTypes ==
    ASSUME DiscoveryTypes, Search
    PROVE  DiscoveryTypes'
<1>1. PICK urls \in Results(hand[1]) :
        LET new == Within(urls, Site \ seenDomains)
        IN /\ siteQueue' = siteQueue \o
                [i \in 1 .. Len(new) |-> [site |-> new[i], keys |-> {}, place |-> "asked"]]
           /\ directoryQueue' = directoryQueue \o Within(urls, Directory)
           /\ seenDomains' = seenDomains \cup {new[i] : i \in 1 .. Len(new)}
  BY Zenon DEF Search
<1> DEFINE new == Within(urls, Site \ seenDomains)
           pages == [i \in 1 .. Len(new) |-> [site |-> new[i], keys |-> {}, place |-> "asked"]]
<1>2. hand \in Seq(Query) /\ hand # <<>> /\ at = "queries"
  BY DEF Search, Working, DiscoveryTypes, WorkTypes, BatchOf
<1>3. Len(urls) \in Nat
  <2>1. hand[1] \in Query
    BY <1>2
  <2> QED
    BY <2>1, PageAssumptions DEF Results
<1>4. new \in Seq(Site \ seenDomains) /\ Within(urls, Directory) \in Seq(Directory)
  BY <1>3, Selected
<1> HIDE DEF new
<1>5. Len(new) \in Nat /\ \A i \in 1 .. Len(new) : new[i] \in Site
  BY <1>4
<1>6. pages \in Seq(Target)
  <2>1. pages \in [1 .. Len(new) -> Target]
    BY <1>5 DEF Target, Named
  <2> QED
    BY <1>5, <2>1, Mapped
<1> HIDE DEF pages
<1>7. siteQueue' = siteQueue \o pages /\ directoryQueue' = directoryQueue \o Within(urls, Directory)
      /\ seenDomains' = seenDomains \cup {new[i] : i \in 1 .. Len(new)}
  BY <1>1, Zenon DEF new, pages
<1>8. siteQueue' \in Seq(Target) /\ directoryQueue' \in Seq(Directory) /\ seenDomains' \subseteq Site
  BY <1>4, <1>5, <1>6, <1>7 DEF DiscoveryTypes, QueueTypes
<1>9. /\ Done /\ UNCHANGED <<where, batch, listing, queryPool, heldBack, gains,
                               turns, fallbacks, cached, cancelledAt, misses>>
  BY DEF Search
<1>10. QueueTypes'
  BY <1>8, <1>9 DEF DiscoveryTypes, QueueTypes, where, listing
<1> QED
  BY <1>2, <1>9, <1>10, DoneTypes, KeptTypes DEF DiscoveryTypes

(* A lead is saved, or nothing is.                                            *)
Saving == UNCHANGED gains \/ \E c : c.keys \subseteq LeadKey /\ Save(c)

LEMMA SaveEffect ==
    ASSUME GainTypes, NEW c, c.keys \subseteq LeadKey, Save(c)
    PROVE  \/ UNCHANGED gains
           \/ /\ found' = Append(found, c.keys) /\ index' = index \cup c.keys
              /\ c.keys \cap index = {}
              /\ emails' \in {emails, emails + 1} /\ (c.mail = NoMail => emails' = emails)
BY DEF Save, Duplicate, Counts

LEMMA SavedOne ==
    ASSUME DiscoveryTypes, Saving
    PROVE  Len(found') \in {Len(found), Len(found) + 1}
<1>1. CASE UNCHANGED gains
  BY <1>1 DEF gains
<1>2. CASE ~UNCHANGED gains
  <2>1. PICK c : c.keys \subseteq LeadKey /\ Save(c)
    BY <1>2 DEF Saving
  <2>2. found' = Append(found, c.keys)
    BY <1>2, <2>1, SaveEffect DEF DiscoveryTypes
  <2> QED
    BY <2>1, <2>2 DEF DiscoveryTypes, GainTypes
<1> QED
  BY <1>1, <1>2

LEMMA SavingTypes ==
    ASSUME DiscoveryTypes, Saving, UNCHANGED cancelledAt
    PROVE  GainTypes'
<1>1. CASE UNCHANGED gains
  BY <1>1, KeptTypes
<1>2. CASE \E c : c.keys \subseteq LeadKey /\ Save(c)
  <2>1. PICK c : c.keys \subseteq LeadKey /\ Save(c)
    BY <1>2
  <2>2. CASE UNCHANGED gains
    BY <2>2, KeptTypes
  <2>3. CASE ~UNCHANGED gains
    <3>1. /\ found' = Append(found, c.keys) /\ index' = index \cup c.keys
          /\ emails' \in {emails, emails + 1}
      BY <2>1, <2>3, SaveEffect DEF DiscoveryTypes
    <3>2. found' \in Seq(SUBSET LeadKey) /\ Len(found') = Len(found) + 1 /\ Len(found) \in Nat
      BY <2>1, <3>1 DEF DiscoveryTypes, GainTypes
    <3> QED
      BY <2>1, <3>1, <3>2 DEF DiscoveryTypes, GainTypes
  <2> QED
    BY <2>2, <2>3
<1> QED
  BY <1>1, <1>2 DEF Saving

(* What becomes of a candidate has keys of the site and of its listing.       *)
LEMMA CandidateKeys ==
    ASSUME NEW c, c.keys \subseteq LeadKey, NEW item \in Target, NEW whole \in Candidates(c, item)
    PROVE  whole.keys \subseteq LeadKey
BY DEF Candidates, Target

LEMMA SiteSteps ==
    ASSUME DiscoveryTypes, Unreachable \/ FromCache \/ Crawl
    PROVE  /\ at = "sites" /\ hand # <<>> /\ Done /\ Saving
           /\ UNCHANGED <<where, batch, listing, queues, seenDomains, turns, cancelledAt, misses>>
           /\ CacheTypes' /\ CountTypes'
<1>1. /\ at = "sites" /\ hand # <<>> /\ Done
      /\ UNCHANGED <<where, batch, listing, queues, seenDomains, turns, cancelledAt, misses>>
  BY DEF Unreachable, FromCache, Crawl, Working
<1>2. Item \in Target
  <2>1. hand \in Seq(Target)
    BY <1>1 DEF DiscoveryTypes, WorkTypes, BatchOf
  <2> QED
    BY <1>1, <2>1 DEF Item
<1>3. Item.site \in Site
  BY <1>2 DEF Target
<1>4. CASE Unreachable
  BY <1>1, <1>4, KeptTypes DEF Unreachable, Saving
<1>5. CASE FromCache
  <2>1. PICK c \in cached[Item.site] : \E whole \in Candidates(c, Item) : Save(whole)
    BY <1>5 DEF FromCache
  <2>2. PICK whole \in Candidates(c, Item) : Save(whole)
    BY <2>1
  <2>3. c.keys \subseteq LeadKey
    BY <1>3, PageAssumptions DEF DiscoveryTypes, CacheTypes
  <2>4. Saving
    BY <1>2, <2>2, <2>3, CandidateKeys DEF Saving
  <2>5. UNCHANGED <<turns, fallbacks, misses>> /\ UNCHANGED cached
    BY <1>5 DEF FromCache
  <2> QED
    BY <1>1, <2>4, <2>5, KeptTypes
<1>6. CASE Crawl
  <2>1. PICK c \in Shows[Item.site] :
          /\ Remember(Item.site, c)
          /\ IF Weak(c) /\ fallbacks < MaxFallbacks
             THEN /\ fallbacks' = fallbacks + 1
                  /\ \E better \in Improved(Item.site, c) : \E whole \in Candidates(better, Item) : Save(whole)
             ELSE /\ \E whole \in Candidates(c, Item) : Save(whole)
                  /\ UNCHANGED fallbacks
    BY <1>6 DEF Crawl
  <2>2. PICK better \in Improved(Item.site, c) : \E whole \in Candidates(better, Item) : Save(whole)
    BY <2>1 DEF Improved
  <2>3. PICK whole \in Candidates(better, Item) : Save(whole)
    BY <2>2
  <2>4. better.keys \subseteq LeadKey
    BY <1>3, PageAssumptions DEF Improved
  <2>5. Saving
    BY <1>2, <2>3, <2>4, CandidateKeys DEF Saving
  <2>6. CountTypes'
    BY <1>1, <2>1, DiscoveryAssumption DEF DiscoveryTypes, CountTypes
  <2>7. CacheTypes'
    <3>1. c \in AllShown
      BY <1>3 DEF AllShown
    <3>2. CASE cached' = cached
      BY <3>2, KeptTypes
    <3>3. CASE cached' = [cached EXCEPT ![Item.site] = {c}]
      BY <1>3, <3>1, <3>3 DEF DiscoveryTypes, CacheTypes
    <3> QED
      BY <2>1, <3>2, <3>3 DEF Remember
  <2> QED
    BY <1>1, <2>5, <2>6, <2>7
<1> QED
  BY <1>4, <1>5, <1>6

(* An entry without a website becomes a lead without an address.              *)
LEMMA ListingEffect ==
    ASSUME DiscoveryTypes, Listing
    PROVE  /\ at = "listings" /\ at' = at /\ Saving
           /\ \/ UNCHANGED gains
              \/ \E c : c.keys \subseteq LeadKey /\ c.mail = NoMail /\ Host[hand[1]] \in c.keys /\ Save(c)
           /\ QueueTypes' /\ UNCHANGED <<batch, hand, turns, fallbacks, cached, cancelledAt, misses>>
<1>1. /\ at = "listings" /\ entries # <<>> /\ entries' = Tail(entries)
      /\ UNCHANGED <<at, where, batch, hand, directoryQueue, queryPool, heldBack, seenDomains,
                     turns, fallbacks, cached, cancelledAt, misses>>
  BY DEF Listing
<1> DEFINE entry == Head(entries)
<1>2. entry \in Card /\ Tail(entries) \in Seq(Card)
  BY <1>1 DEF DiscoveryTypes, QueueTypes
<1>3. hand[1] \in Directory
  <2>1. hand \in Seq(Directory) /\ hand # <<>>
    BY <1>1 DEF DiscoveryTypes, WorkTypes, BatchOf
  <2> QED
    BY <2>1
<1>4. CASE entry.site = NoSite
  <2> DEFINE c == [keys |-> entry.keys \cup {Host[hand[1]]}, mail |-> NoMail, place |-> entry.place]
  <2>1. Save(c) /\ UNCHANGED <<siteQueue, named>>
    BY <1>4 DEF Listing
  <2>2. c.keys \subseteq LeadKey /\ c.mail = NoMail /\ Host[hand[1]] \in c.keys
    BY <1>2, <1>3, PageAssumptions DEF Card
  <2>3. \E d : d.keys \subseteq LeadKey /\ d.mail = NoMail /\ Host[hand[1]] \in d.keys /\ Save(d)
    <3> HIDE DEF c
    <3> QED
      BY <2>1, <2>2
  <2>4. QueueTypes'
    BY <1>1, <1>2, <2>1 DEF DiscoveryTypes, QueueTypes, where
  <2> QED
    BY <1>1, <2>3, <2>4 DEF Saving
<1>5. CASE entry.site # NoSite
  <2>1. UNCHANGED gains
    BY <1>5 DEF Listing
  <2>2. siteQueue' \in Seq(Target)
    <3> DEFINE page == [site |-> entry.site, keys |-> entry.keys, place |-> entry.place]
    <3>1. page \in Target
      BY <1>2, <1>5 DEF Card, Target
    <3>2. siteQueue' = siteQueue \/ siteQueue' = Append(siteQueue, page)
      BY <1>5 DEF Listing
    <3>3. siteQueue \in Seq(Target)
      BY DEF DiscoveryTypes, QueueTypes
    <3> HIDE DEF page
    <3> QED
      BY <3>1, <3>2, <3>3
  <2>3. QueueTypes'
    BY <1>1, <1>2, <2>2 DEF DiscoveryTypes, QueueTypes, where
  <2> QED
    BY <1>1, <2>1, <2>3 DEF Saving
<1> QED
  BY <1>4, <1>5

LEMMA ReadTypes ==
    ASSUME DiscoveryTypes, ReadDirectory
    PROVE  DiscoveryTypes'
<1>1. /\ at = "directory" /\ hand # <<>> /\ entries' \in Read(hand[1]) /\ named' = {} /\ at' = "listings"
      /\ UNCHANGED <<where, batch, hand, queues, seenDomains, gains,
                     turns, fallbacks, cached, cancelledAt, misses>>
  BY DEF ReadDirectory, Working
<1>2. hand[1] \in Directory
  <2>1. hand \in Seq(Directory)
    BY <1>1 DEF DiscoveryTypes, WorkTypes, BatchOf
  <2> QED
    BY <1>1, <2>1
<1>3. entries' \in Seq(Card)
  <2>1. Merged(Cards[hand[1]], Graph[hand[1]]) \in Seq(Card) /\ Cards[hand[1]] \in Seq(Card)
    BY <1>2, MergedTypes, PageAssumptions
  <2>2. <<>> \in Seq(Card)
    OBVIOUS
  <2> QED
    BY <1>1, <2>1, <2>2 DEF Read
<1>4. QueueTypes'
  BY <1>1, <1>3 DEF DiscoveryTypes, QueueTypes, where, queues
<1>5. WorkTypes'
  BY <1>1 DEF DiscoveryTypes, WorkTypes, BatchOf
<1> QED
  BY <1>1, <1>4, <1>5, KeptTypes DEF DiscoveryTypes

LEMMA StepTypes == DiscoveryTypes /\ [DiscoveryNext]_discoveryVars => DiscoveryTypes'
<1> SUFFICES ASSUME DiscoveryTypes, [DiscoveryNext]_discoveryVars PROVE DiscoveryTypes'
  OBVIOUS
<1>1. CASE EndRun
  <2>1. at = "loop" /\ at' = "done"
        /\ UNCHANGED <<where, batch, hand, listing, entries, queues, seenDomains, gains,
                        turns, fallbacks, cached, cancelledAt, misses>>
    BY <1>1 DEF EndRun, listing
  <2>2. WorkTypes'
    BY <2>1 DEF DiscoveryTypes, WorkTypes, listing
  <2> QED
    BY <2>1, <2>2, KeptTypes DEF DiscoveryTypes
<1>2. CASE DropBatch
  <2>1. /\ at # "loop" /\ hand = <<>> /\ batch # <<>> /\ at' = "loop" /\ batch' = <<>>
        /\ UNCHANGED <<where, hand, listing, entries, queues, seenDomains, gains,
                       turns, fallbacks, cached, cancelledAt, misses>>
    BY <1>2 DEF DropBatch, listing
  <2>2. at # "listings"
    BY <2>1 DEF DiscoveryTypes, WorkTypes
  <2>3. WorkTypes'
    BY <2>1, <2>2 DEF DiscoveryTypes, WorkTypes, listing
  <2> QED
    BY <2>1, <2>3, KeptTypes DEF DiscoveryTypes
<1>3. CASE EndDirectory
  <2>1. /\ at = "listings" /\ entries = <<>> /\ at' = "loop" /\ hand' = <<>> /\ named' = {}
        /\ UNCHANGED <<where, batch, entries, queues, seenDomains, gains,
                       turns, fallbacks, cached, cancelledAt, misses>>
    BY <1>3 DEF EndDirectory
  <2>2. batch = <<>>
    <3>1. batch \in Seq(Directory) /\ hand \in Seq(Directory) /\ Len(hand) + Len(batch) <= 1 /\ hand # <<>>
      BY <2>1 DEF DiscoveryTypes, WorkTypes, BatchOf
    <3> QED
      BY <3>1
  <2>3. WorkTypes'
    BY <2>1, <2>2 DEF DiscoveryTypes, WorkTypes
  <2> QED
    BY <2>1, <2>3, KeptTypes DEF DiscoveryTypes
<1>4. CASE Unreachable \/ FromCache \/ Crawl
  <2>1. /\ at = "sites" /\ Done /\ Saving
        /\ UNCHANGED <<where, batch, listing, entries, queues, seenDomains, turns, cancelledAt, misses>>
        /\ CacheTypes' /\ CountTypes'
    BY <1>4, SiteSteps DEF listing
  <2>2. WorkTypes'
    BY <2>1, DoneTypes
  <2>3. GainTypes'
    BY <2>1, SavingTypes
  <2> QED
    BY <2>1, <2>2, <2>3, KeptTypes DEF DiscoveryTypes
<1>5. CASE Listing
  <2>1. WorkTypes'
    BY <1>5, ListingEffect DEF DiscoveryTypes, WorkTypes, BatchOf
  <2>2. GainTypes'
    BY <1>5, ListingEffect, SavingTypes
  <2> QED
    BY <1>5, <2>1, <2>2, ListingEffect, KeptTypes DEF DiscoveryTypes
<1>6. CASE Cancel
  <2>1. /\ cancelledAt' = Len(found)
        /\ UNCHANGED <<at, where, batch, hand, listing, entries, queues, seenDomains, gains,
                       turns, fallbacks, cached, misses>>
    BY <1>6 DEF Cancel, listing
  <2>2. GainTypes'
    BY <2>1 DEF DiscoveryTypes, GainTypes, gains
  <2>3. WorkTypes'
    BY <2>1 DEF DiscoveryTypes, WorkTypes, BatchOf, listing
  <2> QED
    BY <2>1, <2>2, <2>3, KeptTypes DEF DiscoveryTypes
<1>7. CASE UNCHANGED discoveryVars
  <2>1. UNCHANGED <<at, where, batch, hand, listing, entries, queues, seenDomains, gains,
                    turns, fallbacks, cached, cancelledAt, misses>>
    BY <1>7 DEF discoveryVars, listing
  <2>2. WorkTypes'
    BY <2>1 DEF DiscoveryTypes, WorkTypes, BatchOf, listing
  <2> QED
    BY <2>1, <2>2, KeptTypes DEF DiscoveryTypes
<1> QED
  BY <1>1, <1>2, <1>3, <1>4, <1>5, <1>6, <1>7, TakeTypes, BeginTypes, SearchTypes, ReadTypes
  DEF DiscoveryNext, DiscoveryWork

(* The variables keep their types.                                            *)
THEOREM DiscoveryTypesCorrect == DiscoverySpec => []DiscoveryTypeOK
<1>1. DiscoverySpec => []DiscoveryTypes
  BY InitDiscovery, StepTypes, PTL DEF DiscoverySpec
<1> QED
  BY <1>1, TypesImply, PTL

-----------------------------------------------------------------------------
(* How many addresses are saved                                            *)

(* While sites are at work, what is left of the batch is to come.             *)
Bounded ==
  /\ at \in {"loop", "done"} => emails < Quantity + SiteBatch
  /\ at \in {"directory", "listings", "queries"} => emails < Quantity
  /\ at = "sites" => emails + Len(hand) + Len(batch) < Quantity + SiteBatch

LEMMA BoundedImplies == DiscoveryTypes /\ Bounded => Overshoot
<1> SUFFICES ASSUME DiscoveryTypes, Bounded PROVE Overshoot
  OBVIOUS
<1>1. emails \in Nat
  BY DEF DiscoveryTypes, GainTypes
<1>2. CASE at = "sites"
  <2>1. Len(hand) \in Nat /\ Len(batch) \in Nat
    BY <1>2 DEF DiscoveryTypes, WorkTypes, BatchOf
  <2> QED
    BY <1>1, <1>2, <2>1, DiscoveryAssumption DEF Bounded, Overshoot
<1>3. CASE at # "sites"
  BY <1>1, <1>3, DiscoveryAssumption DEF Bounded, Overshoot, DiscoveryTypes, WorkTypes
<1> QED
  BY <1>2, <1>3

(* A step that saves nothing and leaves the sites at work, if they are.       *)
LEMMA BoundedKept ==
    ASSUME DiscoveryTypes, Bounded, emails' = emails, DiscoveryTypes',
           \/ at' \in {"loop", "done"}
           \/ at' \in {"directory", "listings", "queries"} /\ emails < Quantity
           \/ at' = "sites" /\ UNCHANGED <<at, hand, batch>>
    PROVE  Bounded'
<1>1. emails < Quantity + SiteBatch
  BY BoundedImplies DEF Overshoot
<1> QED
  BY <1>1 DEF Bounded

LEMMA BoundedStep == DiscoveryTypes /\ DiscoveryTypes' /\ Bounded /\ [DiscoveryNext]_discoveryVars => Bounded'
<1> SUFFICES ASSUME DiscoveryTypes, DiscoveryTypes', Bounded, [DiscoveryNext]_discoveryVars
             PROVE  Bounded'
  OBVIOUS
<1>1. emails \in Nat /\ Quantity \in Nat /\ SiteBatch \in Nat
  BY DiscoveryAssumption DEF DiscoveryTypes, GainTypes
<1>2. CASE TakeSites
  <2>1. emails < Quantity /\ emails' = emails /\ at' = "sites" /\ hand' = <<>> /\ Len(batch') <= SiteBatch
        /\ Len(batch') \in Nat
    BY <1>2, Parts, DiscoveryAssumption
    DEF TakeSites, Turning, gains, DiscoveryTypes, QueueTypes, WorkTypes
  <2>2. Len(hand') = 0
    BY <2>1
  <2> QED
    BY <1>1, <2>1, <2>2 DEF Bounded
<1>3. CASE TakeDirectory \/ TakeQueries \/ ExpandArea
  <2>1. emails < Quantity /\ emails' = emails /\ at' \in {"loop", "directory", "queries"}
    BY <1>3 DEF TakeDirectory, TakeQueries, ExpandArea, Turning, gains
  <2> QED
    BY <2>1, BoundedKept
<1>4. CASE BeginTarget
  <2>1. /\ emails' = emails /\ at' = at /\ at # "loop" /\ hand = <<>> /\ batch # <<>>
        /\ hand' = <<Head(batch)>> /\ batch' = Tail(batch)
    BY <1>4 DEF BeginTarget, gains
  <2>2. CASE at = "sites"
    <3>1. batch \in Seq(Target)
      BY <2>2 DEF DiscoveryTypes, WorkTypes, BatchOf
    <3>2. Len(hand) = 0 /\ Len(hand') = 1 /\ Len(batch') = Len(batch) - 1 /\ Len(batch) \in Nat
      BY <2>1, <3>1, FirstOf
    <3> QED
      BY <1>1, <2>1, <2>2, <3>2 DEF Bounded
  <2>3. CASE at # "sites"
    BY <2>1, <2>3 DEF Bounded
  <2> QED
    BY <2>2, <2>3
<1>5. CASE Unreachable \/ FromCache \/ Crawl
  <2>1. at = "sites" /\ hand # <<>> /\ Done /\ Saving /\ batch' = batch
    BY <1>5, SiteSteps
  <2>2. emails' \in {emails, emails + 1}
    BY <2>1, SaveEffect DEF Saving, gains, DiscoveryTypes
  <2>3. Len(hand) = 1 /\ Len(batch) \in Nat
    <3>1. hand \in Seq(Target) /\ batch \in Seq(Target) /\ Len(hand) <= 1
      BY <2>1 DEF DiscoveryTypes, WorkTypes, BatchOf
    <3>2. Len(hand) \in Nat /\ Len(hand) # 0
      BY <2>1, <3>1
    <3>3. Len(batch) \in Nat
      BY <3>1
    <3>4. \A k \in Nat : k # 0 /\ k <= 1 => k = 1
      OBVIOUS
    <3> QED
      BY <3>1, <3>2, <3>3, <3>4, Zenon
  <2>4. emails' + Len(batch) < Quantity + SiteBatch
    BY <1>1, <2>1, <2>2, <2>3 DEF Bounded
  <2>5. hand' = <<>> /\ (at' = "sites" \/ at' = "loop")
    BY <2>1 DEF Done
  <2>6. Len(hand') = 0 /\ emails' \in Nat
    BY <1>1, <2>2, <2>5
  <2> QED
    BY <1>1, <2>1, <2>3, <2>4, <2>5, <2>6 DEF Bounded
<1>6. CASE Listing
  <2>1. at = "listings" /\ at' = at /\ emails' = emails
    BY <1>6, ListingEffect, SaveEffect DEF gains, DiscoveryTypes
  <2> QED
    BY <2>1, BoundedKept DEF Bounded
<1>7. CASE EndRun \/ DropBatch \/ EndDirectory
  <2>1. emails' = emails /\ at' \in {"loop", "done"}
    BY <1>7 DEF EndRun, DropBatch, EndDirectory, gains
  <2> QED
    BY <2>1, BoundedKept
<1>8. CASE Search \/ ReadDirectory
  <2>1. emails' = emails /\ at \in {"queries", "directory"} /\ at' \in {"queries", "listings", "loop"}
    BY <1>8 DEF Search, ReadDirectory, Working, Done, gains
  <2> QED
    BY <2>1, BoundedKept DEF Bounded
<1>9. CASE Cancel \/ UNCHANGED discoveryVars
  <2>1. UNCHANGED <<at, emails, hand, batch>>
    BY <1>9 DEF Cancel, discoveryVars, gains
  <2> QED
    BY <2>1 DEF Bounded
<1> QED
  BY <1>2, <1>3, <1>4, <1>5, <1>6, <1>7, <1>8, <1>9 DEF DiscoveryNext, DiscoveryWork

(* A run saves fewer addresses than it was asked for and one batch of sites.  *)
THEOREM OvershootWithinBatch == DiscoverySpec => []Overshoot
<1>1. DiscoveryInit => Bounded
  BY DiscoveryAssumption DEF DiscoveryInit, Bounded
<1>2. DiscoverySpec => [](DiscoveryTypes /\ Bounded)
  BY <1>1, InitDiscovery, StepTypes, BoundedStep, PTL DEF DiscoverySpec
<1> QED
  BY <1>2, BoundedImplies, PTL

-----------------------------------------------------------------------------
(* Leads that share nothing                                                *)

(* What is saved is in the index, so that what is new shares nothing with it. *)
Indexed == (\A i \in 1 .. Len(found) : found[i] \subseteq index) /\ FoundOnce

LEMMA IndexedSaving ==
    ASSUME DiscoveryTypes, Indexed, Saving
    PROVE  Indexed'
<1>1. CASE UNCHANGED gains
  BY <1>1 DEF Indexed, FoundOnce, gains
<1>2. CASE ~UNCHANGED gains
  <2>1. PICK c : c.keys \subseteq LeadKey /\ Save(c)
    BY <1>2 DEF Saving
  <2>2. found' = Append(found, c.keys) /\ index' = index \cup c.keys /\ c.keys \cap index = {}
    BY <1>2, <2>1, SaveEffect DEF DiscoveryTypes
  <2> DEFINE n == Len(found)
  <2>3. /\ n \in Nat /\ Len(found') = n + 1 /\ found'[n + 1] = c.keys
        /\ \A i \in 1 .. n : found'[i] = found[i]
    BY <2>1, <2>2 DEF DiscoveryTypes, GainTypes
  <2>4. \A i \in 1 .. n + 1 : i \in 1 .. n \/ i = n + 1
    BY <2>3
  <2>5. \A i \in 1 .. n : found[i] \subseteq index /\ found[i] \cap c.keys = {} /\ c.keys \cap found[i] = {}
    BY <2>2 DEF Indexed
  <2>6. \A i \in 1 .. n + 1 : found'[i] \subseteq index'
    BY <2>2, <2>3, <2>4, <2>5
  <2>7. \A i, j \in 1 .. n + 1 : i # j => found'[i] \cap found'[j] = {}
    <3> SUFFICES ASSUME NEW i \in 1 .. n + 1, NEW j \in 1 .. n + 1, i # j
                 PROVE  found'[i] \cap found'[j] = {}
      OBVIOUS
    <3>1. CASE i \in 1 .. n /\ j \in 1 .. n
      BY <2>3, <3>1 DEF Indexed, FoundOnce
    <3>2. CASE i \in 1 .. n /\ j = n + 1
      BY <2>3, <2>5, <3>2
    <3>3. CASE i = n + 1 /\ j \in 1 .. n
      BY <2>3, <2>5, <3>3
    <3> QED
      BY <2>4, <3>1, <3>2, <3>3
  <2> QED
    BY <2>3, <2>6, <2>7 DEF Indexed, FoundOnce
<1> QED
  BY <1>1, <1>2

LEMMA StepSaves == DiscoveryTypes /\ [DiscoveryNext]_discoveryVars => Saving
<1> SUFFICES ASSUME DiscoveryTypes, [DiscoveryNext]_discoveryVars PROVE Saving
  OBVIOUS
<1>1. CASE Unreachable \/ FromCache \/ Crawl \/ Listing
  BY <1>1, SiteSteps, ListingEffect
<1>2. CASE ~(Unreachable \/ FromCache \/ Crawl \/ Listing)
  BY <1>2 DEF DiscoveryNext, DiscoveryWork, discoveryVars, Saving, EndRun, TakeSites, TakeDirectory, TakeQueries,
    ExpandArea, BeginTarget, DropBatch, Search, ReadDirectory, EndDirectory, Cancel
<1> QED
  BY <1>1, <1>2

(* No two leads of a run share what they are known by.                        *)
THEOREM FoundApart == DiscoverySpec => []FoundOnce
<1>1. DiscoveryInit => Indexed
  BY DEF DiscoveryInit, Indexed, FoundOnce
<1>2. DiscoverySpec => [](DiscoveryTypes /\ Indexed)
  BY <1>1, InitDiscovery, StepTypes, StepSaves, IndexedSaving, PTL DEF DiscoverySpec
<1> QED
  BY <1>2, PTL DEF Indexed
-----------------------------------------------------------------------------
(* What a cancelled run still saves                                        *)

(* When the job is cancelled, one target may be in hand.  The first entry of  *)
(* a directory that is saved leaves the directory's domain in the index, and  *)
(* every later one would share it.                                            *)
Stopping ==
  cancelledAt # -1 /\ misses = 0 =>
    /\ Len(found) <= cancelledAt + 1
    /\ at \in {"sites", "directory"} /\ hand # <<>> => Len(found) <= cancelledAt
    /\ at = "listings" => Len(found) <= cancelledAt \/ Host[hand[1]] \in index

LEMMA StoppingStep ==
    DiscoveryTypes /\ DiscoveryTypes' /\ Stopping /\ [DiscoveryNext]_discoveryVars => Stopping'
<1> SUFFICES ASSUME DiscoveryTypes, DiscoveryTypes', Stopping, [DiscoveryNext]_discoveryVars
             PROVE  Stopping'
  OBVIOUS
<1>0. CountTypes /\ Len(found) \in Nat /\ cancelledAt \in -1 .. Len(found)
  BY DEF DiscoveryTypes, GainTypes
<1>1. CASE TakeSites \/ TakeDirectory \/ TakeQueries \/ ExpandArea \/ BeginTarget
  <2>1. NotCancelled /\ cancelledAt' = cancelledAt
    BY <1>1 DEF TakeSites, TakeDirectory, TakeQueries, ExpandArea, BeginTarget
  <2>2. cancelledAt = -1 \/ misses' # 0
    BY <1>0, <2>1, ReadStatus
  <2> QED
    BY <2>1, <2>2 DEF Stopping
<1>2. CASE Unreachable \/ FromCache \/ Crawl
  <2>1. /\ at = "sites" /\ hand # <<>> /\ Done /\ Saving
        /\ cancelledAt' = cancelledAt /\ misses' = misses
    BY <1>2, SiteSteps
  <2>2. hand' = <<>> /\ at' \in {"sites", "loop"}
    BY <2>1 DEF Done
  <2>3. Len(found') \in {Len(found), Len(found) + 1}
    BY <1>0, <2>1, SavedOne
  <2> QED
    BY <1>0, <2>1, <2>2, <2>3 DEF Stopping
<1>3. CASE Listing
  <2>1. /\ at = "listings" /\ at' = at /\ hand' = hand
        /\ UNCHANGED <<cancelledAt, misses>>
        /\ \/ UNCHANGED gains
           \/ \E c : c.keys \subseteq LeadKey /\ c.mail = NoMail /\ Host[hand[1]] \in c.keys /\ Save(c)
    BY <1>3, ListingEffect
  <2>2. CASE UNCHANGED gains
    BY <2>1, <2>2 DEF Stopping, gains
  <2>3. CASE ~UNCHANGED gains
    <3>1. PICK c : c.keys \subseteq LeadKey /\ c.mail = NoMail /\ Host[hand[1]] \in c.keys /\ Save(c)
      BY <2>1, <2>3
    <3>2. found' = Append(found, c.keys) /\ index' = index \cup c.keys /\ c.keys \cap index = {}
      BY <2>3, <3>1, SaveEffect DEF DiscoveryTypes
    <3>3. Len(found') = Len(found) + 1
      BY <3>1, <3>2 DEF DiscoveryTypes, GainTypes
    <3>4. Host[hand[1]] \notin index /\ Host[hand'[1]] \in index'
      BY <2>1, <3>1, <3>2
    <3> QED
      BY <1>0, <2>1, <3>3, <3>4 DEF Stopping
  <2> QED
    BY <2>2, <2>3
<1>4. CASE Search
  <2>1. at = "queries" /\ hand' = <<>> /\ at' \in {"queries", "loop"} /\ UNCHANGED <<found, cancelledAt, misses>>
    BY <1>4 DEF Search, Working, Done, gains
  <2> QED
    BY <2>1 DEF Stopping
<1>5. CASE ReadDirectory
  <2>1. at = "directory" /\ hand # <<>> /\ UNCHANGED <<found, cancelledAt, misses>>
    BY <1>5 DEF ReadDirectory, Working, gains
  <2> QED
    BY <2>1 DEF Stopping
<1>6. CASE EndRun \/ DropBatch \/ EndDirectory
  <2>1. at' \in {"loop", "done"} /\ UNCHANGED <<found, cancelledAt, misses>>
    BY <1>6 DEF EndRun, DropBatch, EndDirectory, gains
  <2> QED
    BY <2>1 DEF Stopping
<1>7. CASE Cancel
  <2>1. cancelledAt' = Len(found) /\ found' = found
    BY <1>7 DEF Cancel, gains
  <2> QED
    BY <1>0, <2>1 DEF Stopping
<1>8. CASE UNCHANGED discoveryVars
  BY <1>8 DEF discoveryVars, gains, Stopping
<1> QED
  BY <1>1, <1>2, <1>3, <1>4, <1>5, <1>6, <1>7, <1>8 DEF DiscoveryNext, DiscoveryWork

(* A cancelled run saves at most the target it had in hand, unless a status   *)
(* of the job could not be read.                                              *)
THEOREM CancelledStops == DiscoverySpec => []CancelStops
<1>1. DiscoveryInit => Stopping
  BY DEF DiscoveryInit, Stopping
<1>2. DiscoverySpec => [](DiscoveryTypes /\ Stopping)
  BY <1>1, InitDiscovery, StepTypes, StoppingStep, PTL DEF DiscoverySpec
<1> QED
  BY <1>2, PTL DEF Stopping, CancelStops
-----------------------------------------------------------------------------
(* How often a suburb is planned                                           *)

Once(s, x) == \E j \in 1 .. Len(s) : s[j] = x /\ \A k \in 1 .. Len(s) : s[k] = x => k = j
Never(s, x) == \A j \in 1 .. Len(s) : s[j] # x

LEMMA OnceIsOne ==
    ASSUME NEW s, NEW x, Once(s, x)
    PROVE  Cardinality({j \in 1 .. Len(s) : s[j] = x}) = 1
<1>1. PICK j \in 1 .. Len(s) : s[j] = x /\ \A k \in 1 .. Len(s) : s[k] = x => k = j
  BY DEF Once
<1>2. {k \in 1 .. Len(s) : s[k] = x} = {j}
  BY <1>1
<1>3. Cardinality({j}) = 1
  BY FS_Singleton
<1> QED
  BY <1>2, <1>3

LEMMA Joined ==
    ASSUME NEW S, NEW s \in Seq(S), NEW t \in Seq(S), NEW x
    PROVE  /\ Never(s, x) /\ Never(t, x) => Never(s \o t, x)
           /\ Once(s, x) /\ Never(t, x) => Once(s \o t, x)
           /\ Never(s, x) /\ Once(t, x) => Once(s \o t, x)
<1> DEFINE m == Len(s)
           n == Len(t)
           st == s \o t
<1>1. m \in Nat /\ n \in Nat /\ Len(st) = m + n
  OBVIOUS
<1>2. \A i \in 1 .. m : i \in 1 .. m + n /\ st[i] = s[i]
  BY <1>1
<1>3. \A i \in 1 .. n : m + i \in 1 .. m + n /\ st[m + i] = t[i]
  BY <1>1
<1>4. \A i \in 1 .. m + n : i \in 1 .. m \/ (i - m \in 1 .. n /\ i = m + (i - m) /\ st[i] = t[i - m])
  BY <1>1, <1>3
<1> HIDE DEF m, n, st
<1>5. ASSUME Never(s, x), Never(t, x) PROVE Never(st, x)
  BY <1>1, <1>2, <1>4, <1>5 DEF Never, m, n
<1>6. ASSUME Once(s, x), Never(t, x) PROVE Once(st, x)
  <2>1. PICK j \in 1 .. m : s[j] = x /\ \A k \in 1 .. m : s[k] = x => k = j
    BY <1>6 DEF Once, m
  <2>2. \A k \in 1 .. m + n : st[k] = x => k = j
    BY <1>2, <1>4, <1>6, <2>1 DEF Never, n
  <2> QED
    BY <1>1, <1>2, <2>1, <2>2 DEF Once
<1>7. ASSUME Never(s, x), Once(t, x) PROVE Once(st, x)
  <2>1. PICK j \in 1 .. n : t[j] = x /\ \A k \in 1 .. n : t[k] = x => k = j
    BY <1>7 DEF Once, n
  <2>2. \A k \in 1 .. m + n : st[k] = x => k = m + j
    BY <1>2, <1>4, <1>7, <2>1 DEF Never, m
  <2> QED
    BY <1>1, <1>3, <2>1, <2>2 DEF Once
<1> QED
  BY <1>5, <1>6, <1>7 DEF st

(* What is taken from the front of a sequence and what is left are the whole. *)
LEMMA PartsAreAll ==
    ASSUME NEW S, NEW s \in Seq(S), NEW n \in Nat
    PROVE  Upto(s, n) \o After(s, n) = s
<1>1. Len(s) \in Nat /\ \A i \in 1 .. Len(s) : s[i] \in S
  OBVIOUS
<1>2. CASE n <= Len(s)
  <2>1. Upto(s, n) = SubSeq(s, 1, n) /\ After(s, n) = SubSeq(s, n + 1, Len(s))
    BY <1>1, <1>2 DEF Upto, After
  <2>2. 1 \in 1 .. Len(s) + 1 /\ n \in 1 - 1 .. Len(s) /\ Len(s) \in n .. Len(s)
    BY <1>1, <1>2
  <2>3. SubSeq(s, 1, n) \o SubSeq(s, n + 1, Len(s)) = SubSeq(s, 1, Len(s))
    BY <2>2, ConcatAdjacentSubSeq
  <2> QED
    BY <2>1, <2>3, SubSeqFull
<1>3. CASE Len(s) < n
  <2>1. Upto(s, n) = SubSeq(s, 1, Len(s)) /\ After(s, n) = SubSeq(s, n + 1, Len(s))
    BY <1>3 DEF Upto, After
  <2>2. Upto(s, n) = s
    BY <2>1, SubSeqFull
  <2>3. After(s, n) = <<>>
    BY <1>1, <1>3, <2>1
  <2> QED
    BY <2>2, <2>3, ConcatEmptySeq
<1> QED
  BY <1>1, <1>2, <1>3

(* What a selection keeps of a sequence without repetitions, it has once.     *)
LEMMA WithinOnce ==
    ASSUME NEW s, Len(s) \in Nat, NEW T, NEW x,
           \A i, j \in 1 .. Len(s) : s[i] = s[j] => i = j
    PROVE  /\ x \notin T => Never(Within(s, T), x)
           /\ x \in T /\ (\E i \in 1 .. Len(s) : s[i] = x) => Once(Within(s, T), x)
<1> DEFINE kept == {i \in 1 .. Len(s) : s[i] \in T}
           Below(i) == {j \in kept : j <= i}
           Nth(n) == CHOOSE i \in kept : Cardinality(Below(i)) = n
           c == Cardinality(kept)
<1>1. /\ IsFiniteSet(kept) /\ c \in Nat
      /\ \A n \in 1 .. c : \E i \in kept : Cardinality(Below(i)) = n
  BY Ranked
<1>2. \A n \in 1 .. c : Nth(n) \in kept /\ Cardinality(Below(Nth(n))) = n
  <2> HIDE DEF kept, Below
  <2> QED
    BY <1>1
<1>3. /\ Len(Within(s, T)) = c
      /\ \A n \in 1 .. c : Within(s, T)[n] = s[Nth(n)]
  <2>1. Within(s, T) = [n \in 1 .. c |-> s[Nth(n)]]
    BY DEF Within
  <2> HIDE DEF kept, Below, Nth, c
  <2> QED
    BY <1>1, <2>1
<1>4. ASSUME x \notin T PROVE Never(Within(s, T), x)
  <2>1. \A i \in kept : s[i] # x
    BY <1>4
  <2> HIDE DEF kept, Below, Nth, c
  <2> QED
    BY <1>2, <1>3, <2>1 DEF Never
<1>5. ASSUME x \in T, \E i \in 1 .. Len(s) : s[i] = x PROVE Once(Within(s, T), x)
  <2>1. PICK i \in 1 .. Len(s) : s[i] = x
    BY <1>5
  <2>2. i \in kept /\ \A j \in kept : s[j] = x => j = i
    BY <1>5, <2>1
  <2> DEFINE r == Cardinality(Below(i))
  <2>3. r \in 1 .. c
    <3>1. Below(i) \in SUBSET kept
      OBVIOUS
    <3>2. i \in Below(i)
      BY <2>2
    <3> HIDE DEF kept, Below
    <3>3. IsFiniteSet(Below(i)) /\ Cardinality(Below(i)) <= c
      BY <1>1, <3>1, FS_Subset
    <3>4. {i} \in SUBSET Below(i)
      BY <3>2
    <3>5. Cardinality({i}) <= Cardinality(Below(i)) /\ Cardinality({i}) = 1
      BY <3>3, <3>4, FS_Subset, FS_Singleton
    <3>6. Cardinality(Below(i)) \in Nat
      BY <3>3, FS_CardinalityType
    <3> QED
      BY <1>1, <3>3, <3>5, <3>6
  <2>4. Nth(r) = i
    <3>1. ASSUME NEW j \in kept, NEW k \in kept, j < k
          PROVE  Cardinality(Below(j)) # Cardinality(Below(k))
      <4>1. j \in Nat /\ k \in Nat
        OBVIOUS
      <4>2. \A l \in kept : l <= j => l <= k
        BY <3>1, <4>1
      <4>3. Below(j) \in SUBSET Below(k)
        BY <4>2
      <4>4. k \in Below(k) /\ k \notin Below(j)
        BY <3>1, <4>1
      <4>5. Below(k) \in SUBSET kept
        OBVIOUS
      <4> HIDE DEF kept, Below
      <4>6. IsFiniteSet(Below(k))
        BY <1>1, <4>5, FS_Subset
      <4>7. Cardinality(Below(k)) = Cardinality(Below(j)) => Below(k) = Below(j)
        BY <4>3, <4>6, FS_Subset
      <4> QED
        BY <4>4, <4>7
    <3>2. Nth(r) \in kept /\ Cardinality(Below(Nth(r))) = Cardinality(Below(i))
      <4> HIDE DEF kept, Below, Nth
      <4> QED
        BY <1>2, <2>3
    <3>3. Nth(r) \in Int /\ i \in Int
      <4>1. \A j \in kept : j \in Int
        OBVIOUS
      <4> HIDE DEF kept, Nth
      <4> QED
        BY <2>2, <3>2, <4>1
    <3> HIDE DEF kept, Below, Nth, r
    <3>4. ~(Nth(r) < i) /\ ~(i < Nth(r))
      BY <2>2, <3>1, <3>2
    <3> QED
      BY <3>3, <3>4
  <2> HIDE DEF kept, Below, Nth, c, r
  <2>5. Within(s, T)[r] = x
    BY <1>3, <2>1, <2>3, <2>4
  <2>6. ASSUME NEW n \in 1 .. c, Within(s, T)[n] = x PROVE n = r
    <3>1. Nth(n) = i
      BY <1>2, <1>3, <2>2, <2>6
    <3> QED
      BY <1>2, <2>3, <2>4, <3>1
  <2> QED
    BY <1>3, <2>3, <2>5, <2>6 DEF Once
<1> QED
  BY <1>4, <1>5

(* At a distance d from the suburb asked for, the loop has gathered what is   *)
(* no further away, once.                                                     *)
Reached(h, d, i) == i # h /\ h - d <= i /\ i <= h + d
Gathered(h, d, s) ==
  \A i \in 1 .. Len(Suburbs) :
    IF Reached(h, d, i) THEN Once(s, Suburbs[i]) ELSE Never(s, Suburbs[i])

LEMMA OneOf ==
    ASSUME NEW j \in Int, NEW i \in 1 .. Len(Suburbs)
    PROVE  /\ One(j) \in Seq(Area)
           /\ i = j => Once(One(j), Suburbs[i])
           /\ i # j => Never(One(j), Suburbs[i])
<1>1. \A k \in 1 .. Len(Suburbs) : Suburbs[k] \in Area /\ (Suburbs[k] = Suburbs[i] => k = i)
  BY PageAssumptions
<1>2. CASE j \in 1 .. Len(Suburbs)
  <2>1. One(j) = <<Suburbs[j]>> /\ Len(One(j)) = 1 /\ One(j)[1] = Suburbs[j]
    BY <1>2 DEF One
  <2> QED
    BY <1>1, <1>2, <2>1 DEF Once, Never
<1>3. CASE j \notin 1 .. Len(Suburbs)
  <2>1. One(j) = <<>> /\ Len(One(j)) = 0
    BY <1>3 DEF One
  <2> QED
    BY <1>3, <2>1 DEF Never
<1> QED
  BY <1>2, <1>3

LEMMA AroundOnce ==
    ASSUME NEW a \in Area, Among(a, Suburbs), NEW d \in Nat \ {0}, NEW i \in 1 .. Len(Suburbs)
    PROVE  IF i = Here(a) - d \/ i = Here(a) + d
           THEN Once(Around(a, d), Suburbs[i]) ELSE Never(Around(a, d), Suburbs[i])
<1> DEFINE h == Here(a)
<1>1. h \in Int /\ h - d \in Int /\ h + d \in Int /\ h - d # h + d
  BY HereIs
<1> HIDE DEF h
<1>2. /\ One(h - d) \in Seq(Area) /\ One(h + d) \in Seq(Area)
      /\ IF i = h - d THEN Once(One(h - d), Suburbs[i]) ELSE Never(One(h - d), Suburbs[i])
      /\ IF i = h + d THEN Once(One(h + d), Suburbs[i]) ELSE Never(One(h + d), Suburbs[i])
  BY <1>1, OneOf
<1> DEFINE x == One(h - d)
           y == One(h + d)
<1>3. Around(a, d) = x \o y
  BY DEF Around, h
<1> HIDE DEF x, y
<1>4. /\ Never(x, Suburbs[i]) /\ Never(y, Suburbs[i]) => Never(x \o y, Suburbs[i])
      /\ Once(x, Suburbs[i]) /\ Never(y, Suburbs[i]) => Once(x \o y, Suburbs[i])
      /\ Never(x, Suburbs[i]) /\ Once(y, Suburbs[i]) => Once(x \o y, Suburbs[i])
  BY <1>2, Joined DEF x, y
<1> QED
  BY <1>1, <1>2, <1>3, <1>4 DEF h, x, y

LEMMA GrownGathers ==
    ASSUME NEW a \in Area, Among(a, Suburbs), NEW v \in Ring, NEW d \in Nat \ {0},
           Gathered(Here(a), d - 1, v.groups \o v.current)
    PROVE  LET w == Grown(a, v, d) IN Gathered(Here(a), d, w.groups \o w.current)
<1> DEFINE w == Grown(a, v, d)
           h == Here(a)
           old == v.groups \o v.current
           new == Around(a, d)
<1>1. v.groups \in Seq(Area) /\ v.current \in Seq(Area) /\ new \in Seq(Area) /\ old \in Seq(Area)
      /\ v.current \o new \in Seq(Area)
  <2>1. v.groups \in Seq(Area) /\ v.current \in Seq(Area) /\ new \in Seq(Area)
    BY HereIs DEF Ring
  <2> HIDE DEF new
  <2> QED
    BY <2>1
<1> HIDE DEF new
<1>2. w.groups \o w.current = old \o new
  <2>1. (v.groups \o v.current) \o new = v.groups \o (v.current \o new)
    <3> DEFINE g == v.groups
               c == v.current
    <3>1. g \in Seq(Area) /\ c \in Seq(Area) /\ new \in Seq(Area)
      BY <1>1
    <3> HIDE DEF g, c
    <3>2. (g \o c) \o new = g \o (c \o new)
      BY <3>1, ConcatAssociative
    <3> QED
      BY <3>2 DEF g, c
  <2>2. CASE Full(a, v, d)
    <3>1. w.groups = v.groups \o (v.current \o new) /\ w.current = <<>>
      BY <2>2 DEF Grown, new
    <3>2. v.groups \o (v.current \o new) \in Seq(Area)
      BY <1>1
    <3>3. (v.groups \o (v.current \o new)) \o <<>> = v.groups \o (v.current \o new)
      BY <3>2, ConcatEmptySeq
    <3> QED
      BY <2>1, <3>1, <3>3
  <2>3. CASE ~Full(a, v, d)
    <3>1. w.groups = v.groups \o <<>> /\ w.current = v.current \o new
      BY <2>3 DEF Grown, new
    <3>2. v.groups \o <<>> = v.groups
      BY <1>1, ConcatEmptySeq
    <3> QED
      BY <2>1, <3>1, <3>2
  <2> QED
    BY <2>2, <2>3
<1>3. h \in Int
  BY HereIs
<1> HIDE DEF h
<1>4. ASSUME NEW i \in 1 .. Len(Suburbs)
      PROVE  IF Reached(h, d, i) THEN Once(old \o new, Suburbs[i]) ELSE Never(old \o new, Suburbs[i])
  <2>1. IF i = h - d \/ i = h + d THEN Once(new, Suburbs[i]) ELSE Never(new, Suburbs[i])
    BY AroundOnce DEF new, h
  <2>2. IF Reached(h, d - 1, i) THEN Once(old, Suburbs[i]) ELSE Never(old, Suburbs[i])
    BY DEF Gathered, h
  <2>3. /\ Reached(h, d, i) <=> (Reached(h, d - 1, i) \/ i = h - d \/ i = h + d)
        /\ ~(Reached(h, d - 1, i) /\ (i = h - d \/ i = h + d))
    BY <1>3 DEF Reached
  <2> HIDE DEF old
  <2>4. /\ Never(old, Suburbs[i]) /\ Never(new, Suburbs[i]) => Never(old \o new, Suburbs[i])
        /\ Once(old, Suburbs[i]) /\ Never(new, Suburbs[i]) => Once(old \o new, Suburbs[i])
        /\ Never(old, Suburbs[i]) /\ Once(new, Suburbs[i]) => Once(old \o new, Suburbs[i])
    BY <1>1, Joined
  <2> QED
    BY <2>1, <2>2, <2>3, <2>4
<1> HIDE DEF w, old
<1>5. Gathered(h, d, w.groups \o w.current)
  BY <1>2, <1>4 DEF Gathered
<1> QED
  BY <1>5 DEF w, h

(* The neighbours of a suburb are all the others, each once.                  *)
LEMMA ProximityOnce ==
    ASSUME NEW a \in Area, a \notin DOMAIN Neighbours, Among(a, Suburbs), NEW i \in 1 .. Len(Suburbs)
    PROVE  /\ i # Here(a) => Once(Proximity(a), Suburbs[i])
           /\ i = Here(a) => Never(Proximity(a), Suburbs[i])
<1> DEFINE n == Len(Suburbs)
           h == Here(a)
           k == n - 1
<1>1. PICK upto \in [0 .. n - 1 -> Ring] :
             /\ upto[0] = NoRing
             /\ \A d \in 1 .. n - 1 : upto[d] = Grown(a, upto[d - 1], d)
             /\ Proximity(a) = upto[n - 1].groups
  BY ProximityGrown
<1>2. n \in Nat /\ h \in 1 .. n /\ k \in Nat
  BY HereIs
<1> HIDE DEF h, n
<1> DEFINE Whole(d) == Gathered(h, d, upto[d].groups \o upto[d].current)
<1>3. Whole(0)
  <2>1. upto[0].groups \o upto[0].current = <<>> \o <<>>
    BY <1>1 DEF NoRing
  <2>2. \A x : Never(<<>> \o <<>>, x)
    BY DEF Never
  <2>3. \A j \in 1 .. n : ~Reached(h, 0, j)
    BY <1>2 DEF Reached
  <2> QED
    BY <2>1, <2>2, <2>3 DEF Gathered, n
<1>4. ASSUME NEW d \in 1 .. k, Whole(d - 1) PROVE Whole(d)
  <2>1. d - 1 \in 0 .. n - 1 /\ d \in 1 .. n - 1 /\ d \in Nat \ {0}
    BY <1>2
  <2>2. upto[d - 1] \in Ring /\ upto[d] = Grown(a, upto[d - 1], d)
    BY <1>1, <2>1
  <2> QED
    BY <1>4, <2>1, <2>2, GrownGathers DEF h
<1>5. Whole(k)
  <2> DEFINE T == {d \in 0 .. k : Whole(d)}
  <2> HIDE DEF k, Whole
  <2>1. 0 \in T /\ \A d \in 1 .. k : d - 1 \in T => d \in T
    BY <1>2, <1>3, <1>4
  <2> HIDE DEF T
  <2>2. 0 .. k \subseteq T
    BY <1>2, <2>1, NextNumbers
  <2> QED
    BY <1>2, <2>2 DEF T
<1>6. upto[k].current = <<>> /\ upto[k].groups \in Seq(Area)
  <2>1. CASE k = 0
    <3>1. upto[k] = NoRing
      BY <1>1, <2>1, Zenon
    <3>2. NoRing.current = <<>> /\ NoRing.groups \in Seq(Area)
      BY DEF NoRing
    <3> QED
      BY <3>1, <3>2, Zenon
  <2>2. CASE k # 0
    <3>1. k \in 1 .. n - 1 /\ upto[k] = Grown(a, upto[k - 1], k) /\ upto[k] \in Ring
      BY <1>1, <1>2, <2>2
    <3>2. Full(a, upto[k - 1], k)
      BY DEF Full, n
    <3> QED
      BY <3>1, <3>2 DEF Grown, Ring
  <2> QED
    BY <2>1, <2>2
<1>7. upto[k].groups \o upto[k].current = Proximity(a)
  <2>1. upto[k].groups \o <<>> = upto[k].groups
    BY <1>6, ConcatEmptySeq
  <2> QED
    BY <1>1, <1>6, <2>1
<1>8. i \in 1 .. n
  BY DEF n
<1>9. Reached(h, k, i) <=> i # h
  BY <1>2, <1>8 DEF Reached
<1> QED
  BY <1>5, <1>7, <1>8, <1>9 DEF Gathered, h, n

(* Every suburb is once in the list for a metro.                              *)
LEMMA OrderedOnce ==
    ASSUME NEW a \in Area, NEW i \in 1 .. Len(Suburbs)
    PROVE  Ordered(a) \in Seq(Area) /\ Once(Ordered(a), Suburbs[i])
<1>1. /\ Len(Suburbs) \in Nat /\ Suburbs \in Seq(Area) /\ Suburbs[i] \in Area
      /\ \A j, k \in 1 .. Len(Suburbs) : Suburbs[j] = Suburbs[k] => j = k
  BY PageAssumptions
<1>2. CASE ~Among(a, Suburbs)
  BY <1>1, <1>2 DEF Ordered, Once
<1>3. CASE Among(a, Suburbs)
  <2> DEFINE rest == Within(Suburbs, Area \ {a})
  <2>1. Ordered(a) = <<a>> \o rest
    BY <1>3 DEF Ordered
  <2>2. <<a>> \in Seq(Area) /\ Len(<<a>>) = 1 /\ <<a>>[1] = a
    OBVIOUS
  <2>3. rest \in Seq(Area)
    <3>1. rest \in Seq(Area \ {a})
      BY <1>1, Selected
    <3> HIDE DEF rest
    <3> QED
      BY <3>1
  <2>4. IF Suburbs[i] = a THEN Never(rest, Suburbs[i]) ELSE Once(rest, Suburbs[i])
    <3>1. \E j \in 1 .. Len(Suburbs) : Suburbs[j] = Suburbs[i]
      OBVIOUS
    <3> QED
      BY <1>1, <3>1, WithinOnce
  <2>5. IF Suburbs[i] = a THEN Once(<<a>>, Suburbs[i]) ELSE Never(<<a>>, Suburbs[i])
    BY <2>2 DEF Once, Never
  <2> HIDE DEF rest
  <2>6. /\ Once(<<a>>, Suburbs[i]) /\ Never(rest, Suburbs[i]) => Once(<<a>> \o rest, Suburbs[i])
        /\ Never(<<a>>, Suburbs[i]) /\ Once(rest, Suburbs[i]) => Once(<<a>> \o rest, Suburbs[i])
    BY <2>2, <2>3, Joined
  <2>7. <<a>> \o rest \in Seq(Area)
    BY <2>2, <2>3
  <2> QED
    BY <2>1, <2>4, <2>5, <2>6, <2>7
<1> QED
  BY <1>2, <1>3
-----------------------------------------------------------------------------
(* Every suburb is planned before a run gives up                           *)

(* A run for the whole city, whose suburbs are all planned or held back, and  *)
(* why it may have ended.                                                     *)
ForAll ==
  \/ scope = "metro"
  \/ scope = "nearby" /\ Among(location, Suburbs) /\ location \notin DOMAIN Neighbours
KeptBack == ForAll => \A i \in 1 .. Len(Suburbs) : Once(areas \o heldBack, Suburbs[i])
Reasons ==
  at = "done" =>
    \/ cancelledAt # -1 \/ emails >= Quantity \/ turns >= MaxTurns
    \/ heldBack = <<>> \/ scope \notin {"nearby", "metro"}
Planning == KeptBack /\ Reasons

LEMMA PlanningImplies == DiscoveryTypes /\ Planning => SuburbsCovered
<1> SUFFICES ASSUME DiscoveryTypes, Planning,
                    at = "done", cancelledAt = -1, emails < Quantity, turns < MaxTurns, ForAll,
                    NEW i \in 1 .. Len(Suburbs)
             PROVE  Cardinality({j \in 1 .. Len(areas) : areas[j] = Suburbs[i]}) = 1
  BY DEF SuburbsCovered, ForAll
<1>1. emails \in Int /\ turns \in Int /\ areas \in Seq(Area)
  BY DEF DiscoveryTypes, QueueTypes, GainTypes, CountTypes
<1>2. heldBack = <<>>
  BY <1>1, DiscoveryAssumption DEF Planning, Reasons, ForAll
<1>3. Once(areas \o <<>>, Suburbs[i])
  BY <1>2 DEF Planning, KeptBack
<1>4. areas \o <<>> = areas
  BY <1>1, ConcatEmptySeq
<1> QED
  BY <1>3, <1>4, OnceIsOne

LEMMA InitPlanning == DiscoveryInit => Planning
<1> SUFFICES ASSUME DiscoveryInit PROVE Planning
  OBVIOUS
<1>1. location \in Area /\ AtOnce \in Nat /\ areas = FirstAreas(location, scope) /\ heldBack = LaterAreas(location, scope)
  BY PageAssumptions DEF DiscoveryInit
<1>2. CASE scope = "metro"
  <2>1. areas = Upto(Ordered(location), AtOnce) /\ heldBack = After(Ordered(location), AtOnce)
    BY <1>1, <1>2 DEF FirstAreas, LaterAreas
  <2>2. \A i \in 1 .. Len(Suburbs) : Ordered(location) \in Seq(Area) /\ Once(Ordered(location), Suburbs[i])
    BY <1>1, OrderedOnce
  <2> SUFFICES ASSUME NEW i \in 1 .. Len(Suburbs)
               PROVE  Once(areas \o heldBack, Suburbs[i]) /\ Reasons
    BY DEF Planning, KeptBack, Reasons, DiscoveryInit
  <2>3. areas \o heldBack = Ordered(location)
    BY <1>1, <2>1, <2>2, PartsAreAll
  <2> QED
    BY <2>2, <2>3 DEF Reasons, DiscoveryInit
<1>3. CASE scope = "nearby" /\ Among(location, Suburbs) /\ location \notin DOMAIN Neighbours
  <2>1. areas = <<location>> /\ heldBack = Proximity(location)
    BY <1>1, <1>3 DEF FirstAreas, LaterAreas
  <2>2. /\ Proximity(location) \in Seq(Area) /\ <<location>> \in Seq(Area)
        /\ Len(<<location>>) = 1 /\ <<location>>[1] = location
    BY <1>1, ProximityTypes
  <2>3. ASSUME NEW i \in 1 .. Len(Suburbs)
        PROVE  Once(<<location>> \o Proximity(location), Suburbs[i])
    <3>1. Here(location) \in 1 .. Len(Suburbs) /\ Suburbs[Here(location)] = location
      BY <1>1, <1>3, HereIs
    <3>2. Suburbs[i] = location <=> i = Here(location)
      BY <3>1, PageAssumptions
    <3>3. IF i = Here(location) THEN Never(Proximity(location), Suburbs[i]) ELSE Once(Proximity(location), Suburbs[i])
      BY <1>1, <1>3, ProximityOnce
    <3>4. IF Suburbs[i] = location THEN Once(<<location>>, Suburbs[i]) ELSE Never(<<location>>, Suburbs[i])
      BY <2>2 DEF Once, Never
    <3> QED
      BY <2>2, <3>2, <3>3, <3>4, Joined
  <2> QED
    BY <2>1, <2>3 DEF Planning, KeptBack, Reasons, DiscoveryInit
<1>4. CASE ~ForAll
  BY <1>4 DEF Planning, KeptBack, Reasons, DiscoveryInit
<1> QED
  BY <1>2, <1>3, <1>4 DEF ForAll

(* Only the expansion moves areas, from the ones held back to the active.     *)
LEMMA KeptBackStep == DiscoveryTypes /\ KeptBack /\ [DiscoveryNext]_discoveryVars => KeptBack'
<1> SUFFICES ASSUME DiscoveryTypes, KeptBack, [DiscoveryNext]_discoveryVars PROVE KeptBack'
  OBVIOUS
<1>1. CASE ExpandArea
  <2> DEFINE taken == Upto(heldBack, AreaBatch)
             left == After(heldBack, AreaBatch)
  <2>1. areas' = areas \o taken /\ heldBack' = left /\ UNCHANGED <<location, scope>>
    BY <1>1 DEF ExpandArea
  <2>2. areas \in Seq(Area) /\ heldBack \in Seq(Area)
    BY DEF DiscoveryTypes, QueueTypes
  <2>3. taken \in Seq(Area) /\ left \in Seq(Area) /\ taken \o left = heldBack
    BY <2>2, Parts, PartsAreAll, DiscoveryAssumption
  <2> HIDE DEF taken, left
  <2>4. (areas \o taken) \o left = areas \o heldBack
    <3>1. \A s, t, u \in Seq(Area) : (s \o t) \o u = s \o (t \o u)
      BY ConcatAssociative
    <3>2. (areas \o taken) \o left = areas \o (taken \o left)
      BY <2>2, <2>3, <3>1, Zenon
    <3> QED
      BY <2>3, <3>2
  <2>5. areas' \o heldBack' = areas \o heldBack
    BY <2>1, <2>4
  <2> QED
    BY <2>1, <2>5 DEF KeptBack, ForAll
<1>2. CASE ~ExpandArea
  <2>1. UNCHANGED <<location, scope, areas, heldBack>>
    BY <1>2 DEF DiscoveryNext, DiscoveryWork, discoveryVars, where, queues, EndRun, TakeSites, TakeDirectory,
      TakeQueries, BeginTarget, DropBatch, Search, ReadDirectory, Listing, EndDirectory,
      Unreachable, FromCache, Crawl, Cancel
  <2> QED
    BY <2>1 DEF KeptBack, ForAll
<1> QED
  BY <1>1, <1>2

LEMMA ReasonsStep == DiscoveryTypes /\ Reasons /\ [DiscoveryNext]_discoveryVars => Reasons'
<1> SUFFICES ASSUME DiscoveryTypes, Reasons, [DiscoveryNext]_discoveryVars PROVE Reasons'
  OBVIOUS
<1>0. emails \in Int /\ turns \in Int /\ Quantity \in Int /\ MaxTurns \in Int
  BY DiscoveryAssumption DEF DiscoveryTypes, GainTypes, CountTypes
<1>1. CASE EndRun
  <2>1. /\ ~(emails < Quantity /\ turns < MaxTurns) \/ cancelledAt # -1 \/ heldBack = <<>>
           \/ scope \notin {"nearby", "metro"}
        /\ UNCHANGED <<emails, turns, cancelledAt, heldBack, scope>>
    BY <1>1 DEF EndRun, Turning, Exhausted, where, queues, gains
  <2> QED
    BY <1>0, <2>1 DEF Reasons
<1>2. CASE TakeSites \/ TakeDirectory \/ TakeQueries \/ ExpandArea
  <2>1. at' # "done"
    BY <1>2 DEF TakeSites, TakeDirectory, TakeQueries, ExpandArea, Turning
  <2> QED
    BY <2>1 DEF Reasons
<1>3. CASE BeginTarget \/ DropBatch \/ ReadDirectory \/ EndDirectory \/ Listing \/ Cancel
  <2>1. at' # "done"
    BY <1>3 DEF BeginTarget, DropBatch, ReadDirectory, EndDirectory, Listing, Cancel,
      DiscoveryTypes, WorkTypes
  <2> QED
    BY <2>1 DEF Reasons
<1>4. CASE Search \/ Unreachable \/ FromCache \/ Crawl
  <2>1. at' # "done"
    BY <1>4 DEF Search, Unreachable, FromCache, Crawl, Working, Done
  <2> QED
    BY <2>1 DEF Reasons
<1>5. CASE UNCHANGED discoveryVars
  BY <1>5 DEF discoveryVars, where, queues, gains, Reasons
<1> QED
  BY <1>1, <1>2, <1>3, <1>4, <1>5 DEF DiscoveryNext, DiscoveryWork

(* A run for a whole city that gives up early has planned every suburb once.  *)
THEOREM SuburbsAllPlanned == DiscoverySpec => []SuburbsCovered
<1>1. Planning /\ DiscoveryTypes /\ [DiscoveryNext]_discoveryVars => Planning'
  BY KeptBackStep, ReasonsStep DEF Planning
<1>2. DiscoverySpec => [](DiscoveryTypes /\ Planning)
  BY <1>1, InitDiscovery, InitPlanning, StepTypes, PTL DEF DiscoverySpec
<1> QED
  BY <1>2, PlanningImplies, PTL

-----------------------------------------------------------------------------
(* Types of the chat                                                       *)

Stages == {"unsent", "asked", "list", "cancel", "create", "start", "tell", "answered", "refused", "over"}
JobStates == {"none", "pending", "running", "stopping", "ended"}
CommandRow == [stage : Stages, session : Session]
Loads == [session : Session, jobs : SUBSET Command]
Answers == [job : Command, ended : BOOLEAN]

RouteTyped ==
  /\ jobs \in [Command -> JobStates] /\ begun \in SUBSET Command /\ told \in SUBSET Command
  /\ revived \in SUBSET Command
  /\ stored \in [Session -> SUBSET Command]
  /\ command \in [Command -> CommandRow]
  /\ toCancel \in [Command -> SUBSET Command]
PageTyped ==
  /\ target \in SUBSET Session /\ \A s, t \in target : s = t
  /\ shown \in SUBSET Command /\ settled \in SUBSET shown
  /\ loads \in SUBSET Loads /\ polls \in SUBSET Answers
  /\ active \in {0} \cup Command /\ bar \in {0} \cup Command

(* The message of command c is in the database, and its job was created.   *)
Posted(c) == command[c].stage \in {"answered", "over"} /\ jobs[c] # "none"

(* What a command was sent for and what came of it stays.                  *)
ChatAges ==
  \A c \in Command :
    /\ command[c].stage # "unsent" => command'[c].session = command[c].session
    /\ jobs[c] # "none" => jobs'[c] # "none"
    /\ Posted(c) => Posted(c)'

(* A job has been created once its command is past that stage, and not     *)
(* before; only created jobs are cancelled.                                *)
Created ==
  \A c \in Command :
    /\ jobs[c] # "none" => command[c].stage \in {"start", "tell", "answered", "refused", "over"}
    /\ command[c].stage \in {"start", "tell", "answered"} => jobs[c] # "none"
    /\ \A j \in toCancel[c] : jobs[j] # "none"

(* Whatever the database and the page know a command by has been posted,   *)
(* in the session it is known in.                                          *)
RouteCites == \A s \in Session : \A c \in stored[s] : Posted(c) /\ command[c].session = s
PageCites ==
  /\ \A load \in loads : \A c \in load.jobs : Posted(c) /\ command[c].session = load.session
  /\ \A c \in shown \cup ({active, bar} \ {0}) : Posted(c)
  /\ \A p \in polls : Posted(p.job)

ChatFacts == RouteTyped /\ PageTyped /\ Created /\ RouteCites /\ PageCites

LEMMA ChatFactsInit == ChatInit => ChatFacts
<1> SUFFICES ASSUME ChatInit PROVE ChatFacts
  OBVIOUS
<1> USE ChatAssumption
<1>1. RouteTyped /\ Created /\ RouteCites
  BY DEF ChatInit, RouteTyped, Created, RouteCites, CommandRow, Stages, JobStates
<1>2. PageTyped /\ PageCites
  BY DEF ChatInit, PageTyped, PageCites, Loads
<1> QED
  BY <1>1, <1>2 DEF ChatFacts

(* One command goes to its next stage.                                     *)
LEMMA GoesOn ==
    ASSUME RouteTyped, NEW c \in Command, NEW reached \in Stages, Goes(c, reached)
    PROVE  /\ command' \in [Command -> CommandRow]
           /\ \A d \in Command : /\ command'[d].session = command[d].session
                                 /\ command'[d].stage = IF d = c THEN reached ELSE command[d].stage
<1> DEFINE row == [command[c] EXCEPT !.stage = reached]
<1>1. command[c] \in CommandRow
  BY DEF RouteTyped
<1>2. row \in CommandRow /\ row.session = command[c].session /\ row.stage = reached
  BY <1>1 DEF CommandRow
<1>3. command' = [command EXCEPT ![c] = row]
  BY DEF Goes
<1> HIDE DEF row
<1> QED
  BY <1>2, <1>3 DEF RouteTyped

(* One job changes its state.                                              *)
LEMMA JobChanges ==
    ASSUME RouteTyped, NEW j \in Command, NEW state \in JobStates, jobs' = [jobs EXCEPT ![j] = state]
    PROVE  /\ jobs' \in [Command -> JobStates]
           /\ \A d \in Command : jobs'[d] = IF d = j THEN state ELSE jobs[d]
BY DEF RouteTyped

(* Whether or not the job is still to be told, its state and `told` say so. *)
LEMMA Requested ==
    ASSUME RouteTyped, NEW j \in Command, RequestCancellation(j)
    PROVE  \E state \in JobStates :
             /\ jobs' \in [Command -> JobStates]
             /\ \A d \in Command : jobs'[d] = IF d = j THEN state ELSE jobs[d]
             /\ told' \in SUBSET Command /\ told \subseteq told'
             /\ \/ jobs[j] = "ended" /\ state = "ended"
                \/ jobs[j] # "ended" /\ state = "stopping" /\ j \in told'
<1>1. CASE jobs[j] = "ended"
  <2>1. jobs' = jobs /\ told' = told
    BY <1>1 DEF RequestCancellation
  <2> QED
    BY <1>1, <2>1 DEF RouteTyped, JobStates
<1>2. CASE jobs[j] # "ended"
  <2>1. jobs' = [jobs EXCEPT ![j] = "stopping"] /\ told' = told \cup {j}
    BY <1>2 DEF RequestCancellation
  <2>2. "stopping" \in JobStates
    BY DEF JobStates
  <2>3. jobs' \in [Command -> JobStates] /\ \A d \in Command : jobs'[d] = IF d = j THEN "stopping" ELSE jobs[d]
    BY <2>1, <2>2, JobChanges
  <2>4. told' \in SUBSET Command
    BY <2>1 DEF RouteTyped
  <2> QED
    BY <1>2, <2>1, <2>2, <2>3, <2>4
<1> QED
  BY <1>1, <1>2

-----------------------------------------------------------------------------
(* The steps of the route and of the worker                                *)

RouteEffect == RouteTyped' /\ Created' /\ RouteCites' /\ ChatAges /\ UNCHANGED pageVars

LEMMA CommandEffect ==
    ASSUME RouteTyped, Created, RouteCites, NEW c \in Command, RouteStep(c)
    PROVE  RouteEffect
<1>0. command[c] \in CommandRow
  BY DEF RouteTyped
<1>1. CASE PlanCommand(c)
  <2>1. PICK reached \in {"list", "refused"} : Goes(c, reached)
    BY <1>1 DEF PlanCommand
  <2>2. command[c].stage = "asked" /\ UNCHANGED <<jobs, begun, told, revived, stored, toCancel, pageVars>>
    BY <1>1 DEF PlanCommand, AtStage
  <2>3. /\ command' \in [Command -> CommandRow]
        /\ \A d \in Command : /\ command'[d].session = command[d].session
                              /\ command'[d].stage = IF d = c THEN reached ELSE command[d].stage
    BY <2>1, GoesOn DEF Stages
  <2> QED
    <3>1. RouteTyped'
      BY <2>1, <2>2, <2>3 DEF RouteTyped
    <3>2. Created'
      BY <2>1, <2>2, <2>3 DEF RouteTyped, Created
    <3>3. RouteCites' /\ ChatAges
      BY <2>1, <2>2, <2>3 DEF RouteTyped, RouteCites, ChatAges, Posted
    <3> QED
      BY <2>1, <2>2, <2>3, <3>1, <3>2, <3>3 DEF RouteEffect
<1>2. CASE ListActive(c)
  <2>1. command[c].stage = "list" /\ UNCHANGED <<jobs, begun, told, revived, stored, pageVars>>
    BY <1>2 DEF ListActive, AtStage
  <2>2. /\ command' \in [Command -> CommandRow]
        /\ \A d \in Command : /\ command'[d].session = command[d].session
                              /\ command'[d].stage = IF d = c THEN "cancel" ELSE command[d].stage
    BY <1>2, GoesOn DEF Stages, ListActive
  <2>3. toCancel' = [toCancel EXCEPT ![c] = {j \in Command : jobs[j] \in {"pending", "running"}}]
    BY <1>2 DEF ListActive
  <2> QED
    BY <2>1, <2>2, <2>3 DEF RouteEffect, RouteTyped, Created, RouteCites, ChatAges, Posted
<1>3. CASE CancelActive(c)
  <2>1. command[c].stage = "cancel" /\ UNCHANGED <<begun, revived, stored, pageVars>>
    BY <1>3 DEF CancelActive, AtStage
  <2>2. CASE toCancel[c] = {}
    <3>1. /\ command' \in [Command -> CommandRow]
          /\ \A d \in Command : /\ command'[d].session = command[d].session
                                /\ command'[d].stage = IF d = c THEN "create" ELSE command[d].stage
      BY <1>3, <2>2, GoesOn DEF Stages, CancelActive
    <3>2. UNCHANGED <<jobs, told, toCancel>>
      BY <1>3, <2>2 DEF CancelActive
    <3> QED
      BY <2>1, <3>1, <3>2 DEF RouteEffect, RouteTyped, Created, RouteCites, ChatAges, Posted
  <2>3. CASE toCancel[c] # {}
    <3>1. PICK j \in toCancel[c] :
            RequestCancellation(j) /\ toCancel' = [toCancel EXCEPT ![c] = @ \ {j}] /\ command' = command
      BY <1>3, <2>3 DEF CancelActive
    <3>2. j \in Command /\ jobs[j] # "none"
      BY DEF RouteTyped, Created
    <3>3. PICK state \in {"ended", "stopping"} :
            /\ jobs' \in [Command -> JobStates] /\ told' \in SUBSET Command
            /\ \A d \in Command : jobs'[d] = IF d = j THEN state ELSE jobs[d]
      BY <3>1, <3>2, Requested
    <3>4. RouteTyped'
      BY <2>1, <3>1, <3>3 DEF RouteTyped
    <3>5. \A d \in Command : (jobs[d] = "none") <=> (jobs'[d] = "none")
      BY <3>2, <3>3
    <3>6. \A d \in Command : toCancel'[d] \subseteq toCancel[d] /\ toCancel[d] \subseteq Command
      BY <3>1 DEF RouteTyped
    <3>7. Created'
      BY <3>1, <3>5, <3>6 DEF Created
    <3>8. RouteCites' /\ ChatAges
      BY <2>1, <3>1, <3>5 DEF RouteTyped, RouteCites, ChatAges, Posted
    <3> QED
      BY <2>1, <3>4, <3>7, <3>8 DEF RouteEffect
  <2> QED
    BY <2>2, <2>3
<1>4. CASE CancelActiveFails(c)
  <2>1. /\ command[c].stage = "cancel" /\ UNCHANGED <<jobs, begun, told, revived, stored, pageVars>>
        /\ toCancel' = [toCancel EXCEPT ![c] = {}]
    BY <1>4 DEF CancelActiveFails, AtStage
  <2>2. /\ command' \in [Command -> CommandRow]
        /\ \A d \in Command : /\ command'[d].session = command[d].session
                              /\ command'[d].stage = IF d = c THEN "create" ELSE command[d].stage
    BY <1>4, GoesOn DEF Stages, CancelActiveFails
  <2> QED
    <3>1. RouteTyped'
      BY <2>1, <2>2 DEF RouteTyped
    <3>2. Created'
      BY <2>1, <2>2 DEF RouteTyped, Created
    <3>3. RouteCites' /\ ChatAges
      BY <2>1, <2>2 DEF RouteTyped, RouteCites, ChatAges, Posted
    <3> QED
      BY <2>1, <2>2, <3>1, <3>2, <3>3 DEF RouteEffect
<1>5. CASE CreateCommandJob(c)
  <2>1. command[c].stage = "create" /\ UNCHANGED <<begun, told, revived, stored, toCancel, pageVars>>
    BY <1>5 DEF CreateCommandJob, AtStage
  <2>2. /\ command' \in [Command -> CommandRow]
        /\ \A d \in Command : /\ command'[d].session = command[d].session
                              /\ command'[d].stage = IF d = c THEN "start" ELSE command[d].stage
    BY <1>5, GoesOn DEF Stages, CreateCommandJob
  <2>3. /\ jobs' \in [Command -> JobStates]
        /\ \A d \in Command : jobs'[d] = IF d = c THEN "pending" ELSE jobs[d]
    BY <1>5, JobChanges DEF JobStates, CreateCommandJob
  <2> QED
    BY <2>1, <2>2, <2>3 DEF RouteEffect, RouteTyped, Created, RouteCites, ChatAges, Posted
<1>6. CASE StartJob(c)
  <2>1. command[c].stage = "start" /\ jobs[c] # "none" /\ UNCHANGED <<begun, told, revived, stored, toCancel, pageVars>>
    BY <1>6 DEF StartJob, AtStage, Created
  <2>2. PICK reached \in {"tell", "refused"} : Goes(c, reached)
    BY <1>6 DEF StartJob
  <2>3. /\ command' \in [Command -> CommandRow]
        /\ \A d \in Command : /\ command'[d].session = command[d].session
                              /\ command'[d].stage = IF d = c THEN reached ELSE command[d].stage
    BY <2>2, GoesOn DEF Stages
  <2>4. PICK state \in {jobs[c], "ended"} : jobs' = [jobs EXCEPT ![c] = state]
    BY <1>6 DEF StartJob, RouteTyped
  <2>5. /\ jobs' \in [Command -> JobStates]
        /\ \A d \in Command : jobs'[d] = IF d = c THEN state ELSE jobs[d]
    BY <2>4, JobChanges DEF JobStates, RouteTyped
  <2> QED
    BY <2>1, <2>3, <2>4, <2>5 DEF RouteEffect, RouteTyped, Created, RouteCites, ChatAges, Posted
<1>7. CASE StoreMessage(c)
  <2>1. /\ command[c].stage = "tell" /\ UNCHANGED <<jobs, begun, told, revived, toCancel, pageVars>>
        /\ stored' = [stored EXCEPT ![command[c].session] = @ \cup {c}]
    BY <1>7 DEF StoreMessage, AtStage
  <2>2. /\ command' \in [Command -> CommandRow]
        /\ \A d \in Command : /\ command'[d].session = command[d].session
                              /\ command'[d].stage = IF d = c THEN "answered" ELSE command[d].stage
    BY <1>7, GoesOn DEF Stages, StoreMessage
  <2>3. command[c].session \in Session
    BY <1>0 DEF CommandRow
  <2>4. /\ stored' \in [Session -> SUBSET Command]
        /\ \A s \in Session : stored'[s] = IF s = command[c].session THEN stored[s] \cup {c} ELSE stored[s]
    BY <2>1, <2>3 DEF RouteTyped
  <2> QED
    BY <2>1, <2>2, <2>4 DEF RouteEffect, RouteTyped, Created, RouteCites, ChatAges, Posted
<1> QED
  BY <1>1, <1>2, <1>3, <1>4, <1>5, <1>6, <1>7 DEF RouteStep

LEMMA WorkerEffect ==
    ASSUME RouteTyped, Created, RouteCites, NEW j \in Command, JobStarts(j) \/ JobEnds(j)
    PROVE  RouteEffect
<1>1. PICK state \in {"running", "ended"} : jobs' = [jobs EXCEPT ![j] = state]
  BY DEF JobStarts, JobEnds
<1>2. /\ jobs' \in [Command -> JobStates]
      /\ \A d \in Command : jobs'[d] = IF d = j THEN state ELSE jobs[d]
  BY <1>1, JobChanges DEF JobStates
<1>3. /\ jobs[j] # "none" /\ begun' \in SUBSET Command /\ revived' \in SUBSET Command
      /\ UNCHANGED <<told, stored, command, toCancel, pageVars>>
  BY DEF JobStarts, JobEnds, RouteTyped
<1> QED
  BY <1>2, <1>3 DEF RouteEffect, RouteTyped, Created, RouteCites, ChatAges, Posted

(* What the route or the worker does leaves the page true to the commands. *)
LEMMA PageUnmoved ==
    ASSUME PageTyped, PageCites, ChatAges, UNCHANGED pageVars
    PROVE  PageTyped' /\ PageCites'
<1>1. UNCHANGED <<target, shown, loads, active, bar, polls, settled>>
  BY DEF pageVars
<1>2. PageTyped'
  BY <1>1 DEF PageTyped
<1>3. \A load \in loads : load.jobs \subseteq Command
  BY DEF PageTyped, Loads
<1>4. \A p \in polls : p.job \in Command
  BY DEF PageTyped, Answers
<1>5. \A load \in loads' : \A c \in load.jobs : Posted(c)' /\ command'[c].session = load.session
  BY <1>1, <1>3 DEF PageCites, ChatAges, Posted
<1>6. \A c \in shown' \cup ({active', bar'} \ {0}) : Posted(c)'
  BY <1>1 DEF PageTyped, PageCites, ChatAges
<1>7. \A p \in polls' : Posted(p.job)'
  BY <1>1, <1>4 DEF PageCites, ChatAges
<1> QED
  BY <1>2, <1>5, <1>6, <1>7 DEF PageCites

LEMMA RouteUnmoved ==
    ASSUME RouteTyped, Created, RouteCites, UNCHANGED routeVars
    PROVE  RouteTyped' /\ Created' /\ RouteCites' /\ ChatAges
<1>1. UNCHANGED <<jobs, begun, told, revived, stored, command, toCancel>>
  BY DEF routeVars
<1> QED
  BY <1>1 DEF RouteTyped, Created, RouteCites, ChatAges, Posted

-----------------------------------------------------------------------------
(* The steps of the page                                                   *)

PageEffect == ChatFacts' /\ ChatAges

LEMMA OpenEffect == ASSUME ChatFacts, NEW s \in Session, OpenSession(s) PROVE PageEffect
<1>1. UNCHANGED <<jobs, command>> /\ UNCHANGED routeVars
  BY DEF OpenSession, routeVars
<1>2. /\ target' = {s} /\ active' = 0 /\ bar' = 0 /\ shown' = {} /\ settled' = {} /\ polls' = polls
      /\ loads' = loads \cup {[session |-> s, jobs |-> stored[s]]}
  BY DEF OpenSession
<1>3. [session |-> s, jobs |-> stored[s]] \in Loads
  BY DEF ChatFacts, RouteTyped, Loads
<1>4. PageTyped'
  BY <1>2, <1>3 DEF ChatFacts, PageTyped
<1>5. PageCites'
  BY <1>1, <1>2 DEF ChatFacts, PageCites, RouteCites, Posted
<1> QED
  BY <1>1, <1>4, <1>5, RouteUnmoved DEF ChatFacts, PageEffect

LEMMA LoadedEffect == ASSUME ChatFacts, NEW load \in loads, Loaded(load) PROVE PageEffect
<1>0. load \in Loads /\ load.session \in Session /\ load.jobs \subseteq Command
  BY DEF ChatFacts, PageTyped, Loads
<1>1. UNCHANGED <<jobs, command, active, polls>> /\ UNCHANGED routeVars /\ loads' = loads \ {load}
  BY DEF Loaded, routeVars
<1>2. PICK jobsShown \in {load.jobs, stored[load.session]} :
        /\ shown' = jobsShown /\ settled' = settled \cap jobsShown
        /\ bar' = IF shown \subseteq jobsShown THEN bar ELSE 0
  BY DEF Loaded
<1>3. jobsShown \subseteq Command /\ \A c \in jobsShown : Posted(c)
  BY <1>0 DEF ChatFacts, RouteTyped, RouteCites, PageCites
<1>4. target' \in SUBSET Session /\ \A s, t \in target' : s = t
  BY ChatAssumption DEF Loaded, ChatFacts, PageTyped
<1>5. PageTyped'
  BY <1>1, <1>2, <1>3, <1>4 DEF ChatFacts, PageTyped
<1>6. PageCites'
  BY <1>1, <1>2, <1>3 DEF ChatFacts, PageCites, Posted
<1> QED
  BY <1>1, <1>5, <1>6, RouteUnmoved DEF ChatFacts, PageEffect

LEMMA LoadFailsEffect == ASSUME ChatFacts, NEW load \in loads, LoadFails(load) PROVE PageEffect
<1>1. UNCHANGED <<jobs, command, target, active, polls>> /\ UNCHANGED routeVars
  BY DEF LoadFails, routeVars
<1>2. loads' = loads \ {load} /\ shown' = {} /\ settled' = {} /\ bar' = 0
  BY DEF LoadFails
<1>3. PageTyped' /\ PageCites'
  BY <1>1, <1>2 DEF ChatFacts, PageTyped, PageCites, Posted
<1> QED
  BY <1>1, <1>3, RouteUnmoved DEF ChatFacts, PageEffect

LEMMA SendEffect ==
    ASSUME ChatFacts, NEW c \in Command, SendCommand(c)
    PROVE  PageEffect /\ command[c].stage = "unsent" /\ UNCHANGED pageVars
           /\ \E s \in target : command' = [command EXCEPT ![c] = [stage |-> "asked", session |-> s]]
<1>1. PICK s \in target : command' = [command EXCEPT ![c] = [stage |-> "asked", session |-> s]]
  BY DEF SendCommand
<1>2. command[c].stage = "unsent" /\ UNCHANGED <<jobs, begun, told, revived, stored, toCancel, pageVars>>
  BY DEF SendCommand, AtStage
<1> DEFINE row == [stage |-> "asked", session |-> s]
<1>3. row \in CommandRow /\ row.stage = "asked"
  BY DEF ChatFacts, PageTyped, CommandRow, Stages
<1> HIDE DEF row
<1>4. /\ command' \in [Command -> CommandRow]
      /\ \A d \in Command : command'[d] = IF d = c THEN row ELSE command[d]
  BY <1>1, <1>3 DEF ChatFacts, RouteTyped, row
<1>5. RouteTyped'
  BY <1>2, <1>4 DEF ChatFacts, RouteTyped
<1>6. Created'
  BY <1>2, <1>3, <1>4 DEF ChatFacts, Created
<1>7. ChatAges
  BY <1>2, <1>4 DEF ChatAges, Posted
<1>8. RouteCites'
  BY <1>2, <1>4 DEF ChatFacts, RouteTyped, RouteCites, Posted
<1> QED
  BY <1>1, <1>2, <1>5, <1>6, <1>7, <1>8, PageUnmoved DEF ChatFacts, PageEffect

LEMMA AnsweredEffect == ASSUME ChatFacts, NEW c \in Command, Answered(c) PROVE PageEffect
<1>1. /\ command' \in [Command -> CommandRow]
      /\ \A d \in Command : /\ command'[d].session = command[d].session
                            /\ command'[d].stage = IF d = c THEN "over" ELSE command[d].stage
  BY GoesOn DEF Stages, Answered, ChatFacts
<1>2. /\ command[c].stage \in {"answered", "refused"}
      /\ UNCHANGED <<jobs, begun, told, revived, stored, toCancel, target, loads, bar, polls, settled>>
  BY DEF Answered, AtStage
<1>3. RouteTyped'
  BY <1>1, <1>2 DEF ChatFacts, RouteTyped
<1>4. Created'
  BY <1>1, <1>2 DEF ChatFacts, RouteTyped, Created
<1>5. ChatAges
  BY <1>1, <1>2 DEF ChatAges, Posted
<1>6. RouteCites'
  BY <1>1, <1>2 DEF ChatFacts, RouteTyped, RouteCites, Posted
<1>7. \/ shown' = shown /\ active' = active
      \/ /\ Posted(c) /\ active' = c
         /\ shown' = shown \/ shown' = shown \cup {c}
  BY DEF Answered, AtStage, ChatFacts, Created, Posted
<1>8. PageTyped'
  BY <1>2, <1>7 DEF ChatFacts, PageTyped
<1>9. \A d \in Command : Posted(d) => Posted(d)' /\ command'[d].session = command[d].session
  BY <1>1, <1>5 DEF ChatAges
<1>10. (\A load \in loads : load.jobs \subseteq Command) /\ \A p \in polls : p.job \in Command
  BY DEF ChatFacts, PageTyped, Loads, Answers
<1>11. \A load \in loads' : \A d \in load.jobs : Posted(d)' /\ command'[d].session = load.session
  BY <1>2, <1>9, <1>10 DEF ChatFacts, PageCites
<1>12. \A d \in shown' \cup ({active', bar'} \ {0}) : Posted(d)'
  BY <1>2, <1>7, <1>9 DEF ChatFacts, PageTyped, PageCites
<1>13. \A p \in polls' : Posted(p.job)'
  BY <1>2, <1>9, <1>10 DEF ChatFacts, PageCites
<1>14. PageCites'
  BY <1>11, <1>12, <1>13 DEF PageCites
<1> QED
  BY <1>3, <1>4, <1>5, <1>6, <1>8, <1>14 DEF ChatFacts, PageEffect

LEMMA StopEffect == ASSUME ChatFacts, StopJob PROVE PageEffect
<1>1. /\ active \in Command /\ active # 0 /\ bar' = 0
      /\ UNCHANGED <<begun, revived, stored, command, toCancel, target, shown, loads, active, polls, settled>>
  BY DEF StopJob, ChatFacts, PageTyped
<1>2. RequestCancellation(active) /\ RouteTyped
  BY DEF StopJob, ChatFacts
<1>3. PICK state \in {"ended", "stopping"} :
        /\ jobs' \in [Command -> JobStates] /\ told' \in SUBSET Command
        /\ \A d \in Command : jobs'[d] = IF d = active THEN state ELSE jobs[d]
  BY <1>1, <1>2, Requested
<1>4. Posted(active)
  BY <1>1 DEF ChatFacts, PageCites
<1>5. RouteTyped'
  BY <1>1, <1>3 DEF ChatFacts, RouteTyped
<1>6. \A d \in Command : (jobs'[d] # "none") <=> (jobs[d] # "none")
  BY <1>3, <1>4 DEF Posted
<1>7. Created' /\ ChatAges
  BY <1>1, <1>6 DEF ChatFacts, RouteTyped, Created, ChatAges, Posted
<1>8. RouteCites'
  BY <1>1, <1>6 DEF ChatFacts, RouteTyped, RouteCites, Posted
<1>9. PageTyped'
  BY <1>1 DEF ChatFacts, PageTyped
<1>10. (\A load \in loads : load.jobs \subseteq Command) /\ \A p \in polls : p.job \in Command
  BY DEF ChatFacts, PageTyped, Loads, Answers
<1>11. PageCites'
  BY <1>1, <1>6, <1>10 DEF ChatFacts, PageTyped, PageCites, Posted
<1> QED
  BY <1>5, <1>7, <1>8, <1>9, <1>11 DEF ChatFacts, PageEffect

LEMMA PollEffect == ASSUME ChatFacts, NEW j \in Command, Poll(j) PROVE PageEffect
<1>1. UNCHANGED <<jobs, command, target, shown, loads, active, bar, settled>> /\ UNCHANGED routeVars
  BY DEF Poll, routeVars
<1>2. polls' = polls \cup {[job |-> j, ended |-> jobs[j] = "ended"]} /\ j \in shown
  BY DEF Poll
<1>3. (jobs[j] = "ended") \in BOOLEAN
  OBVIOUS
<1>4. [job |-> j, ended |-> jobs[j] = "ended"] \in Answers
  BY <1>3 DEF Answers
<1>5. PageTyped'
  BY <1>1, <1>2, <1>4 DEF ChatFacts, PageTyped
<1> DEFINE answer == [job |-> j, ended |-> jobs[j] = "ended"]
<1>6. answer.job = j
  OBVIOUS
<1> HIDE DEF answer
<1>7. polls' = polls \cup {answer}
  BY <1>2 DEF answer
<1>8. PageCites'
  BY <1>1, <1>2, <1>6, <1>7 DEF ChatFacts, PageCites, Posted
<1> QED
  BY <1>1, <1>5, <1>8, RouteUnmoved DEF ChatFacts, PageEffect

LEMMA PollAnsweredEffect == ASSUME ChatFacts, NEW p \in polls, PollAnswered(p) PROVE PageEffect
<1>1. UNCHANGED <<jobs, command, target, shown, loads, active>> /\ UNCHANGED routeVars
  BY DEF PollAnswered, routeVars
<1>2. p.job \in Command
  BY DEF ChatFacts, PageTyped, Answers
<1>3. bar' \in {0, p.job} /\ settled' \in SUBSET (settled \cup ({p.job} \cap shown)) /\ polls' = polls \ {p}
  BY DEF PollAnswered
<1>4. PageTyped'
  BY <1>1, <1>2, <1>3 DEF ChatFacts, PageTyped
<1>5. PageCites'
  BY <1>1, <1>3 DEF ChatFacts, PageCites, Posted
<1> QED
  BY <1>1, <1>4, <1>5, RouteUnmoved DEF ChatFacts, PageEffect

LEMMA ChatFactsStep == ChatFacts /\ [ChatNext]_chatVars => ChatFacts' /\ ChatAges
<1> SUFFICES ASSUME ChatFacts, [ChatNext]_chatVars PROVE ChatFacts' /\ ChatAges
  OBVIOUS
<1>1. ASSUME RouteEffect PROVE ChatFacts' /\ ChatAges
  BY <1>1, PageUnmoved DEF ChatFacts, RouteEffect
<1>2. ASSUME NEW c \in Command, RouteStep(c) \/ JobStarts(c) \/ JobEnds(c) PROVE ChatFacts' /\ ChatAges
  BY <1>1, <1>2, CommandEffect, WorkerEffect DEF ChatFacts
<1>3. ASSUME NEW c \in Command, Polling(c) PROVE PageEffect
  BY <1>3, PollEffect, PollAnsweredEffect DEF Polling
<1>4. CASE PageStep
  BY <1>4, OpenEffect, LoadedEffect, LoadFailsEffect, SendEffect, AnsweredEffect, StopEffect DEF PageStep, PageEffect
<1>5. CASE UNCHANGED chatVars
  BY <1>5, RouteUnmoved, PageUnmoved DEF chatVars, ChatFacts
<1> QED
  BY <1>2, <1>3, <1>4, <1>5 DEF ChatNext, PageEffect

LEMMA ChatFactsAlways == ChatSpec => []ChatFacts
<1>1. ChatFacts /\ [ChatNext]_chatVars => ChatFacts'
  BY ChatFactsStep
<1> QED
  BY <1>1, ChatFactsInit, PTL DEF ChatSpec

(* What the facts of the chat say of its types.                            *)
LEMMA ChatTypes == ChatFacts => ChatTypeOK
<1> SUFFICES ASSUME ChatFacts PROVE ChatTypeOK
  OBVIOUS
<1>1. target = {} \/ \E s \in target : target = {s}
  BY DEF ChatFacts, PageTyped
<1>2. Cardinality(target) <= 1
  <2>1. CASE target = {}
    <3>1. Cardinality({}) = 0
      BY FS_EmptySet
    <3> QED
      BY <2>1, <3>1
  <2>2. ASSUME NEW s \in target, target = {s} PROVE Cardinality(target) <= 1
    <3>1. Cardinality({s}) = 1
      BY FS_Singleton
    <3> QED
      BY <2>2, <3>1
  <2> QED
    BY <1>1, <2>1, <2>2
<1>3. \A c \in Command : command[c] \in CommandRow
  BY DEF ChatFacts, RouteTyped
<1>4. \A c \in Command : command[c].stage \in Stages
  BY <1>3 DEF CommandRow
<1>5. \A s \in Session : stored[s] \subseteq {c \in Command : command[c].session = s}
  BY DEF ChatFacts, RouteTyped, RouteCites
<1>6. {0} \cup Command = 0 .. MaxCommands
  BY ChatAssumption DEF Command
<1> QED
  BY <1>2, <1>4, <1>5, <1>6 DEF ChatFacts, RouteTyped, PageTyped, Created, ChatTypeOK, JobStates, Stages

(* The jobs of the chat are created, cancelled, stored and shown as their  *)
(* commands have come to.                                                  *)
THEOREM ChatTypesCorrect == ChatSpec => []ChatTypeOK
BY ChatTypes, ChatFactsAlways, PTL

-----------------------------------------------------------------------------
(* The jobs that were launched before have been asked to cancel            *)

(* The jobs at work that no one has asked to cancel and that never ended.  *)
Unasked == {j \in Command : jobs[j] \in {"pending", "running"}} \ (told \cup revived)
(* While the commands take turns, one at most is between reading the       *)
(* active jobs and creating its own; what it has read holds all of them.   *)
Turns ==
  /\ \A c, d \in Command :
       command[c].stage \in {"cancel", "create"} /\ command[d].stage \in {"cancel", "create"} => c = d
  /\ \A c \in Command : /\ command[c].stage = "cancel" => Unasked \subseteq toCancel[c]
                        /\ command[c].stage = "create" => Unasked = {}
  /\ \A i, j \in Unasked : i = j
TakeTurns == (~slipped => Turns) /\ \A j \in Command : jobs[j] = "stopping" => j \in told

(* No command goes between reading and creating, and no job is added.      *)
LEMMA TurnsKept ==
    ASSUME TakeTurns, slipped' = slipped, toCancel' = toCancel, Unasked' \subseteq Unasked,
           \A c \in Command : command'[c].stage \in {"cancel", "create"} => command'[c].stage = command[c].stage,
           \A j \in Command : jobs'[j] = "stopping" => j \in told'
    PROVE  TakeTurns'
BY DEF TakeTurns, Turns

(* A job that is requested to cancel is asked, or has ended.               *)
LEMMA RequestAsks ==
    ASSUME RouteTyped, TakeTurns, NEW j \in Command, RequestCancellation(j), revived' = revived
    PROVE  Unasked' \subseteq Unasked \ {j} /\ \A i \in Command : jobs'[i] = "stopping" => i \in told'
<1>1. PICK state \in JobStates :
        /\ \A d \in Command : jobs'[d] = IF d = j THEN state ELSE jobs[d]
        /\ told \subseteq told'
        /\ \/ jobs[j] = "ended" /\ state = "ended"
           \/ jobs[j] # "ended" /\ state = "stopping" /\ j \in told'
  BY Requested
<1>2. Unasked' \subseteq Unasked \ {j}
  BY <1>1 DEF Unasked
<1>3. \A i \in Command : jobs'[i] = "stopping" => i \in told'
  BY <1>1 DEF TakeTurns
<1> QED
  BY <1>2, <1>3

LEMMA CommandTakesTurn ==
    ASSUME ChatFacts, TakeTurns, NEW c \in Command, RouteStep(c)
    PROVE  TakeTurns'
<1>0. RouteTyped
  BY DEF ChatFacts
<1>1. CASE PlanCommand(c)
  <2>1. PICK reached \in {"list", "refused"} : Goes(c, reached)
    BY <1>1 DEF PlanCommand
  <2>2. UNCHANGED <<jobs, told, revived, toCancel, slipped>>
    BY <1>1 DEF PlanCommand
  <2>3. \A d \in Command : command'[d].stage = IF d = c THEN reached ELSE command[d].stage
    BY <1>0, <2>1, GoesOn DEF Stages
  <2>4. Unasked' = Unasked
    BY <2>2 DEF Unasked
  <2>5. \A j \in Command : jobs'[j] = "stopping" => j \in told'
    BY <2>2 DEF TakeTurns
  <2> QED
    BY <2>1, <2>2, <2>3, <2>4, <2>5, TurnsKept
<1>2. CASE ListActive(c)
  <2>1. \A d \in Command : command'[d].stage = IF d = c THEN "cancel" ELSE command[d].stage
    BY <1>0, <1>2, GoesOn DEF Stages, ListActive
  <2>2. jobs' = jobs /\ told' = told /\ revived' = revived
    BY <1>2 DEF ListActive
  <2>3. Unasked' \subseteq toCancel'[c]
    BY <1>0, <1>2, <2>2 DEF ListActive, RouteTyped, Unasked
  <2>4. ~slipped' => ~slipped /\ \A d \in Command : command[d].stage \notin {"cancel", "create"}
    BY <1>2, Zenon DEF ListActive
  <2>5. Unasked' = Unasked
    BY <2>2 DEF Unasked
  <2> QED
    BY <2>1, <2>2, <2>3, <2>4, <2>5 DEF TakeTurns, Turns
<1>3. CASE CancelActive(c)
  <2>1. command[c].stage = "cancel" /\ slipped' = slipped /\ revived' = revived
    BY <1>3 DEF CancelActive, AtStage
  <2>2. CASE toCancel[c] = {}
    <3>1. \A d \in Command : command'[d].stage = IF d = c THEN "create" ELSE command[d].stage
      BY <1>0, <1>3, <2>2, GoesOn DEF Stages, CancelActive
    <3>2. UNCHANGED <<jobs, told, toCancel>>
      BY <1>3, <2>2 DEF CancelActive
    <3>3. Unasked' = Unasked
      BY <2>1, <3>2 DEF Unasked
    <3> QED
      BY <2>1, <2>2, <3>1, <3>2, <3>3 DEF TakeTurns, Turns
  <2>3. CASE toCancel[c] # {}
    <3>1. PICK j \in toCancel[c] :
            RequestCancellation(j) /\ toCancel' = [toCancel EXCEPT ![c] = @ \ {j}] /\ command' = command
      BY <1>3, <2>3 DEF CancelActive
    <3>2. j \in Command
      BY <1>0 DEF RouteTyped
    <3>3. Unasked' \subseteq Unasked \ {j} /\ \A i \in Command : jobs'[i] = "stopping" => i \in told'
      BY <1>0, <2>1, <3>1, <3>2, RequestAsks
    <3>5. \A d \in Command : toCancel[d] \ {j} \subseteq toCancel'[d]
      BY <1>0, <3>1 DEF RouteTyped
    <3> QED
      BY <2>1, <3>1, <3>3, <3>5 DEF TakeTurns, Turns
  <2> QED
    BY <2>2, <2>3
<1>4. CASE CancelActiveFails(c)
  <2>1. slipped' /\ jobs' = jobs /\ told' = told
    BY <1>4 DEF CancelActiveFails
  <2> QED
    BY <2>1 DEF TakeTurns
<1>5. CASE CreateCommandJob(c)
  <2>1. command[c].stage = "create" /\ UNCHANGED <<told, revived, toCancel, slipped>>
    BY <1>5 DEF CreateCommandJob, AtStage
  <2>2. \A d \in Command : command'[d].stage = IF d = c THEN "start" ELSE command[d].stage
    BY <1>0, <1>5, GoesOn DEF Stages, CreateCommandJob
  <2>3. \A d \in Command : jobs'[d] = IF d = c THEN "pending" ELSE jobs[d]
    BY <1>0, <1>5, JobChanges DEF JobStates, CreateCommandJob
  <2>4. Unasked' \subseteq Unasked \cup {c}
    BY <2>1, <2>3 DEF Unasked
  <2> QED
    BY <2>1, <2>2, <2>3, <2>4 DEF TakeTurns, Turns
<1>6. CASE StartJob(c)
  <2>1. UNCHANGED <<told, revived, toCancel, slipped>>
    BY <1>6 DEF StartJob
  <2>2. PICK reached \in {"tell", "refused"} : Goes(c, reached)
    BY <1>6 DEF StartJob
  <2>3. \A d \in Command : command'[d].stage = IF d = c THEN reached ELSE command[d].stage
    BY <1>0, <2>2, GoesOn DEF Stages
  <2>4. \A d \in Command : jobs'[d] = jobs[d] \/ jobs'[d] = "ended"
    BY <1>0, <1>6 DEF StartJob, RouteTyped
  <2>5. Unasked' \subseteq Unasked
    BY <2>1, <2>4 DEF Unasked
  <2>6. \A j \in Command : jobs'[j] = "stopping" => j \in told'
    BY <2>1, <2>4 DEF TakeTurns
  <2> QED
    BY <2>1, <2>2, <2>3, <2>5, <2>6, TurnsKept
<1>7. CASE StoreMessage(c)
  <2>1. UNCHANGED <<jobs, told, revived, toCancel, slipped>>
    BY <1>7 DEF StoreMessage
  <2>2. \A d \in Command : command'[d].stage = IF d = c THEN "answered" ELSE command[d].stage
    BY <1>0, <1>7, GoesOn DEF Stages, StoreMessage
  <2>3. Unasked' = Unasked
    BY <2>1 DEF Unasked
  <2>4. \A j \in Command : jobs'[j] = "stopping" => j \in told'
    BY <2>1 DEF TakeTurns
  <2> QED
    BY <2>1, <2>2, <2>3, <2>4, TurnsKept
<1> QED
  BY <1>1, <1>2, <1>3, <1>4, <1>5, <1>6, <1>7 DEF RouteStep

LEMMA TakeTurnsStep == ChatFacts /\ TakeTurns /\ [ChatNext]_chatVars => TakeTurns'
<1> SUFFICES ASSUME ChatFacts, TakeTurns, [ChatNext]_chatVars PROVE TakeTurns'
  OBVIOUS
<1>1. ASSUME UNCHANGED routeVars PROVE TakeTurns'
  <2>1. UNCHANGED <<jobs, told, revived, command, toCancel, slipped>>
    BY <1>1 DEF routeVars
  <2>2. Unasked' = Unasked
    BY <2>1 DEF Unasked
  <2> QED
    BY <2>1, <2>2 DEF TakeTurns, Turns
<1>2. ASSUME NEW j \in Command, JobStarts(j) \/ JobEnds(j) PROVE TakeTurns'
  <2>1. UNCHANGED <<told, command, toCancel, slipped>>
    BY <1>2 DEF JobStarts, JobEnds
  <2>2. PICK state \in {"running", "ended"} :
          /\ jobs' = [jobs EXCEPT ![j] = state] /\ revived \subseteq revived'
          /\ state = "running" => jobs[j] \in JobStates \ {"none"} /\ (jobs[j] = "ended" => j \in revived')
    BY <1>2 DEF JobStarts, JobEnds, ChatFacts, RouteTyped
  <2>3. \A i \in Command : jobs'[i] = IF i = j THEN state ELSE jobs[i]
    BY <2>2 DEF ChatFacts, RouteTyped
  <2>4. Unasked' \subseteq Unasked
    BY <2>1, <2>2, <2>3 DEF Unasked, TakeTurns, JobStates
  <2>5. \A i \in Command : jobs'[i] = "stopping" => i \in told'
    BY <2>1, <2>3 DEF TakeTurns
  <2> QED
    BY <2>1, <2>4, <2>5, TurnsKept
<1>3. ASSUME NEW c \in Command, Polling(c) PROVE UNCHANGED routeVars
  BY <1>3 DEF Polling, Poll, PollAnswered
<1>4. ASSUME NEW c \in Command, SendCommand(c) PROVE TakeTurns'
  <2>1. UNCHANGED <<jobs, told, revived, toCancel, slipped>>
    BY <1>4 DEF SendCommand
  <2>2. PICK s \in target : command' = [command EXCEPT ![c] = [stage |-> "asked", session |-> s]]
    BY <1>4, SendEffect
  <2>3. \A d \in Command : d = c \/ command'[d] = command[d]
    BY <2>2 DEF ChatFacts, RouteTyped
  <2>4. command'[c].stage = "asked"
    BY <2>2 DEF ChatFacts, RouteTyped
  <2>5. Unasked' = Unasked
    BY <2>1 DEF Unasked
  <2>6. \A j \in Command : jobs'[j] = "stopping" => j \in told'
    BY <2>1 DEF TakeTurns
  <2>7. \A d \in Command : command'[d].stage \in {"cancel", "create"} => command'[d].stage = command[d].stage
    BY <2>3, <2>4
  <2> QED
    BY <2>1, <2>5, <2>6, <2>7, TurnsKept
<1>5. ASSUME NEW c \in Command, Answered(c) PROVE TakeTurns'
  <2>1. UNCHANGED <<jobs, told, revived, toCancel, slipped>>
    BY <1>5 DEF Answered
  <2>2. \A d \in Command : command'[d].stage = IF d = c THEN "over" ELSE command[d].stage
    BY <1>5, GoesOn DEF Stages, Answered, ChatFacts
  <2>3. Unasked' = Unasked
    BY <2>1 DEF Unasked
  <2>4. \A j \in Command : jobs'[j] = "stopping" => j \in told'
    BY <2>1 DEF TakeTurns
  <2> QED
    BY <2>1, <2>2, <2>3, <2>4, TurnsKept
<1>6. CASE StopJob
  <2>1. UNCHANGED <<revived, command, toCancel, slipped>> /\ RequestCancellation(active)
    BY <1>6 DEF StopJob
  <2>2. active \in Command /\ RouteTyped
    BY <1>6 DEF StopJob, ChatFacts, PageTyped
  <2>3. Unasked' \subseteq Unasked
    BY <2>1, <2>2, RequestAsks
  <2>4. \A j \in Command : jobs'[j] = "stopping" => j \in told'
    BY <2>1, <2>2, RequestAsks
  <2> QED
    BY <2>1, <2>3, <2>4, TurnsKept
<1>7. ASSUME \/ \E s \in Session : OpenSession(s)
             \/ \E load \in loads : Loaded(load) \/ LoadFails(load)
      PROVE  UNCHANGED routeVars
  BY <1>7 DEF OpenSession, Loaded, LoadFails
<1>8. CASE UNCHANGED chatVars
  BY <1>1, <1>8 DEF chatVars
<1> QED
  BY <1>1, <1>2, <1>3, <1>4, <1>5, <1>6, <1>7, <1>8, CommandTakesTurn DEF ChatNext, PageStep

(* Of the jobs the chat has launched, one at most is at work without       *)
(* having been asked to cancel or brought back by job_started after it had *)
(* ended, unless commands overlapped or a request to cancel failed.        *)
THEOREM OneJobUnasked == ChatSpec => []PreviousTold
<1>1. ChatInit => TakeTurns
  BY DEF ChatInit, TakeTurns, Turns, Unasked
<1>2. ChatFacts /\ TakeTurns => PreviousTold
  <2> SUFFICES ASSUME TakeTurns, ~slipped PROVE Cardinality(Unasked) <= 1
    BY DEF PreviousTold, Unasked
  <2>1. \A i, j \in Unasked : i = j
    BY DEF TakeTurns, Turns
  <2>2. CASE Unasked = {}
    <3>1. Cardinality({}) = 0
      BY FS_EmptySet
    <3> QED
      BY <2>2, <3>1
  <2>3. CASE Unasked # {}
    <3>1. PICK j \in Unasked : Unasked = {j}
      BY <2>1, <2>3
    <3>2. Cardinality({j}) = 1
      BY FS_Singleton
    <3> QED
      BY <3>1, <3>2
  <2> QED
    BY <2>2, <2>3
<1> QED
  BY <1>1, <1>2, TakeTurnsStep, ChatFactsAlways, PTL DEF ChatSpec

-----------------------------------------------------------------------------
(* The page shows, stops and waits for jobs of its own session             *)

(* While no session is left early, whatever is to come is for the session  *)
(* of the page; while no poll outlives its card, every poll is of a card.  *)
AtHome ==
  /\ \A load \in loads : target = {load.session} \/ (target = {} /\ load.session = New)
  /\ \A c \in Command : command[c].stage \notin {"unsent", "over"} => {command[c].session} = target
  /\ \A c \in shown \cup ({active} \ {0}) : {command[c].session} = target
CardsPolled ==
  /\ \A p \in polls : p.job \in shown
  /\ \A c \in {bar} \ {0} : {command[c].session} = target
Home == ~early => AtHome /\ (~stray => CardsPolled)

(* The commands change as the route brings them on, and the page does not. *)
LEMMA HomeUnmoved ==
    ASSUME ChatFacts, Home, ChatAges, UNCHANGED pageVars,
           \A c \in Command : /\ command'[c].session = command[c].session
                              /\ command'[c].stage \notin {"unsent", "over"} =>
                                   command[c].stage \notin {"unsent", "over"}
    PROVE  Home'
<1>1. UNCHANGED <<target, shown, loads, active, bar, polls, early, stray>>
  BY DEF pageVars
<1>2. AtHome => AtHome'
  BY <1>1 DEF AtHome, ChatFacts, PageTyped
<1>3. CardsPolled => CardsPolled'
  BY <1>1 DEF CardsPolled, ChatFacts, PageTyped
<1> HIDE DEF AtHome, CardsPolled
<1> QED
  BY <1>1, <1>2, <1>3, Zenon DEF Home

LEMMA HomeRoute ==
    ASSUME ChatFacts, Home, NEW c \in Command, RouteStep(c) \/ JobStarts(c) \/ JobEnds(c)
    PROVE  Home'
<1>1. RouteEffect
  BY CommandEffect, WorkerEffect DEF ChatFacts
<1>2. command' = command \/ (command[c].stage \notin {"unsent", "over"} /\ \E reached \in Stages : Goes(c, reached))
  <2>1. CASE JobStarts(c) \/ JobEnds(c)
    BY <2>1 DEF JobStarts, JobEnds
  <2>2. CASE PlanCommand(c)
    BY <2>2 DEF PlanCommand, AtStage, Stages
  <2>3. CASE ListActive(c) \/ CancelActiveFails(c)
    BY <2>3 DEF ListActive, CancelActiveFails, AtStage, Stages
  <2>4. CASE CancelActive(c)
    BY <2>4 DEF CancelActive, AtStage, Stages
  <2>5. CASE CreateCommandJob(c) \/ StartJob(c) \/ StoreMessage(c)
    BY <2>5 DEF CreateCommandJob, StartJob, StoreMessage, AtStage, Stages
  <2> QED
    BY <2>1, <2>2, <2>3, <2>4, <2>5 DEF RouteStep
<1>3. CASE command' = command
  BY <1>1, <1>3, HomeUnmoved DEF RouteEffect
<1>4. ASSUME NEW reached \in Stages, Goes(c, reached), command[c].stage \notin {"unsent", "over"} PROVE Home'
  <2>1. \A d \in Command : /\ command'[d].session = command[d].session
                           /\ command'[d].stage = IF d = c THEN reached ELSE command[d].stage
    BY <1>4, GoesOn DEF ChatFacts
  <2> QED
    BY <1>1, <1>4, <2>1, HomeUnmoved DEF RouteEffect
<1> QED
  BY <1>2, <1>3, <1>4

LEMMA HomeOpen == ASSUME ChatFacts, Home, NEW s \in Session, OpenSession(s) PROVE Home'
<1>1. /\ target' = {s} /\ active' = 0 /\ bar' = 0 /\ shown' = {} /\ polls' = polls /\ command' = command
      /\ loads' = loads \cup {[session |-> s, jobs |-> stored[s]]}
  BY DEF OpenSession, routeVars
<1>2. ~early' => ~early /\ loads = {} /\ InProgress = {}
  BY Zenon DEF OpenSession
<1>3. ~stray' => ~stray /\ ~Unmounting(shown)
  BY Zenon DEF OpenSession
<1>4. ASSUME ~early' PROVE AtHome'
  BY <1>1, <1>2, <1>4 DEF AtHome, InProgress
<1>5. ASSUME ~early', ~stray' PROVE CardsPolled'
  <2>1. CardsPolled
    BY <1>2, <1>3, <1>5 DEF Home
  <2>2. polls = {}
    BY <1>3, <1>5, <2>1 DEF CardsPolled, Unmounting
  <2> QED
    BY <1>1, <2>2 DEF CardsPolled
<1> QED
  BY <1>4, <1>5 DEF Home

LEMMA HomeLoaded == ASSUME ChatFacts, Home, NEW load \in loads, Loaded(load) PROVE Home'
<1>0. load \in Loads /\ load.session \in Session /\ load.jobs \subseteq Command
  BY DEF ChatFacts, PageTyped, Loads
<1>1. UNCHANGED <<command, active, polls, early>> /\ loads' = loads \ {load}
      /\ target' = IF load.session = New /\ target = {} THEN {New} ELSE target
  BY DEF Loaded, routeVars
<1>2. PICK jobsShown \in {load.jobs, stored[load.session]} :
        /\ shown' = jobsShown
        /\ bar' = IF shown \subseteq jobsShown THEN bar ELSE 0
        /\ stray' = (stray \/ Unmounting(shown \ jobsShown))
  BY DEF Loaded
<1>3. \A c \in jobsShown : command[c].session = load.session
  BY <1>0 DEF ChatFacts, RouteTyped, RouteCites, PageCites
<1>4. ~stray' => ~stray /\ ~Unmounting(shown \ jobsShown)
  BY <1>2, Zenon
<1>5. ASSUME ~early' PROVE AtHome' /\ target' = {load.session} /\ (target = {} \/ target' = target)
  <2>1. AtHome
    BY <1>1, <1>5 DEF Home
  <2>2. target' = {load.session} /\ (target = {} \/ target' = target)
    BY <1>1, <2>1 DEF AtHome
  <2>3. \A c \in Command : {command[c].session} = target => target' = target
    BY <2>2
  <2>4. \A other \in loads' : target' = {other.session}
    BY <1>1, <2>1, <2>2 DEF AtHome
  <2>5. \A c \in shown' : {command'[c].session} = target'
    BY <1>1, <1>2, <1>3, <2>2
  <2>6. \A c \in {active'} \ {0} : {command'[c].session} = target'
    BY <1>1, <2>1, <2>2 DEF AtHome
  <2>7. \A c \in Command : command'[c].stage \notin {"unsent", "over"} => {command'[c].session} = target'
    BY <1>1, <2>1, <2>3 DEF AtHome
  <2> QED
    BY <2>2, <2>4, <2>5, <2>6, <2>7 DEF AtHome
<1>6. ASSUME ~early', ~stray' PROVE CardsPolled'
  <2>1. CardsPolled
    BY <1>1, <1>4, <1>6 DEF Home
  <2>2. \A p \in polls' : p.job \in shown'
    BY <1>1, <1>2, <1>4, <1>6, <2>1 DEF CardsPolled, Unmounting
  <2>3. \A c \in {bar'} \ {0} : {command'[c].session} = target'
    BY <1>1, <1>2, <1>5, <1>6, <2>1 DEF CardsPolled
  <2> QED
    BY <2>2, <2>3 DEF CardsPolled
<1> QED
  BY <1>5, <1>6 DEF Home

LEMMA HomeLoadFails == ASSUME ChatFacts, Home, NEW load \in loads, LoadFails(load) PROVE Home'
<1>1. UNCHANGED <<command, target, active, polls, early>>
      /\ loads' = loads \ {load} /\ shown' = {} /\ bar' = 0
  BY DEF LoadFails, routeVars
<1>2. ~stray' => ~stray /\ ~Unmounting(shown)
  BY Zenon DEF LoadFails
<1>3. ASSUME ~early' PROVE AtHome'
  BY <1>1, <1>3 DEF Home, AtHome
<1>4. ASSUME ~early', ~stray' PROVE CardsPolled'
  <2>1. CardsPolled
    BY <1>1, <1>2, <1>4 DEF Home
  <2>2. polls = {}
    BY <1>2, <1>4, <2>1 DEF CardsPolled, Unmounting
  <2> QED
    BY <1>1, <2>2 DEF CardsPolled
<1> QED
  BY <1>3, <1>4 DEF Home

LEMMA HomeSend == ASSUME ChatFacts, Home, NEW c \in Command, SendCommand(c) PROVE Home'
<1>1. PICK s \in target : command' = [command EXCEPT ![c] = [stage |-> "asked", session |-> s]]
  BY SendEffect
<1>2. command[c].stage = "unsent" /\ UNCHANGED <<target, shown, loads, active, bar, polls, early, stray>>
  BY SendEffect DEF pageVars
<1>3. target = {s}
  BY DEF ChatFacts, PageTyped
<1>4. command'[c].session = s /\ \A d \in Command \ {c} : command'[d] = command[d]
  BY <1>1 DEF ChatFacts, RouteTyped
<1>5. c \notin shown \cup ({active, bar} \ {0})
  BY <1>2 DEF ChatFacts, PageCites, Posted
<1>6. shown \cup ({active, bar} \ {0}) \subseteq Command
  BY DEF ChatFacts, PageTyped
<1>7. AtHome => AtHome'
  BY <1>2, <1>3, <1>4, <1>5, <1>6 DEF AtHome
<1>8. CardsPolled => CardsPolled'
  BY <1>2, <1>3, <1>4, <1>5, <1>6 DEF CardsPolled
<1> HIDE DEF AtHome, CardsPolled
<1> QED
  BY <1>2, <1>7, <1>8, Zenon DEF Home

LEMMA HomeAnswered == ASSUME ChatFacts, Home, NEW c \in Command, Answered(c) PROVE Home'
<1>1. \A d \in Command : /\ command'[d].session = command[d].session
                         /\ command'[d].stage = IF d = c THEN "over" ELSE command[d].stage
  BY GoesOn DEF Stages, Answered, ChatFacts
<1>2. /\ command[c].stage \in {"answered", "refused"}
      /\ UNCHANGED <<target, loads, bar, polls, early, stray>>
  BY DEF Answered, AtStage
<1>3. shown \subseteq shown' /\ shown' \subseteq shown \cup {c} /\ active' \in {active, c}
  BY DEF Answered
<1>4. shown \cup ({active, bar} \ {0}) \subseteq Command
  BY DEF ChatFacts, PageTyped
<1>5. AtHome => AtHome'
  BY <1>1, <1>2, <1>3, <1>4 DEF AtHome
<1>6. CardsPolled => CardsPolled'
  BY <1>1, <1>2, <1>3, <1>4 DEF CardsPolled
<1> HIDE DEF AtHome, CardsPolled
<1> QED
  BY <1>2, <1>5, <1>6, Zenon DEF Home

LEMMA HomePolling == ASSUME ChatFacts, Home, NEW j \in Command, Polling(j) PROVE Home'
<1>1. UNCHANGED <<command, target, shown, loads, active, early>>
  BY DEF Polling, Poll, PollAnswered, routeVars
<1>2. AtHome => AtHome'
  BY <1>1 DEF AtHome
<1>3. (~stray' => ~stray) /\ (AtHome /\ CardsPolled => CardsPolled')
  <2>1. CASE Poll(j)
    <3> DEFINE answer == [job |-> j, ended |-> jobs[j] = "ended"]
    <3>1. answer.job = j /\ j \in shown /\ bar' = bar /\ polls' = polls \cup {answer}
      BY <2>1 DEF Poll
    <3> HIDE DEF answer
    <3>2. ~stray' => ~stray
      BY <2>1, Zenon DEF Poll
    <3> QED
      BY <1>1, <3>1, <3>2 DEF CardsPolled
  <2>2. ASSUME NEW p \in polls, PollAnswered(p) PROVE (~stray' => ~stray) /\ (AtHome /\ CardsPolled => CardsPolled')
    <3>1. bar' \in {0, p.job} /\ polls' = polls \ {p} /\ stray' = stray
      BY <2>2 DEF PollAnswered
    <3>2. AtHome /\ CardsPolled => CardsPolled'
      BY <1>1, <3>1 DEF AtHome, CardsPolled
    <3> HIDE DEF AtHome, CardsPolled
    <3> QED
      BY <3>1, <3>2, Zenon
  <2> QED
    BY <2>1, <2>2 DEF Polling
<1> HIDE DEF AtHome, CardsPolled
<1> QED
  BY <1>1, <1>2, <1>3, Zenon DEF Home

LEMMA HomeStop == ASSUME ChatFacts, Home, StopJob PROVE Home'
<1>1. UNCHANGED <<command, target, shown, loads, active, polls, early, stray>> /\ bar' = 0
  BY DEF StopJob
<1>2. (AtHome => AtHome') /\ (CardsPolled => CardsPolled')
  BY <1>1 DEF AtHome, CardsPolled
<1> HIDE DEF AtHome, CardsPolled
<1> QED
  BY <1>1, <1>2, Zenon DEF Home

LEMMA HomeStep == ChatFacts /\ Home /\ [ChatNext]_chatVars => Home'
<1> SUFFICES ASSUME ChatFacts, Home, [ChatNext]_chatVars PROVE Home'
  OBVIOUS
<1>1. CASE UNCHANGED chatVars
  <2>1. UNCHANGED <<command, pageVars>>
    BY <1>1 DEF chatVars, routeVars
  <2> QED
    BY <2>1, ChatFactsStep, HomeUnmoved
<1>2. CASE PageStep
  BY <1>2, HomeOpen, HomeLoaded, HomeLoadFails, HomeSend, HomeAnswered, HomeStop DEF PageStep
<1> QED
  BY <1>1, <1>2, HomeRoute, HomePolling DEF ChatNext

(* What the page shows and stops, and what its status bar is about, is of  *)
(* the session it is on, unless the user left a session while an answer of *)
(* it was still to come or a poll was answered after its card had gone.    *)
THEOREM PageKeepsSession == ChatSpec => []PageIsSession
<1>1. ChatInit => Home
  <2> SUFFICES ASSUME ChatInit PROVE AtHome /\ CardsPolled
    BY DEF Home
  <2> QED
    BY DEF ChatInit, AtHome, CardsPolled
<1>2. ChatFacts /\ Home => PageIsSession
  BY DEF Home, AtHome, CardsPolled, PageIsSession
<1> QED
  BY <1>1, <1>2, HomeStep, ChatFactsAlways, PTL DEF ChatSpec

-----------------------------------------------------------------------------
(* One job of the agent                                                    *)

USE AttemptsAssumption, RetriesAssumption, FaultsAssumption DEF now

-----------------------------------------------------------------------------
(* Type correctness                                                        *)

(* A job that does not exist yet is of the declared type.                  *)
LEMMA InitType == Init => TypeOK
<1> SUFFICES ASSUME Init PROVE TypeOK
  OBVIOUS
<1>1. asked \in BOOLEAN
  BY Zenon DEF Init
<1>2. /\ status \in Status
      /\ run \in InTry \cup {"none", "queued", "raising", "raised", "over"}
      /\ work \in {"none", "cut", "full"}
      /\ launch \in {"new", "created", "refused", "done", "failed"}
      /\ sending \in Event \cup {"nothing"}
      /\ handlers \subseteq Handler
  BY DEF Init, Status
<1>3. canceller \in [Canceller -> {"idle", "write", "done"}]
  BY DEF Init
<1>4. sweeper \in [Sweeper -> {"idle", "write", "wrote"}]
  BY DEF Init
<1>5. retries \in 0 .. MaxRetries /\ attempt \in 0 .. MaxAttempts /\ faults \in 0 .. MaxFaults
  BY DEF Init
<1> QED
  BY <1>1, <1>2, <1>3, <1>4, <1>5 DEF TypeOK

(* What a handler leaves as the status is a status.                        *)
LEMMA StatusAfterType ==
    ASSUME TypeOK, NEW e \in Event
    PROVE  StatusAfter(e) \in Status
BY DEF TypeOK, StatusAfter, Event, Status, Final

(* Every step keeps the types.                                             *)
LEMMA TypeStep == TypeOK /\ [Next]_vars => TypeOK'
<1> SUFFICES ASSUME TypeOK, [Next]_vars PROVE TypeOK'
  OBVIOUS
<1> USE DEF workerVars, Send, KeepQuiet, At, InTry, Event
<1>1. CASE Launch
  BY <1>1 DEF TypeOK, Launch, CreateJob, StartWorkerJob, LaunchFailed, Status, Final
<1>2. CASE Workflow \/ Raise
  BY <1>2 DEF TypeOK, Workflow, PickUp, FirstCheck, SecondCheck, DirectWork, Discovery,
              LastCheck, Callback, AfterFailure, Raise, ReadsCancelled, ReadsNotCancelled
<1>3. CASE Killed
  <2>1. faults' \in 0 .. MaxFaults
    BY <1>3 DEF TypeOK, Killed
  <2>2. handlers' \subseteq Handler
    BY <1>3, <2>1 DEF TypeOK, Killed, Handler
  <2> QED
    BY <1>3, <2>1, <2>2 DEF TypeOK, Killed
<1>4. CASE Post
  BY <1>4 DEF TypeOK, Post, Handler
<1>5. CASE GiveUp
  BY <1>5 DEF TypeOK, GiveUp
<1>6. CASE TimeOut
  <2>1. faults' \in 0 .. MaxFaults
    BY <1>6 DEF TypeOK, TimeOut
  <2>2. handlers' \subseteq Handler
    BY <1>6, <2>1 DEF TypeOK, TimeOut, Handler, Awaited
  <2> QED
    BY <1>6, <2>1, <2>2 DEF TypeOK, TimeOut
<1>7. ASSUME NEW h \in handlers, Handle(h) PROVE TypeOK'
  <2>1. status' \in Status
    BY <1>7, StatusAfterType DEF TypeOK, Handle, Handler
  <2> QED
    BY <1>7, <2>1 DEF TypeOK, Handle
<1>8. ASSUME NEW c \in Canceller, CancelRead(c) \/ CancelWrite(c) PROVE TypeOK'
  <2>1. asked' \in BOOLEAN
    BY <1>8, Zenon DEF TypeOK, CancelRead, CancelWrite
  <2>2. CASE CancelWrite(c)
    BY <2>1, <2>2 DEF TypeOK, CancelWrite, Status
  <2>3. CASE CancelRead(c) /\ status \in Final
    BY <2>1, <2>3 DEF TypeOK, CancelRead
  <2>4. CASE CancelRead(c) /\ status \notin Final
    BY <2>1, <2>4 DEF TypeOK, CancelRead
  <2> QED
    BY <1>8, <2>2, <2>3, <2>4
<1>9. ASSUME NEW s \in Sweeper, SweepList(s) \/ SweepWrite(s) PROVE TypeOK'
  BY <1>9 DEF TypeOK, SweepList, SweepWrite, Status, Final
<1>10. CASE UNCHANGED vars
  BY <1>10 DEF TypeOK, vars
<1> QED
  BY <1>1, <1>2, <1>3, <1>4, <1>5, <1>6, <1>7, <1>8, <1>9, <1>10 DEF Next

(* The status, the worker and the requests of a job keep their types.      *)
THEOREM TypeCorrect == Spec => []TypeOK
<1>1. Init => TypeOK
  BY InitType
<1> QED
  BY <1>1, TypeStep, PTL DEF Spec

-----------------------------------------------------------------------------
(* A cancellation has been asked for                                       *)

(* CancelledWasAsked, and what is on its way to make a job cancelled.      *)
AskedInv ==
  /\ CancelledWasAsked
  /\ \A c \in Canceller : canceller[c] = "write" => asked
  /\ \A h \in handlers : h.type = "job_cancelled" => asked

(* Every step keeps it: what a request found is never forgotten, and the   *)
(* worker reports only a cancellation it has read.                         *)
LEMMA AskedStep == TypeOK /\ AskedInv /\ [Next]_vars => AskedInv'
<1> SUFFICES ASSUME TypeOK, AskedInv, [Next]_vars PROVE AskedInv'
  OBVIOUS
<1> USE DEF workerVars, Send, KeepQuiet, At, AskedInv, CancelledWasAsked, CancelStatus
<1>1. CASE Launch
  BY <1>1 DEF Launch, CreateJob, StartWorkerJob, LaunchFailed
<1>2. CASE Workflow \/ Raise
  BY <1>2 DEF Workflow, PickUp, FirstCheck, SecondCheck, DirectWork, Discovery,
              LastCheck, Callback, AfterFailure, Raise, ReadsCancelled, ReadsNotCancelled
<1>3. CASE Killed
  BY <1>3 DEF TypeOK, Killed, Handler
<1>4. CASE Post \/ GiveUp
  BY <1>4 DEF Post, GiveUp
<1>5. CASE TimeOut
  BY <1>5 DEF TypeOK, TimeOut, Awaited, Handler
<1>6. ASSUME NEW h \in handlers, Handle(h) PROVE AskedInv'
  BY <1>6 DEF TypeOK, Handle, StatusAfter, Handler, Event
<1>7. ASSUME NEW c \in Canceller, CancelRead(c) \/ CancelWrite(c) PROVE AskedInv'
  BY <1>7 DEF TypeOK, CancelRead, CancelWrite
<1>8. ASSUME NEW s \in Sweeper, SweepList(s) \/ SweepWrite(s) PROVE AskedInv'
  BY <1>8 DEF SweepList, SweepWrite
<1>9. CASE UNCHANGED vars
  BY <1>9 DEF vars
<1> QED
  BY <1>1, <1>2, <1>3, <1>4, <1>5, <1>6, <1>7, <1>8, <1>9 DEF Next

(* A job is cancelled, or its work cut short, only at a request.           *)
THEOREM CancelledAsked == Spec => []CancelledWasAsked
<1>1. Init => TypeOK /\ AskedInv
  BY InitType DEF Init, AskedInv, CancelledWasAsked, CancelStatus
<1>2. TypeOK /\ AskedInv /\ [Next]_vars => (TypeOK /\ AskedInv)'
  BY TypeStep, AskedStep
<1>3. AskedInv => CancelledWasAsked
  BY DEF AskedInv
<1> QED
  BY <1>1, <1>2, <1>3, PTL DEF Spec

-----------------------------------------------------------------------------
(* What the worker reports, and who handles it                             *)

(* Each event is reported from one place of the workflow, and the worker   *)
(* waits for a handler of no other event.                                  *)
Reported ==
  /\ sending = "job_started" => run = "first_check"
  /\ sending = "unscoped_failed" => run = "raising"
  /\ sending = "job_failed" => run = "raised"
  /\ sending \in {"job_completed", "job_cancelled"} => run = "over"
  /\ \A h \in handlers : h.id = now => h.type = sending
  /\ launch \in {"new", "created"} => run = "none"

(* While nothing has gone wrong every handler is waited for, and an event  *)
(* posted is being handled: only one that is refused is ever given up.     *)
Quiet ==
  faults = 0 =>
    /\ \A h \in handlers : h.id = now
    /\ sending \notin {"nothing", "unscoped_failed"} /\ attempt > 0 => Awaited # {}

(* The launching request only hands the job over.                          *)
LEMMA LaunchReports ==
    ASSUME TypeOK, Reported, Quiet, Launch
    PROVE  Reported' /\ Quiet'
BY DEF TypeOK, Reported, Quiet, Launch, CreateJob, StartWorkerJob, LaunchFailed, workerVars,
       Awaited, Event

(* The workflow reports from where it is, with nobody else to wait for.    *)
LEMMA WorkflowReports ==
    ASSUME TypeOK, Reported, Quiet, Workflow \/ Raise
    PROVE  Reported' /\ Quiet'
<1> USE DEF Send, KeepQuiet, At
<1>1. sending = "nothing" /\ handlers' = handlers /\ launch' = launch
  BY DEF Workflow, PickUp, FirstCheck, SecondCheck, DirectWork, Discovery, LastCheck,
         Callback, AfterFailure, Raise, InTry
<1>2. \A h \in handlers : h.id # now
  BY <1>1 DEF TypeOK, Reported, Handler, Event
<1>3. run # "none"
  BY DEF Workflow, PickUp, FirstCheck, SecondCheck, DirectWork, Discovery, LastCheck,
         Callback, AfterFailure, Raise, InTry
<1>4. /\ sending' = "job_started" => run' = "first_check"
      /\ sending' = "unscoped_failed" => run' = "raising"
      /\ sending' = "job_failed" => run' = "raised"
      /\ sending' \in {"job_completed", "job_cancelled"} => run' = "over"
      /\ sending' # "nothing" => attempt' = 0
      /\ faults' = faults \/ faults' = faults + 1
  BY <1>1 DEF Workflow, PickUp, FirstCheck, SecondCheck, DirectWork, Discovery, LastCheck,
              Callback, AfterFailure, Raise, ReadsCancelled, ReadsNotCancelled
<1>5. faults' = 0 => faults = 0
  BY <1>4 DEF TypeOK
<1>6. Reported'
  BY <1>1, <1>2, <1>3, <1>4 DEF Reported
<1>7. Quiet'
  BY <1>1, <1>4, <1>5 DEF Quiet
<1> QED
  BY <1>6, <1>7

(* Posting makes the handler that is waited for.                           *)
LEMMA PostReports ==
    ASSUME TypeOK, Reported, Quiet, Post
    PROVE  Reported' /\ Quiet'
<1>1. Reported'
  BY DEF Reported, Post, Awaited
<1>2. [type |-> sending, id |-> now] \in Awaited'
  BY DEF Post, Awaited
<1>3. Quiet'
  BY <1>2 DEF Quiet, Post
<1> QED
  BY <1>1, <1>3

(* What goes wrong leaves the worker waiting for no handler it had.        *)
LEMMA FaultReports ==
    ASSUME TypeOK, Reported, Quiet, Killed \/ TimeOut \/ GiveUp
    PROVE  Reported' /\ Quiet'
<1> USE DEF Send
<1>1. CASE GiveUp
  BY <1>1 DEF TypeOK, Reported, Quiet, GiveUp, Awaited, Event
<1>2. CASE Killed
  <2>1. faults' # 0 /\ faults + 1 # now
    BY <1>2 DEF TypeOK, Killed
  <2>2. \A h \in handlers' : h.id # now
    BY <1>2, <2>1 DEF TypeOK, Killed, Handler
  <2> QED
    BY <1>2, <2>1, <2>2 DEF TypeOK, Reported, Quiet, Killed, InTry
<1>3. CASE TimeOut
  <2>1. faults' # 0 /\ faults + 1 # now
    BY <1>3 DEF TypeOK, TimeOut
  <2>2. \A h \in handlers' : h.id = now => h \in handlers
    BY <1>3, <2>1 DEF TypeOK, TimeOut, Handler, Awaited
  <2> QED
    BY <1>3, <2>1, <2>2 DEF Reported, Quiet, TimeOut, workerVars
<1> QED
  BY <1>1, <1>2, <1>3

(* A handler that the worker hears of was the only one it waited for.      *)
LEMMA HandleReports ==
    ASSUME TypeOK, Reported, Quiet, NEW h \in handlers, Handle(h)
    PROVE  Reported' /\ Quiet'
<1> USE DEF Send, KeepQuiet
<1>1. CASE h.id = now /\ h.type # "unscoped_failed"
  <2>1. \A g \in handlers' : g.id # now
    BY <1>1 DEF TypeOK, Reported, Handle, Handler
  <2>2. sending' = "nothing" /\ faults' = faults /\ handlers' \subseteq handlers
    BY <1>1 DEF Handle
  <2> QED
    BY <1>1, <2>1, <2>2 DEF Reported, Quiet, Handle
<1>2. CASE ~(h.id = now /\ h.type # "unscoped_failed")
  <2>1. sending' = sending /\ attempt' = attempt /\ faults' = faults /\ handlers' = handlers \ {h}
        /\ run' = run /\ launch' = launch
    BY <1>2 DEF Handle
  <2>2. Reported'
    BY <2>1 DEF Reported
  <2>3. faults = 0 => h.id = now /\ sending = "unscoped_failed"
    BY <1>2 DEF Reported, Quiet
  <2>4. Quiet'
    BY <2>1, <2>3 DEF Quiet
  <2> QED
    BY <2>2, <2>4
<1> QED
  BY <1>1, <1>2

(* Every step keeps both.                                                  *)
LEMMA ReportStep ==
    TypeOK /\ Reported /\ Quiet /\ [Next]_vars => Reported' /\ Quiet'
<1> SUFFICES ASSUME TypeOK, Reported, Quiet, [Next]_vars PROVE Reported' /\ Quiet'
  OBVIOUS
<1> USE DEF workerVars
<1>1. ASSUME NEW c \in Canceller, CancelRead(c) \/ CancelWrite(c) PROVE Reported' /\ Quiet'
  BY <1>1 DEF Reported, Quiet, CancelRead, CancelWrite, Awaited
<1>2. ASSUME NEW s \in Sweeper, SweepList(s) \/ SweepWrite(s) PROVE Reported' /\ Quiet'
  BY <1>2 DEF Reported, Quiet, SweepList, SweepWrite, Awaited
<1>3. CASE UNCHANGED vars
  BY <1>3 DEF vars, Reported, Quiet, Awaited
<1> QED
  BY <1>1, <1>2, <1>3, LaunchReports, WorkflowReports, PostReports, FaultReports,
     HandleReports DEF Next

-----------------------------------------------------------------------------
(* A running job is alive                                                  *)

(* Every step keeps RunningIsAlive: the end of a run is reported by the    *)
(* handler the worker waits for, and the handler of job_started is one of  *)
(* a run that has only begun.                                              *)
LEMMA AliveStep ==
    TypeOK /\ Reported /\ Quiet /\ RunningIsAlive /\ [Next]_vars => RunningIsAlive'
<1> SUFFICES ASSUME TypeOK, Reported, Quiet, RunningIsAlive, [Next]_vars,
                    status' = "running", faults' = 0
             PROVE  run' \in InTry \cup {"raising"} \/ sending' # "nothing"
  BY DEF RunningIsAlive
<1> USE DEF workerVars, Send, KeepQuiet, At, RunningIsAlive, InTry
<1>1. CASE Launch
  BY <1>1 DEF TypeOK, Reported, Launch, CreateJob, StartWorkerJob, LaunchFailed, Event
<1>2. CASE Workflow \/ Raise
  BY <1>2 DEF TypeOK, Workflow, PickUp, FirstCheck, SecondCheck, DirectWork, Discovery,
              LastCheck, Callback, AfterFailure, Raise, ReadsCancelled, ReadsNotCancelled
<1>3. CASE Killed \/ TimeOut
  BY <1>3 DEF TypeOK, Killed, TimeOut
<1>4. CASE Post
  BY <1>4 DEF Post
<1>5. CASE GiveUp
  <2>1. sending = "unscoped_failed"
    BY <1>5 DEF TypeOK, Quiet, GiveUp
  <2> QED
    BY <1>5, <2>1 DEF Reported, GiveUp
<1>6. ASSUME NEW h \in handlers, Handle(h)
      PROVE  run' \in InTry \cup {"raising"} \/ sending' # "nothing"
  <2>1. faults = 0 /\ h.id = now /\ h.type = sending /\ h.type \in Event
    BY <1>6 DEF TypeOK, Quiet, Reported, Handle, Handler
  <2>2. CASE h.type = "job_started"
    BY <1>6, <2>1, <2>2 DEF Reported, Handle
  <2>3. CASE h.type = "unscoped_failed"
    BY <1>6, <2>1, <2>3 DEF Handle
  <2>4. CASE h.type \in {"job_completed", "job_cancelled", "job_failed"}
    BY <1>6, <2>4 DEF Handle, StatusAfter
  <2> QED
    BY <2>1, <2>2, <2>3, <2>4 DEF Event
<1>7. ASSUME NEW c \in Canceller, CancelRead(c) \/ CancelWrite(c)
      PROVE  run' \in InTry \cup {"raising"} \/ sending' # "nothing"
  BY <1>7 DEF CancelRead, CancelWrite
<1>8. ASSUME NEW s \in Sweeper, SweepList(s) \/ SweepWrite(s)
      PROVE  run' \in InTry \cup {"raising"} \/ sending' # "nothing"
  BY <1>8 DEF SweepList, SweepWrite
<1>9. CASE UNCHANGED vars
  BY <1>9 DEF vars
<1> QED
  BY <1>1, <1>2, <1>3, <1>4, <1>5, <1>6, <1>7, <1>8, <1>9 DEF Next

(* Without a fault no job is shown as running that the worker has done     *)
(* with, whoever cancels and sweeps, and however often it is retried.      *)
THEOREM RunningAlive == Spec => []RunningIsAlive
<1>1. Init => TypeOK /\ Reported /\ Quiet /\ RunningIsAlive
  BY InitType DEF Init, Reported, Quiet, RunningIsAlive, Awaited
<1>2. TypeOK /\ Reported /\ Quiet /\ RunningIsAlive /\ [Next]_vars
        => (TypeOK /\ Reported /\ Quiet /\ RunningIsAlive)'
  BY TypeStep, ReportStep, AliveStep
<1> QED
  BY <1>1, <1>2, PTL DEF Spec

-----------------------------------------------------------------------------
(* A search cut short is not completed                                     *)

(* Until something overwrites it, the cancellation that cut the search is  *)
(* there for the last check to read, and completion is never reported.     *)
CutInv ==
  work = "cut" =>
    /\ run \in {"last_check", "over", "raising", "raised", "queued"}
    /\ \/ Overwritten
       \/ /\ status \in CancelStatus \cup {"failed"}
          /\ sending # "job_completed"
          /\ run = "last_check" => status \in CancelStatus

(* What overwrites a cancellation is remembered.                           *)
LEMMA OverwrittenStays == TypeOK /\ Overwritten /\ [Next]_vars => Overwritten'
<1> SUFFICES ASSUME TypeOK, Overwritten, [Next]_vars PROVE Overwritten'
  OBVIOUS
<1>1. faults' = faults \/ faults' = faults + 1
  BY DEF Next, Launch, CreateJob, StartWorkerJob, LaunchFailed, Workflow, PickUp, FirstCheck,
         SecondCheck, DirectWork, Discovery, LastCheck, Callback, AfterFailure, Raise, Killed,
         Post, GiveUp, TimeOut, Handle, CancelRead, CancelWrite, SweepList, SweepWrite,
         ReadsCancelled, ReadsNotCancelled, vars
<1>2. launch = "failed" => launch' = "failed"
  BY DEF Next, Launch, CreateJob, StartWorkerJob, LaunchFailed, Workflow, PickUp, FirstCheck,
         SecondCheck, DirectWork, Discovery, LastCheck, Callback, AfterFailure, Raise, Killed,
         Post, GiveUp, TimeOut, Handle, CancelRead, CancelWrite, SweepList, SweepWrite, vars
<1>3. \A s \in Sweeper : sweeper[s] = "wrote" => sweeper'[s] = "wrote"
  BY DEF TypeOK, Next, Launch, CreateJob, StartWorkerJob, LaunchFailed, Workflow, PickUp,
         FirstCheck, SecondCheck, DirectWork, Discovery, LastCheck, Callback, AfterFailure,
         Raise, Killed, Post, GiveUp, TimeOut, Handle, CancelRead, CancelWrite, SweepList,
         SweepWrite, vars
<1> QED
  BY <1>1, <1>2, <1>3 DEF TypeOK, Overwritten

(* Every step keeps CutInv.                                                *)
LEMMA CutStep ==
    TypeOK /\ Reported /\ Quiet /\ CutInv /\ [Next]_vars => CutInv'
<1> SUFFICES ASSUME TypeOK, Reported, Quiet, CutInv, [Next]_vars PROVE CutInv'
  OBVIOUS
<1> USE OverwrittenStays DEF workerVars, Send, KeepQuiet, At, CutInv, InTry
<1>1. CASE CreateJob \/ StartWorkerJob
  BY <1>1 DEF Reported, CreateJob, StartWorkerJob
<1>2. CASE LaunchFailed
  BY <1>2 DEF LaunchFailed, Overwritten
<1>3. CASE PickUp \/ FirstCheck \/ SecondCheck \/ DirectWork \/ Callback \/ AfterFailure \/ Raise
  BY <1>3 DEF PickUp, FirstCheck, SecondCheck, DirectWork, Callback, AfterFailure, Raise
<1>4. CASE Discovery
  BY <1>4 DEF Discovery, ReadsCancelled, ReadsNotCancelled
<1>5. CASE LastCheck
  <2>1. CASE ReadsCancelled
    BY <1>5, <2>1 DEF TypeOK, LastCheck, ReadsCancelled, ReadsNotCancelled, CancelStatus
  <2>2. CASE ReadsNotCancelled /\ faults' = faults
    BY <1>5, <2>2 DEF TypeOK, LastCheck, ReadsNotCancelled
  <2>3. CASE faults' = faults + 1
    BY <1>5, <2>3 DEF TypeOK, LastCheck, Overwritten
  <2> QED
    BY <1>5, <2>1, <2>2, <2>3 DEF LastCheck, ReadsNotCancelled
<1>6. CASE Killed
  BY <1>6 DEF TypeOK, Killed, Overwritten
<1>7. CASE Post \/ TimeOut \/ GiveUp
  BY <1>7 DEF Post, TimeOut, GiveUp
<1>8. ASSUME NEW h \in handlers, Handle(h) PROVE CutInv'
  <2>1. CASE Overwritten
    BY <1>8, <2>1 DEF Handle
  <2>2. CASE ~Overwritten /\ work = "cut"
    <3>1. faults = 0
      BY <2>2 DEF TypeOK, Overwritten
    <3>2. h.type = sending /\ h.type \in Event
      BY <3>1 DEF TypeOK, Quiet, Reported, Handler
    <3>3. h.type \in {"job_cancelled", "job_failed", "unscoped_failed"} /\ run # "last_check"
      BY <2>2, <3>2 DEF Reported, Event
    <3> QED
      BY <1>8, <2>2, <3>3 DEF Handle, StatusAfter, CancelStatus
  <2>3. CASE work # "cut"
    BY <1>8, <2>3 DEF Handle
  <2> QED
    BY <2>1, <2>2, <2>3
<1>9. ASSUME NEW c \in Canceller, CancelRead(c) \/ CancelWrite(c) PROVE CutInv'
  BY <1>9 DEF CancelRead, CancelWrite, CancelStatus
<1>10. ASSUME NEW s \in Sweeper, SweepList(s) PROVE CutInv'
  BY <1>10 DEF SweepList
<1>11. ASSUME NEW s \in Sweeper, SweepWrite(s) PROVE CutInv'
  BY <1>11 DEF TypeOK, SweepWrite, Overwritten
<1>12. CASE UNCHANGED vars
  BY <1>12 DEF vars, Overwritten
<1> QED
  BY <1>1, <1>2, <1>3, <1>4, <1>5, <1>6, <1>7, <1>8, <1>9, <1>10, <1>11, <1>12
     DEF Next, Launch, Workflow

(* A job whose search was cut short is shown as completed only after the   *)
(* sweep, the launching request or a fault has overwritten its status.     *)
THEOREM CutCancelled == Spec => []CutIsCancelled
<1>1. Init => TypeOK /\ Reported /\ Quiet /\ CutInv
  BY InitType DEF Init, Reported, Quiet, CutInv, Awaited
<1>2. TypeOK /\ Reported /\ Quiet /\ CutInv /\ [Next]_vars
        => (TypeOK /\ Reported /\ Quiet /\ CutInv)'
  BY TypeStep, ReportStep, CutStep
<1>3. CutInv => CutIsCancelled
  BY DEF CutInv, CutIsCancelled, CancelStatus
<1> QED
  BY <1>1, <1>2, <1>3, PTL DEF Spec

-----------------------------------------------------------------------------
(* The parts together                                                      *)

PartsFacts == RenderInv /\ DiscoveryTypes /\ TypeOK /\ ChatFacts

(* What a part is at, the other parts keep their facts.                    *)
LEMMA PartsFactsStep == PartsFacts /\ [PartsNext]_partsVars => PartsFacts'
<1> SUFFICES ASSUME PartsFacts, [PartsNext]_partsVars PROVE PartsFacts'
  OBVIOUS
<1>1. [RenderNext]_renderVars
  BY DEF PartsNext, partsVars
<1>2. [DiscoveryNext]_discoveryVars
  BY DEF PartsNext, partsVars
<1>3. [Next]_vars
  BY DEF PartsNext, partsVars
<1>4. [ChatNext]_chatVars
  BY DEF PartsNext, partsVars
<1> QED
  BY <1>1, <1>2, <1>3, <1>4, TypesStep, StepTypes, TypeStep, ChatFactsStep DEF PartsFacts

(* The worker's renders and discovery runs, jobs and the chat that follows *)
(* them keep the types of their variables, whichever of them is at work.   *)
THEOREM PartsTypesCorrect == PartsSpec => []PartsTypeOK
<1>1. PartsInit => PartsFacts
  BY InitTypes, InitDiscovery, InitType, ChatFactsInit DEF PartsInit, PartsFacts
<1>2. PartsFacts => PartsTypeOK
  BY TypesImply, ChatTypes DEF PartsFacts, PartsTypeOK, RenderInv
<1> QED
  BY <1>1, <1>2, PartsFactsStep, PTL DEF PartsSpec
=============================================================================
