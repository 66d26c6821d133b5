-------------------------- MODULE SendQueueProofs --------------------------
(***************************************************************************)
(* What holds of the send queue for every set of items, leads, senders and *)
(* every number of events: its type, that no item is e-mailed twice, that  *)
(* a suppressed lead is left alone, that the queue keeps the promise of    *)
(* Delivery, and by how much the daily limit can be exceeded.              *)
(***************************************************************************)
EXTENDS SendQueue, FiniteSetTheorems, TLAPS

USE SendQueueAssumption

-----------------------------------------------------------------------------
(* Type correctness, action by action                                      *)

(* The rows as they are before any run are of the declared types.          *)
LEMMA InitType == Init => TypeOK
BY DEF Init, TypeOK, QueueStatus, OutsideItem

(* Counting an environment event down leaves the bounds natural numbers.   *)
LEMMA SpendType ==
    ASSUME TypeOK, NEW e \in Event, Spend(e)
    PROVE  quota' \in [Event -> Nat]
BY DEF TypeOK, Spend

(* Leaving an item, at the end of the loop body or of the run, leaves the  *)
(* sender outside the loop body with no item, as TypeOK wants it.          *)
LEMMA NextItemType ==
    ASSUME TypeOK, NEW s \in Sender, NEW rest \in SUBSET Item, NextItem(s, rest)
    PROVE  /\ pc' \in [Sender -> OutsideItem \cup InTry \cup InCatch]
           /\ work' \in [Sender -> Item \cup {NoItem}]
           /\ \A t \in Sender : pc'[t] \in OutsideItem <=> work'[t] = NoItem
           /\ batch' \in [Sender -> SUBSET Item]
BY DEF TypeOK, NextItem, Goto, OutsideItem, InTry, Checks, InCatch

(* An update by id that ends the item, with a status the queue knows, keeps *)
(* the types.                                                              *)
LEMMA FinishType ==
    ASSUME TypeOK, NEW s \in Sender, NEW status \in QueueStatus, Finish(s, status),
           work[s] \in Item
    PROVE  TypeOK'
<1>1. batch[s] \in SUBSET Item
  BY DEF TypeOK
<1>2. /\ queue' \in [Item -> QueueStatus]
      /\ lease' \in [Item -> {"none", "live", "expired"}]
  BY DEF TypeOK, Finish
<1> QED
  BY <1>1, <1>2, NextItemType DEF TypeOK, Finish, leadVars, settingVars, mailVars

(* The two unconditional status updates of the loop body keep the types.   *)
LEMMA OverwriteType ==
    ASSUME TypeOK, NEW s \in Sender, NEW from, NEW status \in QueueStatus,
           NEW to \in InTry, from \in InTry, Overwrite(s, from, status, to)
    PROVE  TypeOK'
BY DEF TypeOK, Overwrite, Goto, leadVars, settingVars, mailVars, OutsideItem, InTry, Checks, InCatch

(* Every statement of processQueue keeps the types.                        *)
LEMMA SenderType ==
    ASSUME TypeOK, NEW s \in Sender, SenderStep(s)
    PROVE  TypeOK'
<1> USE DEF leadVars, settingVars, mailVars, itemVars
<1>1. CASE Start(s)
  BY <1>1 DEF TypeOK, Start, Goto, QueueStatus, OutsideItem, InTry, Checks, InCatch
<1>2. CASE OpenGmail(s)
  BY <1>2 DEF TypeOK, OpenGmail, Goto, OutsideItem, InTry, Checks, InCatch
<1>3. CASE BlockWithoutGmail(s)
  BY <1>3 DEF TypeOK, BlockWithoutGmail, SetStatus, Goto, QueueStatus, OutsideItem, InTry, Checks, InCatch
<1>4. CASE ListCandidates(s)
  BY <1>4 DEF TypeOK, ListCandidates, Goto, OutsideItem, InTry, Checks, InCatch
<1>5. ASSUME NEW i \in Item, Claim(s, i) PROVE TypeOK'
  <2>1. CASE Claimable(i)
    BY <1>5, <2>1 DEF TypeOK, Claim, Goto, QueueStatus, OutsideItem, InTry, Checks, InCatch
  <2>2. CASE ~Claimable(i)
    <3>1. NextItem(s, batch[s] \ {i}) /\ batch[s] \ {i} \in SUBSET Item
      BY <1>5, <2>2 DEF Claim, TypeOK
    <3> QED
      BY <1>5, <2>2, <3>1, NextItemType DEF TypeOK, Claim
  <2> QED
    BY <2>1, <2>2
<1>6. CASE CheckLead(s) \/ CheckSuppression(s)
  BY <1>6 DEF TypeOK, CheckLead, CheckSuppression, Check, Checks, Goto, OutsideItem, InTry,
     InCatch
<1>7. CASE CheckCampaign(s) \/ CheckLimit(s) \/ CheckGmail(s)
  BY <1>7 DEF TypeOK, CheckCampaign, CheckLimit, CheckGmail, Check, Checks, Goto, OutsideItem,
     InTry, Checks, InCatch
<1>8. CASE BlockItem(s)
  BY <1>8, FinishType DEF BlockItem, TypeOK, QueueStatus, OutsideItem, InTry, Checks, InCatch
<1>9. CASE FindAttempt(s)
  BY <1>9 DEF TypeOK, FindAttempt, AttemptVerdict, Goto, OutsideItem, InTry, Checks, InCatch
<1>10. CASE Settle(s)
  BY <1>10, FinishType DEF Settle, TypeOK, QueueStatus, OutsideItem, InTry, Checks, InCatch
<1>11. CASE MarkQueued(s)
  BY <1>11, OverwriteType DEF MarkQueued, QueueStatus, InTry
<1>12. CASE Reserve(s)
  BY <1>12 DEF TypeOK, Reserve, Goto, OutsideItem, InTry, Checks, InCatch
<1>13. CASE MarkSending(s)
  BY <1>13, OverwriteType DEF MarkSending, QueueStatus, InTry
<1>14. CASE CallGmail(s)
  BY <1>14 DEF TypeOK, CallGmail, Goto, OutsideItem, InTry, Checks, InCatch
<1>15. CASE Commit(s)
  BY <1>15 DEF TypeOK, Commit, Goto, QueueStatus, OutsideItem, InTry, Checks, InCatch
<1>16. CASE AfterSend(s)
  BY <1>16, NextItemType DEF TypeOK, AfterSend
<1>17. CASE RowGone(s)
  BY <1>17 DEF TypeOK, RowGone, Throw, Goto, RowSteps, OutsideItem, InTry, Checks, InCatch
<1>18. CASE MarkUnknown(s)
  BY <1>18 DEF TypeOK, MarkUnknown, Doubted, Goto, OutsideItem, InTry, Checks, InCatch
<1>19. CASE MarkFailed(s)
  <2>1. CASE Finish(s, "failed")
    BY <1>19, <2>1, FinishType DEF MarkFailed, TypeOK, QueueStatus, OutsideItem
  <2>2. CASE EndRun(s) /\ UNCHANGED quota
    BY <2>2 DEF TypeOK, EndRun, Goto, OutsideItem, InTry, Checks, InCatch
  <2> QED
    BY <1>19, <2>1, <2>2 DEF MarkFailed
<1> QED
  BY <1>1, <1>2, <1>3, <1>4, <1>5, <1>6, <1>7, <1>8, <1>9, <1>10, <1>11, <1>12, <1>13,
     <1>14, <1>15, <1>16, <1>17, <1>18, <1>19 DEF SenderStep

(* Every later statement of a handler keeps the types.                     *)
LEMMA HandlerType ==
    ASSUME TypeOK, HandlerStep
    PROVE  TypeOK'
<1> USE DEF leadVars, settingVars, mailVars, senderVars, itemVars
<1>1. ASSUME NEW i \in Item, Upsert(i) PROVE TypeOK'
  BY <1>1 DEF TypeOK, Upsert, UpsertStatus, QueueStatus
<1>2. ASSUME NEW l \in Lead, AddSuppression(l) PROVE TypeOK'
  BY <1>2 DEF TypeOK, AddSuppression, Handler
<1>3. ASSUME NEW l \in Lead, CancelSuppressed(l) PROVE TypeOK'
  BY <1>3 DEF TypeOK, CancelSuppressed, SetStatus, QueueStatus
<1>4. ASSUME NEW l \in Lead, NEW class \in Classification, CancelReplied(l, class) PROVE TypeOK'
  BY <1>4 DEF TypeOK, CancelReplied, SetStatus, QueueStatus, Handler
<1>5. ASSUME NEW l \in Lead, NEW class \in Classification, Classify(l, class) PROVE TypeOK'
  BY <1>5 DEF TypeOK, Classify, Handler
<1>6. CASE BlockDisconnected
  BY <1>6 DEF TypeOK, BlockDisconnected, SetStatus, QueueStatus
<1> QED
  BY <1>1, <1>2, <1>3, <1>4, <1>5, <1>6 DEF HandlerStep

(* Requests, faults, clocks and settings keep the types.                   *)
LEMMA EnvironmentType ==
    ASSUME TypeOK, Environment
    PROVE  TypeOK'
<1> USE SpendType DEF leadVars, settingVars, mailVars, senderVars, itemVars, Event
<1>1. ASSUME NEW s \in Sender, StatementFails(s) PROVE TypeOK'
  BY <1>1 DEF TypeOK, StatementFails, Throw, Goto, OutsideItem, InTry, Checks, InCatch
<1>2. ASSUME NEW s \in Sender, Crash(s) PROVE TypeOK'
  BY <1>2 DEF TypeOK, Crash, EndRun, Goto, OutsideItem, InTry, Checks, InCatch
<1>3. ASSUME NEW h \in handlers, HandlerDies(h) PROVE TypeOK'
  BY <1>3 DEF TypeOK, HandlerDies
<1>4. ASSUME NEW i \in Item, Approve(i) PROVE TypeOK'
  BY <1>4 DEF TypeOK, Approve, Handler
<1>5. ASSUME NEW i \in Item, LeaseExpires(i) PROVE TypeOK'
  BY <1>5 DEF TypeOK, LeaseExpires
<1>6. ASSUME NEW i \in Item, DayPasses(i) PROVE TypeOK'
  BY <1>6 DEF TypeOK, DayPasses
<1>7. ASSUME NEW l \in Lead, Unsubscribe(l) PROVE TypeOK'
  BY <1>7 DEF TypeOK, Unsubscribe, Handler
<1>8. ASSUME NEW l \in Lead, RemoveSuppression(l) PROVE TypeOK'
  BY <1>8 DEF TypeOK, RemoveSuppression
<1>9. ASSUME NEW l \in Lead, NEW class \in Classification, IngestReply(l, class) PROVE TypeOK'
  BY <1>9 DEF TypeOK, IngestReply, Handler
<1>10. ASSUME NEW c \in Campaign, SetCampaign(c) PROVE TypeOK'
  BY <1>10 DEF TypeOK, SetCampaign
<1>11. ASSUME NEW c \in Campaign, DeleteCampaign(c) PROVE TypeOK'
  BY <1>11 DEF TypeOK, DeleteCampaign, QueueStatus
<1>12. ASSUME NEW l \in Lead, NEW c \in Campaign, RemoveLead(l, c) PROVE TypeOK'
  BY <1>12 DEF TypeOK, RemoveLead, SetStatus, QueueStatus
<1>13. CASE Disconnect
  BY <1>13 DEF TypeOK, Disconnect, Handler
<1>14. CASE ConnectGmail
  BY <1>14 DEF TypeOK, ConnectGmail
<1>15. CASE Midnight
  BY <1>15 DEF TypeOK, Midnight
<1> QED
  BY <1>1, <1>2, <1>3, <1>4, <1>5, <1>6, <1>7, <1>8, <1>9, <1>10, <1>11, <1>12, <1>13,
     <1>14, <1>15 DEF Environment

(* Every reachable state has the type TypeOK: statuses, leases, records,   *)
(* handlers and sender positions stay in the sets the code writes, and a   *)
(* sender has an item exactly while it is inside the loop body of          *)
(* processQueue.                                                           *)
THEOREM TypeCorrect == Spec => []TypeOK
<1>1. TypeOK /\ [Next]_vars => TypeOK'
  <2>1. ASSUME TypeOK, UNCHANGED vars PROVE TypeOK'
    BY <2>1 DEF TypeOK, vars, itemVars, leadVars, settingVars, senderVars, mailVars
  <2> QED
    BY <2>1, SenderType, HandlerType, EnvironmentType DEF Next
<1> QED
  BY <1>1, InitType, PTL DEF Spec

-----------------------------------------------------------------------------
(* At most one e-mail per item                                             *)

(* Steps that touch neither the delivery rows nor Gmail, bring no sender   *)
(* to one of the four critical positions, write "sent" to no row and undo  *)
(* no deletion.                                                            *)
Critical == {"mark", "call", "commit", "settleSent"}
Harmless ==
    /\ UNCHANGED <<sentEmail, calls, delivered>>
    /\ \A i \in Item : queue'[i] = queue[i] \/ (~Gone(i) /\ queue'[i] # "sent")
    /\ \A s \in Sender : \/ pc'[s] \notin Critical
                         \/ pc'[s] = pc[s] /\ work'[s] = work[s]

LEMMA HarmlessStep ==
    ASSUME DeliveryInv, Harmless
    PROVE  DeliveryInv'
<1>1. \A i \in Item : Gone(i) => Gone(i)'
  BY DEF Harmless, Gone
<1>2. \A i \in Item : Attempted(i)' = Attempted(i)
  BY DEF Harmless, Attempted
<1>3. \A i \in Item : Holding(i)' \subseteq Holding(i)
  BY DEF Harmless, Holding, Critical
<1>4. HolderIsFirst'
  BY <1>1, <1>2, <1>3 DEF DeliveryInv, HolderIsFirst, Harmless
<1>5. RecorderKnows'
  BY DEF DeliveryInv, RecorderKnows, Harmless, Critical
<1>6. AtMostOneCall' /\ EvidenceOfCall'
  BY <1>1, <1>2 DEF DeliveryInv, AtMostOneCall, EvidenceOfCall, Harmless
<1>7. ExclusiveSend'
  BY <1>3 DEF DeliveryInv, ExclusiveSend
<1>8. SentIsTruthful'
  BY DEF DeliveryInv, SentIsTruthful, Harmless
<1> QED
  BY <1>4, <1>5, <1>6, <1>7, <1>8 DEF DeliveryInv

(* A sender leaves the item, having written a harmless status. *)
LEMMA FinishHarmless ==
    ASSUME TypeOK, NEW s \in Sender, NEW status, status # "sent", Finish(s, status)
    PROVE  Harmless
BY DEF TypeOK, Finish, NextItem, Goto, Harmless, Critical, Gone, mailVars

(* An updateMany that cancels, blocks or re-queues rows (it never writes   *)
(* "sent" and deletes nothing) is harmless.                                *)
LEMMA SetStatusHarmless ==
    ASSUME TypeOK, NEW S, NEW From, NEW status, status # "sent", "deleted" \notin From,
           SetStatus(S, From, status), UNCHANGED <<senderVars, sentEmail, mailVars>>
    PROVE  Harmless
BY DEF TypeOK, SetStatus, Harmless, Gone, mailVars, senderVars

(* Before any run nothing is sent, recorded or held.                       *)
LEMMA InitDelivery == Init => DeliveryInv
BY DEF Init, DeliveryInv, HolderIsFirst, RecorderKnows, AtMostOneCall, ExclusiveSend,
       EvidenceOfCall, SentIsTruthful, Holding

(* The reservation makes its sender the only and first holder: the unique  *)
(* key let it pass only if the item had no row, hence no call.             *)
LEMMA ReserveDelivery ==
    ASSUME TypeOK, DeliveryInv, NEW s \in Sender, Reserve(s)
    PROVE  DeliveryInv'
<1> DEFINE w == work[s]
<1>1. w \in Item
  BY DEF Reserve, TypeOK, OutsideItem
<1>2. CASE Attempted(w)
  <2>1. Harmless
    BY <1>2 DEF TypeOK, Reserve, Goto, Harmless, Critical, mailVars
  <2> QED
    BY <2>1, HarmlessStep
<1>3. CASE ~Attempted(w)
  <2>1. /\ sentEmail' = [sentEmail EXCEPT ![w] = "sending"]
        /\ pc' = [pc EXCEPT ![s] = "mark"]
        /\ UNCHANGED <<queue, work, calls, delivered>> /\ ~Gone(w) /\ pc[s] = "reserve"
    BY <1>3 DEF Reserve, Goto, mailVars
  <2>2. calls[w] = 0 /\ Holding(w) = {}
    BY <1>1, <1>3, <2>1 DEF DeliveryInv, EvidenceOfCall, HolderIsFirst, TypeOK
  <2>3. /\ Holding(w)' = {s}
        /\ \A i \in Item \ {w} : Holding(i)' = Holding(i)
    BY <1>1, <2>1, <2>2 DEF Holding, TypeOK
  <2>4. /\ Attempted(w)'
        /\ \A i \in Item \ {w} : Attempted(i)' = Attempted(i)
        /\ \A i \in Item : Gone(i)' = Gone(i)
    BY <1>1, <2>1 DEF Attempted, Gone, TypeOK
  <2>5. HolderIsFirst' /\ ExclusiveSend'
    BY <2>1, <2>2, <2>3, <2>4 DEF DeliveryInv, HolderIsFirst, ExclusiveSend
  <2>6. AtMostOneCall' /\ EvidenceOfCall'
    BY <2>1, <2>4 DEF DeliveryInv, AtMostOneCall, EvidenceOfCall
  <2>7. RecorderKnows' /\ SentIsTruthful'
    BY <1>1, <2>1 DEF DeliveryInv, RecorderKnows, SentIsTruthful, TypeOK
  <2> QED
    BY <2>5, <2>6, <2>7 DEF DeliveryInv
<1> QED
  BY <1>2, <1>3

(* Marking the row "sending" leaves the holder where it was between the    *)
(* reservation and the call.                                               *)
LEMMA MarkSendingDelivery ==
    ASSUME TypeOK, DeliveryInv, NEW s \in Sender, MarkSending(s)
    PROVE  DeliveryInv'
<1>1. /\ queue' = [queue EXCEPT ![work[s]] = "sending"]
      /\ pc' = [pc EXCEPT ![s] = "call"] /\ pc[s] = "mark" /\ ~Gone(work[s])
      /\ UNCHANGED <<sentEmail, work, calls, delivered>>
  BY DEF MarkSending, Overwrite, Goto, mailVars
<1>2. \A i \in Item : Holding(i)' = Holding(i)
  BY <1>1 DEF Holding, TypeOK
<1>3. \A i \in Item : Attempted(i)' = Attempted(i) /\ Gone(i)' = Gone(i)
  BY <1>1 DEF Attempted, Gone, TypeOK
<1>4. HolderIsFirst' /\ ExclusiveSend' /\ AtMostOneCall' /\ EvidenceOfCall'
  BY <1>1, <1>2, <1>3
     DEF DeliveryInv, HolderIsFirst, ExclusiveSend, AtMostOneCall, EvidenceOfCall
<1>5. RecorderKnows' /\ SentIsTruthful'
  BY <1>1 DEF DeliveryInv, RecorderKnows, SentIsTruthful, TypeOK
<1> QED
  BY <1>4, <1>5 DEF DeliveryInv

(* The call is the first for the item, because its sender held it, and its *)
(* sender holds it no more.                                                *)
LEMMA CallDelivery ==
    ASSUME TypeOK, DeliveryInv, NEW s \in Sender, CallGmail(s)
    PROVE  DeliveryInv'
<1> DEFINE w == work[s]
<1>1. w \in Item /\ s \in Holding(w)
  BY DEF CallGmail, TypeOK, OutsideItem, Holding
<1>2. calls[w] = 0 /\ (Attempted(w) \/ Gone(w))
  BY <1>1 DEF DeliveryInv, HolderIsFirst
<1>3. /\ calls' = [calls EXCEPT ![w] = 1]
      /\ delivered \subseteq delivered' /\ UNCHANGED <<sentEmail, queue, work>>
      /\ \/ pc' = [pc EXCEPT ![s] = "commit"] /\ w \in delivered'
         \/ pc' = [pc EXCEPT ![s] = "unknown"]
  BY <1>1, <1>2 DEF CallGmail, Goto, itemVars, TypeOK
<1>4. /\ Holding(w)' = {}
      /\ \A i \in Item \ {w} : Holding(i)' = Holding(i)
  <2>1. Holding(w) = {s}
    BY <1>1 DEF DeliveryInv, ExclusiveSend
  <2> QED
    BY <1>1, <1>3, <2>1 DEF Holding, TypeOK
<1>5. \A i \in Item : Attempted(i)' = Attempted(i) /\ Gone(i)' = Gone(i)
  BY <1>3 DEF Attempted, Gone
<1>6. HolderIsFirst' /\ ExclusiveSend'
  BY <1>3, <1>4, <1>5 DEF DeliveryInv, HolderIsFirst, ExclusiveSend, TypeOK
<1>7. AtMostOneCall' /\ EvidenceOfCall'
  BY <1>1, <1>2, <1>3, <1>5 DEF DeliveryInv, AtMostOneCall, EvidenceOfCall, TypeOK
<1>8. RecorderKnows' /\ SentIsTruthful'
  BY <1>1, <1>3 DEF DeliveryInv, RecorderKnows, SentIsTruthful, TypeOK
<1> QED
  BY <1>6, <1>7, <1>8 DEF DeliveryInv

(* Commit and Settle write "sent", of an e-mail Gmail accepted; MarkUnknown *)
(* turns "sending" into "unknown".  None of them takes evidence away.      *)
LEMMA RecordDelivery ==
    ASSUME TypeOK, DeliveryInv, NEW s \in Sender,
           \/ Commit(s) \/ MarkUnknown(s)
           \/ pc[s] = "settleSent" /\ Finish(s, "sent")
    PROVE  DeliveryInv'
<1> DEFINE w == work[s]
<1>1. w \in Item
  BY DEF Commit, MarkUnknown, TypeOK, OutsideItem
<1>2. UNCHANGED <<calls, delivered>>
  BY DEF Commit, MarkUnknown, Finish, mailVars
<1>3. pc'[s] \notin Critical /\ \A t \in Sender \ {s} : pc'[t] = pc[t] /\ work'[t] = work[t]
  BY DEF Commit, MarkUnknown, Finish, NextItem, Goto, TypeOK, Critical
<1>4. \A i \in Item : /\ Attempted(i) => Attempted(i)'
                      /\ Gone(i)' = Gone(i)
  BY <1>1 DEF Commit, MarkUnknown, Finish, Attempted, Gone, Doubted, TypeOK
<1>5. \A i \in Item :
        \/ "sent" \notin {sentEmail'[i], queue'[i]}
        \/ "sent" \in {sentEmail[i], queue[i]}
        \/ i \in delivered
  BY <1>1 DEF Commit, MarkUnknown, Finish, Doubted, TypeOK, DeliveryInv, RecorderKnows
<1>6. \A i \in Item : Holding(i)' \subseteq Holding(i)
  BY <1>3 DEF Holding, Critical
<1>7. HolderIsFirst' /\ ExclusiveSend'
  BY <1>2, <1>4, <1>6 DEF DeliveryInv, HolderIsFirst, ExclusiveSend
<1>8. AtMostOneCall' /\ EvidenceOfCall'
  BY <1>2, <1>4 DEF DeliveryInv, AtMostOneCall, EvidenceOfCall
<1>9. RecorderKnows' /\ SentIsTruthful'
  BY <1>2, <1>3, <1>5 DEF DeliveryInv, RecorderKnows, SentIsTruthful, Critical
<1> QED
  BY <1>7, <1>8, <1>9 DEF DeliveryInv

(* Finding an earlier attempt settles the item as sent only if that attempt *)
(* is on file as sent.                                                     *)
LEMMA FindDelivery ==
    ASSUME TypeOK, DeliveryInv, NEW s \in Sender, FindAttempt(s)
    PROVE  DeliveryInv'
<1>1. work[s] \in Item
  BY DEF FindAttempt, TypeOK, OutsideItem
<1>2. CASE AttemptVerdict(work[s]) = "settleSent"
  <2>1. /\ pc' = [pc EXCEPT ![s] = "settleSent"] /\ work[s] \in delivered
        /\ UNCHANGED <<sentEmail, queue, work, calls, delivered>>
    BY <1>1, <1>2 DEF FindAttempt, AttemptVerdict, Attempted, Goto, DeliveryInv,
                      SentIsTruthful, itemVars, mailVars
  <2>2. \A i \in Item : Holding(i)' \subseteq Holding(i)
    BY <2>1 DEF Holding, TypeOK
  <2>3. HolderIsFirst' /\ ExclusiveSend' /\ AtMostOneCall' /\ EvidenceOfCall' /\ SentIsTruthful'
    BY <2>1, <2>2 DEF DeliveryInv, HolderIsFirst, ExclusiveSend, AtMostOneCall, EvidenceOfCall,
                      SentIsTruthful, Attempted, Gone
  <2>4. RecorderKnows'
    BY <2>1 DEF DeliveryInv, RecorderKnows, TypeOK
  <2> QED
    BY <2>3, <2>4 DEF DeliveryInv
<1>3. CASE AttemptVerdict(work[s]) # "settleSent"
  <2>1. Harmless
    BY <1>3 DEF TypeOK, FindAttempt, AttemptVerdict, Goto, Harmless, Critical, mailVars, itemVars
  <2> QED
    BY <2>1, HarmlessStep
<1> QED
  BY <1>2, <1>3

(* Deleting a draft takes its evidence away, and the draft with it.        *)
LEMMA DeleteDelivery ==
    ASSUME TypeOK, DeliveryInv, NEW c \in Campaign, DeleteCampaign(c)
    PROVE  DeliveryInv'
<1>0. UNCHANGED <<calls, delivered, pc, work>>
  BY DEF DeleteCampaign, senderVars, mailVars
<1>1. \A i \in Item : \/ queue'[i] = "deleted" /\ sentEmail'[i] = "none"
                      \/ queue'[i] = queue[i] /\ sentEmail'[i] = sentEmail[i]
  BY DEF DeleteCampaign, ItemsOfCampaign
<1>2. \A i \in Item : Attempted(i) \/ Gone(i) => Attempted(i)' \/ Gone(i)'
  BY <1>1 DEF Attempted, Gone
<1>3. HolderIsFirst' /\ ExclusiveSend' /\ AtMostOneCall' /\ EvidenceOfCall'
  BY <1>0, <1>2 DEF DeliveryInv, HolderIsFirst, ExclusiveSend, AtMostOneCall, EvidenceOfCall,
                    Holding
<1>4. RecorderKnows' /\ SentIsTruthful'
  BY <1>0, <1>1 DEF DeliveryInv, RecorderKnows, SentIsTruthful
<1> QED
  BY <1>3, <1>4 DEF DeliveryInv

(* Every statement of processQueue preserves the delivery invariant.       *)
LEMMA SenderDelivery ==
    ASSUME TypeOK, DeliveryInv, NEW s \in Sender, SenderStep(s)
    PROVE  DeliveryInv'
<1> USE DEF itemVars, mailVars, Goto, Harmless, Critical
<1>1. CASE Start(s)
  BY <1>1, HarmlessStep DEF Start, TypeOK, Lapsed, Gone
<1>2. CASE OpenGmail(s) \/ ListCandidates(s) \/ CheckLead(s) \/ CheckSuppression(s)
           \/ CheckCampaign(s) \/ CheckLimit(s) \/ CheckGmail(s)
  BY <1>2, HarmlessStep DEF OpenGmail, ListCandidates, CheckLead, CheckSuppression,
     CheckCampaign, CheckLimit, CheckGmail, Check, TypeOK
<1>3. CASE BlockWithoutGmail(s)
  BY <1>3, HarmlessStep DEF BlockWithoutGmail, SetStatus, Waiting, Gone, TypeOK
<1>4. ASSUME NEW i \in Item, Claim(s, i) PROVE DeliveryInv'
  BY <1>4, HarmlessStep DEF Claim, Claimable, NextItem, Waiting, Gone, TypeOK
<1>5. CASE BlockItem(s)
  BY <1>5, FinishHarmless, HarmlessStep DEF BlockItem
<1>6. CASE FindAttempt(s)
  BY <1>6, FindDelivery
<1>7. CASE Settle(s)
  BY <1>7, RecordDelivery, FinishHarmless, HarmlessStep DEF Settle
<1>8. CASE MarkQueued(s)
  BY <1>8, HarmlessStep DEF MarkQueued, Overwrite, Gone, TypeOK
<1>9. CASE Reserve(s)
  BY <1>9, ReserveDelivery
<1>10. CASE MarkSending(s)
  BY <1>10, MarkSendingDelivery
<1>11. CASE CallGmail(s)
  BY <1>11, CallDelivery
<1>12. CASE Commit(s) \/ MarkUnknown(s)
  BY <1>12, RecordDelivery
<1>13. CASE AfterSend(s)
  BY <1>13, HarmlessStep DEF AfterSend, NextItem, TypeOK
<1>14. CASE RowGone(s)
  BY <1>14, HarmlessStep DEF RowGone, Throw, TypeOK
<1>15. CASE MarkFailed(s)
  <2>1. CASE Finish(s, "failed")
    BY <2>1, FinishHarmless, HarmlessStep
  <2>2. CASE EndRun(s)
    BY <2>2, HarmlessStep DEF EndRun, TypeOK
  <2> QED
    BY <1>15, <2>1, <2>2 DEF MarkFailed
<1> QED
  BY <1>1, <1>2, <1>3, <1>4, <1>5, <1>6, <1>7, <1>8, <1>9, <1>10, <1>11, <1>12, <1>13,
     <1>14, <1>15 DEF SenderStep

(* Every later statement of a handler preserves the delivery invariant.    *)
LEMMA HandlerDelivery ==
    ASSUME TypeOK, DeliveryInv, HandlerStep
    PROVE  DeliveryInv'
<1> USE SetStatusHarmless, HarmlessStep DEF Unsent, Waiting
<1>1. ASSUME NEW i \in Item, Upsert(i) PROVE Harmless
  BY <1>1 DEF Upsert, UpsertStatus, Gone, Harmless, TypeOK, mailVars, senderVars
<1>2. ASSUME NEW l \in Lead, CancelSuppressed(l) PROVE Harmless
  BY <1>2 DEF CancelSuppressed
<1>3. ASSUME NEW l \in Lead, AddSuppression(l) PROVE Harmless
  BY <1>3 DEF AddSuppression, Harmless, itemVars, mailVars, senderVars
<1>4. ASSUME NEW l \in Lead, NEW class \in Classification, CancelReplied(l, class) PROVE Harmless
  BY <1>4 DEF CancelReplied
<1>5. ASSUME NEW l \in Lead, NEW class \in Classification, Classify(l, class) PROVE Harmless
  BY <1>5 DEF Classify, Harmless, itemVars, mailVars, senderVars
<1>6. CASE BlockDisconnected
  BY <1>6 DEF BlockDisconnected
<1> QED
  BY <1>1, <1>2, <1>3, <1>4, <1>5, <1>6 DEF HandlerStep

(* Requests, faults, clocks and settings preserve the delivery invariant.  *)
LEMMA EnvironmentDelivery ==
    ASSUME TypeOK, DeliveryInv, Environment
    PROVE  DeliveryInv'
<1> USE HarmlessStep DEF Harmless, itemVars, mailVars, senderVars
<1>1. ASSUME NEW s \in Sender, StatementFails(s) \/ Crash(s) PROVE Harmless
  BY <1>1 DEF StatementFails, Throw, Crash, EndRun, Goto, Critical, TypeOK
<1>2. ASSUME NEW h \in handlers, HandlerDies(h) PROVE Harmless
  BY <1>2 DEF HandlerDies
<1>3. ASSUME NEW i \in Item, Approve(i) \/ LeaseExpires(i) \/ DayPasses(i) PROVE Harmless
  BY <1>3 DEF Approve, LeaseExpires, DayPasses
<1>4. ASSUME NEW l \in Lead, Unsubscribe(l) \/ RemoveSuppression(l) PROVE Harmless
  BY <1>4 DEF Unsubscribe, RemoveSuppression
<1>5. ASSUME NEW l \in Lead, NEW class \in Classification, IngestReply(l, class) PROVE Harmless
  BY <1>5 DEF IngestReply
<1>6. ASSUME NEW c \in Campaign, SetCampaign(c) PROVE Harmless
  BY <1>6 DEF SetCampaign
<1>7. ASSUME NEW c \in Campaign, DeleteCampaign(c) PROVE DeliveryInv'
  BY <1>7, DeleteDelivery
<1>8. ASSUME NEW l \in Lead, NEW c \in Campaign, RemoveLead(l, c) PROVE Harmless
  BY <1>8 DEF RemoveLead, SetStatus, Unsent, Waiting, Gone, TypeOK
<1>9. CASE Disconnect \/ ConnectGmail \/ Midnight
  BY <1>9 DEF Disconnect, ConnectGmail, Midnight
<1> QED
  BY <1>1, <1>2, <1>3, <1>4, <1>5, <1>6, <1>7, <1>8, <1>9 DEF Environment

(* The inductive invariant: a sender between reservation and call is alone *)
(* on its item and first, and every "sent" is of an accepted e-mail.       *)
THEOREM DeliveryInvariant == Spec => []DeliveryInv
<1>1. TypeOK /\ DeliveryInv /\ [Next]_vars => DeliveryInv'
  <2>1. ASSUME DeliveryInv, UNCHANGED vars PROVE Harmless
    BY <2>1 DEF Harmless, vars, itemVars, senderVars, mailVars
  <2> QED
    BY <2>1, HarmlessStep, SenderDelivery, HandlerDelivery, EnvironmentDelivery DEF Next
<1> QED
  BY <1>1, InitDelivery, TypeCorrect, PTL DEF Spec

(* However many senders run, however often leases expire, processes crash  *)
(* and items are queued again: Gmail is called at most once for an item.   *)
THEOREM NoDoubleSend == Spec => []AtMostOneCall
BY DeliveryInvariant, PTL DEF DeliveryInv

(* Two senders are never both between reservation and call for one item.   *)
THEOREM SendersExclude == Spec => []ExclusiveSend
BY DeliveryInvariant, PTL DEF DeliveryInv

(* A call always leaves a row, as long as the draft exists.                *)
THEOREM CallsAreOnFile == Spec => []EvidenceOfCall
BY DeliveryInvariant, PTL DEF DeliveryInv

(* What queue and SentEmail report as sent was accepted by Gmail.          *)
THEOREM SentRecordsAreTrue == Spec => []SentIsTruthful
BY DeliveryInvariant, PTL DEF DeliveryInv

-----------------------------------------------------------------------------
(* What a step may never do                                                *)

(* The steps that write SentEmail.deliveryStatus.                          *)
LEMMA RecordWriters ==
    ASSUME Next, sentEmail' # sentEmail
    PROVE  \/ \E s \in Sender : Reserve(s) \/ Commit(s) \/ MarkUnknown(s)
           \/ \E c \in Campaign : DeleteCampaign(c)
<1> USE DEF itemVars
<1>1. ASSUME NEW s \in Sender, SenderStep(s) PROVE Reserve(s) \/ Commit(s) \/ MarkUnknown(s)
  BY <1>1 DEF SenderStep, Start, OpenGmail, BlockWithoutGmail, ListCandidates, Claim, CheckLead,
     CheckSuppression, CheckCampaign, CheckLimit, CheckGmail, Check, BlockItem, FindAttempt, Settle, MarkQueued, MarkSending, CallGmail, AfterSend,
     RowGone, Throw, MarkFailed, Finish, Overwrite, EndRun
<1>2. CASE HandlerStep
  BY <1>2 DEF HandlerStep, Upsert, AddSuppression, CancelSuppressed, CancelReplied, Classify,
     BlockDisconnected
<1>3. CASE Environment
  BY <1>3 DEF Environment, StatementFails, Throw, Crash, EndRun, HandlerDies, Approve,
     LeaseExpires, DayPasses, Unsubscribe, RemoveSuppression, IngestReply, SetCampaign,
     RemoveLead, Disconnect, ConnectGmail, Midnight
<1> QED
  BY <1>1, <1>2, <1>3 DEF Next

(* A "sent" on file is final: neither the catch block of a competing       *)
(* sender nor a later run of the queue changes it.                         *)
THEOREM SentStaysSent == Spec => SentIsFinal
<1>1. ASSUME TypeOK, Next, NEW i \in Item, sentEmail[i] = "sent"
      PROVE  sentEmail'[i] = "sent" \/ queue'[i] = "deleted"
  <2>1. ASSUME NEW s \in Sender, Reserve(s) \/ Commit(s) \/ MarkUnknown(s)
        PROVE  sentEmail'[i] = "sent"
    BY <1>1, <2>1 DEF Reserve, Commit, MarkUnknown, Doubted, Attempted, TypeOK
  <2>2. ASSUME NEW c \in Campaign, DeleteCampaign(c)
        PROVE  sentEmail'[i] = "sent" \/ queue'[i] = "deleted"
    BY <1>1, <2>2 DEF DeleteCampaign, ItemsOfCampaign
  <2> QED
    BY <1>1, <2>1, <2>2, RecordWriters
<1>2. TypeOK /\ [Next]_vars
        => [\A i \in Item : sentEmail[i] = "sent"
              => sentEmail'[i] = "sent" \/ queue'[i] = "deleted"]_vars
  BY <1>1
<1> QED
  BY <1>2, TypeCorrect, PTL DEF Spec, SentIsFinal

(* A sender comes past the suppression check by CheckSuppression alone; it *)
(* calls Gmail from past the checks alone.                                 *)
LEMMA ClearedSenders ==
    ASSUME TypeOK, Next, NEW i \in Item, Cleared(i) = {}
    PROVE  /\ Cleared(i)' = {} \/ \E s \in Sender : work[s] = i /\ CheckSuppression(s)
           /\ calls'[i] = calls[i]
<1>0. \A s \in Sender : pc[s] \in PastSuppression => work[s] # i
  BY DEF Cleared, PastSuppression
<1> DEFINE Stays(s) == pc'[s] \in PastSuppression => work'[s] # i
<1>1. ASSUME NEW s \in Sender, SenderStep(s), ~CheckSuppression(s)
      PROVE  Stays(s)
  <2> USE <1>0 DEF PastSuppression, Goto, TypeOK, OutsideItem
  <2>1. CASE Start(s) \/ OpenGmail(s) \/ BlockWithoutGmail(s) \/ ListCandidates(s) \/ CheckLead(s)
    BY <2>1 DEF Start, OpenGmail, BlockWithoutGmail, ListCandidates, CheckLead, Check
  <2>7. CASE CheckCampaign(s) \/ CheckLimit(s) \/ CheckGmail(s)
    BY <2>7 DEF CheckCampaign, CheckLimit, CheckGmail, Check
  <2>2. CASE \E j \in Item : Claim(s, j)
    BY <2>2 DEF Claim, NextItem
  <2>3. CASE BlockItem(s) \/ Settle(s) \/ AfterSend(s)
    BY <2>3 DEF BlockItem, Settle, AfterSend, Finish, NextItem
  <2>4. CASE FindAttempt(s) \/ MarkQueued(s) \/ Reserve(s) \/ MarkSending(s)
    BY <2>4 DEF FindAttempt, MarkQueued, Reserve, MarkSending, Overwrite
  <2>5. CASE CallGmail(s) \/ Commit(s) \/ RowGone(s) \/ MarkUnknown(s)
    BY <2>5 DEF CallGmail, Commit, RowGone, Throw, MarkUnknown
  <2>6. CASE MarkFailed(s)
    BY <2>6 DEF MarkFailed, Finish, NextItem, EndRun
  <2> QED
    BY <1>1, <2>1, <2>2, <2>3, <2>4, <2>5, <2>6, <2>7 DEF SenderStep
<1>2. ASSUME NEW s \in Sender, SenderStep(s), NEW t \in Sender, t # s
      PROVE  pc'[t] = pc[t] /\ work'[t] = work[t]
  BY <1>2 DEF SenderStep, Start, OpenGmail, BlockWithoutGmail, ListCandidates, Claim, CheckLead,
     CheckSuppression, CheckCampaign, CheckLimit, CheckGmail, Check, BlockItem, FindAttempt, Settle, MarkQueued, Reserve, MarkSending, CallGmail,
     Commit, AfterSend, RowGone, Throw, MarkUnknown, MarkFailed, Finish, Overwrite, NextItem,
     EndRun, Goto, TypeOK
<1>3. ASSUME NEW s \in Sender, SenderStep(s) PROVE calls'[i] = calls[i]
  <2>1. CASE CallGmail(s)
    BY <1>0, <2>1 DEF CallGmail, PastSuppression, TypeOK
  <2>2. CASE ~CallGmail(s)
    BY <1>3, <2>2 DEF SenderStep, Start, OpenGmail, BlockWithoutGmail, ListCandidates, Claim,
       CheckLead, CheckSuppression, CheckCampaign, CheckLimit, CheckGmail, Check, BlockItem, FindAttempt, Settle, MarkQueued, Reserve, MarkSending,
       Commit, AfterSend, RowGone, Throw, MarkUnknown, MarkFailed, Finish, Overwrite,
       EndRun, mailVars
  <2> QED
    BY <2>1, <2>2
<1>4. CASE HandlerStep
  BY <1>0, <1>4 DEF HandlerStep, Upsert, AddSuppression, CancelSuppressed, CancelReplied,
     Classify, BlockDisconnected, senderVars, mailVars, Cleared, PastSuppression
<1>5. CASE Environment
  <2>1. ASSUME NEW s \in Sender, StatementFails(s) \/ Crash(s)
        PROVE  (\A t \in Sender : Stays(t)) /\ calls'[i] = calls[i]
    BY <1>0, <2>1 DEF StatementFails, Throw, Crash, EndRun, Goto, PastSuppression, TypeOK, mailVars
  <2>2. CASE ~\E s \in Sender : StatementFails(s) \/ Crash(s)
    <3>1. UNCHANGED <<pc, work, calls>>
      BY <1>5, <2>2 DEF Environment, HandlerDies, Approve, LeaseExpires, DayPasses, Unsubscribe,
         RemoveSuppression, IngestReply, SetCampaign, DeleteCampaign, RemoveLead, Disconnect,
         ConnectGmail, Midnight, senderVars, mailVars
    <3> QED
      BY <1>0, <3>1 DEF Cleared, PastSuppression
  <2> QED
    BY <1>0, <2>1, <2>2 DEF Cleared, PastSuppression
<1>6. ASSUME NEW s \in Sender, SenderStep(s)
      PROVE  Cleared(i)' = {} \/ \E t \in Sender : work[t] = i /\ CheckSuppression(t)
  <2>1. CASE CheckSuppression(s)
    BY <1>0, <1>2, <1>6, <2>1 DEF CheckSuppression, Check, Cleared, PastSuppression, TypeOK
  <2>2. CASE ~CheckSuppression(s)
    BY <1>0, <1>1, <1>2, <1>6, <2>2 DEF Cleared, PastSuppression
  <2> QED
    BY <2>1, <2>2
<1> QED
  BY <1>3, <1>4, <1>5, <1>6 DEF Next

(* From a state in which the lead is suppressed and no sender is past the  *)
(* checks for the item, no step leads to an e-mail while the entry stays.  *)
THEOREM SuppressionStops == Spec => SuppressionHolds
<1>1. ASSUME TypeOK, Next, NEW i \in Item, LeadOf[i] \in suppressed, Cleared(i) = {}
      PROVE  Cleared(i)' = {} /\ calls'[i] = calls[i]
  <2>1. ASSUME NEW s \in Sender, work[s] = i, CheckSuppression(s)
        PROVE  Cleared(i)' = {}
    BY <1>1, <2>1 DEF CheckSuppression, Check, NotSuppressed, Goto, Cleared, PastSuppression,
       TypeOK
  <2> QED
    BY <1>1, <2>1, ClearedSenders
<1>2. TypeOK /\ [Next]_vars
        => [\A i \in Item :
              LeadOf[i] \in suppressed /\ LeadOf[i] \in suppressed' /\ Cleared(i) = {}
                => Cleared(i)' = {} /\ calls'[i] = calls[i]]_vars
  BY <1>1
<1> QED
  BY <1>2, TypeCorrect, PTL DEF Spec, SuppressionHolds

-----------------------------------------------------------------------------
(* The promise of Delivery: every step of the queue is a step of Delivery  *)
(* for one item, or for the items of a deleted campaign, or changes neither *)
(* record nor mail.                                                        *)

(* An e-mail Gmail accepted was called for.                                *)
DeliveredCalled == \A i \in delivered : calls[i] > 0

(* Calls are counted by CallGmail alone, together with what Gmail accepts. *)
LEMMA CallWriters ==
    ASSUME Next, <<calls, delivered>>' # <<calls, delivered>>
    PROVE  \E s \in Sender : CallGmail(s)
<1> USE DEF mailVars
<1>1. ASSUME NEW s \in Sender, SenderStep(s) PROVE CallGmail(s)
  BY <1>1 DEF SenderStep, Start, OpenGmail, BlockWithoutGmail, ListCandidates, Claim, CheckLead,
     CheckSuppression, CheckCampaign, CheckLimit, CheckGmail, Check, BlockItem, FindAttempt,
     Settle, MarkQueued, Reserve, MarkSending, Commit, AfterSend, RowGone, Throw, MarkUnknown,
     MarkFailed, Finish, Overwrite, EndRun
<1>2. CASE HandlerStep
  BY <1>2 DEF HandlerStep, Upsert, AddSuppression, CancelSuppressed, CancelReplied, Classify,
     BlockDisconnected
<1>3. CASE Environment
  BY <1>3 DEF Environment, StatementFails, Throw, Crash, EndRun, HandlerDies, Approve,
     LeaseExpires, DayPasses, Unsubscribe, RemoveSuppression, IngestReply, SetCampaign,
     DeleteCampaign, RemoveLead, Disconnect, ConnectGmail, Midnight
<1> QED
  BY <1>1, <1>2, <1>3 DEF Next

LEMMA DeliveredInvariant == Spec => []DeliveredCalled
<1>1. Init => DeliveredCalled
  BY DEF Init, DeliveredCalled
<1>2. TypeOK /\ DeliveredCalled /\ [Next]_vars => DeliveredCalled'
  <2>1. ASSUME TypeOK, DeliveredCalled, NEW s \in Sender, CallGmail(s) PROVE DeliveredCalled'
    BY <2>1 DEF DeliveredCalled, CallGmail, TypeOK, OutsideItem
  <2>2. ASSUME DeliveredCalled, UNCHANGED <<calls, delivered>> PROVE DeliveredCalled'
    BY <2>2 DEF DeliveredCalled
  <2> QED
    BY <2>1, <2>2, CallWriters DEF vars, mailVars
<1> QED
  BY <1>1, <1>2, TypeCorrect, PTL DEF Spec

-----------------------------------------------------------------------------
(* Steps that leave no mark on record and mail                             *)

(* No row of SentEmail, no deletion and no call.                           *)
Unrecorded ==
    /\ UNCHANGED <<sentEmail, calls, delivered>>
    /\ \A i \in Item : queue'[i] = "deleted" <=> queue[i] = "deleted"

Refines == [Abstract!Next]_Abstract!vars

(* What changes neither is a step that Delivery does not see.              *)
LEMMA Unseen ==
    ASSUME \A i \in Item : Record(i)' = Record(i) /\ Mail(i)' = Mail(i)
    PROVE  Refines
<1>1. UNCHANGED Abstract!vars
  BY DEF Abstract!vars
<1> QED
  BY <1>1 DEF Refines

(* With the same holders, nothing has happened as far as Delivery goes.    *)
LEMMA HoldersStay ==
    ASSUME Unrecorded, \A i \in Item : Holding(i)' = Holding(i)
    PROVE  Refines
<1>1. \A i \in Item : Record(i)' = Record(i) /\ Mail(i)' = Mail(i)
  BY DEF Unrecorded, Record, Mail, Gone, Attempted
<1> QED
  BY <1>1, Unseen

(* A sender that leaves an item it held: the row stays and with it the     *)
(* permission, or the draft is gone and the permission is withdrawn.       *)
LEMMA HolderLeaves ==
    ASSUME DeliveryInv, DeliveredCalled, Unrecorded, NEW w \in Item, Holding(w)' \subseteq Holding(w),
           \A i \in Item \ {w} : Holding(i)' = Holding(i)
    PROVE  Refines
<1>1. CASE Mail(w)' = Mail(w)
  <2>1. \A i \in Item : Record(i)' = Record(i) /\ Mail(i)' = Mail(i)
    BY <1>1 DEF Unrecorded, Record, Mail, Gone, Attempted
  <2> QED
    BY <2>1, Unseen
<1>2. CASE Mail(w)' # Mail(w)
  <2>1. Mail(w) = "permitted" /\ Mail(w)' = "idle" /\ Gone(w)
    BY <1>2 DEF Unrecorded, Mail, Attempted, Gone, DeliveryInv, HolderIsFirst
  <2>2. /\ \A i \in Item : Record(i)' = Record(i)
        /\ \A i \in Item \ {w} : Mail(i)' = Mail(i)
    BY DEF Unrecorded, Record, Mail, Gone, Attempted
  <2>3. Record(w) = "deleted"
    BY <2>1 DEF Record
  <2>4. Abstract!Lapse({w})
    <3> DEFINE mail == [i \in Item |-> Mail(i)]
    <3>1. {w} \in SUBSET {i \in {w} : mail[i] = "permitted"}
      BY <2>1
    <3>2. mail' = [i \in Item |-> IF i \in {w} THEN "idle" ELSE mail[i]]
      BY <2>1, <2>2
    <3> QED
      BY <3>1, <3>2 DEF Abstract!Lapse
  <2>5. Abstract!Withdraw(w)
    BY <2>2, <2>3, <2>4 DEF Abstract!Withdraw
  <2> QED
    BY <2>5 DEF Refines, Abstract!Next
<1> QED
  BY <1>1, <1>2

(* A sender that held the item or not, and holds none afterwards.          *)
LEMMA SenderLeaves ==
    ASSUME TypeOK, DeliveryInv, DeliveredCalled, Unrecorded, NEW s \in Sender,
           pc'[s] \notin {"mark", "call"},
           \A t \in Sender \ {s} : pc'[t] = pc[t] /\ work'[t] = work[t]
    PROVE  Refines
<1>1. \A i \in Item : Holding(i)' \subseteq Holding(i)
  BY DEF Holding
<1>2. \A i \in Item \ {work[s]} : Holding(i)' = Holding(i)
  BY DEF Holding
<1>3. CASE work[s] \in Item
  BY <1>1, <1>2, <1>3, HolderLeaves
<1>4. CASE work[s] \notin Item
  BY <1>2, <1>4, HoldersStay
<1> QED
  BY <1>3, <1>4

-----------------------------------------------------------------------------
(* The steps of Delivery                                                   *)

(* The reservation is Reserve, or nothing if the row is there already.     *)
LEMMA ReserveRefines ==
    ASSUME TypeOK, DeliveryInv, DeliveredCalled, NEW s \in Sender, Reserve(s)
    PROVE  Refines
<1> DEFINE w == work[s]
<1>1. w \in Item /\ ~Gone(w) /\ UNCHANGED <<queue, work, calls, delivered>>
  BY DEF Reserve, TypeOK, OutsideItem, mailVars
<1>2. CASE Attempted(w)
  <2>1. Unrecorded /\ pc' = [pc EXCEPT ![s] = "unknown"]
    BY <1>1, <1>2 DEF Reserve, Goto, Unrecorded
  <2> QED
    BY <1>1, <2>1, SenderLeaves DEF TypeOK
<1>3. CASE ~Attempted(w)
  <2>1. sentEmail' = [sentEmail EXCEPT ![w] = "sending"]
    BY <1>3 DEF Reserve
  <2>2. pc' = [pc EXCEPT ![s] = "mark"]
    BY <1>3 DEF Reserve, Goto
  <2>3. calls[w] = 0 /\ w \notin delivered /\ Holding(w) = {}
    BY <1>1, <1>3 DEF DeliveryInv, EvidenceOfCall, HolderIsFirst, DeliveredCalled, TypeOK
  <2>4. Record(w) = "none" /\ Mail(w) = "idle"
    BY <1>1, <1>3, <2>3 DEF Record, Mail, Attempted
  <2>5. Record(w)' = "sending" /\ Mail(w)' = "permitted"
    BY <1>1, <2>1, <2>3 DEF Record, Mail, Attempted, Gone, TypeOK
  <2>6. \A i \in Item \ {w} : Holding(i)' = Holding(i)
    BY <1>1, <2>2 DEF Holding, TypeOK
  <2>7. \A i \in Item \ {w} : Record(i)' = Record(i) /\ Mail(i)' = Mail(i)
    BY <1>1, <2>1, <2>6 DEF Record, Mail, Attempted, Gone, TypeOK
  <2>8. Abstract!Reserve(w)
    BY <1>1, <2>4, <2>5, <2>7 DEF Abstract!Reserve
  <2> QED
    BY <1>1, <2>8 DEF Refines, Abstract!Next
<1> QED
  BY <1>2, <1>3

(* The call is the one attempt the reservation permits.                    *)
LEMMA CallRefines ==
    ASSUME TypeOK, DeliveryInv, DeliveredCalled, NEW s \in Sender, CallGmail(s)
    PROVE  Refines
<1> DEFINE w == work[s]
<1>1. w \in Item /\ s \in Holding(w)
  BY DEF CallGmail, TypeOK, OutsideItem, Holding
<1>2. calls[w] = 0 /\ w \notin delivered
  BY <1>1 DEF DeliveryInv, HolderIsFirst, DeliveredCalled
<1>3. /\ calls' = [calls EXCEPT ![w] = 1] /\ UNCHANGED <<sentEmail, queue, work>>
      /\ delivered' \in {delivered, delivered \cup {w}}
  BY <1>1, <1>2 DEF CallGmail, itemVars, TypeOK
<1>4. \A i \in Item \ {w} : Holding(i)' = Holding(i)
  BY <1>3 DEF CallGmail, Goto, Holding, TypeOK
<1>5. /\ Mail(w) = "permitted" /\ Mail(w)' \in {"lost", "accepted"}
      /\ \A i \in Item \ {w} : Mail(i)' = Mail(i)
  BY <1>1, <1>2, <1>3, <1>4 DEF Mail, Attempted, TypeOK
<1>6. \A i \in Item : Record(i)' = Record(i)
  BY <1>3 DEF Record, Gone
<1>7. Abstract!Attempt(w)
  <2> DEFINE mail == [i \in Item |-> Mail(i)]
             record == [i \in Item |-> Record(i)]
  <2>1. mail' = [mail EXCEPT ![w] = Mail(w)']
    BY <1>1, <1>3, <1>5
  <2>2. record' = record
    BY <1>6
  <2>3. mail[w] = "permitted"
    BY <1>1, <1>5
  <2> QED
    BY <1>5, <2>1, <2>2, <2>3 DEF Abstract!Attempt
<1> QED
  BY <1>1, <1>7 DEF Refines, Abstract!Next

(* The transaction concludes what Gmail accepted, once or again.           *)
LEMMA CommitRefines ==
    ASSUME TypeOK, DeliveryInv, DeliveredCalled, NEW s \in Sender, Commit(s)
    PROVE  Refines
<1> DEFINE w == work[s]
<1>1. /\ w \in Item /\ ~Gone(w) /\ w \in delivered
      /\ UNCHANGED <<work, calls, delivered>>
  BY DEF Commit, TypeOK, OutsideItem, DeliveryInv, RecorderKnows, mailVars
<1>2. /\ sentEmail' = [sentEmail EXCEPT ![w] = "sent"]
      /\ queue' = [queue EXCEPT ![w] = "sent"] /\ pc' = [pc EXCEPT ![s] = "after"]
      /\ pc[s] = "commit"
  BY DEF Commit, Goto
<1>3. Attempted(w)
  BY <1>1 DEF DeliveryInv, EvidenceOfCall, DeliveredCalled
<1>4. \A i \in Item : Holding(i)' = Holding(i)
  BY <1>1, <1>2 DEF Holding, TypeOK
<1>5. \A i \in Item : Gone(i)' = Gone(i) /\ Attempted(i)' = Attempted(i)
  BY <1>1, <1>2, <1>3 DEF Gone, Attempted, TypeOK
<1>6. \A i \in Item : Mail(i)' = Mail(i)
  BY <1>1, <1>4, <1>5 DEF Mail
<1>7. \A i \in Item \ {w} : Record(i)' = Record(i)
  BY <1>2, <1>5 DEF Record, TypeOK
<1>8. /\ Record(w) \in {"sending", "unknown", "sent"} /\ Record(w)' = "sent"
      /\ Mail(w) = "accepted"
  BY <1>1, <1>2, <1>3, <1>5 DEF Record, Mail, Attempted, TypeOK
<1>9. CASE Record(w) = "sent"
  <2>1. \A i \in Item : Record(i)' = Record(i)
    BY <1>1, <1>7, <1>8, <1>9
  <2> QED
    BY <1>6, <2>1, Unseen
<1>10. CASE Record(w) # "sent"
  <2>1. Abstract!Conclude(w)
    BY <1>1, <1>6, <1>7, <1>8, <1>10 DEF Abstract!Conclude
  <2> QED
    BY <1>1, <2>1 DEF Refines, Abstract!Next
<1> QED
  BY <1>9, <1>10

(* The catch block doubts what is on file as sending.                      *)
LEMMA UnknownRefines ==
    ASSUME TypeOK, DeliveryInv, NEW s \in Sender, MarkUnknown(s)
    PROVE  Refines
<1> DEFINE w == work[s]
<1>1. /\ w \in Item /\ pc[s] = "unknown" /\ pc' = [pc EXCEPT ![s] = "fail"]
      /\ UNCHANGED <<queue, work, calls, delivered>>
      /\ sentEmail' = [sentEmail EXCEPT ![w] = Doubted(sentEmail[w])]
  BY DEF MarkUnknown, Goto, TypeOK, OutsideItem, mailVars
<1>2. \A i \in Item : Holding(i)' = Holding(i)
  BY <1>1 DEF Holding, TypeOK
<1>3. \A i \in Item : Gone(i)' = Gone(i) /\ Attempted(i)' = Attempted(i)
  BY <1>1 DEF Gone, Attempted, Doubted, TypeOK
<1>4. \A i \in Item : Mail(i)' = Mail(i)
  BY <1>1, <1>2, <1>3 DEF Mail
<1>5. \A i \in Item \ {w} : Record(i)' = Record(i)
  BY <1>1, <1>3 DEF Record, TypeOK
<1>6. CASE Record(w) = "sending"
  <2>1. Record(w)' = "unknown"
    BY <1>1, <1>3, <1>6 DEF Record, Doubted, TypeOK
  <2>2. Abstract!Doubt(w)
    BY <1>1, <1>4, <1>5, <1>6, <2>1 DEF Abstract!Doubt
  <2> QED
    BY <1>1, <2>2 DEF Refines, Abstract!Next
<1>7. CASE Record(w) # "sending"
  <2>1. Record(w)' = Record(w)
    BY <1>1, <1>3, <1>7 DEF Record, Doubted, TypeOK
  <2>2. \A i \in Item : Record(i)' = Record(i)
    BY <1>1, <1>5, <2>1
  <2> QED
    BY <1>4, <2>2, Unseen
<1> QED
  BY <1>6, <1>7

(* The drafts of a campaign are forgotten together.                        *)
LEMMA DeleteRefines ==
    ASSUME TypeOK, DeliveryInv, NEW c \in Campaign, DeleteCampaign(c)
    PROVE  Refines
<1> DEFINE S == ItemsOfCampaign(c)
           mail == [i \in Item |-> Mail(i)]
           lapsed == {i \in S : Mail(i) = "permitted" /\ Mail(i)' = "idle"}
<1>1. S \subseteq Item /\ UNCHANGED <<calls, delivered, pc, work>>
  BY DEF DeleteCampaign, ItemsOfCampaign, senderVars, mailVars
<1>2. \A i \in Item : /\ i \in S => queue'[i] = "deleted" /\ sentEmail'[i] = "none"
                      /\ i \notin S => queue'[i] = queue[i] /\ sentEmail'[i] = sentEmail[i]
  BY DEF DeleteCampaign
<1>3. \A i \in Item : Holding(i)' = Holding(i)
  BY <1>1 DEF Holding
<1>4. \A i \in Item : Record(i)' = IF i \in S THEN "deleted" ELSE Record(i)
  BY <1>2 DEF Record, Gone
<1>5. \A i \in Item : \/ Mail(i)' = Mail(i)
                      \/ i \in S /\ Mail(i) = "permitted" /\ Mail(i)' = "idle"
  BY <1>1, <1>2, <1>3 DEF Mail, Attempted
<1>6. Abstract!Lapse(S)
  <2>1. lapsed \in SUBSET {i \in S : mail[i] = "permitted"}
    BY <1>1
  <2>2. mail' = [i \in Item |-> IF i \in lapsed THEN "idle" ELSE mail[i]]
    BY <1>5
  <2> QED
    BY <2>1, <2>2 DEF Abstract!Lapse
<1>7. Abstract!Forget(S)
  BY <1>4, <1>6 DEF Abstract!Forget
<1> QED
  BY <1>1, <1>7 DEF Refines, Abstract!Next

-----------------------------------------------------------------------------
(* Every step                                                              *)

(* A sender steps for itself.                                              *)
LEMMA SenderAlone ==
    ASSUME TypeOK, NEW s \in Sender, SenderStep(s), NEW t \in Sender \ {s}
    PROVE  pc'[t] = pc[t] /\ work'[t] = work[t]
BY DEF SenderStep, Start, OpenGmail, BlockWithoutGmail, ListCandidates, Claim, CheckLead,
   CheckSuppression, CheckCampaign, CheckLimit, CheckGmail, Check, BlockItem, FindAttempt, Settle,
   MarkQueued, Reserve, MarkSending, CallGmail, Commit, AfterSend, RowGone, Throw, MarkUnknown,
   MarkFailed, Finish, Overwrite, NextItem, EndRun, Goto, TypeOK

(* Every statement of processQueue is a step of Delivery or none.          *)
LEMMA SenderRefines ==
    ASSUME TypeOK, DeliveryInv, DeliveredCalled, NEW s \in Sender, SenderStep(s)
    PROVE  Refines
<1> USE SenderAlone, SenderLeaves DEF itemVars, mailVars, Goto, Unrecorded
<1>1. CASE Start(s)
  BY <1>1 DEF Start, TypeOK, Lapsed
<1>2. CASE OpenGmail(s) \/ ListCandidates(s) \/ CheckLead(s) \/ CheckSuppression(s)
           \/ CheckCampaign(s) \/ CheckLimit(s) \/ CheckGmail(s)
  BY <1>2 DEF OpenGmail, ListCandidates, CheckLead, CheckSuppression,
     CheckCampaign, CheckLimit, CheckGmail, Check, TypeOK
<1>3. CASE BlockWithoutGmail(s)
  BY <1>3 DEF BlockWithoutGmail, SetStatus, Waiting, TypeOK
<1>4. ASSUME NEW i \in Item, Claim(s, i) PROVE Refines
  BY <1>4 DEF Claim, Claimable, NextItem, Waiting, TypeOK
<1>5. CASE BlockItem(s) \/ Settle(s)
  BY <1>5 DEF BlockItem, Settle, Finish, NextItem, Gone, TypeOK
<1>6. CASE FindAttempt(s)
  BY <1>6 DEF FindAttempt, AttemptVerdict, TypeOK
<1>7. CASE MarkQueued(s)
  BY <1>7 DEF MarkQueued, Overwrite, Gone, TypeOK
<1>8. CASE Reserve(s)
  BY <1>8, ReserveRefines
<1>9. CASE MarkSending(s)
  <2>1. /\ queue' = [queue EXCEPT ![work[s]] = "sending"] /\ ~Gone(work[s])
        /\ pc[s] = "mark" /\ pc' = [pc EXCEPT ![s] = "call"]
        /\ UNCHANGED <<sentEmail, calls, delivered, work>>
    BY <1>9 DEF MarkSending, Overwrite
  <2>2. Unrecorded
    BY <2>1 DEF Gone, TypeOK
  <2>3. \A i \in Item : Holding(i)' = Holding(i)
    BY <2>1 DEF Holding, TypeOK
  <2> QED
    BY <2>2, <2>3, HoldersStay
<1>10. CASE CallGmail(s)
  BY <1>10, CallRefines
<1>11. CASE Commit(s) \/ MarkUnknown(s)
  BY <1>11, CommitRefines, UnknownRefines
<1>12. CASE AfterSend(s)
  BY <1>12 DEF AfterSend, NextItem, TypeOK
<1>13. CASE RowGone(s)
  BY <1>13 DEF RowGone, Throw, TypeOK
<1>14. CASE MarkFailed(s)
  BY <1>14 DEF MarkFailed, Finish, NextItem, EndRun, Gone, TypeOK
<1> QED
  BY <1>1, <1>2, <1>3, <1>4, <1>5, <1>6, <1>7, <1>8, <1>9, <1>10, <1>11, <1>12, <1>13,
     <1>14 DEF SenderStep

(* A step that leaves senders, records and deletions alone.                *)
LEMMA OutsideRefines ==
    ASSUME UNCHANGED <<senderVars, sentEmail, mailVars>>,
           \A i \in Item : queue'[i] = "deleted" <=> queue[i] = "deleted"
    PROVE  Refines
<1>1. Unrecorded /\ \A i \in Item : Holding(i)' = Holding(i)
  BY DEF Unrecorded, Holding, senderVars, mailVars
<1> QED
  BY <1>1, HoldersStay

LEMMA HandlerRefines ==
    ASSUME TypeOK, HandlerStep
    PROVE  Refines
<1> USE OutsideRefines DEF itemVars
<1>1. ASSUME NEW i \in Item, Upsert(i) PROVE Refines
  BY <1>1 DEF Upsert, UpsertStatus, Gone, TypeOK
<1>2. ASSUME NEW l \in Lead, AddSuppression(l) \/ CancelSuppressed(l) PROVE Refines
  BY <1>2 DEF AddSuppression, CancelSuppressed, SetStatus, Unsent, Waiting
<1>3. ASSUME NEW l \in Lead, NEW class \in Classification, CancelReplied(l, class) \/ Classify(l, class)
      PROVE  Refines
  BY <1>3 DEF CancelReplied, Classify, SetStatus, Waiting
<1>4. CASE BlockDisconnected
  BY <1>4 DEF BlockDisconnected, SetStatus, Waiting
<1> QED
  BY <1>1, <1>2, <1>3, <1>4 DEF HandlerStep

LEMMA EnvironmentRefines ==
    ASSUME TypeOK, DeliveryInv, DeliveredCalled, Environment
    PROVE  Refines
<1> USE OutsideRefines DEF itemVars
<1>1. ASSUME NEW s \in Sender, StatementFails(s) \/ Crash(s) PROVE Refines
  <2>1. Unrecorded
    BY <1>1 DEF StatementFails, Throw, Crash, EndRun, Unrecorded, mailVars
  <2>2. /\ pc'[s] \notin {"mark", "call"}
        /\ \A t \in Sender \ {s} : pc'[t] = pc[t] /\ work'[t] = work[t]
    BY <1>1 DEF StatementFails, Throw, Crash, EndRun, Goto, TypeOK
  <2> QED
    BY <2>1, <2>2, SenderLeaves
<1>2. ASSUME NEW h \in handlers, HandlerDies(h) PROVE Refines
  BY <1>2 DEF HandlerDies
<1>3. ASSUME NEW i \in Item, Approve(i) \/ LeaseExpires(i) \/ DayPasses(i) PROVE Refines
  BY <1>3 DEF Approve, LeaseExpires, DayPasses
<1>4. ASSUME NEW l \in Lead, Unsubscribe(l) \/ RemoveSuppression(l) PROVE Refines
  BY <1>4 DEF Unsubscribe, RemoveSuppression
<1>5. ASSUME NEW l \in Lead, NEW class \in Classification, IngestReply(l, class) PROVE Refines
  BY <1>5 DEF IngestReply
<1>6. ASSUME NEW c \in Campaign, SetCampaign(c) PROVE Refines
  BY <1>6 DEF SetCampaign
<1>7. ASSUME NEW c \in Campaign, DeleteCampaign(c) PROVE Refines
  BY <1>7, DeleteRefines
<1>8. ASSUME NEW l \in Lead, NEW c \in Campaign, RemoveLead(l, c) PROVE Refines
  BY <1>8 DEF RemoveLead, SetStatus, Unsent, Waiting
<1>9. CASE Disconnect \/ ConnectGmail \/ Midnight
  BY <1>9 DEF Disconnect, ConnectGmail, Midnight
<1> QED
  BY <1>1, <1>2, <1>3, <1>4, <1>5, <1>6, <1>7, <1>8, <1>9 DEF Environment

(* However many senders there are, whatever fails and whoever writes the   *)
(* rows meanwhile, the queue does with each e-mail only what Delivery      *)
(* allows: it reserves, attempts once, and never records more than         *)
(* happened (SendQueueService.processQueue).                               *)
THEOREM QueueImplementsDelivery == Spec => ImplementsDelivery
<1>1. Init => Abstract!Init
  BY DEF Init, Abstract!Init, Record, Mail, Gone, Attempted, Holding
<1>2. TypeOK /\ DeliveryInv /\ DeliveredCalled /\ [Next]_vars => [Abstract!Next]_Abstract!vars
  <2>1. ASSUME TypeOK, UNCHANGED vars PROVE Refines
    BY <2>1, OutsideRefines DEF vars, itemVars
  <2> QED
    BY <2>1, SenderRefines, HandlerRefines, EnvironmentRefines DEF Next, Refines
<1> QED
  BY <1>1, <1>2, TypeCorrect, DeliveryInvariant, DeliveredInvariant, PTL
     DEF Spec, ImplementsDelivery, Abstract!Spec

-----------------------------------------------------------------------------
(* The daily limit, with senders that run at once                          *)

(* Senders that have read the count and may still write a date, and what   *)
(* can be dated today without anybody reading the count again.             *)
Adding == {"checkGmail", "find", "queue", "reserve", "mark", "call", "commit"}
Adders == {s \in Sender : pc[s] \in Adding}
Exposed == SentToday \cup {work[s] : s \in Adders}

(* The strengthening that is inductive: whoever passes the limit finds     *)
(* fewer dated items than the limit, and exposes one item more.            *)
Limited == Cardinality(Exposed) <= EffectiveLimit + Cardinality(Sender) - 1

LEMMA Counts ==
    /\ EffectiveLimit \in Nat \ {0} /\ Cardinality(Sender) \in Nat
    /\ IsFiniteSet(Item \cup {NoItem})
BY FS_CardinalityType, FS_AddElement DEF EffectiveLimit

LEMMA ExposedFinite ==
    ASSUME TypeOK
    PROVE  /\ IsFiniteSet(SentToday) /\ IsFiniteSet(Exposed)
           /\ SentToday \subseteq Exposed
<1>1. Exposed \subseteq Item \cup {NoItem} /\ SentToday \subseteq Exposed
  BY DEF Exposed, SentToday, Adders, TypeOK
<1> QED
  BY <1>1, Counts, FS_Subset

(* The senders' items are no more than the senders.                        *)
LEMMA OneItemEach ==
    ASSUME TypeOK, NEW S, S \subseteq {work[s] : s \in Sender}
    PROVE  IsFiniteSet(S) /\ Cardinality(S) <= Cardinality(Sender)
<1> DEFINE T == {work[s] : s \in Sender}
<1>1. work \in Surjection(Sender, T)
  BY DEF TypeOK, Surjection
<1>2. IsFiniteSet(T) /\ Cardinality(T) <= Cardinality(Sender)
  BY <1>1, FS_Surjection
<1>3. IsFiniteSet(S) /\ Cardinality(S) <= Cardinality(T) /\ Cardinality(S) \in Nat
  BY <1>2, FS_Subset, FS_CardinalityType
<1> QED
  BY <1>2, <1>3, FS_CardinalityType, Counts

(* As long as no further item is exposed, the bound stays.                 *)
LEMMA NoMoreExposed ==
    ASSUME TypeOK, Limited, Exposed' \subseteq Exposed
    PROVE  Limited'
<1>1. IsFiniteSet(Exposed) /\ Cardinality(Exposed) \in Nat
  BY ExposedFinite, FS_CardinalityType
<1>2. Cardinality(Exposed') <= Cardinality(Exposed) /\ Cardinality(Exposed') \in Nat
  BY <1>1, FS_Subset, FS_CardinalityType
<1> QED
  BY <1>1, <1>2, Counts DEF Limited, EffectiveLimit

(* A sender that steps dates no item but its own, and only if it has read  *)
(* the count.                                                              *)
LEMMA NotExposing ==
    ASSUME TypeOK, NEW s \in Sender,
           \A t \in Sender \ {s} : pc'[t] = pc[t] /\ work'[t] = work[t],
           pc'[s] \in Adding => pc[s] \in Adding /\ work'[s] = work[s],
           \A i \in Item : sentAt'[i] = "today" => sentAt[i] = "today" \/ (pc[s] \in Adding /\ i = work[s])
    PROVE  Exposed' \subseteq Exposed
<1>1. Adders' \subseteq Adders /\ \A t \in Adders' : work'[t] = work[t]
  BY DEF Adders
<1>2. SentToday' \subseteq SentToday \cup {work[t] : t \in Adders}
  BY DEF SentToday, Adders
<1> QED
  BY <1>1, <1>2 DEF Exposed

(* Passing the limit: the dated items are fewer than it, and the rest of   *)
(* what is exposed are items of senders.                                   *)
LEMMA PassesLimit ==
    ASSUME TypeOK, TypeOK', UnderDailyLimit, UNCHANGED <<sentAt, work>>
    PROVE  Limited'
<1> DEFINE W == {work'[s] : s \in Adders'}
<1>1. IsFiniteSet(SentToday) /\ Cardinality(SentToday) \in Nat
  BY ExposedFinite, FS_CardinalityType
<1>2. Cardinality(SentToday) < EffectiveLimit
  BY DEF UnderDailyLimit
<1>3. IsFiniteSet(W) /\ Cardinality(W) <= Cardinality(Sender) /\ Cardinality(W) \in Nat
  <2>1. W \subseteq {work[s] : s \in Sender}
    BY DEF Adders
  <2> QED
    BY <2>1, OneItemEach, FS_CardinalityType
<1>4. Exposed' = SentToday \cup W
  BY DEF Exposed, SentToday
<1>5. Cardinality(SentToday \cup W) <= Cardinality(SentToday) + Cardinality(W)
  <2>1. IsFiniteSet(SentToday \cap W) /\ Cardinality(SentToday \cap W) \in Nat
    BY <1>1, FS_Subset, FS_CardinalityType
  <2>2. Cardinality(SentToday \cup W) = Cardinality(SentToday) + Cardinality(W) - Cardinality(SentToday \cap W)
    BY <1>1, <1>3, FS_Union
  <2> QED
    BY <1>1, <1>3, <2>1, <2>2
<1>6. IsFiniteSet(SentToday \cup W) /\ Cardinality(SentToday \cup W) \in Nat
  BY <1>1, <1>3, FS_Union, FS_CardinalityType
<1> QED
  BY <1>1, <1>2, <1>3, <1>4, <1>5, <1>6, Counts DEF Limited, EffectiveLimit

-----------------------------------------------------------------------------
(* Every step                                                              *)

LEMMA SenderLimited ==
    ASSUME TypeOK, TypeOK', Limited, NEW s \in Sender, SenderStep(s)
    PROVE  Limited'
<1>1. \A t \in Sender \ {s} : pc'[t] = pc[t] /\ work'[t] = work[t]
  BY DEF SenderStep, Start, OpenGmail, BlockWithoutGmail, ListCandidates, Claim, CheckLead,
     CheckSuppression, CheckCampaign, CheckLimit, CheckGmail, Check, BlockItem, FindAttempt,
     Settle, MarkQueued, Reserve, MarkSending, CallGmail, Commit, AfterSend, RowGone, Throw,
     MarkUnknown, MarkFailed, Finish, Overwrite, NextItem, EndRun, Goto, TypeOK
<1> DEFINE Quiet == /\ pc'[s] \in Adding => pc[s] \in Adding /\ work'[s] = work[s]
                    /\ \A i \in Item : sentAt'[i] = "today"
                         => sentAt[i] = "today" \/ (pc[s] \in Adding /\ i = work[s])
<1>2. Quiet => Limited'
  BY <1>1, NotExposing, NoMoreExposed
<1> USE DEF itemVars, Goto, Adding
<1>3. CASE CheckLimit(s)
  <2>1. CASE UnderDailyLimit
    BY <1>3, <2>1, PassesLimit DEF CheckLimit, Check
  <2>2. CASE ~UnderDailyLimit
    <3>1. Quiet
      BY <1>3, <2>2 DEF CheckLimit, Check, TypeOK
    <3> QED
      BY <3>1, <1>2
  <2> QED
    BY <2>1, <2>2
<1>4. ASSUME Start(s) \/ OpenGmail(s) \/ BlockWithoutGmail(s) \/ ListCandidates(s)
             \/ \E i \in Item : Claim(s, i)
      PROVE  Quiet
  BY <1>4 DEF Start, OpenGmail, BlockWithoutGmail, ListCandidates, Claim, NextItem, TypeOK
<1>5. ASSUME CheckLead(s) \/ CheckSuppression(s) \/ CheckCampaign(s) \/ CheckGmail(s) \/ FindAttempt(s)
      PROVE  Quiet
  BY <1>5 DEF CheckLead, CheckSuppression, CheckCampaign, CheckGmail, Check, FindAttempt,
     AttemptVerdict, TypeOK
<1>6. ASSUME BlockItem(s) \/ Settle(s) \/ AfterSend(s) \/ MarkFailed(s)
      PROVE  Quiet
  BY <1>6 DEF BlockItem, Settle, AfterSend, MarkFailed, Finish, NextItem, EndRun, TypeOK
<1>7. ASSUME MarkQueued(s) \/ MarkSending(s) \/ CallGmail(s) \/ RowGone(s) \/ MarkUnknown(s)
      PROVE  Quiet
  BY <1>7 DEF MarkQueued, MarkSending, Overwrite, CallGmail, RowGone, Throw, MarkUnknown, TypeOK
<1>8. ASSUME Reserve(s) \/ Commit(s)
      PROVE  Quiet
  BY <1>8 DEF Reserve, Commit, TypeOK
<1> QED
  BY <1>2, <1>3, <1>4, <1>5, <1>6, <1>7, <1>8 DEF SenderStep

(* Nobody but a sender passes the limit or dates an item today.            *)
LEMMA OthersLimited ==
    ASSUME TypeOK, Limited, HandlerStep \/ Environment
    PROVE  Limited'
<1>1. \/ UNCHANGED <<pc, work>>
      \/ \E s \in Sender : StatementFails(s) \/ Crash(s)
  BY DEF HandlerStep, Upsert, AddSuppression, CancelSuppressed, CancelReplied, Classify,
     BlockDisconnected, Environment, HandlerDies, Approve, LeaseExpires, DayPasses, Unsubscribe,
     RemoveSuppression, IngestReply, SetCampaign, DeleteCampaign, RemoveLead, Disconnect,
     ConnectGmail, Midnight, senderVars
<1>2. \A i \in Item : sentAt'[i] = "today" => sentAt[i] = "today"
  <2>1. CASE HandlerStep
    BY <2>1 DEF HandlerStep, Upsert, AddSuppression, CancelSuppressed, CancelReplied, Classify,
       BlockDisconnected, itemVars
  <2>2. CASE Midnight \/ \E i \in Item : DayPasses(i)
    BY <2>2 DEF Midnight, DayPasses, TypeOK
  <2>3. CASE \E c \in Campaign : DeleteCampaign(c)
    BY <2>3 DEF DeleteCampaign
  <2>4. CASE /\ Environment /\ ~Midnight
             /\ \A i \in Item : ~DayPasses(i)
             /\ \A c \in Campaign : ~DeleteCampaign(c)
    BY <2>4 DEF Environment, StatementFails, Throw, Crash, EndRun, HandlerDies, Approve,
       LeaseExpires, Unsubscribe, RemoveSuppression, IngestReply, SetCampaign,
       RemoveLead, Disconnect, ConnectGmail, itemVars
  <2> QED
    BY <2>1, <2>2, <2>3, <2>4
<1>3. CASE UNCHANGED <<pc, work>>
  <2>1. Exposed' \subseteq Exposed
    BY <1>2, <1>3 DEF Exposed, SentToday, Adders
  <2> QED
    BY <2>1, NoMoreExposed
<1>4. ASSUME NEW s \in Sender, StatementFails(s) \/ Crash(s)
      PROVE  Limited'
  <2>1. /\ \A t \in Sender \ {s} : pc'[t] = pc[t] /\ work'[t] = work[t]
        /\ pc'[s] \notin Adding
    BY <1>4 DEF StatementFails, Throw, Crash, EndRun, Goto, Adding, TypeOK
  <2> QED
    BY <1>2, <2>1, NotExposing, NoMoreExposed
<1> QED
  BY <1>1, <1>3, <1>4

LEMMA InitLimited == Init => Limited
<1> SUFFICES ASSUME Init PROVE Limited
  OBVIOUS
<1>1. Exposed = {}
  BY DEF Init, Exposed, SentToday, Adders, Adding
<1>2. Cardinality(Exposed) = 0
  BY <1>1, FS_EmptySet
<1> QED
  BY <1>2, Counts DEF Limited, EffectiveLimit

(* The day's e-mails exceed the limit by no more than the senders there    *)
(* are, less one: ContactPolicyService.canSendNow counts before            *)
(* SendQueueService reserves, and each sender has one item at a time.      *)
THEOREM OvershootBounded == Spec => []DailyOvershoot
<1>1. TypeOK /\ TypeOK' /\ Limited /\ [Next]_vars => Limited'
  <2>1. ASSUME Limited, UNCHANGED vars PROVE Limited'
    BY <2>1 DEF Limited, Exposed, SentToday, Adders, vars, itemVars, senderVars
  <2> QED
    BY <2>1, SenderLimited, OthersLimited DEF Next
<1>2. TypeOK /\ Limited => DailyOvershoot
  <2> SUFFICES ASSUME TypeOK, Limited PROVE DailyOvershoot
    OBVIOUS
  <2>1. /\ Cardinality(SentToday) <= Cardinality(Exposed)
        /\ Cardinality(SentToday) \in Nat /\ Cardinality(Exposed) \in Nat
    BY ExposedFinite, FS_Subset, FS_CardinalityType
  <2> QED
    BY <2>1, Counts DEF Limited, DailyOvershoot, EffectiveLimit
<1> QED
  BY <1>1, <1>2, InitLimited, TypeCorrect, PTL DEF Spec
=============================================================================
