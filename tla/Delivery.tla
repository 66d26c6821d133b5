------------------------------ MODULE Delivery ------------------------------
(***************************************************************************)
(* What the send queue promises about each e-mail, whoever sends it and    *)
(* whatever fails: it goes out at most once, only under a reservation made *)
(* before, and a record "sent" is true and is never taken back.  A crash   *)
(* may leave a record that says less than what happened, never one that    *)
(* says more.  Deleting the draft deletes the record.                      *)
(***************************************************************************)
CONSTANT Item

VARIABLES
    record,  \* what is on file about the item's delivery
    mail     \* what happened: "idle", "permitted", "lost" or "accepted"

vars == <<record, mail>>

Init ==
    /\ record = [i \in Item |-> "none"]
    /\ mail = [i \in Item |-> "idle"]

Reserve(i) ==
    /\ record[i] = "none" /\ mail[i] = "idle"
    /\ record' = [record EXCEPT ![i] = "sending"]
    /\ mail' = [mail EXCEPT ![i] = "permitted"]

Attempt(i) ==
    /\ mail[i] = "permitted"
    /\ \E outcome \in {"lost", "accepted"} : mail' = [mail EXCEPT ![i] = outcome]
    /\ UNCHANGED record

Conclude(i) ==
    /\ record[i] \in {"sending", "unknown"} /\ mail[i] = "accepted"
    /\ record' = [record EXCEPT ![i] = "sent"]
    /\ UNCHANGED mail

Doubt(i) ==
    /\ record[i] = "sending"
    /\ record' = [record EXCEPT ![i] = "unknown"]
    /\ UNCHANGED mail

(* The drafts of S are deleted.  A permission nobody is left to use lapses *)
(* with its draft, at once or later.                                       *)
Lapse(S) ==
    \E lapsed \in SUBSET {i \in S : mail[i] = "permitted"} :
        mail' = [i \in Item |-> IF i \in lapsed THEN "idle" ELSE mail[i]]

Forget(S) ==
    /\ record' = [i \in Item |-> IF i \in S THEN "deleted" ELSE record[i]]
    /\ Lapse(S)

Withdraw(i) ==
    /\ record[i] = "deleted" /\ UNCHANGED record
    /\ Lapse({i})

Next ==
    \/ \E i \in Item : Reserve(i) \/ Attempt(i) \/ Conclude(i) \/ Doubt(i) \/ Withdraw(i)
    \/ \E S \in SUBSET Item : Forget(S)

Spec == Init /\ [][Next]_vars
=============================================================================
