---------------------------- MODULE MCSendQueue ----------------------------
(* Values of SendQueue's constants for TLC. *)
EXTENDS SendQueue, TLC

CONSTANTS i1, i2, i3, l1, l2, l3, c1, c2

(* One draft of one lead, in the campaign c1. *)
OneItemLead == i1 :> l1
OneItemCampaign == i1 :> c1
\* The draft belongs to no campaign.
OneItemOutside == i1 :> NoCampaign
Members == {<<l1, c1>>}
\* The lead is in a second campaign too.
MembersOfTwo == {<<l1, c1>>, <<l1, c2>>}

(* Three drafts of three leads, outside any campaign. *)
ThreeItemsLead == (i1 :> l1) @@ (i2 :> l2) @@ (i3 :> l3)
ThreeItemsCampaign == [i \in {i1, i2, i3} |-> NoCampaign]

NoEvents == [e \in Event |-> 0]
Faults == {[NoEvents EXCEPT !["crash"] = 1, !["error"] = 1, !["approve"] = 2,
                            !["delete"] = 1, !["gmail"] = 2]}
Stops == {[NoEvents EXCEPT !["suppress"] = 1, !["reply"] = 1, !["approve"] = 1, !["restore"] = 1]}
FaultsOrStops == Faults \cup Stops
Days == {[NoEvents EXCEPT !["day"] = 1]}
OneCrash == {[NoEvents EXCEPT !["crash"] = 1]}
Settings == {[NoEvents EXCEPT !["crash"] = 1, !["gmail"] = 1, !["remove"] = 1,
                              !["campaign"] = 1]}

SenderSymmetry == Permutations(Sender)

(* Drafts are interchangeable together with their leads. *)
ItemSymmetry ==
    LET lead == (i1 :> l1) @@ (i2 :> l2) @@ (i3 :> l3) IN
    {[x \in {i1, i2, i3, l1, l2, l3} |->
        IF x \in {i1, i2, i3} THEN p[x]
        ELSE lead[p[CHOOSE i \in {i1, i2, i3} : lead[i] = x]]] : p \in Permutations({i1, i2, i3})}

ItemAndSenderSymmetry ==
    {p @@ q : p \in ItemSymmetry, q \in SenderSymmetry} \cup ItemSymmetry \cup SenderSymmetry
=============================================================================
