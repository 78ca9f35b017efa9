---------------------------- MODULE MCInteraction ----------------------------
(* The two parts of the server that wait for somebody, for TLC: the        *)
(* consent registry (Consent) and the offers with their sign-ins           *)
(* (OfferFlows).  They share no state, so their interleavings add nothing: *)
(* in each behaviour one part runs and the other rests.                    *)
EXTENDS Consent, OfferFlows

CONSTANTS c1, c2, r1, r2

VARIABLE part

allVars == <<part, vars, offerVars>>

(* One tab does not own the second request.                                *)
OwnsAll == ({c1, c2} \X {r1, r2}) \ {<<c2, r2>>}

(* Two offers, of a browser with an open event stream and of nobody.       *)
MCOwners == [o1 |-> "b1", s1 |-> "b1", o2 |-> "nobody"]

MCInit == part \in {"consent", "offers"} /\ Init /\ OffersInit

Consenting == part = "consent" /\ UNCHANGED <<part, offerVars>>
Offering == part = "offers" /\ UNCHANGED <<part, vars>>

MCNext == (Consenting /\ Next) \/ (Offering /\ OffersNext)

(* The fairness of the two modules.                                        *)
MCFairness == WF_allVars((Consenting /\ GoesOn) \/ (Offering /\ OffersGoOn))

MCSpec == MCInit /\ [][MCNext]_allVars /\ MCFairness
OffersOnly == MCInit /\ part = "offers" /\ [][MCNext]_allVars

(* Every consent and every offer comes to an end.                          *)
InteractionsEnd == FlowsEnd /\ OffersEnd
================================================================================
