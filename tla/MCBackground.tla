----------------------------- MODULE MCBackground -----------------------------
(* What the wallet does in the background for the credentials of an        *)
(* issuer, for TLC: the collection of deferred credentials                 *)
(* (DeferredIssuance) and the renewal of expiring ones (Renewal).  They    *)
(* share no state, so their interleavings add nothing: in each behaviour   *)
(* one part runs and the other rests.                                      *)
EXTENDS DeferredIssuance, Renewal

CONSTANTS poller, call, r1, r2

VARIABLE part

allVars == <<part, deferredVars, vars>>

Setting(recs, threads, refreshable, capacity, life, refreshes, stops, changes) ==
    [records |-> recs, threads |-> threads, refreshable |-> refreshable,
     capacity |-> capacity, life |-> life, reissues |-> FALSE,
     refreshes |-> refreshes, crashes |-> stops, reloads |-> changes]

(* Tokens that expire, with a crash; a full wallet; reloads.               *)
AllSettings ==
    { Setting({r1}, {poller, call}, {r1}, 0, 1, 2, 1, 0),
      Setting({r1, r2}, {poller}, {r1}, 1, 1, 2, 0, 0),
      Setting({r1}, {poller, call}, {}, 1, 0, 1, 0, 1) }

Setup(flows, rotations, faults, flags) ==
    [flows |-> flows, rotations |-> rotations, failures |-> faults,
     file |-> "file" \in flags, batch |-> "batch" \in flags,
     others |-> "others" \in flags, deletes |-> "deletes" \in flags]

(* Three renewals at once; two with a failure; two with a failure and a     *)
(* deletion; the sweep alone; a call with reloads.                          *)
AllSetups ==
    { Setup(Flows, 2, 0, {"batch"}),
      Setup(Sweeps \cup Calls, 2, 1, {"batch"}),
      Setup(Sweeps \cup Presentations, 2, 1, {"batch", "deletes"}),
      Setup(Sweeps, 4, 3, {"file", "deletes"}),
      Setup(Calls, 4, 3, {"others"}) }

MCInit ==
    /\ part \in {"deferred", "renewal"}
    /\ setting \in IF part = "deferred" THEN Settings ELSE {CHOOSE s \in Settings : TRUE}
    /\ setup \in IF part = "renewal" THEN Setups ELSE {CHOOSE s \in Setups : TRUE}
    /\ DeferredInit /\ Init

Deferring == part = "deferred" /\ UNCHANGED <<part, vars, setting>>
Renewing == part = "renewal" /\ UNCHANGED <<part, deferredVars, setup>>

MCNext == (Deferring /\ DeferredNext) \/ (Renewing /\ Next)

(* The fairness of the two modules.                                        *)
MCFairness == WF_allVars((Deferring /\ CollectionGoesOn) \/ (Renewing /\ RenewalGoesOn))

MCSpec == MCInit /\ [][MCNext]_allVars /\ MCFairness

(* Every deferral and every renewal comes to an end.                       *)
BackgroundEnds == DeferralEnds /\ RenewedEventually
================================================================================
