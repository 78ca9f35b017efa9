------------------------------ MODULE MCIssuance ------------------------------
(* The two modules of an issuance for TLC: one issuance from the offer to  *)
(* the stored credential (IssuanceFlow), and its requests to a server that *)
(* demands nonces and challenges (IssuanceRequests).  The parts share no   *)
(* state, so their interleavings add nothing: in each behaviour one part   *)
(* runs and the other stays in an initial state.                           *)
EXTENDS IssuanceFlow, IssuanceRequests

VARIABLE part

allVars == <<part, flowVars, requestVars>>

--------------------------------------------------------------------------------
(* The worlds that differ: a server is not asked for what it does not have.*)
Sensible(w) ==
    /\ w.demandsNonce => w.dpop
    /\ w.announces => w.demandsNonce
    /\ w.demandsChallenge => w.attests
    /\ w.offersChallenge \/ w.challengeEndpoint \/ w.freshens => w.demandsChallenge
    /\ w.par <=> w.attests
    /\ w.notifies <=> w.cnonce = "endpoint"
Worlds == {w \in AllWorlds : Sensible(w)}

--------------------------------------------------------------------------------
Resting == [strict |-> TRUE, vci11 |-> FALSE, redirect |-> FALSE, haip |-> FALSE,
            approved |-> <<>>]
Init ==
    /\ \/ part = "flow" /\ world = CHOOSE w \in World : TRUE
       \/ part = "requests" /\ wallet = Resting
    /\ FlowInit
    /\ RequestsInit

RunFlow == part = "flow" /\ FlowNext /\ UNCHANGED <<part, requestVars>>
RunRequests == part = "requests" /\ RequestsNext /\ UNCHANGED <<part, flowVars>>

Next == RunFlow \/ RunRequests

Spec == Init /\ [][Next]_allVars

================================================================================
