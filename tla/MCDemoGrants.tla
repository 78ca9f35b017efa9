------------------------------ MODULE MCDemoGrants ------------------------------
(* Instances of DemoGrants for TLC: requests pushed by scope, whose codes  *)
(* race for a token, and offers with a challenge session.  Random ids are  *)
(* interchangeable.                                                        *)
EXTENDS DemoGrants, TLC

CONSTANTS o1, w1, k1

VARIABLE scene

AskedGrant(key, redirect, o) == [client |-> w1, key |-> key, redirect |-> redirect, offer |-> o]
MCAsked == {AskedGrant(k1, TRUE, None), AskedGrant(None, TRUE, o1)}

Symmetry ==
    UNION {Permutations(S) : S \in {Request, Code, Session, Token, Call}}

InScene ==
    \/ /\ scene = "codes"
       /\ \A o \in Offer : offer[o].grant = "none"
       /\ \A s \in Session : ~session[s].made
    \/ /\ scene = "challenge"
       /\ \A o \in Offer \ {o1} : offer[o].grant # "auth"
       /\ Cardinality({r \in Request : request[r].made}) <= 1
       /\ Cardinality({d \in Code : codeOf[d] # None}) <= 1
       /\ \A c \in Call : call[c].grant # AskedGrant(k1, TRUE, None)
       /\ \A t \in Token : token[t].key = None

MCInit == scene \in {"codes", "challenge"} /\ Init
MCNext == Next /\ UNCHANGED scene /\ InScene'
MCSpec == MCInit /\ [][MCNext]_<<scene, vars>>
================================================================================
