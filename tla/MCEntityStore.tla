----------------------------- MODULE MCEntityStore -----------------------------
(* Two servers that share three entities in two sections.  k1 changes its  *)
(* value while the others come and go.  The servers are interchangeable,   *)
(* so the first change is on s1; k3 changes on s2.                         *)
EXTENDS EntityStore, TLC

CONSTANTS s1, s2, k1, k2, k3, v2, creds, status

TwoSections == [k \in Key |-> IF k = k3 THEN status ELSE creds]

OneChanges == \A s \in Server, k \in Key : state[s][k] = v2 => k = k1
EditedOn(s) == edited'[s] \ edited[s]
FirstOnOne == edits = 0 => EditedOn(s2) = {}
MCNext == Next /\ OneChanges' /\ FirstOnOne /\ k3 \notin EditedOn(s1)
MCSpec == Init /\ [][MCNext]_vars /\ Fairness
================================================================================
