----------------------------- MODULE MCActivityLog -----------------------------
(* Instances of ActivityLog for TLC: one server with two entries and a     *)
(* credential, and two servers with one entry.                             *)
EXTENDS ActivityLog, TLC

CONSTANTS c1, e1, e2, creds, log

VARIABLE scene

MCSections == [k \in Key |-> IF k = c1 THEN creds ELSE log]
ServerSymmetry == Permutations(Server)

Rests(s) ==
    /\ state[s] = NoValues /\ persisted[s] = NoRows /\ waiting[s] = {}
    /\ {saving[s], loading[s], appending[s], clearing[s]} = {"no"}

(* A trim and a clear do not both happen.                                  *)
InScene ==
    /\ clears = 0 \/ trims = 0
    /\ scene = "one server" => Cardinality({s \in Server : ~Rests(s)}) <= 1
    /\ scene = "one entry" =>
          e2 \notin ToSet(added) /\ \A s \in Server : state[s][c1] = NoValue

MCInit == scene \in {"one server", "one entry"} /\ LogInit
MCNext == LogNext /\ UNCHANGED scene /\ InScene'
MCSpec == MCInit /\ [][MCNext]_<<scene, allVars>>
================================================================================
