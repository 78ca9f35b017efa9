---------------------------- MODULE MCStatusCounter ----------------------------
(* One allocation on each of two servers.                                  *)
EXTENDS StatusCounter, TLC

CONSTANTS s1, s2, a1, a2, a3, counter, status

CounterSection == [k \in Key |-> status]
Homes == [a \in Allocation |-> IF a = a3 THEN s2 ELSE s1]
================================================================================
