----------------------------- MODULE MCL3Nodes -----------------------------
(***************************************************************************)
(* L3Nodes for TLC: three nodes that all hear each other.                  *)
(***************************************************************************)
EXTENDS L3Nodes

CONSTANTS A, B, C, Good, Weak

\* C is heard less well by A than by B.
MCPORTQUALITY ==
    [n \in Node |-> [m \in Node |->
        IF n = m THEN 0 ELSE IF {n, m} = {A, C} THEN Weak ELSE Good]]

\* A has two routes to C, the better one by way of B.
MCCalls == {<< A, C >>}
=============================================================================
