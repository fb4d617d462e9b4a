---------------------------- MODULE MCL4Circuit ----------------------------
(***************************************************************************)
(* L4Circuit for TLC.  The cfg files choose one of the small systems below. *)
(***************************************************************************)
EXTENDS L4Circuit

CONSTANTS ConnectsA, ConnectsB, MsgsA, MsgsB, AnswerB

MCMaxConnect == [n \in {A, B} |-> IF n = A THEN ConnectsA ELSE ConnectsB]
MCMaxMsg     == [n \in {A, B} |-> IF n = A THEN MsgsA ELSE MsgsB]
MCAnswerOf   == [n \in {A, B} |-> IF n = A THEN {"node"} ELSE AnswerB]
=============================================================================
