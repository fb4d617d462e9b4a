---------------------------- MODULE MCAX25Link ----------------------------
(***************************************************************************)
(* AX25Link for TLC.  The cfg files choose one of the small systems below. *)
(***************************************************************************)
EXTENDS AX25Link

CONSTANTS ConnectsA, ConnectsB, MsgsA, MsgsB, AnswerA, AnswerB

MCMaxConnect == [n \in {A, B} |-> IF n = A THEN ConnectsA ELSE ConnectsB]
MCMaxMsg     == [n \in {A, B} |-> IF n = A THEN MsgsA ELSE MsgsB]
MCAnswer     == [n \in {A, B} |-> IF n = A THEN AnswerA ELSE AnswerB]
=============================================================================
