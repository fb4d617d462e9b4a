----------------------------- MODULE MCChatNet -----------------------------
(***************************************************************************)
(* ChatNet for TLC: three nodes in a line.                                 *)
(***************************************************************************)
EXTENDS ChatNet

CONSTANTS A, B, C, Ann, Cay

\* B links with A and with C.
MCPartner == A :> {B} @@ B :> {A, C} @@ C :> {B}
MCHome == Ann :> {A} @@ Cay :> {C}

\* What the theorems about the counts assume.
ASSUME NoRing == Forest
=============================================================================
