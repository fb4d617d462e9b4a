------------------------------ MODULE MCFBBNet ------------------------------
(***************************************************************************)
(* FBBNet for TLC: three BBSs that all forward to each other; a bulletin   *)
(* of A for all of them, and a message of C for B.                         *)
(***************************************************************************)
EXTENDS FBBNet

CONSTANTS A, B, C, Bull, News

MCType == [b \in Bid |-> "B"]
MCOrigin == [b \in Bid |-> IF b = Bull THEN A ELSE C]
MCPartner == [n \in BBS |-> BBS \ {n}]
MCRoutes == [b \in Bid |-> [n \in BBS |->
    IF b = Bull THEN BBS \ {n, A} ELSE IF n = C THEN {B} ELSE {}]]
=============================================================================
