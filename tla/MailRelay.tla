------------------------------ MODULE MailRelay ------------------------------
(***************************************************************************)
(* What a network of BBSs promises those who post messages in it: each     *)
(* message goes along its routes and nowhere else, and a BBS that has it   *)
(* keeps it and owes it to every BBS its routes name until that one has it *)
(* too, whatever becomes of sessions, and over a crash.                    *)
(***************************************************************************)

CONSTANTS
    BBS,
    Bid,       \* the messages
    Origin,    \* [Bid -> BBS]: where each is posted
    Routes     \* [Bid -> [BBS -> SUBSET BBS]]: where each BBS sends it on to

VARIABLES
    at,        \* at[n]: the messages that n has
    due        \* due[n][b]: the BBSs that n still has to pass b on to

vars == << at, due >>

Init ==
    /\ at = [n \in BBS |-> {}]
    /\ due = [n \in BBS |-> [b \in Bid |-> {}]]

\* n has b, and passes it on to where its routes lead, but for those in back.
Store(n, b, back) ==
    /\ at' = [at EXCEPT ![n] = @ \cup {b}]
    /\ due' = [due EXCEPT ![n][b] = @ \cup (Routes[b][n] \ back)]

Post(b) ==
    /\ \A n \in BBS : b \notin at[n]
    /\ Store(Origin[b], b, {})

Copy(b, n, p) ==
    /\ b \in at[n] /\ p \in Routes[b][n]
    /\ Store(p, b, {n})

\* Only what n owes, or counts as settled, changes.
Recounts(n) ==
    /\ due' \in [BBS -> [Bid -> SUBSET BBS]]
    /\ \A m \in BBS \ {n} : due'[m] = due[m]
    /\ UNCHANGED at

\* What n no longer owes to p is at p.
Settle(n) ==
    /\ Recounts(n)
    /\ \A b \in Bid : /\ due'[n][b] \subseteq due[n][b]
                      /\ \A p \in due[n][b] \ due'[n][b] : b \in at[p]

\* A crash: n owes again some of what it had settled.
Forget(n) ==
    /\ Recounts(n)
    /\ \A b \in Bid : /\ due[n][b] \subseteq due'[n][b]
                      /\ due'[n][b] \subseteq IF b \in at[n] THEN Routes[b][n] ELSE {}

Next ==
    \/ \E b \in Bid : Post(b)
    \/ \E b \in Bid : \E n, p \in BBS : Copy(b, n, p)
    \/ \E n \in BBS : Settle(n) \/ Forget(n)

Spec == Init /\ [][Next]_vars

-----------------------------------------------------------------------------
(* What follows from it.                                                   *)

\* A message is at each BBS its routes lead to, or is still owed to it.
NothingLost ==
    \A n \in BBS : \A b \in at[n] : \A p \in Routes[b][n] : p \in due[n][b] \/ b \in at[p]

\* A message is where it was posted, or has come along a route from a BBS that has it.
NoStrays ==
    \A n \in BBS : \A b \in at[n] : n = Origin[b] \/ \E m \in BBS : b \in at[m] /\ n \in Routes[b][m]
=============================================================================
