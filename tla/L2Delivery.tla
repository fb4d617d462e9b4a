----------------------------- MODULE L2Delivery -----------------------------
(***************************************************************************)
(* What the data link promises the session layers at its two ends: a       *)
(* stream of frames each way, taken in the order given and never twice.    *)
(* The link may be emptied (CLEARL2QUEUES, CLEAROUTLINK) by a connect, a   *)
(* disconnect, a reset or a failure; frames may be missing there, and      *)
(* nowhere else.                                                           *)
(*                                                                         *)
(* Frames are numbered in the order given.  cut marks the first frame      *)
(* given, or taken, since the link was last emptied at that end.           *)
(***************************************************************************)
EXTENDS Naturals, Sequences

CONSTANTS A, B          \* the two ends

VARIABLES
    given,   \* given[n][i]: whether n's i-th frame was a cut
    taken    \* taken[n]: the frames of the other end that n took

Node == {A, B}
Peer(n) == IF n = A THEN B ELSE A
Taken == [info : Nat \ {0}, cut : BOOLEAN]

Init == given = [n \in Node |-> << >>] /\ taken = [n \in Node |-> << >>]

\* t is s and more.
Grows(s, t) == Len(s) <= Len(t) /\ \A i \in 1 .. Len(s) : t[i] = s[i]

\* y is the frame after x, or a later one after a cut.
Follows(sent, x, y) ==
    /\ y.info > x.info /\ y.info <= Len(sent)
    /\ y.info = x.info + 1 \/ y.cut \/ \E j \in x.info + 1 .. y.info : sent[j]

Give(n) ==
    /\ Grows(given[n], given'[n])
    /\ given' \in [Node -> Seq(BOOLEAN)]
    /\ given'[Peer(n)] = given[Peer(n)]
    /\ UNCHANGED taken

Take(n) ==
    /\ Grows(taken[n], taken'[n])
    /\ taken' \in [Node -> Seq(Taken)]
    /\ \A i \in Len(taken[n]) + 1 .. Len(taken'[n]) :
          IF i = 1 THEN taken'[n][1].info <= Len(given[Peer(n)])
                   ELSE Follows(given[Peer(n)], taken'[n][i - 1], taken'[n][i])
    /\ taken'[Peer(n)] = taken[Peer(n)]
    /\ UNCHANGED given

Next == \E n \in Node : Give(n) \/ Take(n)

Spec == Init /\ [][Next]_<< given, taken >>
=============================================================================
