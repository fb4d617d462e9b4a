--------------------------- MODULE FBBNodeProofs ---------------------------
(***************************************************************************)
(* What each handler of FBBNode does to a BBS, for any messages, routes    *)
(* and bounds: it stays Good, its messages stay where they are, and of the *)
(* other sessions and their lines nothing changes (Moved, Does).  What it  *)
(* sends takes the dialogue of its session to the next place (Result):     *)
(* LineResult, at the end, says so of every line there may be.  Passes is  *)
(* about the messages that come: which of them a line may make new.        *)
(*                                                                         *)
(* Induction, for the answers of a block and the texts that they ask for,  *)
(* is over a set of numbers (NatInductionOnSet).                           *)
(***************************************************************************)
EXTENDS FBBNode, FiniteSetTheorems, SequenceTheorems, WellFoundedInduction, TLAPS

-----------------------------------------------------------------------------
(* What is true of a BBS.                                                  *)

Bids(s) == {s.msg[i].bid : i \in DOMAIN s.msg}

\* The file has every message, and no mark that the BBS does not have.
Kept(s) ==
    /\ Len(s.saved) = Len(s.msg)
    /\ \A i \in DOMAIN s.msg : /\ s.saved[i].bid = s.msg[i].bid
                               /\ s.saved[i].restarted = s.msg[i].restarted
                               /\ s.saved[i].forw \subseteq s.msg[i].forw

Fits(s, e) == /\ Len(e.hdr) <= MaxBlock /\ Len(e.want) <= MaxBlock
              /\ e.NextMessagetoForward <= Len(s.msg) + 1

Good(s) == s \in State /\ Kept(s) /\ \A k \in Conn : Fits(s, s.session[k])

-----------------------------------------------------------------------------
(* The places of a dialogue, told from the lines wx and wy that are on     *)
(* their way to the ends x and y of session k.                             *)

Waiting(e) == e.want = << >> /\ e.length = 0
Idle(e) == ~e.FBBMsgsSent /\ Waiting(e)

Offered(s, e) == [i \in DOMAIN e.hdr |-> s.msg[e.hdr[i]].bid]

\* s has offered what it has for the session, or said that it has nothing.
Offer(s, e, l) ==
    /\ Idle(e) /\ l.kind \in {"FA", "FF", "FQ"}
    /\ l.kind = "FA" => ToSet(e.hdr) \subseteq DOMAIN s.msg /\ l.bids = Offered(s, e)

\* What s has sent and will mark as passed on is among B.
Delivered(s, e, B) ==
    e.FBBMsgsSent => \A i \in DOMAIN e.hdr :
        e.hdr[i] # 0 => e.hdr[i] \in DOMAIN s.msg /\ s.msg[e.hdr[i]].bid \in B

Wanted == {"+", "!"}

\* a answers bids: W are those that are wanted, in order, and what is refused is
\* among B.  g counts the wanted ones.
RepliedTo(a, bids, W, B) ==
    /\ \A i \in DOMAIN a : a[i] = "-" => bids[i] \in B
    /\ \E g \in [0 .. Len(a) -> 0 .. Len(W)] :
          /\ g[0] = 0 /\ g[Len(a)] = Len(W)
          /\ \A i \in DOMAIN a :
                IF a[i] \in Wanted THEN g[i] = g[i - 1] + 1 /\ W[g[i]] = bids[i]
                ELSE g[i] = g[i - 1]

Replied(a, bids, W, B) == Len(a) = Len(bids) /\ RepliedTo(a, bids, W, B)

\* T are the texts of the first m of the messages W, each of one part or of two, when
\* len parts of the first are there.  q says where each message ends.
Laid(T, W, m, len) ==
    \E q \in [0 .. m -> 0 .. Len(T)] :
        /\ q[0] = 0 /\ q[m] = Len(T)
        /\ \A i \in 1 .. m :
              /\ q[i] = q[i - 1] + 1 \/ q[i] = q[i - 1] + 2
              /\ T[q[i]] = Text(W[i], 1, 2)
              /\ q[i] = q[i - 1] + 2 => T[q[i] - 1] = Text(W[i], 0, 1) /\ (i = 1 => len = 0)

Follows(T, W, len) == Laid(T, W, Len(W), len) /\ len \in 0 .. 1

\* x has called and its prompt is on its way.
Greeting(x, y, wx, wy) == wx = << Line("prompt") >> /\ wy = << >> /\ Idle(x) /\ Idle(y)

\* x has made an offer, and y has the messages that it sent before.
Turn(k, x, y, wx, wy) ==
    /\ wx = << >>
    /\ wy # << >> /\ Offer(x, x.session[k], wy[Len(wy)])
    /\ Len(wy) = 1 \/ (Len(wy) = 2 /\ wy[1] = Line("SID"))
    /\ Waiting(y.session[k]) /\ Delivered(y, y.session[k], Bids(x))

\* y has answered the offer of x, and makes one itself when it wants nothing.
Answered(k, x, y, wx, wy) ==
    LET e == y.session[k]
    IN  /\ wy = << >> /\ wx # << >> /\ wx[1].kind = "FS"
        /\ Idle(x.session[k]) /\ ToSet(x.session[k].hdr) \subseteq DOMAIN x.msg
        /\ Replied(wx[1].answers, Offered(x, x.session[k]), e.want, Bids(y))
        /\ ~e.FBBMsgsSent /\ e.length = 0
        /\ IF e.want # << >> THEN Len(wx) = 1
           ELSE Len(wx) = 2 /\ Offer(y, e, wx[2])

\* x has sent the texts of what y waits for.
Sending(k, x, y, wx, wy) ==
    LET e == y.session[k]
    IN  /\ wx = << >> /\ wy # << >> /\ Follows(wy, e.want, e.length)
        /\ x.session[k].FBBMsgsSent /\ Waiting(x.session[k]) /\ ~e.FBBMsgsSent
        /\ Delivered(x, x.session[k], Bids(y) \cup ToSet(e.want))

Phase(k, x, y, wx, wy) ==
    Turn(k, x, y, wx, wy) \/ Answered(k, x, y, wx, wy) \/ Sending(k, x, y, wx, wy)

\* The messages that answers a ask for from their start, and those of which the first
\* part is among the lines T.
Plus(a, bids) == {bids[i] : i \in {j \in DOMAIN a : a[j] = "+"}}
FreshBids(T) == {T[i].bid : i \in {j \in DOMAIN T : T[j].kind = "text" /\ T[j].from = 0}}

\* The messages that y is being sent by x from their start.
Arriving(k, x, y, wx, wy) ==
    (IF wx # << >> /\ wx[1].kind = "FS" THEN Plus(wx[1].answers, Offered(x, x.session[k])) ELSE {})
    \cup FreshBids(wy)
    \cup (IF y.session[k].length = 1 THEN {Head(y.session[k].want)} ELSE {})

-----------------------------------------------------------------------------
(* Numbers and finite sets.                                                *)

\* A set of numbers that is not empty has a least one.
LEMMA NatLeast ==
  ASSUME NEW S \in SUBSET Nat, S # {}
  PROVE  \E i \in S : \A r \in S : i <= r
<1>1. PICK i \in S : \A r \in S : <<r, i>> \notin OpToRel(<, Nat)
  BY NatLessThanWellFounded, WFMin
<1>2. \A r \in S : ~ (r < i)
  BY <1>1, Zenon DEF OpToRel
<1> QED
  BY <1>2

\* Induction, for a set of numbers in the place of a predicate.
LEMMA NatInductionOnSet ==
  ASSUME NEW S \in SUBSET Nat, 0 \in S, \A n \in S : n + 1 \in S
  PROVE  \A n \in Nat : n \in S
<1> DEFINE T == Nat \ S
<1>1. SUFFICES ASSUME T # {} PROVE FALSE
  OBVIOUS
<1>2. PICK n \in T : \A m \in T : n <= m
  BY <1>1, NatLeast
<1>3. n # 0 /\ n - 1 \in Nat /\ n - 1 \notin T
  BY <1>2
<1> QED
  BY <1>2, <1>3

\* A set of numbers with a bound has a largest one.
LEMMA LargestExists ==
  ASSUME NEW N \in Nat, NEW S, S \subseteq 1 .. N, S # {}
  PROVE  Max(S) \in S /\ \A i \in S : Max(S) >= i
<1> DEFINE T == {N - i : i \in S}
<1>1. T \in SUBSET Nat /\ T # {}
  <2>1. \A i \in S : i \in 1 .. N /\ N - i \in Nat
    OBVIOUS
  <2> QED
    BY <2>1
<1>2. PICK j \in T : \A r \in T : j <= r
  BY <1>1, NatLeast
<1>3. PICK m \in S : j = N - m
  BY <1>2
<1>4. \A i \in S : N - m <= N - i
  BY <1>2, <1>3
<1>5. \A i \in S : m >= i
  BY <1>4
<1> QED
  BY <1>5 DEF Max

\* A finite set of numbers can be put in order.
LEMMA AscendingExists ==
  ASSUME NEW S \in SUBSET Nat, IsFiniteSet(S)
  PROVE  \E q \in [1 .. Cardinality(S) -> S] :
            \A i, j \in 1 .. Cardinality(S) : i < j => q[i] < q[j]
<1> DEFINE Sorted(q, T, n) == /\ q \in [1 .. n -> T]
                              /\ \A i, j \in 1 .. n : i < j => q[i] < q[j]
           I == {n \in Nat : \A T \in SUBSET Nat :
                    IsFiniteSet(T) /\ Cardinality(T) = n => \E q : Sorted(q, T, n)}
<1>1. 0 \in I
  <2>1. \A T : Sorted([i \in 1 .. 0 |-> 0], T, 0)
    OBVIOUS
  <2> QED
    BY <2>1
<1>2. ASSUME NEW n \in I
      PROVE  n + 1 \in I
  <2> SUFFICES ASSUME NEW T \in SUBSET Nat, IsFiniteSet(T), Cardinality(T) = n + 1
               PROVE  \E q : Sorted(q, T, n + 1)
    OBVIOUS
  <2>1. T # {}
    BY FS_EmptySet
  <2>2. PICK m \in T : \A r \in T : m <= r
    BY <2>1, NatLeast
  <2>3. IsFiniteSet(T \ {m}) /\ Cardinality(T \ {m}) = n
    <3>1. IsFiniteSet(T \ {m}) /\ Cardinality(T \ {m}) = Cardinality(T) - 1
      BY FS_RemoveElement
    <3> QED
      BY <3>1
  <2>4. PICK p : Sorted(p, T \ {m}, n)
    BY <2>3
  <2> DEFINE q == [i \in 1 .. n + 1 |-> IF i = 1 THEN m ELSE p[i - 1]]
  <2>5. q \in [1 .. n + 1 -> T]
    BY <2>4
  <2>6. ASSUME NEW i \in 1 .. n + 1, NEW j \in 1 .. n + 1, i < j
        PROVE  q[i] < q[j]
    <3>1. j - 1 \in 1 .. n /\ q[j] = p[j - 1] /\ p[j - 1] \in T \ {m}
      BY <2>4, <2>6
    <3>2. CASE i = 1
      <4>1. m <= p[j - 1] /\ m # p[j - 1] /\ m \in Nat /\ p[j - 1] \in Nat
        BY <2>2, <3>1
      <4> QED
        BY <3>1, <3>2, <4>1
    <3>3. CASE i # 1
      <4>1. i - 1 \in 1 .. n /\ i - 1 < j - 1 /\ q[i] = p[i - 1]
        BY <2>6, <3>3
      <4> QED
        BY <2>4, <3>1, <4>1
    <3> QED
      BY <3>2, <3>3
  <2> HIDE DEF q
  <2> QED
    BY <2>5, <2>6
<1> HIDE DEF Sorted
<1>3. \A n \in Nat : n \in I
  BY <1>1, <1>2, NatInductionOnSet
<1>4. Cardinality(S) \in I
  BY <1>3, FS_CardinalityType
<1>5. \E q : Sorted(q, S, Cardinality(S))
  BY <1>4
<1> QED
  BY <1>5 DEF Sorted

LEMMA AscendingType ==
  ASSUME NEW S \in SUBSET Nat, IsFiniteSet(S)
  PROVE  /\ Ascending(S) \in [1 .. Cardinality(S) -> S]
         /\ Ascending(S) \in Seq(S) /\ Len(Ascending(S)) = Cardinality(S)
<1>1. Ascending(S) \in [1 .. Cardinality(S) -> S]
  BY AscendingExists DEF Ascending
<1>2. Cardinality(S) \in Nat
  BY FS_CardinalityType
<1> QED
  BY <1>1, <1>2

-----------------------------------------------------------------------------
(* Sequences laid end to end.                                              *)

\* The parts of the first n of some sequences, joined one after the other.
LEMMA JoinExists ==
  ASSUME NEW n \in Nat, NEW seqs
  PROVE  \E f : f = [i \in 1 .. n |-> IF i = 1 THEN seqs[i] ELSE f[i - 1] \o seqs[i]]
<1> DEFINE Step(f, i) == IF i = 1 THEN seqs[i] ELSE f[i - 1] \o seqs[i]
           I == {m \in Nat : \E f : f = [i \in 1 .. m |-> Step(f, i)]}
<1>1. 0 \in I
  <2>1. [i \in 1 .. 0 |-> 0] = [i \in 1 .. 0 |-> Step([j \in 1 .. 0 |-> 0], i)]
    OBVIOUS
  <2> QED
    BY <2>1
<1>2. ASSUME NEW m \in I
      PROVE  m + 1 \in I
  <2>1. PICK f : f = [i \in 1 .. m |-> Step(f, i)]
    OBVIOUS
  <2> DEFINE last == Step(f, m + 1)
             e == [i \in 1 .. m + 1 |-> IF i = m + 1 THEN last ELSE f[i]]
  <2>2. \A i \in 1 .. m + 1 : e[i] = Step(e, i)
    <3>1. ASSUME NEW i \in 1 .. m + 1, i # m + 1
          PROVE  e[i] = Step(e, i)
      <4>1. i \in 1 .. m /\ e[i] = f[i] /\ f[i] = Step(f, i)
        <5>1. \A j \in 1 .. m : f[j] = Step(f, j)
          <6> HIDE DEF Step
          <6> QED
            BY <2>1
        <5> HIDE DEF Step, last
        <5> QED
          BY <3>1, <5>1
      <4>2. i # 1 => e[i - 1] = f[i - 1]
        BY <4>1
      <4> QED
        BY <4>1, <4>2
    <3>2. e[m + 1] = last /\ (m + 1 # 1 => e[m] = f[m])
      OBVIOUS
    <3>3. e[m + 1] = Step(e, m + 1)
      BY <3>2
    <3> QED
      BY <3>1, <3>3
  <2>3. e = [i \in 1 .. m + 1 |-> Step(e, i)]
    <3> HIDE DEF Step, last
    <3> QED
      BY <2>2
  <2> HIDE DEF e, Step
  <2> QED
    BY <2>3
<1> HIDE DEF I
<1>3. n \in I
  BY <1>1, <1>2, NatInductionOnSet DEF I
<1> QED
  BY <1>3 DEF I

LEMMA FlattenStep ==
  ASSUME NEW seqs, Len(seqs) \in Nat \ {0}
  PROVE  \E f : /\ f = [i \in 1 .. Len(seqs) |-> IF i = 1 THEN seqs[i] ELSE f[i - 1] \o seqs[i]]
                /\ FlattenSeq(seqs) = f[Len(seqs)]
<1> DEFINE f == CHOOSE f : f = [i \in 1 .. Len(seqs) |-> IF i = 1 THEN seqs[i] ELSE f[i - 1] \o seqs[i]]
<1>1. f = [i \in 1 .. Len(seqs) |-> IF i = 1 THEN seqs[i] ELSE f[i - 1] \o seqs[i]]
  BY JoinExists, Zenon
<1>2. FlattenSeq(seqs) = f[Len(seqs)]
  BY Zenon DEF FlattenSeq
<1> QED
  BY <1>1, <1>2

-----------------------------------------------------------------------------
(* What is sent for the answers to a block.                                *)

LEMMA TextType ==
  ASSUME NEW b \in Bid
  PROVE  Text(b, 0, 1) \in Lines /\ Text(b, 1, 2) \in Lines
  BY DEF Text, Lines

LEMMA LaidNext ==
  ASSUME NEW T \in Seq(Lines), NEW W \in Seq(Bid), NEW m \in Nat, m + 1 \in DOMAIN W,
         NEW seg, \/ seg = << Text(W[m + 1], 0, 1), Text(W[m + 1], 1, 2) >>
                  \/ seg = << Text(W[m + 1], 1, 2) >>,
         Laid(T, W, m, 0)
  PROVE  T \o seg \in Seq(Lines) /\ Laid(T \o seg, W, m + 1, 0)
<1> DEFINE b == W[m + 1]
           U == T \o seg
<1>1. b \in Bid
  OBVIOUS
<1>2. Text(b, 0, 1) \in Lines /\ Text(b, 1, 2) \in Lines
  BY <1>1, TextType
<1>3. seg \in Seq(Lines) /\ Len(seg) \in 1 .. 2 /\ seg[Len(seg)] = Text(b, 1, 2)
      /\ (Len(seg) = 2 => seg[1] = Text(b, 0, 1))
  <2> HIDE DEF b
  <2>1. CASE seg = << Text(b, 0, 1), Text(b, 1, 2) >>
    BY <1>2, <2>1
  <2>2. CASE seg = << Text(b, 1, 2) >>
    BY <1>2, <2>2
  <2> QED
    BY <2>1, <2>2 DEF b
<1>4. U \in Seq(Lines) /\ Len(U) = Len(T) + Len(seg)
      /\ (\A i \in 1 .. Len(T) : U[i] = T[i]) /\ U[Len(U)] = Text(b, 1, 2)
      /\ (Len(seg) = 2 => U[Len(U) - 1] = Text(b, 0, 1))
  <2> HIDE DEF b
  <2>1. U \in Seq(Lines)
    BY <1>3
  <2>2. Len(U) = Len(T) + Len(seg)
    BY <1>3
  <2>3. \A i \in 1 .. Len(T) : U[i] = T[i]
    BY <1>3
  <2>4. \A i \in 1 .. Len(seg) : U[Len(T) + i] = seg[i]
    BY <1>3
  <2>5. Len(seg) \in 1 .. Len(seg) /\ U[Len(T) + Len(seg)] = seg[Len(seg)]
    <3>1. Len(seg) \in 1 .. Len(seg)
      <4>1. \A l \in 1 .. 2 : l \in 1 .. l
        OBVIOUS
      <4> QED
        BY <1>3, <4>1, Zenon
    <3> HIDE DEF U
    <3> QED
      BY <2>4, <3>1
  <2>6. Len(seg) = 2 => U[Len(T) + 1] = seg[1] /\ Len(U) - 1 = Len(T) + 1
    BY <2>2, <2>4
  <2> HIDE DEF U
  <2> QED
    BY <1>3, <2>1, <2>2, <2>3, <2>5, <2>6
<1> HIDE DEF U, b
<1>5. PICK q \in [0 .. m -> 0 .. Len(T)] :
        /\ q[0] = 0 /\ q[m] = Len(T)
        /\ \A i \in 1 .. m :
              /\ q[i] = q[i - 1] + 1 \/ q[i] = q[i - 1] + 2
              /\ T[q[i]] = Text(W[i], 1, 2)
              /\ q[i] = q[i - 1] + 2 => T[q[i] - 1] = Text(W[i], 0, 1) /\ (i = 1 => 0 = 0)
  BY DEF Laid
<1> DEFINE r == [i \in 0 .. m + 1 |-> IF i = m + 1 THEN Len(U) ELSE q[i]]
<1>6. r \in [0 .. m + 1 -> 0 .. Len(U)] /\ r[0] = 0 /\ r[m + 1] = Len(U)
  BY <1>3, <1>4, <1>5
<1>7. ASSUME NEW i \in 1 .. m
      PROVE  /\ r[i] = r[i - 1] + 1 \/ r[i] = r[i - 1] + 2
             /\ U[r[i]] = Text(W[i], 1, 2)
             /\ r[i] = r[i - 1] + 2 => U[r[i] - 1] = Text(W[i], 0, 1)
  <2>1. r[i] = q[i] /\ r[i - 1] = q[i - 1] /\ i \in 0 .. m /\ i - 1 \in 0 .. m
    BY <1>7
  <2>2. q[i] \in 0 .. Len(T) /\ q[i - 1] \in 0 .. Len(T)
    BY <1>5, <2>1
  <2> HIDE DEF r
  <2>3. q[i] \in 1 .. Len(T) /\ (q[i] = q[i - 1] + 2 => q[i] - 1 \in 1 .. Len(T))
    BY <1>5, <2>2
  <2>4. U[q[i]] = T[q[i]] /\ (q[i] = q[i - 1] + 2 => U[q[i] - 1] = T[q[i] - 1])
    BY <1>4, <2>3
  <2> QED
    BY <1>5, <2>1, <2>4
<1>8. /\ r[m + 1] = r[m] + 1 \/ r[m + 1] = r[m] + 2
      /\ U[r[m + 1]] = Text(W[m + 1], 1, 2)
      /\ r[m + 1] = r[m] + 2 => U[r[m + 1] - 1] = Text(W[m + 1], 0, 1)
  <2>1. r[m + 1] = Len(U) /\ r[m] = Len(T)
    BY <1>5
  <2> HIDE DEF r
  <2> QED
    <3>1. r[m + 1] = r[m] + 1 \/ r[m + 1] = r[m] + 2
      BY <1>3, <1>4, <2>1
    <3>2. U[r[m + 1]] = Text(W[m + 1], 1, 2)
      BY <1>4, <2>1 DEF b
    <3>3. r[m + 1] = r[m] + 2 => Len(seg) = 2
      BY <1>3, <1>4, <2>1
    <3> QED
      BY <1>4, <2>1, <3>1, <3>2, <3>3 DEF b
<1>9. \A i \in 1 .. m + 1 :
         /\ r[i] = r[i - 1] + 1 \/ r[i] = r[i - 1] + 2
         /\ U[r[i]] = Text(W[i], 1, 2)
         /\ r[i] = r[i - 1] + 2 => U[r[i] - 1] = Text(W[i], 0, 1)
  <2> HIDE DEF r
  <2>1. \A i \in 1 .. m + 1 : i \in 1 .. m \/ i = m + 1
    OBVIOUS
  <2>2. m + 1 - 1 = m
    OBVIOUS
  <2> QED
    BY <1>7, <1>8, <2>1, <2>2
<1> HIDE DEF r
<1>10. Laid(U, W, m + 1, 0)
  BY <1>6, <1>9 DEF Laid
<1> QED
  BY <1>4, <1>10 DEF U

LEMMA FreshJoin ==
  ASSUME NEW T \in Seq(Lines), NEW U \in Seq(Lines)
  PROVE  FreshBids(T \o U) \subseteq FreshBids(T) \cup FreshBids(U)
<1> DEFINE V == T \o U
<1>1. /\ Len(V) = Len(T) + Len(U) /\ DOMAIN V = 1 .. Len(V)
      /\ \A i \in 1 .. Len(T) : V[i] = T[i]
      /\ \A i \in 1 .. Len(U) : V[Len(T) + i] = U[i]
  OBVIOUS
<1>2. Len(T) \in Nat /\ Len(U) \in Nat /\ DOMAIN T = 1 .. Len(T) /\ DOMAIN U = 1 .. Len(U)
  OBVIOUS
<1> HIDE DEF V
<1>3. ASSUME NEW i \in DOMAIN V
      PROVE  (\E j \in DOMAIN T : V[i] = T[j]) \/ (\E j \in DOMAIN U : V[i] = U[j])
  <2>1. CASE i \in 1 .. Len(T)
    BY <1>1, <1>2, <2>1
  <2>2. CASE i \notin 1 .. Len(T)
    <3>1. i - Len(T) \in 1 .. Len(U) /\ Len(T) + (i - Len(T)) = i
      BY <1>1, <1>2, <2>2
    <3> QED
      BY <1>1, <1>2, <3>1
  <2> QED
    BY <2>1, <2>2
<1>4. FreshBids(V) \subseteq FreshBids(T) \cup FreshBids(U)
  BY <1>3 DEF FreshBids
<1> QED
  BY <1>4 DEF V

LEMMA FreshParts ==
  ASSUME NEW b \in Bid
  PROVE  /\ FreshBids(<< >>) = {}
         /\ FreshBids(<< Text(b, 1, 2) >>) = {}
         /\ FreshBids(<< Text(b, 0, 1), Text(b, 1, 2) >>) \subseteq {b}
<1>1. FreshBids(<< >>) = {}
  BY DEF FreshBids
<1>2. FreshBids(<< Text(b, 1, 2) >>) = {}
  BY DEF FreshBids, Text
<1>3. FreshBids(<< Text(b, 0, 1), Text(b, 1, 2) >>) \subseteq {b}
  BY DEF FreshBids, Text
<1> QED
  BY <1>1, <1>2, <1>3

\* The texts sent for the answers to a block are those the partner waits for, and
\* only what was asked for from its start is sent from there.
LEMMA FlattenFollows ==
  ASSUME NEW a \in Seq(Answer), NEW bids \in Seq(Bid), NEW W \in Seq(Bid), NEW B,
         Replied(a, bids, W, B),
         NEW segs, segs \in Seq(Seq(Lines)), Len(segs) = Len(a),
         \A i \in DOMAIN a :
            segs[i] = CASE a[i] = "+" -> << Text(bids[i], 0, 1), Text(bids[i], 1, 2) >>
                        [] a[i] = "!" -> << Text(bids[i], 1, 2) >>
                        [] OTHER -> << >>
  PROVE  /\ FlattenSeq(segs) \in Seq(Lines) /\ Follows(FlattenSeq(segs), W, 0)
         /\ FreshBids(FlattenSeq(segs)) \subseteq Plus(a, bids)
<1> DEFINE n == Len(a)
<1>1. PICK g \in [0 .. n -> 0 .. Len(W)] :
          /\ g[0] = 0 /\ g[n] = Len(W)
          /\ \A i \in DOMAIN a :
                IF a[i] \in Wanted THEN g[i] = g[i - 1] + 1 /\ W[g[i]] = bids[i]
                ELSE g[i] = g[i - 1]
  BY DEF Replied, RepliedTo
<1>2. n \in Nat /\ Len(bids) = n
  BY DEF Replied, RepliedTo
<1>3. Laid(<< >>, W, 0, 0)
  <2> DEFINE q == [i \in 0 .. 0 |-> 0]
             T == << >>
  <2>1. q \in [0 .. 0 -> 0 .. Len(T)] /\ q[0] = 0 /\ Len(T) = 0 /\ 1 .. 0 = {}
    OBVIOUS
  <2> HIDE DEF q, T
  <2>2. Laid(T, W, 0, 0)
    BY <2>1 DEF Laid
  <2> QED
    BY <2>2 DEF T
<1>4. CASE n = 0
  <2>1. FlattenSeq(segs) = << >>
    BY <1>4 DEF FlattenSeq
  <2>2. Len(W) = 0
    BY <1>1, <1>4
  <2>3. << >> \in Seq(Lines) /\ 0 \in 0 .. 1
    OBVIOUS
  <2>4. FreshBids(<< >>) = {}
    BY DEF FreshBids
  <2> QED
    BY <1>3, <2>1, <2>2, <2>3, <2>4 DEF Follows
<1>5. CASE n # 0
  <2>1. PICK f : /\ f = [i \in 1 .. n |-> IF i = 1 THEN segs[i] ELSE f[i - 1] \o segs[i]]
                 /\ FlattenSeq(segs) = f[n]
    BY <1>2, <1>5, FlattenStep
  <2> DEFINE F(i) == IF i = 0 THEN << >> ELSE f[i]
  <2>2. \A i \in 1 .. n : segs[i] \in Seq(Lines)
    BY <1>2
  <2>3. \A i \in 1 .. n : F(i) = F(i - 1) \o segs[i]
    <3> SUFFICES ASSUME NEW i \in 1 .. n PROVE F(i) = F(i - 1) \o segs[i]
      OBVIOUS
    <3>1. f[i] = IF i = 1 THEN segs[i] ELSE f[i - 1] \o segs[i]
      BY <2>1, Zenon
    <3>2. << >> \o segs[i] = segs[i]
      BY <2>2
    <3>3. i # 0 /\ (i - 1 = 0 <=> i = 1)
      OBVIOUS
    <3> QED
      BY <3>1, <3>2, <3>3, Zenon
  <2> DEFINE I == {i \in Nat : i <= n => /\ F(i) \in Seq(Lines) /\ Laid(F(i), W, g[i], 0)
                                          /\ FreshBids(F(i)) \subseteq Plus(a, bids)}
  <2>4. 0 \in I
    <3>1. F(0) = << >> /\ g[0] = 0 /\ << >> \in Seq(Lines) /\ 0 \in Nat /\ FreshBids(<< >>) = {}
      BY <1>1 DEF FreshBids
    <3> HIDE DEF F
    <3> QED
      BY <1>3, <3>1
  <2>5. ASSUME NEW i \in I
        PROVE  i + 1 \in I
    <3> SUFFICES ASSUME i + 1 <= n
                 PROVE  /\ F(i + 1) \in Seq(Lines) /\ Laid(F(i + 1), W, g[i + 1], 0)
                        /\ FreshBids(F(i + 1)) \subseteq Plus(a, bids)
      OBVIOUS
    <3>1. i + 1 \in 1 .. n /\ i \in 0 .. n /\ i + 1 - 1 = i
      BY <1>2
    <3> HIDE DEF F
    <3>2. F(i + 1) = F(i) \o segs[i + 1]
      <4> DEFINE j == i + 1
      <4>1. j \in 1 .. n /\ j - 1 = i
        BY <3>1
      <4>2. F(j) = F(j - 1) \o segs[j]
        <5> HIDE DEF j
        <5> QED
          BY <2>3, <4>1
      <4> QED
        BY <4>1, <4>2
    <3>3. F(i) \in Seq(Lines) /\ Laid(F(i), W, g[i], 0) /\ FreshBids(F(i)) \subseteq Plus(a, bids)
      BY <3>1
    <3>4. i + 1 \in DOMAIN a /\ a[i + 1] \in Answer
      BY <1>2, <3>1
    <3>5. CASE a[i + 1] \in Wanted
      <4>1. g[i + 1] = g[i] + 1 /\ W[g[i + 1]] = bids[i + 1]
        <5> DEFINE j == i + 1
        <5>1. j \in DOMAIN a /\ j - 1 = i /\ a[j] \in Wanted
          BY <3>1, <3>4, <3>5
        <5>2. g[j] = g[j - 1] + 1 /\ W[g[j]] = bids[j]
          <6> HIDE DEF j
          <6> QED
            BY <1>1, <5>1
        <5> QED
          BY <5>1, <5>2
      <4>2. g[i] \in Nat /\ g[i] + 1 \in DOMAIN W /\ W[g[i] + 1] = bids[i + 1]
        BY <1>1, <3>1, <4>1
      <4>3. \/ segs[i + 1] = << Text(W[g[i] + 1], 0, 1), Text(W[g[i] + 1], 1, 2) >>
            \/ segs[i + 1] = << Text(W[g[i] + 1], 1, 2) >>
        BY <3>4, <3>5, <4>2 DEF Wanted
      <4>4. F(i + 1) \in Seq(Lines) /\ Laid(F(i + 1), W, g[i + 1], 0)
        <5> DEFINE c == F(i)
                   r == segs[i + 1]
                   v == g[i]
        <5>1. c \in Seq(Lines) /\ Laid(c, W, v, 0) /\ v \in Nat /\ v + 1 \in DOMAIN W
              /\ (r = << Text(W[v + 1], 0, 1), Text(W[v + 1], 1, 2) >> \/ r = << Text(W[v + 1], 1, 2) >>)
          BY <3>3, <4>2, <4>3
        <5>2. F(i + 1) = c \o r /\ g[i + 1] = v + 1
          BY <3>2, <4>1
        <5> HIDE DEF c, r, v, F
        <5>3. c \o r \in Seq(Lines) /\ Laid(c \o r, W, v + 1, 0)
          BY <5>1, LaidNext
        <5> QED
          BY <5>2, <5>3
      <4>5. FreshBids(segs[i + 1]) \subseteq Plus(a, bids)
        <5>1. bids[i + 1] \in Bid /\ (a[i + 1] = "+" => bids[i + 1] \in Plus(a, bids))
          BY <1>2, <3>1, <3>4 DEF Plus
        <5>2. CASE a[i + 1] = "+"
          BY <3>4, <5>1, <5>2, FreshParts
        <5>3. CASE a[i + 1] = "!"
          BY <3>4, <5>1, <5>3, FreshParts
        <5> QED
          BY <3>5, <5>2, <5>3 DEF Wanted
      <4>6. FreshBids(F(i + 1)) \subseteq Plus(a, bids)
        <5>1. i + 1 \in 1 .. n => segs[i + 1] \in Seq(Lines)
          BY <2>2
        <5> QED
          BY <3>1, <3>2, <3>3, <4>5, <5>1, FreshJoin
      <4> QED
        BY <4>4, <4>6
    <3>6. CASE a[i + 1] \notin Wanted
      <4> DEFINE j == i + 1
      <4>3. j \in DOMAIN a /\ j - 1 = i /\ a[j] \notin Wanted
        BY <3>1, <3>4, <3>6
      <4>4. g[j] = g[j - 1] /\ segs[j] = << >>
        <5> HIDE DEF j
        <5> QED
          BY <1>1, <4>3 DEF Wanted
      <4>1. segs[i + 1] = << >> /\ g[i + 1] = g[i]
        BY <4>3, <4>4
      <4>2. F(i + 1) = F(i)
        BY <3>2, <3>3, <4>1
      <4> QED
        BY <3>3, <4>1, <4>2
    <3> QED
      BY <3>5, <3>6
  <2> HIDE DEF I
  <2>6. n \in I
    BY <1>2, <2>4, <2>5, NatInductionOnSet DEF I
  <2>7. F(n) = FlattenSeq(segs) /\ g[n] = Len(W)
    BY <1>1, <1>5, <2>1
  <2> HIDE DEF F
  <2>8. /\ FlattenSeq(segs) \in Seq(Lines) /\ Laid(FlattenSeq(segs), W, Len(W), 0)
        /\ FreshBids(FlattenSeq(segs)) \subseteq Plus(a, bids)
    BY <1>2, <2>6, <2>7 DEF I
  <2> QED
    BY <2>8 DEF Follows
<1> QED
  BY <1>4, <1>5

-----------------------------------------------------------------------------
(* What a handler does to the messages and the other sessions.             *)

Grown(s, t) ==
    /\ Len(s.msg) <= Len(t.msg)
    /\ \A i \in DOMAIN s.msg : t.msg[i].bid = s.msg[i].bid /\ t.msg[i].restarted = s.msg[i].restarted

\* Session k is marked with a message only when that is among B.
Moved(s, t, k, B) ==
    /\ t.me = s.me /\ Grown(s, t) /\ s.temp \subseteq t.temp
    /\ \A i \in DOMAIN t.msg : \A p \in t.msg[i].forw :
          \/ i \in DOMAIN s.msg /\ p \in s.msg[i].forw
          \/ p = s.session[k].user /\ t.msg[i].bid \in B
    /\ \A j \in Conn \ {k} : t.session[j] = s.session[j] /\ t.out[j] = s.out[j]
    /\ t.session[k].user = s.session[k].user /\ t.session[k].Active = s.session[k].Active
    /\ t.shut = s.shut \/ t.shut = s.shut \cup {k}

Does(s, t, k, B) == Good(t) /\ Moved(s, t, k, B) /\ Len(t.msg) = Len(s.msg)

LEMMA GrownTransitive ==
  ASSUME NEW s \in State, NEW t \in State, NEW u \in State, Grown(s, t), Grown(t, u)
  PROVE  Grown(s, u)
<1>1. Len(s.msg) \in Nat /\ Len(t.msg) \in Nat /\ Len(u.msg) \in Nat
      /\ DOMAIN s.msg = 1 .. Len(s.msg) /\ DOMAIN t.msg = 1 .. Len(t.msg)
  BY DEF State
<1>2. DOMAIN s.msg \subseteq DOMAIN t.msg
  BY <1>1 DEF Grown
<1> QED
  BY <1>1, <1>2 DEF Grown

LEMMA MovedTransitive ==
  ASSUME NEW s \in State, NEW t \in State, NEW u \in State, NEW k, NEW B,
         Moved(s, t, k, B), Moved(t, u, k, B)
  PROVE  Moved(s, u, k, B)
<1>1. Grown(s, u)
  BY GrownTransitive DEF Moved
<1>2. ASSUME NEW i \in DOMAIN u.msg, NEW p \in u.msg[i].forw
      PROVE  \/ i \in DOMAIN s.msg /\ p \in s.msg[i].forw
             \/ p = s.session[k].user /\ u.msg[i].bid \in B
  BY DEF Moved, Grown
<1> QED
  BY <1>1, <1>2 DEF Moved

LEMMA GrownBids ==
  ASSUME NEW s \in State, NEW t \in State, Grown(s, t)
  PROVE  /\ DOMAIN s.msg \subseteq DOMAIN t.msg
         /\ Bids(s) \subseteq Bids(t)
<1>1. DOMAIN s.msg = 1 .. Len(s.msg) /\ DOMAIN t.msg = 1 .. Len(t.msg)
      /\ Len(s.msg) \in Nat /\ Len(t.msg) \in Nat
  BY DEF State
<1>2. DOMAIN s.msg \subseteq DOMAIN t.msg
  BY <1>1 DEF Grown
<1> QED
  BY <1>2 DEF Bids, Grown

\* What has been offered, answered or delivered stays so.
LEMMA OfferedKept ==
  ASSUME NEW s \in State, NEW t \in State, Grown(s, t), NEW e,
         ToSet(e.hdr) \subseteq DOMAIN s.msg
  PROVE  Offered(t, e) = Offered(s, e) /\ ToSet(e.hdr) \subseteq DOMAIN t.msg
<1>1. \A i \in DOMAIN e.hdr : e.hdr[i] \in DOMAIN s.msg
  BY DEF ToSet
<1> QED
  BY <1>1, GrownBids DEF Offered, Grown

LEMMA DeliveredKept ==
  ASSUME NEW s \in State, NEW t \in State, Grown(s, t), NEW e, NEW B, NEW C, B \subseteq C,
         Delivered(s, e, B)
  PROVE  Delivered(t, e, C)
  BY GrownBids DEF Delivered, Grown

LEMMA RepliedKept ==
  ASSUME NEW a, NEW bids, NEW W, NEW B, NEW C, B \subseteq C, Replied(a, bids, W, B)
  PROVE  Replied(a, bids, W, C)
<1>1. \A i \in DOMAIN a : a[i] = "-" => bids[i] \in C
  BY DEF Replied, RepliedTo
<1> QED
  BY <1>1, Zenon DEF Replied, RepliedTo

LEMMA PhaseKept ==
  ASSUME NEW k \in Conn, NEW x \in State, NEW y \in State, NEW u \in State, NEW v \in State,
         Grown(x, u), Grown(y, v), u.session[k] = x.session[k], v.session[k] = y.session[k],
         NEW wx, NEW wy, Phase(k, x, y, wx, wy)
  PROVE  Phase(k, u, v, wx, wy)
<1>1. Bids(x) \subseteq Bids(u) /\ Bids(y) \subseteq Bids(v)
  BY GrownBids
<1>2. ASSUME Offer(x, x.session[k], wy[Len(wy)])
      PROVE  Offer(u, u.session[k], wy[Len(wy)])
  BY <1>2, OfferedKept DEF Offer
<1>3. ASSUME Offer(y, y.session[k], wx[2])
      PROVE  Offer(v, v.session[k], wx[2])
  BY <1>3, OfferedKept DEF Offer
<1>4. CASE Turn(k, x, y, wx, wy)
  <2>1. Delivered(v, v.session[k], Bids(u))
    BY <1>1, <1>4, DeliveredKept DEF Turn
  <2> QED
    BY <1>2, <1>4, <2>1 DEF Turn, Phase
<1>5. CASE Answered(k, x, y, wx, wy)
  <2>1. Offered(u, u.session[k]) = Offered(x, x.session[k])
        /\ ToSet(u.session[k].hdr) \subseteq DOMAIN u.msg
    BY <1>5, OfferedKept DEF Answered
  <2>2. Replied(wx[1].answers, Offered(u, u.session[k]), v.session[k].want, Bids(v))
    <3>1. Replied(wx[1].answers, Offered(x, x.session[k]), y.session[k].want, Bids(y))
      BY <1>5 DEF Answered
    <3> QED
      BY <1>1, <2>1, <3>1, RepliedKept
  <2> QED
    BY <1>3, <1>5, <2>1, <2>2 DEF Answered, Phase
<1>6. CASE Sending(k, x, y, wx, wy)
  <2>1. Delivered(u, u.session[k], Bids(v) \cup ToSet(v.session[k].want))
    <3>1. Bids(y) \cup ToSet(y.session[k].want) \subseteq Bids(v) \cup ToSet(v.session[k].want)
      BY <1>1
    <3> QED
      BY <1>6, <3>1, DeliveredKept DEF Sending
  <2> QED
    BY <1>6, <2>1 DEF Sending, Phase
<1> QED
  BY <1>4, <1>5, <1>6 DEF Phase

-----------------------------------------------------------------------------
(* The simple steps.                                                       *)

\* A change of the session, of what is sent and of marks, with the same messages.
LEMMA SendDoes ==
  ASSUME NEW s, Good(s), NEW k \in Conn, NEW l \in Lines, NEW B
  PROVE  /\ Does(s, Send(s, k, l), k, B)
         /\ Send(s, k, l).out[k] = Append(s.out[k], l)
         /\ Send(s, k, l).session = s.session /\ Send(s, k, l).msg = s.msg
         /\ Send(s, k, l).shut = s.shut
<1> DEFINE t == Send(s, k, l)
<1>1. s \in State
  BY DEF Good
<1>2. t.msg = s.msg /\ t.session = s.session /\ t.me = s.me /\ t.saved = s.saved /\ t.shut = s.shut
      /\ t.temp = s.temp /\ t.out = [s.out EXCEPT ![k] = Append(@, l)]
  BY <1>1 DEF Send, State
<1>3. t \in State
  <2>1. Append(s.out[k], l) \in Seq(Lines)
    BY <1>1 DEF State
  <2>2. [s.out EXCEPT ![k] = Append(@, l)] \in [Conn -> Seq(Lines)]
    BY <1>1, <2>1 DEF State
  <2> QED
    BY <1>1, <2>2 DEF Send, State
<1>4. Good(t)
  BY <1>2, <1>3 DEF Good, Kept, Fits
<1>5. Moved(s, t, k, B)
  <2>1. \A j \in Conn \ {k} : t.out[j] = s.out[j]
    BY <1>1, <1>2 DEF State
  <2>2. Len(s.msg) <= Len(s.msg)
    BY <1>1 DEF State
  <2> HIDE DEF t
  <2> QED
    BY <1>2, <2>1, <2>2 DEF Moved, Grown
<1>6. t.out[k] = Append(s.out[k], l)
  BY <1>1, <1>2 DEF State
<1> QED
  BY <1>2, <1>4, <1>5, <1>6 DEF Does

LEMMA DisconnectDoes ==
  ASSUME NEW s, Good(s), NEW k \in Conn, NEW B
  PROVE  /\ Does(s, Disconnect(s, k), k, B)
         /\ k \in Disconnect(s, k).shut
<1> DEFINE t == Disconnect(s, k)
<1>1. s \in State
  BY DEF Good
<1>2. t.msg = s.msg /\ t.session = s.session /\ t.me = s.me /\ t.saved = s.saved /\ t.out = s.out
      /\ t.temp = s.temp /\ t.shut = s.shut \cup {k}
  BY <1>1 DEF Disconnect, State
<1>3. t \in State
  BY <1>1 DEF Disconnect, State
<1>4. Good(t)
  BY <1>2, <1>3 DEF Good, Kept, Fits
<1>5. Moved(s, t, k, B)
  <2>2. Len(s.msg) <= Len(s.msg)
    BY <1>1 DEF State
  <2> HIDE DEF t
  <2> QED
    BY <1>2, <2>2 DEF Moved, Grown
<1> QED
  BY <1>2, <1>4, <1>5 DEF Does

\* A step that changes a session and what is noted of the messages.
LEMMA AlterDoes ==
  ASSUME NEW s, Good(s), NEW t \in State, NEW k \in Conn, NEW B,
         t.me = s.me, t.saved = s.saved, t.shut = s.shut, s.temp \subseteq t.temp,
         Len(t.msg) = Len(s.msg),
         \A i \in DOMAIN s.msg : /\ t.msg[i].bid = s.msg[i].bid
                                 /\ t.msg[i].restarted = s.msg[i].restarted
                                 /\ s.msg[i].forw \subseteq t.msg[i].forw
                                 /\ \A p \in t.msg[i].forw :
                                       \/ p \in s.msg[i].forw
                                       \/ p = s.session[k].user /\ t.msg[i].bid \in B,
         \A j \in Conn \ {k} : t.session[j] = s.session[j] /\ t.out[j] = s.out[j],
         t.session[k].user = s.session[k].user, t.session[k].Active = s.session[k].Active,
         Fits(t, t.session[k])
  PROVE  Does(s, t, k, B)
<1>1. DOMAIN t.msg = DOMAIN s.msg /\ Len(s.msg) \in Nat
  BY DEF State, Good
<1>2. Kept(t)
  BY <1>1 DEF Kept, Good
<1>3. \A j \in Conn : Fits(t, t.session[j])
  <2>1. \A j \in Conn \ {k} : Fits(t, t.session[j])
    BY DEF Good, Fits
  <2> QED
    BY <2>1
<1>4. Moved(s, t, k, B)
  BY <1>1 DEF Moved, Grown
<1> QED
  BY <1>2, <1>3, <1>4 DEF Does, Good

LEMMA ReadyFits ==
  ASSUME NEW s \in State, NEW k \in Conn, NEW type
  PROVE  /\ Ready(s, k, type) \subseteq DOMAIN s.msg /\ Ready(s, k, type) \in SUBSET Nat
         /\ IsFiniteSet(Ready(s, k, type)) /\ Cardinality(Ready(s, k, type)) <= MaxBlock
<1> DEFINE all == {m \in Queued(s, k, type) : s.msg[m].Defered = 0}
           R == Ready(s, k, type)
           Before(m) == {j \in all : j < m}
<1>1. DOMAIN s.msg = 1 .. Len(s.msg) /\ Len(s.msg) \in Nat
  BY DEF State
<1>2. all \subseteq 1 .. Len(s.msg)
  BY <1>1 DEF Queued, For
<1>3. R = {m \in all : Cardinality(Before(m)) < MaxBlock}
  BY DEF Ready
<1> HIDE DEF all, R
<1>4. IsFiniteSet(all) /\ IsFiniteSet(R) /\ R \subseteq all
  <2>1. IsFiniteSet(1 .. Len(s.msg))
    BY <1>1, FS_Interval
  <2> QED
    BY <1>2, <1>3, <2>1, FS_Subset
<1>5. Cardinality(R) <= MaxBlock
  <2>1. CASE R = {}
    BY <2>1, FS_EmptySet, BlockAssumption
  <2>2. CASE R # {}
    <3>1. Max(R) \in R /\ \A i \in R : Max(R) >= i
      BY <1>1, <1>2, <1>4, <2>2, LargestExists
    <3> DEFINE M == Max(R)
               T == Before(M) \cup {M}
    <3> HIDE DEF M
    <3>2. R \subseteq T
      <4> SUFFICES ASSUME NEW i \in R PROVE i \in T
        OBVIOUS
      <4>1. M >= i /\ M \in R
        BY <3>1, Zenon DEF M
      <4>2. i \in all /\ i \in 1 .. Len(s.msg) /\ M \in 1 .. Len(s.msg)
        BY <1>2, <1>4, <4>1
      <4> QED
        BY <1>1, <4>1, <4>2
    <3>3. IsFiniteSet(Before(M)) /\ Cardinality(Before(M)) < MaxBlock /\ M \notin Before(M)
      <4>1. Before(M) \subseteq all
        OBVIOUS
      <4>3. M \in R
        BY <3>1, Zenon DEF M
      <4>2. M \in R /\ M \in Nat
        BY <1>1, <1>2, <1>4, <4>3
      <4> QED
        BY <1>3, <1>4, <4>1, <4>2, FS_Subset
    <3>4. IsFiniteSet(T) /\ Cardinality(T) = Cardinality(Before(M)) + 1
      BY <3>3, FS_AddElement
    <3>5. Cardinality(R) <= Cardinality(T) /\ Cardinality(R) \in Nat /\ Cardinality(Before(M)) \in Nat
      BY <1>4, <3>2, <3>3, <3>4, FS_Subset, FS_CardinalityType
    <3> QED
      BY <3>3, <3>4, <3>5, BlockAssumption
  <2> QED
    BY <2>1, <2>2
<1>6. R \in SUBSET Nat /\ R \subseteq DOMAIN s.msg
  BY <1>1, <1>2, <1>4
<1> QED
  BY <1>4, <1>5, <1>6 DEF R

\* A block is made of messages there are, no more than MaxBlock of them.
LEMMA FindLoopDoes ==
  ASSUME NEW s, Good(s), NEW k \in Conn, NEW type \in {"P", "B"}, NEW B
  PROVE  LET t == FindMessagestoForwardLoop(s, k, type)
             e == s.session[k]
             f == t.session[k]
         IN  /\ Does(s, t, k, B) /\ t.out = s.out /\ t.shut = s.shut
             /\ ToSet(f.hdr) \subseteq DOMAIN t.msg
             /\ f.FBBMsgsSent = e.FBBMsgsSent /\ f.want = e.want /\ f.length = e.length
<1> DEFINE block == Ready(s, k, type)
           last == IF Cardinality(block) = MaxBlock THEN Max(block) ELSE Len(s.msg)
           past == {m \in Queued(s, k, type) : s.msg[m].Defered # 0 /\ m <= last}
           msg == [m \in DOMAIN s.msg |->
                     IF m \in past THEN PassOver(s.msg[m]) ELSE s.msg[m]]
           e == s.session[k]
           f == IF block = {} THEN [e EXCEPT !.hdr = << >>]
                ELSE [e EXCEPT !.hdr = Ascending(block), !.LastForwardType = type,
                               !.NextMessagetoForward = Max(block) + 1]
           t == FindMessagestoForwardLoop(s, k, type)
<1>1. s \in State /\ e \in Sessions /\ Len(s.msg) \in Nat /\ DOMAIN s.msg = 1 .. Len(s.msg)
  BY DEF Good, State
<1>2. /\ block \subseteq DOMAIN s.msg /\ block \in SUBSET Nat
      /\ IsFiniteSet(block) /\ Cardinality(block) <= MaxBlock
  BY <1>1, ReadyFits
<1>3. msg \in Seq(Message) /\ Len(msg) = Len(s.msg)
      /\ \A i \in DOMAIN s.msg : /\ msg[i].bid = s.msg[i].bid /\ msg[i].forw = s.msg[i].forw
                                 /\ msg[i].restarted = s.msg[i].restarted
  <2>1. past \subseteq {m \in DOMAIN s.msg : s.msg[m].Defered # 0}
    BY DEF Queued, For
  <2> HIDE DEF past
  <2>2. \A m \in DOMAIN s.msg : s.msg[m] \in Message
    BY <1>1 DEF State
  <2>3. \A m \in DOMAIN s.msg : msg[m] \in Message
    <3>1. ASSUME NEW m \in DOMAIN s.msg, s.msg[m].Defered # 0
          PROVE  PassOver(s.msg[m]) \in Message
      <4>1. s.msg[m] \in Message
        BY <2>2
      <4>2. s.msg[m].Defered - 1 \in 0 .. DeferCycles
        <5>1. s.msg[m].Defered \in 0 .. DeferCycles /\ DeferCycles \in Nat
          BY <4>1, BlockAssumption DEF Message
        <5> QED
          BY <3>1, <5>1
      <4> QED
        BY <4>1, <4>2 DEF Message, PassOver
    <3> QED
      BY <2>1, <2>2, <3>1
  <2>4. \A i \in DOMAIN s.msg : /\ msg[i].bid = s.msg[i].bid /\ msg[i].forw = s.msg[i].forw
                                /\ msg[i].restarted = s.msg[i].restarted
    BY <2>2 DEF Message, PassOver
  <2>5. DOMAIN msg = 1 .. Len(s.msg)
    BY <1>1
  <2> HIDE DEF msg
  <2>6. msg \in [1 .. Len(s.msg) -> Message]
    <3>1. msg = [m \in 1 .. Len(s.msg) |-> msg[m]]
      BY <1>1 DEF msg
    <3> QED
      BY <1>1, <2>3, <3>1
  <2> QED
    BY <1>1, <2>4, <2>6
<1>4. Ascending(block) \in Seq(block) /\ Len(Ascending(block)) = Cardinality(block)
  BY <1>2, AscendingType
<1>5. block # {} => Max(block) \in block
  BY <1>1, <1>2, LargestExists
<1>6. t = [s EXCEPT !.msg = msg, !.session[k] = f]
  BY Zenon DEF FindMessagestoForwardLoop
<1> HIDE DEF block, msg, t
<1>7. f \in Sessions
  <2>1. Ascending(block) \in Seq(Nat) /\ << >> \in Seq(Nat)
    BY <1>2, <1>4
  <2>2. block # {} => Max(block) + 1 \in Nat \ {0}
    BY <1>2, <1>5
  <2> QED
    BY <1>1, <2>1, <2>2 DEF Sessions
<1>8. /\ f.user = e.user /\ f.Active = e.Active /\ f.FBBMsgsSent = e.FBBMsgsSent
      /\ f.want = e.want /\ f.length = e.length
      /\ IF block = {} THEN f.hdr = << >> /\ f.NextMessagetoForward = e.NextMessagetoForward
         ELSE f.hdr = Ascending(block) /\ f.NextMessagetoForward = Max(block) + 1
  BY <1>1 DEF Sessions
<1> HIDE DEF f
<1>9. t \in State /\ t.msg = msg /\ t.session = [s.session EXCEPT ![k] = f] /\ t.me = s.me
      /\ t.saved = s.saved /\ t.shut = s.shut /\ t.out = s.out /\ t.temp = s.temp
  BY <1>1, <1>3, <1>6, <1>7 DEF State
<1>10. t.session[k] = f /\ \A j \in Conn \ {k} : t.session[j] = s.session[j]
  BY <1>1, <1>9 DEF State
<1>11. Fits(t, f)
  <2>1. Fits(s, e)
    BY DEF Good
  <2>2. block # {} => Max(block) \in 1 .. Len(s.msg)
    BY <1>1, <1>2, <1>5
  <2>3. f.NextMessagetoForward <= Len(t.msg) + 1
    BY <1>1, <1>3, <1>8, <1>9, <2>1, <2>2 DEF Fits
  <2>4. Len(f.hdr) <= MaxBlock
    BY <1>2, <1>4, <1>8, BlockAssumption
  <2> QED
    BY <1>8, <2>1, <2>3, <2>4 DEF Fits
<1>12. Does(s, t, k, B)
  BY <1>3, <1>8, <1>9, <1>10, <1>11, AlterDoes
<1>13. ToSet(f.hdr) \subseteq DOMAIN t.msg
  <2>1. DOMAIN t.msg = DOMAIN s.msg
    BY <1>1, <1>3, <1>9 DEF State
  <2>2. ToSet(f.hdr) \subseteq block
    BY <1>4, <1>8 DEF ToSet
  <2> QED
    BY <1>2, <2>1, <2>2
<1> QED
  BY <1>8, <1>9, <1>10, <1>12, <1>13 DEF t

\* What there is to send, as the choice of a block leaves it.
Chosen(s, t, k, B) ==
    /\ Does(s, t, k, B) /\ t.out = s.out /\ t.shut = s.shut
    /\ ToSet(t.session[k].hdr) \subseteq DOMAIN t.msg
    /\ t.session[k].FBBMsgsSent = s.session[k].FBBMsgsSent
    /\ t.session[k].want = s.session[k].want /\ t.session[k].length = s.session[k].length

LEMMA FindDoes ==
  ASSUME NEW s, Good(s), NEW k \in Conn, NEW B
  PROVE  Chosen(s, FindMessagestoForward(s, k), k, B)
<1> DEFINE p == FindMessagestoForwardLoop(s, k, "P")
           r == [p EXCEPT !.session[k].NextMessagetoForward =
                            IF p.session[k].LastForwardType = "P" THEN 1 ELSE @]
           b == FindMessagestoForwardLoop(r, k, "B")
           c == [b EXCEPT !.session[k].LastForwardType = ""]
<1>1. Chosen(s, p, k, B)
  BY FindLoopDoes DEF Chosen
<1> HIDE DEF p
<1>2. Does(p, r, k, B) /\ r.out = p.out /\ r.shut = p.shut
      /\ r.session[k].FBBMsgsSent = p.session[k].FBBMsgsSent
      /\ r.session[k].want = p.session[k].want /\ r.session[k].length = p.session[k].length
  <2> DEFINE next == IF p.session[k].LastForwardType = "P" THEN 1 ELSE p.session[k].NextMessagetoForward
             f == [p.session[k] EXCEPT !.NextMessagetoForward = next]
  <2>1. p \in State /\ p.session[k] \in Sessions /\ Good(p) /\ Len(p.msg) \in Nat
    BY <1>1 DEF Chosen, Does, Good, State
  <2>2. next \in Nat \ {0} /\ next <= Len(p.msg) + 1
    <3>1. p.session[k].NextMessagetoForward \in Nat \ {0}
      BY <2>1 DEF Sessions
    <3>2. p.session[k].NextMessagetoForward <= Len(p.msg) + 1
      BY <2>1 DEF Good, Fits
    <3> QED
      BY <2>1, <3>1, <3>2
  <2> HIDE DEF next
  <2>3. f \in Sessions /\ f.user = p.session[k].user /\ f.Active = p.session[k].Active
        /\ f.FBBMsgsSent = p.session[k].FBBMsgsSent /\ f.want = p.session[k].want
        /\ f.length = p.session[k].length /\ f.hdr = p.session[k].hdr
        /\ f.NextMessagetoForward = next
    BY <2>1, <2>2 DEF Sessions
  <2>4. r = [p EXCEPT !.session = [p.session EXCEPT ![k] = f]]
    BY <2>1 DEF State, next
  <2> HIDE DEF f, r
  <2>5. r \in State /\ r.msg = p.msg /\ r.session = [p.session EXCEPT ![k] = f] /\ r.me = p.me
        /\ r.saved = p.saved /\ r.temp = p.temp /\ r.shut = p.shut /\ r.out = p.out
    BY <2>1, <2>3, <2>4 DEF State
  <2>6. r.session[k] = f /\ \A j \in Conn \ {k} : r.session[j] = p.session[j]
    BY <2>1, <2>5 DEF State
  <2>7. Fits(r, f)
    BY <2>1, <2>2, <2>3, <2>5 DEF Good, Fits
  <2>8. Does(p, r, k, B)
    BY <2>1, <2>3, <2>5, <2>6, <2>7, AlterDoes
  <2> QED
    BY <2>3, <2>5, <2>6, <2>8
<1> HIDE DEF r
<1>3. Chosen(r, b, k, B)
  BY <1>2, FindLoopDoes DEF Chosen, Does
<1> HIDE DEF b
<1>4. Does(b, c, k, B) /\ c.out = b.out /\ c.shut = b.shut /\ c.msg = b.msg
      /\ c.session[k].hdr = b.session[k].hdr /\ c.session[k].FBBMsgsSent = b.session[k].FBBMsgsSent
      /\ c.session[k].want = b.session[k].want /\ c.session[k].length = b.session[k].length
  <2> DEFINE f == [b.session[k] EXCEPT !.LastForwardType = ""]
  <2>1. b \in State /\ b.session[k] \in Sessions /\ Good(b)
    BY <1>3 DEF Chosen, Does, Good, State
  <2>3. f \in Sessions /\ f.user = b.session[k].user /\ f.Active = b.session[k].Active
        /\ f.FBBMsgsSent = b.session[k].FBBMsgsSent /\ f.want = b.session[k].want
        /\ f.length = b.session[k].length /\ f.hdr = b.session[k].hdr
        /\ f.NextMessagetoForward = b.session[k].NextMessagetoForward
    BY <2>1 DEF Sessions
  <2>4. c = [b EXCEPT !.session = [b.session EXCEPT ![k] = f]]
    BY <2>1 DEF State
  <2> HIDE DEF f, c
  <2>5. c \in State /\ c.msg = b.msg /\ c.session = [b.session EXCEPT ![k] = f] /\ c.me = b.me
        /\ c.saved = b.saved /\ c.temp = b.temp /\ c.shut = b.shut /\ c.out = b.out
    BY <2>1, <2>3, <2>4 DEF State
  <2>6. c.session[k] = f /\ \A j \in Conn \ {k} : c.session[j] = b.session[j]
    BY <2>1, <2>5 DEF State
  <2>7. Fits(c, f)
    BY <2>1, <2>3, <2>5 DEF Good, Fits
  <2>8. Does(b, c, k, B)
    BY <2>1, <2>3, <2>5, <2>6, <2>7, AlterDoes
  <2> QED
    BY <2>3, <2>5, <2>6, <2>8
<1> HIDE DEF c
<1>5. FindMessagestoForward(s, k) \in {p, b, c}
  BY Zenon DEF FindMessagestoForward, p, r, b, c
<1>6. Does(s, r, k, B)
  BY <1>1, <1>2, MovedTransitive DEF Does, Chosen, Good
<1>7. Chosen(s, b, k, B)
  <2>1. Does(s, b, k, B)
    BY <1>3, <1>6, MovedTransitive DEF Does, Chosen, Good
  <2> QED
    BY <1>1, <1>2, <1>3, <2>1 DEF Chosen
<1>8. Chosen(s, c, k, B)
  <2>1. Does(s, c, k, B)
    BY <1>4, <1>7, MovedTransitive DEF Does, Chosen, Good
  <2> QED
    BY <1>4, <1>7, <2>1 DEF Chosen
<1> QED
  BY <1>1, <1>5, <1>7, <1>8

\* A block of proposals or another line, and the headers of what is proposed.
LEMMA DoForwardDoes ==
  ASSUME NEW s, Good(s), NEW k \in Conn, NEW other \in {"FF", "FQ"}, NEW B, Idle(s.session[k])
  PROVE  LET t == FBBDoForward(s, k, other)
         IN  /\ Does(s, t, k, B) /\ t.shut = s.shut
             /\ \E l \in Lines : t.out[k] = Append(s.out[k], l) /\ Offer(t, t.session[k], l)
<1> DEFINE f == FindMessagestoForward(s, k)
           h == f.session[k].hdr
           l == IF h = << >> THEN Line(other)
                ELSE [kind |-> "FA", bids |-> [i \in DOMAIN h |-> f.msg[h[i]].bid]]
           t == FBBDoForward(s, k, other)
<1>1. Chosen(s, f, k, B)
  BY FindDoes
<1>2. t = Send(f, k, l)
  BY Zenon DEF FBBDoForward
<1> HIDE DEF f, t
<1>3. Good(f) /\ f \in State /\ s \in State /\ f.session[k] \in Sessions /\ ToSet(h) \subseteq DOMAIN f.msg
      /\ f.shut = s.shut /\ f.out = s.out
  BY <1>1 DEF Chosen, Does, Good, State
<1>4. l \in Lines
  <2>1. CASE h = << >>
    BY <2>1 DEF Line, Lines
  <2>2. CASE h # << >>
    <3> DEFINE bids == [i \in DOMAIN h |-> f.msg[h[i]].bid]
    <3>1. h \in Seq(Nat) /\ f.msg \in Seq(Message)
      BY <1>3 DEF State, Sessions
    <3>2. \A i \in DOMAIN h : h[i] \in DOMAIN f.msg
      BY <1>3 DEF ToSet
    <3>3. \A i \in DOMAIN h : f.msg[h[i]].bid \in Bid
      <4>1. \A i \in DOMAIN f.msg : f.msg[i] \in Message
        BY <3>1
      <4>2. \A i \in DOMAIN f.msg : f.msg[i].bid \in Bid
        BY <4>1 DEF Message
      <4> HIDE DEF h
      <4> QED
        BY <3>2, <4>2
    <3>4. bids \in Seq(Bid)
      <4>1. DOMAIN h = 1 .. Len(h) /\ Len(h) \in Nat
        BY <3>1
      <4> HIDE DEF h
      <4> QED
        BY <3>3, <4>1
    <3> HIDE DEF bids
    <3>5. [kind |-> "FA", bids |-> bids] \in Lines
      BY <3>4 DEF Lines
    <3>6. l = [kind |-> "FA", bids |-> bids]
      BY <2>2 DEF bids
    <3> QED
      BY <3>5, <3>6
  <2> QED
    BY <2>1, <2>2
<1> HIDE DEF l
<1>5. Does(f, t, k, B) /\ t.out[k] = Append(f.out[k], l) /\ t.session = f.session /\ t.msg = f.msg
      /\ t.shut = f.shut
  BY <1>2, <1>3, <1>4, SendDoes
<1>6. Does(s, t, k, B)
  BY <1>1, <1>3, <1>5, MovedTransitive DEF Does, Chosen, Good
<1>7. Offer(t, t.session[k], l)
  <2>1. Idle(t.session[k])
    BY <1>1, <1>5 DEF Chosen, Idle, Waiting
  <2>2. l.kind \in {"FA", "FF", "FQ"} /\ (l.kind = "FA" => l.bids = [i \in DOMAIN h |-> f.msg[h[i]].bid])
    BY DEF l, Line
  <2> QED
    BY <1>3, <1>5, <2>1, <2>2 DEF Offer, Offered
<1> QED
  BY <1>3, <1>4, <1>5, <1>6, <1>7 DEF t

\* Messages are marked with the partner of a session, which has them.
LEMMA FlagAllDoes ==
  ASSUME NEW s, Good(s), NEW k \in Conn, s.session[k].user \in BBS, NEW B,
         NEW H, \A m \in H : m \in DOMAIN s.msg => s.msg[m].bid \in B
  PROVE  LET t == FlagAll(s, k, H)
         IN  /\ Does(s, t, k, B) /\ t.out = s.out /\ t.shut = s.shut /\ t.session = s.session
             /\ \A i \in DOMAIN s.msg : t.msg[i].bid = s.msg[i].bid
             /\ Len(t.msg) = Len(s.msg) /\ DOMAIN t.msg = DOMAIN s.msg
<1> DEFINE p == s.session[k].user
           t == FlagAll(s, k, H)
           msg == [m \in DOMAIN s.msg |-> IF m \in H THEN Forwarded(s.msg[m], p) ELSE s.msg[m]]
<1>1. s \in State /\ DOMAIN s.msg = 1 .. Len(s.msg) /\ Len(s.msg) \in Nat
      /\ \A m \in DOMAIN s.msg : s.msg[m] \in Message
  BY DEF Good, State
<1>2. \A m \in DOMAIN s.msg :
         LET f == Forwarded(s.msg[m], p)
         IN  f \in Message /\ f.bid = s.msg[m].bid /\ f.restarted = s.msg[m].restarted
             /\ f.forw = s.msg[m].forw \cup {p}
  BY <1>1 DEF Message, Forwarded
<1>3. msg \in Seq(Message) /\ Len(msg) = Len(s.msg) /\ DOMAIN msg = DOMAIN s.msg
  <2>1. \A m \in DOMAIN s.msg : (IF m \in H THEN Forwarded(s.msg[m], p) ELSE s.msg[m]) \in Message
    BY <1>1, <1>2
  <2>2. msg \in [1 .. Len(s.msg) -> Message]
    BY <1>1, <2>1
  <2> HIDE DEF msg
  <2> QED
    BY <1>1, <2>2
<1>4. \A i \in DOMAIN s.msg : /\ msg[i].bid = s.msg[i].bid /\ msg[i].restarted = s.msg[i].restarted
                              /\ s.msg[i].forw \subseteq msg[i].forw
                              /\ \A q \in msg[i].forw : q \in s.msg[i].forw \/ (q = p /\ msg[i].bid \in B)
  <2> SUFFICES ASSUME NEW i \in DOMAIN s.msg
               PROVE  /\ msg[i].bid = s.msg[i].bid /\ msg[i].restarted = s.msg[i].restarted
                      /\ s.msg[i].forw \subseteq msg[i].forw
                      /\ \A q \in msg[i].forw : q \in s.msg[i].forw \/ (q = p /\ msg[i].bid \in B)
    OBVIOUS
  <2>1. CASE i \in H
    <3>1. msg[i] = Forwarded(s.msg[i], p)
      BY <2>1
    <3> HIDE DEF msg
    <3> QED
      BY <1>2, <2>1, <3>1
  <2>2. CASE i \notin H
    <3>1. msg[i] = s.msg[i]
      BY <2>2
    <3> HIDE DEF msg, p
    <3> QED
      BY <3>1, Zenon
  <2> QED
    BY <2>1, <2>2
<1>5. t = [s EXCEPT !.msg = msg]
  BY Zenon DEF FlagAll
<1> HIDE DEF msg, t
<1>6. t \in State /\ t.msg = msg /\ t.session = s.session /\ t.me = s.me /\ t.saved = s.saved
      /\ t.temp = s.temp /\ t.shut = s.shut /\ t.out = s.out
  BY <1>1, <1>3, <1>5 DEF State
<1>7. Fits(t, t.session[k])
  BY <1>3, <1>6 DEF Good, Fits
<1>8. Does(s, t, k, B)
  BY <1>3, <1>4, <1>6, <1>7, AlterDoes
<1> QED
  BY <1>3, <1>4, <1>6, <1>8 DEF t

\* The messages that were sent are with the partner, once it has sent something.
LEMMA FlagSentDoes ==
  ASSUME NEW s, Good(s), NEW k \in Conn, s.session[k].user \in BBS, NEW B,
         Delivered(s, s.session[k], B)
  PROVE  LET t == FlagSentMessages(s, k)
         IN  /\ Does(s, t, k, B) /\ t.out = s.out /\ t.shut = s.shut
             /\ ~t.session[k].FBBMsgsSent
             /\ t.session[k].want = s.session[k].want /\ t.session[k].length = s.session[k].length
<1> DEFINE t == FlagSentMessages(s, k)
           e == s.session[k]
           H == ToSet(e.hdr) \ {0}
           u == FlagAll(s, k, H)
           f == [e EXCEPT !.hdr = << >>, !.FBBMsgsSent = FALSE]
<1>1. s \in State /\ e \in Sessions
  BY DEF Good, State
<1>2. CASE ~e.FBBMsgsSent
  <2>1. t = s
    BY <1>2 DEF FlagSentMessages
  <2>2. \A i \in DOMAIN s.msg : s.msg[i].forw \subseteq s.msg[i].forw
    OBVIOUS
  <2>3. Does(s, s, k, B)
    <3> HIDE DEF t
    <3>1. Fits(s, s.session[k])
      BY DEF Good
    <3> QED
      BY <1>1, <3>1, AlterDoes
  <2> QED
    BY <1>2, <2>1, <2>3
<1>3. CASE e.FBBMsgsSent
  <2>1. \A m \in H : m \in DOMAIN s.msg => s.msg[m].bid \in B
    BY <1>3 DEF Delivered, ToSet
  <2>2. Does(s, u, k, B) /\ u.out = s.out /\ u.shut = s.shut /\ u.session = s.session
    <3> HIDE DEF H
    <3> QED
      BY <2>1, FlagAllDoes
  <2> HIDE DEF u
  <2>3. f \in Sessions /\ f.user = e.user /\ f.Active = e.Active /\ f.want = e.want
        /\ f.length = e.length /\ f.hdr = << >> /\ f.FBBMsgsSent = FALSE
        /\ f.NextMessagetoForward = e.NextMessagetoForward
    <3>1. << >> \in Seq(Nat)
      OBVIOUS
    <3> QED
      BY <1>1, <3>1 DEF Sessions
  <2>4. t = [u EXCEPT !.session[k].hdr = << >>, !.session[k].FBBMsgsSent = FALSE]
    BY <1>3, Zenon DEF FlagSentMessages, u
  <2>5. u \in State /\ Good(u)
    BY <2>2 DEF Does, Good
  <2>6. t = [u EXCEPT !.session = [s.session EXCEPT ![k] = f]]
    <3> HIDE DEF t
    <3> QED
      BY <1>1, <2>2, <2>4, <2>5 DEF State
  <2> HIDE DEF t, f
  <2>7. t \in State /\ t.msg = u.msg /\ t.session = [s.session EXCEPT ![k] = f] /\ t.me = u.me
        /\ t.saved = u.saved /\ t.temp = u.temp /\ t.shut = u.shut /\ t.out = u.out
    BY <1>1, <2>3, <2>5, <2>6 DEF State
  <2>8. t.session[k] = f /\ \A j \in Conn \ {k} : t.session[j] = u.session[j]
    BY <1>1, <2>2, <2>7 DEF State
  <2>9. Fits(t, f)
    <3>1. Fits(u, e) /\ Len(<< >>) = 0
      BY <2>2, <2>5 DEF Good
    <3> QED
      BY <2>3, <2>7, <3>1, BlockAssumption DEF Fits
  <2>10. Does(u, t, k, B)
    BY <2>2, <2>3, <2>5, <2>7, <2>8, <2>9, AlterDoes
  <2>11. Does(s, t, k, B)
    BY <1>1, <2>2, <2>5, <2>7, <2>10, MovedTransitive DEF Does
  <2> QED
    BY <2>2, <2>3, <2>7, <2>8, <2>11 DEF t
<1> QED
  BY <1>2, <1>3

-----------------------------------------------------------------------------
(* The answers to a block.                                                 *)

\* Something is waited for exactly when an answer wants something.
LEMMA WantedExists ==
  ASSUME NEW a \in Seq(Answer), NEW bids, NEW W \in Seq(Bid), NEW B, Replied(a, bids, W, B)
  PROVE  (\E i \in DOMAIN a : a[i] \in Wanted) <=> W # << >>
<1> DEFINE n == Len(a)
<1>1. PICK g \in [0 .. n -> 0 .. Len(W)] :
          /\ g[0] = 0 /\ g[n] = Len(W)
          /\ \A i \in DOMAIN a :
                IF a[i] \in Wanted THEN g[i] = g[i - 1] + 1 /\ W[g[i]] = bids[i]
                ELSE g[i] = g[i - 1]
  BY DEF Replied, RepliedTo
<1>2. n \in Nat /\ DOMAIN a = 1 .. n
  OBVIOUS
<1>3. ASSUME NEW i \in DOMAIN a, a[i] \in Wanted
      PROVE  W # << >>
  <2>1. g[i] = g[i - 1] + 1 /\ g[i] \in 0 .. Len(W) /\ g[i - 1] \in 0 .. Len(W)
    BY <1>1, <1>2, <1>3
  <2> QED
    BY <2>1
<1>4. ASSUME \A i \in DOMAIN a : a[i] \notin Wanted
      PROVE  W = << >>
  <2> DEFINE I == {i \in Nat : i <= n => g[i] = 0}
  <2>1. 0 \in I
    BY <1>1
  <2>2. ASSUME NEW i \in I PROVE i + 1 \in I
    <3> DEFINE j == i + 1
    <3>1. j <= n => j \in DOMAIN a /\ j - 1 = i
      BY <1>2
    <3>2. j <= n => g[j] = g[j - 1]
      <4> HIDE DEF j
      <4> QED
        BY <1>1, <1>4, <3>1
    <3> QED
      BY <1>2, <3>1, <3>2
  <2> HIDE DEF I
  <2>3. n \in I
    BY <1>2, <2>1, <2>2, NatInductionOnSet DEF I
  <2> QED
    BY <1>1, <1>2, <2>3 DEF I
<1> QED
  BY <1>3, <1>4

\* s has sent the texts of the messages W and become t.
Served(s, t, k, a, W, B) ==
    /\ Does(s, t, k, B) /\ t.shut = s.shut
    /\ \E T \in Seq(Lines) : /\ t.out[k] = s.out[k] \o T /\ Follows(T, W, 0)
                             /\ FreshBids(T) \subseteq Plus(a, Offered(s, s.session[k]))
    /\ Waiting(t.session[k]) /\ (t.session[k].FBBMsgsSent <=> W # << >>)
    /\ Delivered(t, t.session[k], B \cup ToSet(W))

LEMMA ProcessFSDoes ==
  ASSUME NEW s, Good(s), NEW k \in Conn, s.session[k].user \in BBS, NEW B,
         NEW a \in Seq(Answer), NEW W \in Seq(Bid),
         Idle(s.session[k]), ToSet(s.session[k].hdr) \subseteq DOMAIN s.msg,
         Replied(a, Offered(s, s.session[k]), W, B)
  PROVE  Served(s, ProcessFS(s, k, a), k, a, W, B)
<1> DEFINE e == s.session[k]
           h == e.hdr
           bids == Offered(s, e)
           Answered_(c) == {h[i] : i \in {j \in DOMAIN h : a[j] \in c}}
           H == Answered_({"-"})
           u == FlagAll(s, k, H)
           msg == [m \in DOMAIN u.msg |-> IF m \in Answered_({"="}) THEN Defer(u.msg[m]) ELSE u.msg[m]]
           hdr == [i \in DOMAIN h |-> IF a[i] \in {"+", "!"} THEN h[i] ELSE 0]
           sent == e.FBBMsgsSent \/ Answered_({"+", "!"}) # {}
           segs == [i \in DOMAIN h |->
                  CASE a[i] = "+" -> << Text(s.msg[h[i]].bid, 0, 1), Text(s.msg[h[i]].bid, 1, 2) >>
                    [] a[i] = "!" -> << Text(s.msg[h[i]].bid, 1, 2) >>
                    [] OTHER -> << >>]
           T == FlattenSeq(segs)
           f == [e EXCEPT !.hdr = hdr, !.FBBMsgsSent = sent]
           t == ProcessFS(s, k, a)
<1>1. s \in State /\ e \in Sessions /\ DOMAIN s.msg = 1 .. Len(s.msg) /\ Len(s.msg) \in Nat
      /\ \A m \in DOMAIN s.msg : s.msg[m] \in Message
  BY DEF Good, State
<1>2. h \in Seq(Nat) /\ Len(h) \in Nat /\ DOMAIN h = 1 .. Len(h) /\ DOMAIN bids = DOMAIN h
      /\ Len(a) = Len(bids) /\ DOMAIN a = 1 .. Len(a) /\ \A i \in DOMAIN h : h[i] \in DOMAIN s.msg
  <2>1. h \in Seq(Nat)
    BY <1>1 DEF Sessions
  <2>2. DOMAIN bids = DOMAIN h
    BY DEF Offered
  <2>3. Len(a) = Len(bids)
    BY DEF Replied, RepliedTo
  <2>4. \A i \in DOMAIN h : h[i] \in DOMAIN s.msg
    BY DEF ToSet
  <2>5. Len(a) \in Nat /\ DOMAIN a = 1 .. Len(a)
    OBVIOUS
  <2> HIDE DEF h, bids
  <2>6. Len(h) \in Nat /\ DOMAIN h = 1 .. Len(h)
    BY <2>1
  <2> QED
    BY <2>1, <2>2, <2>3, <2>4, <2>5, <2>6, Zenon
<1>3. bids \in Seq(Bid) /\ Len(bids) = Len(h) /\ DOMAIN a = DOMAIN h /\ Replied(a, bids, W, B)
      /\ \A i \in DOMAIN h : bids[i] = s.msg[h[i]].bid
  <2>1. \A i \in DOMAIN h : bids[i] = s.msg[h[i]].bid
    BY DEF Offered
  <2>2. \A m \in DOMAIN s.msg : s.msg[m].bid \in Bid
    BY <1>1 DEF Message
  <2>3. bids = [i \in 1 .. Len(h) |-> s.msg[h[i]].bid]
    BY <1>2 DEF Offered
  <2>5. Replied(a, bids, W, B)
    OBVIOUS
  <2> HIDE DEF h, bids
  <2>4. bids \in [1 .. Len(h) -> Bid]
    BY <1>2, <2>1, <2>2, <2>3
  <2>7. Len(h) \in Nat
    BY <1>2
  <2>6. bids \in Seq(Bid) /\ Len(bids) = Len(h)
    BY <2>4, <2>7
  <2> QED
    BY <1>2, <2>1, <2>5, <2>6
<1>4. Does(s, u, k, B) /\ u.out = s.out /\ u.shut = s.shut /\ u.session = s.session
      /\ Len(u.msg) = Len(s.msg) /\ DOMAIN u.msg = DOMAIN s.msg
      /\ \A i \in DOMAIN s.msg : u.msg[i].bid = s.msg[i].bid
  <2>1. \A m \in H : m \in DOMAIN s.msg => s.msg[m].bid \in B
    <3>1. \A i \in DOMAIN h : a[i] = "-" => bids[i] \in B
      BY <1>3 DEF Replied, RepliedTo
    <3> HIDE DEF h, bids
    <3> QED
      BY <1>3, <3>1
  <2> HIDE DEF H
  <2>2. Does(s, u, k, B)
    BY <2>1, FlagAllDoes
  <2>3. /\ u.out = s.out /\ u.shut = s.shut /\ u.session = s.session
        /\ \A i \in DOMAIN s.msg : u.msg[i].bid = s.msg[i].bid
        /\ Len(u.msg) = Len(s.msg) /\ DOMAIN u.msg = DOMAIN s.msg
    BY <2>1, <2>2, FlagAllDoes
  <2> QED
    BY <2>2, <2>3
<1>5. u \in State /\ \A m \in DOMAIN u.msg : u.msg[m] \in Message
  <2>1. u \in State
    BY <1>4 DEF Does, Good
  <2> HIDE DEF u
  <2> QED
    BY <2>1 DEF State
<1> HIDE DEF u
<1>6. msg \in Seq(Message) /\ Len(msg) = Len(u.msg)
      /\ \A i \in DOMAIN u.msg : /\ msg[i].bid = u.msg[i].bid /\ msg[i].restarted = u.msg[i].restarted
                                 /\ msg[i].forw = u.msg[i].forw
  <2>1. \A m \in DOMAIN u.msg : LET d == Defer(u.msg[m])
            IN  d \in Message /\ d.bid = u.msg[m].bid /\ d.restarted = u.msg[m].restarted
                /\ d.forw = u.msg[m].forw
    <3> SUFFICES ASSUME NEW m \in DOMAIN u.msg
                 PROVE  LET d == Defer(u.msg[m])
                        IN  d \in Message /\ d.bid = u.msg[m].bid /\ d.restarted = u.msg[m].restarted
                            /\ d.forw = u.msg[m].forw
      OBVIOUS
    <3>1. u.msg[m] \in Message /\ DeferCycles \in 0 .. DeferCycles
      BY <1>5, BlockAssumption
    <3> QED
      BY <3>1 DEF Message, Defer
  <2> DEFINE D == Answered_({"="})
  <2> HIDE DEF D
  <2>2. msg = [m \in 1 .. Len(s.msg) |-> IF m \in D THEN Defer(u.msg[m]) ELSE u.msg[m]]
    BY <1>1, <1>4 DEF D
  <2> HIDE DEF msg
  <2>3. msg \in [1 .. Len(s.msg) -> Message]
    BY <1>1, <1>4, <1>5, <2>1, <2>2
  <2>4. \A i \in DOMAIN u.msg : msg[i] = u.msg[i] \/ msg[i] = Defer(u.msg[i])
    BY <1>1, <1>4, <2>2
  <2>5. msg \in Seq(Message) /\ Len(msg) = Len(s.msg)
    BY <1>1, <2>3
  <2>6. ASSUME NEW i \in DOMAIN u.msg
        PROVE  msg[i].bid = u.msg[i].bid /\ msg[i].restarted = u.msg[i].restarted /\ msg[i].forw = u.msg[i].forw
    BY <2>1, <2>4
  <2> QED
    BY <1>4, <2>5, <2>6
<1>7. hdr \in Seq(Nat) /\ Len(hdr) = Len(h) /\ DOMAIN hdr = DOMAIN h
  <2> HIDE DEF h
  <2> QED
    BY <1>2
<1>8. sent \in BOOLEAN /\ (sent <=> W # << >>)
  <2>1. (\E i \in DOMAIN a : a[i] \in Wanted) <=> W # << >>
    BY WantedExists
  <2>2. (\E i \in DOMAIN a : a[i] \in Wanted) <=> Answered_({"+", "!"}) # {}
    <3> HIDE DEF h
    <3> QED
      BY <1>3 DEF Wanted
  <2> QED
    BY <2>1, <2>2 DEF Idle
<1>9. T \in Seq(Lines) /\ Follows(T, W, 0) /\ FreshBids(T) \subseteq Plus(a, bids)
  <2>1. \A i \in DOMAIN a :
            segs[i] = CASE a[i] = "+" -> << Text(bids[i], 0, 1), Text(bids[i], 1, 2) >>
                        [] a[i] = "!" -> << Text(bids[i], 1, 2) >>
                        [] OTHER -> << >>
    <3> HIDE DEF h, bids
    <3> QED
      BY <1>3
  <2>2. segs \in Seq(Seq(Lines)) /\ Len(segs) = Len(a)
    <3>1. \A i \in DOMAIN h : segs[i] \in Seq(Lines)
      <4> SUFFICES ASSUME NEW i \in DOMAIN h PROVE segs[i] \in Seq(Lines)
        OBVIOUS
      <4>1. bids[i] \in Bid /\ i \in DOMAIN a
        BY <1>3
      <4>2. Text(bids[i], 0, 1) \in Lines /\ Text(bids[i], 1, 2) \in Lines
        BY <4>1, TextType
      <4> DEFINE l == Text(bids[i], 0, 1)
                 r == Text(bids[i], 1, 2)
      <4>3. segs[i] \in {<< l, r >>, << r >>, << >>}
        <5> HIDE DEF segs, bids
        <5> QED
          BY <2>1, <4>1
      <4> HIDE DEF segs, l, r
      <4>4. << l, r >> \in Seq(Lines) /\ << r >> \in Seq(Lines) /\ << >> \in Seq(Lines)
        BY <4>2 DEF l, r
      <4> QED
        BY <4>3, <4>4
    <3>2. segs = [i \in 1 .. Len(h) |-> segs[i]]
      BY <1>2
    <3> HIDE DEF segs, h
    <3> QED
      BY <1>2, <1>3, <3>1, <3>2
  <2> HIDE DEF segs, bids
  <2> QED
    BY <1>3, <2>1, <2>2, FlattenFollows
<1>10. t = [u EXCEPT !.msg = msg, !.session[k].hdr = hdr,
                     !.session[k].FBBMsgsSent = u.session[k].FBBMsgsSent \/ Answered_({"+", "!"}) # {},
                     !.out[k] = @ \o T]
  BY Zenon DEF ProcessFS, u
<1>11. t = [u EXCEPT !.msg = msg, !.session = [s.session EXCEPT ![k] = f],
                     !.out = [s.out EXCEPT ![k] = s.out[k] \o T]]
  <2>1. u.session = s.session /\ u.out = s.out /\ u \in State
    BY <1>4, <1>5 DEF Does, Good
  <2>2. u.session[k] = e
    BY <2>1
  <2> DEFINE A == Answered_({"+", "!"})
  <2>3. t = [u EXCEPT !.msg = msg, !.session[k].hdr = hdr,
                      !.session[k].FBBMsgsSent = e.FBBMsgsSent \/ A # {},
                      !.out[k] = @ \o T]
    BY <1>10, <2>2
  <2>4. /\ u.session \in [Conn -> Sessions] /\ DOMAIN u.session = Conn /\ u.session[k] \in Sessions
        /\ DOMAIN u.out = Conn
    BY <1>1, <2>1 DEF State
  <2>5. f = [u.session[k] EXCEPT !.hdr = hdr, !.FBBMsgsSent = e.FBBMsgsSent \/ A # {}]
    BY <2>2
  <2> HIDE DEF t, u, msg, hdr, T, A, f, e
  <2>6. [u.session EXCEPT ![k].hdr = hdr, ![k].FBBMsgsSent = e.FBBMsgsSent \/ A # {}]
          = [s.session EXCEPT ![k] = f]
    BY <2>1, <2>4, <2>5 DEF Sessions
  <2>7. t = [u EXCEPT !.msg = msg,
                      !.session = [u.session EXCEPT ![k].hdr = hdr,
                                                    ![k].FBBMsgsSent = e.FBBMsgsSent \/ A # {}],
                      !.out = [u.out EXCEPT ![k] = u.out[k] \o T]]
    BY <2>1, <2>3 DEF State
  <2> QED
    BY <2>1, <2>6, <2>7
<1>12. f \in Sessions /\ f.user = e.user /\ f.Active = e.Active /\ f.want = e.want
       /\ f.length = e.length /\ f.hdr = hdr /\ f.FBBMsgsSent = sent
       /\ f.NextMessagetoForward = e.NextMessagetoForward
  <2> HIDE DEF hdr, sent
  <2> QED
    BY <1>1, <1>7, <1>8 DEF Sessions
<1> HIDE DEF f, t, T, msg
<1>13. t \in State /\ t.msg = msg /\ t.session = [s.session EXCEPT ![k] = f] /\ t.me = u.me
       /\ t.saved = u.saved /\ t.temp = u.temp /\ t.shut = u.shut /\ t.out = [s.out EXCEPT ![k] = s.out[k] \o T]
  <2>1. s.out[k] \o T \in Seq(Lines) /\ s.out \in [Conn -> Seq(Lines)]
    BY <1>1, <1>9 DEF State
  <2>2. [s.out EXCEPT ![k] = s.out[k] \o T] \in [Conn -> Seq(Lines)]
    BY <2>1
  <2>3. [s.session EXCEPT ![k] = f] \in [Conn -> Sessions]
    BY <1>1, <1>12 DEF State
  <2> QED
    BY <1>5, <1>6, <1>11, <2>2, <2>3 DEF State
<1>14. /\ t.session[k] = f /\ t.out[k] = s.out[k] \o T
       /\ \A j \in Conn \ {k} : t.session[j] = u.session[j] /\ t.out[j] = u.out[j]
  BY <1>1, <1>4, <1>13 DEF State
<1>15. Fits(t, f)
  <2>1. Fits(s, e)
    BY DEF Good
  <2> QED
    BY <1>4, <1>6, <1>7, <1>12, <1>13, <2>1 DEF Fits
<1>16. Does(u, t, k, B)
  <2>1. \A i \in DOMAIN u.msg : /\ t.msg[i].bid = u.msg[i].bid /\ t.msg[i].restarted = u.msg[i].restarted
                                /\ t.msg[i].forw = u.msg[i].forw
    BY <1>6, <1>13
  <2>2. Good(u)
    BY <1>4 DEF Does
  <2> QED
    BY <1>4, <1>5, <1>6, <1>12, <1>13, <1>14, <1>15, <2>1, <2>2, AlterDoes
<1>17. Does(s, t, k, B)
  BY <1>1, <1>4, <1>5, <1>13, <1>16, MovedTransitive DEF Does
<1>18. Delivered(t, f, B \cup ToSet(W))
  <2> SUFFICES ASSUME NEW i \in DOMAIN h, hdr[i] # 0
               PROVE  hdr[i] \in DOMAIN t.msg /\ t.msg[hdr[i]].bid \in ToSet(W)
    BY <1>7, <1>12 DEF Delivered
  <2>1. a[i] \in Wanted /\ hdr[i] = h[i]
    BY DEF Wanted
  <2>2. bids[i] \in ToSet(W)
    <3>1. PICK g \in [0 .. Len(a) -> 0 .. Len(W)] :
          \A j \in DOMAIN a : a[j] \in Wanted => g[j] = g[j - 1] + 1 /\ W[g[j]] = bids[j]
      <4> HIDE DEF bids
      <4> QED
        BY DEF Replied, RepliedTo, bids
    <3>2. i \in 1 .. Len(a) /\ i - 1 \in 0 .. Len(a)
      BY <1>2, <1>3
    <3> HIDE DEF bids, h, hdr
    <3>3. g[i] = g[i - 1] + 1 /\ W[g[i]] = bids[i]
      BY <1>3, <2>1, <3>1, <3>2
    <3>4. g[i] \in 0 .. Len(W) /\ g[i - 1] \in 0 .. Len(W)
      BY <3>1, <3>2
    <3>5. g[i] \in 1 .. Len(W)
      BY <3>3, <3>4
    <3> QED
      BY <3>3, <3>5 DEF ToSet
  <2>3. h[i] \in DOMAIN s.msg /\ bids[i] = s.msg[h[i]].bid
    BY <1>2, <1>3
  <2> HIDE DEF h, bids, hdr
  <2>4. DOMAIN t.msg = DOMAIN u.msg
    BY <1>4, <1>5, <1>6, <1>13 DEF State
  <2>5. t.msg[h[i]].bid = s.msg[h[i]].bid
    BY <1>4, <1>6, <1>13, <2>3
  <2> QED
    BY <1>4, <2>1, <2>2, <2>3, <2>4, <2>5
<1> QED
  BY <1>4, <1>8, <1>9, <1>12, <1>13, <1>14, <1>17, <1>18 DEF Idle, Waiting, Served, t

-----------------------------------------------------------------------------
(* How a block is answered.                                                *)

\* Only what is noted of the messages to come changes.
Listened(s, t, k) ==
    /\ t \in State /\ t.me = s.me /\ t.msg = s.msg /\ t.saved = s.saved /\ t.out = s.out /\ t.shut = s.shut
    /\ s.temp \subseteq t.temp /\ t.Forwarding = s.Forwarding
    /\ \A j \in Conn \ {k} : t.session[j] = s.session[j]
    /\ t.session[k] = [s.session[k] EXCEPT !.want = t.session[k].want]

Came(b, k) == [bid |-> b, conn |-> k]

IsNew(s, b) == Type[b] = "B" => b \notin Bids(s)

\* What is wanted from its start was not coming before, and comes once.
Noted(a, bids, s, t, k) ==
    /\ \A i \in DOMAIN a : a[i] = "+" =>
          Came(bids[i], k) \in t.temp /\ ~LookupTempBID(s, bids[i]) /\ IsNew(s, bids[i])
    /\ \A i, j \in DOMAIN a : a[i] = "+" /\ a[j] = "+" /\ i # j => bids[i] # bids[j]

LEMMA ListenedTransitive ==
  ASSUME NEW s \in State, NEW t \in State, NEW u \in State, NEW k \in Conn,
         Listened(s, t, k), Listened(t, u, k)
  PROVE  Listened(s, u, k)
<1>1. s.session[k] \in Sessions /\ t.session[k] \in Sessions /\ u.session[k] \in Sessions
  BY DEF State
<1>2. u.session[k] = [s.session[k] EXCEPT !.want = u.session[k].want]
  <2> DEFINE e == s.session[k]
             f == t.session[k]
             g == u.session[k]
  <2>1. f = [e EXCEPT !.want = f.want] /\ g = [f EXCEPT !.want = g.want]
    BY DEF Listened
  <2> HIDE DEF e, f, g
  <2>2. e \in Sessions /\ f \in Sessions /\ g \in Sessions
    BY <1>1 DEF e, f, g
  <2>3. g = [e EXCEPT !.want = g.want]
    BY <2>1, <2>2 DEF Sessions
  <2> QED
    BY <2>3 DEF e, g
<1> QED
  BY <1>2 DEF Listened

LEMMA ProposalDoes ==
  ASSUME NEW s \in State, NEW k \in Conn, NEW b \in Bid
  PROVE  LET y == Proposal(s, k, b)
         IN  /\ Listened(s, y.s, k) /\ y.answer \in Answer
             /\ y.s.session[k].want = IF y.answer \in Wanted THEN Append(s.session[k].want, b)
                                      ELSE s.session[k].want
             /\ y.answer = "-" => b \in Bids(s)
             /\ y.answer = "+" => Came(b, k) \in y.s.temp /\ ~LookupTempBID(s, b) /\ IsNew(s, b)
<1> DEFINE y == Proposal(s, k, b)
           e == s.session[k]
           W == Append(e.want, b)
           f == [e EXCEPT !.want = W]
           t == IF HasRestart(s, k, b) THEN [s EXCEPT !.restart = NoRestart] ELSE s
<1>1. e \in Sessions /\ e.want \in Seq(Bid)
  BY DEF State, Sessions
<1>2. W \in Seq(Bid)
  BY <1>1
<1> HIDE DEF W
<1>3. f \in Sessions /\ f.want = W /\ f = [e EXCEPT !.want = f.want] /\ e = [e EXCEPT !.want = e.want]
  BY <1>1, <1>2 DEF Sessions
<1> HIDE DEF f
<1>4. [s.session EXCEPT ![k] = f] \in [Conn -> Sessions]
  BY <1>3 DEF State
<1>5. t \in State /\ t.me = s.me /\ t.msg = s.msg /\ t.saved = s.saved /\ t.out = s.out
      /\ t.shut = s.shut /\ t.temp = s.temp /\ t.Forwarding = s.Forwarding /\ t.session = s.session
  BY DEF State
<1> HIDE DEF t
<1>6. CASE ~DoWeWantIt(s, b)
  <2>1. y = [s |-> s, answer |-> "-"]
    BY <1>6 DEF Proposal
  <2>2. b \in Bids(s)
    BY <1>6 DEF DoWeWantIt, LookupBID, Bids
  <2> HIDE DEF y, e
  <2> QED
    BY <1>3, <2>1, <2>2 DEF y, e, Listened, Answer, Wanted
<1>7. CASE DoWeWantIt(s, b) /\ HasRestart(s, k, b) /\ s.restart.Count < MaxRestart
  <2> DEFINE r == [s.restart EXCEPT !.Count = @ + 1]
             u == [s EXCEPT !.restart = r, !.session = [s.session EXCEPT ![k] = f]]
  <2>1. y = [s |-> [s EXCEPT !.restart.Count = @ + 1, !.session[k].want = Append(@, b)], answer |-> "!"]
    BY <1>7, Zenon DEF Proposal
  <2>2. r \in Restarts
    <3>1. s.restart \in Restarts
      BY <1>7 DEF State, HasRestart
    <3>2. s.restart.Count \in 0 .. MaxRestart /\ MaxRestart \in Nat
      BY <3>1, BlockAssumption DEF Restarts
    <3>3. s.restart.Count + 1 \in 0 .. MaxRestart
      BY <1>7, <3>2
    <3> QED
      BY <3>1, <3>3 DEF Restarts
  <2>3. y = [s |-> u, answer |-> "!"]
    BY <2>1 DEF State, f, W
  <2> HIDE DEF r
  <2>4. u \in State /\ u.me = s.me /\ u.msg = s.msg /\ u.saved = s.saved /\ u.out = s.out
        /\ u.shut = s.shut /\ u.temp = s.temp /\ u.Forwarding = s.Forwarding
        /\ u.session = [s.session EXCEPT ![k] = f]
    BY <1>4, <2>2 DEF State
  <2> HIDE DEF u
  <2>5. u.session[k] = f /\ \A j \in Conn \ {k} : u.session[j] = s.session[j]
    BY <2>4 DEF State
  <2> HIDE DEF y
  <2>6. Listened(s, u, k)
    BY <1>3, <2>4, <2>5 DEF Listened
  <2> QED
    BY <1>3, <2>3, <2>5, <2>6 DEF Answer, Wanted, y, W
<1>8. CASE DoWeWantIt(s, b) /\ ~(HasRestart(s, k, b) /\ s.restart.Count < MaxRestart) /\ LookupTempBID(s, b)
  <2>1. y = [s |-> t, answer |-> "="]
    BY <1>8, Zenon DEF Proposal, t
  <2>2. Listened(s, t, k)
    BY <1>3, <1>5 DEF Listened
  <2> HIDE DEF y
  <2> QED
    BY <1>5, <2>1, <2>2 DEF Answer, Wanted, y
<1>9. CASE DoWeWantIt(s, b) /\ ~(HasRestart(s, k, b) /\ s.restart.Count < MaxRestart) /\ ~LookupTempBID(s, b)
  <2> DEFINE u == [t EXCEPT !.temp = s.temp \cup {Came(b, k)}, !.session = [s.session EXCEPT ![k] = f]]
  <2>1. y = [s |-> [AddTempBID(t, k, b) EXCEPT !.session[k].want = Append(@, b)], answer |-> "+"]
    BY <1>9, Zenon DEF Proposal, t
  <2>2. y = [s |-> u, answer |-> "+"]
    BY <1>5, <2>1 DEF State, f, W, AddTempBID, Came
  <2>3. s.temp \cup {Came(b, k)} \in SUBSET [bid : Bid, conn : Conn]
    BY DEF State, Came
  <2>4. u \in State /\ u.me = s.me /\ u.msg = s.msg /\ u.saved = s.saved /\ u.out = s.out
        /\ u.shut = s.shut /\ u.temp = s.temp \cup {Came(b, k)} /\ u.Forwarding = s.Forwarding
        /\ u.session = [s.session EXCEPT ![k] = f]
    BY <1>4, <1>5, <2>3 DEF State
  <2> HIDE DEF u
  <2>5. u.session[k] = f /\ \A j \in Conn \ {k} : u.session[j] = s.session[j]
    BY <2>4 DEF State
  <2> HIDE DEF y
  <2>6. Listened(s, u, k)
    BY <1>3, <2>4, <2>5 DEF Listened
  <2>7. IsNew(s, b)
    BY <1>9 DEF IsNew, DoWeWantIt, LookupBID, Bids
  <2> QED
    BY <1>3, <1>9, <2>2, <2>4, <2>5, <2>6, <2>7 DEF Answer, Wanted, y, W
<1> QED
  BY <1>6, <1>7, <1>8, <1>9

\* The answers to the first n proposals.
AnswerStep(r, i, s, k, bids) ==
    IF i = 0 THEN [s |-> s, answers |-> << >>]
    ELSE LET x == r[i - 1]
             y == Proposal(x.s, k, bids[i])
         IN  [s |-> y.s, answers |-> Append(x.answers, y.answer)]

LEMMA AnswerStepSame ==
  ASSUME NEW s, NEW k, NEW bids, NEW e, NEW f, NEW i, i # 0 => e[i - 1] = f[i - 1]
  PROVE  AnswerStep(e, i, s, k, bids) = AnswerStep(f, i, s, k, bids)
<1>1. CASE i = 0
  BY <1>1 DEF AnswerStep
<1>2. CASE i # 0
  <2>1. e[i - 1] = f[i - 1]
    BY <1>2
  <2> QED
    BY <1>2, <2>1, Zenon DEF AnswerStep
<1> QED
  BY <1>1, <1>2

LEMMA AnswersExist ==
  ASSUME NEW s, NEW k, NEW bids, NEW n \in Nat
  PROVE  \E r : r = [i \in 0 .. n |-> AnswerStep(r, i, s, k, bids)]
<1> DEFINE Step(r, i) == AnswerStep(r, i, s, k, bids)
           I == {m \in Nat : \E f : f = [i \in 0 .. m |-> Step(f, i)]}
<1>1. 0 \in I
  <2> DEFINE e == [i \in 0 .. 0 |-> [s |-> s, answers |-> << >>]]
  <2>1. \A i \in 0 .. 0 : Step(e, i) = e[i]
    BY DEF AnswerStep
  <2>2. e = [i \in 0 .. 0 |-> Step(e, i)]
    <3> HIDE DEF Step
    <3> QED
      BY <2>1
  <2> HIDE DEF e, Step
  <2> QED
    BY <2>2
<1>2. ASSUME NEW m \in I
      PROVE  m + 1 \in I
  <2>1. PICK f : f = [i \in 0 .. m |-> Step(f, i)]
    OBVIOUS
  <2> DEFINE last == Step(f, m + 1)
             e == [i \in 0 .. m + 1 |-> IF i = m + 1 THEN last ELSE f[i]]
  <2>2. \A i \in 0 .. m + 1 : e[i] = Step(e, i)
    <3>1. ASSUME NEW i \in 0 .. m + 1, i # m + 1
          PROVE  e[i] = Step(e, i)
      <4>1. i \in 0 .. m /\ e[i] = f[i] /\ f[i] = Step(f, i)
        <5>1. \A j \in 0 .. m : f[j] = Step(f, j)
          <6> HIDE DEF Step
          <6> QED
            BY <2>1
        <5> HIDE DEF Step, last
        <5> QED
          BY <3>1, <5>1
      <4>2. i # 0 => e[i - 1] = f[i - 1]
        BY <4>1
      <4> HIDE DEF e
      <4> QED
        BY <4>1, <4>2 DEF AnswerStep
    <3>2. e[m + 1] = last /\ e[m + 1 - 1] = f[m + 1 - 1] /\ m + 1 # 0
      <4>1. e[m] = f[m] /\ m + 1 - 1 = m
        OBVIOUS
      <4> QED
        BY <4>1
    <3>3. e[m + 1] = Step(e, m + 1)
      <4>1. AnswerStep(e, m + 1, s, k, bids) = AnswerStep(f, m + 1, s, k, bids)
        <5> HIDE DEF e
        <5> QED
          BY <3>2, AnswerStepSame
      <4> QED
        BY <3>2, <4>1, Zenon
    <3> QED
      BY <3>1, <3>3
  <2>3. e = [i \in 0 .. m + 1 |-> Step(e, i)]
    <3> HIDE DEF Step, last
    <3> QED
      BY <2>2
  <2> HIDE DEF e, Step
  <2> QED
    BY <2>3
<1> HIDE DEF I
<1>3. n \in I
  BY <1>1, <1>2, NatInductionOnSet DEF I
<1> QED
  BY <1>3 DEF I

LEMMA AnswersStep ==
  ASSUME NEW s, NEW k, NEW bids, Len(bids) \in Nat
  PROVE  \E r : /\ r = [i \in 0 .. Len(bids) |-> AnswerStep(r, i, s, k, bids)]
                /\ Answers(s, k, bids) = r[Len(bids)]
<1> DEFINE r == CHOOSE r : r = [i \in 0 .. Len(bids) |-> AnswerStep(r, i, s, k, bids)]
<1>1. r = [i \in 0 .. Len(bids) |-> AnswerStep(r, i, s, k, bids)]
  <2>1. \E q : q = [i \in 0 .. Len(bids) |-> AnswerStep(q, i, s, k, bids)]
    BY AnswersExist
  <2> QED
    BY <2>1, Zenon
<1>2. Answers(s, k, bids) = r[Len(bids)]
  BY Zenon DEF Answers, AnswerStep
<1> QED
  BY <1>1, <1>2

\* One answer more.
LEMMA RepliedNext ==
  ASSUME NEW a \in Seq(Answer), NEW bids, NEW W \in Seq(Bid), NEW B, RepliedTo(a, bids, W, B),
         NEW c \in Answer, NEW b \in Bid, b = bids[Len(a) + 1], c = "-" => b \in B,
         NEW V, V = IF c \in Wanted THEN Append(W, b) ELSE W
  PROVE  RepliedTo(Append(a, c), bids, V, B) /\ V \in Seq(Bid) /\ Len(W) <= Len(V) /\ Len(V) <= Len(W) + 1
<1> DEFINE n == Len(a)
           d == Append(a, c)
<1>1. PICK g \in [0 .. n -> 0 .. Len(W)] :
          /\ g[0] = 0 /\ g[n] = Len(W)
          /\ \A i \in DOMAIN a :
                IF a[i] \in Wanted THEN g[i] = g[i - 1] + 1 /\ W[g[i]] = bids[i]
                ELSE g[i] = g[i - 1]
  BY DEF RepliedTo
<1>2. n \in Nat /\ d \in Seq(Answer) /\ Len(d) = n + 1 /\ DOMAIN a = 1 .. n /\ DOMAIN d = 1 .. n + 1
      /\ d[n + 1] = c /\ \A i \in 1 .. n : d[i] = a[i]
  OBVIOUS
<1>3. /\ V \in Seq(Bid) /\ Len(W) \in Nat /\ Len(V) = IF c \in Wanted THEN Len(W) + 1 ELSE Len(W)
      /\ \A i \in 1 .. Len(W) : V[i] = W[i]
      /\ c \in Wanted => V[Len(V)] = b
  <2>1. CASE c \in Wanted
    BY <2>1
  <2>2. CASE c \notin Wanted
    BY <2>2
  <2> QED
    BY <2>1, <2>2
<1> DEFINE f == [i \in 0 .. n + 1 |-> IF i = n + 1 THEN Len(V) ELSE g[i]]
<1> HIDE DEF d
<1>4. f \in [0 .. Len(d) -> 0 .. Len(V)] /\ f[0] = 0 /\ f[Len(d)] = Len(V)
  BY <1>1, <1>2, <1>3
<1>5. \A i \in 0 .. n : f[i] = g[i]
  BY <1>2
<1>6. f[n + 1] = Len(V)
  BY <1>2
<1> HIDE DEF f
<1>7. ASSUME NEW i \in 1 .. n
      PROVE  IF d[i] \in Wanted THEN f[i] = f[i - 1] + 1 /\ V[f[i]] = bids[i] ELSE f[i] = f[i - 1]
  <2>1. i \in 0 .. n /\ i - 1 \in 0 .. n
    BY <1>2
  <2>2. f[i] = g[i] /\ f[i - 1] = g[i - 1] /\ d[i] = a[i] /\ g[i] \in 0 .. Len(W) /\ g[i - 1] \in 0 .. Len(W)
    BY <1>1, <1>2, <1>5, <2>1
  <2>3. CASE d[i] \in Wanted
    <3>1. g[i] = g[i - 1] + 1 /\ W[g[i]] = bids[i]
      BY <1>1, <1>2, <2>2, <2>3
    <3>2. g[i] \in 1 .. Len(W)
      BY <2>2, <3>1
    <3> QED
      BY <1>3, <2>2, <2>3, <3>1, <3>2
  <2>4. CASE d[i] \notin Wanted
    BY <1>1, <1>2, <2>2, <2>4
  <2> QED
    BY <2>3, <2>4
<1>8. IF c \in Wanted THEN f[n + 1] = f[n] + 1 /\ V[f[n + 1]] = b ELSE f[n + 1] = f[n]
  <2>1. f[n] = Len(W)
    <3>1. n \in 0 .. n
      BY <1>2
    <3> QED
      BY <1>1, <1>5, <3>1
  <2> QED
    BY <1>3, <1>6, <2>1
<1>9. \A i \in 1 .. n + 1 : IF d[i] \in Wanted THEN f[i] = f[i - 1] + 1 /\ V[f[i]] = bids[i] ELSE f[i] = f[i - 1]
  <2>1. \A i \in 1 .. n + 1 : i \in 1 .. n \/ i = n + 1
    BY <1>2
  <2>2. (n + 1) - 1 = n /\ d[n + 1] = c
    BY <1>2
  <2>3. IF d[n + 1] \in Wanted THEN f[n + 1] = f[(n + 1) - 1] + 1 /\ V[f[n + 1]] = bids[n + 1]
        ELSE f[n + 1] = f[(n + 1) - 1]
    BY <1>8, <2>2
  <2> QED
    <3> DEFINE Q(i) == IF d[i] \in Wanted THEN f[i] = f[i - 1] + 1 /\ V[f[i]] = bids[i] ELSE f[i] = f[i - 1]
    <3>1. (\A i \in 1 .. n : Q(i)) /\ Q(n + 1)
      <4>1. \A i \in 1 .. n : Q(i)
        BY <1>7
      <4>2. Q(n + 1)
        BY <2>3, Zenon
      <4> HIDE DEF Q
      <4> QED
        BY <4>1, <4>2
    <3> HIDE DEF Q
    <3>2. \A i \in 1 .. n + 1 : Q(i)
      BY <2>1, <3>1
    <3> QED
      BY <3>2 DEF Q
<1>10. \A i \in DOMAIN d : d[i] = "-" => bids[i] \in B
  <2> SUFFICES ASSUME NEW i \in 1 .. n + 1, d[i] = "-" PROVE bids[i] \in B
    BY <1>2
  <2>1. CASE i \in 1 .. n
    BY <1>2, <2>1 DEF RepliedTo
  <2>2. CASE i = n + 1
    BY <1>2, <2>2
  <2> QED
    BY <1>2, <2>1, <2>2
<1>11. RepliedTo(d, bids, V, B)
  <2>1. \A i \in DOMAIN d : IF d[i] \in Wanted THEN f[i] = f[i - 1] + 1 /\ V[f[i]] = bids[i] ELSE f[i] = f[i - 1]
    BY <1>2, <1>9
  <2> QED
    BY <1>4, <1>10, <2>1 DEF RepliedTo
<1> QED
  BY <1>3, <1>11 DEF d

LEMMA NotedNext ==
  ASSUME NEW a \in Seq(Answer), NEW bids, NEW s \in State, NEW t \in State, NEW u, NEW k \in Conn,
         Noted(a, bids, s, t, k), Listened(s, t, k), Listened(t, u, k),
         NEW c \in Answer, NEW b \in Bid, b = bids[Len(a) + 1],
         c = "+" => Came(b, k) \in u.temp /\ ~LookupTempBID(t, b) /\ IsNew(t, b)
  PROVE  Noted(Append(a, c), bids, s, u, k)
<1> DEFINE n == Len(a)
           d == Append(a, c)
<1>2. n \in Nat /\ d \in Seq(Answer) /\ Len(d) = n + 1 /\ DOMAIN a = 1 .. n /\ DOMAIN d = 1 .. n + 1
      /\ d[n + 1] = c /\ \A i \in 1 .. n : d[i] = a[i]
  OBVIOUS
<1> HIDE DEF d
<1>1. s.temp \subseteq t.temp /\ t.temp \subseteq u.temp /\ t.msg = s.msg
  BY DEF Listened
<1>3. c = "+" => ~LookupTempBID(s, b) /\ IsNew(s, b)
  BY <1>1 DEF LookupTempBID, IsNew, Bids
<1>4. ASSUME NEW i \in 1 .. n, a[i] = "+"
      PROVE  /\ Came(bids[i], k) \in u.temp /\ ~LookupTempBID(s, bids[i]) /\ IsNew(s, bids[i])
             /\ c = "+" => bids[i] # b
  <2>1. Came(bids[i], k) \in t.temp /\ ~LookupTempBID(s, bids[i]) /\ IsNew(s, bids[i])
    BY <1>2, <1>4 DEF Noted
  <2>2. LookupTempBID(t, bids[i])
    BY <2>1 DEF LookupTempBID, Came
  <2> QED
    BY <1>1, <2>1, <2>2
<1>5. \A i \in DOMAIN d : d[i] = "+" =>
          Came(bids[i], k) \in u.temp /\ ~LookupTempBID(s, bids[i]) /\ IsNew(s, bids[i])
  <2>1. \A i \in 1 .. n + 1 : i \in 1 .. n \/ i = n + 1
    BY <1>2
  <2> QED
    BY <1>2, <1>3, <1>4, <2>1
<1>6. \A i, j \in DOMAIN d : d[i] = "+" /\ d[j] = "+" /\ i # j => bids[i] # bids[j]
  <2>1. \A i \in 1 .. n + 1 : i \in 1 .. n \/ i = n + 1
    BY <1>2
  <2>2. \A i, j \in 1 .. n : a[i] = "+" /\ a[j] = "+" /\ i # j => bids[i] # bids[j]
    BY <1>2 DEF Noted
  <2> QED
    BY <1>2, <1>4, <2>1, <2>2
<1> QED
  BY <1>5, <1>6 DEF Noted, d

LEMMA AnswersDoes ==
  ASSUME NEW s \in State, NEW k \in Conn, NEW bids \in Seq(Bid), s.session[k].want = << >>
  PROVE  LET r == Answers(s, k, bids)
             W == r.s.session[k].want
         IN  /\ Listened(s, r.s, k) /\ r.answers \in Seq(Answer)
             /\ Replied(r.answers, bids, W, Bids(s)) /\ Len(W) <= Len(bids)
             /\ Noted(r.answers, bids, s, r.s, k)
<1> DEFINE n == Len(bids)
<1>1. PICK r : r = [i \in 0 .. n |-> AnswerStep(r, i, s, k, bids)] /\ Answers(s, k, bids) = r[n]
  BY AnswersStep
<1>2. n \in Nat
  OBVIOUS
<1> DEFINE W(i) == r[i].s.session[k].want
           P(i) == /\ Listened(s, r[i].s, k) /\ r[i].answers \in Seq(Answer) /\ Len(r[i].answers) = i
                   /\ RepliedTo(r[i].answers, bids, W(i), Bids(s)) /\ W(i) \in Seq(Bid) /\ Len(W(i)) <= i
                   /\ Noted(r[i].answers, bids, s, r[i].s, k)
           I == {i \in Nat : i <= n => P(i)}
<1>3. 0 \in I
  <2>1. r[0] = [s |-> s, answers |-> << >>]
    <3>1. r[0] = AnswerStep(r, 0, s, k, bids)
      BY <1>1, <1>2
    <3> QED
      BY <3>1 DEF AnswerStep
  <2>2. RepliedTo(<< >>, bids, << >>, Bids(s))
    <3> DEFINE g == [i \in 0 .. 0 |-> 0]
               E == << >>
    <3>1. g \in [0 .. 0 -> 0 .. 0] /\ g[0] = 0 /\ Len(E) = 0 /\ DOMAIN E = {}
      OBVIOUS
    <3> HIDE DEF g, E
    <3>2. RepliedTo(E, bids, E, Bids(s))
      BY <3>1 DEF RepliedTo
    <3> QED
      BY <3>2 DEF E
  <2>3. Listened(s, s, k)
    <3>1. s.session[k] \in Sessions
      BY DEF State
    <3>2. s.session[k] = [s.session[k] EXCEPT !.want = s.session[k].want]
      BY <3>1 DEF Sessions
    <3> QED
      BY <3>2 DEF Listened
  <2>4. Noted(<< >>, bids, s, s, k)
    BY DEF Noted
  <2>5. W(0) = << >> /\ << >> \in Seq(Bid) /\ << >> \in Seq(Answer) /\ Len(<< >>) = 0
    BY <2>1
  <2>7. r[0].s = s /\ r[0].answers = << >>
    BY <2>1
  <2> HIDE DEF W
  <2>6. P(0)
    <3> DEFINE E == << >>
    <3> HIDE DEF E
    <3>1. W(0) = E /\ r[0].s = s /\ r[0].answers = E /\ E \in Seq(Bid) /\ E \in Seq(Answer) /\ Len(E) = 0
      BY <2>5, <2>7 DEF E
    <3>2. RepliedTo(E, bids, E, Bids(s)) /\ Noted(E, bids, s, s, k)
      BY <2>2, <2>4 DEF E
    <3>3. Listened(s, r[0].s, k) /\ Noted(r[0].answers, bids, s, r[0].s, k)
      BY <2>3, <3>1, <3>2, Zenon
    <3>4. r[0].answers \in Seq(Answer) /\ W(0) \in Seq(Bid) /\ RepliedTo(r[0].answers, bids, W(0), Bids(s))
      BY <3>1, <3>2, Zenon
    <3>5. Len(r[0].answers) = 0 /\ Len(W(0)) = 0 /\ 0 <= 0
      BY <3>1
    <3> QED
      BY <3>3, <3>4, <3>5, Zenon
  <2> QED
    BY <2>6
<1>4. ASSUME NEW i \in I
      PROVE  i + 1 \in I
  <2> SUFFICES ASSUME i + 1 <= n PROVE P(i + 1)
    OBVIOUS
  <2> DEFINE b == bids[i + 1]
             y == Proposal(r[i].s, k, b)
  <2>1. i + 1 \in 0 .. n /\ i + 1 - 1 = i /\ i + 1 # 0 /\ i <= n /\ i \in Nat /\ b \in Bid
    BY <1>2
  <2>2. P(i)
    BY <2>1
  <2>3. r[i + 1] = [s |-> y.s, answers |-> Append(r[i].answers, y.answer)]
    <3>1. r[i + 1] = AnswerStep(r, i + 1, s, k, bids)
      BY <1>1, <2>1
    <3> QED
      BY <2>1, <3>1 DEF AnswerStep
  <2> HIDE DEF b
  <2>4. r[i].s \in State
    BY <2>2 DEF Listened
  <2>5. /\ Listened(r[i].s, y.s, k) /\ y.answer \in Answer
        /\ y.s.session[k].want = IF y.answer \in Wanted THEN Append(r[i].s.session[k].want, b)
                                 ELSE r[i].s.session[k].want
        /\ y.answer = "-" => b \in Bids(r[i].s)
        /\ y.answer = "+" => Came(b, k) \in y.s.temp /\ ~LookupTempBID(r[i].s, b) /\ IsNew(r[i].s, b)
    BY <2>1, <2>4, ProposalDoes
  <2> HIDE DEF y
  <2>6. Listened(s, y.s, k)
    <3>1. y.s \in State
      BY <2>5 DEF Listened
    <3> QED
      BY <2>2, <2>4, <2>5, <3>1, ListenedTransitive
  <2>7. Bids(r[i].s) = Bids(s)
    BY <2>2 DEF Listened, Bids
  <2> DEFINE a == r[i].answers
             V == y.s.session[k].want
             U == r[i].s.session[k].want
  <2>8. a \in Seq(Answer) /\ Len(a) = i /\ U \in Seq(Bid) /\ Len(U) <= i /\ RepliedTo(a, bids, U, Bids(s))
        /\ Noted(a, bids, s, r[i].s, k) /\ Listened(s, r[i].s, k)
    BY <2>2
  <2>9. V = (IF y.answer \in Wanted THEN Append(U, b) ELSE U) /\ b = bids[Len(a) + 1]
        /\ (y.answer = "-" => b \in Bids(s))
    BY <2>5, <2>7, <2>8 DEF b
  <2> HIDE DEF a, V, U, P
  <2>10. RepliedTo(Append(a, y.answer), bids, V, Bids(s)) /\ V \in Seq(Bid) /\ Len(V) <= Len(U) + 1
    <3> DEFINE c == y.answer
               C == Bids(s)
    <3>1. c \in Answer /\ b \in Bid /\ (c = "-" => b \in C) /\ b = bids[Len(a) + 1]
          /\ V = (IF c \in Wanted THEN Append(U, b) ELSE U) /\ RepliedTo(a, bids, U, C)
      BY <2>1, <2>5, <2>8, <2>9
    <3> HIDE DEF c, C
    <3>2. RepliedTo(Append(a, c), bids, V, C)
      BY <2>8, <3>1, RepliedNext
    <3>3. V \in Seq(Bid) /\ Len(V) <= Len(U) + 1
      BY <2>8, <3>1, RepliedNext
    <3> QED
      BY <3>2, <3>3 DEF c, C
  <2>11. Noted(Append(a, y.answer), bids, s, y.s, k)
    BY <2>1, <2>4, <2>5, <2>8, <2>9, NotedNext
  <2>12. Len(V) <= i + 1 /\ Append(a, y.answer) \in Seq(Answer) /\ Len(Append(a, y.answer)) = i + 1
    <3>1. Len(U) \in Nat /\ Len(V) \in Nat
      BY <2>8, <2>10
    <3> QED
      BY <2>1, <2>5, <2>8, <2>10, <3>1
  <2> QED
    BY <2>3, <2>6, <2>10, <2>11, <2>12 DEF P, a, V
<1> HIDE DEF I
<1>5. n \in I
  BY <1>2, <1>3, <1>4, NatInductionOnSet DEF I
<1>6. P(n)
  BY <1>2, <1>5 DEF I
<1> QED
  BY <1>1, <1>6 DEF Replied

LEMMA ListenedDoes ==
  ASSUME NEW s, Good(s), NEW t, NEW k \in Conn, NEW B, Listened(s, t, k),
         Len(t.session[k].want) <= MaxBlock
  PROVE  /\ Does(s, t, k, B)
         /\ t.session[k].FBBMsgsSent = s.session[k].FBBMsgsSent
         /\ t.session[k].length = s.session[k].length /\ t.session[k].hdr = s.session[k].hdr
<1> DEFINE e == s.session[k]
           f == t.session[k]
<1>1. s \in State /\ t \in State /\ e \in Sessions /\ f \in Sessions
  BY DEF Good, State, Listened
<1>2. f = [e EXCEPT !.want = f.want]
  BY DEF Listened
<1> HIDE DEF e, f
<1>3. /\ f.user = e.user /\ f.Active = e.Active /\ f.FBBMsgsSent = e.FBBMsgsSent /\ f.hdr = e.hdr
      /\ f.length = e.length /\ f.NextMessagetoForward = e.NextMessagetoForward
  BY <1>1, <1>2 DEF Sessions
<1>4. t.msg = s.msg
  BY DEF Listened
<1>5. Fits(t, f)
  <2>1. Fits(s, e)
    BY DEF Good, e
  <2> QED
    BY <1>3, <1>4, <2>1 DEF Fits, f
<1>6. Does(s, t, k, B)
  <2>1. t.me = s.me /\ t.saved = s.saved /\ t.shut = s.shut /\ s.temp \subseteq t.temp /\ t.out = s.out
        /\ \A j \in Conn \ {k} : t.session[j] = s.session[j]
    BY DEF Listened
  <2> QED
    BY <1>1, <1>3, <1>4, <1>5, <2>1, AlterDoes DEF e, f
<1> QED
  BY <1>3, <1>6 DEF e, f

LEMMA DoesTransitive ==
  ASSUME NEW s, Good(s), NEW t, NEW u, NEW k, NEW B, Does(s, t, k, B), Does(t, u, k, B)
  PROVE  Does(s, u, k, B)
<1>1. s \in State /\ t \in State /\ u \in State
  BY DEF Good, Does
<1> QED
  BY <1>1, MovedTransitive DEF Does

LEMMA DoesBids ==
  ASSUME NEW s \in State, NEW t \in State, NEW k, NEW B, Does(s, t, k, B)
  PROVE  Bids(t) = Bids(s) /\ DOMAIN t.msg = DOMAIN s.msg
<1>1. DOMAIN s.msg = 1 .. Len(s.msg) /\ DOMAIN t.msg = 1 .. Len(t.msg)
  BY DEF State
<1>2. DOMAIN t.msg = DOMAIN s.msg
  BY <1>1 DEF Does
<1> QED
  BY <1>2 DEF Does, Moved, Grown, Bids

\* A message to come has its header; the session has ended; or it is the turn of
\* this end to offer.
GoesOn(s, t, k) ==
    \/ k \in t.shut
    \/ /\ s.session[k].want # << >> /\ t.shut = s.shut /\ t.out = s.out
       /\ t.session[k].want = s.session[k].want /\ t.session[k].length = 0
       /\ ~t.session[k].FBBMsgsSent
       /\ Came(Head(s.session[k].want), k) \in t.temp /\ IsNew(t, Head(s.session[k].want))
    \/ /\ s.session[k].want = << >> /\ t.shut = s.shut
       /\ \E l \in Lines : t.out[k] = Append(s.out[k], l) /\ Offer(t, t.session[k], l)

LEMMA SetupNextDoes ==
  ASSUME NEW s, Good(s), NEW k \in Conn, NEW B,
         s.session[k].length = 0, ~s.session[k].FBBMsgsSent
  PROVE  LET t == SetupNextFBBMessage(s, k)
         IN  Does(s, t, k, B) /\ GoesOn(s, t, k)
<1> DEFINE e == s.session[k]
           t == SetupNextFBBMessage(s, k)
<1>1. s \in State /\ e \in Sessions /\ e.want \in Seq(Bid)
  BY DEF Good, State, Sessions
<1>2. CASE e.want = << >>
  <2>1. t = FBBDoForward(s, k, "FF") /\ Idle(e)
    BY <1>2 DEF SetupNextFBBMessage, Idle, Waiting
  <2> HIDE DEF t
  <2>2. Does(s, t, k, B) /\ t.shut = s.shut
        /\ \E l \in Lines : t.out[k] = Append(s.out[k], l) /\ Offer(t, t.session[k], l)
    BY <2>1, DoForwardDoes
  <2> QED
    BY <1>2, <2>2 DEF GoesOn, t
<1>3. CASE e.want # << >>
  <2> DEFINE b == Head(e.want)
  <2>1. t = CreateMessage(s, k)
    BY <1>3 DEF SetupNextFBBMessage
  <2>2. CASE ~DoWeWantIt(s, b)
    <3> DEFINE f == [e EXCEPT !.want = << >>]
               u == [s EXCEPT !.session = [s.session EXCEPT ![k] = f]]
    <3>1. t = Disconnect([s EXCEPT !.session[k].want = << >>], k)
      BY <2>1, <2>2, Zenon DEF CreateMessage
    <3>2. t = Disconnect(u, k)
      BY <1>1, <3>1 DEF State
    <3>3. f \in Sessions /\ f.user = e.user /\ f.Active = e.Active /\ f.hdr = e.hdr
          /\ f.NextMessagetoForward = e.NextMessagetoForward /\ Len(f.want) = 0
      <4>1. << >> \in Seq(Bid)
        OBVIOUS
      <4> QED
        BY <1>1, <4>1 DEF Sessions
    <3> HIDE DEF f, t
    <3>4. u \in State /\ u.msg = s.msg /\ u.session = [s.session EXCEPT ![k] = f] /\ u.me = s.me
          /\ u.saved = s.saved /\ u.temp = s.temp /\ u.shut = s.shut /\ u.out = s.out
      BY <1>1, <3>3 DEF State
    <3> HIDE DEF u
    <3>5. u.session[k] = f /\ \A j \in Conn \ {k} : u.session[j] = s.session[j]
      BY <1>1, <3>4 DEF State
    <3>6. Fits(u, f)
      BY <3>3, <3>4, BlockAssumption DEF Good, Fits
    <3>7. Does(s, u, k, B)
      BY <1>1, <3>3, <3>4, <3>5, <3>6, AlterDoes
    <3>8. Does(u, t, k, B) /\ k \in t.shut
      BY <3>2, <3>7, DisconnectDoes DEF Does
    <3> QED
      BY <3>7, <3>8, DoesTransitive DEF GoesOn, t
  <2>3. CASE DoWeWantIt(s, b)
    <3> DEFINE f == [e EXCEPT !.length = 0, !.shared = FALSE]
               T == s.temp \cup {Came(b, k)}
               u == [s EXCEPT !.temp = T, !.session = [s.session EXCEPT ![k] = f]]
    <3>1. t = [AddTempBID(s, k, b) EXCEPT !.session[k].length = 0, !.session[k].shared = FALSE]
      BY <2>1, <2>3, Zenon DEF CreateMessage
    <3>2. t = u
      <4> DEFINE v == [s EXCEPT !.temp = T]
      <4>1. v \in State \/ v.session = s.session
        BY <1>1 DEF State
      <4>2. AddTempBID(s, k, b) = v
        BY Zenon DEF AddTempBID, Came
      <4>3. t = [v EXCEPT !.session[k].length = 0, !.session[k].shared = FALSE]
        BY <3>1, <4>2, Zenon
      <4> QED
        BY <1>1, <4>3 DEF State
    <3>3. f \in Sessions /\ f.user = e.user /\ f.Active = e.Active /\ f.hdr = e.hdr
          /\ f.NextMessagetoForward = e.NextMessagetoForward /\ f.want = e.want
          /\ f.FBBMsgsSent = e.FBBMsgsSent /\ f.length = 0
      BY <1>1 DEF Sessions
    <3>9. b \in Bid
      BY <1>1, <1>3
    <3>10. T \in SUBSET [bid : Bid, conn : Conn] /\ s.temp \subseteq T /\ Came(b, k) \in T
      BY <1>1, <3>9 DEF State, Came
    <3> HIDE DEF f, t, T
    <3>4. u \in State /\ u.msg = s.msg /\ u.session = [s.session EXCEPT ![k] = f] /\ u.me = s.me
          /\ u.saved = s.saved /\ u.temp = T /\ u.shut = s.shut /\ u.out = s.out
      BY <1>1, <3>3, <3>10 DEF State
    <3> HIDE DEF u
    <3>5. u.session[k] = f /\ \A j \in Conn \ {k} : u.session[j] = s.session[j]
      BY <1>1, <3>4 DEF State
    <3>6. Fits(u, f)
      BY <3>3, <3>4 DEF Good, Fits
    <3>7. Does(s, u, k, B)
      BY <1>1, <3>3, <3>4, <3>5, <3>6, <3>10, AlterDoes
    <3>8. IsNew(u, b)
      BY <2>3, <3>4 DEF IsNew, DoWeWantIt, LookupBID, Bids
    <3> QED
      BY <1>3, <3>2, <3>3, <3>4, <3>5, <3>7, <3>8, <3>10 DEF GoesOn, t
  <2> QED
    BY <2>2, <2>3
<1> QED
  BY <1>2, <1>3

\* s has answered the proposals bids and become t, or has ended the session.
Answering(s, t, k, bids, B) ==
    /\ Does(s, t, k, B)
    /\ \/ k \in t.shut
       \/ /\ t.shut = s.shut /\ ~t.session[k].FBBMsgsSent /\ t.session[k].length = 0
          /\ \E a \in Seq(Answer) :
                /\ Replied(a, bids, t.session[k].want, Bids(t))
                /\ Noted(a, bids, s, t, k)
                /\ \/ /\ t.session[k].want # << >> /\ IsNew(t, Head(t.session[k].want))
                      /\ t.out[k] = Append(s.out[k], [kind |-> "FS", answers |-> a])
                   \/ /\ t.session[k].want = << >>
                      /\ \E l \in Lines :
                            /\ t.out[k] = Append(Append(s.out[k], [kind |-> "FS", answers |-> a]), l)
                            /\ Offer(t, t.session[k], l)

\* A block has come: each proposal has its answer, and what is wanted is waited for.
LEMMA ProcessBlockDoes ==
  ASSUME NEW s, Good(s), NEW k \in Conn, NEW bids \in Seq(Bid), Len(bids) <= MaxBlock, NEW B,
         s.session[k].user \in BBS, Delivered(s, s.session[k], B), Waiting(s.session[k])
  PROVE  Answering(s, ProcessBlock(s, k, bids), k, bids, B)
<1> DEFINE f == FlagSentMessages(s, k)
           r == Answers(f, k, bids)
           a == r.answers
           l == [kind |-> "FS", answers |-> a]
           u == Send(r.s, k, l)
           t == ProcessBlock(s, k, bids)
           W == u.session[k].want
<1>1. Does(s, f, k, B) /\ f.out = s.out /\ f.shut = s.shut /\ ~f.session[k].FBBMsgsSent
      /\ f.session[k].want = << >> /\ f.session[k].length = 0
  BY FlagSentDoes DEF Waiting
<1> HIDE DEF f
<1>2. Good(f) /\ f \in State /\ s \in State /\ s.out \in [Conn -> Seq(Lines)]
  BY <1>1 DEF Does, Good, State
<1>3. /\ Listened(f, r.s, k) /\ a \in Seq(Answer)
      /\ Replied(a, bids, r.s.session[k].want, Bids(f)) /\ Len(r.s.session[k].want) <= Len(bids)
      /\ Noted(a, bids, f, r.s, k)
  BY <1>1, <1>2, AnswersDoes
<1> HIDE DEF r
<1>4. Len(r.s.session[k].want) <= MaxBlock
  <2>1. r.s.session[k].want \in Seq(Bid)
    BY <1>3 DEF Listened, State, Sessions
  <2>2. Len(r.s.session[k].want) \in Nat /\ Len(bids) \in Nat
    BY <2>1
  <2> QED
    BY <1>3, <2>2, BlockAssumption
<1>5. Does(f, r.s, k, B) /\ ~r.s.session[k].FBBMsgsSent /\ r.s.session[k].length = 0
      /\ r.s.out = s.out /\ r.s.shut = s.shut
  <2>1. r.s.out = s.out /\ r.s.shut = s.shut
    BY <1>1, <1>3 DEF Listened
  <2> QED
    <3>1. Does(f, r.s, k, B)
      BY <1>2, <1>3, <1>4, ListenedDoes
    <3>2. r.s.session[k].FBBMsgsSent = f.session[k].FBBMsgsSent /\ r.s.session[k].length = f.session[k].length
      <4> DEFINE e == f.session[k]
                 d == r.s.session[k]
      <4>1. e \in Sessions /\ d = [e EXCEPT !.want = d.want]
        BY <1>2, <1>3 DEF Listened, State
      <4> HIDE DEF d, e
      <4>2. d.FBBMsgsSent = e.FBBMsgsSent /\ d.length = e.length
        BY <4>1 DEF Sessions
      <4> QED
        BY <4>2 DEF d, e
    <3> QED
      BY <1>1, <2>1, <3>1, <3>2
<1>6. l \in Lines
  BY <1>3 DEF Lines
<1> HIDE DEF l
<1>7. Does(r.s, u, k, B) /\ u.out[k] = Append(s.out[k], l) /\ u.session = r.s.session /\ u.msg = r.s.msg
      /\ u.shut = s.shut /\ u.temp = r.s.temp
  <2>1. Good(r.s) /\ r.s \in State
    BY <1>5 DEF Does, Good
  <2>2. u.temp = r.s.temp
    BY <2>1 DEF Send, State
  <2>3. /\ Does(r.s, u, k, B) /\ u.out[k] = Append(r.s.out[k], l)
        /\ u.session = r.s.session /\ u.msg = r.s.msg /\ u.shut = r.s.shut
    BY <1>6, <2>1, SendDoes
  <2> HIDE DEF u
  <2> QED
    BY <1>5, <2>2, <2>3
<1>8. t = SetupNextFBBMessage(u, k)
  BY Zenon DEF ProcessBlock, u, l, r, f
<1> HIDE DEF u, t
<1>9. Does(u, t, k, B) /\ GoesOn(u, t, k)
  <2>1. Good(u) /\ u.session[k].length = 0 /\ ~u.session[k].FBBMsgsSent
    BY <1>5, <1>7 DEF Does
  <2> QED
    BY <1>8, <2>1, SetupNextDoes
<1>10. Does(s, t, k, B)
  <2>1. Does(s, r.s, k, B)
    BY <1>1, <1>5, DoesTransitive
  <2>2. Does(s, u, k, B)
    BY <1>7, <2>1, DoesTransitive
  <2> QED
    BY <1>9, <2>2, DoesTransitive
<1>11. CASE k \in t.shut
  BY <1>10, <1>11 DEF Answering, t
<1>12. CASE k \notin t.shut
  <2>1. Bids(f) \subseteq Bids(t)
    <3>1. Bids(r.s) = Bids(f) /\ Bids(u) = Bids(r.s)
      BY <1>3, <1>7 DEF Listened, Bids
    <3>2. Bids(u) \subseteq Bids(t)
      <4>1. u \in State /\ t \in State /\ Grown(u, t)
        BY <1>7, <1>9 DEF Does, Good, Moved
      <4> QED
        BY <4>1, GrownBids
    <3> QED
      BY <3>1, <3>2
  <2>2. Replied(a, bids, W, Bids(t))
    BY <1>3, <1>7, <2>1, RepliedKept
  <2>3. Noted(a, bids, s, t, k)
    <3>1. s.temp \subseteq f.temp /\ r.s.temp \subseteq t.temp
      BY <1>1, <1>7, <1>9 DEF Does, Moved
    <3>2. \A b : ~LookupTempBID(f, b) => ~LookupTempBID(s, b)
      BY <3>1 DEF LookupTempBID
    <3>3. \A b : IsNew(f, b) => IsNew(s, b)
      BY <1>1, <1>2, DoesBids DEF IsNew
    <3> QED
      BY <1>3, <3>1, <3>2, <3>3 DEF Noted
  <2>4. CASE W # << >>
    <3>1. t.session[k].want = W /\ t.session[k].length = 0 /\ ~t.session[k].FBBMsgsSent /\ t.shut = s.shut
          /\ t.out[k] = Append(s.out[k], l) /\ IsNew(t, Head(W))
      BY <1>7, <1>9, <1>12, <2>4 DEF GoesOn
    <3> QED
      BY <1>3, <1>10, <2>2, <2>3, <2>4, <3>1 DEF Answering, t, l
  <2>5. CASE W = << >>
    <3>1. PICK o \in Lines : t.out[k] = Append(Append(s.out[k], l), o) /\ Offer(t, t.session[k], o)
      BY <1>7, <1>9, <1>12, <2>5 DEF GoesOn
    <3>2. t.shut = s.shut
      BY <1>7, <1>9, <1>12, <2>5 DEF GoesOn
    <3>3. t.session[k].want = << >> /\ t.session[k].length = 0 /\ ~t.session[k].FBBMsgsSent
      BY <3>1 DEF Offer, Idle, Waiting
    <3> QED
      BY <1>3, <1>10, <2>2, <2>3, <2>5, <3>1, <3>2, <3>3 DEF Answering, t, l
  <2> QED
    BY <2>4, <2>5
<1> QED
  BY <1>11, <1>12

-----------------------------------------------------------------------------
(* The texts of the messages.                                              *)

LEMMA FollowsEmpty ==
  ASSUME NEW T \in Seq(Lines), NEW W \in Seq(Bid), NEW len, Follows(T, W, len)
  PROVE  T = << >> <=> W = << >>
<1>1. PICK q \in [0 .. Len(W) -> 0 .. Len(T)] :
        /\ q[0] = 0 /\ q[Len(W)] = Len(T)
        /\ \A i \in 1 .. Len(W) : q[i] = q[i - 1] + 1 \/ q[i] = q[i - 1] + 2
  BY DEF Follows, Laid
<1>2. Len(W) \in Nat /\ Len(T) \in Nat
  OBVIOUS
<1>3. CASE W = << >>
  <2>1. Len(W) = 0
    BY <1>3
  <2>2. Len(T) = 0
    BY <1>1, <2>1
  <2> QED
    BY <1>3, <2>2
<1>4. CASE W # << >>
  <2>1. 1 \in 1 .. Len(W) /\ 1 - 1 = 0 /\ 1 \in 0 .. Len(W)
    BY <1>2, <1>4
  <2>2. q[1] = 1 \/ q[1] = 2
    BY <1>1, <2>1
  <2>3. q[1] \in 0 .. Len(T)
    BY <1>1, <2>1
  <2> QED
    BY <1>2, <1>4, <2>2, <2>3
<1> QED
  BY <1>3, <1>4

LEMMA FollowsNext ==
  ASSUME NEW T \in Seq(Lines), NEW W \in Seq(Bid), NEW len, Follows(T, W, len), T # << >>
  PROVE  /\ W # << >>
         /\ \/ /\ T[1] = Text(W[1], 0, 1) /\ len = 0
               /\ Tail(T) # << >> /\ Follows(Tail(T), W, 1)
            \/ /\ T[1] = Text(W[1], 1, 2)
               /\ Follows(Tail(T), Tail(W), 0)
<1> DEFINE m == Len(W)
           n == Len(T)
           U == Tail(T)
<1>1. PICK q \in [0 .. m -> 0 .. n] :
        /\ q[0] = 0 /\ q[m] = n
        /\ \A i \in 1 .. m :
              /\ q[i] = q[i - 1] + 1 \/ q[i] = q[i - 1] + 2
              /\ T[q[i]] = Text(W[i], 1, 2)
              /\ q[i] = q[i - 1] + 2 => T[q[i] - 1] = Text(W[i], 0, 1) /\ (i = 1 => len = 0)
  BY DEF Follows, Laid
<1>2. W # << >>
  BY FollowsEmpty
<1>3. m \in Nat \ {0} /\ n \in Nat \ {0} /\ U \in Seq(Lines) /\ Len(U) = n - 1
      /\ \A j \in 1 .. n - 1 : U[j] = T[j + 1]
  BY <1>2
<1> HIDE DEF U
<1>4. \A i \in 1 .. m : /\ i \in 0 .. m /\ i - 1 \in 0 .. m /\ q[i] \in 0 .. n /\ q[i - 1] \in 0 .. n
                        /\ q[i] \in 1 .. n
                        /\ q[i] = q[i - 1] + 1 \/ q[i] = q[i - 1] + 2
                        /\ U[q[i] - 1] = T[q[i]] \/ q[i] = 1
                        /\ q[i] - 1 \in 1 .. n - 1 \/ q[i] = 1
  <2> SUFFICES ASSUME NEW i \in 1 .. m
               PROVE  /\ i \in 0 .. m /\ i - 1 \in 0 .. m /\ q[i] \in 0 .. n /\ q[i - 1] \in 0 .. n
                      /\ q[i] \in 1 .. n
                      /\ q[i] = q[i - 1] + 1 \/ q[i] = q[i - 1] + 2
                      /\ U[q[i] - 1] = T[q[i]] \/ q[i] = 1
                      /\ q[i] - 1 \in 1 .. n - 1 \/ q[i] = 1
    OBVIOUS
  <2>1. i \in 0 .. m /\ i - 1 \in 0 .. m
    BY <1>3
  <2>2. q[i] \in 0 .. n /\ q[i - 1] \in 0 .. n /\ (q[i] = q[i - 1] + 1 \/ q[i] = q[i - 1] + 2)
    BY <1>1, <2>1
  <2>3. q[i] \in 1 .. n /\ (q[i] - 1 \in 1 .. n - 1 \/ q[i] = 1) /\ (q[i] - 1) + 1 = q[i]
    BY <1>3, <2>2
  <2> QED
    BY <1>3, <2>1, <2>2, <2>3
<1>5. 1 \in 1 .. m /\ 1 - 1 = 0
  BY <1>3
<1>6. q[1] = 1 \/ q[1] = 2
  BY <1>1, <1>5
<1>7. CASE q[1] = 2
  <2>1. T[2] = Text(W[1], 1, 2) /\ T[1] = Text(W[1], 0, 1) /\ len = 0
    BY <1>1, <1>5, <1>7
  <2>2. Len(U) # 0 /\ U # << >> /\ Len(U) \in Nat /\ 2 \in 1 .. n
    BY <1>3, <1>4, <1>5, <1>7
  <2> DEFINE r == [i \in 0 .. m |-> IF i = 0 THEN 0 ELSE q[i] - 1]
  <2>3. r \in [0 .. m -> 0 .. Len(U)] /\ r[0] = 0 /\ r[m] = Len(U)
    <3>1. \A i \in 0 .. m : (IF i = 0 THEN 0 ELSE q[i] - 1) \in 0 .. Len(U)
      <4> SUFFICES ASSUME NEW i \in 1 .. m PROVE q[i] - 1 \in 0 .. Len(U)
        BY <1>3
      <4> QED
        BY <1>3, <1>4
    <3>2. r \in [0 .. m -> 0 .. Len(U)]
      BY <3>1
    <3>3. m # 0 /\ m \in 0 .. m /\ 0 \in 0 .. m
      BY <1>3
    <3> QED
      BY <1>1, <1>3, <3>2, <3>3
  <2>4. ASSUME NEW i \in 1 .. m
        PROVE  /\ r[i] = r[i - 1] + 1 \/ r[i] = r[i - 1] + 2
               /\ U[r[i]] = Text(W[i], 1, 2)
               /\ r[i] = r[i - 1] + 2 => U[r[i] - 1] = Text(W[i], 0, 1) /\ (i = 1 => 1 = 0)
    <3>1. r[i] = q[i] - 1 /\ r[i - 1] = IF i = 1 THEN 0 ELSE q[i - 1] - 1
      BY <1>3
    <3> HIDE DEF r
    <3>2. CASE i = 1
      <4>1. r[i] = 1 /\ r[i - 1] = 0 /\ U[1] = T[2]
        BY <1>3, <1>7, <2>2, <3>1, <3>2
      <4> QED
        BY <2>1, <3>2, <4>1
    <3>3. CASE i # 1
      <4>1. /\ i - 1 \in 1 .. m /\ q[i - 1] \in 1 .. n /\ q[i] \in 1 .. n /\ q[i] # 1
            /\ q[i] = q[i - 1] + 1 \/ q[i] = q[i - 1] + 2
        <5>1. i - 1 \in 1 .. m
          BY <1>3, <3>3
        <5>2. q[i - 1] \in 1 .. n /\ q[i] \in 1 .. n /\ (q[i] = q[i - 1] + 1 \/ q[i] = q[i - 1] + 2)
          BY <1>4, <5>1
        <5> QED
          BY <5>1, <5>2
      <4>2. r[i - 1] = q[i - 1] - 1
        BY <3>1, <3>3
      <4>3. U[r[i]] = Text(W[i], 1, 2)
        BY <1>1, <1>4, <3>1, <4>1
      <4>4. r[i] = r[i - 1] + 1 \/ r[i] = r[i - 1] + 2
        BY <3>1, <4>1, <4>2
      <4>5. ASSUME r[i] = r[i - 1] + 2
            PROVE  U[r[i] - 1] = Text(W[i], 0, 1)
        <5>1. q[i] = q[i - 1] + 2
          BY <3>1, <4>1, <4>2, <4>5
        <5>2. T[q[i] - 1] = Text(W[i], 0, 1)
          BY <1>1, <5>1
        <5>3. r[i] - 1 \in 1 .. n - 1 /\ (r[i] - 1) + 1 = q[i] - 1
          BY <1>3, <3>1, <4>1, <5>1
        <5> QED
          BY <1>3, <5>2, <5>3
      <4> QED
        BY <3>3, <4>3, <4>4, <4>5
    <3> QED
      BY <3>2, <3>3
  <2> HIDE DEF r
  <2>5. Laid(U, W, m, 1)
    BY <2>3, <2>4 DEF Laid
  <2> QED
    BY <1>2, <2>1, <2>2, <2>5 DEF Follows, U
<1>8. CASE q[1] = 1
  <2>1. T[1] = Text(W[1], 1, 2)
    BY <1>1, <1>5, <1>8
  <2> DEFINE V == Tail(W)
             r == [i \in 0 .. m - 1 |-> q[i + 1] - 1]
  <2>2. V \in Seq(Bid) /\ Len(V) = m - 1 /\ \A i \in 1 .. m - 1 : V[i] = W[i + 1]
    BY <1>2
  <2> HIDE DEF V
  <2>3. r \in [0 .. m - 1 -> 0 .. Len(U)] /\ r[0] = 0 /\ r[m - 1] = Len(U)
    <3>1. \A i \in 0 .. m - 1 : q[i + 1] - 1 \in 0 .. Len(U)
      <4> SUFFICES ASSUME NEW i \in 0 .. m - 1 PROVE q[i + 1] - 1 \in 0 .. Len(U)
        OBVIOUS
      <4> DEFINE j == i + 1
      <4>1. j \in 1 .. m
        BY <1>3
      <4> HIDE DEF j
      <4>2. q[j] - 1 \in 0 .. Len(U)
        BY <1>3, <1>4, <4>1
      <4> QED
        BY <4>2 DEF j
    <3>2. r \in [0 .. m - 1 -> 0 .. Len(U)]
      BY <3>1
    <3>3. m - 1 \in 0 .. m - 1 /\ 0 \in 0 .. m - 1 /\ (m - 1) + 1 = m /\ 0 + 1 = 1
      BY <1>3
    <3>4. r[m - 1] = q[m] - 1 /\ r[0] = q[1] - 1
      BY <3>3
    <3> QED
      BY <1>1, <1>3, <1>8, <3>2, <3>4
  <2>4. ASSUME NEW i \in 1 .. m - 1
        PROVE  /\ r[i] = r[i - 1] + 1 \/ r[i] = r[i - 1] + 2
               /\ U[r[i]] = Text(V[i], 1, 2)
               /\ r[i] = r[i - 1] + 2 => U[r[i] - 1] = Text(V[i], 0, 1)
    <3> DEFINE j == i + 1
    <3>1. j \in 1 .. m /\ i \in 1 .. m /\ j - 1 = i /\ i - 1 \in 0 .. m - 1 /\ i \in 0 .. m - 1 /\ (i - 1) + 1 = i
      BY <1>3
    <3>2. r[i] = q[j] - 1 /\ r[i - 1] = q[i] - 1 /\ V[i] = W[j]
      BY <2>2, <3>1
    <3> HIDE DEF r, j
    <3>3. q[i] \in 1 .. n /\ q[j] \in 1 .. n /\ (q[j] = q[i] + 1 \/ q[j] = q[i] + 2)
      BY <1>4, <3>1
    <3>4. q[j] # 1 /\ U[r[i]] = T[q[j]] /\ T[q[j]] = Text(W[j], 1, 2)
      <4>1. T[q[j]] = Text(W[j], 1, 2)
        BY <1>1, <3>1
      <4>2. U[q[j] - 1] = T[q[j]] \/ q[j] = 1
        BY <1>4, <3>1
      <4>3. q[j] # 1
        BY <3>3
      <4> QED
        BY <3>2, <4>1, <4>2, <4>3
    <3>5. ASSUME r[i] = r[i - 1] + 2
          PROVE  U[r[i] - 1] = Text(V[i], 0, 1)
      <4>1. q[j] = q[j - 1] + 2
        BY <3>1, <3>2, <3>3, <3>5
      <4>2. T[q[j] - 1] = Text(W[j], 0, 1)
        BY <1>1, <3>1, <4>1
      <4>3. r[i] - 1 \in 1 .. n - 1 /\ (r[i] - 1) + 1 = q[j] - 1
        BY <1>3, <3>1, <3>2, <3>3, <4>1
      <4> QED
        BY <1>3, <3>2, <4>2, <4>3
    <3> QED
      BY <3>2, <3>3, <3>4, <3>5
  <2> HIDE DEF r
  <2>5. Laid(U, V, m - 1, 0)
    BY <2>3, <2>4 DEF Laid
  <2> QED
    BY <1>2, <2>1, <2>2, <2>5 DEF Follows, U, V
<1> QED
  BY <1>6, <1>7, <1>8

\* One message more, or none.
Gained(s, t, k) ==
    \/ Len(t.msg) = Len(s.msg)
    \/ /\ Len(t.msg) = Len(s.msg) + 1
       /\ s.session[k].want # << >> /\ t.msg[Len(t.msg)].bid = Head(s.session[k].want)
       /\ t.msg[Len(t.msg)].restarted \/ s.session[k].length = 1

\* A message is stored.
LEMMA StoreDoes ==
  ASSUME NEW s, Good(s), NEW msg \in Message, msg.forw = {}
  PROVE  LET t == CreateMessageFromBuffer(s, msg)
         IN  /\ Good(t) /\ Bids(t) = Bids(s) \cup {msg.bid} /\ t.msg = Append(s.msg, msg)
             /\ t.session = s.session /\ t.out = s.out /\ t.shut = s.shut /\ t.temp = s.temp
             /\ t.me = s.me
             /\ Grown(s, t) /\ \A i \in DOMAIN t.msg : \A p \in t.msg[i].forw :
                                 i \in DOMAIN s.msg /\ p \in s.msg[i].forw
             /\ \A k \in Conn : \A B : Moved(s, t, k, B)
<1> DEFINE t == CreateMessageFromBuffer(s, msg)
           n == Len(s.msg)
           M == Append(s.msg, msg)
<1>1. s \in State /\ s.msg \in Seq(Message) /\ n \in Nat
  BY DEF Good, State
<1>2. /\ M \in Seq(Message) /\ Len(M) = n + 1 /\ M[n + 1] = msg /\ \A i \in 1 .. n : M[i] = s.msg[i]
      /\ DOMAIN M = 1 .. n + 1 /\ DOMAIN s.msg = 1 .. n
  BY <1>1
<1>3. t = [s EXCEPT !.msg = M, !.saved = M]
  BY Zenon DEF CreateMessageFromBuffer
<1> HIDE DEF M, t
<1>4. t \in State /\ t.msg = M /\ t.saved = M /\ t.session = s.session /\ t.out = s.out /\ t.shut = s.shut
      /\ t.temp = s.temp /\ t.me = s.me
  BY <1>1, <1>2, <1>3 DEF State
<1>5. \A i \in 1 .. n + 1 : i \in 1 .. n \/ i = n + 1
  BY <1>1
<1>6. Bids(t) = Bids(s) \cup {msg.bid}
  <2>1. \A b \in Bids(t) : b \in Bids(s) \cup {msg.bid}
    BY <1>2, <1>4, <1>5 DEF Bids
  <2>2. \A b \in Bids(s) : b \in Bids(t)
    <3>1. \A i \in 1 .. n : i \in 1 .. n + 1
      BY <1>1
    <3> QED
      BY <1>2, <1>4, <3>1 DEF Bids
  <2>3. msg.bid \in Bids(t)
    <3>1. n + 1 \in 1 .. n + 1
      BY <1>1
    <3> QED
      BY <1>2, <1>4, <3>1 DEF Bids
  <2> QED
    BY <2>1, <2>2, <2>3
<1>7. Good(t)
  <2>1. Kept(t)
    BY <1>4 DEF Kept
  <2>2. \A k \in Conn : Fits(t, t.session[k])
    <3> SUFFICES ASSUME NEW k \in Conn PROVE Fits(t, t.session[k])
      OBVIOUS
    <3>1. Fits(s, s.session[k]) /\ s.session[k].NextMessagetoForward \in Nat
      BY <1>1 DEF Good, State, Sessions
    <3> QED
      BY <1>1, <1>2, <1>4, <3>1 DEF Fits
  <2> QED
    BY <1>4, <2>1, <2>2 DEF Good
<1>8. Grown(s, t)
  BY <1>1, <1>2, <1>4 DEF Grown
<1>9. ASSUME NEW i \in DOMAIN t.msg, NEW p \in t.msg[i].forw
      PROVE  i \in DOMAIN s.msg /\ p \in s.msg[i].forw
  BY <1>2, <1>4, <1>5, <1>9
<1>10. ASSUME NEW k \in Conn, NEW B
       PROVE  Moved(s, t, k, B)
  <2>1. s.shut = s.shut \/ s.shut = s.shut \cup {k}
    OBVIOUS
  <2> QED
    BY <1>4, <1>8, <1>9, <2>1 DEF Moved
<1> QED
  BY <1>4, <1>6, <1>7, <1>8, <1>9, <1>10 DEF t, M

LEMMA NewType ==
  ASSUME NEW b \in Bid, NEW me \in BBS, NEW from, NEW restarted \in BOOLEAN
  PROVE  LET m == New(b, me, from, restarted)
         IN  m \in Message /\ m.bid = b /\ m.forw = {} /\ m.restarted = restarted
<1>1. Routes[b][me] \ {from} \in SUBSET BBS /\ 0 \in 0 .. DeferCycles /\ {} \in SUBSET BBS
  BY BlockAssumption
<1>2. (IF Type[b] = "B" /\ Routes[b][me] \ {from} # {} THEN "$" ELSE "N") \in {"N", "Y", "H", "F", "$"}
  OBVIOUS
<1> QED
  BY <1>1, <1>2 DEF New, Message

\* What there is after a text, with the rest of the texts on their way.
After(s, t, k, T) ==
    \/ k \in t.shut
    \/ /\ t.shut = s.shut /\ t.out = s.out /\ ~t.session[k].FBBMsgsSent /\ T # << >>
       /\ Follows(T, t.session[k].want, t.session[k].length)
       /\ Bids(s) \cup ToSet(s.session[k].want) \subseteq Bids(t) \cup ToSet(t.session[k].want)
    \/ /\ t.shut = s.shut /\ T = << >>
       /\ \E l \in Lines : t.out[k] = Append(s.out[k], l) /\ Offer(t, t.session[k], l)
       /\ Bids(s) \cup ToSet(s.session[k].want) \subseteq Bids(t)

LEMMA DecodeDoes ==
  ASSUME NEW s, Good(s), NEW k \in Conn, NEW B, s.session[k].want # << >>,
         ~s.session[k].FBBMsgsSent, NEW restarted \in BOOLEAN,
         NEW T \in Seq(Lines), Follows(T, Tail(s.session[k].want), 0)
  PROVE  LET t == Decode(s, k, restarted)
         IN  /\ Good(t) /\ Moved(s, t, k, B) /\ After(s, t, k, T)
             /\ k \notin t.shut /\ T # << >> =>
                   /\ t.session[k].length = 0 /\ t.session[k].want = Tail(s.session[k].want)
                   /\ IsNew(t, Head(t.session[k].want))
             /\ \/ Len(t.msg) = Len(s.msg)
                \/ /\ Len(t.msg) = Len(s.msg) + 1
                   /\ t.msg[Len(t.msg)].bid = Head(s.session[k].want)
                   /\ t.msg[Len(t.msg)].restarted = restarted
<1> DEFINE e == s.session[k]
           b == Head(e.want)
           V == Tail(e.want)
           t == Decode(s, k, restarted)
<1>1. s \in State /\ e \in Sessions /\ e.want \in Seq(Bid) /\ s.me \in BBS
  BY DEF Good, State, Sessions
<1>2. b \in Bid /\ V \in Seq(Bid) /\ Len(V) = Len(e.want) - 1 /\ Len(e.want) \in Nat
      /\ ToSet(e.want) \subseteq {b} \cup ToSet(V)
  <2>1. b \in Bid /\ V \in Seq(Bid) /\ Len(V) = Len(e.want) - 1 /\ Len(e.want) \in Nat \ {0} /\ b = e.want[1]
        /\ \A i \in 1 .. Len(e.want) - 1 : V[i] = e.want[i + 1]
    BY <1>1
  <2> DEFINE W == e.want
  <2> HIDE DEF V, W
  <2>2. DOMAIN W = 1 .. Len(W) /\ DOMAIN V = 1 .. Len(W) - 1
    BY <1>1, <2>1 DEF W
  <2>3. ASSUME NEW i \in 1 .. Len(W), i # 1 PROVE \E j \in DOMAIN V : V[j] = W[i]
    <3>1. i - 1 \in 1 .. Len(W) - 1 /\ (i - 1) + 1 = i
      BY <2>1, <2>3 DEF W
    <3> QED
      BY <2>1, <2>2, <3>1 DEF W
  <2>4. ToSet(W) \subseteq {b} \cup ToSet(V)
    BY <2>1, <2>2, <2>3 DEF ToSet, W
  <2> QED
    BY <2>1, <2>4 DEF W
<1>3. CASE e.shared /\ HasRestart(s, k, b) /\ ~s.restart.live
  <2> DEFINE f == [e EXCEPT !.want = << >>]
             u == [s EXCEPT !.session = [s.session EXCEPT ![k] = f]]
  <2>1. t = Disconnect([s EXCEPT !.session[k].want = << >>], k)
    BY <1>3, Zenon DEF Decode
  <2>2. t = Disconnect(u, k)
    BY <1>1, <2>1 DEF State
  <2>3. f \in Sessions /\ f.user = e.user /\ f.Active = e.Active /\ f.hdr = e.hdr
        /\ f.NextMessagetoForward = e.NextMessagetoForward /\ Len(f.want) = 0
    <3>1. << >> \in Seq(Bid)
      OBVIOUS
    <3> QED
      BY <1>1, <3>1 DEF Sessions
  <2> HIDE DEF f, t
  <2>4. u \in State /\ u.msg = s.msg /\ u.session = [s.session EXCEPT ![k] = f] /\ u.me = s.me
        /\ u.saved = s.saved /\ u.temp = s.temp /\ u.shut = s.shut /\ u.out = s.out
    BY <1>1, <2>3 DEF State
  <2> HIDE DEF u
  <2>5. u.session[k] = f /\ \A j \in Conn \ {k} : u.session[j] = s.session[j]
    BY <1>1, <2>4 DEF State
  <2>6. Fits(u, f)
    BY <2>3, <2>4, BlockAssumption DEF Good, Fits
  <2>7. Does(s, u, k, B)
    BY <1>1, <2>3, <2>4, <2>5, <2>6, AlterDoes
  <2>8. Does(u, t, k, B) /\ k \in t.shut
    BY <2>2, <2>7, DisconnectDoes DEF Does
  <2>9. Does(s, t, k, B)
    BY <2>7, <2>8, DoesTransitive
  <2> QED
    BY <2>8, <2>9 DEF Does, After, t
<1>4. CASE ~(e.shared /\ HasRestart(s, k, b) /\ ~s.restart.live)
  <2> DEFINE f == [e EXCEPT !.want = V, !.length = 0, !.shared = FALSE]
             r == IF e.shared /\ HasRestart(s, k, b) THEN [s.restart EXCEPT !.live = FALSE] ELSE s.restart
             u == [s EXCEPT !.restart = r, !.session = [s.session EXCEPT ![k] = f]]
             msg == New(b, s.me, e.user, restarted)
             v == CreateMessageFromBuffer(u, msg)
  <2>1. r \in {NoRestart} \cup Restarts
    <3>1. s.restart \in {NoRestart} \cup Restarts
      BY <1>1 DEF State
    <3>2. HasRestart(s, k, b) => s.restart \in Restarts
      BY <3>1 DEF HasRestart
    <3>3. ASSUME s.restart \in Restarts PROVE [s.restart EXCEPT !.live = FALSE] \in Restarts
      BY <3>3 DEF Restarts
    <3> QED
      BY <3>1, <3>2, <3>3
  <2>2. t = SetupNextFBBMessage(CreateMessageFromBuffer(
              [s EXCEPT !.session[k].want = V, !.session[k].length = 0, !.session[k].shared = FALSE,
                        !.restart = r], msg), k)
    BY <1>4, Zenon DEF Decode
  <2>3. u = [s EXCEPT !.session[k].want = V, !.session[k].length = 0, !.session[k].shared = FALSE,
                      !.restart = r]
    <3> HIDE DEF r, V
    <3> QED
      BY <1>1 DEF State
  <2>4. t = SetupNextFBBMessage(v, k)
    BY <2>2, <2>3
  <2>5. f \in Sessions /\ f.user = e.user /\ f.Active = e.Active /\ f.hdr = e.hdr /\ f.want = V
        /\ f.length = 0 /\ f.FBBMsgsSent = e.FBBMsgsSent
        /\ f.NextMessagetoForward = e.NextMessagetoForward
    <3>1. V \in Seq(Bid) /\ 0 \in 0 .. 2 /\ FALSE \in BOOLEAN
      BY <1>2
    <3> HIDE DEF V, e
    <3> QED
      BY <1>1, <3>1 DEF Sessions
  <2> HIDE DEF f, r, t
  <2>6. u \in State /\ u.msg = s.msg /\ u.session = [s.session EXCEPT ![k] = f] /\ u.me = s.me
        /\ u.saved = s.saved /\ u.temp = s.temp /\ u.shut = s.shut /\ u.out = s.out
    BY <1>1, <2>1, <2>5 DEF State
  <2> HIDE DEF u
  <2>7. u.session[k] = f /\ \A j \in Conn \ {k} : u.session[j] = s.session[j]
    BY <1>1, <2>6 DEF State
  <2>8. Fits(u, f)
    <3>1. Fits(s, e)
      BY DEF Good
    <3>2. Len(V) <= MaxBlock
      BY <1>2, <3>1, BlockAssumption DEF Fits
    <3> QED
      BY <2>5, <2>6, <3>1, <3>2 DEF Fits
  <2>9. Does(s, u, k, B)
    BY <1>1, <2>5, <2>6, <2>7, <2>8, AlterDoes
  <2>10. msg \in Message /\ msg.bid = b /\ msg.forw = {} /\ msg.restarted = restarted
    BY <1>1, <1>2, NewType
  <2> HIDE DEF msg
  <2>11. Good(v) /\ Bids(v) = Bids(u) \cup {b} /\ v.msg = Append(u.msg, msg)
         /\ v.session = u.session /\ v.out = u.out /\ v.shut = u.shut /\ Moved(u, v, k, B)
    BY <2>9, <2>10, StoreDoes DEF Does
  <2> HIDE DEF v
  <2>12. v.session[k] = f
    BY <2>7, <2>11
  <2>13. Does(v, t, k, B) /\ GoesOn(v, t, k)
    BY <2>4, <2>5, <2>11, <2>12, SetupNextDoes
  <2>14. u \in State /\ v \in State /\ t \in State
    BY <2>9, <2>11, <2>13 DEF Does, Good
  <2>15. Moved(s, t, k, B)
    <3>1. Moved(s, v, k, B)
      BY <1>1, <2>9, <2>11, <2>14, MovedTransitive DEF Does
    <3> QED
      BY <1>1, <2>13, <2>14, <3>1, MovedTransitive DEF Does
  <2>16. Bids(t) = Bids(s) \cup {b}
    <3>1. Bids(u) = Bids(s) /\ Bids(t) = Bids(v)
      BY <1>1, <2>9, <2>13, <2>14, DoesBids
    <3> QED
      BY <2>11, <3>1
  <2>17. /\ Len(t.msg) = Len(s.msg) + 1 /\ t.msg[Len(t.msg)].bid = b
         /\ t.msg[Len(t.msg)].restarted = restarted
    <3>1. Len(v.msg) = Len(s.msg) + 1 /\ v.msg[Len(s.msg) + 1] = msg /\ Len(s.msg) + 1 \in DOMAIN v.msg
      BY <1>1, <2>6, <2>10, <2>11 DEF State
    <3>2. Len(t.msg) = Len(v.msg)
          /\ t.msg[Len(s.msg) + 1].bid = v.msg[Len(s.msg) + 1].bid
          /\ t.msg[Len(s.msg) + 1].restarted = v.msg[Len(s.msg) + 1].restarted
      BY <2>13, <3>1 DEF Does, Moved, Grown
    <3> QED
      BY <2>10, <3>1, <3>2
  <2>18. CASE k \in t.shut
    BY <2>13, <2>15, <2>17, <2>18 DEF After, Does, t
  <2>19. CASE k \notin t.shut /\ V # << >>
    <3>1. t.shut = s.shut /\ t.out = s.out /\ t.session[k].want = V /\ t.session[k].length = 0
          /\ ~t.session[k].FBBMsgsSent /\ IsNew(t, Head(V))
      BY <2>5, <2>6, <2>11, <2>12, <2>13, <2>19 DEF GoesOn
    <3>2. T # << >>
      BY <1>2, <2>19, FollowsEmpty
    <3>3. After(s, t, k, T)
      BY <1>2, <2>16, <3>1, <3>2 DEF After
    <3> QED
      BY <2>13, <2>15, <2>17, <3>1, <3>3 DEF Does, t
  <2>20. CASE k \notin t.shut /\ V = << >>
    <3>1. t.shut = s.shut /\ \E l \in Lines : t.out[k] = Append(s.out[k], l) /\ Offer(t, t.session[k], l)
      BY <2>5, <2>6, <2>11, <2>12, <2>13, <2>20 DEF GoesOn
    <3>2. T = << >>
      BY <1>2, <2>20, FollowsEmpty
    <3>4. ToSet(V) = {}
      BY <2>20 DEF ToSet
    <3>3. After(s, t, k, T)
      BY <1>2, <2>16, <3>1, <3>2, <3>4 DEF After
    <3> QED
      BY <2>13, <2>15, <2>17, <3>2, <3>3 DEF Does, t
  <2> QED
    BY <2>18, <2>19, <2>20
<1> QED
  BY <1>3, <1>4

LEMMA UnpackDoes ==
  ASSUME NEW s, Good(s), NEW k \in Conn, NEW B, ~s.session[k].FBBMsgsSent,
         NEW T \in Seq(Lines), T # << >>, Follows(T, s.session[k].want, s.session[k].length)
  PROVE  LET t == UnpackFBBBinary(s, k, Head(T))
         IN  /\ Good(t) /\ Moved(s, t, k, B) /\ After(s, t, k, Tail(T)) /\ Gained(s, t, k)
             /\ k \notin t.shut /\ Tail(T) # << >> =>
                   \/ /\ t.session[k].want = s.session[k].want /\ t.session[k].length = 1
                      /\ T[1] = Text(s.session[k].want[1], 0, 1) /\ t.msg = s.msg
                   \/ /\ t.session[k].want = Tail(s.session[k].want) /\ t.session[k].length = 0
                      /\ IsNew(t, Head(t.session[k].want))
<1> DEFINE e == s.session[k]
           l == Head(T)
           first == e.length = 0
           restart == l.from = 1 /\ first
           f == [e EXCEPT !.length = l.upto, !.shared = @ \/ restart]
           u == [s EXCEPT !.session = [s.session EXCEPT ![k] = f]]
           t == UnpackFBBBinary(s, k, l)
<1>1. s \in State /\ e \in Sessions /\ e.want \in Seq(Bid)
  BY DEF Good, State, Sessions
<1>2. /\ e.want # << >>
      /\ \/ /\ T[1] = Text(e.want[1], 0, 1) /\ e.length = 0
            /\ Tail(T) # << >> /\ Follows(Tail(T), e.want, 1)
         \/ /\ T[1] = Text(e.want[1], 1, 2)
            /\ Follows(Tail(T), Tail(e.want), 0)
  BY <1>1, FollowsNext
<1>3. l = T[1] /\ Tail(T) \in Seq(Lines)
  OBVIOUS
<1>4. [s EXCEPT !.session[k].length = l.upto, !.session[k].shared = s.session[k].shared \/ restart] = u
  BY <1>1 DEF State
<1>5. t = IF restart /\ ~HasRestart(s, k, Head(e.want)) THEN Disconnect(s, k)
          ELSE IF l.upto = 2 THEN Decode(u, k, restart) ELSE u
  <2>1. t = IF e.want = << >> THEN s
            ELSE IF restart /\ ~HasRestart(s, k, Head(e.want)) THEN Disconnect(s, k)
            ELSE IF l.upto = 2
            THEN Decode([s EXCEPT !.session[k].length = l.upto,
                                  !.session[k].shared = s.session[k].shared \/ restart], k, restart)
            ELSE [s EXCEPT !.session[k].length = l.upto, !.session[k].shared = s.session[k].shared \/ restart]
    BY Zenon DEF UnpackFBBBinary
  <2> HIDE DEF t, u, l, f
  <2> QED
    BY <1>2, <1>4, <2>1
<1>6. l.upto \in {1, 2} /\ l.from \in {0, 1} /\ (l.upto = 1 <=> l.from = 0)
      /\ (l.upto = 1 <=> T[1] = Text(e.want[1], 0, 1)) /\ (l.upto = 2 <=> T[1] = Text(e.want[1], 1, 2))
  BY <1>2, <1>3 DEF Text
<1> HIDE DEF l, restart
<1>7. f \in Sessions /\ f.user = e.user /\ f.Active = e.Active /\ f.hdr = e.hdr /\ f.want = e.want
      /\ f.length = l.upto /\ f.FBBMsgsSent = e.FBBMsgsSent
      /\ f.NextMessagetoForward = e.NextMessagetoForward
  <2>1. l.upto \in 0 .. 2 /\ (e.shared \/ restart) \in BOOLEAN
    BY <1>6
  <2> QED
    BY <1>1, <2>1 DEF Sessions
<1> HIDE DEF f, t
<1>8. u \in State /\ u.msg = s.msg /\ u.session = [s.session EXCEPT ![k] = f] /\ u.me = s.me
      /\ u.saved = s.saved /\ u.temp = s.temp /\ u.shut = s.shut /\ u.out = s.out
  BY <1>1, <1>7 DEF State
<1> HIDE DEF u
<1>9. u.session[k] = f /\ \A j \in Conn \ {k} : u.session[j] = s.session[j]
  BY <1>1, <1>8 DEF State
<1>10. Fits(u, f)
  BY <1>7, <1>8 DEF Good, Fits
<1>11. Does(s, u, k, B)
  BY <1>1, <1>7, <1>8, <1>9, <1>10, AlterDoes
<1>12. CASE restart /\ ~HasRestart(s, k, Head(e.want))
  <2>1. Does(s, t, k, B) /\ k \in t.shut
    BY <1>5, <1>12, DisconnectDoes
  <2> QED
    BY <2>1 DEF Does, After, Gained, t, l
<1>13. CASE ~(restart /\ ~HasRestart(s, k, Head(e.want))) /\ l.upto = 1
  <2>1. t = u /\ Tail(T) # << >> /\ Follows(Tail(T), e.want, 1) /\ T[1] = Text(e.want[1], 0, 1)
    <3>1. T[1] = Text(e.want[1], 0, 1) /\ T[1] # Text(e.want[1], 1, 2)
      BY <1>6, <1>13
    <3> QED
      BY <1>2, <1>5, <1>13, <3>1
  <2>2. Bids(s) \cup ToSet(e.want) \subseteq Bids(t) \cup ToSet(t.session[k].want)
    BY <1>7, <1>8, <1>9, <2>1 DEF Bids
  <2>3. After(s, t, k, Tail(T))
    BY <1>7, <1>8, <1>9, <1>13, <2>1, <2>2 DEF After
  <2> QED
    BY <1>7, <1>8, <1>9, <1>11, <1>13, <2>1, <2>3 DEF Does, Gained, t, l
<1>14. CASE ~(restart /\ ~HasRestart(s, k, Head(e.want))) /\ l.upto = 2
  <2>1. t = Decode(u, k, restart) /\ Follows(Tail(T), Tail(e.want), 0)
    <3>1. T[1] = Text(e.want[1], 1, 2) /\ T[1] # Text(e.want[1], 0, 1)
      BY <1>6, <1>14
    <3> QED
      BY <1>2, <1>5, <1>14, <3>1
  <2>2. restart \in BOOLEAN /\ (~restart => e.length = 1)
    <3>1. l.from = 1
      BY <1>6, <1>14
    <3>2. ~restart => e.length # 0
      BY <3>1 DEF restart
    <3>3. e.length # 2
      BY DEF Follows
    <3>4. e.length \in 0 .. 2
      BY <1>1 DEF Sessions
    <3> QED
      BY <3>2, <3>3, <3>4 DEF restart
  <2>3. /\ Good(t) /\ Moved(u, t, k, B) /\ After(u, t, k, Tail(T))
        /\ k \notin t.shut /\ Tail(T) # << >> =>
              /\ t.session[k].length = 0 /\ t.session[k].want = Tail(e.want)
              /\ IsNew(t, Head(t.session[k].want))
        /\ \/ Len(t.msg) = Len(u.msg)
           \/ /\ Len(t.msg) = Len(u.msg) + 1
              /\ t.msg[Len(t.msg)].bid = Head(e.want)
              /\ t.msg[Len(t.msg)].restarted = restart
    <3>1. Good(u) /\ u.session[k].want = e.want /\ ~u.session[k].FBBMsgsSent
      BY <1>7, <1>9, <1>11 DEF Does
    <3> DEFINE U == Tail(T)
    <3>2. U \in Seq(Lines) /\ Follows(U, Tail(u.session[k].want), 0) /\ u.session[k].want # << >>
      BY <1>2, <1>3, <2>1, <3>1
    <3> HIDE DEF U
    <3>3. Good(t) /\ Moved(u, t, k, B) /\ After(u, t, k, U)
      BY <2>1, <2>2, <3>1, <3>2, DecodeDoes
    <3>4. k \notin t.shut /\ U # << >> =>
             /\ t.session[k].length = 0 /\ t.session[k].want = Tail(u.session[k].want)
             /\ IsNew(t, Head(t.session[k].want))
      BY <2>1, <2>2, <3>1, <3>2, <3>3, DecodeDoes
    <3>5. \/ Len(t.msg) = Len(u.msg)
          \/ /\ Len(t.msg) = Len(u.msg) + 1
             /\ t.msg[Len(t.msg)].bid = Head(u.session[k].want)
             /\ t.msg[Len(t.msg)].restarted = restart
      BY <2>1, <2>2, <3>1, <3>2, <3>3, DecodeDoes
    <3> QED
      BY <3>1, <3>3, <3>4, <3>5 DEF U
  <2>4. Moved(s, t, k, B)
    BY <1>1, <1>8, <1>11, <2>3, MovedTransitive DEF Does, Good
  <2>5. After(s, t, k, Tail(T))
    <3>1. Bids(u) = Bids(s) /\ u.session[k].want = e.want
      BY <1>7, <1>8, <1>9 DEF Bids
    <3> QED
      BY <1>8, <2>3, <3>1 DEF After
  <2>6. Gained(s, t, k)
    BY <1>2, <1>8, <2>2, <2>3 DEF Gained
  <2> QED
    BY <2>3, <2>4, <2>5, <2>6 DEF t, l
<1> QED
  BY <1>6, <1>12, <1>13, <1>14

-----------------------------------------------------------------------------
(* Sequences of one and of two.                                            *)

LEMMA Two ==
  ASSUME NEW S, NEW a \in S, NEW b \in S
  PROVE  /\ Append(<< >>, a) = << a >> /\ << a >> \in Seq(S) /\ Len(<< a >>) = 1 /\ << a >>[1] = a
         /\ Append(<< a >>, b) = << a, b >> /\ << a, b >> \in Seq(S)
         /\ Len(<< a, b >>) = 2 /\ << a, b >>[1] = a /\ << a, b >>[2] = b
<1>1. << a >> \in Seq(S) /\ << a, b >> \in Seq(S)
  OBVIOUS
<1>2. Len(<< a >>) = 1 /\ << a >>[1] = a
  OBVIOUS
<1>3. Len(<< a, b >>) = 2 /\ << a, b >>[1] = a /\ << a, b >>[2] = b
  OBVIOUS
<1>4. Append(<< >>, a) = << a >>
  OBVIOUS
<1>5. ASSUME NEW q \in Seq(S), Len(q) = 1, NEW r \in Seq(S), Len(r) = 2, q[1] = r[1], r[2] = b
      PROVE  Append(q, b) = r
  <2>1. Append(q, b) \in Seq(S) /\ Len(Append(q, b)) = Len(q) + 1
    OBVIOUS
  <2>2. Append(q, b)[1] = q[1]
    <3>1. \A i \in 1 .. Len(q) : Append(q, b)[i] = q[i]
      OBVIOUS
    <3>2. 1 \in 1 .. Len(q)
      BY <1>5
    <3> QED
      BY <3>1, <3>2
  <2>4. Append(q, b)[Len(q) + 1] = b
    OBVIOUS
  <2> DEFINE w == Append(q, b)
  <2> HIDE DEF w
  <2>3. w = r
    BY <1>5, <2>1, <2>2, <2>4 DEF w
  <2> QED
    BY <2>3 DEF w
<1>6. Append(<< a >>, b) = << a, b >>
  BY <1>1, <1>2, <1>3, <1>5
<1> QED
  BY <1>1, <1>2, <1>3, <1>4, <1>6

LEMMA Rest ==
  ASSUME NEW S, NEW w \in Seq(S)
  PROVE  /\ w # << >> => Head(w) = w[1] /\ w[1] \in S /\ Tail(w) \in Seq(S) /\ Len(Tail(w)) = Len(w) - 1
         /\ << >> \o w = w /\ (Len(w) # 0 => w # << >>)
         /\ Len(w) = 1 => Tail(w) = << >>
         /\ Len(w) = 2 => Tail(w) # << >> /\ Len(Tail(w)) = 1 /\ Tail(w)[1] = w[2]
<1>1. w # << >> => Head(w) = w[1] /\ w[1] \in S /\ Tail(w) \in Seq(S) /\ Len(Tail(w)) = Len(w) - 1
  OBVIOUS
<1>2. Len(w) = 1 => w # << >>
  OBVIOUS
<1>3. Len(w) = 2 => w # << >>
  OBVIOUS
<1>4. ASSUME NEW v \in Seq(S), Len(v) = 0 PROVE v = << >>
  BY <1>4
<1>5. ASSUME Len(w) = 1 PROVE Tail(w) = << >>
  <2> DEFINE v == Tail(w)
  <2>1. v \in Seq(S) /\ Len(v) = 0
    BY <1>1, <1>2, <1>5
  <2> HIDE DEF v
  <2>2. v = << >>
    BY <1>4, <2>1
  <2> QED
    BY <2>2 DEF v
<1>6. ASSUME Len(w) = 2 PROVE Tail(w)[1] = w[2]
  <2>1. \A i \in 1 .. Len(w) - 1 : Tail(w)[i] = w[i + 1]
    BY <1>3, <1>6
  <2>2. 1 \in 1 .. Len(w) - 1 /\ 1 + 1 = 2
    BY <1>6
  <2> QED
    BY <2>1, <2>2
<1>7. ASSUME Len(w) = 2 PROVE Tail(w) # << >>
  <2> DEFINE v == Tail(w)
  <2>1. Len(v) = 1
    BY <1>1, <1>3, <1>7
  <2> HIDE DEF v
  <2>2. v # << >>
    BY <2>1
  <2> QED
    BY <2>2 DEF v
<1>8. << >> \o w = w /\ (Len(w) # 0 => w # << >>)
  OBVIOUS
<1> QED
  BY <1>1, <1>2, <1>3, <1>5, <1>6, <1>7, <1>8

-----------------------------------------------------------------------------
(* A line of the dialogue.                                                 *)

\* The messages that session e of x has in its block.
Proposed(x, e) == {x.msg[i].bid : i \in ToSet(e.hdr) \cap DOMAIN x.msg}

\* End y has become t.  What is new among what it is being sent from its start was
\* not coming before and has been noted; the first message it waits for is one that
\* it does not have, or was the first before; and it waits for none that it did not
\* wait for, or that x has not offered.  For x there is nothing new.
Passes(k, x, y, t, wx, wy, ux, uy) ==
    /\ \A b \in Arriving(k, x, t, ux, uy) :
          \/ b \in Arriving(k, x, y, wx, wy)
          \/ ~LookupTempBID(y, b) /\ IsNew(y, b) /\ Came(b, k) \in t.temp /\ b \in Bids(x)
    /\ Arriving(k, t, x, uy, ux) \subseteq Arriving(k, y, x, wy, wx)
    /\ t.session[k].want # << >> =>
          \/ IsNew(t, Head(t.session[k].want))
          \/ t.session[k].want = y.session[k].want /\ Len(t.msg) = Len(y.msg)
    /\ ToSet(t.session[k].want) \subseteq ToSet(y.session[k].want) \cup Proposed(x, x.session[k])

\* After end y has taken its first line and become t: the session has ended, or
\* the dialogue has gone on.
Result(k, x, y, t, wx, wy) ==
    /\ Good(t) /\ Moved(y, t, k, Bids(x)) /\ Gained(y, t, k)
    /\ k \notin t.shut =>
          /\ \/ Phase(k, x, t, wx \o t.out[k], Tail(wy))
             \/ Phase(k, t, x, Tail(wy), wx \o t.out[k])
          /\ Passes(k, x, y, t, wx, wy, wx \o t.out[k], Tail(wy))

LEMMA NothingArrives ==
  ASSUME NEW k, NEW x, NEW y, NEW wx, NEW wy, wx = << >> \/ wx[1].kind # "FS",
         \A i \in DOMAIN wy : wy[i].kind # "text", y.session[k].length # 1
  PROVE  Arriving(k, x, y, wx, wy) = {}
<1>1. FreshBids(wy) = {}
  BY DEF FreshBids
<1> QED
  BY <1>1 DEF Arriving

\* Before an offer is taken nothing is on its way.
LEMMA TurnQuiet ==
  ASSUME NEW k, NEW x, NEW y, NEW wx, NEW wy \in Seq(Lines), Turn(k, x, y, wx, wy)
  PROVE  Arriving(k, x, y, wx, wy) = {} /\ Arriving(k, y, x, wy, wx) = {}
<1>1. /\ wx = << >> /\ wy # << >> /\ Offer(x, x.session[k], wy[Len(wy)])
      /\ Len(wy) = 1 \/ (Len(wy) = 2 /\ wy[1] = Line("SID"))
      /\ x.session[k].length = 0 /\ y.session[k].length = 0
  BY DEF Turn, Waiting, Offer, Idle
<1>2. \A i \in DOMAIN wy : wy[i].kind # "text" /\ wy[i].kind # "FS"
  <2>1. \A i \in DOMAIN wy : i = Len(wy) \/ (i = 1 /\ wy[1] = Line("SID"))
    BY <1>1
  <2>2. wy[Len(wy)].kind \in {"FA", "FF", "FQ"} /\ Line("SID").kind = "SID"
    BY <1>1 DEF Offer, Line
  <2> QED
    BY <2>1, <2>2
<1>3. 1 \in DOMAIN wy /\ \A i \in DOMAIN wx : wx[i].kind # "text"
  BY <1>1
<1>4. Arriving(k, x, y, wx, wy) = {}
  BY <1>1, <1>2, NothingArrives
<1>5. Arriving(k, y, x, wy, wx) = {}
  BY <1>1, <1>2, <1>3, NothingArrives
<1> QED
  BY <1>4, <1>5

LEMMA TurnPasses ==
  ASSUME NEW k, NEW x, NEW y, NEW t, NEW wx, NEW wy, NEW ux, NEW uy,
         \/ Turn(k, x, t, ux, uy) /\ uy \in Seq(Lines)
         \/ Turn(k, t, x, uy, ux) /\ ux \in Seq(Lines)
  PROVE  Passes(k, x, y, t, wx, wy, ux, uy)
<1>1. Arriving(k, x, t, ux, uy) = {} /\ Arriving(k, t, x, uy, ux) = {}
  BY TurnQuiet
<1>2. t.session[k].want = << >>
  BY DEF Turn, Waiting, Offer, Idle
<1>3. ToSet(t.session[k].want) = {}
  BY <1>2 DEF ToSet
<1> QED
  BY <1>1, <1>2, <1>3 DEF Passes

\* What is waited for after a block was in it.
LEMMA WantedOffered ==
  ASSUME NEW a \in Seq(Answer), NEW bids \in Seq(Bid), NEW W \in Seq(Bid), NEW B,
         Replied(a, bids, W, B)
  PROVE  ToSet(W) \subseteq ToSet(bids)
<1> DEFINE m == Len(a)
<1>1. PICK g \in [0 .. m -> 0 .. Len(W)] :
         /\ g[0] = 0 /\ g[m] = Len(W)
         /\ \A i \in DOMAIN a :
               IF a[i] \in Wanted THEN g[i] = g[i - 1] + 1 /\ W[g[i]] = bids[i]
               ELSE g[i] = g[i - 1]
  BY DEF Replied, RepliedTo
<1>2. m \in Nat /\ Len(W) \in Nat /\ DOMAIN a = 1 .. m /\ DOMAIN bids = 1 .. m /\ DOMAIN W = 1 .. Len(W)
  BY DEF Replied
<1> HIDE DEF m
<1> DEFINE S == {i \in Nat : i <= m => \A j \in 1 .. g[i] : W[j] \in ToSet(bids)}
<1>3. 0 \in S
  BY <1>1
<1>4. ASSUME NEW i \in S
      PROVE  i + 1 \in S
  <2>1. SUFFICES ASSUME i + 1 <= m, NEW j \in 1 .. g[i + 1]
                 PROVE  W[j] \in ToSet(bids)
    OBVIOUS
  <2>2. i \in 0 .. m /\ i + 1 \in 1 .. m /\ i + 1 \in 0 .. m /\ (i + 1) - 1 = i /\ i <= m
    BY <1>2, <2>1
  <2>3. g[i] \in Nat /\ g[i + 1] \in Nat
    BY <1>1, <1>2, <2>2
  <2>4. (g[i + 1] = g[i] + 1 /\ W[g[i + 1]] = bids[i + 1]) \/ g[i + 1] = g[i]
    BY <1>1, <1>2, <2>2
  <2>5. j \in 1 .. g[i] \/ (j = g[i + 1] /\ W[j] = bids[i + 1])
    BY <2>1, <2>3, <2>4
  <2>6. \A r \in 1 .. g[i] : W[r] \in ToSet(bids)
    BY <2>2
  <2>7. bids[i + 1] \in ToSet(bids)
    BY <1>2, <2>2 DEF ToSet
  <2> QED
    BY <2>5, <2>6, <2>7
<1>5. m \in S
  <2>1. S \in SUBSET Nat
    OBVIOUS
  <2> HIDE DEF S
  <2> QED
    BY <1>2, <1>3, <1>4, <2>1, NatInductionOnSet
<1>6. \A j \in DOMAIN W : W[j] \in ToSet(bids)
  BY <1>1, <1>2, <1>5
<1> QED
  BY <1>6 DEF ToSet

\* What is offered is there.
LEMMA OfferedBids ==
  ASSUME NEW x \in State, NEW e, ToSet(e.hdr) \subseteq DOMAIN x.msg
  PROVE  ToSet(Offered(x, e)) \subseteq Proposed(x, e) /\ Proposed(x, e) \subseteq Bids(x)
<1>1. \A i \in DOMAIN e.hdr : e.hdr[i] \in DOMAIN x.msg
  BY DEF ToSet
<1>2. ToSet(Offered(x, e)) \subseteq Proposed(x, e)
  BY <1>1 DEF Offered, Proposed, ToSet
<1> QED
  BY <1>2 DEF Proposed, Bids

LEMMA PromptResult ==
  ASSUME NEW k \in Conn, NEW x, Good(x), NEW y, Good(y), NEW wx, NEW wy,
         Greeting(y.session[k], x.session[k], wy, wx), y.out[k] = << >>
  PROVE  Result(k, x, y, ProcessFBBLine(y, k, Head(wy)), wx, wy)
<1> DEFINE t == ProcessFBBLine(y, k, Head(wy))
           u == Send(y, k, Line("SID"))
<1>1. wx = << >> /\ wy = << Line("prompt") >> /\ Idle(x.session[k]) /\ Idle(y.session[k])
  BY DEF Greeting
<1>2. t = FBBDoForward(u, k, "FF")
  BY <1>1 DEF ProcessFBBLine, Line
<1> HIDE DEF t
<1>3. Line("SID") \in Lines
  BY DEF Line, Lines
<1>4. Does(y, u, k, Bids(x)) /\ u.out[k] = << Line("SID") >> /\ u.session = y.session
  <2>1. Append(<< >>, Line("SID")) = << Line("SID") >>
    OBVIOUS
  <2>2. Does(y, u, k, Bids(x)) /\ u.out[k] = Append(y.out[k], Line("SID")) /\ u.session = y.session
    BY <1>3, SendDoes
  <2> QED
    BY <2>1, <2>2
<1> HIDE DEF u
<1>5. Does(u, t, k, Bids(x)) /\ \E l \in Lines : t.out[k] = Append(u.out[k], l) /\ Offer(t, t.session[k], l)
  BY <1>1, <1>2, <1>4, DoForwardDoes DEF Does
<1>6. PICK l \in Lines : t.out[k] = Append(u.out[k], l) /\ Offer(t, t.session[k], l)
  BY <1>5
<1>7. Does(y, t, k, Bids(x))
  BY <1>4, <1>5, DoesTransitive
<1> DEFINE o == << Line("SID"), l >>
<1>8. t.out[k] = o /\ Len(o) = 2 /\ o[1] = Line("SID") /\ o[2] = l /\ o # << >> /\ << >> \o o = o
  <2> DEFINE c == Line("SID")
  <2>1. c \in Lines /\ l \in Lines /\ t.out[k] = Append(<< c >>, l)
    BY <1>3, <1>4, <1>6
  <2> HIDE DEF c
  <2>2. Append(<< c >>, l) = << c, l >> /\ << c, l >> \in Seq(Lines) /\ Len(<< c, l >>) = 2
        /\ << c, l >>[1] = c /\ << c, l >>[2] = l
    BY <2>1, Two
  <2> DEFINE w == << c, l >>
  <2>3. w \in Seq(Lines) /\ Len(w) = 2 /\ t.out[k] = w /\ w[1] = c /\ w[2] = l
    BY <2>1, <2>2
  <2> HIDE DEF w
  <2>4. w # << >> /\ << >> \o w = w
    BY <2>3, Rest
  <2> QED
    BY <2>3, <2>4 DEF c, w
<1>9. Tail(wy) = << >> /\ wx \o t.out[k] = o /\ o \in Seq(Lines)
  BY <1>1, <1>3, <1>6, <1>8
<1> HIDE DEF o
<1>10. Turn(k, t, x, << >>, o)
  BY <1>1, <1>6, <1>8 DEF Turn, Idle, Delivered
<1>11. Passes(k, x, y, t, wx, wy, o, << >>)
  BY <1>9, <1>10, TurnPasses
<1> QED
  BY <1>7, <1>9, <1>10, <1>11 DEF Result, Does, Gained, Phase, t

LEMMA SIDResult ==
  ASSUME NEW k \in Conn, NEW x, Good(x), NEW y, Good(y), NEW wx, NEW wy,
         Turn(k, x, y, wx, wy), Len(wy) = 2, wy \in Seq(Lines), y.out[k] = << >>,
         y.session[k].user \in BBS
  PROVE  Result(k, x, y, ProcessFBBLine(y, k, Head(wy)), wx, wy)
<1> DEFINE t == ProcessFBBLine(y, k, Head(wy))
           p == y.session[k].user
           u == [y EXCEPT !.Forwarding[p] = TRUE]
<1>1. y \in State /\ Head(wy) = Line("SID")
  BY DEF Good, Turn
<1>2. t = IF y.Forwarding[p] THEN Disconnect(y, k) ELSE u
  BY <1>1 DEF ProcessFBBLine, Line, ProcessSID
<1>3. CASE y.Forwarding[p]
  <2>1. Does(y, t, k, Bids(x)) /\ k \in t.shut
    BY <1>2, <1>3, DisconnectDoes
  <2> QED
    BY <2>1 DEF Does, Gained, Result
<1>4. CASE ~y.Forwarding[p]
  <2>1. u \in State /\ u.msg = y.msg /\ u.session = y.session /\ u.me = y.me
        /\ u.saved = y.saved /\ u.temp = y.temp /\ u.shut = y.shut /\ u.out = y.out
    BY <1>1 DEF State
  <2>2. t = u
    BY <1>2, <1>4
  <2> HIDE DEF u, t
  <2>3. Fits(u, u.session[k])
    BY <2>1 DEF Good, Fits
  <2>4. Does(y, u, k, Bids(x))
    BY <1>1, <2>1, <2>3, AlterDoes
  <2> DEFINE wz == Tail(wy)
  <2>5. wz # << >> /\ Len(wz) = 1 /\ wz[Len(wz)] = wy[Len(wy)] /\ wz \in Seq(Lines)
    <3>1. wz # << >> /\ Len(wz) = 1 /\ wz[Len(wz)] = wy[Len(wy)]
      BY Rest
    <3>2. wy # << >>
      BY Rest
    <3> QED
      BY <3>1, <3>2
  <2>6. wx = << >> /\ u.out[k] = << >> /\ wx \o u.out[k] = << >>
    <3>1. << >> \o << >> = << >>
      OBVIOUS
    <3> QED
      BY <2>1, <3>1 DEF Turn
  <2> HIDE DEF wz
  <2>7. Turn(k, x, u, << >>, wz)
    BY <2>1, <2>5, <2>6 DEF Turn, Delivered
  <2>8. Passes(k, x, y, u, wx, wy, << >>, wz)
    BY <2>5, <2>7, TurnPasses
  <2> QED
    BY <2>2, <2>4, <2>6, <2>7, <2>8 DEF Result, Does, Gained, Phase, wz, t
<1> QED
  BY <1>3, <1>4

\* The words of an offer.
LEMMA OfferResult ==
  ASSUME NEW k \in Conn, NEW x, Good(x), NEW y, Good(y), NEW wx, NEW wy,
         Turn(k, x, y, wx, wy), Len(wy) = 1, wy \in Seq(Lines), y.out[k] = << >>,
         y.session[k].user \in BBS
  PROVE  Result(k, x, y, ProcessFBBLine(y, k, Head(wy)), wx, wy)
<1> DEFINE t == ProcessFBBLine(y, k, Head(wy))
           l == Head(wy)
           B == Bids(x)
           f == FlagSentMessages(y, k)
<1>1. /\ y \in State /\ x \in State /\ l \in Lines /\ l = wy[Len(wy)] /\ Tail(wy) = << >>
      /\ wx = << >> /\ Offer(x, x.session[k], l) /\ Waiting(y.session[k]) /\ Delivered(y, y.session[k], B)
  <2>1. l \in Lines /\ l = wy[Len(wy)] /\ Tail(wy) = << >>
    <3>1. wy # << >>
      BY DEF Turn
    <3> QED
      BY <3>1, Rest
  <2> HIDE DEF l, B
  <2> QED
    BY <2>1 DEF Good, Turn, B
<1>2. Idle(x.session[k]) /\ l.kind \in {"FA", "FF", "FQ"}
  BY <1>1 DEF Offer
<1>3. Does(y, f, k, B) /\ f.out = y.out /\ Idle(f.session[k])
  <2> HIDE DEF B
  <2> QED
    BY <1>1, FlagSentDoes DEF Waiting, Idle
<1>4. CASE l.kind = "FQ"
  <2>1. t = Disconnect(f, k)
    BY <1>4 DEF ProcessFBBLine
  <2> HIDE DEF f, t
  <2>2. Does(f, t, k, B) /\ k \in t.shut
    BY <1>3, <2>1, DisconnectDoes DEF Does
  <2>3. Does(y, t, k, B)
    BY <1>3, <2>2, DoesTransitive
  <2> QED
    BY <2>2, <2>3 DEF Does, Gained, Result, t
<1>5. CASE l.kind = "FF"
  <2>1. t = FBBDoForward(f, k, "FQ")
    BY <1>5 DEF ProcessFBBLine
  <2> HIDE DEF f, t
  <2>2. Does(f, t, k, B) /\ \E o \in Lines : t.out[k] = Append(f.out[k], o) /\ Offer(t, t.session[k], o)
    BY <1>3, <2>1, DoForwardDoes DEF Does
  <2>3. PICK o \in Lines : t.out[k] = Append(f.out[k], o) /\ Offer(t, t.session[k], o)
    BY <2>2
  <2>4. Does(y, t, k, B)
    BY <1>3, <2>2, DoesTransitive
  <2> DEFINE w == << o >>
  <2>5. t.out[k] = w /\ w # << >> /\ Len(w) = 1 /\ w[Len(w)] = o /\ << >> \o w = w /\ w \in Seq(Lines)
    <3>1. Append(<< >>, o) = w
      OBVIOUS
    <3> QED
      BY <1>3, <2>3, <3>1
  <2> HIDE DEF w
  <2>6. Turn(k, t, x, << >>, w)
    BY <1>2, <2>3, <2>5 DEF Turn, Idle, Delivered
  <2>7. Passes(k, x, y, t, wx, wy, w, << >>)
    BY <2>5, <2>6, TurnPasses
  <2> QED
    BY <1>1, <2>4, <2>5, <2>6, <2>7 DEF Result, Does, Gained, Phase, t
<1>6. CASE l.kind = "FA"
  <2>1. t = ProcessBlock(y, k, l.bids)
    BY <1>6 DEF ProcessFBBLine
  <2>2. l.bids = Offered(x, x.session[k]) /\ ToSet(x.session[k].hdr) \subseteq DOMAIN x.msg
    BY <1>1, <1>6 DEF Offer
  <2>3. l.bids \in Seq(Bid) /\ Len(l.bids) <= MaxBlock
    <3>1. l.bids \in Seq(Bid)
      BY <1>1, <1>6 DEF Lines
    <3>2. x.session[k].hdr \in Seq(Nat) /\ Len(x.session[k].hdr) <= MaxBlock
      BY <1>1 DEF Good, Fits, State, Sessions
    <3>3. DOMAIN l.bids = 1 .. Len(l.bids) /\ Len(l.bids) \in Nat
      BY <3>1
    <3>4. DOMAIN l.bids = 1 .. Len(x.session[k].hdr) /\ Len(x.session[k].hdr) \in Nat
      BY <2>2, <3>2 DEF Offered
    <3>5. Len(l.bids) = Len(x.session[k].hdr)
      <4> DEFINE i == Len(l.bids)
                 j == Len(x.session[k].hdr)
      <4>1. 1 .. i = 1 .. j /\ i \in Nat /\ j \in Nat
        BY <3>3, <3>4
      <4> HIDE DEF i, j
      <4> QED
        BY <4>1 DEF i, j
    <3> QED
      BY <3>1, <3>2, <3>5
  <2> HIDE DEF l, t, B
  <2>4. Answering(y, t, k, l.bids, B)
    <3>1. Answering(y, ProcessBlock(y, k, l.bids), k, l.bids, B)
      BY <1>1, <2>3, ProcessBlockDoes
    <3> QED
      BY <2>1, <3>1
  <2>5. CASE k \in t.shut
    BY <2>4, <2>5 DEF Answering, Does, Gained, Result, t, l, B
  <2>6. CASE k \notin t.shut
    <3>1. PICK a \in Seq(Answer) :
             /\ Replied(a, l.bids, t.session[k].want, Bids(t)) /\ Noted(a, l.bids, y, t, k)
             /\ \/ /\ t.session[k].want # << >> /\ IsNew(t, Head(t.session[k].want))
                   /\ t.out[k] = Append(<< >>, [kind |-> "FS", answers |-> a])
                \/ /\ t.session[k].want = << >>
                   /\ \E o \in Lines : /\ t.out[k] = Append(Append(<< >>, [kind |-> "FS", answers |-> a]), o)
                                       /\ Offer(t, t.session[k], o)
      BY <2>4, <2>6 DEF Answering
    <3> DEFINE A == [kind |-> "FS", answers |-> a]
    <3>2. A.kind = "FS" /\ A.answers = a
      OBVIOUS
    <3> HIDE DEF A
    <3>3. ~t.session[k].FBBMsgsSent /\ t.session[k].length = 0
      BY <2>4, <2>6 DEF Answering
    <3>4. \E w : /\ t.out[k] = w /\ w # << >> /\ w[1] = A /\ << >> \o w = w
                 /\ IF t.session[k].want # << >> THEN Len(w) = 1
                    ELSE Len(w) = 2 /\ Offer(t, t.session[k], w[2])
      <4>1. CASE t.session[k].want # << >>
        <5> DEFINE w == << A >>
        <5>1. t.out[k] = w /\ w # << >> /\ w[1] = A /\ << >> \o w = w /\ Len(w) = 1
          BY <3>1, <4>1 DEF A
        <5> HIDE DEF w
        <5> QED
          BY <4>1, <5>1
      <4>2. CASE t.session[k].want = << >>
        <5>1. PICK o \in Lines : t.out[k] = Append(Append(<< >>, A), o) /\ Offer(t, t.session[k], o)
          BY <3>1, <4>2 DEF A
        <5> DEFINE w == << A, o >>
        <5>2. A \in Lines
          BY <3>1 DEF A, Lines
        <5>3. t.out[k] = w /\ w \in Seq(Lines) /\ Len(w) = 2 /\ w[1] = A /\ w[2] = o
          BY <5>1, <5>2, Two
        <5> HIDE DEF w
        <5>4. w # << >> /\ << >> \o w = w
          BY <5>3, Rest
        <5> HIDE DEF w
        <5> QED
          BY <4>2, <5>1, <5>3, <5>4
      <4> QED
        BY <4>1, <4>2
    <3>5. PICK w : /\ t.out[k] = w /\ w # << >> /\ w[1] = A /\ << >> \o w = w
                   /\ IF t.session[k].want # << >> THEN Len(w) = 1
                      ELSE Len(w) = 2 /\ Offer(t, t.session[k], w[2])
      BY <3>4
    <3>6. Replied(a, Offered(x, x.session[k]), t.session[k].want, Bids(t))
      BY <2>2, <3>1
    <3>7. Answered(k, x, t, w, << >>)
      BY <1>2, <2>2, <3>2, <3>3, <3>5, <3>6 DEF Answered
    <3>8. Passes(k, x, y, t, wx, wy, w, << >>)
      <4>1. Arriving(k, x, t, w, << >>) = Plus(a, l.bids)
        <5>1. FreshBids(<< >>) = {}
          BY DEF FreshBids
        <5> QED
          BY <2>2, <3>2, <3>3, <3>5, <5>1 DEF Arriving
      <4>2. ASSUME NEW b \in Plus(a, l.bids)
            PROVE  ~LookupTempBID(y, b) /\ IsNew(y, b) /\ Came(b, k) \in t.temp /\ b \in Bids(x)
        <5>1. PICK i \in DOMAIN a : a[i] = "+" /\ b = l.bids[i]
          BY DEF Plus
        <5>2. ~LookupTempBID(y, b) /\ IsNew(y, b) /\ Came(b, k) \in t.temp
          BY <3>1, <5>1 DEF Noted
        <5>3. i \in DOMAIN l.bids
          <6>1. Len(a) = Len(l.bids)
            BY <3>1 DEF Replied
          <6> QED
            BY <2>3, <6>1
        <5>4. b \in ToSet(l.bids)
          BY <5>1, <5>3 DEF ToSet
        <5>5. b \in Bids(x)
          BY <1>1, <2>2, <5>4, OfferedBids
        <5> QED
          BY <5>2, <5>5
      <4>3. Arriving(k, t, x, << >>, w) = {}
        <5>1. \A i \in DOMAIN w : w[i].kind # "text"
          <6>1. w \in Seq(Lines) /\ Len(w) \in 1 .. 2
            <7>1. w \in Seq(Lines)
              BY <2>4, <3>5 DEF Answering, Does, Good, State
            <7> QED
              BY <3>5, <7>1
          <6>2. \A i \in DOMAIN w : i = 1 \/ (i = 2 /\ Len(w) = 2)
            BY <6>1
          <6>3. Len(w) = 2 => w[2].kind # "text"
            BY <3>5 DEF Offer
          <6> QED
            BY <3>2, <3>5, <6>2, <6>3
        <5>2. x.session[k].length = 0
          BY <1>2 DEF Idle, Waiting
        <5> QED
          BY <5>1, <5>2, NothingArrives
      <4>4. t.session[k].want # << >> => IsNew(t, Head(t.session[k].want))
        BY <3>1
      <4>5. ToSet(t.session[k].want) \subseteq Proposed(x, x.session[k])
        <5>1. t.session[k].want \in Seq(Bid)
          BY <2>4 DEF Answering, Does, Good, State, Sessions
        <5>2. ToSet(t.session[k].want) \subseteq ToSet(l.bids)
          BY <2>3, <3>1, <5>1, WantedOffered
        <5>3. ToSet(l.bids) \subseteq Proposed(x, x.session[k])
          BY <1>1, <2>2, OfferedBids
        <5> QED
          BY <5>2, <5>3
      <4> QED
        BY <4>1, <4>2, <4>3, <4>4, <4>5 DEF Passes
    <3> QED
      BY <1>1, <2>4, <3>5, <3>7, <3>8 DEF Answering, Result, Does, Gained, Phase, t, l, B
  <2> QED
    BY <2>5, <2>6
<1> QED
  BY <1>2, <1>4, <1>5, <1>6

\* The answers to a block.
LEMMA FSResult ==
  ASSUME NEW k \in Conn, NEW x, Good(x), NEW y, Good(y), NEW wx, NEW wy,
         Answered(k, y, x, wy, wx), wy \in Seq(Lines), y.out[k] = << >>,
         y.session[k].user \in BBS
  PROVE  Result(k, x, y, ProcessFBBLine(y, k, Head(wy)), wx, wy)
<1> DEFINE t == ProcessFBBLine(y, k, Head(wy))
           a == wy[1].answers
           e == x.session[k]
           W == e.want
           B == Bids(x)
<1>1. /\ x \in State /\ e \in Sessions /\ W \in Seq(Bid) /\ wx = << >> /\ wy # << >>
      /\ wy[1].kind = "FS" /\ Head(wy) = wy[1] /\ wy[1] \in Lines
      /\ Idle(y.session[k]) /\ ToSet(y.session[k].hdr) \subseteq DOMAIN y.msg
      /\ Replied(a, Offered(y, y.session[k]), W, B) /\ ~e.FBBMsgsSent /\ e.length = 0
  <2>1. x \in State /\ e \in Sessions /\ W \in Seq(Bid)
    BY DEF Good, State, Sessions
  <2>2. wy # << >>
    BY DEF Answered
  <2>3. Head(wy) = wy[1] /\ wy[1] \in Lines
    BY <2>2
  <2> HIDE DEF a
  <2> QED
    BY <2>1, <2>2, <2>3 DEF Answered, a
<1>2. a \in Seq(Answer)
  BY <1>1 DEF Lines
<1>3. t = ProcessFS(y, k, a)
  BY <1>1 DEF ProcessFBBLine
<1>4. Served(y, t, k, a, W, B)
  <2> HIDE DEF a, W, B, t
  <2>1. Served(y, ProcessFS(y, k, a), k, a, W, B)
    BY <1>1, <1>2, ProcessFSDoes
  <2> QED
    BY <1>3, <2>1
<1> HIDE DEF t
<1>5. PICK T \in Seq(Lines) : /\ t.out[k] = T /\ << >> \o T = T /\ Follows(T, W, 0)
                              /\ FreshBids(T) \subseteq Plus(a, Offered(y, y.session[k]))
  <2>1. \A T \in Seq(Lines) : << >> \o T = T
    OBVIOUS
  <2> QED
    BY <1>4, <2>1 DEF Served
<1>6. T = << >> <=> W = << >>
  BY <1>1, <1>5, FollowsEmpty
<1>7. CASE W # << >>
  <2>1. Tail(wy) = << >>
    <3>1. Len(wy) = 1
      BY <1>7 DEF Answered
    <3> QED
      BY <3>1, Rest
  <2>2. Sending(k, t, x, << >>, T)
    BY <1>1, <1>4, <1>5, <1>6, <1>7 DEF Served, Sending
  <2>3. Passes(k, x, y, t, wx, wy, T, << >>)
    <3>1. t.session[k].length = 0 /\ t.session[k].want = << >>
      BY <1>4 DEF Served, Waiting
    <3>2. T[1].kind # "FS"
      <4>1. T[1] = Text(W[1], 0, 1) \/ T[1] = Text(W[1], 1, 2)
        BY <1>1, <1>5, <1>6, <1>7, FollowsNext
      <4> QED
        BY <4>1 DEF Text
    <3>3. Arriving(k, x, t, T, << >>) = {}
      BY <3>1, <3>2, NothingArrives
    <3>4. Arriving(k, t, x, << >>, T) = FreshBids(T)
      BY <1>1 DEF Arriving
    <3>5. Plus(a, Offered(y, y.session[k])) \subseteq Arriving(k, y, x, wy, wx)
      BY <1>1 DEF Arriving
    <3>6. ToSet(t.session[k].want) = {}
      BY <3>1 DEF ToSet
    <3> QED
      BY <1>5, <3>1, <3>3, <3>4, <3>5, <3>6 DEF Passes
  <2> QED
    BY <1>1, <1>4, <1>5, <2>1, <2>2, <2>3 DEF Served, Result, Does, Gained, Phase, t
<1>8. CASE W = << >>
  <2>1. Len(wy) = 2 /\ Offer(x, e, wy[2])
    BY <1>8 DEF Answered
  <2> DEFINE w == Tail(wy)
  <2>2. w # << >> /\ Len(w) = 1 /\ w[Len(w)] = wy[2] /\ w \in Seq(Lines)
    <3>1. w # << >> /\ Len(w) = 1 /\ w[Len(w)] = wy[2]
      BY <2>1, Rest
    <3> QED
      BY <1>1, <3>1
  <2>3. ToSet(W) = {}
    BY <1>8 DEF ToSet
  <2>4. Delivered(t, t.session[k], B)
    BY <1>4, <2>3 DEF Served
  <2> HIDE DEF w
  <2>5. Turn(k, x, t, << >>, w)
    BY <1>4, <2>1, <2>2, <2>4 DEF Served, Turn
  <2>6. Passes(k, x, y, t, wx, wy, << >>, w)
    BY <2>2, <2>5, TurnPasses
  <2> QED
    BY <1>1, <1>4, <1>5, <1>6, <1>8, <2>5, <2>6 DEF Served, Result, Does, Gained, Phase, t, w
<1> QED
  BY <1>7, <1>8

\* A part of a message.
LEMMA TextResult ==
  ASSUME NEW k \in Conn, NEW x, Good(x), NEW y, Good(y), NEW wx, NEW wy,
         Sending(k, x, y, wx, wy), wy \in Seq(Lines), y.out[k] = << >>
  PROVE  Result(k, x, y, ProcessFBBLine(y, k, Head(wy)), wx, wy)
<1> DEFINE t == ProcessFBBLine(y, k, Head(wy))
           e == y.session[k]
           B == Bids(x)
           T == Tail(wy)
<1>1. /\ x \in State /\ y \in State /\ e \in Sessions /\ e.want \in Seq(Bid)
      /\ wx = << >> /\ wy # << >> /\ Follows(wy, e.want, e.length)
      /\ x.session[k].FBBMsgsSent /\ Waiting(x.session[k]) /\ ~e.FBBMsgsSent
      /\ Delivered(x, x.session[k], Bids(y) \cup ToSet(e.want))
  <2>1. x \in State /\ y \in State /\ e \in Sessions /\ e.want \in Seq(Bid)
    BY DEF Good, State, Sessions
  <2> QED
    BY <2>1 DEF Sending
<1>2. Head(wy).kind = "text"
  <2>1. Head(wy) = wy[1]
    BY <1>1
  <2>2. wy[1] = Text(e.want[1], 0, 1) \/ wy[1] = Text(e.want[1], 1, 2)
    BY <1>1, FollowsNext
  <2> QED
    BY <2>1, <2>2 DEF Text
<1>3. t = UnpackFBBBinary(y, k, Head(wy))
  BY <1>2 DEF ProcessFBBLine
<1> HIDE DEF t
<1>4. /\ Good(t) /\ Moved(y, t, k, B) /\ After(y, t, k, T) /\ Gained(y, t, k)
      /\ k \notin t.shut /\ T # << >> =>
            \/ /\ t.session[k].want = e.want /\ t.session[k].length = 1
               /\ wy[1] = Text(e.want[1], 0, 1) /\ t.msg = y.msg
            \/ /\ t.session[k].want = Tail(e.want) /\ t.session[k].length = 0
               /\ IsNew(t, Head(t.session[k].want))
  BY <1>1, <1>3, UnpackDoes
<1>5. T \in Seq(Lines) /\ \A i \in DOMAIN T : \E j \in DOMAIN wy : T[i] = wy[j]
  <2>1. \A i \in DOMAIN T : i + 1 \in DOMAIN wy /\ T[i] = wy[i + 1]
    BY <1>1
  <2> QED
    BY <1>1, <2>1
<1> HIDE DEF T
<1>6. CASE k \in t.shut
  BY <1>4, <1>6 DEF Result, t
<1>7. CASE /\ k \notin t.shut /\ t.out = y.out /\ ~t.session[k].FBBMsgsSent /\ T # << >>
           /\ Follows(T, t.session[k].want, t.session[k].length)
           /\ Bids(y) \cup ToSet(e.want) \subseteq Bids(t) \cup ToSet(t.session[k].want)
  <2>1. << >> \o << >> = << >>
    OBVIOUS
  <2>2. Delivered(x, x.session[k], Bids(t) \cup ToSet(t.session[k].want))
    BY <1>1, <1>7 DEF Delivered
  <2>3. Sending(k, x, t, << >>, T)
    BY <1>1, <1>7, <2>2 DEF Sending
  <2>4. Passes(k, x, y, t, wx, wy, << >>, T)
    <3>1. Arriving(k, t, x, T, << >>) = {}
      <4>1. T[1].kind # "FS"
        <5>1. t.session[k].want \in Seq(Bid)
          BY <1>4 DEF Good, State, Sessions
        <5>2. T[1] = Text(t.session[k].want[1], 0, 1) \/ T[1] = Text(t.session[k].want[1], 1, 2)
          BY <1>5, <1>7, <5>1, FollowsNext
        <5> QED
          BY <5>2 DEF Text
      <4>2. x.session[k].length = 0
        BY <1>1 DEF Waiting
      <4> QED
        BY <4>1, <4>2, NothingArrives
    <3>2. FreshBids(T) \subseteq FreshBids(wy)
      BY <1>5 DEF FreshBids
    <3>3. t.session[k].length = 1 => Head(t.session[k].want) \in FreshBids(wy)
      <4> SUFFICES ASSUME t.session[k].length = 1
                   PROVE  Head(t.session[k].want) \in FreshBids(wy)
        OBVIOUS
      <4>1. t.session[k].want = e.want /\ wy[1] = Text(e.want[1], 0, 1)
        BY <1>4, <1>7
      <4>2. e.want # << >> /\ Head(e.want) = e.want[1] /\ 1 \in DOMAIN wy
        BY <1>1, FollowsEmpty
      <4> QED
        BY <4>1, <4>2 DEF FreshBids, Text
    <3>4. Arriving(k, x, t, << >>, T) \subseteq Arriving(k, x, y, wx, wy)
      BY <3>2, <3>3 DEF Arriving
    <3>5. t.session[k].want # << >> =>
             \/ IsNew(t, Head(t.session[k].want))
             \/ t.session[k].want = e.want /\ Len(t.msg) = Len(y.msg)
      BY <1>4, <1>7
    <3>6. ToSet(t.session[k].want) \subseteq ToSet(e.want)
      <4>1. e.want # << >> => ToSet(Tail(e.want)) \subseteq ToSet(e.want)
        <5> DEFINE W == e.want
        <5>1. W \in Seq(Bid)
          BY <1>1
        <5> HIDE DEF W
        <5>2. ASSUME W # << >>
              PROVE  \A i \in DOMAIN Tail(W) : i + 1 \in DOMAIN W /\ Tail(W)[i] = W[i + 1]
          BY <5>1, <5>2
        <5>3. W # << >> => ToSet(Tail(W)) \subseteq ToSet(W)
          BY <5>2 DEF ToSet
        <5> QED
          BY <5>3 DEF W
      <4>2. e.want # << >>
        BY <1>1, FollowsEmpty
      <4> QED
        BY <1>4, <1>7, <4>1, <4>2
    <3> QED
      BY <3>1, <3>4, <3>5, <3>6 DEF Passes
  <2> QED
    BY <1>1, <1>4, <1>7, <2>1, <2>3, <2>4 DEF Result, Phase, t, T
<1>8. CASE /\ k \notin t.shut /\ T = << >>
           /\ \E l \in Lines : t.out[k] = Append(y.out[k], l) /\ Offer(t, t.session[k], l)
           /\ Bids(y) \cup ToSet(e.want) \subseteq Bids(t)
  <2>1. PICK l \in Lines : t.out[k] = Append(<< >>, l) /\ Offer(t, t.session[k], l)
    BY <1>8
  <2> DEFINE w == << l >>
  <2>2. t.out[k] = w /\ w # << >> /\ Len(w) = 1 /\ w[Len(w)] = l /\ << >> \o w = w /\ w \in Seq(Lines)
    <3>1. Append(<< >>, l) = w
      OBVIOUS
    <3> QED
      BY <2>1, <3>1
  <2> HIDE DEF w
  <2>3. Delivered(x, x.session[k], Bids(t))
    BY <1>1, <1>8 DEF Delivered
  <2>4. Turn(k, t, x, << >>, w)
    BY <1>1, <2>1, <2>2, <2>3 DEF Turn
  <2>5. Passes(k, x, y, t, wx, wy, w, << >>)
    BY <2>2, <2>4, TurnPasses
  <2> QED
    BY <1>1, <1>4, <1>8, <2>2, <2>4, <2>5 DEF Result, Phase, t, T
<1> QED
  BY <1>4, <1>6, <1>7, <1>8 DEF After

\* Whatever line there is for y.
LEMMA LineResult ==
  ASSUME NEW k \in Conn, NEW x, Good(x), NEW y, Good(y), NEW wx, NEW wy, wy \in Seq(Lines), wy # << >>,
         y.out[k] = << >>, y.session[k].user \in BBS,
         \/ Greeting(y.session[k], x.session[k], wy, wx)
         \/ Greeting(x.session[k], y.session[k], wx, wy)
         \/ Phase(k, x, y, wx, wy)
         \/ Phase(k, y, x, wy, wx)
  PROVE  Result(k, x, y, ProcessFBBLine(y, k, Head(wy)), wx, wy)
<1>1. \/ Greeting(y.session[k], x.session[k], wy, wx)
      \/ Turn(k, x, y, wx, wy) /\ Len(wy) = 1
      \/ Turn(k, x, y, wx, wy) /\ Len(wy) = 2
      \/ Sending(k, x, y, wx, wy)
      \/ Answered(k, y, x, wy, wx)
  BY DEF Greeting, Phase, Turn, Sending, Answered
<1> QED
  BY <1>1, PromptResult, SIDResult, OfferResult, FSResult, TextResult

-----------------------------------------------------------------------------
(* What a BBS owes to others.                                              *)

\* What is to be sent on is so on file too, and is on its route.
Owed(s) ==
    \A i \in DOMAIN s.msg : /\ s.msg[i].fbbs \subseteq s.saved[i].fbbs
                            /\ s.saved[i].fbbs \subseteq Routes[s.msg[i].bid][s.me]

\* What is offered in session k is there, and its partner is on its route.
Addressed(s, k) ==
    /\ ToSet(s.session[k].hdr) \subseteq DOMAIN s.msg \cup {0}
    /\ \A b \in Proposed(s, s.session[k]) : s.session[k].user \in Routes[b][s.me]

\* The messages of s are still owed to the same BBSs in t.
Holds(s, t, k) ==
    /\ Owed(t) /\ Addressed(t, k) /\ DOMAIN s.msg \subseteq DOMAIN t.msg
    /\ \A i \in DOMAIN s.msg : t.msg[i].fbbs = s.msg[i].fbbs /\ t.msg[i].forw = s.msg[i].forw

\* They are, but for those that t has marked.
Pays(s, t, k) ==
    /\ Owed(t) /\ Addressed(t, k) /\ DOMAIN s.msg \subseteq DOMAIN t.msg
    /\ \A i \in DOMAIN s.msg : /\ t.msg[i].fbbs \subseteq s.msg[i].fbbs
                               /\ s.msg[i].fbbs \subseteq t.msg[i].fbbs \cup t.msg[i].forw

LEMMA PaysTransitive ==
  ASSUME NEW s, NEW t, NEW u, NEW k, Holds(t, u, k)
  PROVE  /\ Holds(s, t, k) => Holds(s, u, k)
         /\ Pays(s, t, k) => Pays(s, u, k)
<1>1. Holds(s, t, k) => Holds(s, u, k)
  BY DEF Holds
<1>2. Pays(s, t, k) => Pays(s, u, k)
  BY DEF Holds, Pays
<1> QED
  BY <1>1, <1>2

\* A step that owes no more than before.
LEMMA AlterOwed ==
  ASSUME NEW s \in State, NEW t, NEW k, Owed(s), t.me = s.me, t.saved = s.saved,
         DOMAIN t.msg = DOMAIN s.msg,
         \A i \in DOMAIN s.msg : t.msg[i].bid = s.msg[i].bid /\ t.msg[i].fbbs \subseteq s.msg[i].fbbs
  PROVE  /\ Owed(t)
         /\ Addressed(s, k) /\ t.session[k].user = s.session[k].user
            /\ ToSet(t.session[k].hdr) \subseteq ToSet(s.session[k].hdr) \cup {0} => Addressed(t, k)
<1>1. Owed(t)
  BY DEF Owed
<1>2. ASSUME Addressed(s, k), t.session[k].user = s.session[k].user,
             ToSet(t.session[k].hdr) \subseteq ToSet(s.session[k].hdr) \cup {0}
      PROVE  Addressed(t, k)
  <2>1. 0 \notin DOMAIN s.msg
    BY DEF State
  <2>2. Proposed(t, t.session[k]) \subseteq Proposed(s, s.session[k])
    BY <1>2, <2>1 DEF Proposed
  <2> QED
    BY <1>2, <2>2 DEF Addressed
<1> QED
  BY <1>1, <1>2

LEMMA SendHolds ==
  ASSUME NEW s \in State, NEW k \in Conn, NEW l, Owed(s), Addressed(s, k)
  PROVE  Holds(s, Send(s, k, l), k)
<1> DEFINE t == Send(s, k, l)
<1>1. t.me = s.me /\ t.saved = s.saved /\ t.msg = s.msg /\ t.session = s.session
  BY DEF Send, State
<1> HIDE DEF t
<1>2. Owed(t) /\ Addressed(t, k)
  BY <1>1, AlterOwed
<1> QED
  BY <1>1, <1>2 DEF Holds, t

LEMMA DisconnectHolds ==
  ASSUME NEW s \in State, NEW k \in Conn, Owed(s), Addressed(s, k)
  PROVE  Holds(s, Disconnect(s, k), k)
<1> DEFINE t == Disconnect(s, k)
<1>1. t.me = s.me /\ t.saved = s.saved /\ t.msg = s.msg /\ t.session = s.session
  BY DEF Disconnect, State
<1> HIDE DEF t
<1>2. Owed(t) /\ Addressed(t, k)
  BY <1>1, AlterOwed
<1> QED
  BY <1>1, <1>2 DEF Holds, t

\* A block is made of what is owed to the partner.
LEMMA FindLoopHolds ==
  ASSUME NEW s \in State, NEW k \in Conn, NEW type, Owed(s)
  PROVE  LET t == FindMessagestoForwardLoop(s, k, type)
         IN  Holds(s, t, k)
<1> DEFINE block == Ready(s, k, type)
           last == IF Cardinality(block) = MaxBlock THEN Max(block) ELSE Len(s.msg)
           past == {m \in Queued(s, k, type) : s.msg[m].Defered # 0 /\ m <= last}
           msg == [m \in DOMAIN s.msg |->
                     IF m \in past THEN PassOver(s.msg[m]) ELSE s.msg[m]]
           e == s.session[k]
           f == IF block = {} THEN [e EXCEPT !.hdr = << >>]
                ELSE [e EXCEPT !.hdr = Ascending(block), !.LastForwardType = type,
                               !.NextMessagetoForward = Max(block) + 1]
           t == FindMessagestoForwardLoop(s, k, type)
<1>1. e \in Sessions /\ DOMAIN s.msg = 1 .. Len(s.msg) /\ \A m \in DOMAIN s.msg : s.msg[m] \in Message
  BY DEF State
<1>2. /\ block \subseteq DOMAIN s.msg /\ block \in SUBSET Nat /\ IsFiniteSet(block)
  BY ReadyFits
<1>3. DOMAIN msg = DOMAIN s.msg
      /\ \A i \in DOMAIN s.msg : /\ msg[i].bid = s.msg[i].bid /\ msg[i].fbbs = s.msg[i].fbbs
                                 /\ msg[i].forw = s.msg[i].forw
  BY <1>1 DEF Message, PassOver
<1>4. Ascending(block) \in Seq(block)
  BY <1>2, AscendingType
<1>5. t = [s EXCEPT !.msg = msg, !.session[k] = f]
  BY Zenon DEF FindMessagestoForwardLoop
<1>6. \A i \in block : e.user \in s.msg[i].fbbs
  BY DEF Ready, Queued, For
<1> HIDE DEF block, msg, t
<1>7. f.user = e.user /\ IF block = {} THEN f.hdr = << >> ELSE f.hdr = Ascending(block)
  BY <1>1 DEF Sessions
<1> HIDE DEF f
<1>8. t.msg = msg /\ t.session[k] = f /\ t.me = s.me /\ t.saved = s.saved
  BY <1>5 DEF State
<1>9. Owed(t)
  BY <1>3, <1>8, AlterOwed
<1>10. Addressed(t, k)
  <2>1. ToSet(f.hdr) \subseteq block
    BY <1>4, <1>7 DEF ToSet
  <2>2. ASSUME NEW i \in ToSet(f.hdr)
        PROVE  f.user \in Routes[msg[i].bid][t.me]
    <3>1. i \in DOMAIN s.msg /\ f.user \in s.msg[i].fbbs
      BY <1>2, <1>6, <1>7, <2>1
    <3> QED
      BY <1>3, <1>8, <3>1 DEF Owed
  <2> QED
    BY <1>2, <1>3, <1>8, <2>1, <2>2 DEF Addressed, Proposed
<1> QED
  BY <1>3, <1>8, <1>9, <1>10 DEF Holds, t

\* Only session k, and not what it has in its block or is with, changes.
LEMMA SessionHolds ==
  ASSUME NEW s, Good(s), NEW k \in Conn, Owed(s), Addressed(s, k), NEW f \in Sessions, Fits(s, f),
         f.user = s.session[k].user, f.hdr = s.session[k].hdr
  PROVE  LET t == [s EXCEPT !.session = [s.session EXCEPT ![k] = f]]
         IN  /\ Good(t) /\ t \in State /\ Holds(s, t, k) /\ t.session[k] = f
             /\ t.me = s.me /\ t.saved = s.saved /\ t.msg = s.msg
<1> DEFINE t == [s EXCEPT !.session = [s.session EXCEPT ![k] = f]]
<1>1. s \in State
  BY DEF Good
<1>2. t \in State /\ t.me = s.me /\ t.saved = s.saved /\ t.msg = s.msg
      /\ t.session = [s.session EXCEPT ![k] = f]
  BY <1>1 DEF State
<1> HIDE DEF t
<1>3. t.session[k] = f /\ \A j \in Conn \ {k} : t.session[j] = s.session[j]
  BY <1>1, <1>2 DEF State
<1>4. Good(t)
  BY <1>2, <1>3 DEF Good, Kept, Fits
<1>5. Owed(t) /\ Addressed(t, k)
  BY <1>1, <1>2, <1>3, AlterOwed
<1> QED
  BY <1>2, <1>3, <1>4, <1>5 DEF Holds, t

LEMMA FindHolds ==
  ASSUME NEW s, Good(s), NEW k \in Conn, Owed(s)
  PROVE  Holds(s, FindMessagestoForward(s, k), k)
<1> DEFINE p == FindMessagestoForwardLoop(s, k, "P")
           r == [p EXCEPT !.session[k].NextMessagetoForward =
                            IF p.session[k].LastForwardType = "P" THEN 1 ELSE @]
           b == FindMessagestoForwardLoop(r, k, "B")
           c == [b EXCEPT !.session[k].LastForwardType = ""]
<1>1. Good(p) /\ Holds(s, p, k)
  BY FindLoopDoes, FindLoopHolds DEF Does, Good
<1> HIDE DEF p
<1>2. Good(r) /\ Holds(s, r, k)
  <2> DEFINE next == IF p.session[k].LastForwardType = "P" THEN 1 ELSE p.session[k].NextMessagetoForward
             f == [p.session[k] EXCEPT !.NextMessagetoForward = next]
             u == [p EXCEPT !.session = [p.session EXCEPT ![k] = f]]
  <2>1. p \in State /\ p.session[k] \in Sessions /\ Len(p.msg) \in Nat /\ Fits(p, p.session[k])
    BY <1>1 DEF Good, State
  <2>2. next \in Nat \ {0} /\ next <= Len(p.msg) + 1
    <3>1. p.session[k].NextMessagetoForward \in Nat \ {0}
      BY <2>1 DEF Sessions
    <3> QED
      BY <2>1, <3>1 DEF Fits
  <2> HIDE DEF next
  <2>3. f \in Sessions /\ f.user = p.session[k].user /\ f.hdr = p.session[k].hdr
        /\ f.want = p.session[k].want /\ f.NextMessagetoForward = next
    BY <2>1, <2>2 DEF Sessions
  <2>4. r = u
    BY <2>1 DEF State, next
  <2> HIDE DEF f, r
  <2>5. Fits(p, f)
    BY <2>1, <2>2, <2>3 DEF Fits
  <2>6. Good(u) /\ Holds(p, u, k)
    BY <1>1, <2>3, <2>5, SessionHolds DEF Holds
  <2> HIDE DEF u
  <2> QED
    BY <1>1, <2>4, <2>6, PaysTransitive
<1> HIDE DEF r
<1>3. Good(b) /\ Holds(s, b, k)
  <2>1. Good(b) /\ Holds(r, b, k)
    BY <1>2, FindLoopDoes, FindLoopHolds DEF Does, Good, Holds
  <2> QED
    BY <1>2, <2>1, PaysTransitive
<1> HIDE DEF b
<1>4. Holds(s, c, k)
  <2> DEFINE f == [b.session[k] EXCEPT !.LastForwardType = ""]
             u == [b EXCEPT !.session = [b.session EXCEPT ![k] = f]]
  <2>1. b \in State /\ b.session[k] \in Sessions /\ Fits(b, b.session[k])
    BY <1>3 DEF Good, State
  <2>2. f \in Sessions /\ f.user = b.session[k].user /\ f.hdr = b.session[k].hdr
        /\ f.want = b.session[k].want /\ f.NextMessagetoForward = b.session[k].NextMessagetoForward
    BY <2>1 DEF Sessions
  <2>3. c = u
    BY <2>1 DEF State
  <2> HIDE DEF f, c
  <2>4. Fits(b, f)
    BY <2>1, <2>2 DEF Fits
  <2>5. Holds(b, u, k)
    BY <1>3, <2>2, <2>4, SessionHolds DEF Holds
  <2> HIDE DEF u
  <2> QED
    BY <1>3, <2>3, <2>5, PaysTransitive
<1> HIDE DEF c
<1>5. FindMessagestoForward(s, k) \in {p, b, c}
  BY Zenon DEF FindMessagestoForward, p, r, b, c
<1> QED
  BY <1>1, <1>3, <1>4, <1>5

LEMMA DoForwardHolds ==
  ASSUME NEW s, Good(s), NEW k \in Conn, Owed(s), NEW other
  PROVE  Holds(s, FBBDoForward(s, k, other), k)
<1> DEFINE f == FindMessagestoForward(s, k)
           h == f.session[k].hdr
           l == IF h = << >> THEN Line(other)
                ELSE [kind |-> "FA", bids |-> [i \in DOMAIN h |-> f.msg[h[i]].bid]]
<1>1. f \in State /\ Holds(s, f, k)
  BY FindDoes, FindHolds DEF Chosen, Does, Good
<1>2. FBBDoForward(s, k, other) = Send(f, k, l)
  BY Zenon DEF FBBDoForward
<1> HIDE DEF f, l
<1>3. Holds(f, Send(f, k, l), k)
  BY <1>1, SendHolds DEF Holds
<1> QED
  BY <1>1, <1>2, <1>3, PaysTransitive

\* What is marked is no longer owed to the partner.
LEMMA FlagAllPays ==
  ASSUME NEW s \in State, NEW k \in Conn, Owed(s), Addressed(s, k), NEW H
  PROVE  LET t == FlagAll(s, k, H)
         IN  /\ Pays(s, t, k) /\ t.session = s.session /\ t.me = s.me /\ t.saved = s.saved
             /\ DOMAIN t.msg = DOMAIN s.msg /\ \A i \in DOMAIN s.msg : t.msg[i].bid = s.msg[i].bid
<1> DEFINE p == s.session[k].user
           msg == [m \in DOMAIN s.msg |-> IF m \in H THEN Forwarded(s.msg[m], p) ELSE s.msg[m]]
           t == FlagAll(s, k, H)
<1>1. t = [s EXCEPT !.msg = msg]
  BY Zenon DEF FlagAll
<1>2. \A m \in DOMAIN s.msg : s.msg[m] \in Message
  BY DEF State
<1>3. ASSUME NEW i \in DOMAIN s.msg
      PROVE  /\ msg[i].bid = s.msg[i].bid /\ msg[i].fbbs \subseteq s.msg[i].fbbs
             /\ s.msg[i].fbbs \subseteq msg[i].fbbs \cup msg[i].forw
  <2>1. LET f == Forwarded(s.msg[i], p)
        IN  f.bid = s.msg[i].bid /\ f.fbbs = s.msg[i].fbbs \ {p} /\ f.forw = s.msg[i].forw \cup {p}
    BY <1>2 DEF Message, Forwarded
  <2> QED
    BY <2>1
<1>4. DOMAIN msg = DOMAIN s.msg
  OBVIOUS
<1> HIDE DEF msg, t
<1>5. t.msg = msg /\ t.me = s.me /\ t.saved = s.saved /\ t.session = s.session
  BY <1>1 DEF State
<1>6. Owed(t) /\ Addressed(t, k)
  BY <1>3, <1>4, <1>5, AlterOwed
<1> QED
  BY <1>3, <1>4, <1>5, <1>6 DEF Pays, t

\* A session that changes for another takes nothing from what is offered.
LEMMA AddressedKept ==
  ASSUME NEW s \in State, NEW t \in State, Grown(s, t), t.me = s.me, NEW k,
         t.session[k] = s.session[k], Addressed(s, k)
  PROVE  Addressed(t, k)
<1>1. DOMAIN s.msg \subseteq DOMAIN t.msg /\ 0 \notin DOMAIN t.msg
  <2>1. 0 \notin DOMAIN t.msg
    BY DEF State
  <2> QED
    BY <2>1, GrownBids
<1>2. Proposed(t, t.session[k]) = Proposed(s, s.session[k])
  BY <1>1 DEF Proposed, Grown, Addressed
<1> QED
  BY <1>1, <1>2 DEF Addressed

LEMMA HoldsPays ==
  ASSUME NEW s, NEW t, NEW k, Holds(s, t, k)
  PROVE  Pays(s, t, k)
BY DEF Holds, Pays

\* What is marked, and the session changed.
LEMMA MarkPays ==
  ASSUME NEW s \in State, NEW k \in Conn, Owed(s), Addressed(s, k), NEW H, NEW t,
         t.me = s.me, t.saved = s.saved,
         LET u == FlagAll(s, k, H)
         IN  /\ DOMAIN t.msg = DOMAIN u.msg
             /\ \A i \in DOMAIN u.msg : /\ t.msg[i].bid = u.msg[i].bid /\ t.msg[i].fbbs = u.msg[i].fbbs
                                        /\ t.msg[i].forw = u.msg[i].forw,
         t.session[k].user = s.session[k].user,
         ToSet(t.session[k].hdr) \subseteq ToSet(s.session[k].hdr) \cup {0}
  PROVE  Pays(s, t, k)
<1> DEFINE u == FlagAll(s, k, H)
<1>1. /\ Pays(s, u, k) /\ DOMAIN u.msg = DOMAIN s.msg
      /\ \A i \in DOMAIN s.msg : u.msg[i].bid = s.msg[i].bid
  BY FlagAllPays
<1>2. DOMAIN t.msg = DOMAIN u.msg
      /\ \A i \in DOMAIN u.msg : /\ t.msg[i].bid = u.msg[i].bid /\ t.msg[i].fbbs = u.msg[i].fbbs
                                 /\ t.msg[i].forw = u.msg[i].forw
  OBVIOUS
<1> HIDE DEF u
<1>3. DOMAIN t.msg = DOMAIN s.msg
      /\ \A i \in DOMAIN s.msg : t.msg[i].bid = s.msg[i].bid /\ t.msg[i].fbbs \subseteq s.msg[i].fbbs
  BY <1>1, <1>2 DEF Pays
<1>4. Owed(t) /\ Addressed(t, k)
  BY <1>3, AlterOwed
<1> QED
  BY <1>1, <1>2, <1>4 DEF Pays

LEMMA FlagSentPays ==
  ASSUME NEW s \in State, NEW k \in Conn, Owed(s), Addressed(s, k)
  PROVE  Pays(s, FlagSentMessages(s, k), k)
<1> DEFINE e == s.session[k]
           H == ToSet(e.hdr) \ {0}
           u == FlagAll(s, k, H)
           f == [e EXCEPT !.hdr = << >>, !.FBBMsgsSent = FALSE]
           t == FlagSentMessages(s, k)
<1>1. CASE ~e.FBBMsgsSent
  <2>1. t = s
    BY <1>1 DEF FlagSentMessages
  <2> QED
    BY <2>1 DEF Pays
<1>2. CASE e.FBBMsgsSent
  <2>1. t = [u EXCEPT !.session[k].hdr = << >>, !.session[k].FBBMsgsSent = FALSE]
    BY <1>2, Zenon DEF FlagSentMessages
  <2>2. u = [s EXCEPT !.msg = u.msg]
    BY DEF FlagAll, State
  <2> HIDE DEF u
  <2>3. t = [s EXCEPT !.msg = u.msg, !.session = [s.session EXCEPT ![k] = f]]
    BY <2>1, <2>2 DEF State
  <2>4. f.user = e.user /\ f.hdr = << >>
    BY DEF State, Sessions
  <2> HIDE DEF f, t
  <2>5. t.msg = u.msg /\ t.me = s.me /\ t.saved = s.saved /\ t.session[k] = f
    BY <2>3 DEF State
  <2>6. ToSet(t.session[k].hdr) \subseteq ToSet(s.session[k].hdr) \cup {0}
    BY <2>4, <2>5 DEF ToSet
  <2> HIDE DEF H
  <2> QED
    BY <2>4, <2>5, <2>6, MarkPays DEF u, t
<1> QED
  BY <1>1, <1>2

LEMMA ProcessFSPays ==
  ASSUME NEW s \in State, NEW k \in Conn, Owed(s), Addressed(s, k), NEW a
  PROVE  Pays(s, ProcessFS(s, k, a), k)
<1> DEFINE e == s.session[k]
           h == e.hdr
           Answered_(c) == {h[i] : i \in {j \in DOMAIN h : a[j] \in c}}
           H == Answered_({"-"})
           D == Answered_({"="})
           A == Answered_({"+", "!"})
           u == FlagAll(s, k, H)
           msg == [m \in DOMAIN u.msg |-> IF m \in D THEN Defer(u.msg[m]) ELSE u.msg[m]]
           hdr == [i \in DOMAIN h |-> IF a[i] \in {"+", "!"} THEN h[i] ELSE 0]
           T == FlattenSeq([i \in DOMAIN h |->
                  CASE a[i] = "+" -> << Text(s.msg[h[i]].bid, 0, 1), Text(s.msg[h[i]].bid, 1, 2) >>
                    [] a[i] = "!" -> << Text(s.msg[h[i]].bid, 1, 2) >>
                    [] OTHER -> << >>])
           f == [e EXCEPT !.hdr = hdr, !.FBBMsgsSent = e.FBBMsgsSent \/ A # {}]
           t == ProcessFS(s, k, a)
<1>1. e \in Sessions /\ \A m \in DOMAIN s.msg : s.msg[m] \in Message
  BY DEF State
<1>2. t = [u EXCEPT !.msg = msg, !.session[k].hdr = hdr,
                    !.session[k].FBBMsgsSent = u.session[k].FBBMsgsSent \/ A # {},
                    !.out[k] = @ \o T]
  BY Zenon DEF ProcessFS, u
<1>3. u = [s EXCEPT !.msg = u.msg] /\ DOMAIN u.msg = DOMAIN s.msg
  BY DEF FlagAll, State
<1>4. \A i \in DOMAIN u.msg : u.msg[i] \in Message \/ u.msg[i] = Forwarded(s.msg[i], e.user)
  BY <1>1 DEF FlagAll, State
<1> HIDE DEF u, T, A, hdr, D
<1>5. \A i \in DOMAIN u.msg : /\ msg[i].bid = u.msg[i].bid /\ msg[i].fbbs = u.msg[i].fbbs
                              /\ msg[i].forw = u.msg[i].forw
  <2>1. \A i \in DOMAIN u.msg : LET d == Defer(u.msg[i])
            IN  d.bid = u.msg[i].bid /\ d.fbbs = u.msg[i].fbbs /\ d.forw = u.msg[i].forw
    BY <1>1, <1>3, <1>4 DEF Message, Defer, Forwarded
  <2> QED
    BY <2>1
<1>6. DOMAIN msg = DOMAIN u.msg
  OBVIOUS
<1> HIDE DEF msg
<1>7. t.msg = msg /\ t.me = s.me /\ t.saved = s.saved /\ t.session[k] = f
  <2>1. u.session = s.session /\ u.me = s.me /\ u.saved = s.saved /\ u.out = s.out
        /\ DOMAIN u = DOMAIN s
    BY <1>3 DEF State
  <2>2. u.session[k] = e /\ u.session \in [Conn -> Sessions]
    BY <2>1 DEF State
  <2> DEFINE sent == e.FBBMsgsSent \/ A # {}
  <2>3. t = [u EXCEPT !.msg = msg, !.session[k].hdr = hdr, !.session[k].FBBMsgsSent = sent,
                      !.out[k] = @ \o T]
    BY <1>2, <2>2
  <2>4. f = [u.session[k] EXCEPT !.hdr = hdr, !.FBBMsgsSent = sent]
    BY <2>2
  <2>5. DOMAIN u = {"me", "msg", "temp", "restart", "Forwarding", "session", "out", "shut", "saved"}
    BY <2>1 DEF State
  <2> HIDE DEF t, u, msg, f, e, sent
  <2>6. t.msg = msg /\ t.me = u.me /\ t.saved = u.saved
    BY <2>3, <2>5
  <2>7. t.session[k] = f
    BY <2>2, <2>3, <2>4, <2>5 DEF Sessions
  <2> QED
    BY <2>1, <2>6, <2>7
<1>8. f.user = e.user /\ f.hdr = hdr
  BY <1>1 DEF Sessions
<1> HIDE DEF f, t
<1>9. ToSet(hdr) \subseteq ToSet(h) \cup {0}
  BY DEF ToSet, hdr
<1> HIDE DEF H
<1> QED
  BY <1>5, <1>6, <1>7, <1>8, <1>9, MarkPays DEF u, t

\* To answer proposals owes nothing new.
LEMMA ListenedHolds ==
  ASSUME NEW s \in State, NEW t, NEW k \in Conn, Listened(s, t, k), Owed(s), Addressed(s, k)
  PROVE  Holds(s, t, k)
<1> DEFINE e == s.session[k]
           f == t.session[k]
<1>1. e \in Sessions /\ f = [e EXCEPT !.want = f.want]
  BY DEF State, Listened
<1> HIDE DEF e, f
<1>2. f.user = e.user /\ f.hdr = e.hdr
  BY <1>1 DEF Sessions
<1>3. t.me = s.me /\ t.saved = s.saved /\ t.msg = s.msg
  BY DEF Listened
<1>4. Owed(t) /\ Addressed(t, k)
  BY <1>2, <1>3, AlterOwed DEF e, f
<1> QED
  BY <1>3, <1>4 DEF Holds

\* So does a session that ends.
LEMMA ClearHolds ==
  ASSUME NEW s, Good(s), NEW k \in Conn, Owed(s), Addressed(s, k)
  PROVE  Holds(s, Disconnect([s EXCEPT !.session[k].want = << >>], k), k)
<1> DEFINE e == s.session[k]
           f == [e EXCEPT !.want = << >>]
           u == [s EXCEPT !.session = [s.session EXCEPT ![k] = f]]
<1>1. s \in State /\ e \in Sessions
  BY DEF Good, State
<1>2. [s EXCEPT !.session[k].want = << >>] = u
  BY <1>1 DEF State
<1>3. f \in Sessions /\ f.user = e.user /\ f.hdr = e.hdr /\ Len(f.want) = 0
      /\ f.NextMessagetoForward = e.NextMessagetoForward
  <2>1. << >> \in Seq(Bid)
    OBVIOUS
  <2> QED
    BY <1>1, <2>1 DEF Sessions
<1> HIDE DEF f
<1>4. Fits(s, f)
  BY <1>3, BlockAssumption DEF Good, Fits
<1>5. u \in State /\ Holds(s, u, k)
  BY <1>3, <1>4, SessionHolds
<1> HIDE DEF u
<1>6. Holds(u, Disconnect(u, k), k)
  BY <1>5, DisconnectHolds DEF Holds
<1> QED
  BY <1>2, <1>5, <1>6, PaysTransitive

LEMMA SetupNextHolds ==
  ASSUME NEW s, Good(s), NEW k \in Conn, Owed(s), Addressed(s, k)
  PROVE  Holds(s, SetupNextFBBMessage(s, k), k)
<1> DEFINE e == s.session[k]
           b == Head(e.want)
<1>1. s \in State /\ e \in Sessions
  BY DEF Good, State
<1>2. CASE e.want = << >>
  BY <1>2, DoForwardHolds DEF SetupNextFBBMessage
<1>3. CASE e.want # << >> /\ ~DoWeWantIt(s, b)
  <2>1. SetupNextFBBMessage(s, k) = Disconnect([s EXCEPT !.session[k].want = << >>], k)
    BY <1>3, Zenon DEF SetupNextFBBMessage, CreateMessage
  <2> QED
    BY <2>1, ClearHolds
<1>4. CASE e.want # << >> /\ DoWeWantIt(s, b)
  <2> DEFINE f == [e EXCEPT !.length = 0, !.shared = FALSE]
             T == s.temp \cup {Came(b, k)}
             t == SetupNextFBBMessage(s, k)
             v == [s EXCEPT !.temp = T]
  <2>1. t = [AddTempBID(s, k, b) EXCEPT !.session[k].length = 0, !.session[k].shared = FALSE]
    BY <1>4, Zenon DEF SetupNextFBBMessage, CreateMessage
  <2>2. AddTempBID(s, k, b) = v
    BY Zenon DEF AddTempBID, Came
  <2>3. t = [v EXCEPT !.session[k].length = 0, !.session[k].shared = FALSE]
    BY <2>1, <2>2, Zenon
  <2> HIDE DEF t, T
  <2>4. t = [s EXCEPT !.temp = T, !.session = [s.session EXCEPT ![k] = f]]
    BY <1>1, <2>3 DEF State
  <2>5. f.user = e.user /\ f.hdr = e.hdr
    BY <1>1 DEF Sessions
  <2> HIDE DEF f
  <2>6. t.me = s.me /\ t.saved = s.saved /\ t.msg = s.msg /\ t.session[k] = f
    BY <1>1, <2>4 DEF State
  <2>7. Owed(t) /\ Addressed(t, k)
    BY <1>1, <2>5, <2>6, AlterOwed
  <2> QED
    BY <2>6, <2>7 DEF Holds, t
<1> QED
  BY <1>2, <1>3, <1>4

LEMMA ProcessBlockPays ==
  ASSUME NEW s, Good(s), NEW k \in Conn, NEW bids \in Seq(Bid), Len(bids) <= MaxBlock,
         s.session[k].user \in BBS, NEW B,
         Delivered(s, s.session[k], B), Waiting(s.session[k]), Owed(s), Addressed(s, k)
  PROVE  Pays(s, ProcessBlock(s, k, bids), k)
<1> DEFINE f == FlagSentMessages(s, k)
           r == Answers(f, k, bids)
           a == r.answers
           l == [kind |-> "FS", answers |-> a]
           u == Send(r.s, k, l)
           t == ProcessBlock(s, k, bids)
<1>1. Good(f) /\ f.session[k].want = << >> /\ Pays(s, f, k)
  <2>1. Does(s, f, k, B) /\ f.session[k].want = << >>
    BY FlagSentDoes DEF Waiting
  <2>2. Pays(s, f, k)
    BY FlagSentPays DEF Good
  <2> QED
    BY <2>1, <2>2 DEF Does
<1> HIDE DEF f
<1>2. f \in State
  BY <1>1 DEF Good
<1>3. /\ Listened(f, r.s, k) /\ a \in Seq(Answer) /\ Len(r.s.session[k].want) <= Len(bids)
  BY <1>1, <1>2, AnswersDoes
<1> HIDE DEF r
<1>4. Len(r.s.session[k].want) <= MaxBlock
  <2>1. r.s.session[k].want \in Seq(Bid)
    BY <1>3 DEF Listened, State, Sessions
  <2>2. Len(r.s.session[k].want) \in Nat /\ Len(bids) \in Nat
    BY <2>1
  <2> QED
    BY <1>3, <2>2, BlockAssumption
<1>5. Good(r.s) /\ r.s \in State
  BY <1>1, <1>3, <1>4, ListenedDoes DEF Does, Good
<1>6. Holds(f, r.s, k)
  BY <1>1, <1>2, <1>3, ListenedHolds DEF Pays
<1>7. l \in Lines
  BY <1>3 DEF Lines
<1> HIDE DEF l
<1>8. Good(u) /\ Holds(r.s, u, k)
  BY <1>5, <1>6, <1>7, SendDoes, SendHolds DEF Does, Holds
<1>9. t = SetupNextFBBMessage(u, k)
  BY Zenon DEF ProcessBlock, u, l, r, f
<1> HIDE DEF u, t
<1>10. Holds(u, t, k)
  BY <1>8, <1>9, SetupNextHolds DEF Holds
<1>11. Pays(s, r.s, k)
  BY <1>1, <1>6, PaysTransitive
<1>12. Pays(s, u, k)
  BY <1>8, <1>11, PaysTransitive
<1> QED
  BY <1>10, <1>12, PaysTransitive DEF t

-----------------------------------------------------------------------------
(* A message that is stored.                                               *)

\* t has the message that s waits for, for the BBSs on its route but the partner.
Takes(s, t, k) ==
    /\ Holds(s, t, k) /\ Len(t.msg) = Len(s.msg) + 1 /\ s.session[k].want # << >>
    /\ LET m == t.msg[Len(t.msg)]
       IN  /\ m.bid = Head(s.session[k].want)
           /\ m.fbbs = Routes[m.bid][s.me] \ {s.session[k].user}

\* A message more, or one or other of those there are passed on.
PaysOrTakes(s, t, k) == (Len(t.msg) = Len(s.msg) /\ Pays(s, t, k)) \/ Takes(s, t, k)

LEMMA StoreOwes ==
  ASSUME NEW s, Good(s), Owed(s), NEW msg \in Message, msg.fbbs \subseteq Routes[msg.bid][s.me]
  PROVE  LET t == CreateMessageFromBuffer(s, msg)
         IN  /\ t \in State /\ Owed(t) /\ Grown(s, t) /\ t.session = s.session /\ t.me = s.me
             /\ \A i \in DOMAIN s.msg : t.msg[i] = s.msg[i]
<1> DEFINE t == CreateMessageFromBuffer(s, msg)
           n == Len(s.msg)
           M == Append(s.msg, msg)
<1>1. s \in State /\ s.msg \in Seq(Message) /\ n \in Nat
  BY DEF Good, State
<1>2. /\ M \in Seq(Message) /\ Len(M) = n + 1 /\ M[n + 1] = msg /\ \A i \in 1 .. n : M[i] = s.msg[i]
      /\ DOMAIN M = 1 .. n + 1 /\ DOMAIN s.msg = 1 .. n
  BY <1>1
<1>3. t = [s EXCEPT !.msg = M, !.saved = M]
  BY Zenon DEF CreateMessageFromBuffer
<1> HIDE DEF M, t
<1>4. t \in State /\ t.msg = M /\ t.saved = M /\ t.session = s.session /\ t.me = s.me
  BY <1>1, <1>2, <1>3 DEF State
<1>5. ASSUME NEW i \in DOMAIN M
      PROVE  i \in DOMAIN s.msg \/ i = n + 1
  BY <1>1, <1>2
<1>6. Owed(t)
  <2>1. ASSUME NEW i \in DOMAIN M
        PROVE  M[i].fbbs \subseteq Routes[M[i].bid][t.me]
    <3>1. CASE i \in DOMAIN s.msg
      BY <1>2, <1>4, <3>1 DEF Owed
    <3>2. CASE i = n + 1
      BY <1>2, <1>4, <3>2
    <3> QED
      BY <1>5, <3>1, <3>2
  <2> QED
    BY <1>4, <2>1 DEF Owed
<1>7. Grown(s, t)
  BY <1>1, <1>2, <1>4 DEF Grown
<1> QED
  BY <1>2, <1>4, <1>6, <1>7 DEF t

LEMMA StoreHolds ==
  ASSUME NEW s, Good(s), NEW k \in Conn, Owed(s), Addressed(s, k), NEW msg \in Message,
         msg.fbbs \subseteq Routes[msg.bid][s.me]
  PROVE  Holds(s, CreateMessageFromBuffer(s, msg), k)
<1> DEFINE t == CreateMessageFromBuffer(s, msg)
<1>1. /\ t \in State /\ Owed(t) /\ Grown(s, t) /\ t.session = s.session /\ t.me = s.me
      /\ \A i \in DOMAIN s.msg : t.msg[i] = s.msg[i]
  BY StoreOwes
<1> HIDE DEF t
<1>2. s \in State
  BY DEF Good
<1>3. Addressed(t, k)
  BY <1>1, <1>2, AddressedKept
<1>4. DOMAIN s.msg \subseteq DOMAIN t.msg
  BY <1>1, <1>2, GrownBids
<1> QED
  BY <1>1, <1>3, <1>4 DEF Holds, t

LEMMA DecodeTakes ==
  ASSUME NEW s, Good(s), NEW k \in Conn, s.session[k].want # << >>,
         ~s.session[k].FBBMsgsSent, NEW restarted \in BOOLEAN, Owed(s), Addressed(s, k)
  PROVE  PaysOrTakes(s, Decode(s, k, restarted), k)
<1> DEFINE e == s.session[k]
           b == Head(e.want)
           V == Tail(e.want)
           t == Decode(s, k, restarted)
<1>1. s \in State /\ e \in Sessions /\ e.want \in Seq(Bid) /\ s.me \in BBS
  BY DEF Good, State, Sessions
<1>2. b \in Bid /\ V \in Seq(Bid) /\ Len(V) = Len(e.want) - 1 /\ Len(e.want) \in Nat
  BY <1>1
<1>3. CASE e.shared /\ HasRestart(s, k, b) /\ ~s.restart.live
  <2>1. t = Disconnect([s EXCEPT !.session[k].want = << >>], k)
    BY <1>3, Zenon DEF Decode
  <2>2. t.msg = s.msg
    BY <1>1, <2>1 DEF Disconnect, State
  <2> HIDE DEF t
  <2>3. Holds(s, t, k)
    BY <2>1, ClearHolds
  <2> QED
    BY <2>2, <2>3, HoldsPays DEF PaysOrTakes, t
<1>4. CASE ~(e.shared /\ HasRestart(s, k, b) /\ ~s.restart.live)
  <2> DEFINE f == [e EXCEPT !.want = V, !.length = 0, !.shared = FALSE]
             r == IF e.shared /\ HasRestart(s, k, b) THEN [s.restart EXCEPT !.live = FALSE] ELSE s.restart
             u == [s EXCEPT !.restart = r, !.session = [s.session EXCEPT ![k] = f]]
             msg == New(b, s.me, e.user, restarted)
             v == CreateMessageFromBuffer(u, msg)
  <2>1. r \in {NoRestart} \cup Restarts
    <3>1. s.restart \in {NoRestart} \cup Restarts
      BY <1>1 DEF State
    <3>2. HasRestart(s, k, b) => s.restart \in Restarts
      BY <3>1 DEF HasRestart
    <3>3. ASSUME s.restart \in Restarts PROVE [s.restart EXCEPT !.live = FALSE] \in Restarts
      BY <3>3 DEF Restarts
    <3> QED
      BY <3>1, <3>2, <3>3
  <2>2. t = SetupNextFBBMessage(CreateMessageFromBuffer(
              [s EXCEPT !.session[k].want = V, !.session[k].length = 0, !.session[k].shared = FALSE,
                        !.restart = r], msg), k)
    BY <1>4, Zenon DEF Decode
  <2>3. u = [s EXCEPT !.session[k].want = V, !.session[k].length = 0, !.session[k].shared = FALSE,
                      !.restart = r]
    <3> HIDE DEF r, V
    <3> QED
      BY <1>1 DEF State
  <2>4. t = SetupNextFBBMessage(v, k)
    BY <2>2, <2>3
  <2>5. f \in Sessions /\ f.user = e.user /\ f.Active = e.Active /\ f.hdr = e.hdr /\ f.want = V
        /\ f.length = 0 /\ f.FBBMsgsSent = e.FBBMsgsSent
        /\ f.NextMessagetoForward = e.NextMessagetoForward
    <3>1. V \in Seq(Bid) /\ 0 \in 0 .. 2 /\ FALSE \in BOOLEAN
      BY <1>2
    <3> HIDE DEF V, e
    <3> QED
      BY <1>1, <3>1 DEF Sessions
  <2> HIDE DEF f, r, t
  <2>6. u \in State /\ u.msg = s.msg /\ u.session = [s.session EXCEPT ![k] = f] /\ u.me = s.me
        /\ u.saved = s.saved /\ u.temp = s.temp /\ u.shut = s.shut /\ u.out = s.out
    BY <1>1, <2>1, <2>5 DEF State
  <2> HIDE DEF u
  <2>7. u.session[k] = f /\ \A j \in Conn \ {k} : u.session[j] = s.session[j]
    BY <1>1, <2>6 DEF State
  <2>8. Fits(u, f)
    <3>1. Fits(s, e)
      BY DEF Good
    <3>2. Len(V) <= MaxBlock
      BY <1>2, <3>1, BlockAssumption DEF Fits
    <3> QED
      BY <2>5, <2>6, <3>1, <3>2 DEF Fits
  <2>9. Does(s, u, k, {})
    BY <1>1, <2>5, <2>6, <2>7, <2>8, AlterDoes
  <2>10. Owed(u) /\ Addressed(u, k) /\ Holds(s, u, k)
    <3>1. Owed(u) /\ Addressed(u, k)
      BY <1>1, <2>5, <2>6, <2>7, AlterOwed
    <3> QED
      BY <2>6, <3>1 DEF Holds
  <2>11. msg \in Message /\ msg.bid = b /\ msg.forw = {}
    BY <1>1, <1>2, NewType
  <2>12. msg.fbbs = Routes[b][s.me] \ {e.user}
    BY DEF New
  <2> HIDE DEF msg
  <2>13. Good(v) /\ v.msg = Append(u.msg, msg) /\ v.session = u.session /\ Grown(u, v) /\ v.me = u.me
    BY <2>9, <2>11, StoreDoes DEF Does
  <2>14. Holds(u, v, k)
    BY <2>6, <2>9, <2>10, <2>11, <2>12, StoreHolds DEF Does
  <2> HIDE DEF v
  <2>15. Does(v, t, k, {})
    BY <2>4, <2>5, <2>7, <2>13, SetupNextDoes
  <2>16. Holds(v, t, k)
    BY <2>4, <2>13, <2>14, SetupNextHolds DEF Holds
  <2>17. Holds(s, t, k)
    <3>1. Holds(s, v, k)
      BY <2>10, <2>14, PaysTransitive
    <3> QED
      BY <2>16, <3>1, PaysTransitive
  <2>18. LET m == t.msg[Len(t.msg)]
         IN  /\ Len(t.msg) = Len(s.msg) + 1 /\ m.bid = b /\ m.fbbs = Routes[b][s.me] \ {e.user}
    <3>1. Len(v.msg) = Len(s.msg) + 1 /\ v.msg[Len(s.msg) + 1] = msg /\ Len(s.msg) + 1 \in DOMAIN v.msg
      BY <1>1, <2>6, <2>11, <2>13 DEF State
    <3>2. Len(t.msg) = Len(v.msg)
          /\ t.msg[Len(s.msg) + 1].bid = v.msg[Len(s.msg) + 1].bid
      BY <2>15, <3>1 DEF Does, Moved, Grown
    <3>3. t.msg[Len(s.msg) + 1].fbbs = v.msg[Len(s.msg) + 1].fbbs
      BY <2>16, <3>1 DEF Holds
    <3> QED
      BY <2>11, <2>12, <3>1, <3>2, <3>3
  <2> QED
    BY <2>17, <2>18 DEF PaysOrTakes, Takes, t
<1> QED
  BY <1>3, <1>4

LEMMA UnpackTakes ==
  ASSUME NEW s, Good(s), NEW k \in Conn, ~s.session[k].FBBMsgsSent, NEW l \in Lines, l.kind = "text",
         Owed(s), Addressed(s, k)
  PROVE  PaysOrTakes(s, UnpackFBBBinary(s, k, l), k)
<1> DEFINE e == s.session[k]
           first == e.length = 0
           restart == l.from = 1 /\ first
           f == [e EXCEPT !.length = l.upto, !.shared = @ \/ restart]
           u == [s EXCEPT !.session = [s.session EXCEPT ![k] = f]]
           t == UnpackFBBBinary(s, k, l)
<1>1. s \in State /\ e \in Sessions /\ e.want \in Seq(Bid) /\ l.upto \in 1 .. 2
  BY DEF Good, State, Sessions, Lines
<1>2. [s EXCEPT !.session[k].length = l.upto, !.session[k].shared = s.session[k].shared \/ restart] = u
  BY <1>1 DEF State
<1>3. t = IF e.want = << >> THEN s
          ELSE IF restart /\ ~HasRestart(s, k, Head(e.want)) THEN Disconnect(s, k)
          ELSE IF l.upto = 2 THEN Decode(u, k, restart) ELSE u
  <2>1. t = IF e.want = << >> THEN s
            ELSE IF restart /\ ~HasRestart(s, k, Head(e.want)) THEN Disconnect(s, k)
            ELSE IF l.upto = 2
            THEN Decode([s EXCEPT !.session[k].length = l.upto,
                                  !.session[k].shared = s.session[k].shared \/ restart], k, restart)
            ELSE [s EXCEPT !.session[k].length = l.upto, !.session[k].shared = s.session[k].shared \/ restart]
    BY Zenon DEF UnpackFBBBinary
  <2> HIDE DEF t, u, f
  <2> QED
    BY <1>2, <2>1
<1>4. f \in Sessions /\ f.user = e.user /\ f.hdr = e.hdr /\ f.want = e.want /\ f.Active = e.Active
      /\ f.FBBMsgsSent = e.FBBMsgsSent /\ f.NextMessagetoForward = e.NextMessagetoForward
  <2>1. l.upto \in 0 .. 2
    BY <1>1
  <2>2. (e.shared \/ restart) \in BOOLEAN
    OBVIOUS
  <2> QED
    BY <1>1, <2>1, <2>2 DEF Sessions
<1>5. restart \in BOOLEAN
  OBVIOUS
<1> HIDE DEF f, t, restart
<1>6. Fits(s, f)
  BY <1>4 DEF Good, Fits
<1>7. Good(u) /\ Holds(s, u, k) /\ u.session[k] = f /\ u.msg = s.msg /\ u.me = s.me
  BY <1>4, <1>6, SessionHolds
<1> HIDE DEF u
<1>8. CASE t = s
  BY <1>8 DEF PaysOrTakes, Pays, t
<1>9. CASE t = Disconnect(s, k)
  <2>1. t.msg = s.msg
    BY <1>1, <1>9 DEF Disconnect, State
  <2>2. Holds(s, t, k)
    BY <1>1, <1>9, DisconnectHolds
  <2> QED
    BY <2>1, <2>2, HoldsPays DEF PaysOrTakes, t
<1>10. CASE t = u
  BY <1>7, <1>10, HoldsPays DEF PaysOrTakes, t
<1>11. CASE e.want # << >> /\ t = Decode(u, k, restart)
  <2>1. PaysOrTakes(u, t, k)
    BY <1>4, <1>5, <1>7, <1>11, DecodeTakes DEF Holds
  <2>2. CASE Len(t.msg) = Len(u.msg) /\ Pays(u, t, k)
    BY <1>7, <2>2 DEF PaysOrTakes, Pays, Holds, t
  <2>3. CASE Takes(u, t, k)
    <3>1. Holds(s, t, k)
      BY <1>7, <2>3, PaysTransitive DEF Takes
    <3> QED
      BY <1>4, <1>7, <2>3, <3>1 DEF PaysOrTakes, Takes, t
  <2> QED
    BY <2>1, <2>2, <2>3 DEF PaysOrTakes
<1> QED
  BY <1>3, <1>8, <1>9, <1>10, <1>11 DEF t

-----------------------------------------------------------------------------
(* A line of the dialogue.                                                 *)

LEMMA PromptPays ==
  ASSUME NEW y, Good(y), NEW k \in Conn, Owed(y), Addressed(y, k)
  PROVE  Pays(y, FBBDoForward(Send(y, k, Line("SID")), k, "FF"), k)
<1> DEFINE u == Send(y, k, Line("SID"))
           t == FBBDoForward(u, k, "FF")
<1>1. Line("SID") \in Lines
  BY DEF Line, Lines
<1>2. Good(u) /\ Holds(y, u, k)
  BY <1>1, SendDoes, SendHolds DEF Does, Good
<1> HIDE DEF u
<1>3. Holds(u, t, k)
  BY <1>2, DoForwardHolds DEF Holds
<1> QED
  BY <1>2, <1>3, PaysTransitive, HoldsPays DEF u

LEMMA SIDPays ==
  ASSUME NEW y, Good(y), NEW k \in Conn, Owed(y), Addressed(y, k)
  PROVE  Pays(y, ProcessSID(y, k), k)
<1> DEFINE p == y.session[k].user
           u == [y EXCEPT !.Forwarding[p] = TRUE]
<1>1. y \in State
  BY DEF Good
<1>2. CASE y.Forwarding[p]
  <2>1. ProcessSID(y, k) = Disconnect(y, k)
    BY <1>2 DEF ProcessSID
  <2> QED
    BY <1>1, <2>1, DisconnectHolds, HoldsPays
<1>3. CASE ~y.Forwarding[p]
  <2>1. ProcessSID(y, k) = u
    BY <1>3 DEF ProcessSID
  <2>2. u.msg = y.msg /\ u.session = y.session /\ u.me = y.me /\ u.saved = y.saved
    BY <1>1 DEF State
  <2> HIDE DEF u
  <2>3. Owed(u) /\ Addressed(u, k)
    BY <1>1, <2>2, AlterOwed
  <2> QED
    BY <2>1, <2>2, <2>3 DEF Pays
<1> QED
  BY <1>2, <1>3

LEMMA OfferPays ==
  ASSUME NEW k \in Conn, NEW x, Good(x), NEW y, Good(y), NEW wx, NEW wy,
         Turn(k, x, y, wx, wy), Len(wy) = 1, wy \in Seq(Lines),
         y.session[k].user \in BBS, Owed(y), Addressed(y, k)
  PROVE  Pays(y, ProcessFBBLine(y, k, Head(wy)), k)
<1> DEFINE t == ProcessFBBLine(y, k, Head(wy))
           l == Head(wy)
           B == Bids(x)
           f == FlagSentMessages(y, k)
<1>1. /\ y \in State /\ x \in State /\ l \in Lines
      /\ Offer(x, x.session[k], l) /\ Waiting(y.session[k]) /\ Delivered(y, y.session[k], B)
  <2>1. l \in Lines /\ l = wy[Len(wy)]
    <3>1. wy # << >>
      BY DEF Turn
    <3> QED
      BY <3>1, Rest
  <2> HIDE DEF l, B
  <2> QED
    BY <2>1 DEF Good, Turn, B
<1>2. l.kind \in {"FA", "FF", "FQ"}
  BY <1>1 DEF Offer
<1> HIDE DEF B
<1>3. Good(f) /\ Pays(y, f, k)
  BY <1>1, FlagSentDoes, FlagSentPays DEF Does
<1>4. CASE l.kind = "FQ"
  <2>1. t = Disconnect(f, k)
    BY <1>4 DEF ProcessFBBLine
  <2> HIDE DEF f, t
  <2>2. Holds(f, t, k)
    BY <1>3, <2>1, DisconnectHolds DEF Good, Pays
  <2> QED
    BY <1>3, <2>2, PaysTransitive DEF t
<1>5. CASE l.kind = "FF"
  <2>1. t = FBBDoForward(f, k, "FQ")
    BY <1>5 DEF ProcessFBBLine
  <2> HIDE DEF f, t
  <2>2. Holds(f, t, k)
    BY <1>3, <2>1, DoForwardHolds DEF Pays
  <2> QED
    BY <1>3, <2>2, PaysTransitive DEF t
<1>6. CASE l.kind = "FA"
  <2>1. t = ProcessBlock(y, k, l.bids)
    BY <1>6 DEF ProcessFBBLine
  <2>2. l.bids = Offered(x, x.session[k])
    BY <1>1, <1>6 DEF Offer
  <2>3. l.bids \in Seq(Bid) /\ Len(l.bids) <= MaxBlock
    <3>1. l.bids \in Seq(Bid)
      BY <1>1, <1>6 DEF Lines
    <3>2. x.session[k].hdr \in Seq(Nat) /\ Len(x.session[k].hdr) <= MaxBlock
      BY <1>1 DEF Good, Fits, State, Sessions
    <3>3. DOMAIN l.bids = 1 .. Len(l.bids) /\ Len(l.bids) \in Nat
      BY <3>1
    <3>4. DOMAIN l.bids = 1 .. Len(x.session[k].hdr) /\ Len(x.session[k].hdr) \in Nat
      BY <2>2, <3>2 DEF Offered
    <3>5. Len(l.bids) = Len(x.session[k].hdr)
      <4> DEFINE i == Len(l.bids)
                 j == Len(x.session[k].hdr)
      <4>1. 1 .. i = 1 .. j /\ i \in Nat /\ j \in Nat
        BY <3>3, <3>4
      <4> HIDE DEF i, j
      <4> QED
        BY <4>1 DEF i, j
    <3> QED
      BY <3>1, <3>2, <3>5
  <2> HIDE DEF l, t
  <2> QED
    BY <1>1, <2>1, <2>3, ProcessBlockPays DEF t, l
<1> QED
  BY <1>2, <1>4, <1>5, <1>6

\* Whatever line there is for y, it is a step of the relay's: y stores the message that
\* it waits for, or counts as passed on some of what it owes.
LEMMA LineTakes ==
  ASSUME NEW k \in Conn, NEW x, Good(x), NEW y, Good(y), NEW wx, NEW wy, wy \in Seq(Lines), wy # << >>,
         y.out[k] = << >>, y.session[k].user \in BBS,
         \/ Greeting(y.session[k], x.session[k], wy, wx)
         \/ Greeting(x.session[k], y.session[k], wx, wy)
         \/ Phase(k, x, y, wx, wy)
         \/ Phase(k, y, x, wy, wx),
         Owed(y), Addressed(y, k)
  PROVE  PaysOrTakes(y, ProcessFBBLine(y, k, Head(wy)), k)
<1> DEFINE t == ProcessFBBLine(y, k, Head(wy))
           e == y.session[k]
<1>1. Gained(y, t, k)
  BY LineResult DEF Result
<1>2. \/ Greeting(e, x.session[k], wy, wx)
      \/ Turn(k, x, y, wx, wy) /\ Len(wy) = 1
      \/ Turn(k, x, y, wx, wy) /\ Len(wy) = 2
      \/ Sending(k, x, y, wx, wy)
      \/ Answered(k, y, x, wy, wx)
  BY DEF Greeting, Phase, Turn, Sending, Answered
<1>3. ASSUME e.want = << >>, Pays(y, t, k) PROVE PaysOrTakes(y, t, k)
  BY <1>1, <1>3 DEF Gained, PaysOrTakes
<1>4. y \in State /\ wy[1] \in Lines /\ Head(wy) = wy[1]
  BY DEF Good
<1>5. CASE Greeting(e, x.session[k], wy, wx)
  <2>1. t = FBBDoForward(Send(y, k, Line("SID")), k, "FF")
    BY <1>5 DEF Greeting, ProcessFBBLine, Line
  <2>2. e.want = << >>
    BY <1>5 DEF Greeting, Idle, Waiting
  <2> HIDE DEF t
  <2> QED
    BY <1>3, <2>1, <2>2, PromptPays DEF t
<1>6. CASE Turn(k, x, y, wx, wy) /\ Len(wy) = 2
  <2>1. t = ProcessSID(y, k)
    BY <1>6 DEF Turn, ProcessFBBLine, Line
  <2>2. e.want = << >>
    BY <1>6 DEF Turn, Waiting
  <2> HIDE DEF t
  <2> QED
    BY <1>3, <2>1, <2>2, SIDPays DEF t
<1>7. CASE Turn(k, x, y, wx, wy) /\ Len(wy) = 1
  <2>1. e.want = << >>
    BY <1>7 DEF Turn, Waiting
  <2> QED
    BY <1>3, <1>7, <2>1, OfferPays
<1>8. CASE Sending(k, x, y, wx, wy)
  <2>1. e \in Sessions /\ e.want \in Seq(Bid) /\ ~e.FBBMsgsSent
    BY <1>4, <1>8 DEF State, Sessions, Sending
  <2>2. wy[1] = Text(e.want[1], 0, 1) \/ wy[1] = Text(e.want[1], 1, 2)
    BY <1>8, <2>1, FollowsNext DEF Sending
  <2>3. wy[1].kind = "text"
    BY <2>2 DEF Text
  <2>4. t = UnpackFBBBinary(y, k, wy[1])
    BY <1>4, <2>3 DEF ProcessFBBLine
  <2> HIDE DEF t
  <2> QED
    BY <1>4, <2>1, <2>3, <2>4, UnpackTakes DEF t
<1>9. CASE Answered(k, y, x, wy, wx)
  <2>1. wy[1].kind = "FS" /\ e.want = << >>
    BY <1>9 DEF Answered, Idle, Waiting
  <2>2. t = ProcessFS(y, k, wy[1].answers)
    BY <1>4, <2>1 DEF ProcessFBBLine
  <2> HIDE DEF t
  <2> QED
    BY <1>3, <1>4, <2>1, <2>2, ProcessFSPays DEF t
<1> QED
  BY <1>2, <1>5, <1>6, <1>7, <1>8, <1>9

\* A session that is over, and a start from the file.
LEMMA DisconnectedOwes ==
  ASSUME NEW s \in State, NEW k \in Conn, Owed(s)
  PROVE  LET t == Disconnected(s, k)
         IN  /\ Owed(t) /\ t.msg = s.msg /\ t.me = s.me /\ t.saved = s.saved
             /\ Addressed(s, k) => Addressed(t, k)
<1> DEFINE t == Disconnected(s, k)
           u == SaveFBBBinary(s, k)
<1>1. CASE ~s.session[k].Active
  <2>1. t = s
    BY <1>1 DEF Disconnected
  <2> QED
    BY <2>1
<1>2. CASE s.session[k].Active
  <2>1. u.msg = s.msg /\ u.me = s.me /\ u.saved = s.saved /\ u.session = s.session
        /\ DOMAIN u = DOMAIN s
    BY DEF SaveFBBBinary, State
  <2>2. t = [RemoveTempBIDS(u, k) EXCEPT !.session[k] = NoSession, !.Forwarding[s.session[k].user] = FALSE]
    BY <1>2, Zenon DEF Disconnected
  <2> HIDE DEF u, t
  <2>3. t.msg = s.msg /\ t.me = s.me /\ t.saved = s.saved /\ t.session[k] = NoSession
    BY <2>1, <2>2 DEF RemoveTempBIDS, State
  <2>4. Owed(t)
    BY <2>3 DEF Owed
  <2>5. Addressed(t, k)
    <3>1. NoSession.hdr = << >>
      BY DEF NoSession
    <3>2. t.session[k].hdr = << >>
      BY <2>3, <3>1
    <3> QED
      BY <3>2 DEF Addressed, Proposed, ToSet
  <2> QED
    BY <2>3, <2>4, <2>5 DEF t
<1> QED
  BY <1>1, <1>2

LEMMA StartedOwes ==
  ASSUME NEW s, Good(s), Owed(s)
  PROVE  LET t == Started(s.me, s.saved)
         IN  /\ Owed(t) /\ \A k \in Conn : Addressed(t, k)
             /\ DOMAIN t.msg = DOMAIN s.msg
             /\ \A i \in DOMAIN s.msg : /\ t.msg[i].bid = s.msg[i].bid
                                        /\ s.msg[i].fbbs \subseteq t.msg[i].fbbs
                                        /\ t.msg[i].fbbs \subseteq Routes[s.msg[i].bid][s.me]
<1> DEFINE t == Started(s.me, s.saved)
<1>1. s \in State /\ DOMAIN s.saved = DOMAIN s.msg
      /\ \A i \in DOMAIN s.saved : s.saved[i] \in Message /\ s.saved[i].bid = s.msg[i].bid
  BY DEF Good, Kept, State
<1>2. t.msg = [m \in DOMAIN s.saved |-> [s.saved[m] EXCEPT !.Defered = 0]] /\ t.saved = s.saved
      /\ t.me = s.me /\ \A k \in Conn : t.session[k] = NoSession
  BY DEF Started, Fresh
<1> HIDE DEF t
<1>3. \A i \in DOMAIN s.saved : t.msg[i].bid = s.saved[i].bid /\ t.msg[i].fbbs = s.saved[i].fbbs
  BY <1>1, <1>2 DEF Message
<1>4. Owed(t)
  BY <1>1, <1>2, <1>3 DEF Owed
<1>5. \A k \in Conn : t.session[k].hdr = << >>
  <2>1. NoSession.hdr = << >>
    BY DEF NoSession
  <2> QED
    BY <1>2, <2>1
<1>6. \A k \in Conn : Addressed(t, k)
  BY <1>5 DEF Addressed, Proposed, ToSet
<1> QED
  BY <1>1, <1>2, <1>3, <1>4, <1>6 DEF Owed, t
=============================================================================
