---------------------------- MODULE ChatNetProofs ----------------------------
(***************************************************************************)
(* Chat nodes for any nodes, any partners and any troubles: a link that a  *)
(* node has marked as being set up or as linked has a circuit, and, where  *)
(* the partners form no ring, the counts are the references there are.     *)
(*                                                                         *)
(* The handlers of ChatNode are folds over sets and packets, so there are  *)
(* lemmas about folds first.  Most handlers touch no link (Keeps); the few *)
(* that do keep FlagsFound.  The steps of ChatNet need to know besides     *)
(* that a circuit in use belongs to a connection which has not ended, or   *)
(* has ended and is yet to be told (EndsKnown): otherwise the number of a  *)
(* new connection could be that of a link.                                 *)
(*                                                                         *)
(* In a forest each node is on the side of one partner.  A node is Sound   *)
(* when what it has of each linked partner lies on that side and is        *)
(* counted, and has been said to the other partners.  What ties the nodes  *)
(* together is the wire (Carries): the users an end has from the other are *)
(* those the other has told of, when the lines still on their way are      *)
(* taken (Told, Carried).                                                  *)
(***************************************************************************)
EXTENDS ChatNet, FiniteSetTheorems, SequenceTheorems, WellFoundedInduction, TLAPS

-----------------------------------------------------------------------------
(* Numbers and folds.                                                      *)

\* A set of numbers that is not empty has a least one.
LEMMA NatLeast ==
  ASSUME NEW S \in SUBSET Nat, S # {}
  PROVE  \E i \in S : \A r \in S : i <= r
<1>1. PICK i \in S : \A r \in S : <<r, i>> \notin OpToRel(<, Nat)
  BY NatLessThanWellFounded, WFMin
<1>2. \A r \in S : ~ (r < i)
  BY <1>1, Zenon DEF OpToRel
<1> QED
  BY <1>2

\* Induction, for a set of numbers in the place of a predicate.
LEMMA NatInductionOnSet ==
  ASSUME NEW S \in SUBSET Nat, 0 \in S, \A n \in S : n + 1 \in S
  PROVE  \A n \in Nat : n \in S
<1> DEFINE T == Nat \ S
<1>1. SUFFICES ASSUME T # {} PROVE FALSE
  OBVIOUS
<1>2. PICK n \in T : \A m \in T : n <= m
  BY <1>1, NatLeast
<1>3. n # 0 /\ n - 1 \in Nat /\ n - 1 \notin T
  BY <1>2
<1> QED
  BY <1>2, <1>3

\* A set of numbers with a bound has a largest one.
LEMMA LargestExists ==
  ASSUME NEW N \in Nat, NEW S, S \subseteq 1 .. N, S # {}
  PROVE  Max(S) \in S
<1> DEFINE T == {N - i : i \in S}
<1>1. T \in SUBSET Nat /\ T # {}
  <2>1. \A i \in S : i \in 1 .. N /\ N - i \in Nat
    OBVIOUS
  <2> QED
    BY <2>1
<1>2. PICK j \in T : \A r \in T : j <= r
  BY <1>1, NatLeast
<1>3. PICK m \in S : j = N - m
  BY <1>2
<1>4. \A i \in S : N - m <= N - i
  BY <1>2, <1>3
<1>5. \A i \in S : m >= i
  BY <1>4
<1> QED
  BY <1>5 DEF Max

\* A fold over a finite set S picks an element pick[x] of what is left, x, and does
\* do on it and the result for the others.  What it does is a function on results
\* of T, so that the fold is one, and is of T.
Picks(S, pick) == \A x \in SUBSET S : x # {} => pick[x] \in x
FoldStep(base, pick, do, f, x) == IF x = {} THEN base ELSE do[<< pick[x], f[x \ {pick[x]}] >>]

IsFold(S, T, base, pick, do, f) ==
    f \in [SUBSET S -> T] /\ \A x \in SUBSET S : f[x] = FoldStep(base, pick, do, f, x)

LEMMA FoldExists ==
  ASSUME NEW S, IsFiniteSet(S), NEW T, NEW base \in T,
         NEW pick, Picks(S, pick),
         NEW do \in [S \X T -> T]
  PROVE  \E f : IsFold(S, T, base, pick, do, f)
<1> DEFINE Upto(m) == {x \in SUBSET S : Cardinality(x) <= m}
           Step(f, x) == FoldStep(base, pick, do, f, x)
           I == {m \in Nat : \E f \in [Upto(m) -> T] : \A x \in Upto(m) : f[x] = Step(f, x)}
<1>1. \A x \in SUBSET S : IsFiniteSet(x) /\ Cardinality(x) \in Nat
  BY FS_Subset, FS_CardinalityType
<1>2. \A x \in SUBSET S : Cardinality(x) = 0 <=> x = {}
  BY <1>1, FS_EmptySet
<1>3. \A x \in SUBSET S : x # {} => /\ x \ {pick[x]} \in SUBSET S /\ pick[x] \in S
                                  /\ Cardinality(x \ {pick[x]}) = Cardinality(x) - 1
  <2> TAKE x \in SUBSET S
  <2> HAVE x # {}
  <2>1. pick[x] \in x
    BY DEF Picks
  <2>2. Cardinality(x \ {pick[x]}) = Cardinality(x) - 1
    BY <1>1, <2>1, FS_RemoveElement
  <2> QED
    BY <2>1, <2>2
<1>4. 0 \in I
  <2> DEFINE f == [x \in Upto(0) |-> base]
  <2>1. \A x \in Upto(0) : x = {}
    BY <1>1, <1>2
  <2>2. f \in [Upto(0) -> T] /\ \A x \in Upto(0) : f[x] = Step(f, x)
    BY <2>1 DEF FoldStep
  <2> HIDE DEF f, Upto, Step
  <2> QED
    BY <2>2
<1>5. ASSUME NEW m \in I
      PROVE  m + 1 \in I
  <2>1. PICK f \in [Upto(m) -> T] : \A x \in Upto(m) : f[x] = Step(f, x)
    OBVIOUS
  <2> DEFINE e == [x \in Upto(m + 1) |-> IF x \in Upto(m) THEN f[x] ELSE Step(f, x)]
  <2>2. \A x \in Upto(m + 1) : x # {} => x \ {pick[x]} \in Upto(m)
    BY <1>1, <1>3
  <2>3. \A x \in Upto(m) : x # {} => x \ {pick[x]} \in Upto(m)
    BY <1>1, <1>3
  <2>4. Upto(m) \subseteq Upto(m + 1) /\ Upto(m + 1) \subseteq SUBSET S
    BY <1>1
  <2>5. \A x \in Upto(m + 1) : Step(f, x) \in T
    <3> TAKE x \in Upto(m + 1)
    <3>1. CASE x = {}
      BY <3>1 DEF FoldStep
    <3>2. CASE x # {}
      <4>1. pick[x] \in S /\ x \ {pick[x]} \in Upto(m)
        BY <1>3, <2>2, <2>4, <3>2
      <4>2. f[x \ {pick[x]}] \in T
        BY <4>1
      <4> HIDE DEF Upto
      <4> QED
        BY <3>2, <4>1, <4>2 DEF FoldStep
    <3> QED
      BY <3>1, <3>2
  <2>6. e \in [Upto(m + 1) -> T]
    <3> HIDE DEF Upto, Step
    <3> QED
      BY <2>1, <2>4, <2>5
  <2>7. \A x \in Upto(m) : e[x] = f[x]
    <3> HIDE DEF Upto, Step
    <3> QED
      BY <2>4
  <2>8. \A x \in Upto(m + 1) : Step(e, x) = Step(f, x)
    <3> HIDE DEF Upto, e
    <3> QED
      BY <2>2, <2>7 DEF FoldStep
  <2>9. \A x \in Upto(m + 1) : e[x] = Step(e, x)
    <3> HIDE DEF Upto, Step
    <3> QED
      BY <2>1, <2>7, <2>8
  <2> HIDE DEF e, Upto, Step
  <2> QED
    BY <2>6, <2>9
<1> HIDE DEF I
<1>6. \A m \in Nat : m \in I
  BY <1>4, <1>5, NatInductionOnSet DEF I
<1>7. Cardinality(S) \in I
  BY <1>1, <1>6
<1>8. Upto(Cardinality(S)) = SUBSET S
  BY <1>1, FS_Subset
<1>9. PICK f \in [Upto(Cardinality(S)) -> T] :
         \A x \in Upto(Cardinality(S)) : f[x] = FoldStep(base, pick, do, f, x)
  BY <1>7 DEF I
<1> HIDE DEF Upto
<1>10. IsFold(S, T, base, pick, do, f)
  BY <1>8, <1>9 DEF IsFold
<1> QED
  BY <1>10

\* Induction over the subsets of a finite set: G has the empty set, and every subset
\* x if it has x without one of its elements.
LEMMA SubsetInduction ==
  ASSUME NEW S, IsFiniteSet(S), NEW G, {} \in G,
         \A x \in SUBSET S : x # {} => \E z \in x : x \ {z} \in G => x \in G
  PROVE  S \in G
<1> DEFINE I == {m \in Nat : \A x \in SUBSET S : Cardinality(x) = m => x \in G}
<1>1. \A x \in SUBSET S : IsFiniteSet(x) /\ Cardinality(x) \in Nat
  BY FS_Subset, FS_CardinalityType
<1>2. \A x \in SUBSET S : Cardinality(x) = 0 => x = {}
  BY <1>1, FS_EmptySet
<1>3. 0 \in I
  BY <1>2
<1>4. ASSUME NEW m \in I
      PROVE  m + 1 \in I
  <2> SUFFICES ASSUME NEW x \in SUBSET S, Cardinality(x) = m + 1
               PROVE  x \in G
    OBVIOUS
  <2>1. x # {}
    <3>1. Cardinality({}) = 0 /\ m + 1 # 0
      BY FS_EmptySet
    <3> QED
      BY <3>1
  <2>2. PICK z \in x : x \ {z} \in G => x \in G
    BY <2>1
  <2>3. Cardinality(x \ {z}) = m
    <3>1. Cardinality(x \ {z}) = Cardinality(x) - 1
      BY <1>1, FS_RemoveElement
    <3> QED
      BY <3>1
  <2>4. x \ {z} \in G
    BY <2>3
  <2> QED
    BY <2>2, <2>4
<1> HIDE DEF I
<1>5. \A m \in Nat : m \in I
  BY <1>3, <1>4, NatInductionOnSet DEF I
<1> QED
  BY <1>1, <1>5 DEF I

-----------------------------------------------------------------------------
(* The state of a node, and what leaves its links alone.                   *)

Flag == {"nil", "linkini", "linked"}
LineKind == {"RTL", "OK", "join", "leave", "link", "unlink", "topic"}
LineSet == [kind : LineKind, node : Node, about : Node \cup User, topic : Topic]
UserSet == [call : Node \cup User, node : Node, circuit : Conn \cup {Local}, topic : Topic]

\* A circuit in use has a partner; one that is not in use has none and is no link.
InUse == [Active : {TRUE}, rtcflags : Flag \cup {"linkwait"}, link : Node,
          refcnt : Int, hnode : [Node -> Int]]
NotInUse == [Active : {FALSE}, rtcflags : {"nil"}, refcnt : Int, hnode : [Node -> Int]]
CircuitSet == InUse \cup NotInUse

State ==
    {s \in [me : Node, flags : [Node -> Flag], circuit : [Conn -> CircuitSet],
            node : [Node -> Int], user : SUBSET UserSet, out : [Conn -> Seq(LineSet)],
            shut : SUBSET Conn] : IsFiniteSet(s.user)}

\* d has the link of c, in the same condition.
SameLink(c, d) ==
    /\ d.Active = c.Active /\ d.rtcflags = c.rtcflags
    /\ c.Active => d.link = c.link

\* t has the links of s.
Keeps(s, t) ==
    /\ t \in State
    /\ t.flags = s.flags
    /\ \A k \in Conn : SameLink(s.circuit[k], t.circuit[k])

\* A circuit keeps its link while its counts change.
LEMMA CircuitCounts ==
  ASSUME NEW c \in CircuitSet, NEW i \in Int, NEW h \in [Node -> Int]
  PROVE  /\ [c EXCEPT !.refcnt = i] \in CircuitSet /\ SameLink(c, [c EXCEPT !.refcnt = i])
         /\ [c EXCEPT !.hnode = h] \in CircuitSet /\ SameLink(c, [c EXCEPT !.hnode = h])
<1>1. CASE c \in InUse
  BY <1>1 DEF InUse, CircuitSet, SameLink
<1>2. CASE c \in NotInUse
  BY <1>2 DEF NotInUse, CircuitSet, SameLink
<1> QED
  BY <1>1, <1>2 DEF CircuitSet

LEMMA CircuitFields ==
  ASSUME NEW c \in CircuitSet
  PROVE  /\ c.Active \in BOOLEAN /\ c.refcnt \in Int /\ c.hnode \in [Node -> Int]
         /\ c.rtcflags # "nil" => c.Active
         /\ c.Active => c.link \in Node
  BY DEF CircuitSet, InUse, NotInUse

LEMMA StateFields ==
  ASSUME NEW s \in State
  PROVE  /\ s.me \in Node /\ s.flags \in [Node -> Flag] /\ s.circuit \in [Conn -> CircuitSet]
         /\ s.node \in [Node -> Int] /\ s.user \in SUBSET UserSet /\ IsFiniteSet(s.user)
         /\ s.out \in [Conn -> Seq(LineSet)] /\ s.shut \in SUBSET Conn
  BY DEF State

LEMMA KeepsItself ==
  ASSUME NEW s \in State
  PROVE  Keeps(s, s)
  BY DEF Keeps, SameLink

LEMMA KeepsOn ==
  ASSUME NEW s, NEW t, NEW u, Keeps(s, t), Keeps(t, u)
  PROVE  Keeps(s, u)
<1>1. \A k \in Conn : SameLink(s.circuit[k], u.circuit[k])
  BY DEF Keeps, SameLink
<1> QED
  BY <1>1 DEF Keeps

\* Fields other than the circuits.
LEMMA FieldsKeep ==
  ASSUME NEW s \in State, NEW x \in [Node -> Int], NEW us \in SUBSET UserSet, IsFiniteSet(us),
         NEW o \in [Conn -> Seq(LineSet)], NEW d \in SUBSET Conn
  PROVE  /\ Keeps(s, [s EXCEPT !.node = x])
         /\ Keeps(s, [s EXCEPT !.user = us])
         /\ Keeps(s, [s EXCEPT !.out = o])
         /\ Keeps(s, [s EXCEPT !.shut = d])
  BY DEF Keeps, State, SameLink

LEMMA CircuitsKeep ==
  ASSUME NEW s \in State, NEW c \in [Conn -> CircuitSet],
         \A k \in Conn : SameLink(s.circuit[k], c[k])
  PROVE  Keeps(s, [s EXCEPT !.circuit = c])
  BY DEF Keeps, State

\* The counts of one circuit.
LEMMA CountsKeep ==
  ASSUME NEW s \in State, NEW k, NEW i \in Int, NEW h \in [Node -> Int]
  PROVE  /\ Keeps(s, [s EXCEPT !.circuit[k].refcnt = i])
         /\ Keeps(s, [s EXCEPT !.circuit[k].hnode = h])
<1>1. \A j \in Conn : s.circuit[j] \in CircuitSet /\ SameLink(s.circuit[j], s.circuit[j])
  BY StateFields DEF SameLink
<1>2. Keeps(s, [s EXCEPT !.circuit[k].refcnt = i])
  <2> DEFINE c == [s.circuit EXCEPT ![k] = [@ EXCEPT !.refcnt = i]]
  <2>1. s.circuit \in [Conn -> CircuitSet]
    BY StateFields
  <2>2. k \in Conn => [s.circuit[k] EXCEPT !.refcnt = i] \in CircuitSet
                       /\ SameLink(s.circuit[k], [s.circuit[k] EXCEPT !.refcnt = i])
    BY <1>1, CircuitCounts
  <2>3. c \in [Conn -> CircuitSet] /\ \A j \in Conn : SameLink(s.circuit[j], c[j])
    BY <1>1, <2>1, <2>2
  <2>4. [s EXCEPT !.circuit[k].refcnt = i] = [s EXCEPT !.circuit = c]
    OBVIOUS
  <2> HIDE DEF c
  <2> QED
    BY <2>3, <2>4, CircuitsKeep
<1>3. Keeps(s, [s EXCEPT !.circuit[k].hnode = h])
  <2> DEFINE c == [s.circuit EXCEPT ![k] = [@ EXCEPT !.hnode = h]]
  <2>1. s.circuit \in [Conn -> CircuitSet]
    BY StateFields
  <2>2. k \in Conn => [s.circuit[k] EXCEPT !.hnode = h] \in CircuitSet
                       /\ SameLink(s.circuit[k], [s.circuit[k] EXCEPT !.hnode = h])
    BY <1>1, CircuitCounts
  <2>3. c \in [Conn -> CircuitSet] /\ \A j \in Conn : SameLink(s.circuit[j], c[j])
    BY <1>1, <2>1, <2>2
  <2>4. [s EXCEPT !.circuit[k].hnode = h] = [s EXCEPT !.circuit = c]
    OBVIOUS
  <2> HIDE DEF c
  <2> QED
    BY <2>3, <2>4, CircuitsKeep
<1> QED
  BY <1>2, <1>3

-----------------------------------------------------------------------------
(* The operators that leave the links alone.                               *)

LEMMA ConnFinite == IsFiniteSet(Conn) /\ \A K \in SUBSET Conn : IsFiniteSet(K)
<1>1. MaxConn \in Nat /\ 1 \in Nat
  BY ChatAssumption
<1>2. IsFiniteSet(1 .. MaxConn)
  BY <1>1, FS_Interval
<1> QED
  BY <1>2, FS_Subset DEF Conn

LEMMA SendKeeps ==
  ASSUME NEW s \in State, NEW K, NEW l \in LineSet
  PROVE  Keeps(s, Send(s, K, l))
<1> DEFINE o == [k \in Conn |-> IF k \in K THEN Append(s.out[k], l) ELSE s.out[k]]
<1>1. s.out \in [Conn -> Seq(LineSet)]
  BY StateFields
<1>2. \A k \in Conn : Append(s.out[k], l) \in Seq(LineSet)
  BY <1>1
<1>3. o \in [Conn -> Seq(LineSet)]
  BY <1>1, <1>2
<1>4. s.node \in [Node -> Int] /\ s.user \in SUBSET UserSet /\ IsFiniteSet(s.user)
      /\ s.shut \in SUBSET Conn
  BY StateFields
<1>5. Send(s, K, l) = [s EXCEPT !.out = o]
  BY DEF Send
<1> HIDE DEF o
<1> QED
  BY <1>3, <1>4, <1>5, FieldsKeep

LEMMA UpdatesKeep ==
  ASSUME NEW s \in State
  PROVE  /\ \A x \in [Node -> Int] : Keeps(s, [s EXCEPT !.node = x])
         /\ \A us \in SUBSET UserSet : IsFiniteSet(us) => Keeps(s, [s EXCEPT !.user = us])
         /\ \A d \in SUBSET Conn : Keeps(s, [s EXCEPT !.shut = d])
         /\ \A o \in [Conn -> Seq(LineSet)] : Keeps(s, [s EXCEPT !.out = o])
<1>1. s.node \in [Node -> Int] /\ s.user \in SUBSET UserSet /\ IsFiniteSet(s.user)
      /\ s.shut \in SUBSET Conn /\ s.out \in [Conn -> Seq(LineSet)]
  BY StateFields
<1> QED
  BY <1>1, FieldsKeep

LEMMA DisconnectKeeps ==
  ASSUME NEW s \in State, NEW k \in Conn
  PROVE  Keeps(s, Disconnect(s, k))
<1>1. s.shut \cup {k} \in SUBSET Conn
  BY StateFields
<1> QED
  BY <1>1, UpdatesKeep DEF Disconnect

\* The lines there are.
LEMMA LineTypes ==
  ASSUME NEW kind \in LineKind, NEW n \in Node, NEW a \in Node \cup User, NEW c \in Topic
  PROVE  Line(kind, n, a, c) \in LineSet
  BY DEF Line, LineSet

LEMMA NodeLineType ==
  ASSUME NEW s \in State, NEW kind \in LineKind, NEW n \in Node
  PROVE  NodeLine(s, kind, n) \in LineSet
  BY LineTypes, StateFields, ChatAssumption DEF NodeLine

LEMMA UserLineType ==
  ASSUME NEW kind \in LineKind, NEW r, r.call \in Node \cup User, r.node \in Node
  PROVE  UserLine(kind, r) \in LineSet
  BY LineTypes, ChatAssumption DEF UserLine

LEMMA TopicLineType ==
  ASSUME NEW s \in State, NEW r, r.call \in Node \cup User, r.topic \in Topic
  PROVE  TopicLine(s, r) \in LineSet
<1>1. "topic" \in LineKind
  BY DEF LineKind
<1> QED
  BY <1>1, LineTypes, StateFields DEF TopicLine

\* A count of a table of counts is given a new value.
LEMMA CountSet ==
  ASSUME NEW h \in [Node -> Int], NEW n, NEW i, n \in Node => i \in Int
  PROVE  [h EXCEPT ![n] = i] \in [Node -> Int]
  OBVIOUS

LEMMA NodeDecKeeps ==
  ASSUME NEW s \in State, NEW n
  PROVE  Keeps(s, node_dec(s, n))
<1> DEFINE few == Cardinality({r \in s.user : r.node = n})
                  + Cardinality({k \in Linked(s) : cn_find(s, k, n)})
           i == IF s.node[n] # 1 THEN s.node[n] - 1 ELSE few
           x == [s.node EXCEPT ![n] = i]
<1>1. s.node \in [Node -> Int] /\ IsFiniteSet(s.user)
  BY StateFields
<1>2. few \in Int
  <2>1. IsFiniteSet({r \in s.user : r.node = n})
    BY <1>1, FS_Subset
  <2>2. IsFiniteSet({k \in Linked(s) : cn_find(s, k, n)})
    BY ConnFinite DEF Linked
  <2>3. Cardinality({r \in s.user : r.node = n}) \in Nat
        /\ Cardinality({k \in Linked(s) : cn_find(s, k, n)}) \in Nat
    BY <2>1, <2>2, FS_CardinalityType
  <2> QED
    BY <2>3
<1> HIDE DEF few
<1>3. x \in [Node -> Int]
  <2>1. n \in Node => i \in Int
    BY <1>1, <1>2
  <2> HIDE DEF i
  <2> QED
    BY <1>1, <2>1, CountSet
<1>4. node_dec(s, n) = [s EXCEPT !.node = x]
  BY DEF node_dec, few
<1> HIDE DEF x
<1> QED
  BY <1>3, <1>4, UpdatesKeep

\* One count of a circuit up or down.
LEMMA HnodeKeeps ==
  ASSUME NEW s \in State, NEW k \in Conn, NEW n
  PROVE  /\ Keeps(s, [s EXCEPT !.circuit[k].hnode[n] = @ + 1])
         /\ Keeps(s, [s EXCEPT !.circuit[k].hnode[n] = @ - 1])
<1> DEFINE h == [s.circuit[k].hnode EXCEPT ![n] = @ + 1]
           g == [s.circuit[k].hnode EXCEPT ![n] = @ - 1]
<1>1. s.circuit[k].hnode \in [Node -> Int]
  BY StateFields, CircuitFields
<1>2. h \in [Node -> Int] /\ g \in [Node -> Int]
  <2>1. n \in Node => s.circuit[k].hnode[n] + 1 \in Int /\ s.circuit[k].hnode[n] - 1 \in Int
    BY <1>1
  <2> QED
    BY <1>1, <2>1, CountSet
<1>3. /\ [s EXCEPT !.circuit[k].hnode[n] = @ + 1] = [s EXCEPT !.circuit[k].hnode = h]
      /\ [s EXCEPT !.circuit[k].hnode[n] = @ - 1] = [s EXCEPT !.circuit[k].hnode = g]
  OBVIOUS
<1>4. Keeps(s, [s EXCEPT !.circuit[k].hnode = h]) /\ Keeps(s, [s EXCEPT !.circuit[k].hnode = g])
  <2> HIDE DEF h, g
  <2>1. 0 \in Int
    OBVIOUS
  <2> QED
    BY <1>2, <2>1, CountsKeep
<1> QED
  BY <1>3, <1>4

LEMMA CnIncKeeps ==
  ASSUME NEW s \in State, NEW k \in Conn, NEW n
  PROVE  Keeps(s, cn_inc(s, k, n))
<1> DEFINE t == [s EXCEPT !.node[n] = @ + 1]
<1>1. Keeps(s, t)
  <2> DEFINE x == [s.node EXCEPT ![n] = @ + 1]
  <2>1. x \in [Node -> Int]
    <3>1. s.node \in [Node -> Int] /\ (n \in Node => s.node[n] + 1 \in Int)
      BY StateFields
    <3> QED
      BY <3>1, CountSet
  <2>2. t = [s EXCEPT !.node = x]
    OBVIOUS
  <2> HIDE DEF x
  <2> QED
    BY <2>1, <2>2, UpdatesKeep
<1>2. t \in State
  BY <1>1 DEF Keeps
<1>3. cn_inc(s, k, n) = [t EXCEPT !.circuit[k].hnode[n] = @ + 1]
  BY DEF cn_inc
<1> HIDE DEF t
<1>4. Keeps(t, [t EXCEPT !.circuit[k].hnode[n] = @ + 1])
  BY <1>2, HnodeKeeps
<1>5. Keeps(t, cn_inc(s, k, n))
  BY <1>3, <1>4
<1> QED
  BY <1>1, <1>5, KeepsOn

LEMMA CnDecKeeps ==
  ASSUME NEW s \in State, NEW k \in Conn, NEW n
  PROVE  Keeps(s, cn_dec(s, k, n))
  BY HnodeKeeps, KeepsItself DEF cn_dec

\* Telling the other links.
LEMMA NodeTellKeeps ==
  ASSUME NEW s \in State, NEW n \in Node, NEW kind \in LineKind
  PROVE  Keeps(s, node_tell(s, n, kind))
<1>1. NodeLine(s, kind, n) \in LineSet
  BY NodeLineType
<1> QED
  BY <1>1, SendKeeps DEF node_tell

LEMMA UserTellKeeps ==
  ASSUME NEW s \in State, NEW r, r.call \in Node \cup User, r.node \in Node,
         NEW kind \in LineKind
  PROVE  Keeps(s, user_tell(s, r, kind))
<1>1. UserLine(kind, r) \in LineSet
  BY UserLineType
<1> QED
  BY <1>1, SendKeeps DEF user_tell

LEMMA EchoKeeps ==
  ASSUME NEW s \in State, NEW k, NEW l \in LineSet
  PROVE  Keeps(s, echo(s, k, l))
  BY SendKeeps DEF echo

\* Users come, change and go.
LEMMA UserSetKeeps ==
  ASSUME NEW s \in State, NEW r, NEW x \in UserSet
  PROVE  /\ Keeps(s, [s EXCEPT !.user = @ \ {r}])
         /\ Keeps(s, [s EXCEPT !.user = @ \cup {x}])
         /\ Keeps(s, [s EXCEPT !.user = (@ \ {r}) \cup {x}])
<1>1. s.user \in SUBSET UserSet /\ IsFiniteSet(s.user)
  BY StateFields
<1>2. \A us \in SUBSET UserSet : IsFiniteSet(us) => Keeps(s, [s EXCEPT !.user = us])
  BY UpdatesKeep
<1>3. IsFiniteSet(s.user \ {r}) /\ s.user \ {r} \in SUBSET UserSet
  BY <1>1, FS_Subset
<1>4. IsFiniteSet(s.user \cup {x}) /\ s.user \cup {x} \in SUBSET UserSet
  BY <1>1, FS_AddElement
<1>5. IsFiniteSet((s.user \ {r}) \cup {x}) /\ (s.user \ {r}) \cup {x} \in SUBSET UserSet
  BY <1>3, FS_AddElement
<1> QED
  BY <1>2, <1>3, <1>4, <1>5

LEMMA RefcntKeeps ==
  ASSUME NEW s \in State, NEW k \in Conn
  PROVE  /\ Keeps(s, [s EXCEPT !.circuit[k].refcnt = @ + 1])
         /\ Keeps(s, [s EXCEPT !.circuit[k].refcnt = @ - 1])
<1>1. s.circuit[k].refcnt + 1 \in Int /\ s.circuit[k].refcnt - 1 \in Int
      /\ s.circuit[k].hnode \in [Node -> Int]
  BY StateFields, CircuitFields
<1>2. \A i \in Int : Keeps(s, [s EXCEPT !.circuit[k].refcnt = i])
  BY <1>1, CountsKeep
<1> QED
  BY <1>1, <1>2

LEMMA DropUserKeeps ==
  ASSUME NEW s \in State, NEW r \in UserSet, r.circuit \in Conn
  PROVE  Keeps(s, DropUser(s, r))
<1> DEFINE a == user_tell(s, r, "leave")
           b == [a EXCEPT !.user = @ \ {r}]
           c == [b EXCEPT !.circuit[r.circuit].refcnt = @ - 1]
<1>1. Keeps(s, a) /\ a \in State
  <2>1. r.call \in Node \cup User /\ r.node \in Node /\ "leave" \in LineKind
    BY DEF UserSet, LineKind
  <2>2. Keeps(s, a)
    BY <2>1, UserTellKeeps
  <2> QED
    BY <2>2 DEF Keeps
<1>2. Keeps(a, b) /\ b \in State
  <2> HIDE DEF a
  <2>1. Keeps(a, b)
    BY <1>1, UserSetKeeps
  <2> QED
    BY <2>1 DEF Keeps
<1>3. Keeps(b, c) /\ c \in State
  <2> HIDE DEF b
  <2>1. Keeps(b, c)
    BY <1>2, RefcntKeeps
  <2> QED
    BY <2>1 DEF Keeps
<1>4. DropUser(s, r) = node_dec(c, r.node)
  <2>1. c = [a EXCEPT !.user = @ \ {r}, !.circuit[r.circuit].refcnt = @ - 1]
    OBVIOUS
  <2> HIDE DEF c
  <2> QED
    BY <2>1 DEF DropUser
<1> HIDE DEF a, b, c
<1>5. Keeps(c, DropUser(s, r))
  BY <1>3, <1>4, NodeDecKeeps
<1> QED
  BY <1>1, <1>2, <1>3, <1>5, KeepsOn

LEMMA DropNodeKeeps ==
  ASSUME NEW s \in State, NEW n \in Node
  PROVE  Keeps(s, DropNode(s, n))
<1> DEFINE a == node_tell(s, n, "unlink")
<1>1. Keeps(s, a) /\ a \in State
  <2>1. "unlink" \in LineKind
    BY DEF LineKind
  <2>2. Keeps(s, a)
    BY <2>1, NodeTellKeeps
  <2> QED
    BY <2>2 DEF Keeps
<1> HIDE DEF a
<1>2. Keeps(a, node_dec(a, n))
  BY <1>1, NodeDecKeeps
<1> QED
  BY <1>1, <1>2, KeepsOn DEF DropNode, a

-----------------------------------------------------------------------------
(* The handlers' loops.                                                    *)

\* What FoldSet picks of a set.
Picked(x) == CHOOSE y \in x : TRUE

LEMMA PickedIn == \A x : x # {} => Picked(x) \in x
  BY DEF Picked

\* f is what the loop makes of a, element by element.
DropUsersIn(f, a, S) ==
    /\ f[{}] = a
    /\ \A x \in SUBSET S : x # {} => f[x] = DropUser(f[x \ {Picked(x)}], Picked(x))
    /\ FoldSet(LAMBDA r, t : DropUser(t, r), a, S) = f[S]

\* The users of a link go, one after the other.
LEMMA DropUsersRun ==
  ASSUME NEW a \in State, NEW S, IsFiniteSet(S), S \subseteq UserSet,
         \A r \in S : r.circuit \in Conn
  PROVE  \E f : DropUsersIn(f, a, S)
<1> DEFINE T == {t \in State : Keeps(a, t)}
           pick == [x \in SUBSET S |-> Picked(x)]
           do == [p \in S \X T |-> DropUser(p[2], p[1])]
           Step(f) == [x \in SUBSET S |->
                         IF x = {} THEN a
                         ELSE LET z == Picked(x) IN DropUser(f[x \ {z}], z)]
           iter == CHOOSE f : f = Step(f)
<1>1. a \in T
  BY KeepsItself
<1>2. Picks(S, pick)
  BY PickedIn DEF Picks
<1>3. \A z \in S, t \in T : DropUser(t, z) \in T
  <2> TAKE z \in S, t \in T
  <2>1. Keeps(t, DropUser(t, z))
    BY DropUserKeeps
  <2> QED
    BY <2>1, KeepsOn DEF Keeps
<1>4. do \in [S \X T -> T]
  <2> HIDE DEF T
  <2> QED
    BY <1>3
<1>5. PICK f : IsFold(S, T, a, pick, do, f)
  <2> HIDE DEF T, pick, do
  <2> QED
    BY <1>1, <1>2, <1>4, FoldExists
<1>6. \A x \in SUBSET S : x # {} => f[x] = DropUser(f[x \ {pick[x]}], pick[x])
  <2> TAKE x \in SUBSET S
  <2> HAVE x # {}
  <2>1. pick[x] \in S /\ f[x \ {pick[x]}] \in T
    <3> HIDE DEF T, pick
    <3> QED
      BY <1>2, <1>5 DEF Picks, IsFold
  <2>2. f[x] = do[<< pick[x], f[x \ {pick[x]}] >>]
    <3> HIDE DEF T, pick, do
    <3> QED
      BY <1>5 DEF IsFold, FoldStep
  <2> HIDE DEF T, pick
  <2> QED
    BY <2>1, <2>2
<1>7. f = Step(f)
  <2>1. \A x \in SUBSET S : x # {} => pick[x] = Picked(x)
    OBVIOUS
  <2>2. f[{}] = a
    BY <1>5 DEF IsFold, FoldStep
  <2> HIDE DEF T, pick, do
  <2> QED
    BY <1>5, <1>6, <2>1, <2>2 DEF IsFold
<1>8. iter = Step(iter)
  <2> HIDE DEF T, pick, do, Step
  <2> QED
    BY <1>7, Zenon
<1>9. iter[{}] = a
  <2>1. Step(iter)[{}] = a
    OBVIOUS
  <2> HIDE DEF Step, iter
  <2> QED
    BY <1>8, <2>1
<1>10. \A x \in SUBSET S : x # {} => iter[x] = DropUser(iter[x \ {Picked(x)}], Picked(x))
  <2> TAKE x \in SUBSET S
  <2> HAVE x # {}
  <2>1. Step(iter)[x] = DropUser(iter[x \ {Picked(x)}], Picked(x))
    <3> HIDE DEF iter
    <3> QED
      OBVIOUS
  <2> HIDE DEF Step, iter
  <2> QED
    BY <1>8, <2>1
<1>11. FoldSet(LAMBDA r, t : DropUser(t, r), a, S) = iter[S]
  BY DEF FoldSet, MapThenFoldSet, Picked
<1> HIDE DEF iter, Step, T, pick, do
<1>12. DropUsersIn(iter, a, S)
  BY <1>9, <1>10, <1>11 DEF DropUsersIn
<1> QED
  BY <1>12

LEMMA DropUsersKeep ==
  ASSUME NEW a \in State, NEW S, IsFiniteSet(S), S \subseteq UserSet,
         \A r \in S : r.circuit \in Conn
  PROVE  Keeps(a, FoldSet(LAMBDA r, t : DropUser(t, r), a, S))
<1>1. PICK f : DropUsersIn(f, a, S)
  BY DropUsersRun
<1> DEFINE G == {x \in SUBSET S : Keeps(a, f[x])}
<1>2. {} \in G
  BY <1>1, KeepsItself DEF DropUsersIn
<1>3. \A x \in SUBSET S : x # {} => \E z \in x : x \ {z} \in G => x \in G
  <2> TAKE x \in SUBSET S
  <2> HAVE x # {}
  <2>1. Picked(x) \in x
    BY PickedIn
  <2>2. ASSUME x \ {Picked(x)} \in G
        PROVE  x \in G
    <3>1. Keeps(a, f[x \ {Picked(x)}]) /\ f[x \ {Picked(x)}] \in State
      BY <2>2 DEF Keeps
    <3>2. Keeps(f[x \ {Picked(x)}], f[x])
      BY <1>1, <2>1, <3>1, DropUserKeeps DEF DropUsersIn
    <3> QED
      BY <3>1, <3>2, KeepsOn
  <2> QED
    BY <2>1, <2>2
<1>4. S \in G
  <2> HIDE DEF G
  <2> QED
    BY <1>2, <1>3, SubsetInduction
<1> QED
  BY <1>1, <1>4 DEF DropUsersIn

DropNodesIn(f, a, S) ==
    /\ f[{}] = a
    /\ \A x \in SUBSET S : x # {} => f[x] = DropNode(f[x \ {Picked(x)}], Picked(x))
    /\ FoldSet(LAMBDA n, t : DropNode(t, n), a, S) = f[S]

\* The nodes of a link go.
LEMMA DropNodesRun ==
  ASSUME NEW a \in State, NEW S, IsFiniteSet(S), S \subseteq Node
  PROVE  \E f : DropNodesIn(f, a, S)
<1> DEFINE T == {t \in State : Keeps(a, t)}
           pick == [x \in SUBSET S |-> Picked(x)]
           do == [p \in S \X T |-> DropNode(p[2], p[1])]
           Step(f) == [x \in SUBSET S |->
                         IF x = {} THEN a
                         ELSE LET z == Picked(x) IN DropNode(f[x \ {z}], z)]
           iter == CHOOSE f : f = Step(f)
<1>1. a \in T
  BY KeepsItself
<1>2. Picks(S, pick)
  BY PickedIn DEF Picks
<1>3. \A z \in S, t \in T : DropNode(t, z) \in T
  <2> TAKE z \in S, t \in T
  <2>1. Keeps(t, DropNode(t, z))
    BY DropNodeKeeps
  <2> QED
    BY <2>1, KeepsOn DEF Keeps
<1>4. do \in [S \X T -> T]
  <2> HIDE DEF T
  <2> QED
    BY <1>3
<1>5. PICK f : IsFold(S, T, a, pick, do, f)
  <2> HIDE DEF T, pick, do
  <2> QED
    BY <1>1, <1>2, <1>4, FoldExists
<1>6. \A x \in SUBSET S : x # {} => f[x] = DropNode(f[x \ {pick[x]}], pick[x])
  <2> TAKE x \in SUBSET S
  <2> HAVE x # {}
  <2>1. pick[x] \in S /\ f[x \ {pick[x]}] \in T
    <3> HIDE DEF T, pick
    <3> QED
      BY <1>2, <1>5 DEF Picks, IsFold
  <2>2. f[x] = do[<< pick[x], f[x \ {pick[x]}] >>]
    <3> HIDE DEF T, pick, do
    <3> QED
      BY <1>5 DEF IsFold, FoldStep
  <2> HIDE DEF T, pick
  <2> QED
    BY <2>1, <2>2
<1>7. f = Step(f)
  <2>1. \A x \in SUBSET S : x # {} => pick[x] = Picked(x)
    OBVIOUS
  <2>2. f[{}] = a
    BY <1>5 DEF IsFold, FoldStep
  <2> HIDE DEF T, pick, do
  <2> QED
    BY <1>5, <1>6, <2>1, <2>2 DEF IsFold
<1>8. iter = Step(iter)
  <2> HIDE DEF T, pick, do, Step
  <2> QED
    BY <1>7, Zenon
<1>9. iter[{}] = a
  <2>1. Step(iter)[{}] = a
    OBVIOUS
  <2> HIDE DEF Step, iter
  <2> QED
    BY <1>8, <2>1
<1>10. \A x \in SUBSET S : x # {} => iter[x] = DropNode(iter[x \ {Picked(x)}], Picked(x))
  <2> TAKE x \in SUBSET S
  <2> HAVE x # {}
  <2>1. Step(iter)[x] = DropNode(iter[x \ {Picked(x)}], Picked(x))
    <3> HIDE DEF iter
    <3> QED
      OBVIOUS
  <2> HIDE DEF Step, iter
  <2> QED
    BY <1>8, <2>1
<1>11. FoldSet(LAMBDA n, t : DropNode(t, n), a, S) = iter[S]
  BY DEF FoldSet, MapThenFoldSet, Picked
<1> HIDE DEF iter, Step, T, pick, do
<1>12. DropNodesIn(iter, a, S)
  BY <1>9, <1>10, <1>11 DEF DropNodesIn
<1> QED
  BY <1>12

LEMMA DropNodesKeep ==
  ASSUME NEW a \in State, NEW S, IsFiniteSet(S), S \subseteq Node
  PROVE  Keeps(a, FoldSet(LAMBDA n, t : DropNode(t, n), a, S))
<1>1. PICK f : DropNodesIn(f, a, S)
  BY DropNodesRun
<1> DEFINE G == {x \in SUBSET S : Keeps(a, f[x])}
<1>2. {} \in G
  BY <1>1, KeepsItself DEF DropNodesIn
<1>3. \A x \in SUBSET S : x # {} => \E z \in x : x \ {z} \in G => x \in G
  <2> TAKE x \in SUBSET S
  <2> HAVE x # {}
  <2>1. Picked(x) \in x
    BY PickedIn
  <2>2. ASSUME x \ {Picked(x)} \in G
        PROVE  x \in G
    <3>1. Keeps(a, f[x \ {Picked(x)}]) /\ f[x \ {Picked(x)}] \in State
      BY <2>2 DEF Keeps
    <3>2. Keeps(f[x \ {Picked(x)}], f[x])
      BY <1>1, <2>1, <3>1, DropNodeKeeps DEF DropNodesIn
    <3> QED
      BY <3>1, <3>2, KeepsOn
  <2> QED
    BY <2>1, <2>2
<1>4. S \in G
  <2> HIDE DEF G
  <2> QED
    BY <1>2, <1>3, SubsetInduction
<1> QED
  BY <1>1, <1>4 DEF DropNodesIn

\* The loops of state_tell.
TellNode(t, k, n) == Send(t, {k} \cap Without(t, n), NodeLine(t, "link", n))
TellNodes(a, S, k) == FoldSet(LAMBDA n, t : TellNode(t, k, n), a, S)
TellUser(t, k, r) ==
    Send(Send(t, {k} \cap Without(t, r.node), UserLine("join", r)), {k}, TopicLine(t, r))
TellUsers(a, S, k) == FoldSet(LAMBDA r, t : TellUser(t, k, r), a, S)

LEMMA TellNodeKeeps ==
  ASSUME NEW t \in State, NEW k, NEW n \in Node
  PROVE  Keeps(t, TellNode(t, k, n))
<1>1. "link" \in LineKind
  BY DEF LineKind
<1>2. NodeLine(t, "link", n) \in LineSet
  BY <1>1, NodeLineType
<1> QED
  BY <1>2, SendKeeps DEF TellNode

TellNodesIn(f, a, S, k) ==
    /\ f[{}] = a
    /\ \A x \in SUBSET S : x # {} => f[x] = TellNode(f[x \ {Picked(x)}], k, Picked(x))
    /\ TellNodes(a, S, k) = f[S]

\* A new partner is told of the nodes.
LEMMA TellNodesRun ==
  ASSUME NEW a \in State, NEW S, IsFiniteSet(S), S \subseteq Node, NEW k
  PROVE  \E f : TellNodesIn(f, a, S, k)
<1> DEFINE T == {t \in State : Keeps(a, t)}
           pick == [x \in SUBSET S |-> Picked(x)]
           do == [p \in S \X T |-> TellNode(p[2], k, p[1])]
           Step(f) == [x \in SUBSET S |->
                         IF x = {} THEN a
                         ELSE LET z == Picked(x) IN TellNode(f[x \ {z}], k, z)]
           iter == CHOOSE f : f = Step(f)
<1>1. a \in T
  BY KeepsItself
<1>2. Picks(S, pick)
  BY PickedIn DEF Picks
<1>3. \A z \in S, t \in T : TellNode(t, k, z) \in T
  <2> TAKE z \in S, t \in T
  <2>1. Keeps(t, TellNode(t, k, z))
    BY TellNodeKeeps
  <2> QED
    BY <2>1, KeepsOn DEF Keeps
<1>4. do \in [S \X T -> T]
  <2> HIDE DEF T
  <2> QED
    BY <1>3
<1>5. PICK f : IsFold(S, T, a, pick, do, f)
  <2> HIDE DEF T, pick, do
  <2> QED
    BY <1>1, <1>2, <1>4, FoldExists
<1>6. \A x \in SUBSET S : x # {} => f[x] = TellNode(f[x \ {pick[x]}], k, pick[x])
  <2> TAKE x \in SUBSET S
  <2> HAVE x # {}
  <2>1. pick[x] \in S /\ f[x \ {pick[x]}] \in T
    <3> HIDE DEF T, pick
    <3> QED
      BY <1>2, <1>5 DEF Picks, IsFold
  <2>2. f[x] = do[<< pick[x], f[x \ {pick[x]}] >>]
    <3> HIDE DEF T, pick, do
    <3> QED
      BY <1>5 DEF IsFold, FoldStep
  <2> HIDE DEF T, pick
  <2> QED
    BY <2>1, <2>2
<1>7. f = Step(f)
  <2>1. \A x \in SUBSET S : x # {} => pick[x] = Picked(x)
    OBVIOUS
  <2>2. f[{}] = a
    BY <1>5 DEF IsFold, FoldStep
  <2> HIDE DEF T, pick, do
  <2> QED
    BY <1>5, <1>6, <2>1, <2>2 DEF IsFold
<1>8. iter = Step(iter)
  <2> HIDE DEF T, pick, do, Step
  <2> QED
    BY <1>7, Zenon
<1>9. iter[{}] = a
  <2>1. Step(iter)[{}] = a
    OBVIOUS
  <2> HIDE DEF Step, iter
  <2> QED
    BY <1>8, <2>1
<1>10. \A x \in SUBSET S : x # {} => iter[x] = TellNode(iter[x \ {Picked(x)}], k, Picked(x))
  <2> TAKE x \in SUBSET S
  <2> HAVE x # {}
  <2>1. Step(iter)[x] = TellNode(iter[x \ {Picked(x)}], k, Picked(x))
    <3> HIDE DEF iter
    <3> QED
      OBVIOUS
  <2> HIDE DEF Step, iter
  <2> QED
    BY <1>8, <2>1
<1>11. TellNodes(a, S, k) = iter[S]
  BY DEF FoldSet, MapThenFoldSet, Picked, TellNodes
<1> HIDE DEF iter, Step, T, pick, do
<1>12. TellNodesIn(iter, a, S, k)
  BY <1>9, <1>10, <1>11 DEF TellNodesIn
<1> QED
  BY <1>12

LEMMA TellNodesKeep ==
  ASSUME NEW a \in State, NEW S, IsFiniteSet(S), S \subseteq Node, NEW k
  PROVE  Keeps(a, TellNodes(a, S, k))
<1>1. PICK f : TellNodesIn(f, a, S, k)
  BY TellNodesRun
<1> DEFINE G == {x \in SUBSET S : Keeps(a, f[x])}
<1>2. {} \in G
  BY <1>1, KeepsItself DEF TellNodesIn
<1>3. \A x \in SUBSET S : x # {} => \E z \in x : x \ {z} \in G => x \in G
  <2> TAKE x \in SUBSET S
  <2> HAVE x # {}
  <2>1. Picked(x) \in x
    BY PickedIn
  <2>2. ASSUME x \ {Picked(x)} \in G
        PROVE  x \in G
    <3>1. Keeps(a, f[x \ {Picked(x)}]) /\ f[x \ {Picked(x)}] \in State
      BY <2>2 DEF Keeps
    <3>2. Keeps(f[x \ {Picked(x)}], f[x])
      <4>1. Picked(x) \in Node /\ x \in SUBSET S
        BY <2>1
      <4>2. Keeps(f[x \ {Picked(x)}], TellNode(f[x \ {Picked(x)}], k, Picked(x)))
        BY <3>1, <4>1, TellNodeKeeps
      <4> QED
        BY <1>1, <4>1, <4>2 DEF TellNodesIn
    <3> QED
      BY <3>1, <3>2, KeepsOn
  <2> QED
    BY <2>1, <2>2
<1>4. S \in G
  <2> HIDE DEF G
  <2> QED
    BY <1>2, <1>3, SubsetInduction
<1> QED
  BY <1>1, <1>4 DEF TellNodesIn

LEMMA TellUserKeeps ==
  ASSUME NEW t \in State, NEW k, NEW r \in UserSet
  PROVE  Keeps(t, TellUser(t, k, r))
<1>1. UserLine("join", r) \in LineSet
  <2>1. "join" \in LineKind
    BY DEF LineKind
  <2> QED
    BY <2>1, UserLineType DEF UserSet
<1>2. TopicLine(t, r) \in LineSet
  BY TopicLineType DEF UserSet
<1> DEFINE a == Send(t, {k} \cap Without(t, r.node), UserLine("join", r))
<1>3. Keeps(t, a) /\ a \in State
  <2>1. Keeps(t, a)
    BY <1>1, SendKeeps
  <2> QED
    BY <2>1 DEF Keeps
<1> HIDE DEF a
<1>4. Keeps(a, Send(a, {k}, TopicLine(t, r)))
  BY <1>2, <1>3, SendKeeps
<1> QED
  BY <1>3, <1>4, KeepsOn DEF TellUser, a

TellUsersIn(f, a, S, k) ==
    /\ f[{}] = a
    /\ \A x \in SUBSET S : x # {} => f[x] = TellUser(f[x \ {Picked(x)}], k, Picked(x))
    /\ TellUsers(a, S, k) = f[S]

\* It is told of the users and their topics.
LEMMA TellUsersRun ==
  ASSUME NEW a \in State, NEW S, IsFiniteSet(S), S \subseteq UserSet, NEW k
  PROVE  \E f : TellUsersIn(f, a, S, k)
<1> DEFINE T == {t \in State : Keeps(a, t)}
           pick == [x \in SUBSET S |-> Picked(x)]
           do == [p \in S \X T |-> TellUser(p[2], k, p[1])]
           Step(f) == [x \in SUBSET S |->
                         IF x = {} THEN a
                         ELSE LET z == Picked(x) IN TellUser(f[x \ {z}], k, z)]
           iter == CHOOSE f : f = Step(f)
<1>1. a \in T
  BY KeepsItself
<1>2. Picks(S, pick)
  BY PickedIn DEF Picks
<1>3. \A z \in S, t \in T : TellUser(t, k, z) \in T
  <2> TAKE z \in S, t \in T
  <2>1. Keeps(t, TellUser(t, k, z))
    BY TellUserKeeps
  <2> QED
    BY <2>1, KeepsOn DEF Keeps
<1>4. do \in [S \X T -> T]
  <2> HIDE DEF T
  <2> QED
    BY <1>3
<1>5. PICK f : IsFold(S, T, a, pick, do, f)
  <2> HIDE DEF T, pick, do
  <2> QED
    BY <1>1, <1>2, <1>4, FoldExists
<1>6. \A x \in SUBSET S : x # {} => f[x] = TellUser(f[x \ {pick[x]}], k, pick[x])
  <2> TAKE x \in SUBSET S
  <2> HAVE x # {}
  <2>1. pick[x] \in S /\ f[x \ {pick[x]}] \in T
    <3> HIDE DEF T, pick
    <3> QED
      BY <1>2, <1>5 DEF Picks, IsFold
  <2>2. f[x] = do[<< pick[x], f[x \ {pick[x]}] >>]
    <3> HIDE DEF T, pick, do
    <3> QED
      BY <1>5 DEF IsFold, FoldStep
  <2> HIDE DEF T, pick
  <2> QED
    BY <2>1, <2>2
<1>7. f = Step(f)
  <2>1. \A x \in SUBSET S : x # {} => pick[x] = Picked(x)
    OBVIOUS
  <2>2. f[{}] = a
    BY <1>5 DEF IsFold, FoldStep
  <2> HIDE DEF T, pick, do
  <2> QED
    BY <1>5, <1>6, <2>1, <2>2 DEF IsFold
<1>8. iter = Step(iter)
  <2> HIDE DEF T, pick, do, Step
  <2> QED
    BY <1>7, Zenon
<1>9. iter[{}] = a
  <2>1. Step(iter)[{}] = a
    OBVIOUS
  <2> HIDE DEF Step, iter
  <2> QED
    BY <1>8, <2>1
<1>10. \A x \in SUBSET S : x # {} => iter[x] = TellUser(iter[x \ {Picked(x)}], k, Picked(x))
  <2> TAKE x \in SUBSET S
  <2> HAVE x # {}
  <2>1. Step(iter)[x] = TellUser(iter[x \ {Picked(x)}], k, Picked(x))
    <3> HIDE DEF iter
    <3> QED
      OBVIOUS
  <2> HIDE DEF Step, iter
  <2> QED
    BY <1>8, <2>1
<1>11. TellUsers(a, S, k) = iter[S]
  BY DEF FoldSet, MapThenFoldSet, Picked, TellUsers
<1> HIDE DEF iter, Step, T, pick, do
<1>12. TellUsersIn(iter, a, S, k)
  BY <1>9, <1>10, <1>11 DEF TellUsersIn
<1> QED
  BY <1>12

LEMMA TellUsersKeep ==
  ASSUME NEW a \in State, NEW S, IsFiniteSet(S), S \subseteq UserSet, NEW k
  PROVE  Keeps(a, TellUsers(a, S, k))
<1>1. PICK f : TellUsersIn(f, a, S, k)
  BY TellUsersRun
<1> DEFINE G == {x \in SUBSET S : Keeps(a, f[x])}
<1>2. {} \in G
  BY <1>1, KeepsItself DEF TellUsersIn
<1>3. \A x \in SUBSET S : x # {} => \E z \in x : x \ {z} \in G => x \in G
  <2> TAKE x \in SUBSET S
  <2> HAVE x # {}
  <2>1. Picked(x) \in x
    BY PickedIn
  <2>2. ASSUME x \ {Picked(x)} \in G
        PROVE  x \in G
    <3>1. Keeps(a, f[x \ {Picked(x)}]) /\ f[x \ {Picked(x)}] \in State
      BY <2>2 DEF Keeps
    <3>2. Keeps(f[x \ {Picked(x)}], f[x])
      BY <1>1, <2>1, <3>1, TellUserKeeps DEF TellUsersIn
    <3> QED
      BY <3>1, <3>2, KeepsOn
  <2> QED
    BY <2>1, <2>2
<1>4. S \in G
  <2> HIDE DEF G
  <2> QED
    BY <1>2, <1>3, SubsetInduction
<1> QED
  BY <1>1, <1>4 DEF TellUsersIn

DisconnectAllIn(f, a, S) ==
    /\ f[{}] = a
    /\ \A x \in SUBSET S : x # {} => f[x] = Disconnect(f[x \ {Picked(x)}], Picked(x))
    /\ FoldSet(LAMBDA k, t : Disconnect(t, k), a, S) = f[S]

\* Several connections are closed.
LEMMA DisconnectAllRun ==
  ASSUME NEW a \in State, NEW S, IsFiniteSet(S), S \subseteq Conn
  PROVE  \E f : DisconnectAllIn(f, a, S)
<1> DEFINE T == {t \in State : Keeps(a, t)}
           pick == [x \in SUBSET S |-> Picked(x)]
           do == [p \in S \X T |-> Disconnect(p[2], p[1])]
           Step(f) == [x \in SUBSET S |->
                         IF x = {} THEN a
                         ELSE LET z == Picked(x) IN Disconnect(f[x \ {z}], z)]
           iter == CHOOSE f : f = Step(f)
<1>1. a \in T
  BY KeepsItself
<1>2. Picks(S, pick)
  BY PickedIn DEF Picks
<1>3. \A z \in S, t \in T : Disconnect(t, z) \in T
  <2> TAKE z \in S, t \in T
  <2>1. Keeps(t, Disconnect(t, z))
    BY DisconnectKeeps
  <2> QED
    BY <2>1, KeepsOn DEF Keeps
<1>4. do \in [S \X T -> T]
  <2> HIDE DEF T
  <2> QED
    BY <1>3
<1>5. PICK f : IsFold(S, T, a, pick, do, f)
  <2> HIDE DEF T, pick, do
  <2> QED
    BY <1>1, <1>2, <1>4, FoldExists
<1>6. \A x \in SUBSET S : x # {} => f[x] = Disconnect(f[x \ {pick[x]}], pick[x])
  <2> TAKE x \in SUBSET S
  <2> HAVE x # {}
  <2>1. pick[x] \in S /\ f[x \ {pick[x]}] \in T
    <3> HIDE DEF T, pick
    <3> QED
      BY <1>2, <1>5 DEF Picks, IsFold
  <2>2. f[x] = do[<< pick[x], f[x \ {pick[x]}] >>]
    <3> HIDE DEF T, pick, do
    <3> QED
      BY <1>5 DEF IsFold, FoldStep
  <2> HIDE DEF T, pick
  <2> QED
    BY <2>1, <2>2
<1>7. f = Step(f)
  <2>1. \A x \in SUBSET S : x # {} => pick[x] = Picked(x)
    OBVIOUS
  <2>2. f[{}] = a
    BY <1>5 DEF IsFold, FoldStep
  <2> HIDE DEF T, pick, do
  <2> QED
    BY <1>5, <1>6, <2>1, <2>2 DEF IsFold
<1>8. iter = Step(iter)
  <2> HIDE DEF T, pick, do, Step
  <2> QED
    BY <1>7, Zenon
<1>9. iter[{}] = a
  <2>1. Step(iter)[{}] = a
    OBVIOUS
  <2> HIDE DEF Step, iter
  <2> QED
    BY <1>8, <2>1
<1>10. \A x \in SUBSET S : x # {} => iter[x] = Disconnect(iter[x \ {Picked(x)}], Picked(x))
  <2> TAKE x \in SUBSET S
  <2> HAVE x # {}
  <2>1. Step(iter)[x] = Disconnect(iter[x \ {Picked(x)}], Picked(x))
    <3> HIDE DEF iter
    <3> QED
      OBVIOUS
  <2> HIDE DEF Step, iter
  <2> QED
    BY <1>8, <2>1
<1>11. FoldSet(LAMBDA k, t : Disconnect(t, k), a, S) = iter[S]
  BY DEF FoldSet, MapThenFoldSet, Picked
<1> HIDE DEF iter, Step, T, pick, do
<1>12. DisconnectAllIn(iter, a, S)
  BY <1>9, <1>10, <1>11 DEF DisconnectAllIn
<1> QED
  BY <1>12

LEMMA DisconnectAllKeep ==
  ASSUME NEW a \in State, NEW S, IsFiniteSet(S), S \subseteq Conn
  PROVE  Keeps(a, FoldSet(LAMBDA k, t : Disconnect(t, k), a, S))
<1>1. PICK f : DisconnectAllIn(f, a, S)
  BY DisconnectAllRun
<1> DEFINE G == {x \in SUBSET S : Keeps(a, f[x])}
<1>2. {} \in G
  BY <1>1, KeepsItself DEF DisconnectAllIn
<1>3. \A x \in SUBSET S : x # {} => \E z \in x : x \ {z} \in G => x \in G
  <2> TAKE x \in SUBSET S
  <2> HAVE x # {}
  <2>1. Picked(x) \in x
    BY PickedIn
  <2>2. ASSUME x \ {Picked(x)} \in G
        PROVE  x \in G
    <3>1. Keeps(a, f[x \ {Picked(x)}]) /\ f[x \ {Picked(x)}] \in State
      BY <2>2 DEF Keeps
    <3>2. Keeps(f[x \ {Picked(x)}], f[x])
      BY <1>1, <2>1, <3>1, DisconnectKeeps DEF DisconnectAllIn
    <3> QED
      BY <3>1, <3>2, KeepsOn
  <2> QED
    BY <2>1, <2>2
<1>4. S \in G
  <2> HIDE DEF G
  <2> QED
    BY <1>2, <1>3, SubsetInduction
<1> QED
  BY <1>1, <1>4 DEF DisconnectAllIn

-----------------------------------------------------------------------------
(* The operators that change links.                                        *)

\* FlagsMatch, of one node.
FlagsFound(s) ==
    \A p \in Node : s.flags[p] # "nil" => \E k \in Listed(s) : s.circuit[k].link = p

\* The inductive invariant, of one node.
Good(s) == s \in State /\ FlagsFound(s)

\* t has no circuit and no link that s has not, but perhaps k.
Gains(s, t, k) ==
    Good(t) /\ \A j \in Conn : t.circuit[j].Active => s.circuit[j].Active \/ j = k
Loses(s, t) ==
    /\ Good(t)
    /\ \A j \in Conn : /\ t.circuit[j].Active => s.circuit[j].Active
                       /\ j \in Listed(t) => j \in Listed(s)

LEMMA ListedFacts ==
  ASSUME NEW s \in State, NEW k \in Conn
  PROVE  /\ k \in Listed(s) <=> s.circuit[k].rtcflags \in {"linkini", "linked"}
         /\ k \in Listed(s) => s.circuit[k].Active
         /\ s.circuit[k].Active => s.circuit[k].link \in Node
<1>1. s.circuit[k] \in CircuitSet
  BY StateFields
<1> QED
  BY <1>1, CircuitFields DEF Listed

LEMMA KeepsLoses ==
  ASSUME NEW s, NEW t, Good(s), Keeps(s, t)
  PROVE  Loses(s, t)
<1>1. s \in State /\ t \in State
  BY DEF Good, Keeps
<1>2. \A j \in Conn : /\ t.circuit[j].Active <=> s.circuit[j].Active
                      /\ j \in Listed(t) <=> j \in Listed(s)
                      /\ j \in Listed(s) => t.circuit[j].link = s.circuit[j].link
  <2> TAKE j \in Conn
  <2>1. SameLink(s.circuit[j], t.circuit[j])
    BY DEF Keeps
  <2> QED
    BY <1>1, <2>1, ListedFacts DEF SameLink
<1>3. FlagsFound(t)
  <2> SUFFICES ASSUME NEW p \in Node, t.flags[p] # "nil"
               PROVE  \E k \in Listed(t) : t.circuit[k].link = p
    BY DEF FlagsFound
  <2>1. PICK k \in Listed(s) : s.circuit[k].link = p
    BY DEF Good, FlagsFound, Keeps
  <2>2. k \in Conn
    BY <2>1 DEF Listed
  <2> QED
    BY <1>2, <2>1, <2>2
<1> QED
  BY <1>1, <1>2, <1>3 DEF Loses, Good

LEMMA LosesOn ==
  ASSUME NEW s, NEW t, NEW u, Loses(s, t), Loses(t, u)
  PROVE  Loses(s, u)
  BY DEF Loses

LEMMA LosesGains ==
  ASSUME NEW s, NEW t, NEW k, Loses(s, t)
  PROVE  Gains(s, t, k)
  BY DEF Loses, Gains

LEMMA GainsOn ==
  ASSUME NEW s, NEW t, NEW u, NEW k, Gains(s, t, k), Gains(t, u, k)
  PROVE  Gains(s, u, k)
  BY DEF Gains

\* One circuit is given other contents.
LEMMA CircuitChanges ==
  ASSUME NEW s \in State, NEW k \in Conn, NEW c \in CircuitSet
  PROVE  /\ [s EXCEPT !.circuit[k] = c] \in State
         /\ \A f \in [Node -> Flag] : [s EXCEPT !.flags = f, !.circuit[k] = c] \in State
  BY DEF State

\* k is a link no more, and the flag of its partner is gone; or it was no link.
LEMMA LinkGone ==
  ASSUME NEW s, Good(s), NEW k \in Conn, NEW t \in State,
         \A p \in Node : t.flags[p] # "nil" =>
            t.flags[p] = s.flags[p] /\ (k \in Listed(s) => p # s.circuit[k].link),
         \A j \in Conn : j # k => t.circuit[j] = s.circuit[j],
         t.circuit[k].rtcflags = "nil", t.circuit[k].Active => s.circuit[k].Active
  PROVE  Loses(s, t) /\ k \notin Listed(t)
<1>1. s \in State
  BY DEF Good
<1>2. k \notin Listed(t)
  BY ListedFacts
<1>3. \A j \in Conn : j # k => (j \in Listed(t) <=> j \in Listed(s))
  BY <1>1, ListedFacts
<1>4. FlagsFound(t)
  <2> SUFFICES ASSUME NEW p \in Node, t.flags[p] # "nil"
               PROVE  \E j \in Listed(t) : t.circuit[j].link = p
    BY DEF FlagsFound
  <2>1. PICK j \in Listed(s) : s.circuit[j].link = p
    BY DEF Good, FlagsFound
  <2>2. j \in Conn /\ j # k
    BY <2>1 DEF Listed
  <2> QED
    BY <1>3, <2>1, <2>2
<1> QED
  BY <1>2, <1>3, <1>4 DEF Loses, Good

\* k is now a link with p, and was none with another.
LEMMA LinkMade ==
  ASSUME NEW s, Good(s), NEW k \in Conn, NEW p \in Node, NEW t \in State,
         k \in Listed(s) => s.circuit[k].link = p,
         \A q \in Node : q # p => t.flags[q] = s.flags[q],
         \A j \in Conn : j # k => t.circuit[j] = s.circuit[j],
         k \in Listed(t), t.circuit[k].link = p
  PROVE  Gains(s, t, k)
<1>1. s \in State
  BY DEF Good
<1>2. \A j \in Conn : j # k => (j \in Listed(t) <=> j \in Listed(s))
  BY <1>1, ListedFacts
<1>3. FlagsFound(t)
  <2> SUFFICES ASSUME NEW q \in Node, t.flags[q] # "nil", q # p
               PROVE  \E j \in Listed(t) : t.circuit[j].link = q
    BY DEF FlagsFound
  <2>1. PICK j \in Listed(s) : s.circuit[j].link = q
    BY DEF Good, FlagsFound
  <2>2. j \in Conn /\ j # k
    BY <2>1 DEF Listed
  <2> QED
    BY <1>2, <2>1, <2>2
<1> QED
  BY <1>3 DEF Gains, Good

-----------------------------------------------------------------------------
(* The handlers: links.                                                    *)

LEMMA NobodyType == Nobody \in [Node -> Int]
  BY DEF Nobody

LEMMA CircuitFreeLoses ==
  ASSUME NEW s, Good(s), NEW k \in Conn, k \notin Listed(s)
  PROVE  Loses(s, circuit_free(s, k)) /\ k \notin Listed(circuit_free(s, k))
<1> DEFINE d == [s.circuit[k] EXCEPT !.hnode = Nobody, !.rtcflags = "nil"]
           gone == [s EXCEPT !.circuit[k] = d]
<1>1. s \in State /\ s.circuit[k] \in CircuitSet
  BY StateFields DEF Good
<1>2. d \in CircuitSet /\ d.rtcflags = "nil" /\ d.Active = s.circuit[k].Active
  <2>1. CASE s.circuit[k] \in InUse
    <3>1. d \in InUse
      BY <2>1, NobodyType DEF InUse, Flag
    <3> QED
      BY <2>1, <3>1 DEF CircuitSet, InUse
  <2>2. CASE s.circuit[k] \in NotInUse
    <3>1. d \in NotInUse
      BY <2>2, NobodyType DEF NotInUse
    <3> QED
      BY <2>2, <3>1 DEF CircuitSet, NotInUse
  <2> QED
    BY <1>1, <2>1, <2>2 DEF CircuitSet
<1>3. gone = [s EXCEPT !.circuit[k].hnode = Nobody, !.circuit[k].rtcflags = "nil"]
  OBVIOUS
<1> HIDE DEF d
<1>4. gone \in State /\ Loses(s, gone) /\ k \notin Listed(gone)
  <2>1. gone \in State
    BY <1>1, <1>2, CircuitChanges
  <2>2. gone.flags = s.flags /\ \A j \in Conn : j # k => gone.circuit[j] = s.circuit[j]
    BY <1>1 DEF State
  <2>3. gone.circuit[k] = d
    BY <1>1 DEF State
  <2> HIDE DEF gone
  <2> QED
    BY <1>2, <2>1, <2>2, <2>3, LinkGone
<1>5. Keeps(gone, [gone EXCEPT !.node = Nobody])
  <2> HIDE DEF gone
  <2> QED
    BY <1>4, NobodyType, UpdatesKeep
<1>6. \/ circuit_free(s, k) = gone
      \/ circuit_free(s, k) = [gone EXCEPT !.node = Nobody]
  BY <1>3 DEF circuit_free
<1> HIDE DEF gone
<1>7. Loses(gone, [gone EXCEPT !.node = Nobody])
  BY <1>4, <1>5, KeepsLoses DEF Loses
<1>8. CASE circuit_free(s, k) = gone
  BY <1>4, <1>8
<1>9. CASE circuit_free(s, k) = [gone EXCEPT !.node = Nobody]
  <2>1. Loses(s, circuit_free(s, k))
    BY <1>4, <1>7, <1>9, LosesOn
  <2>2. k \notin Listed(circuit_free(s, k))
    BY <1>4, <1>7, <1>9 DEF Loses
  <2> QED
    BY <2>1, <2>2
<1> QED
  BY <1>6, <1>8, <1>9

LEMMA LinkDropLoses ==
  ASSUME NEW s, Good(s), NEW k \in Conn
  PROVE  Loses(s, link_drop(s, k)) /\ k \notin Listed(link_drop(s, k))
<1> DEFINE p == s.circuit[k].link
           d == [s.circuit[k] EXCEPT !.rtcflags = "nil"]
           g == [s.flags EXCEPT ![p] = "nil"]
           a == [s EXCEPT !.flags = g, !.circuit[k] = d]
           U == OnCircuit(a, k)
           b == FoldSet(LAMBDA r, t : DropUser(t, r), a, U)
           N == {n \in Node : cn_find(b, k, n)}
           c == FoldSet(LAMBDA n, t : DropNode(t, n), b, N)
<1>1. s \in State /\ s.circuit[k] \in CircuitSet /\ s.flags \in [Node -> Flag]
  BY StateFields DEF Good
<1>2. d \in CircuitSet /\ d.rtcflags = "nil" /\ d.Active = s.circuit[k].Active
  <2>1. CASE s.circuit[k] \in InUse
    <3>1. d \in InUse
      BY <2>1 DEF InUse, Flag
    <3> QED
      BY <2>1, <3>1 DEF CircuitSet, InUse
  <2>2. CASE s.circuit[k] \in NotInUse
    <3>1. d \in NotInUse
      BY <2>2 DEF NotInUse
    <3> QED
      BY <2>2, <3>1 DEF CircuitSet, NotInUse
  <2> QED
    BY <1>1, <2>1, <2>2 DEF CircuitSet
<1>3. g \in [Node -> Flag] /\ \A q \in Node : g[q] # "nil" => g[q] = s.flags[q] /\ q # p
  <2> HIDE DEF p
  <2> QED
    BY <1>1 DEF Flag
<1>4. a = [s EXCEPT !.flags[s.circuit[k].link] = "nil", !.circuit[k].rtcflags = "nil"]
  OBVIOUS
<1>5. a \in State /\ Loses(s, a) /\ k \notin Listed(a)
  <2> HIDE DEF d, g
  <2>1. a \in State
    BY <1>1, <1>2, <1>3, CircuitChanges
  <2>2. a.flags = g /\ a.circuit[k] = d /\ \A j \in Conn : j # k => a.circuit[j] = s.circuit[j]
    BY <1>1 DEF State
  <2> HIDE DEF a
  <2> QED
    BY <1>2, <1>3, <2>1, <2>2, LinkGone
<1> HIDE DEF d, g, a
<1>6. Keeps(a, b) /\ b \in State
  <2>1. U \subseteq UserSet /\ IsFiniteSet(U) /\ \A r \in U : r.circuit \in Conn
    BY <1>5, StateFields, FS_Subset DEF OnCircuit
  <2> HIDE DEF U
  <2>2. Keeps(a, b)
    BY <1>5, <2>1, DropUsersKeep
  <2> QED
    BY <2>2 DEF Keeps
<1> HIDE DEF U, b
<1>7. Keeps(b, c)
  <2>1. N \subseteq Node /\ IsFiniteSet(N)
    BY ChatAssumption, FS_Subset
  <2> HIDE DEF N
  <2> QED
    BY <1>6, <2>1, DropNodesKeep
<1> HIDE DEF c
<1>8. Loses(a, c)
  <2>1. Good(a)
    BY <1>5 DEF Loses
  <2> QED
    BY <1>6, <1>7, <2>1, KeepsOn, KeepsLoses
<1>9. Good(c) /\ k \notin Listed(c)
  BY <1>5, <1>8 DEF Loses
<1>10. Loses(c, circuit_free(c, k)) /\ k \notin Listed(circuit_free(c, k))
  BY <1>9, CircuitFreeLoses
<1>11. link_drop(s, k) = circuit_free(c, k)
  BY <1>4 DEF link_drop, a, U, b, N, c
<1> QED
  BY <1>5, <1>8, <1>10, <1>11, LosesOn

\* A circuit that is no link is cleared.
LEMMA ClearedLoses ==
  ASSUME NEW s, Good(s), NEW k \in Conn, k \notin Listed(s)
  PROVE  /\ Loses(s, [s EXCEPT !.circuit[k] = NoCircuit])
         /\ ~[s EXCEPT !.circuit[k] = NoCircuit].circuit[k].Active
<1> DEFINE t == [s EXCEPT !.circuit[k] = NoCircuit]
<1>1. s \in State
  BY DEF Good
<1>2. NoCircuit \in CircuitSet /\ NoCircuit.rtcflags = "nil" /\ ~NoCircuit.Active
  BY NobodyType DEF NoCircuit, CircuitSet, NotInUse
<1>3. t \in State
  BY <1>1, <1>2, CircuitChanges
<1>4. t.flags = s.flags /\ t.circuit[k] = NoCircuit
      /\ \A j \in Conn : j # k => t.circuit[j] = s.circuit[j]
  BY <1>1 DEF State
<1> HIDE DEF t
<1>5. Loses(s, t)
  BY <1>2, <1>3, <1>4, LinkGone
<1> QED
  BY <1>2, <1>4, <1>5 DEF t

LEMMA CloseOldLoses ==
  ASSUME NEW s, Good(s), NEW p
  PROVE  Loses(s, CloseOld(s, p))
<1> DEFINE old == {k \in Listed(s) : s.circuit[k].link = p}
<1>1. CASE s.flags[p] = "nil" \/ old = {}
  <2>1. CloseOld(s, p) = s
    BY <1>1 DEF CloseOld
  <2> QED
    BY <2>1 DEF Loses
<1>2. CASE ~(s.flags[p] = "nil" \/ old = {})
  <2> DEFINE k == Picked(old)
             a == Disconnect(s, k)
             b == link_drop(a, k)
  <2>1. k \in Conn
    <3>1. k \in old
      BY <1>2, PickedIn
    <3> QED
      BY <3>1 DEF Listed
  <2>2. CloseOld(s, p) = [b EXCEPT !.circuit[k] = NoCircuit]
    BY <1>2 DEF CloseOld, Picked
  <2> HIDE DEF k
  <2>3. Loses(s, a) /\ Good(a)
    <3>1. Keeps(s, a)
      BY <2>1, DisconnectKeeps DEF Good
    <3> QED
      BY <3>1, KeepsLoses DEF Loses
  <2> HIDE DEF a
  <2>4. Loses(a, b) /\ k \notin Listed(b) /\ Good(b)
    BY <2>1, <2>3, LinkDropLoses DEF Loses
  <2> HIDE DEF b
  <2>5. Loses(b, [b EXCEPT !.circuit[k] = NoCircuit])
    BY <2>1, <2>4, ClearedLoses
  <2> QED
    BY <2>2, <2>3, <2>4, <2>5, LosesOn
<1> QED
  BY <1>1, <1>2

LEMMA StateTellKeeps ==
  ASSUME NEW s \in State, NEW k \in Conn, s.circuit[k].Active
  PROVE  Keeps(s, state_tell(s, k))
<1> DEFINE p == s.circuit[k].link
           i == cn_inc(s, k, p)
           a == node_tell(i, p, "link")
           N == {n \in Node : node_find(a, n) /\ n # s.me}
           b == TellNodes(a, N, k)
           c == TellUsers(b, s.user, k)
<1>1. p \in Node
  BY ListedFacts
<1> HIDE DEF p
<1>2. Keeps(s, i) /\ i \in State
  BY CnIncKeeps DEF Keeps
<1> HIDE DEF i
<1>3. Keeps(i, a) /\ a \in State
  <2>1. "link" \in LineKind
    BY DEF LineKind
  <2> QED
    BY <1>1, <1>2, <2>1, NodeTellKeeps DEF Keeps
<1> HIDE DEF a
<1>4. Keeps(a, b) /\ b \in State
  <2>1. N \subseteq Node /\ IsFiniteSet(N)
    BY ChatAssumption, FS_Subset
  <2> HIDE DEF N
  <2>2. Keeps(a, b)
    BY <1>3, <2>1, TellNodesKeep
  <2> QED
    BY <2>2 DEF Keeps
<1> HIDE DEF b, N
<1>5. Keeps(b, c)
  <2>1. s.user \subseteq UserSet /\ IsFiniteSet(s.user)
    BY StateFields
  <2> QED
    BY <1>4, <2>1, TellUsersKeep
<1> HIDE DEF c
<1>6. state_tell(s, k) = c
  BY DEF state_tell, TellNode, TellNodes, TellUser, TellUsers, p, i, a, N, b, c
<1> QED
  BY <1>2, <1>3, <1>4, <1>5, <1>6, KeepsOn

\* A link with p is made of circuit k.
LEMMA LinkMadeGains ==
  ASSUME NEW s, Good(s), NEW k \in Conn, NEW p \in Node, NEW c \in InUse,
         k \in Listed(s) => s.circuit[k].link = p,
         c.link = p, c.rtcflags \in {"linkini", "linked"}, NEW f \in {"linkini", "linked"}
  PROVE  Gains(s, [s EXCEPT !.flags[p] = f, !.circuit[k] = c], k)
<1> DEFINE g == [s.flags EXCEPT ![p] = f]
           t == [s EXCEPT !.flags = g, !.circuit[k] = c]
<1>1. s \in State /\ s.flags \in [Node -> Flag] /\ c \in CircuitSet
  BY StateFields DEF Good, CircuitSet
<1>2. g \in [Node -> Flag] /\ \A q \in Node : q # p => g[q] = s.flags[q]
  BY <1>1 DEF Flag
<1>3. t = [s EXCEPT !.flags[p] = f, !.circuit[k] = c]
  OBVIOUS
<1> HIDE DEF g
<1>4. t \in State
  BY <1>1, <1>2, CircuitChanges
<1>5. t.flags = g /\ t.circuit[k] = c /\ \A j \in Conn : j # k => t.circuit[j] = s.circuit[j]
  BY <1>1 DEF State
<1> HIDE DEF t
<1>6. k \in Listed(t)
  BY <1>5 DEF Listed
<1>7. Gains(s, t, k)
  BY <1>2, <1>4, <1>5, <1>6, LinkMade
<1> QED
  BY <1>3, <1>7

LEMMA CircuitType ==
  ASSUME NEW p \in Node, NEW v \in {"linkini", "linkwait", "linked"}
  PROVE  Circuit(v, p) \in InUse /\ Circuit(v, p).link = p /\ Circuit(v, p).rtcflags = v
  BY NobodyType DEF Circuit, InUse, Flag

LEMMA RtloginlGains ==
  ASSUME NEW s, Good(s), NEW k \in Conn, k \notin Listed(s), NEW p \in Node
  PROVE  Gains(s, rtloginl(s, k, p), k)
<1>1. CASE node_find(s, p)
  <2>1. Keeps(s, Disconnect(s, k))
    BY DisconnectKeeps DEF Good
  <2> QED
    BY <1>1, <2>1, KeepsLoses, LosesGains DEF rtloginl
<1>2. CASE ~node_find(s, p)
  <2> DEFINE a == CloseOld(s, p)
             b == [a EXCEPT !.flags[p] = "linked", !.circuit[k] = Circuit("linked", p)]
             c == Send(b, {k}, Line("OK", s.me, p, deftopic))
  <2>1. Loses(s, a)
    BY CloseOldLoses
  <2>2. Good(a) /\ k \notin Listed(a) /\ Gains(s, a, k)
    BY <2>1, LosesGains DEF Loses
  <2>3. rtloginl(s, k, p) = state_tell(c, k)
    <3>1. b = [a EXCEPT !.circuit[k] = Circuit("linked", p), !.flags[p] = "linked"]
      BY <2>2 DEF Good, State
    <3> HIDE DEF b
    <3> QED
      BY <1>2, <3>1 DEF rtloginl
  <2> HIDE DEF a
  <2>4. Gains(a, b, k) /\ Good(b) /\ b.circuit[k].Active
    <3> DEFINE d == Circuit("linked", p)
    <3>1. d \in InUse /\ d.link = p /\ d.rtcflags \in {"linkini", "linked"}
      BY CircuitType
    <3>2. b.circuit[k] = d
      BY <2>2 DEF Good, State
    <3> HIDE DEF d
    <3>3. Gains(a, [a EXCEPT !.flags[p] = "linked", !.circuit[k] = d], k)
      BY <2>2, <3>1, LinkMadeGains
    <3> QED
      BY <3>1, <3>2, <3>3 DEF d, Gains, InUse
  <2> HIDE DEF b
  <2>5. Keeps(b, c)
    <3>1. Line("OK", s.me, p, deftopic) \in LineSet
      <4>1. "OK" \in LineKind
        BY DEF LineKind
      <4> QED
        BY <4>1, LineTypes, StateFields, ChatAssumption DEF Good
    <3> QED
      BY <2>4, <3>1, SendKeeps DEF Good
  <2> HIDE DEF c
  <2>6. c \in State /\ c.circuit[k].Active
    BY <2>4, <2>5 DEF Keeps, SameLink
  <2>7. Keeps(b, state_tell(c, k))
    BY <2>5, <2>6, StateTellKeeps, KeepsOn
  <2>8. Gains(b, state_tell(c, k), k)
    BY <2>4, <2>7, KeepsLoses, LosesGains
  <2> QED
    BY <2>2, <2>3, <2>4, <2>8, GainsOn
<1> QED
  BY <1>1, <1>2

LEMMA ProcessConnectingGains ==
  ASSUME NEW s, Good(s), NEW k \in Conn, s.circuit[k].rtcflags = "linkini"
  PROVE  Gains(s, ProcessConnecting(s, k), k)
<1> DEFINE p == s.circuit[k].link
<1>1. s \in State /\ s.circuit[k] \in InUse /\ p \in Node
  <2>1. s \in State /\ s.circuit[k] \in CircuitSet
    BY StateFields DEF Good
  <2> QED
    BY <2>1 DEF CircuitSet, InUse, NotInUse
<1>2. CASE node_find(s, p)
  <2>1. Keeps(s, Disconnect(s, k))
    BY <1>1, DisconnectKeeps
  <2> QED
    BY <1>2, <2>1, KeepsLoses, LosesGains DEF ProcessConnecting
<1>3. CASE ~node_find(s, p)
  <2> DEFINE d == [s.circuit[k] EXCEPT !.rtcflags = "linked"]
             b == [s EXCEPT !.flags[p] = "linked", !.circuit[k] = d]
  <2>1. d \in InUse /\ d.link = p /\ d.rtcflags \in {"linkini", "linked"}
    BY <1>1 DEF InUse, Flag
  <2>2. ProcessConnecting(s, k) = state_tell(b, k)
    <3>1. b = [s EXCEPT !.flags[p] = "linked", !.circuit[k].rtcflags = "linked"]
      OBVIOUS
    <3> HIDE DEF b
    <3> QED
      BY <1>3, <3>1 DEF ProcessConnecting
  <2>3. b.circuit[k] = d
    BY <1>1 DEF State
  <2> HIDE DEF d
  <2>4. Gains(s, b, k)
    <3>1. s.circuit[k].link = p
      OBVIOUS
    <3> HIDE DEF p
    <3> QED
      BY <1>1, <2>1, <3>1, LinkMadeGains
  <2> HIDE DEF b
  <2>5. Good(b) /\ b \in State /\ b.circuit[k].Active
    BY <2>1, <2>3, <2>4 DEF Gains, Good, InUse
  <2>6. Gains(b, state_tell(b, k), k)
    BY <2>5, StateTellKeeps, KeepsLoses, LosesGains
  <2> QED
    BY <2>2, <2>4, <2>6, GainsOn
<1> QED
  BY <1>2, <1>3

LEMMA MakelinksGains ==
  ASSUME NEW s, Good(s), NEW k \in Conn, k \notin Listed(s), NEW p \in Node
  PROVE  Gains(s, makelinks(s, k, p), k)
<1> DEFINE d == Circuit("linkini", p)
<1>1. d \in InUse /\ d.link = p /\ d.rtcflags \in {"linkini", "linked"}
  BY CircuitType
<1>2. makelinks(s, k, p) = [s EXCEPT !.flags[p] = "linkini", !.circuit[k] = d]
  BY DEF makelinks
<1> HIDE DEF d
<1>3. Gains(s, [s EXCEPT !.flags[p] = "linkini", !.circuit[k] = d], k)
  BY <1>1, LinkMadeGains
<1> QED
  BY <1>2, <1>3

\* A caller has come: the circuit waits for its *RTL.
LEMMA WaitGains ==
  ASSUME NEW s, Good(s), NEW k \in Conn, k \notin Listed(s), NEW p \in Node
  PROVE  Gains(s, [s EXCEPT !.circuit[k] = Circuit("linkwait", p)], k)
<1> DEFINE d == Circuit("linkwait", p)
           t == [s EXCEPT !.circuit[k] = d]
<1>1. d \in InUse /\ d \in CircuitSet /\ d.rtcflags = "linkwait"
  BY CircuitType DEF CircuitSet
<1> HIDE DEF d
<1>2. s \in State /\ t \in State
  BY <1>1, CircuitChanges DEF Good
<1>3. t.flags = s.flags /\ t.circuit[k] = d
      /\ \A j \in Conn : j # k => t.circuit[j] = s.circuit[j]
  BY <1>2 DEF State
<1> HIDE DEF t
<1>4. \A j \in Listed(s) : j # k /\ j \in Listed(t) /\ t.circuit[j] = s.circuit[j]
  BY <1>3 DEF Listed
<1>5. FlagsFound(t)
  BY <1>3, <1>4 DEF Good, FlagsFound
<1>6. Gains(s, t, k)
  BY <1>2, <1>3, <1>5 DEF Gains, Good
<1> QED
  BY <1>6 DEF t, d

LEMMA ChatDisconnectedLoses ==
  ASSUME NEW s, Good(s), NEW k \in Conn
  PROVE  Loses(s, ChatDisconnected(s, k)) /\ ~ChatDisconnected(s, k).circuit[k].Active
<1>1. CASE ~s.circuit[k].Active
  <2>1. ChatDisconnected(s, k) = s
    BY <1>1 DEF ChatDisconnected
  <2> QED
    BY <1>1, <2>1 DEF Loses
<1>2. CASE s.circuit[k].Active
  <2> DEFINE t == IF s.circuit[k].rtcflags = "linkwait" THEN circuit_free(s, k)
                                                          ELSE link_drop(s, k)
  <2>1. Loses(s, t) /\ k \notin Listed(t)
    <3>1. s.circuit[k].rtcflags = "linkwait" => k \notin Listed(s)
      BY ListedFacts DEF Good
    <3> QED
      BY <3>1, CircuitFreeLoses, LinkDropLoses
  <2>2. ChatDisconnected(s, k) = [t EXCEPT !.circuit[k] = NoCircuit]
    BY <1>2 DEF ChatDisconnected
  <2> HIDE DEF t
  <2>3. /\ Loses(t, [t EXCEPT !.circuit[k] = NoCircuit])
        /\ ~[t EXCEPT !.circuit[k] = NoCircuit].circuit[k].Active
    BY <2>1, ClearedLoses DEF Loses
  <2> QED
    BY <2>1, <2>2, <2>3, LosesOn
<1> QED
  BY <1>1, <1>2

-----------------------------------------------------------------------------
(* The handlers: users and lines.                                          *)

LEMMA UserJoinKeeps ==
  ASSUME NEW s \in State, NEW k \in Conn \cup {Local}, NEW u \in Node \cup User, NEW n \in Node
  PROVE  Keeps(s, user_join(s, k, u, n))
<1>1. [call |-> u, node |-> n, circuit |-> k, topic |-> deftopic] \in UserSet
  BY ChatAssumption DEF UserSet
<1> QED
  BY <1>1, UserSetKeeps DEF user_join

LEMMA LoginKeeps ==
  ASSUME NEW s \in State, NEW u \in User
  PROVE  Keeps(s, rtloginu(s, u))
<1> DEFINE a == [s EXCEPT !.node[s.me] = @ + 1]
           t == user_join(a, Local, u, s.me)
           r == [call |-> u, node |-> s.me]
<1>1. s.me \in Node /\ s.node \in [Node -> Int]
  BY StateFields
<1>2. Keeps(s, a) /\ a \in State
  <2> DEFINE x == [s.node EXCEPT ![s.me] = @ + 1]
  <2>1. x \in [Node -> Int] /\ a = [s EXCEPT !.node = x]
    BY <1>1
  <2> HIDE DEF x, a
  <2> QED
    BY <2>1, UpdatesKeep DEF Keeps
<1> HIDE DEF a
<1>3. Keeps(a, t) /\ t \in State
  BY <1>1, <1>2, UserJoinKeeps DEF Keeps
<1>4. r.call \in Node \cup User /\ r.node \in Node /\ "join" \in LineKind
  BY <1>1 DEF LineKind
<1>5. rtloginu(s, u) = user_tell(t, r, "join")
  BY DEF rtloginu, a
<1> HIDE DEF t, r
<1>6. Keeps(t, user_tell(t, r, "join"))
  BY <1>3, <1>4, UserTellKeeps
<1> QED
  BY <1>2, <1>3, <1>5, <1>6, KeepsOn

LEMMA LogoutKeeps ==
  ASSUME NEW s \in State, NEW r \in UserSet
  PROVE  Keeps(s, logout(s, r))
<1> DEFINE a == user_tell(s, r, "leave")
           b == [a EXCEPT !.user = @ \ {r}]
           t == node_dec(b, s.me)
<1>1. Keeps(s, a) /\ a \in State
  <2>1. r.call \in Node \cup User /\ r.node \in Node /\ "leave" \in LineKind
    BY DEF UserSet, LineKind
  <2> QED
    BY <2>1, UserTellKeeps DEF Keeps
<1> HIDE DEF a
<1>2. Keeps(a, b) /\ b \in State
  BY <1>1, UserSetKeeps DEF Keeps
<1> HIDE DEF b
<1>3. Keeps(b, t) /\ t \in State
  BY <1>2, NodeDecKeeps DEF Keeps
<1> HIDE DEF t
<1>4. Keeps(t, [t EXCEPT !.node = Nobody]) /\ Keeps(t, t)
  BY <1>3, NobodyType, UpdatesKeep, KeepsItself
<1>5. logout(s, r) = t \/ logout(s, r) = [t EXCEPT !.node = Nobody]
  BY DEF logout, a, b, t
<1>6. Keeps(t, logout(s, r))
  BY <1>4, <1>5
<1> QED
  BY <1>1, <1>2, <1>3, <1>6, KeepsOn

LEMMA TopicChgKeeps ==
  ASSUME NEW s \in State, NEW r \in UserSet, NEW t \in Topic
  PROVE  Keeps(s, topic_chg(s, r, t))
<1>1. [r EXCEPT !.topic = t] \in UserSet
  BY DEF UserSet
<1> QED
  BY <1>1, UserSetKeeps DEF topic_chg

LEMMA TopicCommandKeeps ==
  ASSUME NEW s \in State, NEW r \in UserSet, NEW t \in Topic
  PROVE  Keeps(s, TopicCommand(s, r, t))
<1> DEFINE a == topic_chg(s, r, t)
           l == TopicLine(s, [r EXCEPT !.topic = t])
<1>1. Keeps(s, a) /\ a \in State
  BY TopicChgKeeps DEF Keeps
<1>2. l \in LineSet
  <2> DEFINE x == [r EXCEPT !.topic = t]
  <2>1. x.call \in Node \cup User /\ x.topic \in Topic
    BY DEF UserSet
  <2> HIDE DEF x
  <2> QED
    BY <2>1, TopicLineType DEF x
<1>3. TopicCommand(s, r, t) = Send(a, Linked(s), l)
  BY DEF TopicCommand
<1> HIDE DEF a, l
<1>4. Keeps(a, Send(a, Linked(s), l))
  BY <1>1, <1>2, SendKeeps
<1> QED
  BY <1>1, <1>3, <1>4, KeepsOn

LEMMA NodeCloseKeeps ==
  ASSUME NEW s \in State
  PROVE  Keeps(s, node_close(s))
<1> DEFINE S == Listed(s) \cup {k \in Conn : s.circuit[k].rtcflags = "linkwait"}
<1>1. S \subseteq Conn /\ IsFiniteSet(S)
  <2>1. S \subseteq Conn
    BY DEF Listed
  <2> QED
    BY <2>1, ConnFinite
<1>2. node_close(s) = FoldSet(LAMBDA k, t : Disconnect(t, k), s, S)
  BY DEF node_close
<1> HIDE DEF S
<1> QED
  BY <1>1, <1>2, DisconnectAllKeep

-----------------------------------------------------------------------------
(* A line from a partner.                                                  *)

LEMMA IdJoinKeeps ==
  ASSUME NEW s \in State, NEW k \in Conn, NEW l \in LineSet
  PROVE  Keeps(s, id_join(s, k, l))
<1>1. CASE user_find(s, l.about, l.node) # {}
  BY <1>1, KeepsItself DEF id_join
<1>2. CASE user_find(s, l.about, l.node) = {}
  <2> DEFINE a == echo(s, k, l)
             b == cn_inc(a, k, l.node)
             c == user_join(b, k, l.about, l.node)
             d == [c EXCEPT !.circuit[k].refcnt = @ + 1]
  <2>1. Keeps(s, a) /\ a \in State
    BY EchoKeeps DEF Keeps
  <2>2. id_join(s, k, l) = d
    BY <1>2 DEF id_join
  <2> HIDE DEF a
  <2>3. Keeps(a, b) /\ b \in State
    BY <2>1, CnIncKeeps DEF Keeps
  <2> HIDE DEF b
  <2>4. Keeps(b, c) /\ c \in State
    <3>1. l.about \in Node \cup User /\ l.node \in Node
      BY DEF LineSet
    <3> QED
      BY <2>3, <3>1, UserJoinKeeps DEF Keeps
  <2> HIDE DEF c
  <2>5. Keeps(c, d)
    BY <2>4, RefcntKeeps
  <2> QED
    BY <2>1, <2>2, <2>3, <2>4, <2>5, KeepsOn
<1> QED
  BY <1>1, <1>2

LEMMA IdLeaveKeeps ==
  ASSUME NEW s \in State, NEW k \in Conn, NEW l \in LineSet
  PROVE  Keeps(s, id_leave(s, k, l))
<1>1. CASE user_find(s, l.about, l.node) = {}
  BY <1>1, KeepsItself DEF id_leave
<1>2. CASE user_find(s, l.about, l.node) # {}
  <2> DEFINE U == user_find(s, l.about, l.node)
             a == echo(s, k, l)
             b == [a EXCEPT !.circuit[k].refcnt = @ - 1]
             us == b.user \ U
             c == [b EXCEPT !.user = us]
             d == cn_dec(c, k, l.node)
  <2>1. Keeps(s, a) /\ a \in State
    BY EchoKeeps DEF Keeps
  <2>2. id_leave(s, k, l) = node_dec(d, l.node)
    <3>1. c = [a EXCEPT !.circuit[k].refcnt = @ - 1, !.user = @ \ U]
      BY <2>1 DEF State
    <3> HIDE DEF c
    <3> QED
      BY <1>2, <3>1 DEF id_leave
  <2> HIDE DEF a, U
  <2>3. Keeps(a, b) /\ b \in State
    BY <2>1, RefcntKeeps DEF Keeps
  <2> HIDE DEF b
  <2>4. Keeps(b, c) /\ c \in State
    <3>1. us \in SUBSET UserSet /\ IsFiniteSet(us)
      BY <2>3, StateFields, FS_Subset
    <3> HIDE DEF us
    <3> QED
      BY <2>3, <3>1, UpdatesKeep DEF Keeps
  <2> HIDE DEF c
  <2>5. Keeps(c, d) /\ d \in State
    BY <2>4, CnDecKeeps DEF Keeps
  <2> HIDE DEF d
  <2>6. Keeps(d, node_dec(d, l.node))
    BY <2>5, NodeDecKeeps
  <2> QED
    BY <2>1, <2>2, <2>3, <2>4, <2>5, <2>6, KeepsOn
<1> QED
  BY <1>1, <1>2

LEMMA IdLinkKeeps ==
  ASSUME NEW s \in State, NEW k \in Conn, NEW l \in LineSet
  PROVE  Keeps(s, id_link(s, k, l))
<1> DEFINE a == cn_inc(s, k, l.about)
<1>1. Keeps(s, a) /\ a \in State
  BY CnIncKeeps DEF Keeps
<1>2. id_link(s, k, l) = s \/ id_link(s, k, l) = echo(a, k, l)
  BY DEF id_link
<1> HIDE DEF a
<1>3. Keeps(s, echo(a, k, l))
  BY <1>1, EchoKeeps, KeepsOn
<1> QED
  BY <1>2, <1>3, KeepsItself

LEMMA IdUnlinkKeeps ==
  ASSUME NEW s \in State, NEW k \in Conn, NEW l \in LineSet
  PROVE  Keeps(s, id_unlink(s, k, l))
<1> DEFINE a == cn_dec(s, k, l.about)
           b == node_dec(a, l.about)
<1>1. Keeps(s, a) /\ a \in State
  BY CnDecKeeps DEF Keeps
<1> HIDE DEF a
<1>2. Keeps(a, b) /\ b \in State
  BY <1>1, NodeDecKeeps DEF Keeps
<1>3. id_unlink(s, k, l) = s \/ id_unlink(s, k, l) = echo(b, k, l)
  BY DEF id_unlink, a
<1> HIDE DEF b
<1>4. Keeps(s, echo(b, k, l))
  BY <1>1, <1>2, EchoKeeps, KeepsOn
<1> QED
  BY <1>3, <1>4, KeepsItself

LEMMA IdTopicKeeps ==
  ASSUME NEW s \in State, NEW k \in Conn, NEW l \in LineSet
  PROVE  Keeps(s, id_topic(s, k, l))
<1> DEFINE r == {x \in user_find(s, l.about, l.node) : x.topic # l.topic}
           a == echo(s, k, l)
<1>1. CASE r = {}
  BY <1>1, KeepsItself DEF id_topic
<1>2. CASE r # {}
  <2>1. Picked(r) \in UserSet
    <3>1. Picked(r) \in r
      BY <1>2, PickedIn
    <3> QED
      BY <3>1, StateFields DEF user_find
  <2>2. id_topic(s, k, l) = topic_chg(a, Picked(r), l.topic)
    BY <1>2 DEF id_topic, Picked
  <2>3. Keeps(s, a) /\ a \in State
    BY EchoKeeps DEF Keeps
  <2> DEFINE x == Picked(r)
  <2> HIDE DEF a, x
  <2>4. Keeps(a, topic_chg(a, x, l.topic))
    <3>1. x \in UserSet /\ l.topic \in Topic
      BY <2>1 DEF x, LineSet
    <3> QED
      BY <2>3, <3>1, TopicChgKeeps
  <2> QED
    BY <2>2, <2>3, <2>4, KeepsOn DEF x
<1> QED
  BY <1>1, <1>2

LEMMA ChkctlKeeps ==
  ASSUME NEW s \in State, NEW k \in Conn, NEW l \in LineSet
  PROVE  Keeps(s, chkctl(s, k, l))
<1>1. \/ chkctl(s, k, l) = s
      \/ chkctl(s, k, l) = id_join(s, k, l)
      \/ chkctl(s, k, l) = id_leave(s, k, l)
      \/ chkctl(s, k, l) = id_link(s, k, l)
      \/ chkctl(s, k, l) = id_unlink(s, k, l)
      \/ chkctl(s, k, l) = id_topic(s, k, l)
  BY DEF chkctl
<1> QED
  BY <1>1, KeepsItself, IdJoinKeeps, IdLeaveKeeps, IdLinkKeeps, IdUnlinkKeeps, IdTopicKeeps

LEMMA ReceivedLineGains ==
  ASSUME NEW s, Good(s), NEW k \in Conn, NEW l \in LineSet
  PROVE  Gains(s, ChatDoReceivedLine(s, k, l), k)
<1>1. s \in State /\ Gains(s, s, k)
  BY DEF Good, Gains
<1>2. CASE s.circuit[k].rtcflags = "linkini"
  <2>1. \/ ChatDoReceivedLine(s, k, l) = ProcessConnecting(s, k)
        \/ ChatDoReceivedLine(s, k, l) = s
    BY <1>2 DEF ChatDoReceivedLine
  <2> QED
    BY <1>1, <1>2, <2>1, ProcessConnectingGains
<1>3. CASE s.circuit[k].rtcflags = "linkwait"
  <2>1. ChatDoReceivedLine(s, k, l) = rtloginl(s, k, l.node)
    BY <1>3 DEF ChatDoReceivedLine
  <2>2. k \notin Listed(s) /\ l.node \in Node
    BY <1>1, <1>3, ListedFacts DEF LineSet
  <2> QED
    BY <2>1, <2>2, RtloginlGains
<1>4. CASE s.circuit[k].rtcflags \notin {"linkini", "linkwait"}
  <2>1. ChatDoReceivedLine(s, k, l) = chkctl(s, k, l)
    BY <1>4 DEF ChatDoReceivedLine
  <2> QED
    BY <1>1, <2>1, ChkctlKeeps, KeepsLoses, LosesGains
<1> QED
  BY <1>2, <1>3, <1>4

\* g[j] is what the first j lines of a packet make of s.
ReceivedIn(g, s, k, packet) ==
    /\ g[0] = s
    /\ \A j \in 1 .. Len(packet) : g[j] = ChatDoReceivedLine(g[j - 1], k, packet[j])
    /\ ChatDoReceivedData(s, k, packet) = g[Len(packet)]

\* The lines of a packet are taken one after the other.
LEMMA ReceivedDataRun ==
  ASSUME NEW s, Good(s), NEW k \in Conn, NEW packet \in Seq(LineSet)
  PROVE  \E g : ReceivedIn(g, s, k, packet)
<1> DEFINE S == DOMAIN packet
           T == {t \in State : Gains(s, t, k)}
           pick == [x \in SUBSET S |-> Max(x)]
           do == [p \in S \X T |-> ChatDoReceivedLine(p[2], k, packet[p[1]])]
           Step(f) == [x \in SUBSET S |->
                         IF x = {} THEN s
                         ELSE LET z == Max(x)
                              IN  ChatDoReceivedLine(f[x \ {z}], k, packet[z])]
           iter == CHOOSE f : f = Step(f)
<1>1. s \in T
  BY DEF Good, Gains
<1>2. IsFiniteSet(S) /\ Picks(S, pick) /\ \A z \in S : packet[z] \in LineSet
  <2>1. S = 1 .. Len(packet) /\ Len(packet) \in Nat /\ \A z \in S : packet[z] \in LineSet
    OBVIOUS
  <2> HIDE DEF S
  <2>2. IsFiniteSet(S)
    <3>1. 1 \in Nat
      OBVIOUS
    <3> QED
      BY <2>1, <3>1, FS_Interval
  <2>3. \A x \in SUBSET S : x # {} => pick[x] = Max(x) /\ Max(x) \in x
    BY <2>1, LargestExists
  <2> HIDE DEF pick
  <2> QED
    BY <2>1, <2>2, <2>3 DEF Picks
<1> HIDE DEF S
<1>3. \A z \in S, t \in T : ChatDoReceivedLine(t, k, packet[z]) \in T
  <2> TAKE z \in S, t \in T
  <2>1. Good(t) /\ packet[z] \in LineSet
    BY <1>2 DEF Gains
  <2>2. Gains(t, ChatDoReceivedLine(t, k, packet[z]), k)
    BY <2>1, ReceivedLineGains
  <2> QED
    BY <2>2, GainsOn DEF Gains, Good
<1>4. do \in [S \X T -> T]
  <2> HIDE DEF T
  <2> QED
    BY <1>3
<1>5. PICK f : IsFold(S, T, s, pick, do, f)
  <2> HIDE DEF T, pick, do
  <2> QED
    BY <1>1, <1>2, <1>4, FoldExists
<1>6. \A x \in SUBSET S : x # {} =>
         f[x] = ChatDoReceivedLine(f[x \ {pick[x]}], k, packet[pick[x]])
  <2> TAKE x \in SUBSET S
  <2> HAVE x # {}
  <2>1. pick[x] \in S /\ f[x \ {pick[x]}] \in T
    <3> HIDE DEF T, pick
    <3> QED
      BY <1>2, <1>5 DEF Picks, IsFold
  <2>2. f[x] = do[<< pick[x], f[x \ {pick[x]}] >>]
    <3> HIDE DEF T, pick, do
    <3> QED
      BY <1>5 DEF IsFold, FoldStep
  <2> HIDE DEF T, pick
  <2> QED
    BY <2>1, <2>2
<1>7. f = Step(f)
  <2>1. \A x \in SUBSET S : x # {} => pick[x] = Max(x)
    OBVIOUS
  <2>2. f[{}] = s
    BY <1>5 DEF IsFold, FoldStep
  <2> HIDE DEF T, pick, do
  <2> QED
    BY <1>5, <1>6, <2>1, <2>2 DEF IsFold
<1>8. iter = Step(iter)
  <2> HIDE DEF T, pick, do, Step
  <2> QED
    BY <1>7, Zenon
<1>9. iter[{}] = s
  <2>1. Step(iter)[{}] = s
    OBVIOUS
  <2> HIDE DEF Step, iter
  <2> QED
    BY <1>8, <2>1
<1>10. \A x \in SUBSET S : x # {} =>
          iter[x] = ChatDoReceivedLine(iter[x \ {Max(x)}], k, packet[Max(x)])
  <2> TAKE x \in SUBSET S
  <2> HAVE x # {}
  <2>1. Step(iter)[x] = ChatDoReceivedLine(iter[x \ {Max(x)}], k, packet[Max(x)])
    <3> HIDE DEF iter
    <3> QED
      OBVIOUS
  <2> HIDE DEF Step, iter
  <2> QED
    BY <1>8, <2>1
<1>11. ChatDoReceivedData(s, k, packet) = iter[S]
  BY DEF ChatDoReceivedData, FoldLeft, MapThenFoldSet, S
<1> DEFINE g == [j \in 0 .. Len(packet) |-> iter[1 .. j]]
<1> HIDE DEF iter, Step, T, pick, do
<1>12. S = 1 .. Len(packet) /\ Len(packet) \in Nat
  BY DEF S
<1>13. g[0] = s
  <2>1. 1 .. 0 = {} /\ 0 \in 0 .. Len(packet)
    BY <1>12
  <2> QED
    BY <1>9, <1>12, <2>1
<1>14. \A j \in 1 .. Len(packet) : g[j] = ChatDoReceivedLine(g[j - 1], k, packet[j])
  <2> TAKE j \in 1 .. Len(packet)
  <2>1. 1 .. j \in SUBSET S /\ 1 .. j # {} /\ j \in 1 .. j
    <3>1. \A i \in 1 .. j : i \in 1 .. Len(packet)
      BY <1>12
    <3>2. j \in 1 .. j
      BY <1>12
    <3> QED
      BY <1>12, <3>1, <3>2
  <2>2. Max(1 .. j) = j
    <3>1. Max(1 .. j) \in 1 .. j
      <4>1. j \in Nat /\ 1 .. j \subseteq 1 .. j
        BY <1>12
      <4> QED
        BY <2>1, <4>1, LargestExists
    <3>2. \E m \in 1 .. j : \A i \in 1 .. j : m >= i
      OBVIOUS
    <3>3. \A i \in 1 .. j : Max(1 .. j) >= i
      BY <3>2 DEF Max
    <3> QED
      BY <2>1, <3>1, <3>3
  <2>3. (1 .. j) \ {j} = 1 .. (j - 1)
    OBVIOUS
  <2>4. j \in 0 .. Len(packet) /\ j - 1 \in 0 .. Len(packet)
    BY <1>12
  <2> QED
    BY <1>10, <2>1, <2>2, <2>3, <2>4
<1>15. g[Len(packet)] = iter[S]
  BY <1>12
<1> HIDE DEF g
<1>16. ReceivedIn(g, s, k, packet)
  BY <1>11, <1>13, <1>14, <1>15 DEF ReceivedIn
<1> QED
  BY <1>16

LEMMA ReceivedDataGains ==
  ASSUME NEW s, Good(s), NEW k \in Conn, NEW packet \in Seq(LineSet)
  PROVE  Gains(s, ChatDoReceivedData(s, k, packet), k)
<1>1. PICK g : ReceivedIn(g, s, k, packet)
  BY ReceivedDataRun
<1> DEFINE I == {j \in Nat : j <= Len(packet) => Gains(s, g[j], k)}
<1>2. 0 \in I
  BY <1>1 DEF Good, Gains, ReceivedIn
<1>3. ASSUME NEW j \in I
      PROVE  j + 1 \in I
  <2> SUFFICES ASSUME j + 1 <= Len(packet)
               PROVE  Gains(s, g[j + 1], k)
    OBVIOUS
  <2>1. j + 1 \in 1 .. Len(packet) /\ (j + 1) - 1 = j /\ packet[j + 1] \in LineSet
    OBVIOUS
  <2>2. Gains(s, g[j], k) /\ g[j + 1] = ChatDoReceivedLine(g[j], k, packet[j + 1])
    BY <1>1, <2>1 DEF ReceivedIn
  <2>3. Gains(g[j], g[j + 1], k)
    BY <2>1, <2>2, ReceivedLineGains DEF Gains
  <2> QED
    BY <2>2, <2>3, GainsOn
<1> HIDE DEF I
<1>4. \A j \in Nat : j \in I
  BY <1>2, <1>3, NatInductionOnSet DEF I
<1>5. Len(packet) \in I /\ Len(packet) \in Nat
  BY <1>4
<1> QED
  BY <1>1, <1>5 DEF I, ReceivedIn

-----------------------------------------------------------------------------
(* The network.                                                            *)

ConnSet == [is : {"calling", "open", "over"}, from : Node, to : Node]

\* n is an end of k and knows it: while the call is made only the caller does, and
\* when it is over, the one that is yet to be told.
Belongs(n, k) ==
    /\ conn[k] \in ConnSet /\ n \in End(k)
    /\ conn[k].is = "calling" => n = conn[k].from
    /\ conn[k].is = "over" => n \in told[k]

ChatGood == chat = [n \in Node |-> chat[n]] /\ \A n \in Node : Good(chat[n])
ConnOK ==
    /\ conn \in [Conn -> {Unused} \cup ConnSet]
    /\ \A k \in Conn : conn[k] \in ConnSet => conn[k].from # conn[k].to
WireOK == wire \in [Conn -> [Node -> Seq(Seq(LineSet))]]
ToldOK ==
    /\ told \in [Conn -> SUBSET Node]
    /\ \A k \in Conn : told[k] # {} => conn[k] \in ConnSet /\ conn[k].is = "over"

\* A circuit in use belongs to a connection.
EndsKnown == \A n \in Node, k \in Conn : chat[n].circuit[k].Active => Belongs(n, k)

\* The inductive invariant.
IInv == ChatGood /\ ConnOK /\ WireOK /\ ToldOK /\ EndsKnown

LEMMA InvFlags == IInv => FlagsMatch
  BY DEF IInv, ChatGood, Good, FlagsFound, FlagsMatch

LEMMA ConnFacts ==
  ASSUME ConnOK, NEW k \in Conn
  PROVE  /\ conn[k] = Unused \/ conn[k] \in ConnSet
         /\ Unused \notin ConnSet /\ Unused.is = "unused"
         /\ conn[k] \in ConnSet => /\ conn[k].is \in {"calling", "open", "over"}
                                   /\ conn[k].from \in Node /\ conn[k].to \in Node
                                   /\ conn[k].from # conn[k].to
                                   /\ End(k) \subseteq Node
<1>1. Unused \notin ConnSet /\ Unused.is = "unused"
  BY DEF Unused, ConnSet
<1> QED
  BY <1>1 DEF ConnOK, ConnSet, End

LEMMA FreshGood ==
  ASSUME NEW n \in Node
  PROVE  /\ Good(Fresh(n)) /\ Fresh(n).out \in [Conn -> Seq(LineSet)]
         /\ \A k \in Conn : ~Fresh(n).circuit[k].Active
<1>1. NoCircuit \in CircuitSet /\ ~NoCircuit.Active
  BY NobodyType DEF NoCircuit, CircuitSet, NotInUse
<1>2. Fresh(n).out \in [Conn -> Seq(LineSet)] /\ Fresh(n).circuit \in [Conn -> CircuitSet]
  BY <1>1 DEF Fresh
<1>3. Fresh(n) \in State
  BY <1>2, NobodyType, FS_EmptySet DEF Fresh, State, Flag
<1>4. FlagsFound(Fresh(n))
  BY DEF Fresh, FlagsFound
<1> QED
  BY <1>1, <1>2, <1>3, <1>4 DEF Good, Fresh

LEMMA InitInv == Init => IInv
<1> SUFFICES ASSUME Init
             PROVE  IInv
  OBVIOUS
<1>1. ChatGood /\ EndsKnown
  BY FreshGood DEF Init, ChatGood, EndsKnown
<1>2. ConnOK
  BY DEF Init, ConnOK, Unused, ConnSet
<1>3. WireOK /\ ToldOK
  BY DEF Init, WireOK, ToldOK
<1> QED
  BY <1>1, <1>2, <1>3 DEF IInv

-----------------------------------------------------------------------------
(* What the steps have in common.                                          *)

\* Connections end: those that are in K, with the ends still to be told.
LEMMA EndsOK ==
  ASSUME ConnOK, ToldOK, NEW K \in SUBSET Conn, NEW ends, Ends(K, ends),
         \A k \in K : conn[k] \in ConnSet /\ ends[k] \in SUBSET Node,
         \A n \in Node, k \in Conn : chat'[n].circuit[k].Active =>
            IF k \in K THEN n \in ends[k] /\ n \in End(k) ELSE Belongs(n, k)
  PROVE  ConnOK' /\ ToldOK' /\ EndsKnown'
<1>1. \A k \in Conn : IF k \notin K THEN conn'[k] = conn[k] /\ told'[k] = told[k]
                      ELSE IF ends[k] = {} THEN conn'[k] = Unused /\ told'[k] = ends[k]
                      ELSE conn'[k] = [conn[k] EXCEPT !.is = "over"] /\ told'[k] = ends[k]
  BY DEF Ends
<1>2. \A k \in K : /\ [conn[k] EXCEPT !.is = "over"] \in ConnSet
                   /\ [conn[k] EXCEPT !.is = "over"].is = "over"
                   /\ [conn[k] EXCEPT !.is = "over"].from = conn[k].from
                   /\ [conn[k] EXCEPT !.is = "over"].to = conn[k].to
  BY DEF ConnSet
<1>3. ConnOK'
  <2>1. conn' \in [Conn -> {Unused} \cup ConnSet]
    BY <1>1, <1>2 DEF Ends, ConnOK
  <2>2. ASSUME NEW k \in Conn, conn'[k] \in ConnSet
        PROVE  conn'[k].from # conn'[k].to
    <3>1. CASE k \notin K
      BY <1>1, <2>2, <3>1 DEF ConnOK
    <3>2. CASE k \in K
      <4>1. conn'[k] # Unused
        BY <2>2, ConnFacts
      <4>2. conn'[k] = [conn[k] EXCEPT !.is = "over"]
        BY <1>1, <3>2, <4>1
      <4>3. conn[k].from # conn[k].to
        BY <3>2, ConnFacts
      <4> QED
        BY <1>2, <3>2, <4>2, <4>3
    <3> QED
      BY <3>1, <3>2
  <2> QED
    BY <2>1, <2>2 DEF ConnOK
<1>4. ToldOK'
  <2>1. told' \in [Conn -> SUBSET Node]
    BY <1>1 DEF Ends, ToldOK
  <2>2. ASSUME NEW k \in Conn, told'[k] # {}
        PROVE  conn'[k] \in ConnSet /\ conn'[k].is = "over"
    <3>1. CASE k \notin K
      BY <1>1, <2>2, <3>1 DEF ToldOK
    <3>2. CASE k \in K
      <4>1. conn'[k] = [conn[k] EXCEPT !.is = "over"]
        BY <1>1, <2>2, <3>2
      <4> QED
        BY <1>2, <3>2, <4>1
    <3> QED
      BY <3>1, <3>2
  <2> QED
    BY <2>1, <2>2 DEF ToldOK
<1>5. EndsKnown'
  <2> SUFFICES ASSUME NEW n \in Node, NEW k \in Conn, chat'[n].circuit[k].Active
               PROVE  Belongs(n, k)'
    BY DEF EndsKnown
  <2>1. CASE k \notin K
    <3>1. conn'[k] = conn[k] /\ told'[k] = told[k] /\ Belongs(n, k)
      BY <1>1, <2>1
    <3> QED
      BY <3>1, Zenon DEF Belongs, End
  <2>2. CASE k \in K
    <3>1. n \in ends[k] /\ n \in End(k) /\ ends[k] # {}
      BY <2>2
    <3>2. conn'[k] = [conn[k] EXCEPT !.is = "over"] /\ told'[k] = ends[k]
      BY <1>1, <2>2, <3>1
    <3> QED
      BY <1>2, <2>2, <3>1, <3>2 DEF Belongs, End
  <2> QED
    BY <2>1, <2>2
<1> QED
  BY <1>3, <1>4, <1>5

\* Nodes get new states.
LEMMA ChatSet ==
  ASSUME IInv, NEW n \in Node, NEW s, Good(s), chat' = [chat EXCEPT ![n] = s]
  PROVE  /\ ChatGood' /\ chat'[n] = s
         /\ \A m \in Node : m # n => chat'[m] = chat[m]
<1>1. chat' = [m \in Node |-> IF m = n THEN s ELSE chat[m]]
  BY DEF IInv, ChatGood
<1> QED
  BY <1>1 DEF IInv, ChatGood

\* What has been sent is put on the wire.
LEMMA AppendedType ==
  ASSUME NEW v, v \in [Node -> Seq(Seq(LineSet))], NEW m, NEW packet \in Seq(LineSet)
  PROVE  [v EXCEPT ![m] = Append(@, packet)] \in [Node -> Seq(Seq(LineSet))]
<1>1. \A q \in Seq(Seq(LineSet)) : Append(q, packet) \in Seq(Seq(LineSet))
  OBVIOUS
<1>2. m \in Node => Append(v[m], packet) \in Seq(Seq(LineSet))
  BY <1>1
<1> QED
  BY <1>2

LEMMA EmptyType == [m \in Node |-> << >>] \in [Node -> Seq(Seq(LineSet))]
  OBVIOUS

LEMMA NodeFacts ==
  ASSUME IInv, NEW n \in Node
  PROVE  /\ Good(chat[n]) /\ chat[n] \in State
         /\ \A k \in Conn : chat[n].circuit[k].Active => Belongs(n, k)
  BY DEF IInv, ChatGood, Good, EndsKnown

LEMMA LosesBelongs ==
  ASSUME IInv, NEW n \in Node, NEW s, Loses(chat[n], s)
  PROVE  Good(s) /\ \A k \in Conn : s.circuit[k].Active => Belongs(n, k)
  BY NodeFacts DEF Loses

LEMMA GainsBelongs ==
  ASSUME IInv, NEW n \in Node, NEW s, NEW c, Gains(chat[n], s, c), Belongs(n, c)
  PROVE  Good(s) /\ \A k \in Conn : s.circuit[k].Active => Belongs(n, k)
  BY NodeFacts DEF Gains

\* What a handler has made of a node, ready for the next.
LEMMA EmptiedGood ==
  ASSUME NEW s, Good(s), NEW n \in Node
  PROVE  /\ Good([s EXCEPT !.out = Fresh(n).out])
         /\ [s EXCEPT !.out = Fresh(n).out].circuit = s.circuit
         /\ Good([s EXCEPT !.out = Fresh(n).out, !.shut = {}])
         /\ [s EXCEPT !.out = Fresh(n).out, !.shut = {}].circuit = s.circuit
<1> DEFINE o == Fresh(n).out
           a == [s EXCEPT !.out = o]
           b == [a EXCEPT !.shut = {}]
<1>1. o \in [Conn -> Seq(LineSet)] /\ {} \in SUBSET Conn
  BY FreshGood
<1> HIDE DEF o
<1>2. Keeps(s, a) /\ a \in State
  BY <1>1, UpdatesKeep DEF Keeps, Good
<1>3. Keeps(a, b)
  <2> HIDE DEF a
  <2> QED
    BY <1>1, <1>2, UpdatesKeep
<1>4. a.circuit = s.circuit /\ b.circuit = s.circuit
  BY DEF Good, State
<1>5. b = [s EXCEPT !.out = o, !.shut = {}]
  OBVIOUS
<1> HIDE DEF a, b
<1>6. Good(a) /\ Good(b)
  BY <1>2, <1>3, KeepsLoses DEF Loses
<1> QED
  BY <1>4, <1>5, <1>6 DEF a, o

LEMMA CommitInv ==
  ASSUME IInv, NEW n \in Node, NEW s, Good(s),
         \A k \in Conn : s.circuit[k].Active => Belongs(n, k),
         NEW sent, sent \in [Conn -> [Node -> Seq(Seq(LineSet))]],
         Commit(n, s, sent)
  PROVE  IInv'
<1> DEFINE closed == {k \in s.shut : conn[k].is \in {"calling", "open"}}
           Begun(k) == {m \in End(k) : IF m = n THEN s.circuit[k].Active
                                                ELSE chat[m].circuit[k].Active}
           ends == [k \in closed |-> Begun(k)]
           t == [s EXCEPT !.out = Fresh(n).out, !.shut = {}]
<1>1. ConnOK /\ ToldOK /\ s \in State
  BY DEF IInv, Good
<1>2. closed \in SUBSET Conn
  BY <1>1, StateFields
<1>3. Good(t) /\ t.circuit = s.circuit
  BY EmptiedGood
<1>4. chat' = [chat EXCEPT ![n] = t] /\ Ends(closed, ends)
  BY DEF Commit
<1> HIDE DEF t
<1>5. ChatGood' /\ chat'[n] = t /\ \A m \in Node : m # n => chat'[m] = chat[m]
  BY <1>3, <1>4, ChatSet
<1>6. \A k \in closed : conn[k] \in ConnSet /\ End(k) \subseteq Node
  BY <1>1, <1>2, ConnFacts
<1>7. \A k \in closed : ends[k] = Begun(k) /\ ends[k] \in SUBSET Node
  BY <1>6
<1>8. ASSUME NEW m \in Node, NEW k \in Conn, chat'[m].circuit[k].Active
      PROVE  IF k \in closed THEN m \in ends[k] /\ m \in End(k) ELSE Belongs(m, k)
  <2>1. Belongs(m, k) /\ m \in End(k)
    <3>1. CASE m = n
      BY <1>3, <1>5, <1>8, <3>1 DEF Belongs
    <3>2. CASE m # n
      BY <1>5, <1>8, <3>2, NodeFacts DEF Belongs
    <3> QED
      BY <3>1, <3>2
  <2>2. ASSUME k \in closed
        PROVE  m \in Begun(k)
    <3>1. CASE m = n
      BY <1>3, <1>5, <1>8, <2>1, <3>1
    <3>2. CASE m # n
      BY <1>5, <1>8, <2>1, <3>2
    <3> QED
      BY <3>1, <3>2
  <2> HIDE DEF closed, Begun, ends
  <2> QED
    BY <1>7, <2>1, <2>2
<1>9. ConnOK' /\ ToldOK' /\ EndsKnown'
  <2> HIDE DEF closed, ends
  <2> QED
    BY <1>1, <1>2, <1>4, <1>6, <1>7, <1>8, EndsOK
<1>10. WireOK'
  <2>1. \A k \in Conn : sent[k] \in [Node -> Seq(Seq(LineSet))] /\ s.out[k] \in Seq(LineSet)
    BY <1>1, StateFields
  <2>2. wire' = [k \in Conn |->
              IF k \in closed THEN [m \in Node |-> << >>]
              ELSE IF k \in Open /\ s.out[k] # << >>
                   THEN [sent[k] EXCEPT ![Other(k, n)] = Append(@, s.out[k])]
              ELSE sent[k]]
    BY DEF Commit
  <2> HIDE DEF closed
  <2>3. ASSUME NEW k \in Conn
        PROVE  wire'[k] \in [Node -> Seq(Seq(LineSet))]
    <3>1. [sent[k] EXCEPT ![Other(k, n)] = Append(@, s.out[k])] \in [Node -> Seq(Seq(LineSet))]
      BY <2>1, AppendedType
    <3> QED
      BY <2>1, <2>2, <3>1, EmptyType
  <2> QED
    BY <2>2, <2>3 DEF WireOK
<1> QED
  BY <1>5, <1>9, <1>10 DEF IInv

\* A handler that loses no link it says it has, with the wire as it was.
LEMMA HandlerInv ==
  ASSUME IInv, NEW n \in Node, NEW s, Loses(chat[n], s), Commit(n, s, wire)
  PROVE  IInv'
<1>1. wire \in [Conn -> [Node -> Seq(Seq(LineSet))]]
  BY DEF IInv, WireOK
<1> QED
  BY <1>1, LosesBelongs, CommitInv

-----------------------------------------------------------------------------
(* The steps.                                                              *)

LEMMA LoginInv ==
  ASSUME IInv, NEW n \in Node, NEW u \in User, Login(n, u)
  PROVE  IInv'
<1>1. Loses(chat[n], rtloginu(chat[n], u))
  BY NodeFacts, LoginKeeps, KeepsLoses
<1> QED
  BY <1>1, HandlerInv DEF Login

LEMMA UserIn ==
  ASSUME IInv, NEW n \in Node, NEW r \in chat[n].user
  PROVE  r \in UserSet
  BY NodeFacts, StateFields

LEMMA LogoutInv ==
  ASSUME IInv, NEW n \in Node, NEW r \in chat[n].user, Logout(n, r)
  PROVE  IInv'
<1>1. Loses(chat[n], logout(chat[n], r))
  BY UserIn, NodeFacts, LogoutKeeps, KeepsLoses
<1> QED
  BY <1>1, HandlerInv DEF Logout

LEMMA ChangeTopicInv ==
  ASSUME IInv, NEW n \in Node, NEW r \in chat[n].user, NEW t \in Topic, ChangeTopic(n, r, t)
  PROVE  IInv'
<1>1. Loses(chat[n], TopicCommand(chat[n], r, t))
  BY UserIn, NodeFacts, TopicCommandKeeps, KeepsLoses
<1> QED
  BY <1>1, HandlerInv DEF ChangeTopic

LEMMA CloseLinksInv ==
  ASSUME IInv, NEW n \in Node, CloseLinks(n)
  PROVE  IInv'
<1>1. Loses(chat[n], node_close(chat[n]))
  BY NodeFacts, NodeCloseKeeps, KeepsLoses
<1> QED
  BY <1>1, HandlerInv DEF CloseLinks

LEMMA ConnectFailsInv ==
  ASSUME IInv, NEW k \in Conn, ConnectFails(k)
  PROVE  IInv'
<1> DEFINE n == conn[k].from
           a == link_drop(chat[n], k)
           s == Disconnect(a, k)
<1>1. n \in Node /\ Commit(n, s, wire)
  <2>1. ConnOK /\ conn[k].is = "calling"
    BY DEF IInv, ConnectFails
  <2>2. n \in Node
    BY <2>1, ConnFacts
  <2> QED
    BY <2>2 DEF ConnectFails
<1> HIDE DEF n
<1>2. Loses(chat[n], a) /\ Good(a)
  BY <1>1, NodeFacts, LinkDropLoses DEF Loses
<1> HIDE DEF a
<1>3. Loses(a, s)
  BY <1>2, DisconnectKeeps, KeepsLoses DEF Good
<1>4. Loses(chat[n], s)
  BY <1>2, <1>3, LosesOn
<1> HIDE DEF s
<1> QED
  BY <1>1, <1>4, HandlerInv

LEMMA ReceiveInv ==
  ASSUME IInv, NEW k \in Conn, NEW n \in Node, Receive(k, n)
  PROVE  IInv'
<1> DEFINE q == wire[k][n]
           s == ChatDoReceivedData(chat[n], k, Head(q))
           sent == [wire EXCEPT ![k][n] = Tail(@)]
<1>1. conn[k].is = "open" /\ n \in End(k) /\ q # << >> /\ Commit(n, s, sent)
  BY DEF Receive, Open
<1>2. q \in Seq(Seq(LineSet)) /\ wire \in [Conn -> [Node -> Seq(Seq(LineSet))]]
  BY DEF IInv, WireOK
<1>3. Head(q) \in Seq(LineSet) /\ Tail(q) \in Seq(Seq(LineSet))
  <2> HIDE DEF q
  <2> QED
    BY <1>1, <1>2
<1>4. sent \in [Conn -> [Node -> Seq(Seq(LineSet))]]
  <2>1. sent = [wire EXCEPT ![k] = [wire[k] EXCEPT ![n] = Tail(q)]]
    BY <1>2
  <2>2. [wire[k] EXCEPT ![n] = Tail(q)] \in [Node -> Seq(Seq(LineSet))]
    <3> HIDE DEF q
    <3> QED
      BY <1>2, <1>3
  <2> QED
    BY <1>2, <2>1, <2>2
<1>5. Belongs(n, k)
  <2>1. conn[k] \in ConnSet
    BY <1>1, ConnFacts DEF IInv
  <2> QED
    BY <1>1, <2>1 DEF Belongs
<1> HIDE DEF q, sent
<1>6. Gains(chat[n], s, k)
  BY <1>3, NodeFacts, ReceivedDataGains
<1> HIDE DEF s
<1> QED
  BY <1>1, <1>4, <1>5, <1>6, GainsBelongs, CommitInv

\* A connection is made or answered.
LEMMA ConnChanges ==
  ASSUME ConnOK, ToldOK, NEW k \in Conn, NEW c \in ConnSet, c.from # c.to, c.is # "over",
         told[k] = {}, conn' = [conn EXCEPT ![k] = c], told' = told,
         \A m \in Node, j \in Conn : chat'[m].circuit[j].Active =>
            IF j = k THEN m \in {c.from, c.to} /\ (c.is = "calling" => m = c.from)
                     ELSE Belongs(m, j)
  PROVE  ConnOK' /\ ToldOK' /\ EndsKnown'
<1>1. /\ conn' \in [Conn -> {Unused} \cup ConnSet] /\ conn'[k] = c
      /\ \A j \in Conn : j # k => conn'[j] = conn[j]
  BY DEF ConnOK
<1>2. ConnOK'
  BY <1>1 DEF ConnOK
<1>3. ToldOK'
  BY <1>1 DEF ToldOK
<1>4. ASSUME NEW m \in Node, NEW j \in Conn, chat'[m].circuit[j].Active
      PROVE  Belongs(m, j)'
  <2>1. CASE j = k
    <3>1. m \in {c.from, c.to} /\ (c.is = "calling" => m = c.from)
      BY <1>4, <2>1
    <3> QED
      BY <1>1, <2>1, <3>1 DEF Belongs, End
  <2>2. CASE j # k
    <3>1. Belongs(m, j) /\ conn'[j] = conn[j] /\ told'[j] = told[j]
      BY <1>1, <1>4, <2>2
    <3> QED
      BY <3>1, Zenon DEF Belongs, End
  <2> QED
    BY <2>1, <2>2
<1> QED
  BY <1>2, <1>3, <1>4 DEF EndsKnown

\* The number of a new connection is not that of a circuit in use, at any node.
LEMMA FreeIdle ==
  ASSUME IInv, Free # {}
  PROVE  /\ First(Free) \in Conn /\ told[First(Free)] = {}
         /\ \A m \in Node : ~chat[m].circuit[First(Free)].Active
<1>1. First(Free) \in Free
  <2>1. Free \in SUBSET Nat
    BY DEF Free, Conn
  <2>2. \E i \in Free : \A r \in Free : i <= r
    BY <2>1, NatLeast
  <2> QED
    BY <2>2 DEF First
<1> DEFINE k == First(Free)
<1> HIDE DEF k
<1>2. k \in Conn /\ conn[k] = Unused
  BY <1>1 DEF Free, k
<1>3. conn[k] \notin ConnSet
  BY <1>2, ConnFacts DEF IInv
<1>4. told[k] = {}
  BY <1>2, <1>3 DEF IInv, ToldOK
<1>5. \A m \in Node : ~chat[m].circuit[k].Active
  BY <1>2, <1>3, NodeFacts DEF Belongs
<1> QED
  BY <1>2, <1>4, <1>5 DEF k

LEMMA MakeLinksInv ==
  ASSUME IInv, NEW n \in Node, NEW p \in Node, MakeLinks(n, p)
  PROVE  IInv'
<1> DEFINE k == First(Free)
           s == makelinks(chat[n], k, p)
           c == [is |-> "calling", from |-> n, to |-> p]
<1>1. /\ p \in Partner[n] /\ Free # {} /\ conn' = [conn EXCEPT ![k] = c]
      /\ wire' = wire /\ told' = told /\ chat' = [chat EXCEPT ![n] = s]
  <2>1. chat' = [chat EXCEPT ![n] = s]
    BY DEF MakeLinks
  <2> QED
    BY <2>1 DEF MakeLinks
<1>2. n # p
  BY <1>1, NetAssumption
<1>3. c \in ConnSet /\ c.from = n /\ c.to = p /\ c.is = "calling"
  BY DEF ConnSet
<1>4. k \in Conn /\ told[k] = {} /\ \A m \in Node : ~chat[m].circuit[k].Active
  BY <1>1, FreeIdle
<1> HIDE DEF k, c
<1>5. Gains(chat[n], s, k) /\ Good(s)
  <2>1. Good(chat[n]) /\ k \notin Listed(chat[n])
    BY <1>4, NodeFacts, ListedFacts
  <2> QED
    BY <1>4, <2>1, MakelinksGains DEF Gains
<1> HIDE DEF s
<1>6. ChatGood' /\ chat'[n] = s /\ \A m \in Node : m # n => chat'[m] = chat[m]
  BY <1>1, <1>5, ChatSet
<1>7. ASSUME NEW m \in Node, NEW j \in Conn, chat'[m].circuit[j].Active
      PROVE  IF j = k THEN m \in {c.from, c.to} /\ (c.is = "calling" => m = c.from)
                      ELSE Belongs(m, j)
  <2>1. CASE m = n
    BY <1>3, <1>5, <1>6, <1>7, <2>1, NodeFacts DEF Gains
  <2>2. CASE m # n
    BY <1>4, <1>6, <1>7, <2>2, NodeFacts
  <2> QED
    BY <2>1, <2>2
<1>8. ConnOK' /\ ToldOK' /\ EndsKnown'
  BY <1>1, <1>2, <1>3, <1>4, <1>7, ConnChanges DEF IInv
<1>9. WireOK'
  BY <1>1 DEF IInv, WireOK
<1> QED
  BY <1>6, <1>8, <1>9 DEF IInv

LEMMA ConnectOkInv ==
  ASSUME IInv, NEW k \in Conn, ConnectOk(k)
  PROVE  IInv'
<1> DEFINE n == conn[k].to
           p == conn[k].from
           c == [conn[k] EXCEPT !.is = "open"]
           s == [chat[n] EXCEPT !.circuit[k] = Circuit("linkwait", p)]
           q == << << Line("RTL", p, n, deftopic) >> >>
<1>1. /\ conn[k].is = "calling" /\ conn' = [conn EXCEPT ![k] = c] /\ told' = told
      /\ wire' = [wire EXCEPT ![k] = [wire[k] EXCEPT ![n] = q]]
      /\ chat' = [chat EXCEPT ![n] = s]
  <2>1. wire' = [wire EXCEPT ![k][n] = q]
    BY DEF ConnectOk
  <2>2. wire' = [wire EXCEPT ![k] = [wire[k] EXCEPT ![n] = q]]
    BY <2>1 DEF IInv, WireOK
  <2>3. chat' = [chat EXCEPT ![n].circuit[k] = Circuit("linkwait", p)]
    BY DEF ConnectOk
  <2>4. chat' = [chat EXCEPT ![n] = s]
    BY <2>3
  <2>5. conn[k].is = "calling" /\ conn' = [conn EXCEPT ![k] = c] /\ told' = told
    BY DEF ConnectOk
  <2> QED
    BY <2>2, <2>4, <2>5
<1>2. conn[k] \in ConnSet /\ n \in Node /\ p \in Node /\ p # n
  BY <1>1, ConnFacts DEF IInv
<1>3. c \in ConnSet /\ c.from = p /\ c.to = n /\ c.is = "open"
  BY <1>2 DEF ConnSet
<1>4. told[k] = {}
  BY <1>1 DEF IInv, ToldOK
<1>5. ~chat[n].circuit[k].Active
  BY <1>1, <1>2, NodeFacts DEF Belongs
<1>6. q \in Seq(Seq(LineSet))
  <2>1. Line("RTL", p, n, deftopic) \in LineSet
    <3>1. "RTL" \in LineKind
      BY DEF LineKind
    <3> QED
      BY <1>2, <3>1, LineTypes, ChatAssumption
  <2> QED
    BY <2>1
<1>7. WireOK'
  <2> HIDE DEF q, n
  <2> QED
    BY <1>1, <1>6 DEF IInv, WireOK
<1>8. \A m \in Node : chat[m].circuit[k].Active => m \in {p, n}
  BY NodeFacts DEF Belongs, End
<1> HIDE DEF n, p, c, q
<1>9. Gains(chat[n], s, k) /\ Good(s)
  <2>1. Good(chat[n]) /\ k \notin Listed(chat[n])
    BY <1>2, <1>5, NodeFacts, ListedFacts
  <2> QED
    BY <1>2, <2>1, WaitGains DEF Gains
<1> HIDE DEF s
<1>10. ChatGood' /\ chat'[n] = s /\ \A m \in Node : m # n => chat'[m] = chat[m]
  BY <1>1, <1>2, <1>9, ChatSet
<1>11. ASSUME NEW m \in Node, NEW j \in Conn, chat'[m].circuit[j].Active
       PROVE  IF j = k THEN m \in {c.from, c.to} /\ (c.is = "calling" => m = c.from)
                       ELSE Belongs(m, j)
  <2>1. CASE m = n
    BY <1>3, <1>9, <1>10, <1>11, <2>1, NodeFacts DEF Gains
  <2>2. CASE m # n
    BY <1>3, <1>8, <1>10, <1>11, <2>2, NodeFacts
  <2> QED
    BY <2>1, <2>2
<1>12. ConnOK' /\ ToldOK' /\ EndsKnown'
  BY <1>1, <1>2, <1>3, <1>4, <1>11, ConnChanges DEF IInv
<1> QED
  BY <1>7, <1>10, <1>12 DEF IInv

LEMMA DisconnectedInv ==
  ASSUME IInv, NEW k \in Conn, NEW n \in Node, Disconnected(k, n)
  PROVE  IInv'
<1> DEFINE s == ChatDisconnected(chat[n], k)
           t == [s EXCEPT !.out = Fresh(n).out]
           K == {k}
           ends == [c \in K |-> told[c] \ {n}]
<1>1. /\ n \in told[k] /\ chat' = [chat EXCEPT ![n] = t] /\ Ends(K, ends)
      /\ wire' = [c \in Conn |->
                IF c \in Open /\ s.out[c] # << >>
                THEN [wire[c] EXCEPT ![Other(c, n)] = Append(@, s.out[c])] ELSE wire[c]]
  BY DEF Disconnected
<1>2. Loses(chat[n], s) /\ Good(s) /\ ~s.circuit[k].Active
  BY NodeFacts, ChatDisconnectedLoses DEF Loses
<1> HIDE DEF s
<1>3. Good(t) /\ t.circuit = s.circuit
  BY <1>2, EmptiedGood
<1> HIDE DEF t
<1>4. ChatGood' /\ chat'[n] = t /\ \A m \in Node : m # n => chat'[m] = chat[m]
  BY <1>1, <1>3, ChatSet
<1>5. conn[k] \in ConnSet /\ conn[k].is = "over"
  BY <1>1 DEF IInv, ToldOK
<1>6. K \in SUBSET Conn /\ \A c \in K : conn[c] \in ConnSet /\ ends[c] \in SUBSET Node
  BY <1>5 DEF IInv, ToldOK
<1>7. ASSUME NEW m \in Node, NEW c \in Conn, chat'[m].circuit[c].Active
      PROVE  IF c \in K THEN m \in ends[c] /\ m \in End(c) ELSE Belongs(m, c)
  <2>1. CASE m = n
    <3>1. c # k /\ chat[n].circuit[c].Active
      BY <1>2, <1>3, <1>4, <1>7, <2>1 DEF Loses
    <3> QED
      BY <2>1, <3>1, NodeFacts
  <2>2. CASE m # n
    <3>1. Belongs(m, c)
      BY <1>4, <1>7, <2>2, NodeFacts
    <3> QED
      BY <1>5, <2>2, <3>1 DEF Belongs
  <2> QED
    BY <2>1, <2>2
<1> HIDE DEF K, ends
<1>8. ConnOK' /\ ToldOK' /\ EndsKnown'
  BY <1>1, <1>6, <1>7, EndsOK DEF IInv
<1>9. WireOK'
  <2>1. \A c \in Conn : wire[c] \in [Node -> Seq(Seq(LineSet))] /\ s.out[c] \in Seq(LineSet)
    BY <1>2, StateFields DEF IInv, WireOK, Good
  <2>2. ASSUME NEW c \in Conn
        PROVE  wire'[c] \in [Node -> Seq(Seq(LineSet))]
    <3>1. [wire[c] EXCEPT ![Other(c, n)] = Append(@, s.out[c])] \in [Node -> Seq(Seq(LineSet))]
      BY <2>1, AppendedType
    <3> QED
      BY <1>1, <2>1, <3>1
  <2> QED
    BY <1>1, <2>2 DEF WireOK
<1> QED
  BY <1>4, <1>8, <1>9 DEF IInv

LEMMA BreakInv ==
  ASSUME IInv, NEW k \in Conn, Break(k)
  PROVE  IInv'
<1> DEFINE K == {k}
           ends == [c \in K |-> {n \in End(c) : chat[n].circuit[c].Active}]
<1>1. /\ conn[k].is = "open" /\ Ends(K, ends) /\ chat' = chat
      /\ wire' = [wire EXCEPT ![k] = [n \in Node |-> << >>]]
  BY DEF Break, Open
<1>2. conn[k] \in ConnSet /\ End(k) \subseteq Node
  BY <1>1, ConnFacts DEF IInv
<1>3. K \in SUBSET Conn /\ \A c \in K : conn[c] \in ConnSet /\ ends[c] \in SUBSET Node
  BY <1>2
<1>4. ASSUME NEW m \in Node, NEW c \in Conn, chat'[m].circuit[c].Active
      PROVE  IF c \in K THEN m \in ends[c] /\ m \in End(c) ELSE Belongs(m, c)
  <2>1. Belongs(m, c) /\ chat[m].circuit[c].Active
    BY <1>1, <1>4, NodeFacts
  <2> QED
    BY <2>1 DEF Belongs
<1> HIDE DEF K, ends
<1>5. ConnOK' /\ ToldOK' /\ EndsKnown'
  BY <1>1, <1>3, <1>4, EndsOK DEF IInv
<1>6. WireOK'
  BY <1>1, EmptyType DEF IInv, WireOK
<1>7. ChatGood'
  BY <1>1 DEF IInv, ChatGood
<1> QED
  BY <1>5, <1>6, <1>7 DEF IInv

LEMMA RestartInv ==
  ASSUME IInv, NEW n \in Node, Restart(n)
  PROVE  IInv'
<1> DEFINE K == {k \in Conn : conn[k] # Unused /\ n \in End(k)}
           Left(k) == IF conn[k].is = "over" THEN told[k] \ {n}
                      ELSE {m \in End(k) \ {n} : chat[m].circuit[k].Active}
           ends == [k \in K |-> Left(k)]
           s == Fresh(n)
<1>1. /\ Ends(K, ends) /\ chat' = [chat EXCEPT ![n] = s]
      /\ wire' = [k \in Conn |-> IF k \in K THEN [m \in Node |-> << >>] ELSE wire[k]]
  BY DEF Restart
<1>2. Good(s) /\ \A k \in Conn : ~s.circuit[k].Active
  BY FreshGood
<1> HIDE DEF s
<1>3. ChatGood' /\ chat'[n] = s /\ \A m \in Node : m # n => chat'[m] = chat[m]
  BY <1>1, <1>2, ChatSet
<1>4. K \in SUBSET Conn /\ \A k \in K : conn[k] \in ConnSet /\ End(k) \subseteq Node
  BY ConnFacts DEF IInv
<1>5. \A k \in K : ends[k] = Left(k) /\ ends[k] \in SUBSET Node
  BY <1>4 DEF IInv, ToldOK
<1>6. ASSUME NEW m \in Node, NEW k \in Conn, chat'[m].circuit[k].Active
      PROVE  IF k \in K THEN m \in ends[k] /\ m \in End(k) ELSE Belongs(m, k)
  <2>1. m # n /\ chat[m].circuit[k].Active /\ Belongs(m, k)
    <3>1. m # n
      BY <1>2, <1>3, <1>6
    <3> QED
      BY <1>3, <1>6, <3>1, NodeFacts
  <2>2. m \in Left(k) /\ m \in End(k)
    BY <2>1 DEF Belongs
  <2> HIDE DEF K, Left, ends
  <2> QED
    BY <1>5, <2>1, <2>2
<1> HIDE DEF K, ends
<1>7. ConnOK' /\ ToldOK' /\ EndsKnown'
  BY <1>1, <1>4, <1>5, <1>6, EndsOK DEF IInv
<1>8. WireOK'
  BY <1>1, EmptyType DEF IInv, WireOK
<1> QED
  BY <1>3, <1>7, <1>8 DEF IInv

LEMMA NextInv == IInv /\ [Next]_vars => IInv'
<1> SUFFICES ASSUME IInv, [Next]_vars
             PROVE  IInv'
  OBVIOUS
<1>1. CASE \E n \in Node, u \in User : Login(n, u)
  BY <1>1, LoginInv
<1>2. CASE \E n \in Node : \E r \in chat[n].user : Logout(n, r)
  BY <1>2, LogoutInv
<1>3. CASE \E n \in Node : \E r \in chat[n].user, t \in Topic : ChangeTopic(n, r, t)
  BY <1>3, ChangeTopicInv
<1>4. CASE \E n, p \in Node : MakeLinks(n, p)
  BY <1>4, MakeLinksInv
<1>5. CASE \E n \in Node : CloseLinks(n) \/ Restart(n)
  BY <1>5, CloseLinksInv, RestartInv
<1>6. CASE \E k \in Conn : ConnectFails(k) \/ Break(k)
  BY <1>6, ConnectFailsInv, BreakInv
<1>7. CASE LinksMove
  BY <1>7, ConnectOkInv, ReceiveInv, DisconnectedInv DEF LinksMove
<1>8. CASE UNCHANGED vars
  <2>1. chat' = chat /\ conn' = conn /\ wire' = wire /\ told' = told
    BY <1>8 DEF vars
  <2>2. ChatGood' /\ ConnOK' /\ WireOK' /\ ToldOK'
    BY <2>1 DEF IInv, ChatGood, ConnOK, WireOK, ToldOK
  <2>3. EndsKnown'
    BY <2>1, Zenon DEF IInv, EndsKnown, Belongs, End
  <2> QED
    BY <2>2, <2>3 DEF IInv
<1> QED
  BY <1>1, <1>2, <1>3, <1>4, <1>5, <1>6, <1>7, <1>8 DEF Next

-----------------------------------------------------------------------------
(* The theorems, for any partners.                                        *)

\* Whatever nodes there are, whoever is whose partner and whatever goes wrong: a
\* circuit in use belongs to a connection of which its node is an end (the caller,
\* while the call is made), and which is open, or over and the node yet to be told;
\* connections that are over, and only those, have ends to be told; what is on the
\* wire are packets of lines; and each node has the links it has marked.
THEOREM Invariance == Spec => []IInv
<1>1. Init => IInv
  BY InitInv
<1>2. IInv /\ [Next]_vars => IInv'
  BY NextInv
<1> QED
  BY <1>1, <1>2, PTL DEF Spec

\* FlagsMatch: a node that has marked the link to a partner as being set up or as
\* linked has a circuit for it, so that ChatTimer, which calls only partners that are
\* not marked (makelinks), is not kept from calling one for good.  It holds after
\* every handler, also where two calls cross and the older link is replaced, where a
\* call fails and where a partner starts again.
THEOREM FlagsStayMatched == Spec => []FlagsMatch
  BY Invariance, InvFlags, PTL

-----------------------------------------------------------------------------
(* Forests of partners.                                                    *)

LEMMA PartnerFacts ==
  ASSUME NEW m \in Node, NEW p \in Partner[m]
  PROVE  p \in Node /\ p # m /\ m \in Partner[p]
  BY NetAssumption

\* A side is closed under partners other than m, and the least such set.
LEMMA SideClosed ==
  ASSUME NEW m \in Node, NEW p \in Partner[m]
  PROVE  /\ p \in Side(m, p) /\ m \notin Side(m, p) /\ Side(m, p) \subseteq Node
         /\ \A a \in Side(m, p) : \A b \in Partner[a] : b # m => b \in Side(m, p)
<1>1. p \in Side(m, p) /\ Side(m, p) \subseteq Node
  BY PartnerFacts DEF Side
<1>2. m \notin Side(m, p)
  <2> DEFINE N == Node \ {m}
  <2>1. p \in N /\ N \in SUBSET Node /\ \A a \in N : Partner[a] \ {m} \subseteq N
    BY PartnerFacts, NetAssumption
  <2>2. m \notin N
    OBVIOUS
  <2> HIDE DEF N
  <2> QED
    BY <2>1, <2>2 DEF Side
<1>3. ASSUME NEW a \in Side(m, p), NEW b \in Partner[a], b # m
      PROVE  b \in Side(m, p)
  <2>1. a \in Node /\ b \in Node
    BY <1>1, NetAssumption
  <2>2. ASSUME NEW N \in SUBSET Node, p \in N, \A c \in N : Partner[c] \ {m} \subseteq N
        PROVE  b \in N
    <3>1. a \in N
      BY <2>2 DEF Side
    <3> QED
      BY <1>3, <2>2, <3>1
  <2> QED
    BY <2>1, <2>2 DEF Side
<1> QED
  BY <1>1, <1>2, <1>3

LEMMA SideLeast ==
  ASSUME NEW m \in Node, NEW p, NEW N \in SUBSET Node, p \in N,
         \A a \in N : Partner[a] \ {m} \subseteq N
  PROVE  Side(m, p) \subseteq N
  BY DEF Side

\* What a node reaches by a partner q, the other partners reach by the node.
LEMMA SideBeyond ==
  ASSUME Forest, NEW m \in Node, NEW p \in Partner[m], NEW q \in Partner[p], q # m
  PROVE  Side(p, q) \subseteq Side(m, p)
<1> DEFINE N == Side(m, p) \cap Side(p, q)
<1>1. p \in Node /\ m \in Partner[p]
  BY PartnerFacts
<1>2. m \notin Side(p, q)
  BY <1>1 DEF Forest
<1>3. q \in N /\ N \in SUBSET Node
  BY <1>1, SideClosed
<1>4. ASSUME NEW a \in N, NEW b \in Partner[a] \ {p}
      PROVE  b \in N
  <2>1. b \in Side(p, q)
    BY <1>1, SideClosed
  <2>2. b # m
    BY <1>2, <2>1
  <2> QED
    BY <2>1, <2>2, SideClosed
<1>5. Side(p, q) \subseteq N
  <2> HIDE DEF N
  <2> QED
    BY <1>1, <1>3, <1>4, SideLeast
<1> QED
  BY <1>5

LEMMA SidesApart ==
  ASSUME Forest, NEW m \in Node, NEW p \in Partner[m], NEW q \in Partner[m], p # q
  PROVE  Side(m, p) \cap Side(m, q) = {}
<1> DEFINE N == Side(m, p) \ Side(m, q)
<1>1. p \in N /\ N \in SUBSET Node
  BY SideClosed DEF Forest
<1>2. ASSUME NEW a \in N, NEW b \in Partner[a] \ {m}
      PROVE  b \in N
  <2>1. b \in Side(m, p) /\ a \in Node /\ a # m
    BY SideClosed
  <2>2. a \in Partner[b] /\ b \in Node
    BY <2>1, PartnerFacts
  <2>3. b \notin Side(m, q)
    BY <2>1, <2>2, SideClosed
  <2> QED
    BY <2>1, <2>3
<1>3. Side(m, p) \subseteq N
  <2> HIDE DEF N
  <2> QED
    BY <1>1, <1>2, SideLeast
<1> QED
  BY <1>3

-----------------------------------------------------------------------------
(* What a partner has been told.                                           *)

Pair == [call : Node \cup User, node : Node]
UserOf(l) == [call |-> l.about, node |-> l.node]

\* Who has heard of the users X has heard of at most Y with line l, which takes no
\* node away that has users in X.
Hears(X, l, Y) ==
    /\ l.kind = "join" => X \cup {UserOf(l)} \subseteq Y
    /\ l.kind = "leave" => X \ {UserOf(l)} \subseteq Y
    /\ l.kind \notin {"join", "leave"} => X \subseteq Y
    /\ l.kind = "unlink" => \A u \in X : u.node # l.about

\* The same of lines, one after the other, and of packets of them.
HearsAll(M, X, lines, Y) ==
    /\ M \in [0 .. Len(lines) -> SUBSET Pair]
    /\ X \subseteq M[0] /\ M[Len(lines)] \subseteq Y
    /\ \A j \in 1 .. Len(lines) : Hears(M[j - 1], lines[j], M[j])
Told(X, lines, Y) == \E M : HearsAll(M, X, lines, Y)

TakesAll(M, X, packets, Y) ==
    /\ M \in [0 .. Len(packets) -> SUBSET Pair]
    /\ X \subseteq M[0] /\ M[Len(packets)] \subseteq Y
    /\ \A j \in 1 .. Len(packets) : Told(M[j - 1], packets[j], M[j])
Carried(X, packets, Y) == \E M : TakesAll(M, X, packets, Y)

LEMMA HearsLess ==
  ASSUME NEW X, NEW l, NEW Y, Hears(X, l, Y), NEW W, W \subseteq X
  PROVE  Hears(W, l, Y)
  BY DEF Hears

LEMMA ToldNothing ==
  ASSUME NEW Y \in SUBSET Pair, NEW X, X \subseteq Y
  PROVE  Told(X, << >>, Y)
<1> DEFINE M == [j \in {0} |-> Y]
<1>1. Len(<< >>) = 0 /\ 0 .. 0 = {0} /\ 1 .. 0 = {}
  OBVIOUS
<1>2. M \in [{0} -> SUBSET Pair] /\ M[0] = Y
  OBVIOUS
<1> HIDE DEF M
<1>3. HearsAll(M, X, << >>, Y)
  BY <1>1, <1>2 DEF HearsAll
<1> QED
  BY <1>3 DEF Told

LEMMA ToldNothingMore ==
  ASSUME NEW Y, NEW X, Told(X, << >>, Y)
  PROVE  X \subseteq Y
<1>1. PICK M : HearsAll(M, X, << >>, Y)
  BY DEF Told
<1>2. Len(<< >>) = 0
  OBVIOUS
<1> QED
  BY <1>1, <1>2 DEF HearsAll

LEMMA ToldWeaker ==
  ASSUME NEW X, NEW lines, NEW Y, Told(X, lines, Y), NEW W, NEW Z, W \subseteq X, Y \subseteq Z
  PROVE  Told(W, lines, Z)
<1>1. PICK M : HearsAll(M, X, lines, Y)
  BY DEF Told
<1>2. HearsAll(M, W, lines, Z)
  BY <1>1 DEF HearsAll
<1> QED
  BY <1>2 DEF Told

\* One more line.
LEMMA ToldMore ==
  ASSUME NEW X, NEW lines \in Seq(LineSet), NEW Y, Told(X, lines, Y),
         NEW l, NEW Z \in SUBSET Pair, Hears(Y, l, Z)
  PROVE  Told(X, Append(lines, l), Z)
<1>1. PICK M : HearsAll(M, X, lines, Y)
  BY DEF Told
<1> DEFINE n == Len(lines)
           more == Append(lines, l)
           N == [j \in 0 .. n + 1 |-> IF j <= n THEN M[j] ELSE Z]
<1>2. n \in Nat /\ Len(more) = n + 1 /\ more[n + 1] = l /\ \A j \in 1 .. n : more[j] = lines[j]
  OBVIOUS
<1> HIDE DEF n, more
<1>3. /\ M \in [0 .. n -> SUBSET Pair] /\ X \subseteq M[0] /\ M[n] \subseteq Y
      /\ \A j \in 1 .. n : Hears(M[j - 1], lines[j], M[j])
  BY <1>1 DEF HearsAll, n
<1>4. N \in [0 .. n + 1 -> SUBSET Pair] /\ N[0] = M[0] /\ N[n + 1] = Z /\ N[n] = M[n]
  BY <1>2, <1>3
<1>5. ASSUME NEW j \in 1 .. n + 1
      PROVE  Hears(N[j - 1], more[j], N[j])
  <2>1. CASE j = n + 1
    <3>1. j - 1 = n
      BY <1>2, <2>1
    <3> HIDE DEF N
    <3> QED
      BY <1>2, <1>3, <1>4, <2>1, <3>1, HearsLess
  <2>2. CASE j # n + 1
    <3>1. j \in 1 .. n /\ N[j - 1] = M[j - 1] /\ N[j] = M[j]
      BY <1>2, <2>2
    <3> HIDE DEF N
    <3> QED
      BY <1>2, <1>3, <3>1
  <2> QED
    BY <2>1, <2>2
<1> HIDE DEF N
<1>6. HearsAll(N, X, more, Z)
  BY <1>2, <1>3, <1>4, <1>5 DEF HearsAll
<1> QED
  BY <1>6 DEF Told, more

LEMMA CarriedNothing ==
  ASSUME NEW Y \in SUBSET Pair, NEW X, X \subseteq Y
  PROVE  Carried(X, << >>, Y)
<1> DEFINE M == [j \in {0} |-> Y]
<1>1. Len(<< >>) = 0 /\ 0 .. 0 = {0} /\ 1 .. 0 = {}
  OBVIOUS
<1>2. M \in [{0} -> SUBSET Pair] /\ M[0] = Y
  OBVIOUS
<1> HIDE DEF M
<1>3. TakesAll(M, X, << >>, Y)
  BY <1>1, <1>2 DEF TakesAll
<1> QED
  BY <1>3 DEF Carried

LEMMA CarriedWeaker ==
  ASSUME NEW X, NEW packets, NEW Y, Carried(X, packets, Y),
         NEW W, NEW Z, W \subseteq X, Y \subseteq Z
  PROVE  Carried(W, packets, Z)
<1>1. PICK M : TakesAll(M, X, packets, Y)
  BY DEF Carried
<1>2. TakesAll(M, W, packets, Z)
  BY <1>1 DEF TakesAll
<1> QED
  BY <1>2 DEF Carried

\* One more packet.
LEMMA CarriedMore ==
  ASSUME NEW X, NEW packets \in Seq(Seq(LineSet)), NEW Y, Carried(X, packets, Y),
         NEW lines, NEW Z \in SUBSET Pair, Told(Y, lines, Z)
  PROVE  Carried(X, Append(packets, lines), Z)
<1>1. PICK M : TakesAll(M, X, packets, Y)
  BY DEF Carried
<1> DEFINE n == Len(packets)
           more == Append(packets, lines)
           N == [j \in 0 .. n + 1 |-> IF j <= n THEN M[j] ELSE Z]
<1>2. n \in Nat /\ Len(more) = n + 1 /\ more[n + 1] = lines
      /\ \A j \in 1 .. n : more[j] = packets[j]
  OBVIOUS
<1> HIDE DEF n, more
<1>3. /\ M \in [0 .. n -> SUBSET Pair] /\ X \subseteq M[0] /\ M[n] \subseteq Y
      /\ \A j \in 1 .. n : Told(M[j - 1], packets[j], M[j])
  BY <1>1 DEF TakesAll, n
<1>4. N \in [0 .. n + 1 -> SUBSET Pair] /\ N[0] = M[0] /\ N[n + 1] = Z /\ N[n] = M[n]
  BY <1>2, <1>3
<1>5. ASSUME NEW j \in 1 .. n + 1
      PROVE  Told(N[j - 1], more[j], N[j])
  <2>1. CASE j = n + 1
    <3>1. j - 1 = n
      BY <1>2, <2>1
    <3>2. Told(M[n], lines, Z)
      BY <1>3, ToldWeaker
    <3> HIDE DEF N
    <3> QED
      BY <1>2, <1>4, <2>1, <3>1, <3>2
  <2>2. CASE j # n + 1
    <3>1. j \in 1 .. n /\ N[j - 1] = M[j - 1] /\ N[j] = M[j]
      BY <1>2, <2>2
    <3> HIDE DEF N
    <3> QED
      BY <1>2, <1>3, <3>1
  <2> QED
    BY <2>1, <2>2
<1> HIDE DEF N
<1>6. TakesAll(N, X, more, Z)
  BY <1>2, <1>3, <1>4, <1>5 DEF TakesAll
<1> QED
  BY <1>6 DEF Carried, more

\* The first packet is taken.
LEMMA CarriedFirst ==
  ASSUME NEW X, NEW packets \in Seq(Seq(LineSet)), packets # << >>, NEW Y, Carried(X, packets, Y)
  PROVE  \E Z \in SUBSET Pair : Told(X, Head(packets), Z) /\ Carried(Z, Tail(packets), Y)
<1>1. PICK M : TakesAll(M, X, packets, Y)
  BY DEF Carried
<1> DEFINE n == Len(packets)
           rest == Tail(packets)
           N == [j \in 0 .. n - 1 |-> M[j + 1]]
<1>2. n \in Nat /\ n >= 1 /\ Len(rest) = n - 1 /\ Head(packets) = packets[1]
      /\ \A j \in 1 .. n - 1 : rest[j] = packets[j + 1]
  OBVIOUS
<1> HIDE DEF n, rest
<1>3. /\ M \in [0 .. n -> SUBSET Pair] /\ X \subseteq M[0] /\ M[n] \subseteq Y
      /\ \A j \in 1 .. n : Told(M[j - 1], packets[j], M[j])
  BY <1>1 DEF TakesAll, n
<1>4. N \in [0 .. n - 1 -> SUBSET Pair] /\ N[0] = M[1] /\ N[n - 1] = M[n]
  BY <1>2, <1>3
<1>5. ASSUME NEW j \in 1 .. n - 1
      PROVE  Told(N[j - 1], rest[j], N[j])
  <2>1. j + 1 \in 1 .. n /\ (j + 1) - 1 = j
    BY <1>2
  <2>2. N[j - 1] = M[j] /\ N[j] = M[j + 1]
    BY <1>2
  <2> HIDE DEF N
  <2> QED
    BY <1>2, <1>3, <2>1, <2>2
<1> HIDE DEF N
<1>6. TakesAll(N, M[1], rest, Y)
  BY <1>2, <1>3, <1>4, <1>5 DEF TakesAll
<1>7. Told(X, Head(packets), M[1])
  <2>1. 1 \in 1 .. n /\ 1 - 1 = 0
    BY <1>2
  <2>2. Told(M[0], packets[1], M[1])
    BY <1>3, <2>1
  <2> QED
    BY <1>2, <1>3, <2>2, ToldWeaker
<1>8. M[1] \in SUBSET Pair
  BY <1>2, <1>3
<1> QED
  BY <1>6, <1>7, <1>8 DEF Carried, rest

-----------------------------------------------------------------------------
(* What the handlers' parts do.                                            *)

\* t is s but for what it says.
SameButOut(s, t) ==
    /\ t.me = s.me /\ t.flags = s.flags /\ t.circuit = s.circuit /\ t.node = s.node
    /\ t.user = s.user /\ t.shut = s.shut

LEMMA SendFields ==
  ASSUME NEW s \in State, NEW K, NEW l
  PROVE  /\ SameButOut(s, Send(s, K, l))
         /\ \A k \in Conn : Send(s, K, l).out[k] = IF k \in K THEN Append(s.out[k], l)
                                                             ELSE s.out[k]
  BY DEF Send, State, SameButOut

LEMMA NodeDecFields ==
  ASSUME NEW s \in State, NEW n \in Node
  PROVE  LET t == node_dec(s, n)
         IN  /\ t.me = s.me /\ t.flags = s.flags /\ t.circuit = s.circuit /\ t.user = s.user
             /\ t.out = s.out /\ t.shut = s.shut
             /\ \A m \in Node : m # n => t.node[m] = s.node[m]
             /\ s.node[n] # 1 => t.node[n] = s.node[n] - 1
             /\ s.node[n] = 1 => t.node[n] = Cardinality({r \in s.user : r.node = n})
                                   + Cardinality({k \in Linked(s) : cn_find(s, k, n)})
<1>1. CASE s.node[n] # 1
  BY <1>1 DEF node_dec, State
<1>2. CASE s.node[n] = 1
  <2> DEFINE i == Cardinality({r \in s.user : r.node = n})
                    + Cardinality({k \in Linked(s) : cn_find(s, k, n)})
  <2>1. node_dec(s, n) = [s EXCEPT !.node[n] = i]
    BY <1>2 DEF node_dec
  <2> HIDE DEF i
  <2>2. LET t == [s EXCEPT !.node[n] = i]
        IN  /\ t.me = s.me /\ t.flags = s.flags /\ t.circuit = s.circuit /\ t.user = s.user
            /\ t.out = s.out /\ t.shut = s.shut
            /\ \A m \in Node : m # n => t.node[m] = s.node[m]
            /\ t.node[n] = i
    BY DEF State
  <2> QED
    BY <1>2, <2>1, <2>2 DEF i
<1> QED
  BY <1>1, <1>2

\* One count of a circuit up or down.
SameButHnode(s, t, k, n, i) ==
    /\ t.me = s.me /\ t.flags = s.flags /\ t.user = s.user /\ t.out = s.out /\ t.shut = s.shut
    /\ \A j \in Conn : /\ j # k => t.circuit[j] = s.circuit[j]
                       /\ SameLink(s.circuit[j], t.circuit[j])
                       /\ t.circuit[j].refcnt = s.circuit[j].refcnt
    /\ \A m \in Node : t.circuit[k].hnode[m] = s.circuit[k].hnode[m] + IF m = n THEN i ELSE 0

LEMMA HnodeFields ==
  ASSUME NEW s \in State, NEW k \in Conn, NEW n \in Node
  PROVE  /\ SameButHnode(s, [s EXCEPT !.circuit[k].hnode[n] = @ + 1], k, n, 1)
         /\ SameButHnode(s, [s EXCEPT !.circuit[k].hnode[n] = @ - 1], k, n, -1)
         /\ [s EXCEPT !.circuit[k].hnode[n] = @ + 1].node = s.node
         /\ [s EXCEPT !.circuit[k].hnode[n] = @ - 1].node = s.node
<1>1. s.circuit \in [Conn -> CircuitSet] /\ s.circuit[k].hnode \in [Node -> Int]
  BY StateFields, CircuitFields
<1>2. ASSUME NEW i \in Int
      PROVE  LET h == [s.circuit[k].hnode EXCEPT ![n] = s.circuit[k].hnode[n] + i]
                 t == [s EXCEPT !.circuit[k].hnode = h]
             IN  /\ SameButHnode(s, t, k, n, i) /\ t.node = s.node
  <2> DEFINE h == [s.circuit[k].hnode EXCEPT ![n] = s.circuit[k].hnode[n] + i]
             d == [s.circuit[k] EXCEPT !.hnode = h]
             t == [s EXCEPT !.circuit[k].hnode = h]
  <2>1. h \in [Node -> Int] /\ \A m \in Node : h[m] = s.circuit[k].hnode[m] + IF m = n THEN i ELSE 0
    BY <1>1, <1>2
  <2> HIDE DEF h
  <2>2. SameLink(s.circuit[k], d)
    BY <1>1, <2>1, CircuitCounts
  <2>3. d.hnode = h /\ d.refcnt = s.circuit[k].refcnt
    BY <1>1 DEF CircuitSet, InUse, NotInUse
  <2>4. /\ t.me = s.me /\ t.flags = s.flags /\ t.user = s.user /\ t.out = s.out
        /\ t.shut = s.shut /\ t.node = s.node
        /\ t.circuit[k] = d /\ \A j \in Conn : j # k => t.circuit[j] = s.circuit[j]
    BY DEF State
  <2> HIDE DEF d, t
  <2>5. \A j \in Conn : SameLink(s.circuit[j], s.circuit[j])
    BY DEF SameLink
  <2> QED
    BY <2>1, <2>2, <2>3, <2>4, <2>5 DEF SameButHnode, t, h
<1>3. /\ [s EXCEPT !.circuit[k].hnode[n] = @ + 1] =
            [s EXCEPT !.circuit[k].hnode = [s.circuit[k].hnode EXCEPT ![n] = s.circuit[k].hnode[n] + 1]]
      /\ [s EXCEPT !.circuit[k].hnode[n] = @ - 1] =
            [s EXCEPT !.circuit[k].hnode = [s.circuit[k].hnode EXCEPT ![n] = s.circuit[k].hnode[n] + (-1)]]
  <2>1. s.circuit[k].hnode[n] - 1 = s.circuit[k].hnode[n] + (-1)
    BY <1>1
  <2> QED
    BY <2>1
<1>4. 1 \in Int /\ -1 \in Int
  OBVIOUS
<1>5. /\ SameButHnode(s, [s EXCEPT !.circuit[k].hnode[n] = @ + 1], k, n, 1)
      /\ [s EXCEPT !.circuit[k].hnode[n] = @ + 1].node = s.node
  BY <1>2, <1>3, <1>4
<1>6. /\ SameButHnode(s, [s EXCEPT !.circuit[k].hnode[n] = @ - 1], k, n, -1)
      /\ [s EXCEPT !.circuit[k].hnode[n] = @ - 1].node = s.node
  BY <1>2, <1>3, <1>4
<1> QED
  BY <1>5, <1>6

LEMMA CnIncFields ==
  ASSUME NEW s \in State, NEW k \in Conn, NEW n \in Node
  PROVE  LET t == cn_inc(s, k, n)
         IN  /\ SameButHnode(s, t, k, n, 1)
             /\ \A m \in Node : t.node[m] = s.node[m] + IF m = n THEN 1 ELSE 0
<1> DEFINE x == [s.node EXCEPT ![n] = @ + 1]
           a == [s EXCEPT !.node = x]
<1>1. x \in [Node -> Int] /\ \A m \in Node : x[m] = s.node[m] + IF m = n THEN 1 ELSE 0
  BY StateFields
<1>2. cn_inc(s, k, n) = [a EXCEPT !.circuit[k].hnode[n] = @ + 1]
  BY DEF cn_inc
<1> HIDE DEF x
<1>3. a \in State
  BY <1>1, UpdatesKeep DEF Keeps
<1>4. /\ a.node = x /\ a.circuit = s.circuit /\ a.me = s.me /\ a.flags = s.flags
      /\ a.user = s.user /\ a.out = s.out /\ a.shut = s.shut
  BY DEF State
<1> HIDE DEF a
<1>5. SameButHnode(a, cn_inc(s, k, n), k, n, 1) /\ cn_inc(s, k, n).node = x
  <2> DEFINE b == [a EXCEPT !.circuit[k].hnode[n] = @ + 1]
  <2>1. SameButHnode(a, b, k, n, 1) /\ b.node = a.node
    BY <1>3, HnodeFields
  <2> HIDE DEF b
  <2>2. cn_inc(s, k, n) = b
    BY <1>2 DEF b
  <2> QED
    BY <1>4, <2>1, <2>2
<1>6. SameButHnode(s, cn_inc(s, k, n), k, n, 1)
  BY <1>4, <1>5 DEF SameButHnode
<1> QED
  BY <1>1, <1>5, <1>6

LEMMA CnDecFields ==
  ASSUME NEW s \in State, NEW k \in Conn, NEW n \in Node, cn_find(s, k, n)
  PROVE  SameButHnode(s, cn_dec(s, k, n), k, n, -1) /\ cn_dec(s, k, n).node = s.node
  BY HnodeFields DEF cn_dec

-----------------------------------------------------------------------------
(* The tables of a node in a forest.  Q says with which partner each of its *)
(* linked circuits is.                                                      *)

UsersOf(s, n) == {r \in s.user : r.node = n}
Linking(s) == [k \in Linked(s) |-> s.circuit[k].link]

\* One circuit for a partner.
Links(me, Q) ==
    /\ me \in Node /\ DOMAIN Q \in SUBSET Conn
    /\ \A k \in DOMAIN Q : Q[k] \in Partner[me]
    /\ \A j, k \in DOMAIN Q : Q[j] = Q[k] => j = k

\* A user is here or on the circuit by which the user's node is reached, once.  The
\* references to a node are its users and, if it is another, the link.
Placed(s, Q) ==
    \A r \in s.user : IF r.circuit = Local THEN r.node = s.me
                      ELSE r.circuit \in DOMAIN Q /\ r.node \in Side(s.me, Q[r.circuit])
Single(s) == \A q, r \in s.user : q.call = r.call /\ q.node = r.node => q = r
Refs(s) == \A k \in Conn : s.circuit[k].refcnt = Cardinality(OnCircuit(s, k))
Known(s, Q, n) ==
    \/ s.node[n] = 0 /\ UsersOf(s, n) = {}
    \/ s.node[n] = 1 + Cardinality(UsersOf(s, n)) /\ \E k \in DOMAIN Q : n \in Side(s.me, Q[k])
Nodes(s, Q) ==
    /\ s.node[s.me] = Cardinality(UsersOf(s, s.me))
    /\ \A n \in Node \ {s.me} : Known(s, Q, n)

Tables(s, Q) ==
    s \in State /\ Links(s.me, Q) /\ Placed(s, Q) /\ Single(s) /\ Refs(s) /\ Nodes(s, Q)

\* The counts of a circuit are those of the nodes reached by it.
InStep(s, Q, k) ==
    \A n \in Node : s.circuit[k].hnode[n] =
        IF k \in DOMAIN Q /\ n \in Side(s.me, Q[k]) THEN s.node[n] ELSE 0

\* Everything counted, but perhaps a partner's node that is yet to be made known.
Steady(s) == Tables(s, Linking(s)) /\ \A k \in Conn : InStep(s, Linking(s), k)
Sound(s) == Steady(s) /\ \A k \in Linked(s) : s.node[s.circuit[k].link] # 0

LEMMA LinkingFacts ==
  ASSUME NEW s
  PROVE  /\ DOMAIN Linking(s) = Linked(s) /\ Linked(s) \in SUBSET Conn
         /\ \A k \in Linked(s) : Linking(s)[k] = s.circuit[k].link
         /\ \A k \in Conn : k \in Linked(s) <=> s.circuit[k].rtcflags = "linked"
  BY DEF Linking, Linked

LEMMA OneSide ==
  ASSUME Forest, NEW me, NEW Q, Links(me, Q), NEW j \in DOMAIN Q, NEW k \in DOMAIN Q, j # k
  PROVE  Side(me, Q[j]) \cap Side(me, Q[k]) = {}
<1>1. me \in Node /\ Q[j] \in Partner[me] /\ Q[k] \in Partner[me] /\ Q[j] # Q[k]
  BY DEF Links
<1> QED
  BY <1>1, SidesApart

\* What a node tells a partner of is on the node's side for the partner.
LEMMA OtherSide ==
  ASSUME Forest, NEW me, NEW Q, Links(me, Q), NEW k \in DOMAIN Q
  PROVE  /\ me \notin Side(me, Q[k]) /\ me \in Side(Q[k], me)
         /\ \A j \in DOMAIN Q : j # k => Side(me, Q[j]) \subseteq Side(Q[k], me)
<1>1. me \in Node /\ Q[k] \in Partner[me] /\ Q[k] \in Node /\ me \in Partner[Q[k]]
  BY PartnerFacts DEF Links
<1>2. \A j \in DOMAIN Q : j # k => Q[j] \in Partner[me] /\ Q[j] # Q[k]
  BY DEF Links
<1> QED
  BY <1>1, <1>2, SideClosed, SideBeyond

LEMMA UserSets ==
  ASSUME NEW s \in State
  PROVE  /\ \A n : IsFiniteSet(UsersOf(s, n)) /\ Cardinality(UsersOf(s, n)) \in Nat
         /\ \A k : IsFiniteSet(OnCircuit(s, k)) /\ Cardinality(OnCircuit(s, k)) \in Nat
         /\ \A n : Cardinality(UsersOf(s, n)) = 0 <=> UsersOf(s, n) = {}
<1>1. IsFiniteSet(s.user)
  BY StateFields
<1>2. \A n : UsersOf(s, n) \subseteq s.user
  BY DEF UsersOf
<1>3. \A k : OnCircuit(s, k) \subseteq s.user
  BY DEF OnCircuit
<1>4. \A n : IsFiniteSet(UsersOf(s, n)) /\ Cardinality(UsersOf(s, n)) \in Nat
  BY <1>1, <1>2, FS_Subset, FS_CardinalityType
<1>5. \A k : IsFiniteSet(OnCircuit(s, k)) /\ Cardinality(OnCircuit(s, k)) \in Nat
  BY <1>1, <1>3, FS_Subset, FS_CardinalityType
<1> QED
  BY <1>4, <1>5, FS_EmptySet

\* A user more.
LEMMA UserMore ==
  ASSUME NEW s \in State, NEW t, NEW r, r \notin s.user, t.user = s.user \cup {r}
  PROVE  /\ \A n : Cardinality(UsersOf(t, n)) =
                     Cardinality(UsersOf(s, n)) + IF n = r.node THEN 1 ELSE 0
         /\ \A k : Cardinality(OnCircuit(t, k)) =
                     Cardinality(OnCircuit(s, k)) + IF k = r.circuit THEN 1 ELSE 0
<1>1. \A n : UsersOf(t, n) = IF n = r.node THEN UsersOf(s, n) \cup {r} ELSE UsersOf(s, n)
  BY DEF UsersOf
<1>2. \A k : OnCircuit(t, k) = IF k = r.circuit THEN OnCircuit(s, k) \cup {r} ELSE OnCircuit(s, k)
  BY DEF OnCircuit
<1>3. \A n : r \notin UsersOf(s, n) /\ r \notin OnCircuit(s, n)
  BY DEF UsersOf, OnCircuit
<1>4. \A n : Cardinality(UsersOf(s, n) \cup {r}) = Cardinality(UsersOf(s, n)) + 1
  BY <1>3, UserSets, FS_AddElement
<1>5. \A k : Cardinality(OnCircuit(s, k) \cup {r}) = Cardinality(OnCircuit(s, k)) + 1
  BY <1>3, UserSets, FS_AddElement
<1>6. \A n : Cardinality(UsersOf(s, n)) \in Nat /\ Cardinality(OnCircuit(s, n)) \in Nat
  BY UserSets
<1> QED
  BY <1>1, <1>2, <1>4, <1>5, <1>6

LEMMA UserLess ==
  ASSUME NEW s \in State, NEW t, NEW r \in s.user, t.user = s.user \ {r}
  PROVE  /\ \A n : Cardinality(UsersOf(t, n)) =
                     Cardinality(UsersOf(s, n)) - IF n = r.node THEN 1 ELSE 0
         /\ \A k : Cardinality(OnCircuit(t, k)) =
                     Cardinality(OnCircuit(s, k)) - IF k = r.circuit THEN 1 ELSE 0
<1>1. \A n : UsersOf(t, n) = IF n = r.node THEN UsersOf(s, n) \ {r} ELSE UsersOf(s, n)
  BY DEF UsersOf
<1>2. \A k : OnCircuit(t, k) = IF k = r.circuit THEN OnCircuit(s, k) \ {r} ELSE OnCircuit(s, k)
  BY DEF OnCircuit
<1>3. r \in UsersOf(s, r.node) /\ r \in OnCircuit(s, r.circuit)
  BY DEF UsersOf, OnCircuit
<1>4. Cardinality(UsersOf(s, r.node) \ {r}) = Cardinality(UsersOf(s, r.node)) - 1
  BY <1>3, UserSets, FS_RemoveElement
<1>5. Cardinality(OnCircuit(s, r.circuit) \ {r}) = Cardinality(OnCircuit(s, r.circuit)) - 1
  BY <1>3, UserSets, FS_RemoveElement
<1>6. \A n : Cardinality(UsersOf(s, n)) \in Nat /\ Cardinality(OnCircuit(s, n)) \in Nat
  BY UserSets
<1>7. ASSUME NEW n
      PROVE  Cardinality(UsersOf(t, n)) = Cardinality(UsersOf(s, n)) - IF n = r.node THEN 1 ELSE 0
  <2>1. CASE n = r.node
    BY <1>1, <1>4, <2>1
  <2>2. CASE n # r.node
    BY <1>1, <1>6, <2>2
  <2> QED
    BY <2>1, <2>2
<1>8. ASSUME NEW k
      PROVE  Cardinality(OnCircuit(t, k)) =
                Cardinality(OnCircuit(s, k)) - IF k = r.circuit THEN 1 ELSE 0
  <2>1. CASE k = r.circuit
    BY <1>2, <1>5, <2>1
  <2>2. CASE k # r.circuit
    BY <1>2, <1>6, <2>2
  <2> QED
    BY <2>1, <2>2
<1> QED
  BY <1>7, <1>8

\* The tables with a user more, or one less.
LEMMA JoinTables ==
  ASSUME Forest, NEW s, NEW Q, Tables(s, Q), NEW t \in State, NEW r,
         IF r.circuit = Local THEN r.node = s.me
         ELSE r.circuit \in DOMAIN Q /\ r.node \in Side(s.me, Q[r.circuit]) /\ s.node[r.node] # 0,
         r.node \in Node, \A q \in s.user : q.call # r.call \/ q.node # r.node,
         t.me = s.me, t.user = s.user \cup {r},
         \A n \in Node : t.node[n] = s.node[n] + IF n = r.node THEN 1 ELSE 0,
         \A k \in Conn : t.circuit[k].refcnt = s.circuit[k].refcnt
                                                + IF k = r.circuit THEN 1 ELSE 0
  PROVE  Tables(t, Q)
<1>1. s \in State /\ Links(t.me, Q) /\ r \notin s.user
  BY DEF Tables
<1>2. Placed(t, Q) /\ Single(t)
  BY DEF Tables, Placed, Single
<1>3. /\ \A n : Cardinality(UsersOf(t, n)) =
                  Cardinality(UsersOf(s, n)) + IF n = r.node THEN 1 ELSE 0
      /\ \A k : Cardinality(OnCircuit(t, k)) =
                  Cardinality(OnCircuit(s, k)) + IF k = r.circuit THEN 1 ELSE 0
  BY <1>1, UserMore
<1>4. Refs(t)
  BY <1>3 DEF Tables, Refs
<1>5. \A n \in Node : s.node[n] \in Int /\ Cardinality(UsersOf(s, n)) \in Nat
  BY <1>1, StateFields, UserSets
<1>6. t.node[t.me] = Cardinality(UsersOf(t, t.me))
  BY <1>1, <1>3, <1>5 DEF Tables, Nodes, Links
<1>7. ASSUME NEW n \in Node \ {t.me}
      PROVE  Known(t, Q, n)
  <2>1. CASE n = r.node
    <3>1. s.node[n] = 1 + Cardinality(UsersOf(s, n)) /\ \E k \in DOMAIN Q : n \in Side(s.me, Q[k])
      BY <1>7, <2>1 DEF Tables, Nodes, Known
    <3> QED
      BY <1>3, <1>5, <1>7, <2>1, <3>1 DEF Known
  <2>2. CASE n # r.node
    <3>1. t.node[n] = s.node[n]
      BY <1>5, <1>7, <2>2
    <3>2. UsersOf(t, n) = UsersOf(s, n)
      BY <2>2 DEF UsersOf
    <3> QED
      BY <1>7, <3>1, <3>2 DEF Tables, Nodes, Known
  <2> QED
    BY <2>1, <2>2
<1> QED
  BY <1>1, <1>2, <1>4, <1>6, <1>7 DEF Tables, Nodes

LEMMA LeaveTables ==
  ASSUME Forest, NEW s, NEW Q, Tables(s, Q), NEW t \in State, NEW r \in s.user,
         t.me = s.me, t.user = s.user \ {r},
         \A n \in Node : t.node[n] = s.node[n] - IF n = r.node THEN 1 ELSE 0,
         \A k \in Conn : t.circuit[k].refcnt = s.circuit[k].refcnt
                                                - IF k = r.circuit THEN 1 ELSE 0
  PROVE  Tables(t, Q) /\ (r.circuit # Local => s.node[r.node] >= 2 /\ t.node[r.node] # 0)
<1>1. s \in State /\ Links(t.me, Q) /\ r.node \in Node
  <2>1. s \in State /\ r \in UserSet
    BY StateFields DEF Tables
  <2> QED
    BY <2>1 DEF Tables, UserSet
<1>2. Placed(t, Q) /\ Single(t)
  BY DEF Tables, Placed, Single
<1>3. /\ \A n : Cardinality(UsersOf(t, n)) =
                  Cardinality(UsersOf(s, n)) - IF n = r.node THEN 1 ELSE 0
      /\ \A k : Cardinality(OnCircuit(t, k)) =
                  Cardinality(OnCircuit(s, k)) - IF k = r.circuit THEN 1 ELSE 0
  BY <1>1, UserLess
<1>4. Refs(t)
  BY <1>3 DEF Tables, Refs
<1>5. \A n \in Node : /\ s.node[n] \in Int /\ Cardinality(UsersOf(s, n)) \in Nat
                      /\ Cardinality(UsersOf(t, n)) \in Nat
  BY <1>1, StateFields, UserSets
<1>6. t.node[t.me] = Cardinality(UsersOf(t, t.me))
  BY <1>1, <1>3, <1>5 DEF Tables, Nodes, Links
<1>7. r \in UsersOf(s, r.node) /\ Cardinality(UsersOf(s, r.node)) # 0
  <2>1. r \in UsersOf(s, r.node)
    BY DEF UsersOf
  <2> QED
    BY <1>1, <2>1, UserSets
<1>8. r.node # s.me => /\ s.node[r.node] = 1 + Cardinality(UsersOf(s, r.node))
                       /\ \E k \in DOMAIN Q : r.node \in Side(s.me, Q[k])
  BY <1>1, <1>7 DEF Tables, Nodes, Known
<1>9. ASSUME NEW n \in Node \ {t.me}
      PROVE  Known(t, Q, n)
  <2>1. CASE n = r.node
    BY <1>3, <1>5, <1>8, <1>9, <2>1 DEF Known
  <2>2. CASE n # r.node
    <3>1. t.node[n] = s.node[n]
      BY <1>5, <1>9, <2>2
    <3>2. UsersOf(t, n) = UsersOf(s, n)
      BY <2>2 DEF UsersOf
    <3> QED
      BY <1>9, <3>1, <3>2 DEF Tables, Nodes, Known
  <2> QED
    BY <2>1, <2>2
<1>10. r.circuit # Local => r.node # s.me
  <2>1. r.circuit # Local => r.circuit \in DOMAIN Q /\ r.node \in Side(s.me, Q[r.circuit])
    BY DEF Tables, Placed
  <2> QED
    BY <1>1, <2>1, OtherSide
<1>11. r.circuit # Local => s.node[r.node] >= 2 /\ t.node[r.node] # 0
  BY <1>1, <1>5, <1>7, <1>8, <1>10
<1> QED
  BY <1>1, <1>2, <1>4, <1>6, <1>9, <1>11 DEF Tables, Nodes

\* A node without users becomes known, or unknown.
LEMMA LinkTables ==
  ASSUME Forest, NEW s, NEW Q, Tables(s, Q), NEW t \in State, NEW k \in DOMAIN Q,
         NEW n \in Side(s.me, Q[k]), (s.node[n] = 0 /\ t.node[n] = 1) \/ t.node[n] = 0,
         UsersOf(s, n) = {},
         t.me = s.me, t.user = s.user, \A m \in Node : m # n => t.node[m] = s.node[m],
         \A j \in Conn : t.circuit[j].refcnt = s.circuit[j].refcnt
  PROVE  Tables(t, Q)
<1>1. s \in State /\ Links(t.me, Q)
  BY DEF Tables
<1>2. n \in Node /\ n # s.me
  BY <1>1, OtherSide DEF Side
<1>3. UsersOf(t, n) = {} /\ Cardinality(UsersOf(t, n)) = 0
  BY UserSets DEF UsersOf
<1>4. \A m : UsersOf(t, m) = UsersOf(s, m) /\ OnCircuit(t, m) = OnCircuit(s, m)
  BY DEF UsersOf, OnCircuit
<1>5. Placed(t, Q) /\ Single(t) /\ Refs(t)
  BY <1>4 DEF Tables, Placed, Single, Refs
<1>6. Nodes(t, Q)
  <2>1. t.node[t.me] = Cardinality(UsersOf(t, t.me))
    BY <1>1, <1>2, <1>4 DEF Tables, Nodes, Links
  <2>2. ASSUME NEW m \in Node \ {t.me}
        PROVE  Known(t, Q, m)
    <3>1. CASE m = n
      BY <1>3, <3>1 DEF Known
    <3>2. CASE m # n
      BY <1>4, <2>2, <3>2 DEF Tables, Nodes, Known
    <3> QED
      BY <3>1, <3>2
  <2> QED
    BY <2>1, <2>2 DEF Nodes
<1> QED
  BY <1>1, <1>5, <1>6 DEF Tables

\* The counts of the circuits stay in step with those of the nodes.
LEMMA StepKept ==
  ASSUME Forest, NEW s, NEW Q, Links(s.me, Q), s \in State, NEW t,
         \A j \in Conn : InStep(s, Q, j), NEW k \in DOMAIN Q, NEW n \in Side(s.me, Q[k]),
         t.me = s.me, \A m \in Node : m # n => t.node[m] = s.node[m],
         t.circuit[k].hnode[n] = t.node[n],
         \A m \in Node : m # n => t.circuit[k].hnode[m] = s.circuit[k].hnode[m],
         \A j \in Conn : j # k => t.circuit[j].hnode = s.circuit[j].hnode
  PROVE  \A j \in Conn : InStep(t, Q, j)
<1>1. k \in Conn /\ n \in Node
  BY DEF Links, Side
<1>2. ASSUME NEW j \in Conn
      PROVE  InStep(t, Q, j)
  <2>1. CASE j = k
    <3>1. InStep(s, Q, k)
      BY <1>1
    <3> QED
      BY <1>1, <2>1, <3>1 DEF InStep
  <2>2. CASE j # k
    <3>1. j \in DOMAIN Q => n \notin Side(s.me, Q[j])
      BY <2>2, OneSide
    <3> QED
      BY <1>2, <2>2, <3>1 DEF InStep
  <2> QED
    BY <2>1, <2>2
<1> QED
  BY <1>2

-----------------------------------------------------------------------------
(* What a handler says.                                                    *)

PairOf(r) == [call |-> r.call, node |-> r.node]
Pairs(s, k) == {PairOf(r) : r \in OnCircuit(s, k)}

\* The users the partner on circuit k may know of by it.
Beyond(s, k) == {PairOf(r) : r \in {x \in s.user : x.circuit # k}}
Heard(s, k) == IF k \in Linked(s) THEN Beyond(s, k) ELSE {}

\* A line a partner may send: of nodes on its side, and it does not take itself away.
Proper(to, from, l) ==
    /\ l.node \in Side(to, from)
    /\ l.kind \in {"link", "unlink"} => l.about \in Side(to, from)
    /\ l.kind = "unlink" => l.about # from

\* The lines sent so far have told each linked partner, who had heard of P[k], of the
\* users; other circuits, but those in X or closed, have been told nothing.
Says(s, P, X) ==
    \A k \in Conn \ (s.shut \cup X) :
       IF k \in Linked(s)
       THEN /\ Told(P[k], s.out[k], Beyond(s, k))
            /\ \A i \in 1 .. Len(s.out[k]) : Proper(s.circuit[k].link, s.me, s.out[k][i])
       ELSE s.out[k] = << >> /\ P[k] = {}

\* A step that tells a partner what it does to the users, in at most one line.
TellsOn(s, t, k) ==
    \/ t.out[k] = s.out[k] /\ Beyond(s, k) \subseteq Beyond(t, k)
    \/ \E l \in LineSet : /\ t.out[k] = Append(s.out[k], l)
                          /\ Hears(Beyond(s, k), l, Beyond(t, k))
                          /\ Proper(s.circuit[k].link, s.me, l)
Tells(s, t) ==
    /\ \A k \in Linked(s) : TellsOn(s, t, k)
    /\ \A k \in Conn \ Linked(s) : t.out[k] = s.out[k]

LEMMA PairsType ==
  ASSUME NEW s \in State, NEW k
  PROVE  Beyond(s, k) \in SUBSET Pair /\ Pairs(s, k) \in SUBSET Pair
<1>1. \A r \in s.user : PairOf(r) \in Pair
  BY StateFields DEF PairOf, Pair, UserSet
<1> QED
  BY <1>1 DEF Beyond, Pairs, OnCircuit

LEMMA LinksKept ==
  ASSUME NEW s \in State, NEW t, Keeps(s, t)
  PROVE  /\ t \in State /\ Linked(t) = Linked(s) /\ Linking(t) = Linking(s)
         /\ \A k \in Linked(s) : t.circuit[k].link = s.circuit[k].link
<1>1. t \in State /\ \A k \in Conn : SameLink(s.circuit[k], t.circuit[k])
  BY DEF Keeps
<1>2. Linked(t) = Linked(s)
  BY <1>1 DEF Linked, SameLink
<1>3. \A k \in Linked(s) : k \in Conn /\ s.circuit[k].Active
  BY ListedFacts DEF Linked, Listed
<1>4. \A k \in Linked(s) : t.circuit[k].link = s.circuit[k].link
  BY <1>1, <1>3 DEF SameLink
<1>5. Linking(t) = Linking(s)
  BY <1>2, <1>4 DEF Linking
<1> QED
  BY <1>1, <1>2, <1>4, <1>5

LEMMA SaysStep ==
  ASSUME NEW s \in State, NEW P, NEW X, Says(s, P, X), NEW t, Keeps(s, t),
         t.me = s.me, s.shut \subseteq t.shut, Tells(s, t)
  PROVE  Says(t, P, X)
<1>1. /\ t \in State /\ Linked(t) = Linked(s)
      /\ \A k \in Linked(s) : t.circuit[k].link = s.circuit[k].link
  BY LinksKept
<1> SUFFICES ASSUME NEW k \in Conn \ (t.shut \cup X)
             PROVE  IF k \in Linked(t)
                    THEN /\ Told(P[k], t.out[k], Beyond(t, k))
                         /\ \A i \in 1 .. Len(t.out[k]) : Proper(t.circuit[k].link, t.me, t.out[k][i])
                    ELSE t.out[k] = << >> /\ P[k] = {}
  BY DEF Says
<1>2. k \in Conn \ (s.shut \cup X)
  OBVIOUS
<1>3. CASE k \notin Linked(s)
  BY <1>1, <1>2, <1>3 DEF Says, Tells
<1>4. CASE k \in Linked(s)
  <2>1. /\ Told(P[k], s.out[k], Beyond(s, k))
        /\ \A i \in 1 .. Len(s.out[k]) : Proper(s.circuit[k].link, s.me, s.out[k][i])
    BY <1>2, <1>4 DEF Says
  <2>2. s.out[k] \in Seq(LineSet) /\ Beyond(t, k) \in SUBSET Pair
    BY <1>1, StateFields, PairsType
  <2>3. CASE t.out[k] = s.out[k] /\ Beyond(s, k) \subseteq Beyond(t, k)
    <3>1. Told(P[k], t.out[k], Beyond(t, k))
      BY <2>1, <2>3, ToldWeaker
    <3> QED
      BY <1>1, <1>4, <2>1, <2>3, <3>1
  <2>4. CASE \E l \in LineSet : /\ t.out[k] = Append(s.out[k], l)
                                /\ Hears(Beyond(s, k), l, Beyond(t, k))
                                /\ Proper(s.circuit[k].link, s.me, l)
    <3>1. PICK l \in LineSet : /\ t.out[k] = Append(s.out[k], l)
                               /\ Hears(Beyond(s, k), l, Beyond(t, k))
                               /\ Proper(s.circuit[k].link, s.me, l)
      BY <2>4
    <3>2. Told(P[k], t.out[k], Beyond(t, k))
      BY <2>1, <2>2, <3>1, ToldMore
    <3>3. ASSUME NEW i \in 1 .. Len(t.out[k])
          PROVE  Proper(s.circuit[k].link, s.me, t.out[k][i])
      <4>1. (i \in 1 .. Len(s.out[k]) /\ t.out[k][i] = s.out[k][i]) \/ t.out[k][i] = l
        BY <2>2, <3>1
      <4> QED
        BY <2>1, <3>1, <4>1
    <3> QED
      BY <1>1, <1>4, <3>2, <3>3
  <2> QED
    BY <1>4, <2>3, <2>4 DEF Tells, TellsOn
<1> QED
  BY <1>3, <1>4

\* More circuits are closed.
LEMMA SaysLess ==
  ASSUME NEW s, NEW P, NEW X, Says(s, P, X), NEW t, NEW Y,
         t.me = s.me, t.user = s.user, t.out = s.out,
         s.shut \cup X \subseteq t.shut \cup Y,
         \A k \in Conn \ (t.shut \cup Y) : t.circuit[k] = s.circuit[k]
  PROVE  Says(t, P, Y)
<1> SUFFICES ASSUME NEW k \in Conn \ (t.shut \cup Y)
             PROVE  IF k \in Linked(t)
                    THEN /\ Told(P[k], t.out[k], Beyond(t, k))
                         /\ \A i \in 1 .. Len(t.out[k]) : Proper(t.circuit[k].link, t.me, t.out[k][i])
                    ELSE t.out[k] = << >> /\ P[k] = {}
  BY DEF Says
<1>1. k \in Conn \ (s.shut \cup X) /\ Beyond(t, k) = Beyond(s, k)
      /\ t.circuit[k] = s.circuit[k] /\ (k \in Linked(t) <=> k \in Linked(s))
  BY DEF Beyond, Linked
<1> QED
  BY <1>1 DEF Says

-----------------------------------------------------------------------------
(* The tables and what is said of them.                                    *)

\* What leaves the tables alone.
SameTables(s, t) ==
    /\ t.me = s.me /\ t.user = s.user
    /\ \A n \in Node : t.node[n] = s.node[n]
    /\ \A k \in Conn : /\ t.circuit[k].refcnt = s.circuit[k].refcnt
                       /\ \A n \in Node : t.circuit[k].hnode[n] = s.circuit[k].hnode[n]

LEMMA TablesSame ==
  ASSUME NEW s, NEW Q, Tables(s, Q), NEW t \in State, SameTables(s, t)
  PROVE  Tables(t, Q) /\ \A k \in Conn : InStep(s, Q, k) => InStep(t, Q, k)
<1>1. \A n : UsersOf(t, n) = UsersOf(s, n) /\ OnCircuit(t, n) = OnCircuit(s, n)
  BY DEF SameTables, UsersOf, OnCircuit
<1>2. Placed(t, Q) /\ Single(t) /\ Refs(t) /\ Links(t.me, Q)
  BY <1>1 DEF SameTables, Tables, Placed, Single, Refs
<1>3. Nodes(t, Q)
  <2>1. t.me \in Node
    BY <1>2 DEF Links
  <2>2. \A n \in Node \ {t.me} : Known(t, Q, n)
    BY <1>1 DEF SameTables, Tables, Nodes, Known
  <2>3. t.node[t.me] = Cardinality(UsersOf(t, t.me))
    BY <1>1, <2>1 DEF SameTables, Tables, Nodes
  <2> QED
    BY <2>2, <2>3 DEF Nodes
<1>4. \A k \in Conn : InStep(s, Q, k) => InStep(t, Q, k)
  BY DEF SameTables, InStep
<1> QED
  BY <1>2, <1>3, <1>4 DEF Tables

LEMMA SoundSame ==
  ASSUME NEW s, NEW t, Keeps(s, t), SameTables(s, t)
  PROVE  (Steady(s) => Steady(t)) /\ (Sound(s) => Sound(t))
<1> SUFFICES ASSUME Steady(s)
             PROVE  Steady(t) /\ (Sound(s) => Sound(t))
  BY DEF Sound
<1>1. s \in State
  BY DEF Steady, Tables
<1>2. /\ t \in State /\ Linked(t) = Linked(s) /\ Linking(t) = Linking(s)
      /\ \A k \in Linked(s) : t.circuit[k].link = s.circuit[k].link
  BY <1>1, LinksKept
<1>3. Steady(t)
  BY <1>2, TablesSame DEF Steady
<1>4. \A k \in Linked(s) : s.circuit[k].link \in Node
  BY <1>1, ListedFacts DEF Linked, Listed
<1> QED
  BY <1>2, <1>3, <1>4 DEF Sound, SameTables

LEMMA SameOutSame ==
  ASSUME NEW s, NEW t, SameButOut(s, t)
  PROVE  SameTables(s, t) /\ \A k : Beyond(t, k) = Beyond(s, k) /\ Pairs(t, k) = Pairs(s, k)
  BY DEF SameButOut, SameTables, Beyond, Pairs, OnCircuit

\* What is known of a link.
LEMMA LinkFacts ==
  ASSUME NEW s, Steady(s), NEW k \in Linked(s)
  PROVE  /\ s \in State /\ k \in Conn /\ k \in DOMAIN Linking(s) /\ s.me \in Node
         /\ Linking(s)[k] = s.circuit[k].link
         /\ s.circuit[k].link \in Partner[s.me] /\ s.circuit[k].link \in Node
         /\ s.me \in Partner[s.circuit[k].link] /\ s.circuit[k].link # s.me
         /\ s.circuit[k].link \in Side(s.me, s.circuit[k].link)
         /\ Side(s.me, s.circuit[k].link) \subseteq Node
         /\ s.me \notin Side(s.me, s.circuit[k].link)
<1>1. s \in State /\ Links(s.me, Linking(s))
  BY DEF Steady, Tables
<1>2. k \in Conn /\ k \in DOMAIN Linking(s) /\ Linking(s)[k] = s.circuit[k].link
  BY LinkingFacts
<1>3. s.me \in Node /\ s.circuit[k].link \in Partner[s.me]
  BY <1>1, <1>2 DEF Links
<1> QED
  BY <1>1, <1>2, <1>3, PartnerFacts, SideClosed

\* Of a node reached by one link the others are told, and of this node all of them.
LEMMA WithoutOthers ==
  ASSUME Forest, NEW s \in State, NEW Q, Links(s.me, Q), Linked(s) \subseteq DOMAIN Q,
         \A j \in Linked(s) : InStep(s, Q, j)
  PROVE  /\ Without(s, s.me) = Linked(s)
         /\ \A k \in DOMAIN Q : \A n \in Side(s.me, Q[k]) : Without(s, n) \ {k} = Linked(s) \ {k}
<1>1. s.me \in Node /\ \A k \in DOMAIN Q : s.me \notin Side(s.me, Q[k]) /\ Side(s.me, Q[k]) \subseteq Node
  BY OtherSide DEF Links, Side
<1>2. Linked(s) \subseteq Conn
  BY DEF Linked
<1>3. \A j \in Linked(s) : s.circuit[j].hnode[s.me] = 0
  BY <1>1, <1>2 DEF InStep
<1>4. \A k \in DOMAIN Q : \A n : n \in Side(s.me, Q[k]) =>
         \A j \in Linked(s) : j # k => s.circuit[j].hnode[n] = 0
  <2> TAKE k \in DOMAIN Q
  <2> TAKE n
  <2> HAVE n \in Side(s.me, Q[k])
  <2> TAKE j \in Linked(s)
  <2> HAVE j # k
  <2>1. n \in Node /\ n \notin Side(s.me, Q[j])
    BY <1>1, OneSide
  <2> QED
    BY <1>2, <2>1 DEF InStep
<1> QED
  BY <1>3, <1>4 DEF Without, cn_find

\* What one partner has said may be said to another.
LEMMA ProperOn ==
  ASSUME Forest, NEW me, NEW Q, Links(me, Q), NEW j \in DOMAIN Q, NEW k \in DOMAIN Q, j # k,
         NEW l, Proper(me, Q[k], l)
  PROVE  Proper(Q[j], me, l)
<1>1. Side(me, Q[k]) \subseteq Side(Q[j], me) /\ me \notin Side(me, Q[k])
  BY OtherSide
<1> QED
  BY <1>1 DEF Proper

\* A reference from the users of a circuit more or less.
SameButRefcnt(s, t, k, i) ==
    /\ t.me = s.me /\ t.flags = s.flags /\ t.node = s.node /\ t.user = s.user /\ t.out = s.out
    /\ t.shut = s.shut
    /\ \A j \in Conn : /\ j # k => t.circuit[j] = s.circuit[j]
                       /\ t.circuit[j].hnode = s.circuit[j].hnode
                       /\ t.circuit[j].refcnt = s.circuit[j].refcnt + IF j = k THEN i ELSE 0

LEMMA RefcntFields ==
  ASSUME NEW s \in State, NEW k \in Conn
  PROVE  /\ SameButRefcnt(s, [s EXCEPT !.circuit[k].refcnt = @ + 1], k, 1)
         /\ SameButRefcnt(s, [s EXCEPT !.circuit[k].refcnt = @ - 1], k, -1)
<1>1. \A j \in Conn : s.circuit[j] \in CircuitSet /\ s.circuit[j].refcnt \in Int
  BY StateFields, CircuitFields
<1>2. ASSUME NEW i \in Int
      PROVE  SameButRefcnt(s, [s EXCEPT !.circuit[k].refcnt = s.circuit[k].refcnt + i], k, i)
  <2> DEFINE m == s.circuit[k].refcnt + i
             d == [s.circuit[k] EXCEPT !.refcnt = m]
             t == [s EXCEPT !.circuit[k].refcnt = m]
  <2>1. m \in Int
    BY <1>1
  <2>2. d.hnode = s.circuit[k].hnode /\ d.refcnt = m
    <3> HIDE DEF m
    <3> QED
      BY <1>1, <2>1 DEF CircuitSet, InUse, NotInUse
  <2>3. /\ t.me = s.me /\ t.flags = s.flags /\ t.node = s.node /\ t.user = s.user
        /\ t.out = s.out /\ t.shut = s.shut
        /\ t.circuit[k] = d /\ \A j \in Conn : j # k => t.circuit[j] = s.circuit[j]
    BY DEF State
  <2> HIDE DEF d, t
  <2>4. \A j \in Conn : j # k => s.circuit[j].refcnt = s.circuit[j].refcnt + 0
    BY <1>1
  <2>5. SameButRefcnt(s, t, k, i)
    BY <2>2, <2>3, <2>4 DEF SameButRefcnt
  <2> QED
    BY <2>5 DEF t
<1>3. s.circuit[k].refcnt - 1 = s.circuit[k].refcnt + (-1) /\ 1 \in Int /\ -1 \in Int
  BY <1>1
<1>4. SameButRefcnt(s, [s EXCEPT !.circuit[k].refcnt = s.circuit[k].refcnt + 1], k, 1)
  BY <1>2, <1>3
<1>5. SameButRefcnt(s, [s EXCEPT !.circuit[k].refcnt = s.circuit[k].refcnt + (-1)], k, -1)
  BY <1>2, <1>3
<1>6. [s EXCEPT !.circuit[k].refcnt = @ - 1] =
        [s EXCEPT !.circuit[k].refcnt = s.circuit[k].refcnt + (-1)]
  BY <1>3
<1> QED
  BY <1>4, <1>5, <1>6

-----------------------------------------------------------------------------
(* The handlers of a line on a link.                                       *)

\* A handler that changes no link has changed the tables and said so.
Moves(s, t) == Keeps(s, t) /\ t.me = s.me /\ t.shut = s.shut /\ Sound(t) /\ Tells(s, t)

LEMMA MovesNot ==
  ASSUME NEW s, Sound(s)
  PROVE  Moves(s, s)
<1>1. s \in State
  BY DEF Sound, Steady, Tables
<1> QED
  BY <1>1, KeepsItself DEF Moves, Tells, TellsOn

\* The line is passed on to the other links.
PassedOn(s, t, k, l) ==
    \A j \in Conn : t.out[j] = IF j \in Linked(s) \ {k} THEN Append(s.out[j], l) ELSE s.out[j]

LEMMA PassedTells ==
  ASSUME Forest, NEW s, Steady(s), NEW k \in Linked(s), NEW l \in LineSet,
         Proper(s.me, s.circuit[k].link, l), NEW t, PassedOn(s, t, k, l),
         \A j \in Linked(s) : j # k => Hears(Beyond(s, j), l, Beyond(t, j)),
         Beyond(s, k) \subseteq Beyond(t, k)
  PROVE  Tells(s, t)
<1>1. Linked(s) \subseteq Conn
  BY DEF Linked
<1>2. ASSUME NEW j \in Linked(s)
      PROVE  TellsOn(s, t, j)
  <2>1. CASE j = k
    BY <1>1, <2>1 DEF TellsOn, PassedOn
  <2>2. CASE j # k
    <3>1. Links(s.me, Linking(s)) /\ j \in DOMAIN Linking(s) /\ k \in DOMAIN Linking(s)
          /\ Linking(s)[j] = s.circuit[j].link /\ Linking(s)[k] = s.circuit[k].link
      BY LinkFacts DEF Steady, Tables
    <3>2. Proper(s.circuit[j].link, s.me, l)
      BY <2>2, <3>1, ProperOn
    <3>3. t.out[j] = Append(s.out[j], l)
      BY <1>1, <2>2 DEF PassedOn
    <3> QED
      BY <2>2, <3>2, <3>3 DEF TellsOn
  <2> QED
    BY <2>1, <2>2
<1>3. \A j \in Conn \ Linked(s) : t.out[j] = s.out[j]
  BY DEF PassedOn
<1> QED
  BY <1>2, <1>3 DEF Tells

LEMMA EchoPasses ==
  ASSUME Forest, NEW s, Steady(s), NEW k \in Linked(s), NEW l \in LineSet,
         l.node \in Side(s.me, s.circuit[k].link)
  PROVE  SameButOut(s, echo(s, k, l)) /\ PassedOn(s, echo(s, k, l), k, l)
<1>1. s \in State /\ Links(s.me, Linking(s)) /\ \A j \in Linked(s) : InStep(s, Linking(s), j)
  BY LinkingFacts DEF Steady, Tables
<1>2. k \in DOMAIN Linking(s) /\ Linking(s)[k] = s.circuit[k].link /\ Linked(s) = DOMAIN Linking(s)
  BY LinkingFacts
<1>3. Without(s, l.node) \ {k} = Linked(s) \ {k}
  BY <1>1, <1>2, WithoutOthers
<1> QED
  BY <1>1, <1>3, SendFields DEF echo, PassedOn

\* What is so of a link's users and nodes.
LEMMA OnLink ==
  ASSUME Forest, NEW s, Steady(s), NEW k \in Linked(s), NEW n \in Side(s.me, s.circuit[k].link)
  PROVE  /\ n \in Node /\ n # s.me
         /\ s.circuit[k].hnode[n] = s.node[n] /\ s.node[n] \in Int
         /\ \A r \in UsersOf(s, n) : r.circuit = k /\ PairOf(r) \in Pairs(s, k)
         /\ s.node[n] = 0 => UsersOf(s, n) = {}
         /\ s.node[n] # 0 => s.node[n] = 1 + Cardinality(UsersOf(s, n))
         /\ \A j \in Linked(s) : j # k => s.circuit[j].link # n /\ s.circuit[j].hnode[n] = 0
<1> DEFINE Q == Linking(s)
<1>1. /\ s \in State /\ k \in Conn /\ k \in DOMAIN Q /\ Q[k] = s.circuit[k].link
      /\ n \in Node /\ n # s.me /\ Links(s.me, Q)
  BY LinkFacts DEF Steady, Tables
<1>2. DOMAIN Q = Linked(s) /\ DOMAIN Q \subseteq Conn
  BY LinkingFacts
<1> HIDE DEF Q
<1>3. s.circuit[k].hnode[n] = s.node[n] /\ s.node[n] \in Int
  BY <1>1, StateFields DEF Steady, InStep, Q
<1>4. ASSUME NEW j \in Linked(s), j # k
      PROVE  n \notin Side(s.me, Q[j]) /\ s.circuit[j].link # n /\ s.circuit[j].hnode[n] = 0
  <2>1. n \notin Side(s.me, Q[j])
    BY <1>1, <1>2, <1>4, OneSide
  <2>2. Q[j] = s.circuit[j].link /\ Q[j] \in Side(s.me, Q[j])
    BY LinkFacts DEF Q
  <2>3. j \in Conn /\ InStep(s, Q, j)
    BY <1>2 DEF Steady, Q
  <2> QED
    BY <1>1, <2>1, <2>2, <2>3 DEF InStep
<1>5. \A r \in UsersOf(s, n) : r.circuit = k /\ PairOf(r) \in Pairs(s, k)
  <2> TAKE r \in UsersOf(s, n)
  <2>1. r \in s.user /\ r.node = n
    BY DEF UsersOf
  <2>2. r.circuit \in DOMAIN Q /\ r.node \in Side(s.me, Q[r.circuit])
    BY <1>1, <2>1 DEF Steady, Tables, Placed, Q
  <2>3. r.circuit = k
    BY <1>2, <1>4, <2>1, <2>2
  <2> QED
    BY <2>1, <2>3 DEF Pairs, OnCircuit
<1>6. Known(s, Q, n)
  BY <1>1 DEF Steady, Tables, Nodes, Q
<1>7. s.node[n] = 0 => UsersOf(s, n) = {}
  <2>1. Cardinality(UsersOf(s, n)) \in Nat
    BY <1>1, UserSets
  <2> QED
    BY <1>6, <2>1 DEF Known
<1> QED
  BY <1>1, <1>3, <1>4, <1>5, <1>6, <1>7 DEF Known

\* A line without a user that comes or goes may be left out.
LEMMA HearsSame ==
  ASSUME NEW X, NEW l, NEW Z, Hears(X, l, Z),
         l.kind = "leave" => UserOf(l) \notin X
  PROVE  X \subseteq Z
  BY DEF Hears

\* The references to one node reached by a link change, and the counts of the link do.
LEMMA StepSound ==
  ASSUME Forest, NEW s, Steady(s), NEW t, Keeps(s, t), t.me = s.me, Tables(t, Linking(s)),
         NEW k \in Linked(s), NEW n \in Side(s.me, s.circuit[k].link),
         \A m \in Node : m # n => t.node[m] = s.node[m],
         t.circuit[k].hnode[n] = t.node[n],
         \A m \in Node : m # n => t.circuit[k].hnode[m] = s.circuit[k].hnode[m],
         \A j \in Conn : j # k => t.circuit[j].hnode = s.circuit[j].hnode,
         \A j \in Linked(s) : s.circuit[j].link = n \/ s.node[s.circuit[j].link] # 0,
         n = s.circuit[k].link => t.node[n] # 0
  PROVE  Sound(t)
<1> DEFINE Q == Linking(s)
<1>1. /\ s \in State /\ Links(s.me, Q) /\ k \in DOMAIN Q /\ Q[k] = s.circuit[k].link
      /\ \A j \in Conn : InStep(s, Q, j)
  BY LinkFacts DEF Steady, Tables
<1>2. /\ Linked(t) = Linked(s) /\ Linking(t) = Q
      /\ \A j \in Linked(s) : t.circuit[j].link = s.circuit[j].link
  BY <1>1, LinksKept
<1> HIDE DEF Q
<1>3. \A j \in Conn : InStep(t, Q, j)
  BY <1>1, StepKept
<1>4. Steady(t)
  BY <1>2, <1>3 DEF Steady, Q
<1>5. \A j \in Linked(s) : j # k => s.circuit[j].link # n
  BY OnLink
<1>6. ASSUME NEW j \in Linked(s)
      PROVE  t.node[s.circuit[j].link] # 0
  <2>1. s.circuit[j].link \in Node
    BY LinkFacts
  <2> QED
    BY <1>5, <2>1
<1> QED
  BY <1>2, <1>4, <1>6 DEF Sound

LEMMA IdJoinMoves ==
  ASSUME Forest, NEW s, Sound(s), NEW k \in Linked(s), NEW l \in LineSet, l.kind = "join",
         Proper(s.me, s.circuit[k].link, l), s.node[l.node] # 0, NEW Z, Hears(Pairs(s, k), l, Z)
  PROVE  Moves(s, id_join(s, k, l)) /\ Pairs(id_join(s, k, l), k) \subseteq Z
<1>1. CASE user_find(s, l.about, l.node) # {}
  <2>1. id_join(s, k, l) = s
    BY <1>1 DEF id_join
  <2> QED
    BY <2>1, MovesNot, HearsSame
<1>2. CASE user_find(s, l.about, l.node) = {}
  <2> DEFINE n == l.node
             r == [call |-> l.about, node |-> l.node, circuit |-> k, topic |-> deftopic]
             a == echo(s, k, l)
             b == cn_inc(a, k, n)
             c == user_join(b, k, l.about, n)
             t == [c EXCEPT !.circuit[k].refcnt = @ + 1]
  <2>1. /\ s \in State /\ k \in Conn /\ Steady(s) /\ n \in Side(s.me, s.circuit[k].link)
        /\ n \in Node /\ l.about \in Node \cup User
    BY LinkFacts, OnLink DEF Sound, Proper, LineSet
  <2>2. id_join(s, k, l) = t
    BY <1>2 DEF id_join
  <2>3. Keeps(s, t) /\ t \in State
    BY <2>1, <2>2, IdJoinKeeps DEF Keeps
  <2>4. a \in State /\ SameButOut(s, a) /\ PassedOn(s, a, k, l)
    BY <2>1, EchoKeeps, EchoPasses DEF Keeps
  <2> HIDE DEF a
  <2>5. b \in State /\ SameButHnode(a, b, k, n, 1)
        /\ \A m \in Node : b.node[m] = a.node[m] + IF m = n THEN 1 ELSE 0
    BY <2>1, <2>4, CnIncKeeps, CnIncFields DEF Keeps
  <2> HIDE DEF b
  <2>6. /\ c \in State /\ c.me = b.me /\ c.shut = b.shut /\ c.circuit = b.circuit
        /\ c.node = b.node /\ c.out = b.out /\ c.user = b.user \cup {r}
    <3>1. c \in State
      BY <2>1, <2>5, UserJoinKeeps DEF Keeps
    <3> QED
      BY <2>5, <3>1 DEF user_join, State
  <2> HIDE DEF c
  <2>7. SameButRefcnt(c, t, k, 1)
    BY <2>1, <2>6, RefcntFields
  <2> HIDE DEF t
  <2>8. t.me = s.me /\ t.shut = s.shut /\ t.user = s.user \cup {r} /\ PassedOn(s, t, k, l)
    BY <2>4, <2>5, <2>6, <2>7 DEF SameButOut, SameButHnode, SameButRefcnt, PassedOn
  <2>9. \A m \in Node : t.node[m] = s.node[m] + IF m = n THEN 1 ELSE 0
    BY <2>4, <2>5, <2>6, <2>7 DEF SameButOut, SameButRefcnt
  <2>10. \A j \in Conn : /\ j # k => t.circuit[j].hnode = s.circuit[j].hnode
                         /\ t.circuit[j].refcnt = s.circuit[j].refcnt + IF j = k THEN 1 ELSE 0
    BY <2>4, <2>5, <2>6, <2>7 DEF SameButOut, SameButHnode, SameButRefcnt
  <2>11. \A m \in Node : t.circuit[k].hnode[m] = s.circuit[k].hnode[m] + IF m = n THEN 1 ELSE 0
    BY <2>1, <2>4, <2>5, <2>6, <2>7 DEF SameButOut, SameButHnode, SameButRefcnt
  <2>12. r.call = l.about /\ r.node = n /\ r.circuit = k /\ PairOf(r) = UserOf(l)
    BY DEF PairOf, UserOf
  <2> HIDE DEF r
  <2>13. Tables(t, Linking(s))
    <3>1. Tables(s, Linking(s)) /\ k \in DOMAIN Linking(s) /\ r.node \in Side(s.me, Linking(s)[k])
      BY <2>1, <2>12, LinkFacts DEF Steady
    <3>2. r.circuit # Local
      BY <2>1, <2>12 DEF Conn, Local
    <3>3. \A q \in s.user : q.call # r.call \/ q.node # r.node
      BY <1>2, <2>12 DEF user_find
    <3>4. /\ \A m \in Node : t.node[m] = s.node[m] + IF m = r.node THEN 1 ELSE 0
          /\ \A j \in Conn : t.circuit[j].refcnt = s.circuit[j].refcnt
                                                   + IF j = r.circuit THEN 1 ELSE 0
      BY <2>9, <2>10, <2>12
    <3>5. IF r.circuit = Local THEN r.node = s.me
          ELSE r.circuit \in DOMAIN Linking(s) /\ r.node \in Side(s.me, Linking(s)[r.circuit])
               /\ s.node[r.node] # 0
      BY <2>12, <3>1, <3>2
    <3>6. r.node \in Node
      BY <2>1, <2>12
    <3> QED
      BY <2>3, <2>8, <3>1, <3>3, <3>4, <3>5, <3>6, JoinTables
  <2>14. Sound(t)
    <3>1. /\ s.circuit[k].hnode[n] = s.node[n] /\ s.node[n] \in Int
          /\ \A m \in Node : s.node[m] \in Int
          /\ \A m \in Node : s.circuit[k].hnode[m] \in Int
      BY <2>1, OnLink, StateFields, CircuitFields
    <3>2. s.node[n] = 1 + Cardinality(UsersOf(s, n)) /\ Cardinality(UsersOf(s, n)) \in Nat
      BY <2>1, OnLink, UserSets
    <3>3. /\ \A m \in Node : m # n => t.node[m] = s.node[m]
          /\ \A m \in Node : m # n => t.circuit[k].hnode[m] = s.circuit[k].hnode[m]
      BY <2>9, <2>11, <3>1
    <3>4. t.node[n] = s.node[n] + 1 /\ t.circuit[k].hnode[n] = t.node[n] /\ t.node[n] # 0
      BY <2>1, <2>9, <2>11, <3>1, <3>2
    <3>5. \A j \in Linked(s) : s.node[s.circuit[j].link] # 0
      BY DEF Sound
    <3> HIDE DEF n
    <3> QED
      BY <2>1, <2>3, <2>8, <2>10, <2>13, <3>3, <3>4, <3>5, StepSound
  <2>15. Pairs(t, k) = Pairs(s, k) \cup {UserOf(l)} /\ Beyond(t, k) = Beyond(s, k)
         /\ \A j : j # k => Beyond(t, j) = Beyond(s, j) \cup {UserOf(l)}
    BY <2>8, <2>12 DEF Pairs, OnCircuit, Beyond
  <2>16. Tells(s, t)
    <3>1. \A j \in Linked(s) : j # k => Hears(Beyond(s, j), l, Beyond(t, j))
      BY <2>15 DEF Hears
    <3> QED
      BY <2>1, <2>8, <2>15, <3>1, PassedTells
  <2> QED
    BY <2>2, <2>3, <2>8, <2>14, <2>15, <2>16 DEF Moves, Hears
<1> QED
  BY <1>1, <1>2

LEMMA IdLeaveMoves ==
  ASSUME Forest, NEW s, Sound(s), NEW k \in Linked(s), NEW l \in LineSet, l.kind = "leave",
         Proper(s.me, s.circuit[k].link, l), NEW Z, Hears(Pairs(s, k), l, Z)
  PROVE  Moves(s, id_leave(s, k, l)) /\ Pairs(id_leave(s, k, l), k) \subseteq Z
<1>1. CASE user_find(s, l.about, l.node) = {}
  <2>1. id_leave(s, k, l) = s
    BY <1>1 DEF id_leave
  <2>2. UserOf(l) \notin Pairs(s, k)
    BY <1>1 DEF UserOf, Pairs, OnCircuit, PairOf, user_find
  <2> QED
    BY <2>1, <2>2, MovesNot, HearsSame
<1>2. CASE user_find(s, l.about, l.node) # {}
  <2> DEFINE n == l.node
             U == user_find(s, l.about, l.node)
             a == echo(s, k, l)
             b == [a EXCEPT !.circuit[k].refcnt = @ - 1]
             us == b.user \ U
             c == [b EXCEPT !.user = us]
             d == cn_dec(c, k, n)
             t == node_dec(d, n)
  <2>1. /\ s \in State /\ k \in Conn /\ Steady(s) /\ n \in Side(s.me, s.circuit[k].link)
        /\ n \in Node /\ Tables(s, Linking(s))
    BY LinkFacts, OnLink DEF Sound, Proper, Steady
  <2>2. PICK r \in U : TRUE
    BY <1>2
  <2>3. r \in s.user /\ r.call = l.about /\ r.node = n /\ r \in UsersOf(s, n) /\ U = {r}
    BY <2>1, <2>2 DEF user_find, UsersOf, Tables, Single
  <2>4. r.circuit = k /\ r.circuit # Local
    <3>1. r.circuit = k
      BY <2>1, <2>3, OnLink
    <3> QED
      BY <2>1, <3>1 DEF Conn, Local
  <2>5. a \in State /\ SameButOut(s, a) /\ PassedOn(s, a, k, l)
    BY <2>1, EchoKeeps, EchoPasses DEF Keeps
  <2>6. id_leave(s, k, l) = t
    <3>1. c = [a EXCEPT !.circuit[k].refcnt = @ - 1, !.user = @ \ U]
      BY <2>5 DEF State
    <3> HIDE DEF c
    <3> QED
      BY <1>2, <3>1 DEF id_leave
  <2>7. Keeps(s, t) /\ t \in State
    BY <2>1, <2>6, IdLeaveKeeps DEF Keeps
  <2> HIDE DEF a, U
  <2>8. b \in State /\ SameButRefcnt(a, b, k, -1)
    BY <2>1, <2>5, RefcntKeeps, RefcntFields DEF Keeps
  <2> HIDE DEF b
  <2>9. c \in State
    <3>1. us \in SUBSET UserSet /\ IsFiniteSet(us)
      BY <2>8, StateFields, FS_Subset
    <3> HIDE DEF us
    <3> QED
      BY <2>8, <3>1, UpdatesKeep DEF Keeps
  <2>10. /\ c.me = b.me /\ c.shut = b.shut /\ c.circuit = b.circuit
         /\ c.node = b.node /\ c.out = b.out /\ c.user = b.user \ {r}
    BY <2>3, <2>8 DEF State
  <2> HIDE DEF c, us
  <2>11. s.node[n] = 1 + Cardinality(UsersOf(s, n)) /\ Cardinality(UsersOf(s, n)) \in Nat \ {0}
         /\ s.circuit[k].hnode[n] = s.node[n]
    <3>1. Cardinality(UsersOf(s, n)) \in Nat /\ UsersOf(s, n) # {}
      BY <2>1, <2>3, UserSets
    <3> QED
      BY <2>1, <3>1, OnLink, UserSets
  <2>12. d \in State /\ SameButHnode(c, d, k, n, -1) /\ d.node = c.node
    <3>1. cn_find(c, k, n)
      BY <2>1, <2>5, <2>8, <2>10, <2>11 DEF cn_find, SameButOut, SameButRefcnt
    <3> QED
      BY <2>1, <2>9, <3>1, CnDecKeeps, CnDecFields DEF Keeps
  <2> HIDE DEF d
  <2>13. d.node = s.node
    BY <2>5, <2>8, <2>10, <2>12 DEF SameButOut, SameButRefcnt
  <2>14. /\ t.me = d.me /\ t.circuit = d.circuit /\ t.user = d.user /\ t.out = d.out
         /\ t.shut = d.shut /\ \A m \in Node : m # n => t.node[m] = s.node[m]
         /\ t.node[n] = s.node[n] - 1
    <3>1. d.node[n] = s.node[n] /\ d.node[n] # 1
      BY <2>11, <2>13
    <3> HIDE DEF n
    <3> QED
      BY <2>1, <2>12, <2>13, <3>1, NodeDecFields
  <2> HIDE DEF t
  <2>15. t.me = s.me /\ t.shut = s.shut /\ t.user = s.user \ {r} /\ PassedOn(s, t, k, l)
    BY <2>5, <2>8, <2>10, <2>12, <2>14 DEF SameButOut, SameButHnode, SameButRefcnt, PassedOn
  <2>16. \A j \in Conn : /\ j # k => t.circuit[j].hnode = s.circuit[j].hnode
                         /\ t.circuit[j].refcnt = s.circuit[j].refcnt + IF j = k THEN -1 ELSE 0
    BY <2>5, <2>8, <2>10, <2>12, <2>14 DEF SameButOut, SameButHnode, SameButRefcnt
  <2>17. \A m \in Node : t.circuit[k].hnode[m] = s.circuit[k].hnode[m] + IF m = n THEN -1 ELSE 0
    BY <2>1, <2>5, <2>8, <2>10, <2>12, <2>14 DEF SameButOut, SameButHnode, SameButRefcnt
  <2>18. /\ \A m \in Node : s.node[m] \in Int /\ s.circuit[k].hnode[m] \in Int
         /\ \A j \in Conn : s.circuit[j].refcnt \in Int
    BY <2>1, StateFields, CircuitFields
  <2>19. Tables(t, Linking(s))
    <3>1. \A m \in Node : t.node[m] = s.node[m] - IF m = r.node THEN 1 ELSE 0
      BY <2>1, <2>3, <2>14, <2>18
    <3>2. \A j \in Conn : t.circuit[j].refcnt = s.circuit[j].refcnt
                                                 - IF j = r.circuit THEN 1 ELSE 0
      BY <2>4, <2>16, <2>18
    <3> QED
      BY <2>1, <2>3, <2>7, <2>15, <3>1, <3>2, LeaveTables
  <2>20. Sound(t)
    <3>1. \A m \in Node : m # n => t.circuit[k].hnode[m] = s.circuit[k].hnode[m]
      BY <2>17, <2>18
    <3>2. t.circuit[k].hnode[n] = t.node[n] /\ t.node[n] # 0
      BY <2>1, <2>11, <2>14, <2>17, <2>18
    <3>3. \A j \in Linked(s) : s.node[s.circuit[j].link] # 0
      BY DEF Sound
    <3>4. \A j \in Conn : j # k => t.circuit[j].hnode = s.circuit[j].hnode
      BY <2>16
    <3>5. t.me = s.me /\ \A m \in Node : m # n => t.node[m] = s.node[m]
      BY <2>14, <2>15
    <3> HIDE DEF n
    <3> QED
      BY <2>1, <2>7, <2>19, <3>1, <3>2, <3>3, <3>4, <3>5, StepSound
  <2>21. Pairs(t, k) \subseteq Pairs(s, k) \ {UserOf(l)}
    <3> SUFFICES ASSUME NEW q \in s.user, q # r, q.circuit = k
                 PROVE  PairOf(q) \in Pairs(s, k) /\ PairOf(q) # UserOf(l)
      BY <2>15 DEF Pairs, OnCircuit
    <3>1. q.call # r.call \/ q.node # r.node
      BY <2>1, <2>3 DEF Tables, Single
    <3> QED
      BY <2>3, <3>1 DEF Pairs, OnCircuit, PairOf, UserOf
  <2>22. \A j : Beyond(s, j) \ {UserOf(l)} \subseteq Beyond(t, j)
    <3> SUFFICES ASSUME NEW j, NEW q \in s.user, q.circuit # j, PairOf(q) # UserOf(l)
                 PROVE  PairOf(q) \in Beyond(t, j)
      BY DEF Beyond
    <3>1. q # r
      BY <2>3 DEF PairOf, UserOf
    <3> QED
      BY <2>15, <3>1 DEF Beyond
  <2>23. Beyond(s, k) \subseteq Beyond(t, k)
    BY <2>4, <2>15 DEF Beyond
  <2>24. Tells(s, t)
    <3>1. \A j \in Linked(s) : j # k => Hears(Beyond(s, j), l, Beyond(t, j))
      BY <2>22 DEF Hears
    <3> QED
      BY <2>1, <2>15, <2>23, <3>1, PassedTells
  <2> QED
    BY <2>6, <2>7, <2>15, <2>20, <2>21, <2>24 DEF Moves, Hears
<1> QED
  BY <1>1, <1>2

LEMMA IdLinkMoves ==
  ASSUME Forest, NEW s, Sound(s), NEW k \in Linked(s), NEW l \in LineSet, l.kind = "link",
         Proper(s.me, s.circuit[k].link, l), NEW Z, Hears(Pairs(s, k), l, Z)
  PROVE  Moves(s, id_link(s, k, l)) /\ Pairs(id_link(s, k, l), k) \subseteq Z
<1>1. CASE node_find(s, l.about)
  <2>1. id_link(s, k, l) = s
    BY <1>1 DEF id_link
  <2> QED
    BY <2>1, MovesNot, HearsSame
<1>2. CASE ~node_find(s, l.about)
  <2> DEFINE n == l.about
             a == cn_inc(s, k, n)
             t == echo(a, k, l)
  <2>1. /\ s \in State /\ k \in Conn /\ Steady(s) /\ n \in Side(s.me, s.circuit[k].link)
        /\ n \in Node /\ Tables(s, Linking(s)) /\ l.node \in Side(s.me, s.circuit[k].link)
    BY LinkFacts, OnLink DEF Sound, Proper, Steady
  <2>2. id_link(s, k, l) = t
    BY <1>2 DEF id_link
  <2>3. s.node[n] = 0 /\ UsersOf(s, n) = {} /\ s.circuit[k].hnode[n] = 0
    BY <1>2, <2>1, OnLink DEF node_find
  <2>4. /\ Keeps(s, a) /\ a \in State /\ SameButHnode(s, a, k, n, 1)
        /\ \A m \in Node : a.node[m] = s.node[m] + IF m = n THEN 1 ELSE 0
    BY <2>1, CnIncKeeps, CnIncFields DEF Keeps
  <2> HIDE DEF a
  <2>5. \A m \in Node : s.node[m] \in Int /\ s.circuit[k].hnode[m] \in Int
    BY <2>1, StateFields, CircuitFields
  <2>6. /\ \A m \in Node : m # n => a.node[m] = s.node[m]
        /\ \A m \in Node : m # n => a.circuit[k].hnode[m] = s.circuit[k].hnode[m]
        /\ a.node[n] = 1 /\ a.circuit[k].hnode[n] = 1
    BY <2>1, <2>3, <2>4, <2>5 DEF SameButHnode
  <2>7. /\ \A j \in Conn : a.circuit[j].refcnt = s.circuit[j].refcnt
        /\ \A j \in Conn : j # k => a.circuit[j].hnode = s.circuit[j].hnode
        /\ a.me = s.me /\ a.user = s.user /\ a.shut = s.shut /\ a.out = s.out
    BY <2>4 DEF SameButHnode
  <2>8. Tables(a, Linking(s))
    <3>1. k \in DOMAIN Linking(s) /\ n \in Side(s.me, Linking(s)[k])
      BY <2>1, LinkFacts
    <3> HIDE DEF n
    <3> QED
      BY <2>1, <2>3, <2>4, <2>6, <2>7, <3>1, LinkTables
  <2>9. Sound(a)
    <3>1. \A j \in Linked(s) : s.node[s.circuit[j].link] # 0
      BY DEF Sound
    <3> HIDE DEF n
    <3> QED
      BY <2>1, <2>4, <2>6, <2>7, <2>8, <3>1, StepSound
  <2>10. k \in Linked(a) /\ Linked(a) = Linked(s) /\ a.circuit[k].link = s.circuit[k].link
    BY <2>1, <2>4, LinksKept
  <2>11. Keeps(s, t) /\ Keeps(a, t)
    BY <2>1, <2>2, <2>4, IdLinkKeeps, EchoKeeps
  <2>12. SameButOut(a, t) /\ PassedOn(a, t, k, l)
    BY <2>1, <2>7, <2>9, <2>10, EchoPasses DEF Sound
  <2> HIDE DEF t
  <2>13. PassedOn(s, t, k, l) /\ t.me = s.me /\ t.shut = s.shut /\ t.user = s.user
    BY <2>7, <2>10, <2>12 DEF PassedOn, SameButOut
  <2>14. Sound(t)
    BY <2>9, <2>11, <2>12, SameOutSame, SoundSame
  <2>15. Pairs(t, k) = Pairs(s, k) /\ \A j : Beyond(t, j) = Beyond(s, j)
    BY <2>13 DEF Pairs, OnCircuit, Beyond
  <2>16. Tells(s, t)
    <3>1. \A j \in Linked(s) : j # k => Hears(Beyond(s, j), l, Beyond(t, j))
      BY <2>15 DEF Hears
    <3> QED
      BY <2>1, <2>13, <2>15, <3>1, PassedTells
  <2> QED
    BY <2>2, <2>11, <2>13, <2>14, <2>15, <2>16 DEF Moves, Hears
<1> QED
  BY <1>1, <1>2

LEMMA IdUnlinkMoves ==
  ASSUME Forest, NEW s, Sound(s), NEW k \in Linked(s), NEW l \in LineSet, l.kind = "unlink",
         Proper(s.me, s.circuit[k].link, l), NEW Z, Hears(Pairs(s, k), l, Z)
  PROVE  Moves(s, id_unlink(s, k, l)) /\ Pairs(id_unlink(s, k, l), k) \subseteq Z
<1>1. CASE ~cn_find(s, k, l.about)
  <2>1. id_unlink(s, k, l) = s
    BY <1>1 DEF id_unlink
  <2> QED
    BY <2>1, MovesNot, HearsSame
<1>2. CASE cn_find(s, k, l.about)
  <2> DEFINE n == l.about
             a == cn_dec(s, k, n)
             b == node_dec(a, n)
             t == echo(b, k, l)
  <2>1. /\ s \in State /\ k \in Conn /\ Steady(s) /\ n \in Side(s.me, s.circuit[k].link)
        /\ n \in Node /\ Tables(s, Linking(s)) /\ l.node \in Side(s.me, s.circuit[k].link)
        /\ n # s.circuit[k].link
    BY LinkFacts, OnLink DEF Sound, Proper, Steady
  <2>2. id_unlink(s, k, l) = t
    BY <1>2 DEF id_unlink
  <2>3. UsersOf(s, n) = {} /\ s.node[n] = 1 /\ s.circuit[k].hnode[n] = 1
    <3>1. \A r \in UsersOf(s, n) : PairOf(r) \in Pairs(s, k) /\ PairOf(r).node = n
      BY <2>1, OnLink DEF UsersOf, PairOf
    <3>2. UsersOf(s, n) = {}
      BY <3>1 DEF Hears
    <3>3. Cardinality(UsersOf(s, n)) = 0
      BY <2>1, <3>2, UserSets
    <3>4. s.circuit[k].hnode[n] = s.node[n] /\ s.node[n] # 0
      BY <1>2, <2>1, OnLink DEF cn_find
    <3>5. s.node[n] = 1
      BY <2>1, <3>3, <3>4, OnLink
    <3> QED
      BY <3>2, <3>4, <3>5
  <2>4. Keeps(s, a) /\ a \in State /\ SameButHnode(s, a, k, n, -1) /\ a.node = s.node
    BY <1>2, <2>1, CnDecKeeps, CnDecFields DEF Keeps
  <2> HIDE DEF a
  <2>5. \A m \in Node : s.node[m] \in Int /\ s.circuit[k].hnode[m] \in Int
    BY <2>1, StateFields, CircuitFields
  <2>6. /\ \A m \in Node : m # n => a.circuit[k].hnode[m] = s.circuit[k].hnode[m]
        /\ a.circuit[k].hnode[n] = 0
    BY <2>1, <2>3, <2>4, <2>5 DEF SameButHnode
  <2>7. /\ \A j \in Conn : a.circuit[j].refcnt = s.circuit[j].refcnt
        /\ \A j \in Conn : j # k => a.circuit[j].hnode = s.circuit[j].hnode
        /\ a.me = s.me /\ a.user = s.user /\ a.shut = s.shut /\ a.out = s.out
    BY <2>4 DEF SameButHnode
  <2>8. Linked(a) = Linked(s)
    BY <2>1, <2>4, LinksKept
  <2>9. {r \in a.user : r.node = n} = {} /\ {j \in Linked(a) : cn_find(a, j, n)} = {}
    <3>1. \A j \in Linked(s) : j \in Conn /\ (j # k => s.circuit[j].hnode[n] = 0)
      BY <2>1, OnLink DEF Linked
    <3>2. \A j \in Linked(s) : ~cn_find(a, j, n)
      BY <2>6, <2>7, <3>1 DEF cn_find
    <3>3. {r \in a.user : r.node = n} = {}
      BY <2>3, <2>7 DEF UsersOf
    <3> QED
      BY <2>8, <3>2, <3>3
  <2>10. Keeps(a, b) /\ b \in State
    BY <2>4, NodeDecKeeps DEF Keeps
  <2>11. /\ b.me = a.me /\ b.circuit = a.circuit /\ b.user = a.user /\ b.out = a.out
         /\ b.shut = a.shut /\ \A m \in Node : m # n => b.node[m] = a.node[m]
         /\ b.node[n] = 0
    <3>1. Cardinality({}) = 0
      BY FS_EmptySet
    <3> QED
      BY <2>1, <2>3, <2>4, <2>9, <3>1, NodeDecFields
  <2> HIDE DEF b
  <2>12. Keeps(s, b)
    BY <2>4, <2>10, KeepsOn
  <2>13. Tables(b, Linking(s))
    <3>1. k \in DOMAIN Linking(s) /\ n \in Side(s.me, Linking(s)[k])
      BY <2>1, LinkFacts
    <3> HIDE DEF n
    <3> QED
      BY <2>1, <2>3, <2>4, <2>7, <2>10, <2>11, <3>1, LinkTables
  <2>14. Sound(b)
    <3>1. \A j \in Linked(s) : s.node[s.circuit[j].link] # 0
      BY DEF Sound
    <3> HIDE DEF n
    <3> QED
      BY <2>1, <2>4, <2>6, <2>7, <2>11, <2>12, <2>13, <3>1, StepSound
  <2>15. k \in Linked(b) /\ Linked(b) = Linked(s) /\ b.circuit[k].link = s.circuit[k].link
    BY <2>1, <2>12, LinksKept
  <2>16. Keeps(s, t) /\ Keeps(b, t)
    BY <2>1, <2>2, <2>10, IdUnlinkKeeps, EchoKeeps
  <2>17. SameButOut(b, t) /\ PassedOn(b, t, k, l)
    BY <2>1, <2>7, <2>11, <2>14, <2>15, EchoPasses DEF Sound
  <2> HIDE DEF t
  <2>18. PassedOn(s, t, k, l) /\ t.me = s.me /\ t.shut = s.shut /\ t.user = s.user
    BY <2>7, <2>11, <2>15, <2>17 DEF PassedOn, SameButOut
  <2>19. Sound(t)
    BY <2>14, <2>16, <2>17, SameOutSame, SoundSame
  <2>20. Pairs(t, k) = Pairs(s, k) /\ \A j : Beyond(t, j) = Beyond(s, j)
    BY <2>18 DEF Pairs, OnCircuit, Beyond
  <2>21. Tells(s, t)
    <3>1. \A j : \A u \in Beyond(s, j) : u.node # n
      BY <2>3 DEF Beyond, PairOf, UsersOf
    <3>2. \A j \in Linked(s) : j # k => Hears(Beyond(s, j), l, Beyond(t, j))
      BY <2>20, <3>1 DEF Hears
    <3> QED
      BY <2>1, <2>18, <2>20, <3>2, PassedTells
  <2> QED
    BY <2>2, <2>16, <2>18, <2>19, <2>20, <2>21 DEF Moves, Hears
<1> QED
  BY <1>1, <1>2

\* A user changes topic.
LEMMA TopicTables ==
  ASSUME NEW s, NEW Q, Tables(s, Q), NEW r \in s.user, NEW c, NEW t \in State,
         t.user = (s.user \ {r}) \cup {[r EXCEPT !.topic = c]},
         t.me = s.me, t.node = s.node, t.circuit = s.circuit
  PROVE  /\ Tables(t, Q) /\ \A k \in Conn : InStep(s, Q, k) => InStep(t, Q, k)
         /\ \A k : Beyond(t, k) = Beyond(s, k) /\ Pairs(t, k) = Pairs(s, k)
<1> DEFINE q == [r EXCEPT !.topic = c]
           v == [s EXCEPT !.user = @ \ {r}]
<1>1. s \in State /\ r \in UserSet
  BY StateFields DEF Tables
<1>2. q.call = r.call /\ q.node = r.node /\ q.circuit = r.circuit
  BY <1>1 DEF UserSet
<1>3. v \in State /\ v.user = s.user \ {r}
  <2>1. v \in State
    <3>1. s.user \ {r} \in SUBSET UserSet /\ IsFiniteSet(s.user \ {r})
      BY <1>1, StateFields, FS_Subset
    <3> QED
      BY <1>1, <3>1, UpdatesKeep DEF Keeps
  <2> QED
    BY <1>1, <2>1 DEF State
<1> HIDE DEF v, q
<1>4. q \notin v.user /\ t.user = v.user \cup {q}
  BY <1>2, <1>3 DEF Tables, Single, q
<1>5. ASSUME NEW n
      PROVE  /\ Cardinality(UsersOf(t, n)) = Cardinality(UsersOf(s, n))
             /\ Cardinality(OnCircuit(t, n)) = Cardinality(OnCircuit(s, n))
  <2>1. /\ Cardinality(UsersOf(v, n)) =
                     Cardinality(UsersOf(s, n)) - IF n = r.node THEN 1 ELSE 0
        /\ Cardinality(OnCircuit(v, n)) =
                     Cardinality(OnCircuit(s, n)) - IF n = r.circuit THEN 1 ELSE 0
    BY <1>1, <1>3, UserLess
  <2>2. /\ Cardinality(UsersOf(t, n)) =
                     Cardinality(UsersOf(v, n)) + IF n = q.node THEN 1 ELSE 0
        /\ Cardinality(OnCircuit(t, n)) =
                     Cardinality(OnCircuit(v, n)) + IF n = q.circuit THEN 1 ELSE 0
    BY <1>3, <1>4, UserMore
  <2>3. Cardinality(UsersOf(s, n)) \in Nat /\ Cardinality(OnCircuit(s, n)) \in Nat
    BY <1>1, UserSets
  <2>4. Cardinality(UsersOf(t, n)) = Cardinality(UsersOf(s, n))
    BY <1>2, <2>1, <2>2, <2>3
  <2>5. Cardinality(OnCircuit(t, n)) = Cardinality(OnCircuit(s, n))
    BY <1>2, <2>1, <2>2, <2>3
  <2> QED
    BY <2>4, <2>5
<1>6. \A n : UsersOf(t, n) = {} <=> UsersOf(s, n) = {}
  <2> TAKE n
  <2>1. Cardinality(UsersOf(t, n)) = Cardinality(UsersOf(s, n))
    BY <1>5
  <2> QED
    BY <1>1, <2>1, UserSets
<1>7. Placed(t, Q) /\ Single(t) /\ Refs(t) /\ Links(t.me, Q)
  <2>1. \A x \in t.user : \E y \in s.user : x.call = y.call /\ x.node = y.node /\ x.circuit = y.circuit
    BY <1>2, <1>3, <1>4
  <2>2. Placed(t, Q)
    BY <2>1 DEF Tables, Placed
  <2>3. Single(t)
    BY <1>2, <1>3, <1>4 DEF Tables, Single
  <2>4. Refs(t)
    BY <1>5 DEF Tables, Refs
  <2> QED
    BY <2>2, <2>3, <2>4 DEF Tables
<1>8. Nodes(t, Q)
  <2>1. \A n \in Node \ {t.me} : Known(t, Q, n)
    BY <1>5, <1>6 DEF Tables, Nodes, Known
  <2>2. t.node[t.me] = Cardinality(UsersOf(t, t.me))
    BY <1>5 DEF Tables, Nodes
  <2> QED
    BY <2>1, <2>2 DEF Nodes
<1>9. \A k \in Conn : InStep(s, Q, k) => InStep(t, Q, k)
  BY DEF InStep
<1>10. PairOf(q) = PairOf(r)
  BY <1>2 DEF PairOf
<1>11. ASSUME NEW k
       PROVE  Beyond(t, k) = Beyond(s, k) /\ Pairs(t, k) = Pairs(s, k)
  <2>1. Beyond(t, k) = Beyond(s, k)
    BY <1>2, <1>3, <1>4, <1>10 DEF Beyond
  <2>2. Pairs(t, k) = Pairs(s, k)
    BY <1>2, <1>3, <1>4, <1>10 DEF Pairs, OnCircuit
  <2> QED
    BY <2>1, <2>2
<1> QED
  BY <1>7, <1>8, <1>9, <1>11 DEF Tables

LEMMA TopicChgFields ==
  ASSUME NEW s \in State, NEW r, NEW c
  PROVE  LET t == topic_chg(s, r, c)
         IN  /\ t.user = (s.user \ {r}) \cup {[r EXCEPT !.topic = c]} /\ t.me = s.me
             /\ t.node = s.node /\ t.circuit = s.circuit /\ t.out = s.out /\ t.shut = s.shut
  BY DEF topic_chg, State

LEMMA TopicSound ==
  ASSUME NEW s, NEW r \in s.user, NEW c, NEW t, Sound(s), t = topic_chg(s, r, c), Keeps(s, t)
  PROVE  Sound(t) /\ \A k : Beyond(t, k) = Beyond(s, k) /\ Pairs(t, k) = Pairs(s, k)
<1>1. s \in State /\ Tables(s, Linking(s)) /\ \A k \in Conn : InStep(s, Linking(s), k)
  BY DEF Sound, Steady, Tables
<1>2. /\ t.user = (s.user \ {r}) \cup {[r EXCEPT !.topic = c]} /\ t.me = s.me
      /\ t.node = s.node /\ t.circuit = s.circuit
  BY <1>1, TopicChgFields
<1>3. t \in State /\ Linking(t) = Linking(s) /\ Linked(t) = Linked(s)
  BY <1>1, LinksKept
<1>4. /\ Tables(t, Linking(s)) /\ \A k \in Conn : InStep(t, Linking(s), k)
      /\ \A k : Beyond(t, k) = Beyond(s, k) /\ Pairs(t, k) = Pairs(s, k)
  BY <1>1, <1>2, <1>3, TopicTables
<1> QED
  BY <1>2, <1>3, <1>4 DEF Sound, Steady

LEMMA IdTopicMoves ==
  ASSUME Forest, NEW s, Sound(s), NEW k \in Linked(s), NEW l \in LineSet, l.kind = "topic",
         Proper(s.me, s.circuit[k].link, l), NEW Z, Hears(Pairs(s, k), l, Z)
  PROVE  Moves(s, id_topic(s, k, l)) /\ Pairs(id_topic(s, k, l), k) \subseteq Z
<1> DEFINE R == {x \in user_find(s, l.about, l.node) : x.topic # l.topic}
           r == Picked(R)
           a == echo(s, k, l)
           t == topic_chg(a, r, l.topic)
<1>1. CASE R = {}
  <2>1. id_topic(s, k, l) = s
    BY <1>1 DEF id_topic
  <2> QED
    BY <2>1, MovesNot, HearsSame
<1>2. CASE R # {}
  <2>1. s \in State /\ k \in Conn /\ Steady(s) /\ l.node \in Side(s.me, s.circuit[k].link)
    BY LinkFacts DEF Sound, Proper
  <2>2. r \in s.user
    <3>1. r \in R
      BY <1>2, PickedIn
    <3> QED
      BY <3>1 DEF user_find
  <2>3. id_topic(s, k, l) = t
    BY <1>2 DEF id_topic, Picked
  <2>4. Keeps(s, t)
    BY <2>1, <2>3, IdTopicKeeps
  <2>5. Keeps(s, a) /\ a \in State /\ SameButOut(s, a) /\ PassedOn(s, a, k, l)
    BY <2>1, EchoKeeps, EchoPasses DEF Keeps
  <2> HIDE DEF R, r, a
  <2>6. Sound(a) /\ r \in a.user /\ \A j : Beyond(a, j) = Beyond(s, j) /\ Pairs(a, j) = Pairs(s, j)
    BY <2>2, <2>5, SameOutSame, SoundSame DEF SameButOut
  <2>7. Keeps(a, t)
    <3>1. r \in UserSet /\ l.topic \in Topic
      BY <2>5, <2>6, StateFields DEF LineSet
    <3> QED
      BY <2>5, <3>1, TopicChgKeeps
  <2>8. t.me = s.me /\ t.shut = s.shut /\ t.out = a.out
    BY <2>5, TopicChgFields DEF SameButOut
  <2>9. Sound(t) /\ \A j : Beyond(t, j) = Beyond(a, j) /\ Pairs(t, j) = Pairs(a, j)
    BY <2>6, <2>7, TopicSound
  <2> HIDE DEF t
  <2>10. Tells(s, t)
    <3>1. PassedOn(s, t, k, l)
      BY <2>5, <2>8 DEF PassedOn
    <3>2. \A j \in Linked(s) : j # k => Hears(Beyond(s, j), l, Beyond(t, j))
      BY <2>6, <2>9 DEF Hears
    <3> QED
      BY <2>1, <2>6, <2>9, <3>1, <3>2, PassedTells
  <2> QED
    BY <2>3, <2>4, <2>6, <2>8, <2>9, <2>10 DEF Moves, Hears
<1> QED
  BY <1>1, <1>2

LEMMA ChkctlMoves ==
  ASSUME Forest, NEW s, Sound(s), NEW k \in Linked(s), NEW l \in LineSet,
         Proper(s.me, s.circuit[k].link, l), NEW Z, Hears(Pairs(s, k), l, Z)
  PROVE  Moves(s, chkctl(s, k, l)) /\ Pairs(chkctl(s, k, l), k) \subseteq Z
<1>1. Steady(s) /\ l.node \in Side(s.me, s.circuit[k].link)
  BY DEF Sound, Proper
<1>2. CASE ~node_find(s, l.node) \/ l.node = s.me
  <2>1. chkctl(s, k, l) = s
    BY <1>2 DEF chkctl
  <2>2. UsersOf(s, l.node) = {}
    BY <1>1, <1>2, OnLink DEF node_find
  <2>3. UserOf(l) \notin Pairs(s, k)
    <3>1. \A r \in OnCircuit(s, k) : r.node # l.node
      BY <2>2 DEF OnCircuit, UsersOf
    <3>2. UserOf(l).node = l.node /\ \A r : PairOf(r).node = r.node
      BY DEF UserOf, PairOf
    <3> QED
      BY <3>1, <3>2 DEF Pairs
  <2> QED
    BY <2>1, <2>3, MovesNot, HearsSame
<1>3. CASE ~(~node_find(s, l.node) \/ l.node = s.me)
  <2>1. s.node[l.node] # 0
    BY <1>3 DEF node_find
  <2>2. CASE l.kind = "join"
    <3>1. chkctl(s, k, l) = id_join(s, k, l)
      BY <1>3, <2>2 DEF chkctl
    <3> QED
      BY <2>1, <2>2, <3>1, IdJoinMoves
  <2>3. CASE l.kind = "leave"
    <3>1. chkctl(s, k, l) = id_leave(s, k, l)
      BY <1>3, <2>3 DEF chkctl
    <3> QED
      BY <2>3, <3>1, IdLeaveMoves
  <2>4. CASE l.kind = "link"
    <3>1. chkctl(s, k, l) = id_link(s, k, l)
      BY <1>3, <2>4 DEF chkctl
    <3> QED
      BY <2>4, <3>1, IdLinkMoves
  <2>5. CASE l.kind = "unlink"
    <3>1. chkctl(s, k, l) = id_unlink(s, k, l)
      BY <1>3, <2>5 DEF chkctl
    <3> QED
      BY <2>5, <3>1, IdUnlinkMoves
  <2>6. CASE l.kind = "topic"
    <3>1. chkctl(s, k, l) = id_topic(s, k, l)
      BY <1>3, <2>6 DEF chkctl
    <3> QED
      BY <2>6, <3>1, IdTopicMoves
  <2>7. CASE l.kind \notin {"join", "leave", "link", "unlink", "topic"}
    <3>1. chkctl(s, k, l) = s
      BY <1>3, <2>7 DEF chkctl
    <3> QED
      BY <2>7, <3>1, MovesNot, HearsSame
  <2> QED
    BY <2>2, <2>3, <2>4, <2>5, <2>6, <2>7
<1> QED
  BY <1>2, <1>3

-----------------------------------------------------------------------------
(* Circuits that are no links.                                             *)

\* No user, no node and no reference is on a circuit that is no link.
LEMMA IdleFacts ==
  ASSUME NEW s, Steady(s), NEW k \in Conn, k \notin Linked(s)
  PROVE  /\ s \in State /\ OnCircuit(s, k) = {} /\ Pairs(s, k) = {} /\ s.circuit[k].refcnt = 0
         /\ \A n \in Node : s.circuit[k].hnode[n] = 0
<1>1. s \in State /\ k \notin DOMAIN Linking(s) /\ k # Local
  BY LinkingFacts DEF Steady, Tables, Conn, Local
<1>2. OnCircuit(s, k) = {}
  BY <1>1 DEF Steady, Tables, Placed, OnCircuit
<1>3. s.circuit[k].refcnt = 0
  <2>1. Cardinality({}) = 0
    BY FS_EmptySet
  <2> QED
    BY <1>2, <2>1 DEF Steady, Tables, Refs
<1>4. \A n \in Node : s.circuit[k].hnode[n] = 0
  BY <1>1 DEF Steady, InStep
<1> QED
  BY <1>1, <1>2, <1>3, <1>4 DEF Pairs

\* Such a circuit is given other contents.
LEMMA IdleSound ==
  ASSUME NEW s, Sound(s), NEW k \in Conn, k \notin Linked(s), NEW t \in State, k \notin Linked(t),
         t.me = s.me, t.user = s.user, t.node = s.node,
         \A j \in Conn : j # k => t.circuit[j] = s.circuit[j],
         t.circuit[k].refcnt = 0, \A n \in Node : t.circuit[k].hnode[n] = 0
  PROVE  Sound(t) /\ Linked(t) = Linked(s) /\ Linking(t) = Linking(s)
<1>1. Linked(t) = Linked(s)
  BY DEF Linked
<1>2. Linking(t) = Linking(s)
  <2>1. \A j \in Linked(s) : t.circuit[j].link = s.circuit[j].link
    BY DEF Linked
  <2> QED
    BY <1>1, <2>1 DEF Linking
<1>3. SameTables(s, t)
  BY IdleFacts DEF SameTables, Sound
<1>4. Steady(t)
  BY <1>2, <1>3, TablesSame DEF Sound, Steady
<1>5. \A j \in Linked(s) : t.circuit[j] = s.circuit[j]
  BY DEF Linked
<1> QED
  BY <1>1, <1>2, <1>4, <1>5 DEF Sound

\* Circuit k is no link any more, and nothing is on it.
Idled(s, t, k) ==
    /\ t.me = s.me /\ t.user = s.user /\ t.node = s.node /\ t.out = s.out /\ t.shut = s.shut
    /\ \A j \in Conn : j # k => t.circuit[j] = s.circuit[j]
    /\ t.circuit[k].rtcflags = "nil" /\ t.circuit[k].Active = s.circuit[k].Active
    /\ s.circuit[k].Active => t.circuit[k].link = s.circuit[k].link
    /\ t.circuit[k].refcnt = s.circuit[k].refcnt /\ \A n \in Node : t.circuit[k].hnode[n] = 0

LEMMA CircuitFreed ==
  ASSUME NEW s \in State, NEW k \in Conn
  PROVE  LET c == [s.circuit[k] EXCEPT !.hnode = Nobody, !.rtcflags = "nil"]
         IN  /\ c \in CircuitSet /\ c.rtcflags = "nil" /\ c.Active = s.circuit[k].Active
             /\ s.circuit[k].Active => c.link = s.circuit[k].link
             /\ c.refcnt = s.circuit[k].refcnt /\ \A n \in Node : c.hnode[n] = 0
<1>1. s.circuit[k] \in CircuitSet
  BY StateFields
<1>2. CASE s.circuit[k] \in InUse
  <2>1. [s.circuit[k] EXCEPT !.hnode = Nobody, !.rtcflags = "nil"] \in InUse
    BY <1>2, NobodyType DEF InUse, Flag
  <2> QED
    BY <1>2, <2>1 DEF CircuitSet, InUse, Nobody
<1>3. CASE s.circuit[k] \in NotInUse
  <2>1. [s.circuit[k] EXCEPT !.hnode = Nobody, !.rtcflags = "nil"] \in NotInUse
    BY <1>3, NobodyType DEF NotInUse
  <2> QED
    BY <1>3, <2>1 DEF CircuitSet, NotInUse, Nobody
<1> QED
  BY <1>1, <1>2, <1>3 DEF CircuitSet

\* No node is known when there is no link and no user: to forget them all is no change.
LEMMA NobodyKnown ==
  ASSUME NEW s, Tables(s, Linking(s)), Linked(s) = {}, OnCircuit(s, Local) = {}
  PROVE  s.node = Nobody
<1>1. s \in State /\ s.node \in [Node -> Int] /\ DOMAIN Linking(s) = {}
  BY StateFields, LinkingFacts DEF Tables
<1>2. s.user = {}
  BY <1>1 DEF Tables, Placed, OnCircuit
<1>3. \A n : UsersOf(s, n) = {} /\ Cardinality(UsersOf(s, n)) = 0
  BY <1>2, FS_EmptySet DEF UsersOf
<1>4. \A n \in Node : s.node[n] = 0
  BY <1>1, <1>3 DEF Tables, Nodes, Known
<1> QED
  BY <1>1, <1>4 DEF Nobody

LEMMA FreeIdles ==
  ASSUME NEW s, Tables(s, Linking(s)), NEW k \in Conn, k \notin Linked(s)
  PROVE  Idled(s, circuit_free(s, k), k) /\ circuit_free(s, k).flags = s.flags
<1> DEFINE c == [s.circuit[k] EXCEPT !.hnode = Nobody, !.rtcflags = "nil"]
           gone == [s EXCEPT !.circuit[k] = c]
<1>1. s \in State
  BY DEF Tables
<1>2. /\ c \in CircuitSet /\ c.rtcflags = "nil" /\ c.Active = s.circuit[k].Active
      /\ s.circuit[k].Active => c.link = s.circuit[k].link
      /\ c.refcnt = s.circuit[k].refcnt /\ \A n \in Node : c.hnode[n] = 0
  BY <1>1, CircuitFreed
<1>3. gone = [s EXCEPT !.circuit[k].hnode = Nobody, !.circuit[k].rtcflags = "nil"]
  OBVIOUS
<1> HIDE DEF c
<1>4. /\ gone.me = s.me /\ gone.user = s.user /\ gone.node = s.node /\ gone.out = s.out
      /\ gone.shut = s.shut /\ gone.flags = s.flags
      /\ gone.circuit[k] = c /\ \A j \in Conn : j # k => gone.circuit[j] = s.circuit[j]
  BY <1>1 DEF State
<1>5. CASE ~(Listed(gone) = {} /\ OnCircuit(gone, Local) = {})
  <2>1. circuit_free(s, k) = gone
    BY <1>3, <1>5 DEF circuit_free
  <2> HIDE DEF gone
  <2> QED
    BY <1>2, <1>4, <2>1 DEF Idled
<1>6. CASE Listed(gone) = {} /\ OnCircuit(gone, Local) = {}
  <2>1. circuit_free(s, k) = [gone EXCEPT !.node = Nobody]
    BY <1>3, <1>6 DEF circuit_free
  <2>2. Linked(s) = {} /\ OnCircuit(s, Local) = {}
    <3> HIDE DEF gone
    <3>1. OnCircuit(s, Local) = {}
      BY <1>4, <1>6 DEF OnCircuit
    <3>2. \A j \in Linked(s) : j \in Listed(gone)
      BY <1>4 DEF Linked, Listed
    <3> QED
      BY <1>6, <3>1, <3>2
  <2>3. gone.node = Nobody
    BY <1>4, <2>2, NobodyKnown
  <2> DEFINE u == [gone EXCEPT !.node = Nobody]
  <2>4. /\ u.me = gone.me /\ u.user = gone.user /\ u.node = Nobody /\ u.out = gone.out
        /\ u.shut = gone.shut /\ u.flags = gone.flags /\ u.circuit = gone.circuit
    BY <1>1 DEF State
  <2> HIDE DEF u, gone
  <2>5. Idled(s, u, k) /\ u.flags = s.flags
    BY <1>2, <1>4, <2>3, <2>4 DEF Idled
  <2> QED
    BY <2>1, <2>5 DEF u
<1> QED
  BY <1>5, <1>6

LEMMA IdledSound ==
  ASSUME NEW s, Sound(s), NEW k \in Conn, k \notin Linked(s), NEW t \in State, Idled(s, t, k)
  PROVE  Sound(t) /\ Linked(t) = Linked(s) /\ k \notin Linked(t)
<1>1. s.circuit[k].refcnt = 0
  BY IdleFacts DEF Sound
<1>2. k \notin Linked(t)
  BY DEF Linked, Idled
<1> QED
  BY <1>1, <1>2, IdleSound DEF Idled

-----------------------------------------------------------------------------
(* A link is dropped.                                                      *)

Unmarked(s, k) == [s EXCEPT !.flags[s.circuit[k].link] = "nil", !.circuit[k].rtcflags = "nil"]

LEMMA UnmarkedFields ==
  ASSUME NEW s \in State, NEW k \in Conn
  PROVE  LET a == Unmarked(s, k)
         IN  /\ a \in State /\ a.me = s.me /\ a.user = s.user /\ a.node = s.node
             /\ a.out = s.out /\ a.shut = s.shut
             /\ \A j \in Conn : j # k => a.circuit[j] = s.circuit[j]
             /\ a.circuit[k].rtcflags = "nil" /\ a.circuit[k].Active = s.circuit[k].Active
             /\ s.circuit[k].Active => a.circuit[k].link = s.circuit[k].link
             /\ a.circuit[k].refcnt = s.circuit[k].refcnt
             /\ a.circuit[k].hnode = s.circuit[k].hnode
<1> DEFINE p == s.circuit[k].link
           d == [s.circuit[k] EXCEPT !.rtcflags = "nil"]
           g == [s.flags EXCEPT ![p] = "nil"]
           a == [s EXCEPT !.flags = g, !.circuit[k] = d]
<1>1. s.circuit[k] \in CircuitSet /\ s.flags \in [Node -> Flag]
  BY StateFields
<1>2. d \in CircuitSet /\ d.rtcflags = "nil" /\ d.Active = s.circuit[k].Active
      /\ d.refcnt = s.circuit[k].refcnt /\ d.hnode = s.circuit[k].hnode
      /\ (s.circuit[k].Active => d.link = s.circuit[k].link)
  <2>1. CASE s.circuit[k] \in InUse
    <3>1. d \in InUse
      BY <2>1 DEF InUse, Flag
    <3> QED
      BY <2>1, <3>1 DEF CircuitSet, InUse
  <2>2. CASE s.circuit[k] \in NotInUse
    <3>1. d \in NotInUse
      BY <2>2 DEF NotInUse
    <3> QED
      BY <2>2, <3>1 DEF CircuitSet, NotInUse
  <2> QED
    BY <1>1, <2>1, <2>2 DEF CircuitSet
<1>3. g \in [Node -> Flag]
  <2> HIDE DEF p
  <2> QED
    BY <1>1 DEF Flag
<1>4. Unmarked(s, k) = a
  BY DEF Unmarked
<1> HIDE DEF d, g
<1>5. a \in State
  BY <1>2, <1>3, CircuitChanges
<1>6. /\ a.me = s.me /\ a.user = s.user /\ a.node = s.node /\ a.out = s.out /\ a.shut = s.shut
      /\ a.circuit[k] = d /\ \A j \in Conn : j # k => a.circuit[j] = s.circuit[j]
  BY DEF State
<1> HIDE DEF a
<1> QED
  BY <1>2, <1>4, <1>5, <1>6

LEMMA LinkDropIs ==
  ASSUME NEW s, NEW k
  PROVE  LET a == Unmarked(s, k)
             b == FoldSet(LAMBDA r, t : DropUser(t, r), a, OnCircuit(a, k))
             c == FoldSet(LAMBDA n, t : DropNode(t, n), b, {n \in Node : cn_find(b, k, n)})
         IN  link_drop(s, k) = circuit_free(c, k)
  BY DEF link_drop, Unmarked

\* One that is no link has nothing to drop.
LEMMA IdleDrops ==
  ASSUME NEW s, Sound(s), NEW k \in Conn, k \notin Linked(s)
  PROVE  Idled(s, link_drop(s, k), k)
<1> DEFINE a == Unmarked(s, k)
           b == FoldSet(LAMBDA r, t : DropUser(t, r), a, OnCircuit(a, k))
           c == FoldSet(LAMBDA n, t : DropNode(t, n), b, {n \in Node : cn_find(b, k, n)})
<1>1. s \in State /\ OnCircuit(s, k) = {} /\ s.circuit[k].refcnt = 0
      /\ \A n \in Node : s.circuit[k].hnode[n] = 0
  BY IdleFacts DEF Sound
<1>2. link_drop(s, k) = circuit_free(c, k)
  BY LinkDropIs
<1>3. /\ a \in State /\ a.me = s.me /\ a.user = s.user /\ a.node = s.node
      /\ a.out = s.out /\ a.shut = s.shut
      /\ \A j \in Conn : j # k => a.circuit[j] = s.circuit[j]
      /\ a.circuit[k].rtcflags = "nil" /\ a.circuit[k].Active = s.circuit[k].Active
      /\ s.circuit[k].Active => a.circuit[k].link = s.circuit[k].link
      /\ a.circuit[k].refcnt = s.circuit[k].refcnt
      /\ a.circuit[k].hnode = s.circuit[k].hnode
  BY <1>1, UnmarkedFields
<1> HIDE DEF a
<1>4. OnCircuit(a, k) = {}
  BY <1>1, <1>3 DEF OnCircuit
<1>5. b = a
  <2>1. IsFiniteSet(OnCircuit(a, k)) /\ OnCircuit(a, k) \subseteq UserSet
        /\ \A r \in OnCircuit(a, k) : r.circuit \in Conn
    BY <1>4, FS_EmptySet
  <2>2. PICK f : DropUsersIn(f, a, OnCircuit(a, k))
    BY <1>3, <2>1, DropUsersRun
  <2> QED
    BY <1>4, <2>2 DEF DropUsersIn
<1> HIDE DEF b
<1>6. c = a
  <2> DEFINE N == {n \in Node : cn_find(b, k, n)}
  <2>1. N = {}
    BY <1>1, <1>3, <1>5 DEF cn_find
  <2>2. c = FoldSet(LAMBDA n, t : DropNode(t, n), b, N)
    OBVIOUS
  <2>3. IsFiniteSet(N) /\ N \subseteq Node
    BY <2>1, FS_EmptySet
  <2> HIDE DEF N, c
  <2>4. PICK f : DropNodesIn(f, b, N)
    BY <1>3, <1>5, <2>3, DropNodesRun
  <2> QED
    BY <1>5, <2>1, <2>2, <2>4 DEF DropNodesIn
<1> HIDE DEF c
<1>7. k \notin Linked(a)
  BY <1>3 DEF Linked
<1>8. Sound(a)
  BY <1>1, <1>3, <1>7, IdleSound
<1>9. Idled(a, circuit_free(a, k), k)
  BY <1>7, <1>8, FreeIdles DEF Sound, Steady
<1> QED
  BY <1>2, <1>3, <1>6, <1>9 DEF Idled

\* What is so of the node while the link k of s is dropped, t being what it has come to.
Dropping(s, k, t, P, X) ==
    /\ Tables(t, Linking(s)) /\ t.me = s.me /\ t.shut = s.shut
    /\ Linked(t) = Linked(s) \ {k}
    /\ \A j \in Linked(t) : t.circuit[j].link = s.circuit[j].link
    /\ \A j \in Conn : j # k => InStep(t, Linking(s), j)
    /\ t.circuit[k].hnode = s.circuit[k].hnode
    /\ Says(t, P, X \cup {k})

\* The nodes on the side of k, while it is dropped.
LEMMA DroppingFacts ==
  ASSUME Forest, NEW s, Steady(s), NEW k \in Linked(s), NEW t, NEW P, NEW X,
         Dropping(s, k, t, P, X), NEW n \in Side(s.me, s.circuit[k].link)
  PROVE  /\ t \in State /\ n \in Node /\ n # t.me /\ t.me \in Node
         /\ Without(t, n) = Linked(t) /\ \A j \in Linked(t) : j # k /\ t.circuit[j].hnode[n] = 0
         /\ \A r \in UsersOf(t, n) : r.circuit = k
         /\ \A j \in Linked(t) : /\ n \in Side(t.circuit[j].link, t.me)
                                 /\ t.me \in Side(t.circuit[j].link, t.me)
         /\ Known(t, Linking(s), n)
<1> DEFINE Q == Linking(s)
<1>1. /\ k \in Conn /\ k \in DOMAIN Q /\ Q[k] = s.circuit[k].link /\ n \in Node /\ n # s.me
      /\ DOMAIN Q = Linked(s) /\ DOMAIN Q \subseteq Conn
  BY LinkFacts, LinkingFacts
<1>2. /\ t \in State /\ Links(t.me, Q) /\ t.me = s.me /\ Linked(t) \subseteq DOMAIN Q
      /\ \A j \in Linked(t) : j # k /\ j \in DOMAIN Q /\ InStep(t, Q, j)
  BY <1>1 DEF Dropping, Tables
<1> HIDE DEF Q
<1>3. \A j \in Linked(t) : n \notin Side(t.me, Q[j])
  BY <1>1, <1>2, OneSide
<1>4. \A j \in Linked(t) : t.circuit[j].hnode[n] = 0
  BY <1>1, <1>2, <1>3 DEF InStep
<1>5. Without(t, n) = Linked(t)
  BY <1>4 DEF Without, cn_find
<1>6. \A r \in UsersOf(t, n) : r.circuit = k
  <2> TAKE r \in UsersOf(t, n)
  <2>1. r \in t.user /\ r.node = n
    BY DEF UsersOf
  <2>2. r.circuit \in DOMAIN Q /\ n \in Side(t.me, Q[r.circuit])
    BY <1>1, <1>2, <2>1 DEF Dropping, Tables, Placed, Q
  <2> QED
    BY <1>1, <1>2, <2>2, OneSide
<1>7. \A j \in Linked(t) : Q[j] = t.circuit[j].link
  BY <1>1, <1>2, LinkFacts DEF Dropping, Q
<1>8. \A j \in Linked(t) : /\ n \in Side(t.circuit[j].link, t.me)
                           /\ t.me \in Side(t.circuit[j].link, t.me)
  BY <1>1, <1>2, <1>7, OtherSide
<1>9. Known(t, Q, n)
  BY <1>1, <1>2 DEF Dropping, Tables, Nodes, Q
<1> QED
  BY <1>1, <1>2, <1>4, <1>5, <1>6, <1>8, <1>9 DEF Links, Q

LEMMA DropUserDrops ==
  ASSUME Forest, NEW s, Steady(s), NEW k \in Linked(s), NEW t, NEW P, NEW X,
         Dropping(s, k, t, P, X), NEW r \in t.user, r.circuit = k
  PROVE  LET u == DropUser(t, r)
         IN  /\ Dropping(s, k, u, P, X) /\ u.user = t.user \ {r}
             /\ \A n \in Node : u.node[n] = 0 <=> t.node[n] = 0
<1> DEFINE Q == Linking(s)
           n == r.node
           l == UserLine("leave", r)
           a == user_tell(t, r, "leave")
           b == [a EXCEPT !.user = @ \ {r}]
           c == [b EXCEPT !.circuit[k].refcnt = @ - 1]
           u == node_dec(c, n)
<1>1. /\ t \in State /\ r \in UserSet /\ k \in Conn /\ Tables(t, Q) /\ k # Local
      /\ k \in DOMAIN Q /\ Q[k] = s.circuit[k].link
  <2>1. t \in State /\ k \in Conn
    BY LinkFacts DEF Dropping, Tables
  <2> QED
    BY <2>1, LinkFacts, StateFields DEF Dropping, Conn, Local
<1>2. n \in Side(s.me, s.circuit[k].link)
  <2>1. n \in Side(t.me, Q[k])
    BY <1>1 DEF Tables, Placed
  <2> QED
    BY <1>1, <2>1 DEF Dropping
<1> HIDE DEF Q
<1>3. /\ n \in Node /\ n # t.me /\ Without(t, n) = Linked(t) /\ Known(t, Q, n)
      /\ \A j \in Linked(t) : j # k /\ n \in Side(t.circuit[j].link, t.me)
  BY <1>2, DroppingFacts DEF Q
<1>4. DropUser(t, r) = u
  <2>1. c = [a EXCEPT !.user = @ \ {r}, !.circuit[r.circuit].refcnt = @ - 1]
    OBVIOUS
  <2> HIDE DEF c
  <2> QED
    BY <2>1 DEF DropUser
<1>5. Keeps(t, u) /\ u \in State
  BY <1>1, <1>4, DropUserKeeps DEF Keeps
<1>6. a \in State /\ SameButOut(t, a)
      /\ \A j \in Conn : a.out[j] = IF j \in Linked(t) THEN Append(t.out[j], l) ELSE t.out[j]
  <2>1. a \in State
    <3>1. r.call \in Node \cup User /\ r.node \in Node /\ "leave" \in LineKind
      BY <1>1 DEF UserSet, LineKind
    <3> QED
      BY <1>1, <3>1, UserTellKeeps DEF Keeps
  <2> QED
    BY <1>1, <1>3, <2>1, SendFields DEF user_tell
<1> HIDE DEF a
<1>7. /\ b \in State /\ b.me = a.me /\ b.shut = a.shut /\ b.circuit = a.circuit
      /\ b.node = a.node /\ b.out = a.out /\ b.user = a.user \ {r}
  <2>1. b \in State
    BY <1>1, <1>6, UserSetKeeps DEF Keeps
  <2> QED
    BY <1>6, <2>1 DEF State
<1> HIDE DEF b
<1>8. c \in State /\ SameButRefcnt(b, c, k, -1)
  BY <1>1, <1>7, RefcntKeeps, RefcntFields DEF Keeps
<1> HIDE DEF c
<1>9. c.node = t.node
  BY <1>6, <1>7, <1>8 DEF SameButOut, SameButRefcnt
<1>10. t.node[n] = 1 + Cardinality(UsersOf(t, n)) /\ Cardinality(UsersOf(t, n)) \in Nat \ {0}
  <2>1. r \in UsersOf(t, n)
    BY DEF UsersOf
  <2>2. Cardinality(UsersOf(t, n)) \in Nat /\ UsersOf(t, n) # {}
    BY <1>1, <2>1, UserSets
  <2> QED
    BY <1>1, <1>3, <2>2, UserSets DEF Known
<1>11. /\ u.me = c.me /\ u.circuit = c.circuit /\ u.user = c.user /\ u.out = c.out
       /\ u.shut = c.shut /\ \A m \in Node : m # n => u.node[m] = t.node[m]
       /\ u.node[n] = t.node[n] - 1
  <2>1. c.node[n] = t.node[n] /\ c.node[n] # 1
    BY <1>9, <1>10
  <2>2. c \in State /\ n \in Node
    BY <1>3, <1>8
  <2> HIDE DEF n
  <2>3. /\ u.me = c.me /\ u.circuit = c.circuit /\ u.user = c.user /\ u.out = c.out
        /\ u.shut = c.shut /\ \A m \in Node : m # n => u.node[m] = c.node[m]
        /\ c.node[n] # 1 => u.node[n] = c.node[n] - 1
    BY <2>2, NodeDecFields
  <2> QED
    BY <1>9, <2>1, <2>3
<1> HIDE DEF u
<1>12. u.me = t.me /\ u.shut = t.shut /\ u.user = t.user \ {r} /\ u.out = a.out
  BY <1>6, <1>7, <1>8, <1>11 DEF SameButOut, SameButRefcnt
<1>13. \A j \in Conn : /\ u.circuit[j].hnode = t.circuit[j].hnode
                       /\ u.circuit[j].refcnt = t.circuit[j].refcnt + IF j = k THEN -1 ELSE 0
  BY <1>6, <1>7, <1>8, <1>11 DEF SameButOut, SameButRefcnt
<1>14. Tables(u, Q)
  <2>1. \A m \in Node : t.node[m] \in Int
    BY <1>1, StateFields
  <2>2. \A m \in Node : u.node[m] = t.node[m] - IF m = r.node THEN 1 ELSE 0
    BY <1>3, <1>11, <2>1
  <2>3. \A j \in Conn : t.circuit[j].refcnt \in Int
    BY <1>1, StateFields, CircuitFields
  <2>4. \A j \in Conn : u.circuit[j].refcnt = t.circuit[j].refcnt
                                               - IF j = r.circuit THEN 1 ELSE 0
    BY <1>13, <2>3
  <2> QED
    BY <1>1, <1>5, <1>12, <2>2, <2>4, LeaveTables
<1>15. \A m \in Node : u.node[m] = 0 <=> t.node[m] = 0
  BY <1>3, <1>10, <1>11
<1>16. \A j \in Conn : j # k => InStep(u, Q, j)
  <2> TAKE j \in Conn
  <2> HAVE j # k
  <2>1. InStep(t, Q, j)
    BY DEF Dropping, Q
  <2>2. j \in DOMAIN Q => n \notin Side(t.me, Q[j])
    <3>1. Links(t.me, Q) /\ n \in Side(t.me, Q[k])
      BY <1>1, <1>2 DEF Tables, Dropping
    <3> QED
      BY <1>1, <3>1, OneSide
  <2> QED
    BY <1>11, <1>12, <1>13, <2>1, <2>2 DEF InStep
<1>17. /\ Linked(u) = Linked(t)
       /\ \A j \in Linked(t) : u.circuit[j].link = t.circuit[j].link
  BY <1>1, <1>5, LinksKept
<1>18. Tells(t, u)
  <2>1. l \in LineSet
    <3>1. r.call \in Node \cup User /\ "leave" \in LineKind
      BY <1>1 DEF UserSet, LineKind
    <3> QED
      BY <1>3, <3>1, UserLineType
  <2>2. l.kind = "leave" /\ l.node = n /\ UserOf(l) = PairOf(r)
    BY DEF UserLine, Line, UserOf, PairOf
  <2> HIDE DEF l
  <2>3. ASSUME NEW j \in Linked(t)
        PROVE  TellsOn(t, u, j)
    <3>1. Hears(Beyond(t, j), l, Beyond(u, j))
      BY <1>12, <2>2 DEF Hears, Beyond
    <3>2. Proper(t.circuit[j].link, t.me, l)
      BY <1>3, <2>2 DEF Proper
    <3>3. u.out[j] = Append(t.out[j], l)
      BY <1>6, <1>12 DEF Linked
    <3> QED
      BY <2>1, <3>1, <3>2, <3>3 DEF TellsOn
  <2> QED
    BY <1>6, <1>12, <2>3 DEF Tells
<1>19. Says(u, P, X \cup {k})
  BY <1>1, <1>5, <1>12, <1>18, SaysStep DEF Dropping
<1>20. Dropping(s, k, u, P, X)
  BY <1>1, <1>12, <1>13, <1>14, <1>16, <1>17, <1>19 DEF Dropping, Q
<1> QED
  BY <1>4, <1>12, <1>15, <1>20

LEMMA DropNodeDrops ==
  ASSUME Forest, NEW s, Steady(s), NEW k \in Linked(s), NEW t, NEW P, NEW X,
         Dropping(s, k, t, P, X), NEW n \in Side(s.me, s.circuit[k].link),
         t.node[n] # 0, UsersOf(t, n) = {}
  PROVE  LET u == DropNode(t, n)
         IN  /\ Dropping(s, k, u, P, X) /\ u.user = t.user
             /\ \A m \in Node : u.node[m] = IF m = n THEN 0 ELSE t.node[m]
<1> DEFINE Q == Linking(s)
           l == NodeLine(t, "unlink", n)
           a == node_tell(t, n, "unlink")
           u == node_dec(a, n)
<1>1. /\ t \in State /\ k \in Conn /\ Tables(t, Q) /\ k \in DOMAIN Q /\ Q[k] = s.circuit[k].link
      /\ t.me = s.me
  BY LinkFacts DEF Dropping, Tables
<1> HIDE DEF Q
<1>2. /\ n \in Node /\ n # t.me /\ Without(t, n) = Linked(t) /\ Known(t, Q, n)
      /\ \A j \in Linked(t) : /\ j # k /\ t.circuit[j].hnode[n] = 0
                              /\ n \in Side(t.circuit[j].link, t.me)
                              /\ t.me \in Side(t.circuit[j].link, t.me)
  BY DroppingFacts DEF Q
<1>3. DropNode(t, n) = u
  BY DEF DropNode
<1>4. Keeps(t, u) /\ u \in State
  BY <1>1, <1>2, <1>3, DropNodeKeeps DEF Keeps
<1>5. a \in State /\ SameButOut(t, a)
      /\ \A j \in Conn : a.out[j] = IF j \in Linked(t) THEN Append(t.out[j], l) ELSE t.out[j]
  <2>1. a \in State
    <3>1. "unlink" \in LineKind
      BY DEF LineKind
    <3> QED
      BY <1>1, <1>2, <3>1, NodeTellKeeps DEF Keeps
  <2> QED
    BY <1>1, <1>2, <2>1, SendFields DEF node_tell
<1> HIDE DEF a
<1>6. t.node[n] = 1
  <2>1. Cardinality(UsersOf(t, n)) = 0
    BY <1>1, UserSets
  <2> QED
    BY <1>2, <2>1 DEF Known
<1>7. {r \in a.user : r.node = n} = {} /\ {j \in Linked(a) : cn_find(a, j, n)} = {}
  <2>1. {r \in a.user : r.node = n} = {}
    BY <1>5 DEF SameButOut, UsersOf
  <2>2. {j \in Linked(a) : cn_find(a, j, n)} = {}
    BY <1>2, <1>5 DEF SameButOut, Linked, cn_find
  <2> QED
    BY <2>1, <2>2
<1>8. /\ u.me = a.me /\ u.circuit = a.circuit /\ u.user = a.user /\ u.out = a.out
      /\ u.shut = a.shut /\ \A m \in Node : m # n => u.node[m] = a.node[m]
      /\ u.node[n] = 0
  <2>1. Cardinality({}) = 0 /\ a.node[n] = 1
    BY <1>5, <1>6, FS_EmptySet DEF SameButOut
  <2> QED
    BY <1>2, <1>5, <1>7, <2>1, NodeDecFields
<1> HIDE DEF u
<1>9. /\ u.me = t.me /\ u.circuit = t.circuit /\ u.user = t.user /\ u.out = a.out
      /\ u.shut = t.shut /\ \A m \in Node : m # n => u.node[m] = t.node[m]
  BY <1>5, <1>8 DEF SameButOut
<1>10. Tables(u, Q)
  <2>1. n \in Side(t.me, Q[k])
    BY <1>1
  <2> QED
    BY <1>1, <1>4, <1>8, <1>9, <2>1, LinkTables
<1>11. \A j \in Conn : j # k => InStep(u, Q, j)
  <2> TAKE j \in Conn
  <2> HAVE j # k
  <2>1. InStep(t, Q, j)
    BY DEF Dropping, Q
  <2>2. j \in DOMAIN Q => n \notin Side(t.me, Q[j])
    <3>1. Links(t.me, Q)
      BY <1>1 DEF Tables
    <3> QED
      BY <1>1, <3>1, OneSide
  <2> QED
    BY <1>9, <2>1, <2>2 DEF InStep
<1>12. /\ Linked(u) = Linked(t)
       /\ \A j \in Linked(t) : u.circuit[j].link = t.circuit[j].link
  BY <1>9 DEF Linked
<1>13. Tells(t, u)
  <2>1. l \in LineSet
    <3>1. "unlink" \in LineKind
      BY DEF LineKind
    <3> QED
      BY <1>1, <1>2, <3>1, NodeLineType
  <2>2. l.kind = "unlink" /\ l.node = t.me /\ l.about = n
    BY DEF NodeLine, Line
  <2> HIDE DEF l
  <2>3. ASSUME NEW j \in Linked(t)
        PROVE  TellsOn(t, u, j)
    <3>1. Beyond(u, j) = Beyond(t, j)
      BY <1>9 DEF Beyond
    <3>2. \A x \in Beyond(t, j) : x.node # n
      BY DEF Beyond, PairOf, UsersOf
    <3>3. Hears(Beyond(t, j), l, Beyond(u, j))
      BY <2>2, <3>1, <3>2 DEF Hears
    <3>4. Proper(t.circuit[j].link, t.me, l)
      BY <1>2, <2>2 DEF Proper
    <3>5. u.out[j] = Append(t.out[j], l)
      BY <1>5, <1>9 DEF Linked
    <3> QED
      BY <2>1, <3>3, <3>4, <3>5 DEF TellsOn
  <2> QED
    BY <1>5, <1>9, <2>3 DEF Tells
<1>14. Says(u, P, X \cup {k})
  BY <1>1, <1>4, <1>9, <1>13, SaysStep DEF Dropping
<1>15. Dropping(s, k, u, P, X)
  BY <1>1, <1>9, <1>10, <1>11, <1>12, <1>14 DEF Dropping, Q
<1> QED
  BY <1>3, <1>8, <1>9, <1>15

-----------------------------------------------------------------------------
(* The loops of link_drop.                                                 *)

DropUsers(a, S) == FoldSet(LAMBDA r, t : DropUser(t, r), a, S)
DropNodes(b, N) == FoldSet(LAMBDA n, t : DropNode(t, n), b, N)

LEMMA UnmarkedDrops ==
  ASSUME NEW s, Steady(s), NEW k \in Linked(s), NEW P, NEW X, Says(s, P, X)
  PROVE  Dropping(s, k, Unmarked(s, k), P, X)
<1> DEFINE a == Unmarked(s, k)
<1>1. s \in State /\ k \in Conn /\ Tables(s, Linking(s)) /\ Linked(s) \subseteq Conn
      /\ \A j \in Conn : InStep(s, Linking(s), j)
  BY LinkFacts, LinkingFacts DEF Steady
<1>2. /\ a \in State /\ a.me = s.me /\ a.user = s.user /\ a.node = s.node
      /\ a.out = s.out /\ a.shut = s.shut
      /\ \A j \in Conn : j # k => a.circuit[j] = s.circuit[j]
      /\ a.circuit[k].rtcflags = "nil" /\ a.circuit[k].refcnt = s.circuit[k].refcnt
      /\ a.circuit[k].hnode = s.circuit[k].hnode
  BY <1>1, UnmarkedFields
<1> HIDE DEF a
<1>3. SameTables(s, a)
  BY <1>2 DEF SameTables
<1>4. Tables(a, Linking(s)) /\ \A j \in Conn : InStep(a, Linking(s), j)
  BY <1>1, <1>2, <1>3, TablesSame
<1>5. Linked(a) = Linked(s) \ {k}
  BY <1>1, <1>2 DEF Linked
<1>6. \A j \in Linked(a) : a.circuit[j].link = s.circuit[j].link
  BY <1>1, <1>2, <1>5
<1>7. Says(a, P, X \cup {k})
  BY <1>2, SaysLess
<1> QED
  BY <1>2, <1>4, <1>5, <1>6, <1>7 DEF Dropping, a

LEMMA UsersDropped ==
  ASSUME Forest, NEW s, Steady(s), NEW k \in Linked(s), NEW a, NEW P, NEW X,
         Dropping(s, k, a, P, X), NEW b, b = DropUsers(a, OnCircuit(a, k))
  PROVE  /\ Keeps(a, b) /\ Dropping(s, k, b, P, X) /\ b.user = a.user \ OnCircuit(a, k)
         /\ \A n \in Node : b.node[n] = 0 <=> a.node[n] = 0
<1> DEFINE S == OnCircuit(a, k)
<1>1. a \in State /\ k \in Conn
  BY LinkFacts DEF Dropping, Tables
<1>2. S \subseteq UserSet /\ IsFiniteSet(S) /\ \A r \in S : r.circuit = k /\ r \in a.user
  BY <1>1, StateFields, FS_Subset DEF OnCircuit
<1> HIDE DEF S
<1>3. PICK f : DropUsersIn(f, a, S)
  BY <1>1, <1>2, DropUsersRun
<1> DEFINE G == {x \in SUBSET S : /\ Keeps(a, f[x]) /\ Dropping(s, k, f[x], P, X)
                                  /\ f[x].user = a.user \ x
                                  /\ \A n \in Node : f[x].node[n] = 0 <=> a.node[n] = 0}
<1>4. {} \in G
  BY <1>1, <1>3, KeepsItself DEF DropUsersIn
<1>5. \A x \in SUBSET S : x # {} => \E z \in x : x \ {z} \in G => x \in G
  <2> TAKE x \in SUBSET S
  <2> HAVE x # {}
  <2>1. Picked(x) \in x
    BY PickedIn
  <2> DEFINE r == Picked(x)
             t == f[x \ {r}]
  <2>2. f[x] = DropUser(t, r)
    BY <1>3 DEF DropUsersIn
  <2> SUFFICES ASSUME x \ {r} \in G
               PROVE  x \in G
    BY <2>1
  <2>3. /\ Keeps(a, t) /\ Dropping(s, k, t, P, X) /\ t.user = a.user \ (x \ {r})
        /\ \A n \in Node : t.node[n] = 0 <=> a.node[n] = 0
    OBVIOUS
  <2>4. r \in t.user /\ r.circuit = k /\ t \in State /\ r \in UserSet
    BY <1>2, <2>1, <2>3 DEF Keeps
  <2> HIDE DEF t, r
  <2>5. /\ Dropping(s, k, f[x], P, X) /\ f[x].user = t.user \ {r}
        /\ \A n \in Node : f[x].node[n] = 0 <=> t.node[n] = 0
    BY <2>2, <2>3, <2>4, DropUserDrops
  <2>6. Keeps(a, f[x])
    BY <1>1, <2>2, <2>3, <2>4, DropUserKeeps, KeepsOn
  <2>7. f[x].user = a.user \ x
    BY <2>1, <2>3, <2>5 DEF r
  <2> QED
    BY <2>3, <2>5, <2>6, <2>7
<1>6. S \in G
  <2> HIDE DEF G
  <2> QED
    BY <1>2, <1>4, <1>5, SubsetInduction
<1>7. b = f[S] /\ S = OnCircuit(a, k)
  BY <1>3 DEF DropUsersIn, DropUsers, S
<1> QED
  BY <1>3, <1>6, <1>7 DEF DropUsersIn

LEMMA NodesDropped ==
  ASSUME Forest, NEW s, Steady(s), NEW k \in Linked(s), NEW b, NEW P, NEW X,
         Dropping(s, k, b, P, X), NEW N \in SUBSET Side(s.me, s.circuit[k].link),
         \A n \in N : b.node[n] # 0 /\ UsersOf(b, n) = {}, NEW c, c = DropNodes(b, N)
  PROVE  /\ Keeps(b, c) /\ Dropping(s, k, c, P, X) /\ c.user = b.user
         /\ \A n \in Node : c.node[n] = IF n \in N THEN 0 ELSE b.node[n]
<1>1. b \in State /\ N \subseteq Node /\ IsFiniteSet(N)
  BY LinkFacts, ChatAssumption, FS_Subset DEF Dropping, Tables
<1>3. PICK f : DropNodesIn(f, b, N)
  BY <1>1, DropNodesRun
<1> DEFINE G == {x \in SUBSET N : /\ Keeps(b, f[x]) /\ Dropping(s, k, f[x], P, X)
                                  /\ f[x].user = b.user
                                  /\ \A n \in Node : f[x].node[n] = IF n \in x THEN 0 ELSE b.node[n]}
<1>4. {} \in G
  BY <1>1, <1>3, KeepsItself DEF DropNodesIn
<1>5. \A x \in SUBSET N : x # {} => \E z \in x : x \ {z} \in G => x \in G
  <2> TAKE x \in SUBSET N
  <2> HAVE x # {}
  <2>1. Picked(x) \in x
    BY PickedIn
  <2> DEFINE n == Picked(x)
             t == f[x \ {n}]
  <2>2. f[x] = DropNode(t, n)
    BY <1>3 DEF DropNodesIn
  <2> SUFFICES ASSUME x \ {n} \in G
               PROVE  x \in G
    BY <2>1
  <2>3. /\ Keeps(b, t) /\ Dropping(s, k, t, P, X) /\ t.user = b.user
        /\ \A m \in Node : t.node[m] = IF m \in x \ {n} THEN 0 ELSE b.node[m]
    OBVIOUS
  <2>4. /\ n \in N /\ n \in Node /\ n \in Side(s.me, s.circuit[k].link) /\ t \in State
        /\ t.node[n] # 0
    BY <1>1, <2>1, <2>3 DEF Keeps
  <2> HIDE DEF t, n
  <2>5. UsersOf(t, n) = {}
    BY <2>3, <2>4 DEF UsersOf
  <2>6. /\ Dropping(s, k, f[x], P, X) /\ f[x].user = t.user
        /\ \A m \in Node : f[x].node[m] = IF m = n THEN 0 ELSE t.node[m]
    BY <2>2, <2>3, <2>4, <2>5, DropNodeDrops
  <2>7. Keeps(b, f[x])
    BY <1>1, <2>2, <2>3, <2>4, DropNodeKeeps, KeepsOn
  <2>8. n \in x
    BY <2>1 DEF n
  <2>9. \A m \in Node : f[x].node[m] = IF m \in x THEN 0 ELSE b.node[m]
    BY <2>3, <2>6, <2>8
  <2> QED
    BY <2>3, <2>6, <2>7, <2>9
<1>6. N \in G
  <2> HIDE DEF G
  <2> QED
    BY <1>1, <1>4, <1>5, SubsetInduction
<1> QED
  BY <1>3, <1>6 DEF DropNodesIn, DropNodes

\* The tables do not tell a circuit that is no link from an empty one.
LEMMA TablesHeld ==
  ASSUME NEW s, NEW Q, Tables(s, Q), NEW t \in State,
         t.me = s.me, t.user = s.user, t.node = s.node,
         \A j \in Conn : t.circuit[j].refcnt = s.circuit[j].refcnt
  PROVE  Tables(t, Q)
<1>1. \A n : UsersOf(t, n) = UsersOf(s, n) /\ OnCircuit(t, n) = OnCircuit(s, n)
  BY DEF UsersOf, OnCircuit
<1>2. Placed(t, Q) /\ Single(t) /\ Refs(t) /\ Links(t.me, Q)
  BY <1>1 DEF Tables, Placed, Single, Refs
<1>3. Nodes(t, Q)
  BY <1>1 DEF Tables, Nodes, Known
<1> QED
  BY <1>2, <1>3 DEF Tables

\* What is left when the users and nodes of k are gone.
LEMMA LeftSteady ==
  ASSUME Forest, NEW s, Steady(s), NEW k \in Linked(s), NEW c, NEW P, NEW X,
         Dropping(s, k, c, P, X), OnCircuit(c, k) = {},
         \A n \in Side(s.me, s.circuit[k].link) : c.node[n] = 0
  PROVE  Tables(c, Linking(c)) /\ \A j \in Conn : j # k => InStep(c, Linking(c), j)
<1> DEFINE Q == Linking(s)
           R == Linking(c)
<1>1. /\ k \in Conn /\ k \in DOMAIN Q /\ Q[k] = s.circuit[k].link /\ DOMAIN Q = Linked(s)
      /\ DOMAIN R = Linked(c) /\ \A j \in Linked(c) : R[j] = c.circuit[j].link
      /\ \A j \in Linked(s) : Q[j] = s.circuit[j].link
  BY LinkFacts, LinkingFacts
<1>2. /\ Tables(c, Q) /\ c.me = s.me /\ Linked(c) = Linked(s) \ {k}
      /\ \A j \in Conn : j # k => InStep(c, Q, j)
      /\ \A j \in Linked(c) : c.circuit[j].link = s.circuit[j].link
  BY DEF Dropping
<1>3. DOMAIN R = DOMAIN Q \ {k} /\ \A j \in DOMAIN R : R[j] = Q[j]
  BY <1>1, <1>2
<1> HIDE DEF Q, R
<1>4. Links(c.me, R)
  BY <1>2, <1>3 DEF Tables, Links
<1>5. Placed(c, R)
  <2>1. \A r \in c.user : r.circuit # k
    BY DEF OnCircuit
  <2> QED
    BY <1>2, <1>3, <2>1 DEF Tables, Placed
<1>6. Nodes(c, R)
  <2> SUFFICES ASSUME NEW n \in Node \ {c.me}
               PROVE  Known(c, R, n)
    BY <1>2 DEF Tables, Nodes
  <2>1. Known(c, Q, n)
    BY <1>2 DEF Tables, Nodes
  <2>2. CASE c.node[n] = 0
    <3>1. \A i \in Nat : c.node[n] # 1 + i
      BY <2>2
    <3>2. Cardinality(UsersOf(c, n)) \in Nat
      BY <1>2, UserSets DEF Tables
    <3> QED
      BY <2>1, <2>2, <3>1, <3>2 DEF Known
  <2>3. CASE c.node[n] # 0
    <3>1. PICK j \in DOMAIN Q : n \in Side(c.me, Q[j])
      BY <2>1, <2>3 DEF Known
    <3>2. j # k
      BY <1>1, <1>2, <2>3, <3>1
    <3> QED
      BY <1>3, <2>1, <2>3, <3>1, <3>2 DEF Known
  <2> QED
    BY <2>2, <2>3
<1>7. \A j \in Conn : j # k => InStep(c, R, j)
  BY <1>2, <1>3 DEF InStep
<1> QED
  BY <1>2, <1>4, <1>5, <1>6, <1>7 DEF Tables, R

\* Link k of s has been dropped in t.
Dropped(s, t, k, P, X) ==
    /\ Sound(t) /\ t.me = s.me /\ t.shut = s.shut /\ Says(t, P, X \cup {k})
    /\ t.user \subseteq s.user
    /\ \A j \in Conn : j # k => SameLink(s.circuit[j], t.circuit[j])
    /\ t.circuit[k].rtcflags = "nil" /\ t.circuit[k].Active = s.circuit[k].Active
    /\ s.circuit[k].Active => t.circuit[k].link = s.circuit[k].link

LEMMA IdleDropped ==
  ASSUME NEW s, Good(s), Sound(s), NEW k \in Conn, k \notin Linked(s), NEW P, NEW X, Says(s, P, X)
  PROVE  Dropped(s, link_drop(s, k), k, P, X)
<1> DEFINE t == link_drop(s, k)
<1>1. Idled(s, t, k)
  BY IdleDrops
<1>2. t \in State
  BY LinkDropLoses DEF Loses, Good
<1> HIDE DEF t
<1>3. Sound(t)
  BY <1>1, <1>2, IdledSound
<1>4. Says(t, P, X \cup {k})
  BY <1>1, SaysLess DEF Idled
<1>5. \A j \in Conn : j # k => SameLink(s.circuit[j], t.circuit[j])
  BY <1>1 DEF Idled, SameLink
<1> QED
  BY <1>1, <1>3, <1>4, <1>5 DEF Dropped, Idled, t

LEMMA LinkDropped ==
  ASSUME Forest, NEW s, Good(s), Sound(s), NEW k \in Linked(s), NEW P, NEW X, Says(s, P, X)
  PROVE  Dropped(s, link_drop(s, k), k, P, X)
<1> DEFINE a == Unmarked(s, k)
           b == DropUsers(a, OnCircuit(a, k))
           N == {n \in Node : cn_find(b, k, n)}
           c == DropNodes(b, N)
           t == circuit_free(c, k)
<1>1. link_drop(s, k) = t
  BY LinkDropIs DEF DropUsers, DropNodes
<1>2. /\ Steady(s) /\ s \in State /\ k \in Conn /\ k \in Listed(s)
      /\ \A j \in Linked(s) : s.node[s.circuit[j].link] # 0
  BY LinkFacts DEF Sound, Listed, Linked
<1>3. t \in State
  BY <1>1, <1>2, LinkDropLoses DEF Loses, Good
<1>4. Dropping(s, k, a, P, X)
  BY <1>2, UnmarkedDrops
<1>5. /\ a \in State /\ a.user = s.user /\ a.node = s.node /\ a.circuit[k].rtcflags = "nil"
      /\ \A j \in Conn : j # k => a.circuit[j] = s.circuit[j]
      /\ a.circuit[k].Active = s.circuit[k].Active
      /\ s.circuit[k].Active => a.circuit[k].link = s.circuit[k].link
  BY <1>2, UnmarkedFields
<1> HIDE DEF a
<1>6. /\ Keeps(a, b) /\ Dropping(s, k, b, P, X) /\ b.user = a.user \ OnCircuit(a, k)
      /\ \A n \in Node : b.node[n] = 0 <=> a.node[n] = 0
  <2>1. b = DropUsers(a, OnCircuit(a, k))
    OBVIOUS
  <2> HIDE DEF b
  <2> QED
    BY <1>2, <1>4, <2>1, UsersDropped
<1> HIDE DEF b
<1>7. \A n \in Node : n \in N <=> n \in Side(s.me, s.circuit[k].link) /\ s.node[n] # 0
  <2>1. InStep(s, Linking(s), k) /\ k \in DOMAIN Linking(s) /\ Linking(s)[k] = s.circuit[k].link
    BY <1>2, LinkFacts DEF Steady
  <2>2. b.circuit[k].hnode = s.circuit[k].hnode
    BY <1>6 DEF Dropping
  <2> QED
    BY <2>1, <2>2 DEF InStep, cn_find
<1>8. N \subseteq Side(s.me, s.circuit[k].link) /\ N \subseteq Node
  BY <1>7
<1>9. \A n \in N : b.node[n] # 0 /\ UsersOf(b, n) = {}
  <2> TAKE n \in N
  <2>1. n \in Node /\ n \in Side(s.me, s.circuit[k].link) /\ s.node[n] # 0
    BY <1>7
  <2> HIDE DEF N
  <2>2. \A r \in UsersOf(b, n) : r.circuit = k
    BY <1>2, <1>6, <2>1, DroppingFacts
  <2>3. UsersOf(b, n) = {}
    BY <1>6, <2>2 DEF UsersOf, OnCircuit
  <2> QED
    BY <1>5, <1>6, <2>1, <2>3
<1>10. /\ Keeps(b, c) /\ Dropping(s, k, c, P, X) /\ c.user = b.user
       /\ \A n \in Node : c.node[n] = IF n \in N THEN 0 ELSE b.node[n]
  <2> HIDE DEF N
  <2> QED
    BY <1>2, <1>6, <1>8, <1>9, NodesDropped
<1> HIDE DEF c
<1>11. \A n \in Side(s.me, s.circuit[k].link) : c.node[n] = 0
  <2>1. Side(s.me, s.circuit[k].link) \subseteq Node
    BY <1>2, LinkFacts
  <2> HIDE DEF N
  <2> QED
    BY <1>5, <1>6, <1>7, <1>10, <2>1
<1>12. OnCircuit(c, k) = {}
  BY <1>6, <1>10 DEF OnCircuit
<1>13. Tables(c, Linking(c)) /\ \A j \in Conn : j # k => InStep(c, Linking(c), j)
  BY <1>2, <1>10, <1>11, <1>12, LeftSteady
<1>14. c.me = s.me /\ c.shut = s.shut /\ Linked(c) = Linked(s) \ {k} /\ Says(c, P, X \cup {k})
       /\ \A j \in Linked(c) : c.circuit[j].link = s.circuit[j].link
  BY <1>10 DEF Dropping
<1>15. \A j \in Conn : SameLink(a.circuit[j], c.circuit[j])
  <2>1. Keeps(a, c)
    BY <1>6, <1>10, KeepsOn
  <2> QED
    BY <2>1 DEF Keeps
<1> HIDE DEF N
<1>16. Idled(c, t, k)
  BY <1>2, <1>13, <1>14, FreeIdles
<1> HIDE DEF t
<1>17. Linked(t) = Linked(c) /\ \A j \in Linked(c) : t.circuit[j].link = c.circuit[j].link
  <2>1. \A j \in Conn : j # k => t.circuit[j] = c.circuit[j]
    BY <1>16 DEF Idled
  <2>2. k \notin Linked(t) /\ k \notin Linked(c)
    BY <1>14, <1>16 DEF Idled, Linked
  <2>3. Linked(t) = Linked(c)
    BY <2>1, <2>2 DEF Linked
  <2> QED
    BY <2>1, <2>2, <2>3 DEF Linked
<1>18. Linking(t) = Linking(c)
  BY <1>17 DEF Linking
<1>19. Steady(t)
  <2>1. Tables(t, Linking(t))
    <3>1. \A j \in Conn : t.circuit[j].refcnt = c.circuit[j].refcnt
      BY <1>16 DEF Idled
    <3> QED
      BY <1>3, <1>13, <1>16, <1>18, <3>1, TablesHeld DEF Idled
  <2>2. ASSUME NEW j \in Conn, j # k
        PROVE  InStep(t, Linking(t), j)
    BY <1>13, <1>16, <1>18, <2>2 DEF Idled, InStep
  <2>3. InStep(t, Linking(t), k)
    <3>1. k \notin DOMAIN Linking(t)
      BY <1>14, <1>17, LinkingFacts
    <3> QED
      BY <1>16, <3>1 DEF Idled, InStep
  <2> QED
    BY <2>1, <2>2, <2>3 DEF Steady
<1>20. Sound(t)
  <2> SUFFICES ASSUME NEW j \in Linked(t)
               PROVE  t.node[t.circuit[j].link] # 0
    BY <1>19 DEF Sound
  <2> DEFINE p == s.circuit[j].link
  <2>1. j \in Linked(s) /\ j # k /\ t.circuit[j].link = p
    BY <1>14, <1>17
  <2>2. p \in Node /\ p \in Side(s.me, p) /\ s.node[p] # 0
    BY <1>2, <2>1, LinkFacts
  <2>3. p \notin Side(s.me, s.circuit[k].link)
    <3>1. Links(s.me, Linking(s)) /\ j \in DOMAIN Linking(s) /\ k \in DOMAIN Linking(s)
          /\ Linking(s)[j] = p /\ Linking(s)[k] = s.circuit[k].link
      BY <1>2, <2>1, LinkingFacts DEF Steady, Tables
    <3> HIDE DEF p
    <3> QED
      BY <2>1, <2>2, <3>1, OneSide
  <2> HIDE DEF p
  <2>4. c.node[p] # 0
    BY <1>5, <1>6, <1>7, <1>10, <2>2, <2>3
  <2> QED
    BY <1>16, <2>1, <2>4 DEF Idled
<1>21. Says(t, P, X \cup {k})
  <2>1. /\ t.me = c.me /\ t.user = c.user /\ t.out = c.out /\ t.shut = c.shut
        /\ \A j \in Conn : j # k => t.circuit[j] = c.circuit[j]
    BY <1>16 DEF Idled
  <2> QED
    BY <1>14, <2>1, SaysLess
<1>22. \A j \in Conn : j # k => SameLink(s.circuit[j], t.circuit[j])
  BY <1>5, <1>15, <1>16 DEF Idled
<1>23. /\ t.circuit[k].rtcflags = "nil" /\ t.circuit[k].Active = s.circuit[k].Active
       /\ s.circuit[k].Active => t.circuit[k].link = s.circuit[k].link
  BY <1>2, <1>5, <1>15, <1>16 DEF Idled, SameLink
<1>24. t.me = s.me /\ t.shut = s.shut /\ t.user \subseteq s.user
  BY <1>5, <1>6, <1>10, <1>14, <1>16 DEF Idled
<1> QED
  BY <1>1, <1>20, <1>21, <1>22, <1>23, <1>24 DEF Dropped

-----------------------------------------------------------------------------
(* A new link.                                                             *)

\* Links are sent a line that tells nothing new of the users.
LEMMA SendSound ==
  ASSUME NEW s, Sound(s), NEW P, NEW X, Says(s, P, X), NEW K, K \subseteq Linked(s),
         NEW l \in LineSet,
         \A k \in K : /\ Proper(s.circuit[k].link, s.me, l)
                      /\ Hears(Beyond(s, k), l, Beyond(s, k)),
         NEW u, u = Send(s, K, l)
  PROVE  Sound(u) /\ Says(u, P, X) /\ Keeps(s, u) /\ SameButOut(s, u)
<1>1. s \in State
  BY DEF Sound, Steady, Tables
<1>2. Keeps(s, u) /\ SameButOut(s, u)
      /\ \A k \in Conn : u.out[k] = IF k \in K THEN Append(s.out[k], l) ELSE s.out[k]
  BY <1>1, SendKeeps, SendFields
<1>3. SameTables(s, u) /\ \A k : Beyond(u, k) = Beyond(s, k)
  BY <1>2, SameOutSame
<1>4. Sound(u)
  BY <1>2, <1>3, SoundSame
<1>5. Tells(s, u)
  <2>1. ASSUME NEW k \in Linked(s)
        PROVE  TellsOn(s, u, k)
    <3>1. k \in Conn
      BY DEF Linked
    <3>2. CASE k \notin K
      BY <1>2, <1>3, <3>1, <3>2 DEF TellsOn
    <3>3. CASE k \in K
      BY <1>2, <1>3, <3>1, <3>3 DEF TellsOn
    <3> QED
      BY <3>2, <3>3
  <2>2. \A k \in Conn \ Linked(s) : u.out[k] = s.out[k]
    BY <1>2
  <2> QED
    BY <2>1, <2>2 DEF Tells
<1>6. Says(u, P, X)
  BY <1>1, <1>2, <1>5, SaysStep DEF SameButOut
<1> QED
  BY <1>2, <1>4, <1>6

\* Circuit k becomes the link with p, whose node was not known.
LEMMA LinkUp ==
  ASSUME Forest, NEW s, Sound(s), NEW P, NEW X, Says(s, P, X),
         NEW k \in Conn, k \notin Linked(s), NEW p \in Partner[s.me], s.node[p] = 0,
         NEW t \in State, t.me = s.me, t.user = s.user, t.node = s.node, t.out = s.out,
         t.shut = s.shut, \A j \in Conn : j # k => t.circuit[j] = s.circuit[j],
         t.circuit[k].rtcflags = "linked", t.circuit[k].link = p, t.circuit[k].refcnt = 0,
         \A n \in Node : t.circuit[k].hnode[n] = 0
  PROVE  /\ Steady(t) /\ Linked(t) = Linked(s) \cup {k} /\ Says(t, P, X)
         /\ \A n \in Side(t.me, p) : t.node[n] = 0
         /\ \A j \in Linked(t) : j # k => t.node[t.circuit[j].link] # 0
<1> DEFINE Q == Linking(s)
           R == Linking(t)
<1>1. /\ s \in State /\ Tables(s, Q) /\ s.me \in Node /\ p \in Node
      /\ \A j \in Conn : InStep(s, Q, j)
      /\ \A j \in Linked(s) : s.node[s.circuit[j].link] # 0
  <2>1. s \in State
    BY DEF Sound, Steady, Tables
  <2>2. s.me \in Node
    BY <2>1, StateFields
  <2> QED
    BY <2>1, <2>2, PartnerFacts DEF Sound, Steady
<1>2. Linked(t) = Linked(s) \cup {k} /\ Linked(s) \subseteq Conn
  BY DEF Linked
<1>3. \A j \in Linked(s) : j # k /\ t.circuit[j] = s.circuit[j]
  BY <1>2
<1>4. /\ DOMAIN Q = Linked(s) /\ DOMAIN R = DOMAIN Q \cup {k} /\ R[k] = p
      /\ \A j \in DOMAIN Q : R[j] = Q[j] /\ Q[j] = s.circuit[j].link
  <2>1. DOMAIN Q = Linked(s) /\ DOMAIN R = Linked(t)
    BY LinkingFacts
  <2>2. \A j \in Linked(s) : Q[j] = s.circuit[j].link
    BY LinkingFacts
  <2>3. \A j \in Linked(t) : R[j] = t.circuit[j].link
    BY LinkingFacts
  <2> HIDE DEF Q, R
  <2> QED
    BY <1>2, <1>3, <2>1, <2>2, <2>3
<1> HIDE DEF Q, R
<1>5. \A j \in DOMAIN Q : Q[j] # p
  BY <1>1, <1>4
<1>6. Links(t.me, R)
  BY <1>1, <1>2, <1>4, <1>5 DEF Tables, Links
<1>7. \A j \in DOMAIN Q : Side(t.me, R[j]) \cap Side(t.me, p) = {}
  BY <1>2, <1>3, <1>4, <1>6, OneSide
<1>8. Side(t.me, p) \subseteq Node /\ t.me \notin Side(t.me, p)
  BY <1>1, SideClosed
<1>9. \A n \in Side(t.me, p) : t.node[n] = 0
  <2> TAKE n \in Side(t.me, p)
  <2>1. Known(s, Q, n)
    BY <1>1, <1>8 DEF Tables, Nodes
  <2> QED
    BY <1>4, <1>7, <2>1 DEF Known
<1>10. \A n : UsersOf(t, n) = UsersOf(s, n) /\ OnCircuit(t, n) = OnCircuit(s, n)
  BY DEF UsersOf, OnCircuit
<1>11. OnCircuit(s, k) = {} /\ s.circuit[k].refcnt = 0
  BY IdleFacts DEF Sound
<1>12. Tables(t, R)
  <2>1. Placed(t, R)
    BY <1>1, <1>4 DEF Tables, Placed
  <2>2. Single(t)
    BY <1>1 DEF Tables, Single
  <2>3. Refs(t)
    BY <1>1, <1>10, <1>11 DEF Tables, Refs
  <2>4. Nodes(t, R)
    BY <1>1, <1>4, <1>10 DEF Tables, Nodes, Known
  <2> QED
    BY <1>6, <2>1, <2>2, <2>3, <2>4 DEF Tables
<1>13. \A j \in Conn : InStep(t, R, j)
  <2> TAKE j \in Conn
  <2>1. CASE j = k
    BY <1>4, <1>9, <2>1 DEF InStep
  <2>2. CASE j # k
    BY <1>1, <1>4, <2>2 DEF InStep
  <2> QED
    BY <2>1, <2>2
<1>14. \A j \in Linked(t) : j # k => t.node[t.circuit[j].link] # 0
  BY <1>1, <1>2, <1>3
<1>15. Says(t, P, X)
  <2> SUFFICES ASSUME NEW j \in Conn \ (t.shut \cup X)
               PROVE  IF j \in Linked(t)
                      THEN /\ Told(P[j], t.out[j], Beyond(t, j))
                           /\ \A i \in 1 .. Len(t.out[j]) : Proper(t.circuit[j].link, t.me, t.out[j][i])
                      ELSE t.out[j] = << >> /\ P[j] = {}
    BY DEF Says
  <2>1. j \in Conn \ (s.shut \cup X) /\ Beyond(t, j) = Beyond(s, j)
    BY DEF Beyond
  <2>2. CASE j # k
    <3>1. t.circuit[j] = s.circuit[j] /\ (j \in Linked(t) <=> j \in Linked(s))
      BY <1>2, <2>2
    <3> QED
      BY <2>1, <3>1 DEF Says
  <2>3. CASE j = k
    <3>1. s.out[j] = << >> /\ P[j] = {}
      BY <2>1, <2>3 DEF Says
    <3>2. Told({}, << >>, Beyond(t, j))
      BY PairsType, ToldNothing
    <3>3. Len(<< >>) = 0
      OBVIOUS
    <3> QED
      BY <1>2, <2>3, <3>1, <3>2, <3>3
  <2> QED
    BY <2>2, <2>3
<1> QED
  BY <1>2, <1>9, <1>12, <1>13, <1>14, <1>15 DEF Steady, R

\* The new partner's node is known, and the other links are told.
LEMMA PartnerTold ==
  ASSUME Forest, NEW s, Steady(s), NEW P, NEW X, Says(s, P, X), NEW k \in Linked(s),
         NEW p, p = s.circuit[k].link, s.node[p] = 0,
         \A j \in Linked(s) : j # k => s.node[s.circuit[j].link] # 0,
         NEW i, i = cn_inc(s, k, p), NEW a, a = node_tell(i, p, "link")
  PROVE  /\ Keeps(s, a) /\ Sound(a) /\ Says(a, P, X)
         /\ a.me = s.me /\ a.shut = s.shut /\ a.user = s.user
<1> DEFINE Q == Linking(s)
<1>1. /\ s \in State /\ k \in Conn /\ p \in Node /\ s.me \in Node /\ k \in DOMAIN Q /\ Q[k] = p
      /\ p \in Side(s.me, p) /\ p # s.me /\ Tables(s, Q) /\ Links(s.me, Q)
      /\ DOMAIN Q = Linked(s) /\ \A j \in Linked(s) : Q[j] = s.circuit[j].link /\ j \in Conn
  BY LinkFacts, LinkingFacts DEF Steady, Tables
<1>2. Keeps(s, i) /\ i \in State
  BY <1>1, CnIncKeeps DEF Keeps
<1>3. SameButHnode(s, i, k, p, 1) /\ \A m \in Node : i.node[m] = s.node[m] + IF m = p THEN 1 ELSE 0
  BY <1>1, CnIncFields
<1>4. s.circuit[k].hnode[p] = 0 /\ s.node \in [Node -> Int] /\ s.circuit[k].hnode \in [Node -> Int]
      /\ UsersOf(s, p) = {}
  <2>1. InStep(s, Q, k)
    BY <1>1 DEF Steady
  <2>2. UsersOf(s, p) = {}
    BY <1>1, OnLink
  <2> QED
    BY <1>1, <2>1, <2>2, StateFields, CircuitFields DEF InStep
<1>5. /\ i.node[p] = 1 /\ i.circuit[k].hnode[p] = 1
      /\ \A m \in Node : m # p => i.node[m] = s.node[m]
      /\ \A m \in Node : m # p => i.circuit[k].hnode[m] = s.circuit[k].hnode[m]
  BY <1>1, <1>3, <1>4 DEF SameButHnode
<1>6. /\ i.me = s.me /\ i.user = s.user /\ i.out = s.out /\ i.shut = s.shut
      /\ \A j \in Conn : j # k => i.circuit[j] = s.circuit[j]
      /\ \A j \in Conn : i.circuit[j].refcnt = s.circuit[j].refcnt
  BY <1>3 DEF SameButHnode
<1> HIDE DEF Q
<1>7. Tables(i, Q)
  BY <1>1, <1>2, <1>4, <1>5, <1>6, LinkTables
<1>8. Sound(i)
  BY <1>1, <1>2, <1>5, <1>6, <1>7, StepSound DEF Q
<1>9. \A j : Beyond(i, j) = Beyond(s, j)
  BY <1>6 DEF Beyond
<1>10. Tells(s, i)
  BY <1>6, <1>9 DEF Tells, TellsOn
<1>11. Says(i, P, X)
  BY <1>1, <1>2, <1>6, <1>10, SaysStep
<1> DEFINE l == NodeLine(i, "link", p)
           K == Without(i, p)
<1>12. Linked(i) = Linked(s) /\ \A j \in Linked(s) : i.circuit[j].link = s.circuit[j].link
  BY <1>1, <1>2, LinksKept
<1>13. K \subseteq Linked(i) /\ k \notin K
  BY <1>5 DEF Without, cn_find
<1>14. l \in LineSet /\ l.kind = "link" /\ l.node = i.me /\ l.about = p
  <2>1. "link" \in LineKind
    BY DEF LineKind
  <2> QED
    BY <1>1, <1>2, <2>1, NodeLineType DEF NodeLine, Line
<1>15. a = Send(i, K, l)
  BY DEF node_tell
<1> HIDE DEF l, K
<1>16. ASSUME NEW j \in K
       PROVE  Proper(i.circuit[j].link, i.me, l) /\ Hears(Beyond(i, j), l, Beyond(i, j))
  <2>1. j \in DOMAIN Q /\ j # k /\ i.circuit[j].link = Q[j]
    BY <1>1, <1>12, <1>13
  <2>2. s.me \in Side(Q[j], s.me) /\ p \in Side(Q[j], s.me)
    BY <1>1, <2>1, OtherSide
  <2> QED
    BY <1>1, <1>6, <1>14, <2>1, <2>2 DEF Proper, Hears
<1>17. Sound(a) /\ Says(a, P, X) /\ Keeps(i, a) /\ SameButOut(i, a)
  BY <1>8, <1>11, <1>13, <1>14, <1>15, <1>16, SendSound
<1> QED
  BY <1>2, <1>6, <1>17, KeepsOn DEF SameButOut

\* What the new partner is told of the nodes: those that are not reached by it.
LEMMA TellNodeSound ==
  ASSUME Forest, NEW t, Sound(t), NEW P, NEW X, Says(t, P, X), NEW k \in Linked(t),
         NEW n \in Node, t.node[n] # 0, n # t.me, NEW u, u = TellNode(t, k, n)
  PROVE  Sound(u) /\ Says(u, P, X) /\ Keeps(t, u) /\ SameButOut(t, u)
<1> DEFINE Q == Linking(t)
           l == NodeLine(t, "link", n)
           K == {k} \cap Without(t, n)
<1>1. /\ t \in State /\ k \in Conn /\ t.me \in Node /\ k \in DOMAIN Q /\ Q[k] = t.circuit[k].link
      /\ Tables(t, Q) /\ Links(t.me, Q) /\ InStep(t, Q, k)
  BY LinkFacts DEF Sound, Steady, Tables
<1> HIDE DEF Q
<1>2. l \in LineSet /\ l.kind = "link" /\ l.node = t.me /\ l.about = n
  <2>1. "link" \in LineKind
    BY DEF LineKind
  <2> QED
    BY <1>1, <2>1, NodeLineType DEF NodeLine, Line
<1>3. u = Send(t, K, l)
  BY DEF TellNode
<1> HIDE DEF l
<1>4. ASSUME NEW j \in K
      PROVE  Proper(t.circuit[j].link, t.me, l) /\ Hears(Beyond(t, j), l, Beyond(t, j))
  <2>1. j = k /\ t.circuit[k].hnode[n] = 0
    BY DEF Without, cn_find
  <2>2. n \notin Side(t.me, Q[k])
    BY <1>1, <2>1 DEF InStep
  <2>3. PICK i \in DOMAIN Q : n \in Side(t.me, Q[i])
    BY <1>1 DEF Tables, Nodes, Known
  <2>4. i # k
    BY <2>2, <2>3
  <2>5. t.me \in Side(Q[k], t.me) /\ n \in Side(Q[k], t.me)
    BY <1>1, <2>3, <2>4, OtherSide
  <2> QED
    BY <1>1, <1>2, <2>1, <2>5 DEF Proper, Hears
<1>5. K \subseteq Linked(t)
  OBVIOUS
<1> HIDE DEF K
<1> QED
  BY <1>2, <1>3, <1>4, <1>5, SendSound

\* And of the users.
LEMMA TellUserSound ==
  ASSUME Forest, NEW t, Sound(t), NEW P, NEW X, Says(t, P, X), NEW k \in Linked(t),
         NEW r \in t.user, NEW u, u = TellUser(t, k, r)
  PROVE  Sound(u) /\ Says(u, P, X) /\ Keeps(t, u) /\ SameButOut(t, u)
<1> DEFINE Q == Linking(t)
           l == UserLine("join", r)
           K == {k} \cap Without(t, r.node)
           v == Send(t, K, l)
           w == TopicLine(t, r)
<1>1. /\ t \in State /\ k \in Conn /\ t.me \in Node /\ k \in DOMAIN Q /\ Q[k] = t.circuit[k].link
      /\ Tables(t, Q) /\ Links(t.me, Q) /\ InStep(t, Q, k) /\ r \in UserSet
      /\ t.me \in Side(Q[k], t.me)
  <2>1. /\ t \in State /\ k \in Conn /\ t.me \in Node /\ k \in DOMAIN Q
        /\ Q[k] = t.circuit[k].link /\ Tables(t, Q) /\ Links(t.me, Q) /\ InStep(t, Q, k)
    BY LinkFacts DEF Sound, Steady, Tables
  <2> HIDE DEF Q
  <2> QED
    BY <2>1, OtherSide, StateFields
<1> HIDE DEF Q
<1>2. l \in LineSet /\ l.kind = "join" /\ l.node = r.node /\ UserOf(l) = PairOf(r)
  <2>1. "join" \in LineKind /\ r.call \in Node \cup User /\ r.node \in Node
    BY <1>1 DEF LineKind, UserSet
  <2> QED
    BY <2>1, UserLineType DEF UserLine, Line, UserOf, PairOf
<1>3. w \in LineSet /\ w.kind = "topic" /\ w.node = t.me
  <2>1. r.call \in Node \cup User /\ r.topic \in Topic
    BY <1>1 DEF UserSet
  <2> QED
    BY <1>1, <2>1, TopicLineType DEF TopicLine, Line
<1>4. u = Send(v, {k}, TopicLine(v, r)) \/ u = Send(v, {k}, w)
  BY DEF TellUser
<1> HIDE DEF l
<1>5. ASSUME NEW j \in K
      PROVE  Proper(t.circuit[j].link, t.me, l) /\ Hears(Beyond(t, j), l, Beyond(t, j))
  <2>1. j = k /\ t.circuit[k].hnode[r.node] = 0 /\ r.node \in Node
    BY <1>1 DEF Without, cn_find, UserSet
  <2>2. /\ r.circuit # Local => r.circuit \in DOMAIN Q /\ r.node \in Side(t.me, Q[r.circuit])
        /\ r.circuit = Local => r.node = t.me
    BY <1>1 DEF Tables, Placed
  <2>3. r.circuit # k
    <3> SUFFICES ASSUME r.circuit = k
                 PROVE  FALSE
      OBVIOUS
    <3>1. k # Local
      BY <1>1 DEF Conn, Local
    <3>2. r.node \in Side(t.me, Q[k]) /\ t.me \notin Side(t.me, Q[k])
      BY <1>1, <2>2, <3>1, OtherSide
    <3>3. t.node[r.node] = 0
      BY <1>1, <2>1, <3>2 DEF InStep
    <3>4. Known(t, Q, r.node) /\ r \in UsersOf(t, r.node)
      BY <1>1, <2>1, <3>2 DEF Tables, Nodes, UsersOf
    <3>5. Cardinality(UsersOf(t, r.node)) \in Nat
      BY <1>1, UserSets
    <3>6. t.node[r.node] # 1 + Cardinality(UsersOf(t, r.node))
      BY <3>3, <3>5
    <3> QED
      BY <3>4, <3>6 DEF Known
  <2>4. r.node \in Side(Q[k], t.me)
    BY <1>1, <2>2, <2>3, OtherSide
  <2>5. PairOf(r) \in Beyond(t, k)
    BY <2>3 DEF Beyond
  <2> QED
    BY <1>1, <1>2, <2>1, <2>4, <2>5 DEF Proper, Hears
<1>6. K \subseteq Linked(t)
  OBVIOUS
<1> HIDE DEF K
<1>7. Sound(v) /\ Says(v, P, X) /\ Keeps(t, v) /\ SameButOut(t, v)
  BY <1>2, <1>5, <1>6, SendSound
<1>8. u = Send(v, {k}, w)
  BY <1>4, <1>7 DEF SameButOut, TopicLine
<1> HIDE DEF v, w
<1>9. v.me = t.me /\ v.circuit = t.circuit /\ Linked(v) = Linked(t)
  BY <1>7 DEF SameButOut, Linked
<1>10. Proper(v.circuit[k].link, v.me, w) /\ Hears(Beyond(v, k), w, Beyond(v, k))
  BY <1>1, <1>3, <1>9 DEF Proper, Hears
<1>11. Sound(u) /\ Says(u, P, X) /\ Keeps(v, u) /\ SameButOut(v, u)
  <2>1. {k} \subseteq Linked(v)
    BY <1>9
  <2> QED
    BY <1>3, <1>7, <1>8, <1>10, <2>1, SendSound
<1> QED
  BY <1>7, <1>11, KeepsOn DEF SameButOut

\* The loops that do.
LEMMA NodesTold ==
  ASSUME Forest, NEW a, Sound(a), NEW P, NEW X, Says(a, P, X), NEW k \in Linked(a),
         NEW N \in SUBSET Node, \A n \in N : a.node[n] # 0 /\ n # a.me,
         NEW b, b = TellNodes(a, N, k)
  PROVE  Sound(b) /\ Says(b, P, X) /\ Keeps(a, b) /\ SameButOut(a, b)
<1>1. a \in State /\ IsFiniteSet(N)
  BY ChatAssumption, FS_Subset DEF Sound, Steady, Tables
<1>2. PICK f : TellNodesIn(f, a, N, k)
  BY <1>1, TellNodesRun
<1> DEFINE G == {x \in SUBSET N : /\ Sound(f[x]) /\ Says(f[x], P, X)
                                  /\ Keeps(a, f[x]) /\ SameButOut(a, f[x])}
<1>3. {} \in G
  BY <1>1, <1>2, KeepsItself DEF TellNodesIn, SameButOut
<1>4. \A x \in SUBSET N : x # {} => \E z \in x : x \ {z} \in G => x \in G
  <2> TAKE x \in SUBSET N
  <2> HAVE x # {}
  <2>1. Picked(x) \in x
    BY PickedIn
  <2> DEFINE n == Picked(x)
             t == f[x \ {n}]
  <2>2. f[x] = TellNode(t, k, n)
    BY <1>2 DEF TellNodesIn
  <2> SUFFICES ASSUME x \ {n} \in G
               PROVE  x \in G
    BY <2>1
  <2>3. Sound(t) /\ Says(t, P, X) /\ Keeps(a, t) /\ SameButOut(a, t)
    OBVIOUS
  <2>4. n \in Node /\ a.node[n] # 0 /\ n # a.me
    BY <2>1
  <2> HIDE DEF t, n
  <2>5. k \in Linked(t) /\ t.node[n] # 0 /\ n # t.me
    BY <2>3, <2>4 DEF SameButOut, Linked
  <2>6. Sound(f[x]) /\ Says(f[x], P, X) /\ Keeps(t, f[x]) /\ SameButOut(t, f[x])
    BY <2>2, <2>3, <2>4, <2>5, TellNodeSound
  <2>7. Keeps(a, f[x]) /\ SameButOut(a, f[x])
    BY <2>3, <2>6, KeepsOn DEF SameButOut
  <2> QED
    BY <2>6, <2>7
<1>5. N \in G
  <2> HIDE DEF G
  <2> QED
    BY <1>1, <1>3, <1>4, SubsetInduction
<1> QED
  BY <1>2, <1>5 DEF TellNodesIn

LEMMA UsersTold ==
  ASSUME Forest, NEW a, Sound(a), NEW P, NEW X, Says(a, P, X), NEW k \in Linked(a),
         NEW b, b = TellUsers(a, a.user, k)
  PROVE  Sound(b) /\ Says(b, P, X) /\ Keeps(a, b) /\ SameButOut(a, b)
<1> DEFINE S == a.user
<1>1. a \in State /\ S \subseteq UserSet /\ IsFiniteSet(S)
  BY StateFields DEF Sound, Steady, Tables
<1>2. PICK f : TellUsersIn(f, a, S, k)
  BY <1>1, TellUsersRun
<1> DEFINE G == {x \in SUBSET S : /\ Sound(f[x]) /\ Says(f[x], P, X)
                                  /\ Keeps(a, f[x]) /\ SameButOut(a, f[x])}
<1>3. {} \in G
  BY <1>1, <1>2, KeepsItself DEF TellUsersIn, SameButOut
<1>4. \A x \in SUBSET S : x # {} => \E z \in x : x \ {z} \in G => x \in G
  <2> TAKE x \in SUBSET S
  <2> HAVE x # {}
  <2>1. Picked(x) \in x
    BY PickedIn
  <2> DEFINE r == Picked(x)
             t == f[x \ {r}]
  <2>2. f[x] = TellUser(t, k, r)
    BY <1>2 DEF TellUsersIn
  <2> SUFFICES ASSUME x \ {r} \in G
               PROVE  x \in G
    BY <2>1
  <2>3. Sound(t) /\ Says(t, P, X) /\ Keeps(a, t) /\ SameButOut(a, t)
    OBVIOUS
  <2>4. r \in a.user
    BY <2>1
  <2> HIDE DEF t, r
  <2>5. k \in Linked(t) /\ r \in t.user
    BY <2>3, <2>4 DEF SameButOut, Linked
  <2>6. Sound(f[x]) /\ Says(f[x], P, X) /\ Keeps(t, f[x]) /\ SameButOut(t, f[x])
    BY <2>2, <2>3, <2>5, TellUserSound
  <2>7. Keeps(a, f[x]) /\ SameButOut(a, f[x])
    BY <2>3, <2>6, KeepsOn DEF SameButOut
  <2> QED
    BY <2>6, <2>7
<1>5. S \in G
  <2> HIDE DEF G
  <2> QED
    BY <1>1, <1>3, <1>4, SubsetInduction
<1> QED
  BY <1>2, <1>5 DEF TellUsersIn

LEMMA StateTold ==
  ASSUME Forest, NEW s, Steady(s), NEW P, NEW X, Says(s, P, X), NEW k \in Linked(s),
         s.node[s.circuit[k].link] = 0,
         \A j \in Linked(s) : j # k => s.node[s.circuit[j].link] # 0,
         NEW u, u = state_tell(s, k)
  PROVE  /\ Keeps(s, u) /\ Sound(u) /\ Says(u, P, X)
         /\ u.me = s.me /\ u.shut = s.shut /\ u.user = s.user
<1> DEFINE p == s.circuit[k].link
           i == cn_inc(s, k, p)
           a == node_tell(i, p, "link")
           N == {n \in Node : node_find(a, n) /\ n # s.me}
           b == TellNodes(a, N, k)
           c == TellUsers(b, s.user, k)
<1>1. state_tell(s, k) = c
  BY DEF state_tell, TellNode, TellNodes, TellUser, TellUsers
<1>2. /\ Keeps(s, a) /\ Sound(a) /\ Says(a, P, X)
      /\ a.me = s.me /\ a.shut = s.shut /\ a.user = s.user
  BY PartnerTold
<1> HIDE DEF a
<1>3. s \in State /\ k \in Linked(a)
  <2>1. s \in State
    BY DEF Steady, Tables
  <2> QED
    BY <1>2, <2>1, LinksKept
<1>4. \A n \in N : a.node[n] # 0 /\ n # a.me
  BY <1>2 DEF node_find
<1>5. N \in SUBSET Node
  OBVIOUS
<1> HIDE DEF N
<1>6. Sound(b) /\ Says(b, P, X) /\ Keeps(a, b) /\ SameButOut(a, b)
  BY <1>2, <1>3, <1>4, <1>5, NodesTold
<1> HIDE DEF b
<1>7. k \in Linked(b) /\ b.user = s.user
  BY <1>2, <1>3, <1>6 DEF SameButOut, Linked
<1>8. Sound(c) /\ Says(c, P, X) /\ Keeps(b, c) /\ SameButOut(b, c)
  BY <1>6, <1>7, UsersTold
<1> HIDE DEF c
<1> QED
  BY <1>1, <1>2, <1>6, <1>8, KeepsOn DEF SameButOut

-----------------------------------------------------------------------------
(* What a handler leaves of the links.                                     *)

\* A circuit in use does not fall out of use, nor a link, and none waits that did not.
Onward(c, d) ==
    /\ c.rtcflags # "nil" => d.rtcflags # "nil"
    /\ c.rtcflags = "linked" => d.rtcflags = "linked"
    /\ d.rtcflags = "linkwait" => c.rtcflags = "linkwait"

\* No circuit gets another partner; those not closed, but for X, go on.
Goes(s, t, X) ==
    /\ t.me = s.me /\ s.shut \subseteq t.shut
    /\ \A j \in Conn : t.circuit[j].Active => /\ s.circuit[j].Active
                                              /\ t.circuit[j].link = s.circuit[j].link
    /\ \A j \in Conn \ (t.shut \cup X) : Onward(s.circuit[j], t.circuit[j])

Handled(s, t, P, X) == Good(t) /\ Sound(t) /\ Says(t, P, X) /\ Goes(s, t, X)

LEMMA GoesOn ==
  ASSUME NEW s, NEW t, NEW u, NEW X, Goes(s, t, X), Goes(t, u, X)
  PROVE  Goes(s, u, X)
<1>1. \A j \in Conn \ (u.shut \cup X) : j \in Conn \ (t.shut \cup X)
  BY DEF Goes
<1> QED
  BY <1>1 DEF Goes, Onward

LEMMA KeepsGoes ==
  ASSUME NEW s, NEW t, Keeps(s, t), t.me = s.me, s.shut \subseteq t.shut, NEW X
  PROVE  Goes(s, t, X)
<1>1. \A j \in Conn : SameLink(s.circuit[j], t.circuit[j])
  BY DEF Keeps
<1> QED
  BY <1>1 DEF Goes, Onward, SameLink

LEMMA HandledNot ==
  ASSUME NEW s, Good(s), Sound(s), NEW P, NEW X, Says(s, P, X)
  PROVE  Handled(s, s, P, X)
  BY DEF Handled, Goes, Onward

LEMMA MovesHandled ==
  ASSUME NEW s, Good(s), NEW P, NEW X, Says(s, P, X), NEW t, Moves(s, t)
  PROVE  Handled(s, t, P, X)
<1>1. s \in State /\ Keeps(s, t) /\ t.me = s.me /\ t.shut = s.shut /\ Sound(t) /\ Tells(s, t)
  BY DEF Moves, Good
<1>2. Says(t, P, X)
  BY <1>1, SaysStep
<1>3. Good(t)
  BY <1>1, KeepsLoses DEF Loses
<1> QED
  BY <1>1, <1>2, <1>3, KeepsGoes DEF Handled

LEMMA DisconnectFields ==
  ASSUME NEW s \in State, NEW k \in Conn, NEW t, t = Disconnect(s, k)
  PROVE  /\ t.me = s.me /\ t.user = s.user /\ t.node = s.node /\ t.circuit = s.circuit
         /\ t.out = s.out /\ t.flags = s.flags /\ t.shut = s.shut \cup {k}
  BY DEF Disconnect, State

LEMMA DisconnectHandled ==
  ASSUME NEW s, Good(s), Sound(s), NEW P, NEW X, NEW k \in Conn, Says(s, P, X \cup {k}),
         NEW t, t = Disconnect(s, k)
  PROVE  Handled(s, t, P, X)
<1>1. s \in State /\ Keeps(s, t)
  BY DisconnectKeeps DEF Good
<1>2. /\ t.me = s.me /\ t.user = s.user /\ t.node = s.node /\ t.circuit = s.circuit
      /\ t.out = s.out /\ t.shut = s.shut \cup {k}
  BY <1>1, DisconnectFields
<1>3. Sound(t)
  <2>1. SameTables(s, t)
    BY <1>2 DEF SameTables
  <2> QED
    BY <1>1, <2>1, SoundSame
<1>4. Says(t, P, X)
  <2>1. s.shut \cup (X \cup {k}) \subseteq t.shut \cup X
    BY <1>2
  <2> QED
    BY <1>2, <2>1, SaysLess
<1>5. Good(t)
  BY <1>1, KeepsLoses DEF Loses
<1> QED
  BY <1>1, <1>2, <1>3, <1>4, <1>5, KeepsGoes DEF Handled

LEMMA SaysWider ==
  ASSUME NEW s, NEW P, NEW X, Says(s, P, X), NEW Y, X \subseteq Y
  PROVE  Says(s, P, Y)
  BY DEF Says

-----------------------------------------------------------------------------
(* Links are made.                                                         *)

\* The older link of a partner that is not known is one that is being set up.
LEMMA OldClosed ==
  ASSUME NEW s, Good(s), Sound(s), NEW p \in Node, s.node[p] = 0, NEW t, t = CloseOld(s, p)
  PROVE  /\ Good(t) /\ Sound(t) /\ Linked(t) = Linked(s) /\ s.shut \subseteq t.shut
         /\ t.me = s.me /\ t.user = s.user /\ t.node = s.node /\ t.out = s.out
         /\ \A j \in Conn :
               \/ t.circuit[j] = s.circuit[j]
               \/ j \in t.shut /\ ~t.circuit[j].Active /\ s.circuit[j].rtcflags = "linkini"
<1> DEFINE old == {k \in Listed(s) : s.circuit[k].link = p}
<1>1. CASE s.flags[p] = "nil" \/ old = {}
  <2>1. CloseOld(s, p) = s
    BY <1>1 DEF CloseOld
  <2> QED
    BY <2>1
<1>2. CASE ~(s.flags[p] = "nil" \/ old = {})
  <2> DEFINE k == Picked(old)
             a == Disconnect(s, k)
             b == link_drop(a, k)
             P == [j \in Conn |-> {}]
  <2>1. t = [b EXCEPT !.circuit[k] = NoCircuit]
    BY <1>2 DEF CloseOld, Picked
  <2>2. k \in old
    BY <1>2, PickedIn
  <2> HIDE DEF k
  <2>3. k \in Conn /\ s.circuit[k].link = p /\ k \notin Linked(s)
        /\ s.circuit[k].rtcflags = "linkini"
    <3>1. k \in Conn /\ s.circuit[k].link = p /\ k \in Listed(s)
      BY <2>2 DEF Listed
    <3>2. k \notin Linked(s)
      BY <3>1 DEF Sound
    <3> QED
      BY <3>1, <3>2 DEF Listed, Linked
  <2>4. Says(s, P, Conn)
    BY DEF Says
  <2> HIDE DEF P
  <2>5. /\ Good(a) /\ Sound(a) /\ a.shut = s.shut \cup {k}
        /\ a.me = s.me /\ a.user = s.user /\ a.node = s.node /\ a.circuit = s.circuit
        /\ a.out = s.out
    <3>1. Says(s, P, Conn \cup {k})
      BY <2>4, SaysWider
    <3>2. Handled(s, a, P, Conn)
      BY <2>3, <3>1, DisconnectHandled
    <3>3. /\ a.shut = s.shut \cup {k} /\ a.me = s.me /\ a.user = s.user /\ a.node = s.node
          /\ a.circuit = s.circuit /\ a.out = s.out
      BY <2>3, DisconnectFields DEF Good
    <3> QED
      BY <3>2, <3>3 DEF Handled
  <2> HIDE DEF a
  <2>6. k \notin Linked(a) /\ Linked(a) = Linked(s)
    BY <2>3, <2>5 DEF Linked
  <2>7. Idled(a, b, k) /\ b \in State /\ Good(b) /\ k \notin Listed(b)
    BY <2>3, <2>5, <2>6, IdleDrops, LinkDropLoses DEF Loses, Good
  <2> HIDE DEF b
  <2>8. Sound(b) /\ Linked(b) = Linked(a) /\ k \notin Linked(b)
    BY <2>3, <2>5, <2>6, <2>7, IdledSound
  <2>9. Good(t) /\ t \in State
    BY <2>1, <2>3, <2>7, ClearedLoses DEF Loses, Good
  <2>10. /\ t.me = b.me /\ t.user = b.user /\ t.node = b.node /\ t.out = b.out
         /\ t.shut = b.shut /\ t.circuit[k] = NoCircuit
         /\ \A j \in Conn : j # k => t.circuit[j] = b.circuit[j]
    BY <2>1, <2>3, <2>7 DEF State
  <2>11. Sound(t) /\ Linked(t) = Linked(b)
    <3>1. k \notin Linked(t)
      BY <2>10 DEF Linked, NoCircuit
    <3>2. t.circuit[k].refcnt = 0 /\ \A n \in Node : t.circuit[k].hnode[n] = 0
      BY <2>10 DEF NoCircuit, Nobody
    <3> QED
      BY <2>3, <2>8, <2>9, <2>10, <3>1, <3>2, IdleSound
  <2>12. k \in t.shut /\ ~t.circuit[k].Active
    BY <2>5, <2>7, <2>10 DEF Idled, NoCircuit
  <2>13. \A j \in Conn : j # k => t.circuit[j] = s.circuit[j]
    BY <2>5, <2>7, <2>10 DEF Idled
  <2> QED
    BY <2>3, <2>5, <2>6, <2>7, <2>8, <2>9, <2>10, <2>11, <2>12, <2>13 DEF Idled
<1> QED
  BY <1>1, <1>2

\* Circuit k of a partner has had its answer: it is a link, or refused.
Answered(s, u, k, P, X) ==
    /\ Handled(s, u, P, X) /\ u.user = s.user /\ OnCircuit(u, k) = {} /\ u.circuit[k].rtcflags # "nil"
    /\ u.circuit[k].rtcflags = "linkwait" => k \in u.shut /\ s.circuit[k].rtcflags = "linkwait"

LEMMA RefusedAnswered ==
  ASSUME NEW s, Good(s), Sound(s), NEW P, NEW X, Says(s, P, X),
         NEW k \in Conn, k \notin Linked(s), s.circuit[k].rtcflags # "nil"
  PROVE  Answered(s, Disconnect(s, k), k, P, X)
<1> DEFINE t == Disconnect(s, k)
<1>1. Says(s, P, X \cup {k})
  BY SaysWider
<1>2. Handled(s, t, P, X) /\ k \in t.shut /\ t.user = s.user /\ t.circuit = s.circuit
  BY <1>1, DisconnectHandled, DisconnectFields DEF Good
<1>3. OnCircuit(s, k) = {}
  BY IdleFacts DEF Sound
<1> HIDE DEF t
<1> QED
  BY <1>2, <1>3 DEF Answered, OnCircuit, t

\* A link is made of k in t, a handler having brought s to a before.
LEMMA MadeAnswered ==
  ASSUME Forest, NEW t, Steady(t), NEW P, NEW X, Says(t, P, X), NEW k \in Linked(t),
         t.node[t.circuit[k].link] = 0, OnCircuit(t, k) = {},
         \A j \in Linked(t) : j # k => t.node[t.circuit[j].link] # 0,
         NEW u, u = state_tell(t, k), Good(u),
         NEW s, Goes(s, t, X), t.user = s.user
  PROVE  Answered(s, u, k, P, X)
<1>1. /\ Keeps(t, u) /\ Sound(u) /\ Says(u, P, X)
      /\ u.me = t.me /\ u.shut = t.shut /\ u.user = t.user
  BY StateTold
<1>2. Goes(s, u, X)
  BY <1>1, KeepsGoes, GoesOn
<1>3. u.circuit[k].rtcflags = "linked"
  <2>1. t \in State
    BY DEF Steady, Tables
  <2>2. k \in Linked(u)
    BY <1>1, <2>1, LinksKept
  <2> QED
    BY <2>2 DEF Linked
<1> QED
  BY <1>1, <1>2, <1>3 DEF Answered, Handled, OnCircuit

LEMMA RtloginlAnswered ==
  ASSUME Forest, NEW s, Good(s), Sound(s), NEW P, NEW X, Says(s, P, X), NEW k \in Conn,
         s.circuit[k].rtcflags = "linkwait", NEW p \in Partner[s.me], s.circuit[k].link = p
  PROVE  Answered(s, rtloginl(s, k, p), k, P, X)
<1>1. s \in State /\ s.me \in Node /\ p \in Node /\ k \notin Linked(s) /\ k \notin Listed(s)
      /\ s.circuit[k].Active
  <2>1. s \in State /\ s.me \in Node
    BY StateFields DEF Good
  <2>2. p \in Node
    BY <2>1, PartnerFacts
  <2>3. s.circuit[k] \in CircuitSet
    BY <2>1, StateFields
  <2>4. s.circuit[k].Active
    BY <2>3 DEF CircuitSet, InUse, NotInUse
  <2> QED
    BY <2>1, <2>2, <2>4 DEF Linked, Listed
<1>2. CASE node_find(s, p)
  <2>1. rtloginl(s, k, p) = Disconnect(s, k)
    BY <1>2 DEF rtloginl
  <2> QED
    BY <1>1, <2>1, RefusedAnswered
<1>3. CASE ~node_find(s, p)
  <2> DEFINE a == CloseOld(s, p)
             c == Circuit("linked", p)
             b == [a EXCEPT !.circuit[k] = c, !.flags[p] = "linked"]
             l == Line("OK", s.me, p, deftopic)
             t == Send(b, {k}, l)
             u == state_tell(t, k)
  <2>1. rtloginl(s, k, p) = u
    BY <1>3 DEF rtloginl
  <2>2. Good(u)
    BY <1>1, <2>1, RtloginlGains DEF Gains
  <2>3. s.node[p] = 0
    BY <1>3 DEF node_find
  <2>4. /\ Good(a) /\ Sound(a) /\ Linked(a) = Linked(s) /\ s.shut \subseteq a.shut
        /\ a.me = s.me /\ a.user = s.user /\ a.node = s.node /\ a.out = s.out
        /\ \A j \in Conn :
              \/ a.circuit[j] = s.circuit[j]
              \/ j \in a.shut /\ ~a.circuit[j].Active /\ s.circuit[j].rtcflags = "linkini"
    BY <1>1, <2>3, OldClosed
  <2> HIDE DEF a
  <2>5. a.circuit[k] = s.circuit[k] /\ k \notin Linked(a) /\ a \in State
    BY <1>1, <2>4 DEF Good
  <2>6. Says(a, P, X)
    <3>1. \A j \in Conn \ (a.shut \cup X) : a.circuit[j] = s.circuit[j]
      BY <2>4
    <3> QED
      BY <2>4, <3>1, SaysLess
  <2>7. /\ c \in CircuitSet /\ c.link = p /\ c.rtcflags = "linked" /\ c.refcnt = 0 /\ c.Active
        /\ \A n \in Node : c.hnode[n] = 0
    BY <1>1, CircuitType DEF Circuit, CircuitSet, Nobody
  <2> HIDE DEF c
  <2>8. /\ b \in State /\ b.me = a.me /\ b.user = a.user /\ b.node = a.node /\ b.out = a.out
        /\ b.shut = a.shut /\ b.circuit[k] = c
        /\ \A j \in Conn : j # k => b.circuit[j] = a.circuit[j]
    <3> DEFINE g == [a.flags EXCEPT ![p] = "linked"]
    <3>1. g \in [Node -> Flag]
      <4>1. a.flags \in [Node -> Flag]
        BY <2>5, StateFields
      <4> QED
        BY <4>1 DEF Flag
    <3>2. b = [a EXCEPT !.flags = g, !.circuit[k] = c]
      OBVIOUS
    <3> HIDE DEF g, b
    <3>3. b \in State
      BY <2>5, <2>7, <3>1, <3>2, CircuitChanges
    <3> QED
      BY <2>5, <3>2, <3>3 DEF State
  <2> HIDE DEF b
  <2>9. /\ Steady(b) /\ Linked(b) = Linked(a) \cup {k} /\ Says(b, P, X)
        /\ \A n \in Side(b.me, p) : b.node[n] = 0
        /\ \A j \in Linked(b) : j # k => b.node[b.circuit[j].link] # 0
    BY <2>3, <2>4, <2>5, <2>6, <2>7, <2>8, LinkUp
  <2>10. l \in LineSet /\ l.kind = "OK" /\ l.node = s.me
    <3>1. "OK" \in LineKind /\ deftopic \in Topic /\ p \in Node \cup User
      BY <1>1, ChatAssumption DEF LineKind
    <3> QED
      BY <1>1, <3>1, LineTypes DEF Line
  <2> HIDE DEF l
  <2>11. /\ Keeps(b, t) /\ SameButOut(b, t) /\ t \in State
         /\ \A j \in Conn : t.out[j] = IF j \in {k} THEN Append(b.out[j], l) ELSE b.out[j]
    BY <2>8, <2>10, SendKeeps, SendFields DEF Keeps
  <2> HIDE DEF t
  <2>12. SameTables(b, t) /\ \A j : Beyond(t, j) = Beyond(b, j)
    BY <2>11, SameOutSame
  <2>13. Steady(t)
    BY <2>9, <2>11, <2>12, SoundSame
  <2>14. Says(t, P, X)
    <3>1. s.me \in Side(p, s.me)
      BY <1>1, PartnerFacts, SideClosed
    <3>2. TellsOn(b, t, k)
      <4>1. Proper(b.circuit[k].link, b.me, l)
        BY <2>4, <2>7, <2>8, <2>10, <3>1 DEF Proper
      <4>2. Hears(Beyond(b, k), l, Beyond(t, k))
        BY <2>10, <2>12 DEF Hears
      <4> QED
        BY <2>10, <2>11, <4>1, <4>2 DEF TellsOn
    <3>3. \A j \in Linked(b) : j # k => TellsOn(b, t, j)
      BY <2>11, <2>12 DEF TellsOn, Linked
    <3>4. Tells(b, t)
      BY <2>9, <2>11, <3>2, <3>3 DEF Tells
    <3> QED
      BY <2>8, <2>9, <2>11, <3>4, SaysStep DEF SameButOut
  <2>15. /\ t.circuit = b.circuit /\ Linked(t) = Linked(b) /\ t.node = b.node /\ t.user = s.user
         /\ t.me = s.me /\ t.shut = a.shut
    BY <2>4, <2>8, <2>11 DEF SameButOut, Linked
  <2>16. OnCircuit(t, k) = {}
    <3>1. OnCircuit(s, k) = {}
      BY <1>1, IdleFacts DEF Sound
    <3> QED
      BY <2>15, <3>1 DEF OnCircuit
  <2>17. Goes(s, t, X)
    <3>1. \A j \in Conn : t.circuit[j].Active => /\ s.circuit[j].Active
                                                 /\ t.circuit[j].link = s.circuit[j].link
      BY <1>1, <2>4, <2>7, <2>8, <2>15
    <3>2. \A j \in Conn \ (t.shut \cup X) : Onward(s.circuit[j], t.circuit[j])
      BY <2>4, <2>7, <2>8, <2>15 DEF Onward
    <3> QED
      BY <2>4, <2>15, <3>1, <3>2 DEF Goes
  <2>18. t.circuit[k].link = p /\ k \in Linked(t) /\ t.node[p] = 0
    BY <2>3, <2>4, <2>7, <2>8, <2>9, <2>15
  <2>19. \A j \in Linked(t) : j # k => t.node[t.circuit[j].link] # 0
    BY <2>9, <2>15
  <2>20. Answered(s, u, k, P, X)
    BY <2>2, <2>13, <2>14, <2>15, <2>16, <2>17, <2>18, <2>19, MadeAnswered
  <2> QED
    BY <2>1, <2>20
<1> QED
  BY <1>2, <1>3

LEMMA ConnectingAnswered ==
  ASSUME Forest, NEW s, Good(s), Sound(s), NEW P, NEW X, Says(s, P, X), NEW k \in Conn,
         s.circuit[k].rtcflags = "linkini", s.circuit[k].link \in Partner[s.me]
  PROVE  Answered(s, ProcessConnecting(s, k), k, P, X)
<1> DEFINE p == s.circuit[k].link
<1>1. s \in State /\ s.me \in Node /\ p \in Node /\ k \notin Linked(s) /\ s.circuit[k] \in InUse
  <2>1. s \in State /\ s.me \in Node
    BY StateFields DEF Good
  <2>2. p \in Node
    BY <2>1, PartnerFacts
  <2>3. s.circuit[k] \in CircuitSet
    BY <2>1, StateFields
  <2>4. s.circuit[k] \in InUse
    BY <2>3 DEF CircuitSet, NotInUse
  <2> QED
    BY <2>1, <2>2, <2>4 DEF Linked
<1>2. CASE node_find(s, p)
  <2>1. ProcessConnecting(s, k) = Disconnect(s, k)
    BY <1>2 DEF ProcessConnecting
  <2> QED
    BY <1>1, <2>1, RefusedAnswered
<1>3. CASE ~node_find(s, p)
  <2> DEFINE c == [s.circuit[k] EXCEPT !.rtcflags = "linked"]
             t == [s EXCEPT !.flags[p] = "linked", !.circuit[k].rtcflags = "linked"]
             u == state_tell(t, k)
  <2>1. ProcessConnecting(s, k) = u
    BY <1>3 DEF ProcessConnecting
  <2>2. Good(u)
    BY <2>1, ProcessConnectingGains DEF Gains
  <2>3. s.node[p] = 0
    BY <1>3 DEF node_find
  <2>4. OnCircuit(s, k) = {} /\ s.circuit[k].refcnt = 0
        /\ \A n \in Node : s.circuit[k].hnode[n] = 0
    BY <1>1, IdleFacts DEF Sound
  <2>5. /\ c \in CircuitSet /\ c.link = p /\ c.rtcflags = "linked" /\ c.refcnt = 0 /\ c.Active
        /\ \A n \in Node : c.hnode[n] = 0
    BY <1>1, <2>4 DEF InUse, CircuitSet, Flag
  <2>6. /\ t \in State /\ t.me = s.me /\ t.user = s.user /\ t.node = s.node /\ t.out = s.out
        /\ t.shut = s.shut /\ t.circuit[k] = c
        /\ \A j \in Conn : j # k => t.circuit[j] = s.circuit[j]
    <3> DEFINE g == [s.flags EXCEPT ![p] = "linked"]
    <3>1. g \in [Node -> Flag]
      <4>1. s.flags \in [Node -> Flag]
        BY <1>1, StateFields
      <4> HIDE DEF p
      <4> QED
        BY <4>1 DEF Flag
    <3>2. t = [s EXCEPT !.flags = g, !.circuit[k] = c]
      OBVIOUS
    <3> HIDE DEF g, t, c
    <3>3. t \in State
      BY <1>1, <2>5, <3>1, <3>2, CircuitChanges
    <3> QED
      BY <1>1, <3>2, <3>3 DEF State
  <2> HIDE DEF t, c
  <2>7. /\ Steady(t) /\ Linked(t) = Linked(s) \cup {k} /\ Says(t, P, X)
        /\ \A n \in Side(t.me, p) : t.node[n] = 0
        /\ \A j \in Linked(t) : j # k => t.node[t.circuit[j].link] # 0
    BY <1>1, <2>3, <2>5, <2>6, LinkUp
  <2>8. Goes(s, t, X)
    <3>1. \A j \in Conn : t.circuit[j].Active => /\ s.circuit[j].Active
                                                 /\ t.circuit[j].link = s.circuit[j].link
      BY <1>1, <2>5, <2>6 DEF InUse
    <3>2. \A j \in Conn : Onward(s.circuit[j], t.circuit[j])
      BY <2>5, <2>6 DEF Onward
    <3> QED
      BY <2>6, <3>1, <3>2 DEF Goes
  <2>9. t.circuit[k].link = p /\ k \in Linked(t) /\ t.node[p] = 0 /\ OnCircuit(t, k) = {}
    BY <2>3, <2>4, <2>5, <2>6, <2>7 DEF OnCircuit
  <2>10. Answered(s, u, k, P, X)
    BY <2>2, <2>6, <2>7, <2>8, <2>9, MadeAnswered
  <2> QED
    BY <2>1, <2>10
<1> QED
  BY <1>2, <1>3

\* No circuit, but those in K, has got a user.
Fewer(s, t, K) == \A j \in Conn \ K : Pairs(t, j) \subseteq Pairs(s, j)

LEMMA LessFewer ==
  ASSUME NEW s, NEW t, t.user \subseteq s.user, NEW K
  PROVE  Fewer(s, t, K)
  BY DEF Fewer, Pairs, OnCircuit

-----------------------------------------------------------------------------
(* Connections fail or are gone.                                           *)

LEMMA AnyDropped ==
  ASSUME Forest, NEW s, Good(s), Sound(s), NEW k \in Conn, NEW P, NEW X, Says(s, P, X),
         NEW t, t = link_drop(s, k)
  PROVE  Dropped(s, t, k, P, X) /\ Good(t) /\ k \notin Listed(t)
         /\ Goes(s, t, X \cup {k})
<1>1. Dropped(s, t, k, P, X)
  BY IdleDropped, LinkDropped
<1>2. Good(t) /\ k \notin Listed(t)
  BY LinkDropLoses DEF Loses
<1>3. Goes(s, t, X \cup {k})
  BY <1>1 DEF Dropped, Goes, Onward, SameLink
<1> QED
  BY <1>1, <1>2, <1>3

LEMMA FailHandled ==
  ASSUME Forest, NEW s, Good(s), Sound(s), NEW k \in Conn, NEW P, NEW X, Says(s, P, X),
         NEW u, u = Disconnect(link_drop(s, k), k)
  PROVE  Handled(s, u, P, X) /\ Fewer(s, u, {})
<1> DEFINE t == link_drop(s, k)
<1>1. Dropped(s, t, k, P, X) /\ Good(t) /\ Goes(s, t, X \cup {k})
  BY AnyDropped
<1> HIDE DEF t
<1>2. Sound(t) /\ Says(t, P, X \cup {k}) /\ u = Disconnect(t, k)
  BY <1>1 DEF Dropped, t
<1>3. Handled(t, u, P, X)
  BY <1>1, <1>2, DisconnectHandled
<1>4. u.shut = t.shut \cup {k} /\ u.circuit = t.circuit /\ u.me = t.me /\ u.user = t.user
  BY <1>1, <1>2, DisconnectFields DEF Good
<1>5. Goes(s, u, X)
  <2>1. \A j \in Conn \ (u.shut \cup X) : j \in Conn \ (t.shut \cup (X \cup {k}))
    BY <1>4
  <2> QED
    BY <1>1, <1>4, <2>1 DEF Goes
<1>6. Fewer(s, u, {})
  BY <1>1, <1>4, LessFewer DEF Dropped
<1> QED
  BY <1>3, <1>5, <1>6 DEF Handled

LEMMA GoneHandled ==
  ASSUME Forest, NEW s, Good(s), Sound(s), NEW k \in Conn, NEW P, NEW X, Says(s, P, X),
         NEW u, u = ChatDisconnected(s, k)
  PROVE  Handled(s, u, P, X \cup {k}) /\ u.shut = s.shut /\ Fewer(s, u, {})
<1>1. CASE ~s.circuit[k].Active
  <2>1. u = s
    BY <1>1 DEF ChatDisconnected
  <2>2. Says(s, P, X \cup {k})
    BY SaysWider
  <2> QED
    BY <2>1, <2>2, HandledNot, LessFewer
<1>2. CASE s.circuit[k].Active
  <2> DEFINE t == IF s.circuit[k].rtcflags = "linkwait" THEN circuit_free(s, k)
                  ELSE link_drop(s, k)
  <2>1. /\ Sound(t) /\ t.me = s.me /\ t.shut = s.shut /\ Says(t, P, X \cup {k})
        /\ \A j \in Conn : j # k => SameLink(s.circuit[j], t.circuit[j])
        /\ Good(t) /\ k \notin Listed(t) /\ t.user \subseteq s.user
    <3>1. CASE s.circuit[k].rtcflags = "linkwait"
      <4> DEFINE v == circuit_free(s, k)
      <4>1. k \notin Linked(s) /\ k \notin Listed(s)
        BY <3>1 DEF Linked, Listed
      <4>2. Idled(s, v, k)
        BY <4>1, FreeIdles DEF Sound, Steady
      <4>3. Good(v) /\ k \notin Listed(v)
        BY <4>1, CircuitFreeLoses DEF Loses
      <4>4. t = v
        BY <3>1
      <4> HIDE DEF v, t
      <4>5. Sound(v)
        BY <4>1, <4>2, <4>3, IdledSound DEF Good
      <4>6. Says(v, P, X \cup {k})
        BY <4>2, SaysLess DEF Idled
      <4>7. \A j \in Conn : j # k => SameLink(s.circuit[j], v.circuit[j])
        BY <4>2 DEF Idled, SameLink
      <4> QED
        BY <4>2, <4>3, <4>4, <4>5, <4>6, <4>7 DEF Idled
    <3>2. CASE s.circuit[k].rtcflags # "linkwait"
      <4>1. t = link_drop(s, k)
        BY <3>2
      <4> HIDE DEF t
      <4>2. Dropped(s, t, k, P, X) /\ Good(t) /\ k \notin Listed(t)
        BY <4>1, AnyDropped
      <4> QED
        BY <4>2 DEF Dropped
    <3> QED
      BY <3>1, <3>2
  <2>2. u = [t EXCEPT !.circuit[k] = NoCircuit]
    BY <1>2 DEF ChatDisconnected
  <2> HIDE DEF t
  <2>3. Good(u) /\ u \in State /\ ~u.circuit[k].Active
    BY <2>1, <2>2, ClearedLoses DEF Loses, Good
  <2>4. /\ u.me = t.me /\ u.user = t.user /\ u.node = t.node /\ u.out = t.out
        /\ u.shut = t.shut /\ u.circuit[k] = NoCircuit
        /\ \A j \in Conn : j # k => u.circuit[j] = t.circuit[j]
    BY <2>1, <2>2, <2>3 DEF State, Good
  <2>5. k \notin Linked(t) /\ k \notin Linked(u)
    BY <2>1, <2>4 DEF Linked, Listed, NoCircuit
  <2>6. Sound(u)
    <3>1. u.circuit[k].refcnt = 0 /\ \A n \in Node : u.circuit[k].hnode[n] = 0
      BY <2>4 DEF NoCircuit, Nobody
    <3> QED
      BY <2>1, <2>3, <2>4, <2>5, <3>1, IdleSound
  <2>7. Says(u, P, X \cup {k})
    BY <2>1, <2>4, SaysLess
  <2>8. Goes(s, u, X \cup {k})
    BY <2>1, <2>3, <2>4 DEF Goes, Onward, SameLink
  <2>9. Fewer(s, u, {})
    BY <2>1, <2>4, LessFewer
  <2> QED
    BY <2>1, <2>3, <2>4, <2>6, <2>7, <2>8, <2>9 DEF Handled
<1> QED
  BY <1>1, <1>2

LEMMA CloseHandled ==
  ASSUME NEW s, Good(s), Sound(s), NEW P, NEW X, Says(s, P, X), NEW u, u = node_close(s)
  PROVE  Handled(s, u, P, X) /\ Fewer(s, u, {})
<1> DEFINE S == Listed(s) \cup {k \in Conn : s.circuit[k].rtcflags = "linkwait"}
<1>1. S \subseteq Conn /\ IsFiniteSet(S)
  <2>1. S \subseteq Conn
    BY DEF Listed
  <2> QED
    BY <2>1, ConnFinite
<1>2. u = FoldSet(LAMBDA k, t : Disconnect(t, k), s, S)
  BY DEF node_close
<1> HIDE DEF S
<1>3. PICK f : DisconnectAllIn(f, s, S)
  BY <1>1, DisconnectAllRun DEF Good
<1> DEFINE G == {x \in SUBSET S : Handled(s, f[x], P, X) /\ f[x].user = s.user}
<1>4. {} \in G
  BY <1>3, HandledNot DEF DisconnectAllIn
<1>5. \A x \in SUBSET S : x # {} => \E z \in x : x \ {z} \in G => x \in G
  <2> TAKE x \in SUBSET S
  <2> HAVE x # {}
  <2>1. Picked(x) \in x
    BY PickedIn
  <2> DEFINE k == Picked(x)
             t == f[x \ {k}]
  <2>2. f[x] = Disconnect(t, k) /\ k \in Conn
    BY <1>1, <1>3, <2>1 DEF DisconnectAllIn
  <2> SUFFICES ASSUME x \ {k} \in G
               PROVE  x \in G
    BY <2>1
  <2>3. Handled(s, t, P, X) /\ t.user = s.user
    OBVIOUS
  <2> HIDE DEF t, k
  <2>4. Good(t) /\ Sound(t) /\ Says(t, P, X \cup {k}) /\ Goes(s, t, X)
    BY <2>3, SaysWider DEF Handled
  <2>5. Handled(t, f[x], P, X)
    BY <2>2, <2>4, DisconnectHandled
  <2>6. Handled(s, f[x], P, X)
    BY <2>4, <2>5, GoesOn DEF Handled
  <2>7. f[x].user = s.user
    BY <2>2, <2>3, <2>4, DisconnectFields DEF Good
  <2> QED
    BY <2>6, <2>7
<1>6. S \in G
  <2> HIDE DEF G
  <2> QED
    BY <1>1, <1>4, <1>5, SubsetInduction
<1>7. Handled(s, u, P, X) /\ u.user = s.user
  BY <1>2, <1>3, <1>6 DEF DisconnectAllIn
<1> QED
  BY <1>7, LessFewer

-----------------------------------------------------------------------------
(* Users.                                                                  *)

\* Of this node's own users all links are told.
LEMMA OwnTold ==
  ASSUME Forest, NEW s, Sound(s), NEW t, t.me = s.me, t.circuit = s.circuit
  PROVE  /\ Without(t, t.me) = Linked(s) /\ Linked(t) = Linked(s)
         /\ \A k \in Linked(s) : s.me \in Side(s.circuit[k].link, s.me)
         /\ \A k \in Conn : \A n \in Node : n = s.me => s.circuit[k].hnode[n] = 0
<1>1. /\ s \in State /\ Links(s.me, Linking(s)) /\ DOMAIN Linking(s) = Linked(s)
      /\ \A j \in Linked(s) : InStep(s, Linking(s), j)
      /\ \A j \in Linked(s) : Linking(s)[j] = s.circuit[j].link
      /\ Linked(s) \subseteq Conn /\ \A j \in Conn : InStep(s, Linking(s), j)
  BY LinkingFacts DEF Sound, Steady, Tables
<1>2. Without(s, s.me) = Linked(s)
  BY <1>1, WithoutOthers
<1>3. Without(t, t.me) = Linked(s) /\ Linked(t) = Linked(s)
  BY <1>2 DEF Without, Linked, cn_find
<1>4. \A k \in Linked(s) : s.me \in Side(s.circuit[k].link, s.me)
  BY <1>1, OtherSide
<1>5. ASSUME NEW k \in Conn, s.me \in Node
      PROVE  s.circuit[k].hnode[s.me] = 0
  <2>1. k \in DOMAIN Linking(s) => s.me \notin Side(s.me, Linking(s)[k])
    BY <1>1, OtherSide
  <2> QED
    BY <1>1, <1>5, <2>1 DEF InStep
<1> QED
  BY <1>3, <1>4, <1>5

\* The counts of this node change, and no other.
LEMMA OwnSound ==
  ASSUME Forest, NEW s, Sound(s), NEW t, Keeps(s, t), t.me = s.me, Tables(t, Linking(s)),
         \A m \in Node : m # s.me => t.node[m] = s.node[m],
         \A j \in Conn : t.circuit[j].hnode = s.circuit[j].hnode
  PROVE  Sound(t)
<1>1. /\ s \in State /\ Links(s.me, Linking(s))
      /\ \A j \in Conn : InStep(s, Linking(s), j)
      /\ \A j \in Linked(s) : s.node[s.circuit[j].link] # 0
      /\ \A j \in Linked(s) : s.circuit[j].link \in Node /\ s.circuit[j].link # s.me
  BY LinkFacts DEF Sound, Steady, Tables
<1>2. /\ Linked(t) = Linked(s) /\ Linking(t) = Linking(s)
      /\ \A j \in Linked(s) : t.circuit[j].link = s.circuit[j].link
  BY <1>1, LinksKept
<1>3. ASSUME NEW j \in Conn
      PROVE  InStep(t, Linking(s), j)
  <2>1. j \in DOMAIN Linking(s) => s.me \notin Side(s.me, Linking(s)[j])
    BY <1>1, OtherSide
  <2> QED
    BY <1>1, <2>1 DEF InStep
<1> QED
  BY <1>1, <1>2, <1>3 DEF Sound, Steady

LEMMA LoginMoves ==
  ASSUME Forest, NEW s, Sound(s), NEW c \in User, OfCall(s, c) = {}
  PROVE  Moves(s, rtloginu(s, c)) /\ Fewer(s, rtloginu(s, c), {})
<1> DEFINE a == [s EXCEPT !.node[s.me] = @ + 1]
           r == [call |-> c, node |-> s.me, circuit |-> Local, topic |-> deftopic]
           b == user_join(a, Local, c, s.me)
           q == [call |-> c, node |-> s.me]
           l == UserLine("join", q)
           t == user_tell(b, q, "join")
<1>1. /\ s \in State /\ s.me \in Node /\ s.node \in [Node -> Int] /\ Tables(s, Linking(s))
  <2>1. s \in State /\ Tables(s, Linking(s))
    BY DEF Sound, Steady, Tables
  <2> QED
    BY <2>1, StateFields
<1>2. rtloginu(s, c) = t
  BY DEF rtloginu
<1>3. Keeps(s, t)
  BY <1>1, <1>2, LoginKeeps
<1>4. /\ a \in State /\ a.me = s.me /\ a.user = s.user /\ a.circuit = s.circuit /\ a.out = s.out
      /\ a.shut = s.shut
      /\ \A n \in Node : a.node[n] = s.node[n] + IF n = s.me THEN 1 ELSE 0
  <2> DEFINE x == [s.node EXCEPT ![s.me] = @ + 1]
  <2>1. x \in [Node -> Int] /\ a = [s EXCEPT !.node = x]
        /\ \A n \in Node : x[n] = s.node[n] + IF n = s.me THEN 1 ELSE 0
    BY <1>1
  <2> HIDE DEF x, a
  <2>2. a \in State
    BY <1>1, <2>1, UpdatesKeep DEF Keeps
  <2> QED
    BY <1>1, <2>1, <2>2 DEF State
<1> HIDE DEF a
<1>5. /\ b \in State /\ b.me = s.me /\ b.user = s.user \cup {r} /\ b.circuit = s.circuit
      /\ b.out = s.out /\ b.shut = s.shut /\ b.node = a.node
  <2>1. b \in State
    BY <1>1, <1>4, UserJoinKeeps DEF Keeps
  <2> QED
    BY <1>4, <2>1 DEF user_join, State
<1> HIDE DEF b
<1>6. l \in LineSet /\ l.kind = "join" /\ l.node = s.me /\ UserOf(l) = PairOf(r)
  <2>1. q.call \in Node \cup User /\ q.node \in Node /\ "join" \in LineKind
    BY <1>1 DEF LineKind
  <2> QED
    BY <2>1, UserLineType DEF UserLine, Line, UserOf, PairOf
<1>7. t = Send(b, Without(b, s.me), l)
  BY DEF user_tell
<1> HIDE DEF l
<1>8. /\ Without(b, s.me) = Linked(s)
      /\ \A k \in Linked(s) : s.me \in Side(s.circuit[k].link, s.me)
  BY <1>5, OwnTold
<1>9. /\ SameButOut(b, t)
      /\ \A k \in Conn : t.out[k] = IF k \in Linked(s) THEN Append(s.out[k], l) ELSE s.out[k]
  BY <1>5, <1>7, <1>8, SendFields
<1> HIDE DEF t
<1>10. /\ t.me = s.me /\ t.user = s.user \cup {r} /\ t.circuit = s.circuit /\ t.shut = s.shut
       /\ \A n \in Node : t.node[n] = s.node[n] + IF n = s.me THEN 1 ELSE 0
  BY <1>4, <1>5, <1>9 DEF SameButOut
<1>11. Tables(t, Linking(s))
  <2>1. \A x \in s.user : x.call # r.call \/ x.node # r.node
    BY DEF OfCall
  <2>2. \A k \in Conn : t.circuit[k].refcnt = s.circuit[k].refcnt + IF k = r.circuit THEN 1 ELSE 0
    <3>1. \A k \in Conn : k # Local
      BY DEF Conn, Local
    <3>2. \A k \in Conn : s.circuit[k].refcnt \in Int
      BY <1>1, StateFields, CircuitFields
    <3> QED
      BY <1>10, <3>1, <3>2
  <2>3. t \in State
    BY <1>3 DEF Keeps
  <2>4. r.circuit = Local /\ r.node = s.me /\ r.node \in Node
    BY <1>1
  <2>5. \A n \in Node : t.node[n] = s.node[n] + IF n = r.node THEN 1 ELSE 0
    BY <1>10
  <2>6. t.me = s.me /\ t.user = s.user \cup {r}
    BY <1>10
  <2> HIDE DEF r
  <2> QED
    BY <1>1, <2>1, <2>2, <2>3, <2>4, <2>5, <2>6, JoinTables
<1>12. Sound(t)
  <2>1. \A m \in Node : m # s.me => t.node[m] = s.node[m]
    BY <1>1, <1>10
  <2> QED
    BY <1>2, <1>3, <1>10, <1>11, <2>1, OwnSound
<1>13. Tells(s, t)
  <2>1. ASSUME NEW k \in Linked(s)
        PROVE  TellsOn(s, t, k)
    <3>1. k \in Conn /\ k # Local
      BY DEF Linked, Conn, Local
    <3>2. Beyond(t, k) = Beyond(s, k) \cup {PairOf(r)}
      BY <1>10, <3>1 DEF Beyond
    <3>3. Hears(Beyond(s, k), l, Beyond(t, k))
      BY <1>6, <3>2 DEF Hears
    <3>4. Proper(s.circuit[k].link, s.me, l)
      BY <1>6, <1>8 DEF Proper
    <3> QED
      BY <1>6, <1>9, <3>1, <3>3, <3>4 DEF TellsOn
  <2> QED
    BY <1>9, <2>1 DEF Tells
<1>14. Fewer(s, t, {})
  <2>1. \A k \in Conn : k # Local
    BY DEF Conn, Local
  <2> QED
    BY <1>10, <2>1 DEF Fewer, Pairs, OnCircuit
<1> QED
  BY <1>2, <1>3, <1>10, <1>12, <1>13, <1>14 DEF Moves

LEMMA LogoutMoves ==
  ASSUME Forest, NEW s, Sound(s), NEW r \in OnCircuit(s, Local)
  PROVE  Moves(s, logout(s, r)) /\ Fewer(s, logout(s, r), {})
<1> DEFINE l == UserLine("leave", r)
           a == user_tell(s, r, "leave")
           b == [a EXCEPT !.user = @ \ {r}]
           t == node_dec(b, s.me)
<1>1. /\ s \in State /\ s.me \in Node /\ s.node \in [Node -> Int] /\ Tables(s, Linking(s))
      /\ r \in s.user /\ r \in UserSet /\ r.circuit = Local /\ r.node = s.me
  <2>1. s \in State /\ Tables(s, Linking(s)) /\ r \in s.user /\ r.circuit = Local
    BY DEF Sound, Steady, Tables, OnCircuit
  <2>2. r.node = s.me
    BY <2>1 DEF Tables, Placed
  <2> QED
    BY <2>1, <2>2, StateFields
<1>2. l \in LineSet /\ l.kind = "leave" /\ l.node = s.me /\ UserOf(l) = PairOf(r)
  <2>1. r.call \in Node \cup User /\ r.node \in Node /\ "leave" \in LineKind
    BY <1>1 DEF LineKind, UserSet
  <2> QED
    BY <1>1, <2>1, UserLineType DEF UserLine, Line, UserOf, PairOf
<1>3. /\ Without(s, s.me) = Linked(s)
      /\ \A k \in Linked(s) : s.me \in Side(s.circuit[k].link, s.me)
      /\ \A k \in Conn : s.circuit[k].hnode[s.me] = 0
  BY <1>1, OwnTold
<1>4. /\ a \in State /\ SameButOut(s, a)
      /\ \A k \in Conn : a.out[k] = IF k \in Linked(s) THEN Append(s.out[k], l) ELSE s.out[k]
  <2>1. a \in State
    <3>1. r.call \in Node \cup User /\ r.node \in Node /\ "leave" \in LineKind
      BY <1>1 DEF LineKind, UserSet
    <3> QED
      BY <1>1, <3>1, UserTellKeeps DEF Keeps
  <2> QED
    BY <1>1, <1>3, <2>1, SendFields DEF user_tell
<1> HIDE DEF a, l
<1>5. /\ b \in State /\ b.me = s.me /\ b.user = s.user \ {r} /\ b.circuit = s.circuit
      /\ b.out = a.out /\ b.shut = s.shut /\ b.node = s.node
  <2>1. b \in State
    BY <1>1, <1>4, UserSetKeeps DEF Keeps
  <2> QED
    BY <1>4, <2>1 DEF State, SameButOut
<1>6. b = [user_tell(s, r, "leave") EXCEPT !.user = @ \ {r}]
  BY DEF a
<1> HIDE DEF b
<1>7. /\ t.me = s.me /\ t.user = s.user \ {r} /\ t.circuit = s.circuit /\ t.out = a.out
      /\ t.shut = s.shut /\ \A m \in Node : m # s.me => t.node[m] = s.node[m]
      /\ t.node[s.me] = s.node[s.me] - 1
  <2>1. /\ t.me = b.me /\ t.circuit = b.circuit /\ t.user = b.user /\ t.out = b.out
        /\ t.shut = b.shut /\ \A m \in Node : m # s.me => t.node[m] = b.node[m]
        /\ b.node[s.me] # 1 => t.node[s.me] = b.node[s.me] - 1
        /\ b.node[s.me] = 1 => t.node[s.me] = Cardinality(UsersOf(b, s.me))
                                   + Cardinality({k \in Linked(b) : cn_find(b, k, s.me)})
    <3>1. b.me = s.me
      BY <1>5
    <3> QED
      BY <1>1, <1>5, NodeDecFields DEF UsersOf
  <2>2. {k \in Linked(b) : cn_find(b, k, s.me)} = {}
    BY <1>3, <1>5 DEF Linked, cn_find
  <2>3. s.node[s.me] = 1 => Cardinality(UsersOf(b, s.me)) = 0
    <3>1. Cardinality(UsersOf(b, s.me)) = Cardinality(UsersOf(s, s.me)) - 1
      BY <1>1, <1>5, UserLess
    <3>2. s.node[s.me] = Cardinality(UsersOf(s, s.me))
      BY <1>1 DEF Tables, Nodes
    <3> QED
      BY <3>1, <3>2
  <2>4. Cardinality({}) = 0
    BY FS_EmptySet
  <2> HIDE DEF t
  <2>5. b.node = s.node /\ s.node[s.me] \in Int
    BY <1>1, <1>5
  <2>6. Cardinality({k \in Linked(b) : cn_find(b, k, s.me)}) = 0
    BY <2>2, <2>4, Zenon
  <2>7. t.node[s.me] = s.node[s.me] - 1
    <3> DEFINE C == Cardinality({k \in Linked(b) : cn_find(b, k, s.me)})
               D == Cardinality(UsersOf(b, s.me))
    <3>1. /\ b.node[s.me] # 1 => t.node[s.me] = b.node[s.me] - 1
          /\ b.node[s.me] = 1 => t.node[s.me] = D + C
          /\ C = 0 /\ (s.node[s.me] = 1 => D = 0)
      BY <2>1, <2>3, <2>6, Zenon
    <3> HIDE DEF C, D
    <3> QED
      BY <2>5, <3>1
  <2> QED
    BY <1>5, <2>1, <2>5, <2>7
<1>8. Keeps(s, t)
  <2>1. Keeps(b, t) /\ t \in State
    BY <1>5, NodeDecKeeps DEF Keeps
  <2>2. t.flags = s.flags
    <3>1. t.flags = b.flags
      BY <2>1 DEF Keeps
    <3>2. b.flags = a.flags
      BY <1>4 DEF b, State
    <3> QED
      BY <1>4, <3>1, <3>2 DEF SameButOut
  <2> QED
    BY <1>7, <2>1, <2>2 DEF Keeps, SameLink
<1>9. logout(s, r) = IF Listed(t) = {} /\ OnCircuit(t, Local) = {}
                     THEN [t EXCEPT !.node = Nobody] ELSE t
  BY <1>6 DEF logout
<1> HIDE DEF t
<1>10. t \in State
  BY <1>8 DEF Keeps
<1>11. Tables(t, Linking(s))
  <2>1. \A k \in Conn : t.circuit[k].refcnt = s.circuit[k].refcnt - IF k = r.circuit THEN 1 ELSE 0
    <3>1. \A k \in Conn : k # Local
      BY DEF Conn, Local
    <3>2. \A k \in Conn : s.circuit[k].refcnt \in Int
      BY <1>1, StateFields, CircuitFields
    <3> QED
      BY <1>1, <1>7, <3>1, <3>2
  <2>2. \A n \in Node : t.node[n] = s.node[n] - IF n = r.node THEN 1 ELSE 0
    BY <1>1, <1>7
  <2> QED
    BY <1>1, <1>7, <1>10, <2>1, <2>2, LeaveTables
<1>12. Sound(t)
  BY <1>7, <1>8, <1>11, OwnSound
<1>13. Tells(s, t)
  <2>1. ASSUME NEW k \in Linked(s)
        PROVE  TellsOn(s, t, k)
    <3>1. k \in Conn
      BY DEF Linked
    <3>2. Hears(Beyond(s, k), l, Beyond(t, k))
      BY <1>2, <1>7 DEF Hears, Beyond
    <3>3. Proper(s.circuit[k].link, s.me, l)
      BY <1>2, <1>3 DEF Proper
    <3> QED
      BY <1>2, <1>4, <1>7, <3>1, <3>2, <3>3 DEF TellsOn
  <2> QED
    BY <1>4, <1>7, <2>1 DEF Tells
<1>14. CASE ~(Listed(t) = {} /\ OnCircuit(t, Local) = {})
  <2>1. logout(s, r) = t
    BY <1>9, <1>14
  <2> QED
    BY <1>7, <1>8, <1>12, <1>13, <2>1, LessFewer DEF Moves
<1>15. CASE Listed(t) = {} /\ OnCircuit(t, Local) = {}
  <2> DEFINE u == [t EXCEPT !.node = Nobody]
  <2>1. logout(s, r) = u
    BY <1>9, <1>15
  <2>2. Linked(t) = {}
    BY <1>15 DEF Listed, Linked
  <2>3. t.node = Nobody
    BY <1>12, <1>15, <2>2, NobodyKnown DEF Sound, Steady
  <2>4. /\ u.me = t.me /\ u.user = t.user /\ u.node = t.node /\ u.circuit = t.circuit
        /\ u.out = t.out /\ u.shut = t.shut
    BY <1>10, <2>3 DEF State
  <2>5. Keeps(t, u)
    BY <1>10, NobodyType, UpdatesKeep
  <2> HIDE DEF u
  <2>6. Sound(u)
    <3>1. SameTables(t, u)
      BY <2>4 DEF SameTables
    <3> QED
      BY <1>12, <2>5, <3>1, SoundSame
  <2>7. Tells(s, u)
    <3>1. \A k : Beyond(u, k) = Beyond(t, k)
      BY <2>4 DEF Beyond
    <3> QED
      BY <1>13, <2>4, <3>1 DEF Tells, TellsOn
  <2>8. Keeps(s, u)
    BY <1>8, <2>5, KeepsOn
  <2> QED
    BY <1>7, <2>1, <2>4, <2>6, <2>7, <2>8, LessFewer DEF Moves
<1> QED
  BY <1>14, <1>15

LEMMA TopicHandled ==
  ASSUME Forest, NEW s, Good(s), Sound(s), NEW P, NEW X, Says(s, P, X),
         NEW r \in OnCircuit(s, Local), NEW c \in Topic, NEW u, u = TopicCommand(s, r, c)
  PROVE  Handled(s, u, P, X) /\ Fewer(s, u, {})
<1> DEFINE q == [r EXCEPT !.topic = c]
           l == TopicLine(s, q)
           t == topic_chg(s, r, c)
<1>1. s \in State /\ r \in s.user /\ r \in UserSet /\ s.me \in Node
  <2>1. s \in State /\ r \in s.user
    BY DEF Sound, Steady, Tables, OnCircuit
  <2> QED
    BY <2>1, StateFields
<1>2. u = Send(t, Linked(s), l)
  BY DEF TopicCommand
<1>3. Keeps(s, t) /\ t.me = s.me /\ t.circuit = s.circuit /\ t.out = s.out /\ t.shut = s.shut
  BY <1>1, TopicChgKeeps, TopicChgFields
<1>4. Sound(t) /\ \A k : Beyond(t, k) = Beyond(s, k) /\ Pairs(t, k) = Pairs(s, k)
  BY <1>1, <1>3, TopicSound
<1>5. l \in LineSet /\ l.kind = "topic" /\ l.node = s.me
  <2>1. q.call \in Node \cup User /\ q.topic \in Topic
    BY <1>1 DEF UserSet
  <2> HIDE DEF q
  <2> QED
    BY <1>1, <2>1, TopicLineType DEF TopicLine, Line
<1> HIDE DEF t, l
<1>6. Says(t, P, X)
  <2>1. Tells(s, t)
    BY <1>3, <1>4 DEF Tells, TellsOn
  <2> QED
    BY <1>1, <1>3, <2>1, SaysStep
<1>7. ASSUME NEW k \in Linked(s)
      PROVE  Proper(t.circuit[k].link, t.me, l) /\ Hears(Beyond(t, k), l, Beyond(t, k))
  <2>1. s.me \in Side(s.circuit[k].link, s.me)
    BY OwnTold
  <2> QED
    BY <1>3, <1>5, <2>1 DEF Proper, Hears
<1>8. Sound(u) /\ Says(u, P, X) /\ Keeps(t, u) /\ SameButOut(t, u)
  <2>1. Linked(s) \subseteq Linked(t)
    BY <1>3 DEF Linked
  <2> QED
    BY <1>2, <1>4, <1>5, <1>6, <1>7, <2>1, SendSound
<1>9. Keeps(s, u) /\ u.me = s.me /\ u.shut = s.shut
  BY <1>3, <1>8, KeepsOn DEF SameButOut
<1>10. Fewer(s, u, {})
  <2>1. \A k : Pairs(u, k) = Pairs(t, k)
    BY <1>8, SameOutSame
  <2> QED
    BY <1>4, <2>1 DEF Fewer
<1> QED
  BY <1>8, <1>9, <1>10, KeepsGoes, KeepsLoses DEF Handled, Loses

-----------------------------------------------------------------------------
(* Lines and packets from a partner.                                       *)

\* A line or a packet of circuit k has been taken: the partner, who is p, has told of
\* users in Z.
Taken(s, t, k, P, X, Z) ==
    /\ Handled(s, t, P, X) /\ t.circuit[k].rtcflags # "nil" /\ Pairs(t, k) \subseteq Z
    /\ t.circuit[k].rtcflags = "linkwait" => s.circuit[k].rtcflags = "linkwait"
    /\ Fewer(s, t, {k})

\* The lines of one partner touch no users of another.
LEMMA ChkctlFewer ==
  ASSUME NEW s \in State, NEW k \in Conn, NEW l \in LineSet,
         l.kind \in {"link", "unlink"} => l.about \in Node
  PROVE  Fewer(s, chkctl(s, k, l), {k})
<1> DEFINE a == echo(s, k, l)
<1>1. a \in State /\ a.user = s.user /\ l.node \in Node
  <2>1. Keeps(s, a)
    BY EchoKeeps
  <2> QED
    BY <2>1, SendFields DEF Keeps, echo, SameButOut, LineSet
<1>2. ASSUME NEW t \in State, NEW n \in Node
      PROVE  /\ node_dec(t, n).user = t.user /\ cn_inc(t, k, n).user = t.user
             /\ cn_dec(t, k, n).user = t.user
             /\ [t EXCEPT !.circuit[k].refcnt = @ + 1].user = t.user
             /\ [t EXCEPT !.circuit[k].refcnt = @ - 1].user = t.user
  <2>1. node_dec(t, n).user = t.user
    BY NodeDecFields
  <2>2. cn_inc(t, k, n).user = t.user
    BY CnIncFields DEF SameButHnode
  <2>3. cn_dec(t, k, n).user = t.user
    BY CnDecFields DEF cn_dec, SameButHnode
  <2>4. /\ [t EXCEPT !.circuit[k].refcnt = @ + 1].user = t.user
        /\ [t EXCEPT !.circuit[k].refcnt = @ - 1].user = t.user
    BY DEF State
  <2> QED
    BY <2>1, <2>2, <2>3, <2>4
<1>3. Fewer(s, s, {k})
  BY DEF Fewer
<1>4. Fewer(s, id_join(s, k, l), {k})
  <2>1. CASE user_find(s, l.about, l.node) # {}
    BY <1>3, <2>1 DEF id_join
  <2>2. CASE user_find(s, l.about, l.node) = {}
    <3> DEFINE b == cn_inc(a, k, l.node)
               c == user_join(b, k, l.about, l.node)
               r == [call |-> l.about, node |-> l.node, circuit |-> k, topic |-> deftopic]
               d == [c EXCEPT !.circuit[k].refcnt = @ + 1]
    <3>1. id_join(s, k, l) = d
      BY <2>2 DEF id_join
    <3>2. b.user = s.user /\ b \in State
      BY <1>1, <1>2, CnIncKeeps DEF Keeps
    <3> HIDE DEF b
    <3>3. c.user = s.user \cup {r} /\ r.circuit = k
      BY <3>2 DEF user_join, State
    <3>4. d.user = c.user
      <4>1. c \in State
        BY <1>1, <2>2, <3>2, UserJoinKeeps DEF Keeps, LineSet
      <4> HIDE DEF c
      <4> QED
        BY <1>1, <1>2, <4>1
    <3> HIDE DEF c, d, r
    <3> QED
      BY <3>1, <3>3, <3>4 DEF Fewer, Pairs, OnCircuit
  <2> QED
    BY <2>1, <2>2
<1>5. Fewer(s, id_leave(s, k, l), {k})
  <2>1. CASE user_find(s, l.about, l.node) = {}
    BY <1>3, <2>1 DEF id_leave
  <2>2. CASE user_find(s, l.about, l.node) # {}
    <3> DEFINE U == user_find(s, l.about, l.node)
               b == [a EXCEPT !.circuit[k].refcnt = @ - 1]
               us == b.user \ U
               c == [b EXCEPT !.user = us]
               d == cn_dec(c, k, l.node)
    <3>1. id_leave(s, k, l) = node_dec(d, l.node)
      BY <2>2 DEF id_leave
    <3>2. b \in State /\ b.user = s.user
      BY <1>1, <1>2, RefcntKeeps DEF Keeps
    <3> HIDE DEF b
    <3>3. us \in SUBSET UserSet /\ IsFiniteSet(us) /\ us \subseteq s.user
      BY <3>2, StateFields, FS_Subset
    <3> HIDE DEF us
    <3>4. c \in State /\ c.user = us
      BY <3>2, <3>3, UpdatesKeep DEF Keeps, State
    <3> HIDE DEF c
    <3>5. d \in State /\ d.user = us
      BY <1>1, <1>2, <3>4, CnDecKeeps DEF Keeps
    <3> HIDE DEF d
    <3>6. node_dec(d, l.node).user = us
      BY <1>1, <1>2, <3>5
    <3> QED
      BY <3>1, <3>3, <3>6, LessFewer
  <2> QED
    BY <2>1, <2>2
<1>6. ASSUME l.about \in Node
      PROVE  Fewer(s, id_link(s, k, l), {k})
  <2> DEFINE b == cn_inc(s, k, l.about)
  <2>1. b \in State /\ b.user = s.user
    BY <1>2, <1>6, CnIncKeeps DEF Keeps
  <2>2. id_link(s, k, l) = s \/ id_link(s, k, l) = echo(b, k, l)
    BY DEF id_link
  <2> HIDE DEF b
  <2>3. echo(b, k, l).user = s.user
    BY <2>1, SendFields DEF echo, SameButOut
  <2> QED
    BY <2>2, <2>3, LessFewer
<1>7. ASSUME l.about \in Node
      PROVE  Fewer(s, id_unlink(s, k, l), {k})
  <2>1. CASE ~cn_find(s, k, l.about)
    BY <1>3, <2>1 DEF id_unlink
  <2>2. CASE cn_find(s, k, l.about)
    <3> DEFINE b == cn_dec(s, k, l.about)
               c == node_dec(b, l.about)
    <3>1. b \in State /\ b.user = s.user
      BY <1>2, <1>7, CnDecKeeps DEF Keeps
    <3> HIDE DEF b
    <3>2. c \in State /\ c.user = s.user
      BY <1>2, <1>7, <3>1, NodeDecKeeps DEF Keeps
    <3>3. id_unlink(s, k, l) = echo(c, k, l)
      BY <2>2 DEF id_unlink, b
    <3> HIDE DEF c
    <3>4. echo(c, k, l).user = s.user
      BY <3>2, SendFields DEF echo, SameButOut
    <3> QED
      BY <3>3, <3>4, LessFewer
  <2> QED
    BY <2>1, <2>2
<1>8. Fewer(s, id_topic(s, k, l), {k})
  <2> DEFINE R == {x \in user_find(s, l.about, l.node) : x.topic # l.topic}
  <2>1. CASE R = {}
    BY <1>3, <2>1 DEF id_topic
  <2>2. CASE R # {}
    <3> DEFINE r == CHOOSE x \in R : TRUE
               t == topic_chg(a, r, l.topic)
    <3>1. r \in s.user
      BY <2>2 DEF user_find
    <3>2. id_topic(s, k, l) = t
      BY <2>2 DEF id_topic
    <3> HIDE DEF a, r
    <3>3. t.user = (s.user \ {r}) \cup {[r EXCEPT !.topic = l.topic]}
      BY <1>1, TopicChgFields
    <3>4. r \in UserSet
      BY <3>1, StateFields
    <3>5. LET q == [r EXCEPT !.topic = l.topic]
          IN  q.circuit = r.circuit /\ PairOf(q) = PairOf(r)
      BY <3>4 DEF UserSet, PairOf
    <3> HIDE DEF t
    <3> QED
      BY <3>1, <3>2, <3>3, <3>5 DEF Fewer, Pairs, OnCircuit
  <2> QED
    BY <2>1, <2>2
<1> HIDE DEF a
<1> QED
  BY <1>3, <1>4, <1>5, <1>6, <1>7, <1>8 DEF chkctl

LEMMA LineHandled ==
  ASSUME Forest, NEW s, Good(s), Sound(s), NEW P, NEW X, Says(s, P, X), NEW k \in Conn,
         s.circuit[k].rtcflags # "nil", NEW p \in Partner[s.me], s.circuit[k].link = p,
         NEW l \in LineSet, Proper(s.me, p, l), s.circuit[k].rtcflags = "linkwait" => l.node = p,
         NEW Z, Hears(Pairs(s, k), l, Z), NEW t, t = ChatDoReceivedLine(s, k, l)
  PROVE  Taken(s, t, k, P, X, Z) /\ (t.circuit[k].rtcflags = "linkwait" => k \in t.shut)
<1>1. s \in State
  BY DEF Good
<1>2. s.circuit[k].rtcflags \in {"linkini", "linkwait", "linked"}
  <2>1. s.circuit[k] \in CircuitSet
    BY <1>1, StateFields
  <2> QED
    BY <2>1 DEF CircuitSet, InUse, NotInUse, Flag
<1>3. CASE s.circuit[k].rtcflags = "linkini"
  <2>1. CASE l.kind = "OK"
    <3>1. t = ProcessConnecting(s, k)
      BY <1>3, <2>1 DEF ChatDoReceivedLine
    <3>2. Answered(s, t, k, P, X)
      BY <1>3, <3>1, ConnectingAnswered
    <3> QED
      BY <3>2, LessFewer DEF Answered, Taken, Pairs
  <2>2. CASE l.kind # "OK"
    <3>1. t = s
      BY <1>3, <2>2 DEF ChatDoReceivedLine
    <3>2. Pairs(s, k) = {}
      <4>1. k \notin Linked(s)
        BY <1>3 DEF Linked
      <4> QED
        BY <4>1, IdleFacts DEF Sound
    <3> QED
      BY <1>3, <3>1, <3>2, HandledNot, LessFewer DEF Taken
  <2> QED
    BY <2>1, <2>2
<1>4. CASE s.circuit[k].rtcflags = "linkwait"
  <2>1. t = rtloginl(s, k, p)
    BY <1>4 DEF ChatDoReceivedLine
  <2>2. Answered(s, t, k, P, X)
    BY <1>4, <2>1, RtloginlAnswered
  <2> QED
    BY <2>2, LessFewer DEF Answered, Taken, Pairs
<1>5. CASE s.circuit[k].rtcflags = "linked"
  <2>1. t = chkctl(s, k, l)
    BY <1>5 DEF ChatDoReceivedLine
  <2>2. k \in Linked(s)
    BY <1>5 DEF Linked
  <2>3. Moves(s, t) /\ Pairs(t, k) \subseteq Z
    BY <2>1, <2>2, ChkctlMoves
  <2>4. t.circuit[k].rtcflags = "linked"
    BY <1>5, <2>3 DEF Moves, Keeps, SameLink
  <2>5. l.kind \in {"link", "unlink"} => l.about \in Node
    BY DEF Proper, Side
  <2> QED
    BY <1>1, <2>1, <2>3, <2>4, <2>5, MovesHandled, ChkctlFewer DEF Taken
<1> QED
  BY <1>2, <1>3, <1>4, <1>5

LEMMA PacketHandled ==
  ASSUME Forest, NEW s, Good(s), Sound(s), NEW P, NEW X, Says(s, P, X), NEW k \in Conn,
         s.circuit[k].rtcflags # "nil", NEW p \in Partner[s.me], s.circuit[k].link = p,
         NEW packet \in Seq(LineSet), \A i \in 1 .. Len(packet) : Proper(s.me, p, packet[i]),
         s.circuit[k].rtcflags = "linkwait" => \A i \in 1 .. Len(packet) : packet[i].node = p,
         NEW Z, Told(Pairs(s, k), packet, Z), NEW t, t = ChatDoReceivedData(s, k, packet)
  PROVE  /\ Taken(s, t, k, P, X, Z)
         /\ packet # << >> /\ t.circuit[k].rtcflags = "linkwait" => k \in t.shut
<1>1. PICK g : ReceivedIn(g, s, k, packet)
  BY ReceivedDataRun
<1>2. PICK M : HearsAll(M, Pairs(s, k), packet, Z)
  BY DEF Told
<1>3. s.circuit[k].Active
  <2>1. s.circuit[k] \in CircuitSet
    BY StateFields DEF Good
  <2> QED
    BY <2>1 DEF CircuitSet, InUse, NotInUse
<1> DEFINE I == {j \in Nat : j <= Len(packet) =>
                    /\ Taken(s, g[j], k, P, X, M[j])
                    /\ j > 0 /\ g[j].circuit[k].rtcflags = "linkwait" => k \in g[j].shut}
<1>4. 0 \in I
  <2>1. Pairs(s, k) \subseteq M[0]
    BY <1>2 DEF HearsAll
  <2>2. Taken(s, g[0], k, P, X, M[0])
    BY <1>1, <2>1, HandledNot, LessFewer DEF ReceivedIn, Taken
  <2> QED
    BY <1>1, <2>2 DEF ReceivedIn
<1>5. ASSUME NEW j \in I
      PROVE  j + 1 \in I
  <2> DEFINE t0 == g[j]
             u == g[j + 1]
             l == packet[j + 1]
  <2> SUFFICES ASSUME j + 1 <= Len(packet)
               PROVE  /\ Taken(s, u, k, P, X, M[j + 1])
                      /\ u.circuit[k].rtcflags = "linkwait" => k \in u.shut
    OBVIOUS
  <2>1. j \in Nat /\ j + 1 \in 1 .. Len(packet) /\ (j + 1) - 1 = j /\ l \in LineSet
    OBVIOUS
  <2>2. Taken(s, t0, k, P, X, M[j])
    BY <2>1
  <2>3. u = ChatDoReceivedLine(t0, k, l)
    BY <1>1, <2>1 DEF ReceivedIn
  <2>4. Hears(M[j], l, M[j + 1])
    BY <1>2, <2>1 DEF HearsAll
  <2>5. Proper(s.me, p, l) /\ (s.circuit[k].rtcflags = "linkwait" => l.node = p)
    BY <2>1
  <2> HIDE DEF t0, u, l, I
  <2>6. /\ Good(t0) /\ Sound(t0) /\ Says(t0, P, X) /\ Goes(s, t0, X)
        /\ t0.circuit[k].rtcflags # "nil" /\ Pairs(t0, k) \subseteq M[j] /\ t0.me = s.me
        /\ t0.circuit[k].rtcflags = "linkwait" => s.circuit[k].rtcflags = "linkwait"
    BY <2>2 DEF Taken, Handled, Goes
  <2>7. t0.circuit[k].link = p
    <3>1. t0.circuit[k] \in CircuitSet
      BY <2>6, StateFields DEF Good
    <3>2. t0.circuit[k].Active
      BY <2>6, <3>1 DEF CircuitSet, InUse, NotInUse
    <3> QED
      BY <2>6, <3>2 DEF Goes
  <2>8. Hears(Pairs(t0, k), l, M[j + 1])
    BY <2>4, <2>6, HearsLess
  <2>9. Taken(t0, u, k, P, X, M[j + 1]) /\ (u.circuit[k].rtcflags = "linkwait" => k \in u.shut)
    BY <2>1, <2>3, <2>5, <2>6, <2>7, <2>8, LineHandled
  <2>10. Taken(s, u, k, P, X, M[j + 1])
    <3>1. Fewer(s, u, {k})
      BY <2>2, <2>9 DEF Taken, Fewer
    <3> QED
      BY <2>6, <2>9, <3>1, GoesOn DEF Taken, Handled
  <2> QED
    BY <2>9, <2>10
<1> HIDE DEF I
<1>6. \A j \in Nat : j \in I
  BY <1>4, <1>5, NatInductionOnSet DEF I
<1>7. Len(packet) \in I /\ Len(packet) \in Nat /\ (packet # << >> => Len(packet) > 0)
  BY <1>6
<1>8. /\ Taken(s, t, k, P, X, M[Len(packet)])
      /\ packet # << >> /\ t.circuit[k].rtcflags = "linkwait" => k \in t.shut
  BY <1>1, <1>7 DEF I, ReceivedIn
<1> QED
  BY <1>2, <1>8 DEF HearsAll, Taken

-----------------------------------------------------------------------------
(* What is on its way from one end to the other.                           *)

\* What the partners of s have heard of.
Hearing(s) == [k \in Conn |-> Heard(s, k)]
RTL(from, to) == << Line("RTL", from, to, deftopic) >>

\* s is told by r, on circuit k and with the packets, of the users s has from r: s has
\* none that r does not know of when all are taken.  One that waits for *RTL gets it.
Carries(s, r, k, packets) ==
    /\ s.circuit[k].rtcflags # "nil"
    /\ Carried(Pairs(s, k), packets, Heard(r, k))
    /\ \A i \in 1 .. Len(packets) : \A j \in 1 .. Len(packets[i]) : Proper(s.me, r.me, packets[i][j])
    /\ s.circuit[k].rtcflags = "linkwait" => packets # << >> /\ Head(packets) = RTL(r.me, s.me)

\* Before a handler runs nothing has been said.
LEMMA SaysNothing ==
  ASSUME NEW s, s \in State, \A k \in Conn : s.out[k] = << >>
  PROVE  Says(s, Hearing(s), {})
<1> SUFFICES ASSUME NEW k \in Conn
             PROVE  IF k \in Linked(s)
                    THEN /\ Told(Hearing(s)[k], s.out[k], Beyond(s, k))
                         /\ \A i \in 1 .. Len(s.out[k]) : Proper(s.circuit[k].link, s.me, s.out[k][i])
                    ELSE s.out[k] = << >> /\ Hearing(s)[k] = {}
  BY DEF Says
<1>1. Hearing(s)[k] = IF k \in Linked(s) THEN Beyond(s, k) ELSE {}
  BY DEF Hearing, Heard
<1>2. Told(Beyond(s, k), << >>, Beyond(s, k))
  BY PairsType, ToldNothing
<1> QED
  BY <1>1, <1>2

\* The sender has run a handler.
LEMMA SenderRuns ==
  ASSUME NEW s, NEW r, NEW k \in Conn, NEW q \in Seq(Seq(LineSet)), Carries(s, r, k, q),
         NEW t, NEW X, Handled(r, t, Hearing(r), X), k \notin t.shut \cup X,
         k \in Linked(t) => t.circuit[k].link = s.me,
         NEW w, w = IF t.out[k] # << >> THEN Append(q, t.out[k]) ELSE q
  PROVE  Carries(s, t, k, w)
<1>1. t \in State /\ t.me = r.me /\ Hearing(r)[k] = Heard(r, k) /\ Says(t, Hearing(r), X)
  BY DEF Handled, Good, Goes, Hearing
<1>2. t.out[k] \in Seq(LineSet) /\ Heard(t, k) \in SUBSET Pair
  BY <1>1, StateFields, PairsType DEF Heard
<1>3. CASE k \in Linked(t)
  <2>1. /\ Told(Heard(r, k), t.out[k], Heard(t, k))
        /\ \A i \in 1 .. Len(t.out[k]) : Proper(s.me, r.me, t.out[k][i])
    BY <1>1, <1>3 DEF Says, Heard
  <2>2. CASE t.out[k] = << >>
    <3>1. Heard(r, k) \subseteq Heard(t, k)
      BY <2>1, <2>2, ToldNothingMore
    <3>2. Carried(Pairs(s, k), q, Heard(t, k))
      BY <3>1, CarriedWeaker DEF Carries
    <3> QED
      BY <1>1, <2>2, <3>2 DEF Carries
  <2>3. CASE t.out[k] # << >>
    <3>1. Carried(Pairs(s, k), w, Heard(t, k))
      BY <1>2, <2>1, <2>3, CarriedMore DEF Carries
    <3>2. /\ Len(w) = Len(q) + 1 /\ w[Len(q) + 1] = t.out[k]
          /\ \A i \in 1 .. Len(q) : w[i] = q[i]
          /\ w # << >> /\ (q # << >> => Head(w) = Head(q))
      BY <1>2, <2>3
    <3>3. ASSUME NEW i \in 1 .. Len(w), NEW j \in 1 .. Len(w[i])
          PROVE  Proper(s.me, t.me, w[i][j])
      <4>1. CASE i = Len(q) + 1
        BY <1>1, <2>1, <3>2, <4>1
      <4>2. CASE i # Len(q) + 1
        <5>1. i \in 1 .. Len(q)
          BY <3>2, <4>2
        <5> QED
          BY <1>1, <3>2, <5>1 DEF Carries
      <4> QED
        BY <4>1, <4>2
    <3> QED
      BY <1>1, <3>1, <3>2, <3>3 DEF Carries
  <2> QED
    BY <2>2, <2>3
<1>4. CASE k \notin Linked(t)
  <2>1. t.out[k] = << >> /\ Heard(r, k) = {}
    BY <1>1, <1>4 DEF Says
  <2>2. Carried(Pairs(s, k), q, Heard(t, k))
    BY <2>1, CarriedWeaker DEF Carries
  <2> QED
    BY <1>1, <2>1, <2>2 DEF Carries
<1> QED
  BY <1>3, <1>4

\* The receiver has run a handler of its own.
LEMMA ReceiverRuns ==
  ASSUME NEW s, NEW r, NEW k \in Conn, NEW q, Carries(s, r, k, q),
         NEW t, NEW P, NEW X, Handled(s, t, P, X), k \notin t.shut \cup X,
         NEW K, Fewer(s, t, K), k \notin K
  PROVE  Carries(t, r, k, q)
<1>1. t.me = s.me /\ Onward(s.circuit[k], t.circuit[k]) /\ Pairs(t, k) \subseteq Pairs(s, k)
  BY DEF Handled, Goes, Fewer
<1>2. Carried(Pairs(t, k), q, Heard(r, k))
  BY <1>1, CarriedWeaker DEF Carries
<1> QED
  BY <1>1, <1>2 DEF Carries, Onward

\* The receiver has taken the first packet.
LEMMA ReceiverTakes ==
  ASSUME Forest, NEW s, Good(s), Sound(s), \A j \in Conn : s.out[j] = << >>,
         NEW r, NEW k \in Conn, NEW q \in Seq(Seq(LineSet)), q # << >>, Carries(s, r, k, q),
         r.me \in Partner[s.me], s.circuit[k].link = r.me,
         NEW t, t = ChatDoReceivedData(s, k, Head(q))
  PROVE  /\ Handled(s, t, Hearing(s), {}) /\ Fewer(s, t, {k})
         /\ k \notin t.shut => Carries(t, r, k, Tail(q))
<1> DEFINE packet == Head(q)
           rest == Tail(q)
           n == Len(q)
<1>1. /\ packet \in Seq(LineSet) /\ packet = q[1] /\ 1 \in 1 .. Len(q)
      /\ \A i \in 1 .. Len(rest) : i + 1 \in 1 .. Len(q) /\ rest[i] = q[i + 1]
  OBVIOUS
<1>2. PICK Z \in SUBSET Pair : Told(Pairs(s, k), packet, Z) /\ Carried(Z, rest, Heard(r, k))
  BY CarriedFirst DEF Carries
<1>3. \A i \in 1 .. Len(packet) : Proper(s.me, r.me, packet[i])
  BY <1>1 DEF Carries
<1>4. s.circuit[k].rtcflags = "linkwait" => \A i \in 1 .. Len(packet) : packet[i].node = r.me
  BY DEF Carries, RTL, Line
<1>5. packet # << >> \/ s.circuit[k].rtcflags # "linkwait"
  <2>1. RTL(r.me, s.me) # << >>
    BY DEF RTL
  <2> QED
    BY <2>1 DEF Carries
<1>6. \A i \in 1 .. Len(rest) : \A j : j \in 1 .. Len(rest[i]) => Proper(s.me, r.me, rest[i][j])
  BY <1>1 DEF Carries
<1> HIDE DEF packet, rest
<1>7. Says(s, Hearing(s), {})
  BY SaysNothing DEF Good
<1>8. s.circuit[k].rtcflags # "nil"
  BY DEF Carries
<1>9. /\ Taken(s, t, k, Hearing(s), {}, Z)
      /\ packet # << >> /\ t.circuit[k].rtcflags = "linkwait" => k \in t.shut
  <2>1. t = ChatDoReceivedData(s, k, packet)
    BY DEF packet
  <2> DEFINE p == r.me
             P == Hearing(s)
             X == {}
  <2>2. p \in Partner[s.me] /\ s.circuit[k].link = p
    OBVIOUS
  <2>3. \A i \in 1 .. Len(packet) : Proper(s.me, p, packet[i])
    BY <1>3
  <2>4. s.circuit[k].rtcflags = "linkwait" => \A i \in 1 .. Len(packet) : packet[i].node = p
    BY <1>4
  <2>5. Says(s, P, X) /\ Told(Pairs(s, k), packet, Z)
    BY <1>2, <1>7
  <2> HIDE DEF p, P, X
  <2>6. /\ Taken(s, t, k, P, X, Z)
        /\ packet # << >> /\ t.circuit[k].rtcflags = "linkwait" => k \in t.shut
    <3>1. packet \in Seq(LineSet)
      BY <1>1
    <3>2. Taken(s, t, k, P, X, Z)
      BY <1>8, <2>1, <2>2, <2>3, <2>4, <2>5, <3>1, PacketHandled
    <3>3. packet # << >> /\ t.circuit[k].rtcflags = "linkwait" => k \in t.shut
      BY <1>8, <2>1, <2>2, <2>3, <2>4, <2>5, <3>1, <3>2, PacketHandled
    <3> QED
      BY <3>2, <3>3
  <2> QED
    BY <2>6 DEF P, X
<1>10. t.me = s.me /\ Handled(s, t, Hearing(s), {}) /\ Fewer(s, t, {k})
  BY <1>9 DEF Taken, Handled, Goes
<1>11. ASSUME k \notin t.shut
       PROVE  Carries(t, r, k, rest)
  <2>1. t.circuit[k].rtcflags \notin {"nil", "linkwait"}
    BY <1>5, <1>9, <1>11 DEF Taken
  <2>2. Carried(Pairs(t, k), rest, Heard(r, k))
    BY <1>2, <1>9, CarriedWeaker DEF Taken
  <2> QED
    BY <1>6, <1>10, <2>1, <2>2 DEF Carries
<1> QED
  BY <1>10, <1>11 DEF rest

\* A circuit is taken into use for a call.
Calls(s, t, k) ==
    /\ t \in State /\ t.me = s.me /\ t.user = s.user /\ t.node = s.node
    /\ t.out = s.out /\ t.shut = s.shut
    /\ \A j \in Conn : j # k => t.circuit[j] = s.circuit[j]
    /\ t.circuit[k].rtcflags \in {"linkini", "linkwait"} /\ t.circuit[k].Active
    /\ t.circuit[k].refcnt = 0 /\ \A n \in Node : t.circuit[k].hnode[n] = 0

LEMMA CallsSound ==
  ASSUME NEW s, Sound(s), NEW k \in Conn, ~s.circuit[k].Active, NEW t, Calls(s, t, k)
  PROVE  /\ Sound(t) /\ Pairs(t, k) = {} /\ Heard(t, k) = {}
         /\ \A j \in Conn : Pairs(t, j) = Pairs(s, j) /\ Heard(t, j) = Heard(s, j)
<1>1. k \notin Linked(s) /\ k \notin Linked(t)
  <2>1. s.circuit[k] \in CircuitSet
    BY StateFields DEF Sound, Steady, Tables
  <2> QED
    BY <2>1, CircuitFields DEF Linked, Calls
<1>2. Sound(t) /\ Linked(t) = Linked(s)
  BY <1>1, IdleSound DEF Calls
<1>3. \A j \in Conn : Pairs(t, j) = Pairs(s, j) /\ Heard(t, j) = Heard(s, j)
  BY <1>2 DEF Calls, Pairs, OnCircuit, Heard, Beyond
<1>4. Pairs(t, k) = {} /\ Heard(t, k) = {}
  BY <1>1, <1>2, IdleFacts DEF Sound, Heard
<1> QED
  BY <1>2, <1>3, <1>4

LEMMA MadeCall ==
  ASSUME NEW s \in State, NEW k \in Conn, NEW p \in Node
  PROVE  /\ Calls(s, makelinks(s, k, p), k) /\ makelinks(s, k, p).circuit[k] = Circuit("linkini", p)
         /\ LET t == [s EXCEPT !.circuit[k] = Circuit("linkwait", p)]
            IN  Calls(s, t, k) /\ t.circuit[k] = Circuit("linkwait", p)
<1> DEFINE c == Circuit("linkini", p)
           d == Circuit("linkwait", p)
           g == [s.flags EXCEPT ![p] = "linkini"]
           t == [s EXCEPT !.flags = g, !.circuit[k] = c]
           u == [s EXCEPT !.circuit[k] = d]
<1>1. /\ c \in CircuitSet /\ c.rtcflags = "linkini" /\ c.Active /\ c.refcnt = 0
      /\ d \in CircuitSet /\ d.rtcflags = "linkwait" /\ d.Active /\ d.refcnt = 0
      /\ \A n \in Node : c.hnode[n] = 0 /\ d.hnode[n] = 0
  BY CircuitType DEF Circuit, CircuitSet, Nobody
<1>2. g \in [Node -> Flag]
  BY StateFields DEF Flag
<1>3. makelinks(s, k, p) = t
  BY DEF makelinks
<1> HIDE DEF c, d, g
<1>4. t \in State /\ u \in State
  BY <1>1, <1>2, CircuitChanges
<1>5. Calls(s, t, k) /\ t.circuit[k] = c
  BY <1>1, <1>4 DEF Calls, State
<1>6. Calls(s, u, k) /\ u.circuit[k] = d
  BY <1>1, <1>4 DEF Calls, State
<1> QED
  BY <1>3, <1>5, <1>6 DEF c, d, u

-----------------------------------------------------------------------------
(* The counts of one node.                                                 *)

SumIn(g, f) ==
    /\ g[{}] = 0
    /\ \A x \in SUBSET Conn : x # {} => g[x] = f[Picked(x)] + g[x \ {Picked(x)}]
    /\ Sum(f) = g[Conn]

LEMMA SumRun ==
  ASSUME NEW f \in [Conn -> Int]
  PROVE  \E g : SumIn(g, f)
<1> DEFINE pick == [x \in SUBSET Conn |-> Picked(x)]
           do == [p \in Conn \X Int |-> f[p[1]] + p[2]]
           Step(g) == [x \in SUBSET Conn |->
                         IF x = {} THEN 0
                         ELSE LET z == Picked(x) IN f[z] + g[x \ {z}]]
           iter == CHOOSE g : g = Step(g)
<1>1. Picks(Conn, pick)
  BY PickedIn DEF Picks
<1>2. do \in [Conn \X Int -> Int]
  OBVIOUS
<1>3. PICK g : IsFold(Conn, Int, 0, pick, do, g)
  <2>1. 0 \in Int /\ IsFiniteSet(Conn)
    BY ConnFinite
  <2> HIDE DEF pick, do
  <2> QED
    BY <1>1, <1>2, <2>1, FoldExists
<1>4. \A x \in SUBSET Conn : x # {} => g[x] = f[pick[x]] + g[x \ {pick[x]}]
  <2> TAKE x \in SUBSET Conn
  <2> HAVE x # {}
  <2>1. pick[x] \in Conn /\ g[x \ {pick[x]}] \in Int
    <3> HIDE DEF pick
    <3> QED
      BY <1>1, <1>3 DEF Picks, IsFold
  <2>2. g[x] = do[<< pick[x], g[x \ {pick[x]}] >>]
    <3> HIDE DEF pick, do
    <3> QED
      BY <1>3 DEF IsFold, FoldStep
  <2> HIDE DEF pick
  <2> QED
    BY <2>1, <2>2
<1>5. g = Step(g)
  <2>1. \A x \in SUBSET Conn : x # {} => pick[x] = Picked(x)
    OBVIOUS
  <2>2. g[{}] = 0
    BY <1>3 DEF IsFold, FoldStep
  <2> HIDE DEF pick, do
  <2> QED
    BY <1>3, <1>4, <2>1, <2>2 DEF IsFold
<1>6. iter = Step(iter)
  <2> HIDE DEF pick, do, Step
  <2> QED
    BY <1>5, Zenon
<1>7. iter[{}] = 0
  <2>1. Step(iter)[{}] = 0
    OBVIOUS
  <2> HIDE DEF Step, iter
  <2> QED
    BY <1>6, <2>1
<1>8. \A x \in SUBSET Conn : x # {} => iter[x] = f[Picked(x)] + iter[x \ {Picked(x)}]
  <2> TAKE x \in SUBSET Conn
  <2> HAVE x # {}
  <2>1. Step(iter)[x] = f[Picked(x)] + iter[x \ {Picked(x)}]
    <3> HIDE DEF iter
    <3> QED
      OBVIOUS
  <2> HIDE DEF Step, iter
  <2> QED
    BY <1>6, <2>1
<1>9. Sum(f) = iter[Conn]
  BY DEF Sum, FoldSet, MapThenFoldSet, Picked
<1> HIDE DEF iter, Step, pick, do
<1>10. SumIn(iter, f)
  BY <1>7, <1>8, <1>9 DEF SumIn
<1> QED
  BY <1>10

\* No more than one is not zero.
LEMMA SumOfOne ==
  ASSUME NEW f \in [Conn -> Int], NEW k, \A j \in Conn : j # k => f[j] = 0
  PROVE  Sum(f) = IF k \in Conn THEN f[k] ELSE 0
<1>1. PICK g : SumIn(g, f)
  BY SumRun
<1> DEFINE G == {x \in SUBSET Conn : g[x] = IF k \in x THEN f[k] ELSE 0}
<1>2. {} \in G
  BY <1>1 DEF SumIn
<1>3. \A x \in SUBSET Conn : x # {} => \E z \in x : x \ {z} \in G => x \in G
  <2> TAKE x \in SUBSET Conn
  <2> HAVE x # {}
  <2>1. Picked(x) \in x
    BY PickedIn
  <2> SUFFICES ASSUME x \ {Picked(x)} \in G
               PROVE  x \in G
    BY <2>1
  <2>2. g[x] = f[Picked(x)] + g[x \ {Picked(x)}]
    BY <1>1 DEF SumIn
  <2>3. g[x \ {Picked(x)}] = IF k \in x \ {Picked(x)} THEN f[k] ELSE 0
    OBVIOUS
  <2>4. CASE Picked(x) = k
    <3>1. f[k] \in Int /\ g[x \ {Picked(x)}] = 0
      BY <2>1, <2>3, <2>4
    <3> QED
      BY <2>1, <2>2, <2>4, <3>1
  <2>5. CASE Picked(x) # k
    <3>1. f[Picked(x)] = 0 /\ (k \in x <=> k \in x \ {Picked(x)}) /\ (k \in x => f[k] \in Int)
      BY <2>1, <2>5
    <3> QED
      BY <2>2, <2>3, <3>1
  <2> QED
    BY <2>4, <2>5
<1>4. Conn \in G
  <2> HIDE DEF G
  <2> QED
    BY <1>2, <1>3, ConnFinite, SubsetInduction
<1> QED
  BY <1>1, <1>4 DEF SumIn

\* The counts of a sound node are the references there are.
LEMMA SoundCounts ==
  ASSUME Forest, NEW s, Sound(s)
  PROVE  /\ \A k \in Conn : s.circuit[k].refcnt = Cardinality(OnCircuit(s, k))
         /\ \A m \in Node :
               s.node[m] = Sum([k \in Conn |-> s.circuit[k].hnode[m]])
                           + Cardinality({r \in OnCircuit(s, Local) : r.node = m})
<1> DEFINE Q == Linking(s)
<1>1. /\ s \in State /\ Links(s.me, Q) /\ Placed(s, Q) /\ Refs(s) /\ Nodes(s, Q)
      /\ \A k \in Conn : InStep(s, Q, k)
  BY DEF Sound, Steady, Tables
<1>2. DOMAIN Q \subseteq Conn /\ s.me \in Node
  BY <1>1 DEF Links
<1>3. \A k \in DOMAIN Q : s.me \notin Side(s.me, Q[k])
  BY <1>1, OtherSide
<1> HIDE DEF Q
<1>4. ASSUME NEW m \in Node
      PROVE  s.node[m] = Sum([k \in Conn |-> s.circuit[k].hnode[m]])
                         + Cardinality({r \in OnCircuit(s, Local) : r.node = m})
  <2> DEFINE f == [k \in Conn |-> s.circuit[k].hnode[m]]
             L == {r \in OnCircuit(s, Local) : r.node = m}
  <2>1. f \in [Conn -> Int] /\ s.node[m] \in Int
    BY <1>1, StateFields, CircuitFields
  <2>2. \A k \in Conn : f[k] = IF k \in DOMAIN Q /\ m \in Side(s.me, Q[k]) THEN s.node[m] ELSE 0
    BY <1>1 DEF InStep
  <2> HIDE DEF f
  <2>3. CASE m = s.me
    <3>1. Sum(f) = 0
      <4>1. 0 \notin Conn /\ \A j \in Conn : j # 0 => f[j] = 0
        BY <1>3, <2>2, <2>3 DEF Conn
      <4> QED
        BY <2>1, <4>1, SumOfOne
    <3>2. L = UsersOf(s, m)
      BY <1>1, <1>3, <2>3 DEF Placed, UsersOf, OnCircuit
    <3>3. Cardinality(L) = s.node[m]
      BY <1>1, <2>3, <3>2 DEF Nodes
    <3> HIDE DEF L
    <3> QED
      BY <2>1, <3>1, <3>3 DEF f, L
  <2>4. CASE m # s.me
    <3>1. L = {}
      BY <1>1, <2>4 DEF Placed, OnCircuit
    <3>2. Cardinality(L) = 0
      BY <3>1, FS_EmptySet, Zenon
    <3>3. Sum(f) = s.node[m]
      <4>1. CASE \E k \in DOMAIN Q : m \in Side(s.me, Q[k])
        <5>1. PICK k \in DOMAIN Q : m \in Side(s.me, Q[k])
          BY <4>1
        <5>2. ASSUME NEW j \in Conn, j # k
              PROVE  f[j] = 0
          <6>1. j \in DOMAIN Q => m \notin Side(s.me, Q[j])
            BY <1>1, <5>1, <5>2, OneSide
          <6> QED
            BY <2>2, <6>1
        <5>3. k \in Conn /\ f[k] = s.node[m]
          BY <1>2, <2>2, <5>1
        <5> QED
          BY <2>1, <5>2, <5>3, SumOfOne
      <4>2. CASE ~ \E k \in DOMAIN Q : m \in Side(s.me, Q[k])
        <5>1. 0 \notin Conn /\ \A j \in Conn : j # 0 => f[j] = 0
          BY <2>2, <4>2 DEF Conn
        <5>2. Sum(f) = 0
          BY <2>1, <5>1, SumOfOne
        <5>3. s.node[m] = 0
          BY <1>1, <2>4, <4>2 DEF Nodes, Known
        <5> QED
          BY <5>2, <5>3
      <4> QED
        BY <4>1, <4>2
    <3> HIDE DEF L
    <3> QED
      BY <2>1, <3>2, <3>3 DEF f, L
  <2> QED
    BY <2>3, <2>4
<1> QED
  BY <1>1, <1>4 DEF Refs

\* None of them is negative.
LEMMA SoundTypes ==
  ASSUME NEW s, Sound(s)
  PROVE  /\ s.flags \in [Node -> {"nil", "linkini", "linked"}] /\ s.node \in [Node -> Nat]
         /\ \A k \in Conn : /\ s.circuit[k].rtcflags \in {"nil", "linkini", "linkwait", "linked"}
                            /\ s.circuit[k].refcnt \in Nat /\ s.circuit[k].hnode \in [Node -> Nat]
<1>1. /\ s \in State /\ Refs(s) /\ Nodes(s, Linking(s))
      /\ \A k \in Conn : InStep(s, Linking(s), k)
  BY DEF Sound, Steady, Tables
<1>2. s.flags \in [Node -> Flag] /\ s.node \in [Node -> Int] /\ \A k \in Conn : s.circuit[k] \in CircuitSet
  BY <1>1, StateFields
<1>3. /\ \A n : Cardinality(UsersOf(s, n)) \in Nat
      /\ \A k : Cardinality(OnCircuit(s, k)) \in Nat
  BY <1>1, UserSets
<1>4. \A n \in Node : s.node[n] \in Nat
  BY <1>1, <1>3 DEF Nodes, Known
<1>5. ASSUME NEW k \in Conn
      PROVE  /\ s.circuit[k].rtcflags \in {"nil", "linkini", "linkwait", "linked"}
             /\ s.circuit[k].refcnt \in Nat /\ s.circuit[k].hnode \in [Node -> Nat]
  <2>1. s.circuit[k].rtcflags \in {"nil", "linkini", "linkwait", "linked"}
    BY <1>2 DEF CircuitSet, InUse, NotInUse, Flag
  <2>2. s.circuit[k].refcnt \in Nat
    BY <1>1, <1>3 DEF Refs
  <2>3. \A n \in Node : s.circuit[k].hnode[n] \in Nat
    BY <1>1, <1>4 DEF InStep
  <2>4. s.circuit[k].hnode \in [Node -> Int]
    BY <1>2, CircuitFields
  <2> QED
    BY <2>1, <2>2, <2>3, <2>4
<1> QED
  BY <1>2, <1>4, <1>5 DEF Flag

LEMMA FreshSound ==
  ASSUME NEW n \in Node
  PROVE  /\ Sound(Fresh(n)) /\ Fresh(n).me = n /\ Fresh(n).shut = {}
         /\ \A k \in Conn : Fresh(n).out[k] = << >>
<1> DEFINE s == Fresh(n)
<1>1. /\ s.me = n /\ s.user = {} /\ s.node = Nobody /\ s.shut = {}
      /\ \A k \in Conn : s.circuit[k] = NoCircuit /\ s.out[k] = << >>
  BY DEF Fresh
<1>2. s \in State
  BY FreshGood DEF Good
<1> HIDE DEF s
<1>3. Linked(s) = {} /\ DOMAIN Linking(s) = {}
  <2>1. NoCircuit.rtcflags = "nil"
    BY DEF NoCircuit
  <2>2. Linked(s) = {}
    BY <1>1, <2>1 DEF Linked
  <2>3. DOMAIN Linking(s) = Linked(s)
    BY LinkingFacts
  <2> QED
    BY <2>2, <2>3
<1>4. Cardinality({}) = 0
  BY FS_EmptySet
<1>5. \A m : UsersOf(s, m) = {} /\ OnCircuit(s, m) = {}
  BY <1>1 DEF UsersOf, OnCircuit
<1>6. \A m : Cardinality(UsersOf(s, m)) = 0 /\ Cardinality(OnCircuit(s, m)) = 0
  BY <1>4, <1>5
<1>7. Links(s.me, Linking(s)) /\ Placed(s, Linking(s)) /\ Single(s)
  BY <1>1, <1>3 DEF Links, Placed, Single
<1>8. Refs(s) /\ \A k \in Conn : InStep(s, Linking(s), k)
  BY <1>1, <1>3, <1>6 DEF Refs, InStep, NoCircuit, Nobody
<1>9. Nodes(s, Linking(s))
  <2>1. \A m \in Node : s.node[m] = 0
    BY <1>1 DEF Nobody
  <2> QED
    BY <1>1, <1>5, <1>6, <2>1 DEF Nodes, Known
<1>10. Sound(s)
  BY <1>2, <1>3, <1>7, <1>8, <1>9 DEF Sound, Steady, Tables
<1> QED
  BY <1>1, <1>10 DEF s

-----------------------------------------------------------------------------
(* The network, in a forest.                                               *)

\* Between two steps the nodes are sound and have sent all they said.
NodesSound ==
    \A n \in Node : /\ Sound(chat[n]) /\ chat[n].me = n
                    /\ chat[n].out = Fresh(n).out /\ chat[n].shut = {}

\* Connections are between partners, and each end knows which.
ConnsRight == \A k \in Conn : conn[k] \in ConnSet => conn[k].to \in Partner[conn[k].from]
LinksRight ==
    \A n \in Node, k \in Conn : chat[n].circuit[k].Active => chat[n].circuit[k].link = Other(k, n)

\* A caller has not forgotten the call, and has no users by it.
CallsRight ==
    \A k \in Conn : conn[k].is = "calling" =>
       /\ chat[conn[k].from].circuit[k].rtcflags \notin {"nil", "linkwait"}
       /\ Pairs(chat[conn[k].from], k) = {}

\* What is on its way to an end is what the other has told it; else there is nothing.
WiresRight ==
    \A k \in Conn :
       IF k \in Open THEN \A m \in End(k) : Carries(chat[m], chat[Other(k, m)], k, wire[k][m])
       ELSE \A m \in Node : wire[k][m] = << >>

NetInv == NodesSound /\ ConnsRight /\ LinksRight /\ CallsRight /\ WiresRight

LEMMA OpenFacts ==
  ASSUME IInv, NEW k \in Conn, conn[k] \in ConnSet, NEW n \in End(k)
  PROVE  /\ n \in Node /\ Other(k, n) \in Node /\ Other(k, n) # n /\ Other(k, n) \in End(k)
         /\ Other(k, Other(k, n)) = n
         /\ ConnsRight => Other(k, n) \in Partner[n]
<1>1. conn[k].from \in Node /\ conn[k].to \in Node /\ conn[k].from # conn[k].to
  BY ConnFacts DEF IInv
<1>2. n = conn[k].from \/ n = conn[k].to
  BY DEF End
<1>3. ConnsRight => conn[k].to \in Partner[conn[k].from] /\ conn[k].from \in Partner[conn[k].to]
  BY <1>1, NetAssumption DEF ConnsRight
<1> QED
  BY <1>1, <1>2, <1>3 DEF Other, End

LEMMA OpenConn ==
  ASSUME IInv, NEW k \in Open
  PROVE  k \in Conn /\ conn[k] \in ConnSet /\ conn[k].is = "open"
  BY ConnFacts DEF IInv, Open

\* Connections end.
LEMMA EndsNet ==
  ASSUME IInv, NEW K \in SUBSET Conn, NEW ends, Ends(K, ends), \A k \in K : conn[k] \in ConnSet,
         NEW k \in Conn
  PROVE  /\ k \notin K => conn'[k] = conn[k]
         /\ k \in K => conn'[k].is \notin {"calling", "open"}
         /\ k \in Open' <=> k \in Open \ K
         /\ conn'[k] \in ConnSet => /\ conn[k] \in ConnSet
                                    /\ conn'[k].from = conn[k].from /\ conn'[k].to = conn[k].to
                                    /\ End(k)' = End(k) /\ \A m : Other(k, m)' = Other(k, m)
<1>1. conn'[k] = IF k \notin K THEN conn[k]
                 ELSE IF ends[k] = {} THEN Unused ELSE [conn[k] EXCEPT !.is = "over"]
  BY DEF Ends
<1>2. Unused \notin ConnSet /\ Unused.is = "unused"
  BY ConnFacts DEF IInv
<1>3. k \in K => LET c == [conn[k] EXCEPT !.is = "over"]
                 IN  c.is = "over" /\ c.from = conn[k].from /\ c.to = conn[k].to
  BY DEF ConnSet
<1>4. k \in K => conn'[k].is \notin {"calling", "open"}
  BY <1>1, <1>2, <1>3
<1>5. k \in Open' <=> k \in Open \ K
  BY <1>1, <1>4 DEF Open
<1>6. conn'[k] \in ConnSet => /\ conn[k] \in ConnSet
                              /\ conn'[k].from = conn[k].from /\ conn'[k].to = conn[k].to
  BY <1>1, <1>2, <1>3
<1>7. conn'[k].from = conn[k].from /\ conn'[k].to = conn[k].to
      => End(k)' = End(k) /\ \A m : Other(k, m)' = Other(k, m)
  BY DEF End, Other
<1> QED
  BY <1>1, <1>4, <1>5, <1>6, <1>7

\* A handler has run at n: t is what it made of the node, u what is kept of t, and the
\* connections in K have ended.  What it left of the wire is sent.
Runs(n, t, u, K, ends, sent) ==
    /\ u \in State /\ u.me = t.me /\ u.flags = t.flags /\ u.circuit = t.circuit
    /\ u.user = t.user /\ u.node = t.node /\ u.out = Fresh(n).out /\ u.shut = {}
    /\ chat'[n] = u /\ \A m \in Node : m # n => chat'[m] = chat[m]
    /\ K \in SUBSET Conn /\ Ends(K, ends) /\ \A k \in K : conn[k] \in ConnSet
    /\ \A k \in Conn : sent[k] \in [Node -> Seq(Seq(LineSet))]
    /\ \A k \in Conn, m \in Node : m # n => sent[k][m] = wire[k][m]
    /\ \A k \in Conn \ Open : sent[k] = wire[k]
    /\ \A k \in Conn : wire'[k] =
          IF k \in K THEN [m \in Node |-> << >>]
          ELSE IF k \in Open /\ t.out[k] # << >>
               THEN [sent[k] EXCEPT ![Other(k, n)] = Append(@, t.out[k])] ELSE sent[k]

LEMMA StepNet ==
  ASSUME IInv, NetInv, IInv', NEW n \in Node, NEW t, NEW u, NEW K, NEW ends, NEW sent,
         Runs(n, t, u, K, ends, sent),
         NEW X, Handled(chat[n], t, Hearing(chat[n]), X),
         \A k \in t.shut \cup X : conn[k].is \in {"calling", "open"} => k \in K,
         \A k \in Conn : conn[k].is = "calling" => Pairs(t, k) \subseteq Pairs(chat[n], k),
         \A k \in Open \ K : n \in End(k) => Carries(t, chat[Other(k, n)], k, sent[k][n])
  PROVE  NetInv'
<1> USE DEF Runs
<1> DEFINE s == chat[n]
<1>1. /\ t \in State /\ Sound(t) /\ Says(t, Hearing(s), X) /\ Goes(s, t, X) /\ Sound(s) /\ s.me = n
  BY DEF Handled, Good, NetInv, NodesSound
<1>2. /\ Sound(u) /\ u.me = n
      /\ \A k : Pairs(u, k) = Pairs(t, k) /\ Heard(u, k) = Heard(t, k)
  <2>1. Keeps(t, u) /\ SameTables(t, u)
    BY DEF Keeps, SameLink, SameTables
  <2>2. Sound(u)
    BY <1>1, <2>1, SoundSame
  <2>3. u.me = n
    BY <1>1 DEF Goes
  <2>4. \A k : Pairs(u, k) = Pairs(t, k)
    BY DEF Pairs, OnCircuit
  <2>5. \A k : Heard(u, k) = Heard(t, k)
    BY DEF Heard, Beyond, Linked
  <2> QED
    BY <2>2, <2>3, <2>4, <2>5
<1>3. \A k \in Conn : \A r, q : /\ Carries(t, r, k, q) => Carries(u, r, k, q)
                                /\ Carries(r, t, k, q) => Carries(r, u, k, q)
  BY <1>2 DEF Carries
<1>4. \A k \in Conn : /\ k \notin K => conn'[k] = conn[k]
                      /\ k \in K => conn'[k].is \notin {"calling", "open"}
                      /\ k \in Open' <=> k \in Open \ K
                      /\ conn'[k] \in ConnSet => /\ conn[k] \in ConnSet
                           /\ conn'[k].from = conn[k].from /\ conn'[k].to = conn[k].to
                           /\ End(k)' = End(k) /\ \A m : Other(k, m)' = Other(k, m)
  BY EndsNet
<1>5. NodesSound'
  <2>1. \A m \in Node : Fresh(m)' = Fresh(m)
    BY DEF Fresh
  <2> QED
    BY <1>2, <2>1 DEF NetInv, NodesSound
<1>6. ConnsRight'
  BY <1>4 DEF NetInv, ConnsRight
<1>7. LinksRight'
  <2> SUFFICES ASSUME NEW m \in Node, NEW k \in Conn, chat'[m].circuit[k].Active
               PROVE  chat'[m].circuit[k].link = Other(k, m)'
    BY DEF LinksRight
  <2>1. conn'[k] \in ConnSet
    BY DEF IInv, EndsKnown, Belongs
  <2>2. Other(k, m)' = Other(k, m)
    BY <1>4, <2>1
  <2>3. CASE m = n
    <3>1. s.circuit[k].Active /\ u.circuit[k].link = s.circuit[k].link
      BY <1>1, <2>3 DEF Goes
    <3> QED
      BY <2>2, <2>3, <3>1 DEF NetInv, LinksRight
  <2>4. CASE m # n
    BY <2>2, <2>4 DEF NetInv, LinksRight
  <2> QED
    BY <2>3, <2>4
<1>8. CallsRight'
  <2> SUFFICES ASSUME NEW k \in Conn, conn'[k].is = "calling"
               PROVE  /\ chat'[conn'[k].from].circuit[k].rtcflags \notin {"nil", "linkwait"}
                      /\ Pairs(chat'[conn'[k].from], k) = {}
    BY DEF CallsRight
  <2>1. k \notin K /\ conn'[k] = conn[k] /\ conn[k].is = "calling" /\ k \notin t.shut \cup X
    BY <1>4
  <2>2. conn[k].from \in Node
    BY <2>1, ConnFacts DEF IInv
  <2>3. /\ chat[conn[k].from].circuit[k].rtcflags \notin {"nil", "linkwait"}
        /\ Pairs(chat[conn[k].from], k) = {}
    BY <2>1 DEF NetInv, CallsRight
  <2>4. CASE conn[k].from = n
    <3>1. Onward(s.circuit[k], t.circuit[k]) /\ Pairs(t, k) \subseteq Pairs(s, k)
      BY <1>1, <2>1 DEF Goes
    <3>2. t.circuit[k].rtcflags \notin {"nil", "linkwait"} /\ Pairs(t, k) = {}
      BY <2>3, <2>4, <3>1 DEF Onward
    <3> QED
      BY <1>2, <2>1, <2>4, <3>2
  <2>5. CASE conn[k].from # n
    BY <2>1, <2>2, <2>3, <2>5
  <2> QED
    BY <2>4, <2>5
<1>9. ASSUME NEW k \in Conn, k \in Open', NEW m \in End(k)'
      PROVE  Carries(chat'[m], chat'[Other(k, m)'], k, wire'[k][m])
  <2>1. k \in Open /\ k \notin K /\ conn'[k] = conn[k]
    BY <1>4, <1>9
  <2>2. conn[k] \in ConnSet /\ conn[k].is = "open"
    BY <2>1, OpenConn
  <2>3. m \in End(k) /\ Other(k, m)' = Other(k, m)
    BY <1>4, <1>9, <2>1, <2>2
  <2> DEFINE p == Other(k, m)
  <2>4. /\ m \in Node /\ p \in Node /\ p # m /\ p \in End(k) /\ Other(k, p) = m
        /\ ConnsRight
    BY <2>2, <2>3, OpenFacts DEF NetInv
  <2>5. k \notin t.shut \cup X
    BY <2>1, <2>2
  <2>6. Carries(chat[m], chat[p], k, wire[k][m])
    BY <2>1, <2>3 DEF NetInv, WiresRight
  <2>7. wire'[k] = IF t.out[k] # << >>
                   THEN [sent[k] EXCEPT ![Other(k, n)] = Append(@, t.out[k])] ELSE sent[k]
    BY <2>1
  <2>8. sent[k] \in [Node -> Seq(Seq(LineSet))] /\ wire[k][m] \in Seq(Seq(LineSet))
    BY <2>4 DEF IInv, WireOK
  <2> HIDE DEF p
  <2>9. CASE m = n
    <3>1. wire'[k][n] = sent[k][n]
      BY <2>4, <2>7, <2>8, <2>9 DEF p
    <3>2. Carries(t, chat[p], k, sent[k][n])
      BY <2>1, <2>3, <2>9 DEF p
    <3>3. Carries(u, chat[p], k, wire'[k][n])
      BY <1>3, <3>1, <3>2
    <3> QED
      BY <2>3, <2>4, <2>9, <3>3 DEF p
  <2>10. CASE p = n
    <3>1. Other(k, n) = m /\ sent[k][m] = wire[k][m]
      BY <2>4, <2>10
    <3>2. wire'[k][m] = IF t.out[k] # << >> THEN Append(wire[k][m], t.out[k]) ELSE wire[k][m]
      BY <2>4, <2>7, <2>8, <3>1
    <3>3. k \in Linked(t) => t.circuit[k].link = m
      <4>1. k \in Linked(t) => t.circuit[k].Active
        BY <1>1, StateFields, CircuitFields DEF Linked
      <4>2. t.circuit[k].Active => s.circuit[k].Active /\ t.circuit[k].link = s.circuit[k].link
        BY <1>1 DEF Goes
      <4> QED
        BY <3>1, <4>1, <4>2 DEF NetInv, LinksRight
    <3>4. chat[m].me = m
      BY <2>4 DEF NetInv, NodesSound
    <3>5. Carries(chat[m], t, k, wire'[k][m])
      <4> DEFINE w == wire'[k][m]
      <4> HIDE DEF w
      <4>1. w = IF t.out[k] # << >> THEN Append(wire[k][m], t.out[k]) ELSE wire[k][m]
        BY <3>2 DEF w
      <4>2. Carries(chat[m], t, k, w)
        BY <2>5, <2>6, <2>8, <2>10, <3>3, <3>4, <4>1, SenderRuns
      <4> QED
        BY <4>2 DEF w
    <3>6. Carries(chat[m], u, k, wire'[k][m])
      BY <1>3, <3>5
    <3> QED
      BY <2>3, <2>4, <2>10, <3>6 DEF p
  <2>11. CASE m # n /\ p # n
    <3>1. n \notin End(k)
      BY <2>3, <2>11 DEF p, End, Other
    <3>2. t.out[k] = << >>
      <4>1. ~s.circuit[k].Active
        BY <3>1 DEF IInv, EndsKnown, Belongs
      <4>2. ~t.circuit[k].Active
        BY <1>1, <4>1 DEF Goes
      <4>3. k \notin Linked(t)
        BY <1>1, <4>2, StateFields, CircuitFields DEF Linked
      <4> QED
        BY <1>1, <2>5, <4>3 DEF Says
    <3>3. wire'[k][m] = wire[k][m]
      BY <2>4, <2>7, <2>11, <3>2
    <3> QED
      BY <2>3, <2>4, <2>6, <2>11, <3>3 DEF p
  <2> QED
    BY <2>9, <2>10, <2>11
<1>10. ASSUME NEW k \in Conn, k \notin Open', NEW m \in Node
       PROVE  wire'[k][m] = << >>
  <2>1. CASE k \in K
    BY <2>1
  <2>2. CASE k \notin K
    <3>1. k \notin Open
      BY <1>4, <1>10, <2>2
    <3>2. wire'[k] = wire[k]
      BY <2>2, <3>1
    <3> QED
      BY <3>1, <3>2 DEF NetInv, WiresRight
  <2> QED
    BY <2>1, <2>2
<1>11. WiresRight'
  <2> SUFFICES ASSUME NEW k \in Conn
               PROVE  IF k \in Open' THEN \A m \in End(k)' :
                                             Carries(chat'[m], chat'[Other(k, m)'], k, wire'[k][m])
                      ELSE \A m \in Node : wire'[k][m] = << >>
    BY DEF WiresRight
  <2> QED
    BY <1>9, <1>10
<1> QED
  BY <1>5, <1>6, <1>7, <1>8, <1>11 DEF NetInv

-----------------------------------------------------------------------------
(* The handlers in the network.                                            *)

LEMMA CommitNet ==
  ASSUME IInv, NetInv, IInv', NEW n \in Node, NEW t, Handled(chat[n], t, Hearing(chat[n]), {}),
         NEW sent, \A k \in Conn : sent[k] \in [Node -> Seq(Seq(LineSet))],
         \A k \in Conn, m \in Node : m # n => sent[k][m] = wire[k][m],
         \A k \in Conn \ Open : sent[k] = wire[k], Commit(n, t, sent),
         \A k \in Conn : conn[k].is = "calling" => Pairs(t, k) \subseteq Pairs(chat[n], k),
         \A k \in Open \ t.shut : n \in End(k) => Carries(t, chat[Other(k, n)], k, sent[k][n])
  PROVE  NetInv'
<1> DEFINE K == {k \in t.shut : conn[k].is \in {"calling", "open"}}
           Begun(k) == {m \in End(k) : IF m = n THEN t.circuit[k].Active
                                                ELSE chat[m].circuit[k].Active}
           ends == [k \in K |-> Begun(k)]
           u == [t EXCEPT !.out = Fresh(n).out, !.shut = {}]
           X == {}
<1>1. t \in State /\ Good(t)
  BY DEF Handled, Good
<1>2. K \in SUBSET Conn /\ \A k \in K : conn[k] \in ConnSet
  BY <1>1, StateFields, ConnFacts DEF IInv
<1>3. Good(u) /\ u \in State
  BY <1>1, EmptiedGood DEF Good
<1>4. /\ u.me = t.me /\ u.flags = t.flags /\ u.circuit = t.circuit
      /\ u.user = t.user /\ u.node = t.node /\ u.out = Fresh(n).out /\ u.shut = {}
  BY <1>1 DEF State
<1>5. chat' = [chat EXCEPT ![n] = u] /\ Ends(K, ends)
  BY DEF Commit
<1>6. \A k \in Conn : wire'[k] =
         IF k \in K THEN [m \in Node |-> << >>]
         ELSE IF k \in Open /\ t.out[k] # << >>
              THEN [sent[k] EXCEPT ![Other(k, n)] = Append(@, t.out[k])] ELSE sent[k]
  <2>1. wire' = [k \in Conn |->
              IF k \in K THEN [m \in Node |-> << >>]
              ELSE IF k \in Open /\ t.out[k] # << >>
                   THEN [sent[k] EXCEPT ![Other(k, n)] = Append(@, t.out[k])]
              ELSE sent[k]]
    BY DEF Commit
  <2> HIDE DEF K
  <2> QED
    BY <2>1
<1>7. \A k \in t.shut \cup X : conn[k].is \in {"calling", "open"} => k \in K
  OBVIOUS
<1>8. \A k \in Open \ K : n \in End(k) => Carries(t, chat[Other(k, n)], k, sent[k][n])
  <2>1. \A k \in Open \ K : k \in Open \ t.shut
    BY DEF Open
  <2> QED
    BY <2>1
<1>9. Handled(chat[n], t, Hearing(chat[n]), X)
  OBVIOUS
<1> HIDE DEF K, ends, u, X
<1>10. chat'[n] = u /\ \A m \in Node : m # n => chat'[m] = chat[m]
  BY <1>3, <1>5, ChatSet
<1>11. Runs(n, t, u, K, ends, sent)
  BY <1>2, <1>3, <1>4, <1>5, <1>6, <1>10 DEF Runs
<1> QED
  BY <1>7, <1>8, <1>9, <1>11, StepNet

\* A handler that takes nothing from the wire.
LEMMA HandlerNet ==
  ASSUME IInv, NetInv, IInv', NEW n \in Node, NEW t, Handled(chat[n], t, Hearing(chat[n]), {}),
         Fewer(chat[n], t, {}), Commit(n, t, wire)
  PROVE  NetInv'
<1>1. \A k \in Conn : wire[k] \in [Node -> Seq(Seq(LineSet))]
  BY DEF IInv, WireOK
<1>2. \A k \in Conn : Pairs(t, k) \subseteq Pairs(chat[n], k)
  BY DEF Fewer
<1>3. ASSUME NEW k \in Open \ t.shut, n \in End(k)
      PROVE  Carries(t, chat[Other(k, n)], k, wire[k][n])
  <2>1. k \in Conn
    BY DEF Open
  <2>2. Carries(chat[n], chat[Other(k, n)], k, wire[k][n])
    BY <1>3, <2>1 DEF NetInv, WiresRight
  <2> QED
    BY <1>3, <2>1, <2>2, ReceiverRuns
<1> QED
  BY <1>1, <1>2, <1>3, CommitNet

\* A node between two steps.
LEMMA AtRest ==
  ASSUME IInv, NetInv, NEW n \in Node
  PROVE  /\ Good(chat[n]) /\ Sound(chat[n]) /\ chat[n] \in State /\ chat[n].me = n
         /\ chat[n].shut = {} /\ \A k \in Conn : chat[n].out[k] = << >>
         /\ Says(chat[n], Hearing(chat[n]), {})
<1>1. /\ Good(chat[n]) /\ Sound(chat[n]) /\ chat[n] \in State /\ chat[n].me = n
      /\ chat[n].shut = {} /\ \A k \in Conn : chat[n].out[k] = << >>
  BY NodeFacts, FreshSound DEF NetInv, NodesSound
<1> QED
  BY <1>1, SaysNothing

LEMMA LoginNet ==
  ASSUME Forest, IInv, NetInv, IInv', NEW n \in Node, NEW c \in User, Login(n, c)
  PROVE  NetInv'
<1> DEFINE t == rtloginu(chat[n], c)
<1>1. Commit(n, t, wire) /\ OfCall(chat[n], c) = {}
  BY DEF Login
<1>2. Moves(chat[n], t) /\ Fewer(chat[n], t, {})
  BY <1>1, AtRest, LoginMoves
<1> HIDE DEF t
<1>3. Handled(chat[n], t, Hearing(chat[n]), {})
  BY <1>2, AtRest, MovesHandled
<1> QED
  BY <1>1, <1>2, <1>3, HandlerNet

LEMMA LogoutNet ==
  ASSUME Forest, IInv, NetInv, IInv', NEW n \in Node, NEW r, Logout(n, r)
  PROVE  NetInv'
<1> DEFINE t == logout(chat[n], r)
<1>1. Commit(n, t, wire) /\ r \in OnCircuit(chat[n], Local)
  BY DEF Logout
<1>2. Moves(chat[n], t) /\ Fewer(chat[n], t, {})
  BY <1>1, AtRest, LogoutMoves
<1> HIDE DEF t
<1>3. Handled(chat[n], t, Hearing(chat[n]), {})
  BY <1>2, AtRest, MovesHandled
<1> QED
  BY <1>1, <1>2, <1>3, HandlerNet

LEMMA ChangeTopicNet ==
  ASSUME Forest, IInv, NetInv, IInv', NEW n \in Node, NEW r, NEW c \in Topic, ChangeTopic(n, r, c)
  PROVE  NetInv'
<1> DEFINE t == TopicCommand(chat[n], r, c)
<1>1. Commit(n, t, wire) /\ r \in OnCircuit(chat[n], Local)
  BY DEF ChangeTopic
<1>2. Handled(chat[n], t, Hearing(chat[n]), {}) /\ Fewer(chat[n], t, {})
  BY <1>1, AtRest, TopicHandled
<1> HIDE DEF t
<1> QED
  BY <1>1, <1>2, HandlerNet

LEMMA CloseLinksNet ==
  ASSUME IInv, NetInv, IInv', NEW n \in Node, CloseLinks(n)
  PROVE  NetInv'
<1> DEFINE t == node_close(chat[n])
<1>1. Commit(n, t, wire)
  BY DEF CloseLinks
<1>2. Handled(chat[n], t, Hearing(chat[n]), {}) /\ Fewer(chat[n], t, {})
  BY AtRest, CloseHandled
<1> HIDE DEF t
<1> QED
  BY <1>1, <1>2, HandlerNet

LEMMA ConnectFailsNet ==
  ASSUME Forest, IInv, NetInv, IInv', NEW k \in Conn, ConnectFails(k)
  PROVE  NetInv'
<1> DEFINE n == conn[k].from
           t == Disconnect(link_drop(chat[n], k), k)
<1>1. n \in Node /\ Commit(n, t, wire)
  <2>1. ConnOK /\ conn[k].is = "calling"
    BY DEF IInv, ConnectFails
  <2>2. n \in Node
    BY <2>1, ConnFacts
  <2> QED
    BY <2>2 DEF ConnectFails
<1> HIDE DEF n
<1>2. Handled(chat[n], t, Hearing(chat[n]), {}) /\ Fewer(chat[n], t, {})
  BY <1>1, AtRest, FailHandled
<1> HIDE DEF t
<1> QED
  BY <1>1, <1>2, HandlerNet

LEMMA ReceiveNet ==
  ASSUME Forest, IInv, NetInv, IInv', NEW k \in Conn, NEW n \in Node, Receive(k, n)
  PROVE  NetInv'
<1> DEFINE q == wire[k][n]
           s == chat[n]
           t == ChatDoReceivedData(s, k, Head(q))
           sent == [wire EXCEPT ![k][n] = Tail(@)]
           p == Other(k, n)
<1>1. k \in Open /\ n \in End(k) /\ q # << >> /\ Commit(n, t, sent)
  BY DEF Receive
<1>2. q \in Seq(Seq(LineSet)) /\ wire \in [Conn -> [Node -> Seq(Seq(LineSet))]]
  BY DEF IInv, WireOK
<1>3. conn[k] \in ConnSet /\ conn[k].is = "open"
  BY <1>1, OpenConn
<1>4. p \in Node /\ p # n /\ p \in Partner[n]
  BY <1>1, <1>3, OpenFacts DEF NetInv
<1>5. chat[p].me = p /\ s.me = n
  BY <1>4, AtRest
<1>6. Carries(s, chat[p], k, q)
  BY <1>1 DEF NetInv, WiresRight
<1>7. s.circuit[k].link = p
  <2>1. s.circuit[k].Active
    <3>1. s.circuit[k] \in CircuitSet
      BY AtRest, StateFields
    <3> QED
      BY <1>6, <3>1, CircuitFields DEF Carries
  <2> QED
    BY <2>1 DEF NetInv, LinksRight
<1>8. /\ \A j \in Conn : sent[j] \in [Node -> Seq(Seq(LineSet))]
      /\ \A j \in Conn, m \in Node : m # n => sent[j][m] = wire[j][m]
      /\ sent[k][n] = Tail(q)
      /\ \A j \in Conn : j # k => sent[j] = wire[j]
  <2>1. sent = [wire EXCEPT ![k] = [wire[k] EXCEPT ![n] = Tail(q)]]
    BY <1>2
  <2>2. Tail(q) \in Seq(Seq(LineSet))
    <3> HIDE DEF q
    <3> QED
      BY <1>1, <1>2
  <2> HIDE DEF sent, q
  <2>3. /\ sent[k] = [wire[k] EXCEPT ![n] = Tail(q)]
        /\ \A j \in Conn : j # k => sent[j] = wire[j]
    BY <1>2, <2>1
  <2>4. wire[k] \in [Node -> Seq(Seq(LineSet))] /\ \A j \in Conn : wire[j] \in [Node -> Seq(Seq(LineSet))]
    BY <1>2
  <2>5. sent[k] \in [Node -> Seq(Seq(LineSet))] /\ sent[k][n] = Tail(q)
        /\ \A m \in Node : m # n => sent[k][m] = wire[k][m]
    BY <2>2, <2>3, <2>4
  <2> QED
    BY <2>3, <2>4, <2>5
<1> HIDE DEF sent, q, p
<1>9. /\ Handled(s, t, Hearing(s), {}) /\ Fewer(s, t, {k})
      /\ k \notin t.shut => Carries(t, chat[p], k, Tail(q))
  <2>1. Good(s) /\ Sound(s) /\ \A j \in Conn : s.out[j] = << >>
    BY AtRest
  <2> DEFINE r == chat[p]
  <2>2. Carries(s, r, k, q) /\ r.me \in Partner[s.me] /\ s.circuit[k].link = r.me
    BY <1>4, <1>5, <1>6, <1>7
  <2> HIDE DEF s, r, t
  <2>3. t = ChatDoReceivedData(s, k, Head(q))
    BY DEF t
  <2>4. /\ Handled(s, t, Hearing(s), {}) /\ Fewer(s, t, {k})
        /\ k \notin t.shut => Carries(t, r, k, Tail(q))
    BY <1>1, <1>2, <2>1, <2>2, <2>3, ReceiverTakes
  <2> QED
    BY <2>4 DEF r
<1> HIDE DEF t
<1>10. \A j \in Conn : conn[j].is = "calling" => Pairs(t, j) \subseteq Pairs(s, j)
  BY <1>3, <1>9 DEF Fewer
<1>11. ASSUME NEW j \in Open \ t.shut, n \in End(j)
       PROVE  Carries(t, chat[Other(j, n)], j, sent[j][n])
  <2>1. j \in Conn
    BY DEF Open
  <2>2. CASE j = k
    BY <1>8, <1>9, <1>11, <2>2 DEF p
  <2>3. CASE j # k
    <3>1. Carries(s, chat[Other(j, n)], j, wire[j][n])
      BY <1>11, <2>1 DEF NetInv, WiresRight
    <3>2. sent[j] = wire[j] /\ j \notin {k} /\ j \notin t.shut \cup {}
      BY <1>8, <1>11, <2>1, <2>3
    <3>3. Carries(t, chat[Other(j, n)], j, wire[j][n])
      BY <1>9, <2>1, <3>1, <3>2, ReceiverRuns
    <3> QED
      BY <3>2, <3>3
  <2> QED
    BY <2>2, <2>3
<1>12. \A j \in Conn \ Open : sent[j] = wire[j]
  BY <1>1, <1>8
<1> QED
  BY <1>1, <1>8, <1>9, <1>10, <1>11, <1>12, CommitNet

-----------------------------------------------------------------------------
(* The steps, in a forest.                                                 *)

\* Node n takes circuit k into use for a call: s is what the node becomes.
CallMade(n, k, s) ==
    /\ ~chat[n].circuit[k].Active /\ Calls(chat[n], s, k)
    /\ chat'[n] = s /\ \A m \in Node : m # n => chat'[m] = chat[m]
    /\ \A j \in Conn : j # k => conn'[j] = conn[j] /\ wire'[j] = wire[j]

LEMMA CallNet ==
  ASSUME IInv, NetInv, IInv', NEW n \in Node, NEW k \in Conn, NEW s, CallMade(n, k, s),
         conn'[k].to \in Partner[conn'[k].from],
         \A m \in Node : chat'[m].circuit[k].Active => chat'[m].circuit[k].link = Other(k, m)',
         conn'[k].is = "calling" => conn'[k].from = n /\ s.circuit[k].rtcflags = "linkini",
         IF k \in Open' THEN \A m \in End(k)' : Carries(chat'[m], chat'[Other(k, m)'], k, wire'[k][m])
         ELSE \A m \in Node : wire'[k][m] = << >>
  PROVE  NetInv'
<1> USE DEF CallMade
<1>1. Sound(chat[n]) /\ chat[n].me = n
  BY AtRest
<1>2. /\ Sound(s) /\ Pairs(s, k) = {}
      /\ \A j \in Conn : Pairs(s, j) = Pairs(chat[n], j) /\ Heard(s, j) = Heard(chat[n], j)
  BY <1>1, CallsSound
<1>3. NodesSound'
  <2>1. \A m \in Node : Fresh(m)' = Fresh(m)
    BY DEF Fresh
  <2> QED
    BY <1>1, <1>2, <2>1 DEF NetInv, NodesSound, Calls
<1>4. ConnsRight'
  BY DEF NetInv, ConnsRight
<1>5. LinksRight'
  <2> SUFFICES ASSUME NEW m \in Node, NEW j \in Conn, j # k, chat'[m].circuit[j].Active
               PROVE  chat'[m].circuit[j].link = Other(j, m)'
    BY DEF LinksRight
  <2>1. Other(j, m)' = Other(j, m)
    BY DEF Other
  <2>2. chat'[m].circuit[j] = chat[m].circuit[j]
    BY DEF Calls
  <2> QED
    BY <2>1, <2>2 DEF NetInv, LinksRight
<1>6. CallsRight'
  <2> SUFFICES ASSUME NEW j \in Conn, conn'[j].is = "calling"
               PROVE  /\ chat'[conn'[j].from].circuit[j].rtcflags \notin {"nil", "linkwait"}
                      /\ Pairs(chat'[conn'[j].from], j) = {}
    BY DEF CallsRight
  <2>1. CASE j = k
    BY <1>2, <2>1
  <2>2. CASE j # k
    <3>1. conn'[j] = conn[j] /\ conn[j].from \in Node
      BY <2>2, ConnFacts DEF IInv
    <3>2. /\ chat[conn[j].from].circuit[j].rtcflags \notin {"nil", "linkwait"}
          /\ Pairs(chat[conn[j].from], j) = {}
      BY <3>1 DEF NetInv, CallsRight
    <3> QED
      BY <1>2, <2>2, <3>1, <3>2 DEF Calls
  <2> QED
    BY <2>1, <2>2
<1>7. WiresRight'
  <2> SUFFICES ASSUME NEW j \in Conn, j # k
               PROVE  IF j \in Open' THEN \A m \in End(j)' :
                                             Carries(chat'[m], chat'[Other(j, m)'], j, wire'[j][m])
                      ELSE \A m \in Node : wire'[j][m] = << >>
    BY DEF WiresRight
  <2>1. (j \in Open' <=> j \in Open) /\ wire'[j] = wire[j]
    BY DEF Open
  <2>2. End(j)' = End(j) /\ \A m : Other(j, m)' = Other(j, m)
    BY DEF End, Other
  <2>3. CASE j \in Open
    <3>1. conn[j] \in ConnSet
      BY <2>3, OpenConn
    <3> SUFFICES ASSUME NEW m \in End(j)
                 PROVE  Carries(chat'[m], chat'[Other(j, m)], j, wire[j][m])
      BY <2>1, <2>2, <2>3
    <3> DEFINE p == Other(j, m)
    <3>2. m \in Node /\ p \in Node /\ p # m
      BY <3>1, OpenFacts
    <3>3. Carries(chat[m], chat[p], j, wire[j][m])
      BY <2>3 DEF NetInv, WiresRight
    <3> HIDE DEF p
    <3>4. CASE m = n
      BY <1>1, <1>2, <3>2, <3>3, <3>4 DEF Carries, Calls, p
    <3>5. CASE p = n
      BY <1>1, <1>2, <3>2, <3>3, <3>5 DEF Carries, Calls, p
    <3>6. CASE m # n /\ p # n
      BY <3>2, <3>3, <3>6 DEF p
    <3> QED
      BY <3>4, <3>5, <3>6
  <2>4. CASE j \notin Open
    BY <2>1, <2>4 DEF NetInv, WiresRight
  <2> QED
    BY <2>3, <2>4
<1> QED
  BY <1>3, <1>4, <1>5, <1>6, <1>7 DEF NetInv

LEMMA FreeUnused ==
  ASSUME Free # {}
  PROVE  conn[First(Free)] = Unused
<1>1. Free \in SUBSET Nat
  BY DEF Free, Conn
<1>2. \E i \in Free : \A r \in Free : i <= r
  BY <1>1, NatLeast
<1>3. First(Free) \in Free
  BY <1>2 DEF First
<1> QED
  BY <1>3 DEF Free

\* The ends of a connection after a step.
LEMMA EndsNext ==
  ASSUME NEW k \in Conn, NEW a, NEW b, conn'[k].from = a, conn'[k].to = b, a # b
  PROVE  End(k)' = {a, b} /\ Other(k, a)' = b /\ Other(k, b)' = a
<1>1. End(k)' = {a, b}
  BY DEF End
<1>2. Other(k, a)' = b
  BY DEF Other
<1>3. Other(k, b)' = a
  BY DEF Other
<1> QED
  BY <1>1, <1>2, <1>3

LEMMA MakeLinksNet ==
  ASSUME IInv, NetInv, IInv', NEW n \in Node, NEW p \in Node, MakeLinks(n, p)
  PROVE  NetInv'
<1> SUFFICES ASSUME NEW k, k = First(Free)
             PROVE  NetInv'
  OBVIOUS
<1> DEFINE s == makelinks(chat[n], k, p)
           c == [is |-> "calling", from |-> n, to |-> p]
<1>1. /\ p \in Partner[n] /\ Free # {} /\ conn' = [conn EXCEPT ![k] = c]
      /\ wire' = wire /\ chat' = [chat EXCEPT ![n] = s]
  <2>1. chat' = [chat EXCEPT ![n] = s]
    BY DEF MakeLinks
  <2> QED
    BY <2>1 DEF MakeLinks
<1>2. /\ k \in Conn /\ \A m \in Node : ~chat[m].circuit[k].Active
  BY <1>1, FreeIdle
<1>3. k \notin Open
  BY <1>1, FreeUnused DEF Open, Unused
<1>4. c.from = n /\ c.to = p /\ c.is = "calling"
  OBVIOUS
<1> HIDE DEF c
<1>5. Calls(chat[n], s, k) /\ s.circuit[k] = Circuit("linkini", p)
  <2>1. chat[n] \in State
    BY AtRest
  <2>2. /\ Calls(chat[n], makelinks(chat[n], k, p), k)
        /\ makelinks(chat[n], k, p).circuit[k] = Circuit("linkini", p)
    BY <1>2, <2>1, MadeCall
  <2> QED
    BY <2>2
<1>6. s.circuit[k].rtcflags = "linkini" /\ s.circuit[k].link = p
  BY <1>5 DEF Circuit
<1>7. /\ conn'[k] = c /\ \A j \in Conn : j # k => conn'[j] = conn[j]
  BY <1>1, <1>2 DEF IInv, ConnOK
<1> HIDE DEF s
<1>8. chat'[n] = s /\ \A m \in Node : m # n => chat'[m] = chat[m]
  BY <1>1 DEF IInv, ChatGood
<1>9. CallMade(n, k, s)
  BY <1>1, <1>2, <1>5, <1>7, <1>8 DEF CallMade
<1>10. \A m \in Node : chat'[m].circuit[k].Active => chat'[m].circuit[k].link = Other(k, m)'
  <2>1. conn'[k].from = n /\ conn'[k].to = p
    BY <1>4, <1>7
  <2>2. n # p
    BY <1>1, NetAssumption
  <2>3. Other(k, n)' = p
    BY <1>2, <2>1, <2>2, EndsNext
  <2> QED
    BY <1>2, <1>6, <1>8, <2>3
<1>11. k \notin Open' /\ \A m \in Node : wire'[k][m] = << >>
  <2>1. k \notin Open'
    BY <1>4, <1>7 DEF Open
  <2> QED
    BY <1>1, <1>2, <1>3, <2>1 DEF NetInv, WiresRight
<1> QED
  <2>1. conn'[k].to \in Partner[conn'[k].from]
    BY <1>1, <1>4, <1>7
  <2>2. conn'[k].is = "calling" => conn'[k].from = n /\ s.circuit[k].rtcflags = "linkini"
    BY <1>4, <1>6, <1>7
  <2>3. IF k \in Open' THEN \A m \in End(k)' : Carries(chat'[m], chat'[Other(k, m)'], k, wire'[k][m])
        ELSE \A m \in Node : wire'[k][m] = << >>
    BY <1>11
  <2> QED
    BY <1>2, <1>9, <1>10, <2>1, <2>2, <2>3, CallNet

LEMMA CarriedCall ==
  ASSUME NEW p \in Node, NEW n \in Node, NEW Y \in SUBSET Pair
  PROVE  RTL(p, n) \in Seq(LineSet) /\ Carried({}, << RTL(p, n) >>, Y)
<1> DEFINE l == Line("RTL", p, n, deftopic)
<1>1. l \in LineSet /\ l.kind = "RTL"
  <2>1. "RTL" \in LineKind
    BY DEF LineKind
  <2>2. l \in LineSet
    BY <2>1, LineTypes, ChatAssumption
  <2> QED
    BY <2>2 DEF Line
<1>2. {} \in SUBSET Pair /\ Hears({}, l, {})
  BY <1>1 DEF Hears
<1> HIDE DEF l
<1>3. Told({}, Append(<< >>, l), {})
  <2>1. Told({}, << >>, {}) /\ << >> \in Seq(LineSet)
    BY ToldNothing
  <2> QED
    BY <1>1, <1>2, <2>1, ToldMore
<1>4. Append(<< >>, l) = << l >>
  OBVIOUS
<1>5. Carried({}, Append(<< >>, << l >>), {})
  <2>1. Carried({}, << >>, {}) /\ << >> \in Seq(Seq(LineSet))
    BY CarriedNothing
  <2> QED
    BY <1>2, <1>3, <1>4, <2>1, CarriedMore
<1>6. Append(<< >>, << l >>) = << << l >> >>
  OBVIOUS
<1>7. Carried({}, << << l >> >>, Y)
  <2>1. Carried({}, << << l >> >>, {})
    BY <1>5, <1>6
  <2> QED
    BY <2>1, CarriedWeaker
<1>8. RTL(p, n) = << l >>
  BY DEF RTL, l
<1> QED
  BY <1>1, <1>7, <1>8

LEMMA ConnectOkNet ==
  ASSUME IInv, NetInv, IInv', NEW k \in Conn, ConnectOk(k)
  PROVE  NetInv'
<1> SUFFICES ASSUME NEW n, NEW p, n = conn[k].to, p = conn[k].from
             PROVE  NetInv'
  OBVIOUS
<1> DEFINE c == [conn[k] EXCEPT !.is = "open"]
           s == [chat[n] EXCEPT !.circuit[k] = Circuit("linkwait", p)]
           q == << RTL(p, n) >>
<1>1. /\ conn[k].is = "calling" /\ conn' = [conn EXCEPT ![k] = c]
      /\ wire' = [wire EXCEPT ![k] = [wire[k] EXCEPT ![n] = q]]
      /\ chat' = [chat EXCEPT ![n] = s]
  <2>1. wire' = [wire EXCEPT ![k][n] = q]
    BY DEF ConnectOk, RTL
  <2>2. wire' = [wire EXCEPT ![k] = [wire[k] EXCEPT ![n] = q]]
    BY <2>1 DEF IInv, WireOK
  <2>3. chat' = [chat EXCEPT ![n].circuit[k] = Circuit("linkwait", p)]
    BY DEF ConnectOk
  <2>4. chat' = [chat EXCEPT ![n] = s]
    BY <2>3
  <2>5. conn[k].is = "calling" /\ conn' = [conn EXCEPT ![k] = c]
    BY DEF ConnectOk
  <2> QED
    BY <2>2, <2>4, <2>5
<1>2. conn[k] \in ConnSet /\ n \in Node /\ p \in Node /\ p # n
  BY <1>1, ConnFacts DEF IInv
<1>3. c.from = p /\ c.to = n /\ c.is = "open"
  BY <1>2 DEF ConnSet
<1>4. n \in Partner[p] /\ p \in Partner[n]
  <2>1. n \in Partner[p]
    BY <1>2 DEF NetInv, ConnsRight
  <2> QED
    BY <1>2, <2>1, NetAssumption
<1>5. \A m \in Node : m # p => ~chat[m].circuit[k].Active
  BY <1>1, NodeFacts DEF Belongs
<1>6. chat[p].circuit[k].rtcflags \notin {"nil", "linkwait"} /\ Pairs(chat[p], k) = {}
  BY <1>1 DEF NetInv, CallsRight
<1>7. wire[k][p] = << >>
  <2>1. k \notin Open
    BY <1>1 DEF Open
  <2> QED
    BY <1>2, <2>1 DEF NetInv, WiresRight
<1>8. Calls(chat[n], s, k) /\ s.circuit[k] = Circuit("linkwait", p)
  BY <1>2, AtRest, MadeCall
<1>9. s.circuit[k].rtcflags = "linkwait" /\ s.circuit[k].link = p
  BY <1>8 DEF Circuit
<1> HIDE DEF c, q, s
<1>10. conn'[k] = c /\ \A j \in Conn : j # k => conn'[j] = conn[j]
  BY <1>1 DEF IInv, ConnOK
<1>11. chat'[n] = s /\ chat'[p] = chat[p] /\ \A m \in Node : m # n => chat'[m] = chat[m]
  BY <1>1, <1>2 DEF IInv, ChatGood
<1>12. /\ wire'[k][n] = q /\ wire'[k][p] = << >> /\ \A j \in Conn : j # k => wire'[j] = wire[j]
  BY <1>1, <1>2, <1>7 DEF IInv, WireOK
<1>13. CallMade(n, k, s)
  BY <1>2, <1>5, <1>8, <1>10, <1>11, <1>12 DEF CallMade
<1>14. k \in Open' /\ End(k)' = {p, n} /\ Other(k, n)' = p /\ Other(k, p)' = n
  <2>1. conn'[k].from = p /\ conn'[k].to = n /\ p # n
    BY <1>2, <1>3, <1>10
  <2>2. End(k)' = {p, n} /\ Other(k, p)' = n /\ Other(k, n)' = p
    BY <2>1, EndsNext
  <2>3. k \in Open'
    BY <1>3, <1>10 DEF Open
  <2> QED
    BY <2>2, <2>3
<1>15. \A m \in Node : chat'[m].circuit[k].Active => chat'[m].circuit[k].link = Other(k, m)'
  <2>1. Other(k, p) = n
    BY DEF Other
  <2>2. chat[p].circuit[k].Active => chat[p].circuit[k].link = n
    BY <1>2, <2>1 DEF NetInv, LinksRight
  <2> TAKE m \in Node
  <2>3. CASE m = n
    BY <1>9, <1>11, <1>14, <2>3
  <2>4. CASE m = p
    BY <1>11, <1>14, <2>2, <2>4
  <2>5. CASE m # n /\ m # p
    BY <1>5, <1>11, <2>5
  <2> QED
    BY <2>3, <2>4, <2>5
<1>16. /\ Sound(chat[n]) /\ Sound(chat[p]) /\ chat[p] \in State
       /\ chat[n].me = n /\ chat[p].me = p /\ s.me = n
  BY <1>2, <1>8, AtRest DEF Calls
<1>17. Pairs(s, k) = {} /\ Heard(s, k) = {}
  BY <1>2, <1>5, <1>8, <1>16, CallsSound
<1>18. Carries(s, chat[p], k, q)
  <2>1. Heard(chat[p], k) \in SUBSET Pair
    BY <1>16, PairsType DEF Heard
  <2>2. RTL(p, n) \in Seq(LineSet) /\ Carried(Pairs(s, k), q, Heard(chat[p], k))
    BY <1>2, <1>17, <2>1, CarriedCall DEF q
  <2>3. Len(q) = 1 /\ q[1] = RTL(p, n) /\ q # << >> /\ Head(q) = RTL(p, n)
    BY <2>2 DEF q
  <2>4. \A j \in 1 .. Len(RTL(p, n)) : Proper(n, p, RTL(p, n)[j])
    <3>1. p \in Side(n, p)
      BY <1>2, <1>4, SideClosed
    <3>2. Proper(n, p, Line("RTL", p, n, deftopic))
      BY <3>1 DEF Proper, Line
    <3> QED
      BY <3>2 DEF RTL
  <2>5. \A i \in 1 .. Len(q) : \A j \in 1 .. Len(q[i]) : Proper(s.me, chat[p].me, q[i][j])
    BY <1>16, <2>3, <2>4
  <2> QED
    BY <1>9, <1>16, <2>2, <2>3, <2>5 DEF Carries
<1>19. Carries(chat[p], s, k, << >>)
  <2>1. Carried(Pairs(chat[p], k), << >>, Heard(s, k))
    BY <1>6, <1>17, CarriedNothing
  <2> QED
    BY <1>6, <2>1 DEF Carries
<1>20. \A m \in End(k)' : Carries(chat'[m], chat'[Other(k, m)'], k, wire'[k][m])
  <2>1. Carries(chat'[n], chat'[Other(k, n)'], k, wire'[k][n])
    BY <1>11, <1>12, <1>14, <1>18
  <2>2. Carries(chat'[p], chat'[Other(k, p)'], k, wire'[k][p])
    BY <1>11, <1>12, <1>14, <1>19
  <2> QED
    BY <1>14, <2>1, <2>2
<1>21. conn'[k].to \in Partner[conn'[k].from] /\ conn'[k].is # "calling"
  BY <1>3, <1>4, <1>10
<1> QED
  BY <1>2, <1>13, <1>14, <1>15, <1>20, <1>21, CallNet

LEMMA DisconnectedNet ==
  ASSUME Forest, IInv, NetInv, IInv', NEW k \in Conn, NEW n \in Node, Disconnected(k, n)
  PROVE  NetInv'
<1> DEFINE t == ChatDisconnected(chat[n], k)
           u == [t EXCEPT !.out = Fresh(n).out]
           K == {k}
           ends == [c \in K |-> told[c] \ {n}]
<1>1. /\ n \in told[k] /\ chat' = [chat EXCEPT ![n] = u] /\ Ends(K, ends)
      /\ wire' = [c \in Conn |->
                IF c \in Open /\ t.out[c] # << >>
                THEN [wire[c] EXCEPT ![Other(c, n)] = Append(@, t.out[c])] ELSE wire[c]]
  BY DEF Disconnected
<1>2. /\ Handled(chat[n], t, Hearing(chat[n]), {k}) /\ t.shut = {} /\ Fewer(chat[n], t, {})
  <2> DEFINE X == {}
  <2>1. Says(chat[n], Hearing(chat[n]), X)
    BY AtRest
  <2>2. X \cup {k} = {k}
    OBVIOUS
  <2> HIDE DEF X
  <2>3. Handled(chat[n], t, Hearing(chat[n]), X \cup {k}) /\ t.shut = chat[n].shut
        /\ Fewer(chat[n], t, {})
    BY <2>1, AtRest, GoneHandled
  <2> QED
    BY <2>2, <2>3, AtRest
<1> HIDE DEF t
<1>3. Good(t) /\ t \in State
  BY <1>2 DEF Handled, Good
<1>4. Good(u) /\ u \in State
  BY <1>3, EmptiedGood DEF Good
<1>5. /\ u.me = t.me /\ u.flags = t.flags /\ u.circuit = t.circuit
      /\ u.user = t.user /\ u.node = t.node /\ u.out = Fresh(n).out /\ u.shut = {}
  BY <1>2, <1>3 DEF State
<1> HIDE DEF u
<1>6. chat'[n] = u /\ \A m \in Node : m # n => chat'[m] = chat[m]
  BY <1>1, <1>4, ChatSet
<1>7. conn[k] \in ConnSet /\ conn[k].is = "over" /\ k \notin Open
  BY <1>1 DEF IInv, ToldOK, Open
<1>8. wire \in [Conn -> [Node -> Seq(Seq(LineSet))]] /\ wire[k] = [m \in Node |-> << >>]
  BY <1>7 DEF IInv, WireOK, NetInv, WiresRight
<1>9. \A j \in Conn : wire'[j] =
         IF j \in K THEN [m \in Node |-> << >>]
         ELSE IF j \in Open /\ t.out[j] # << >>
              THEN [wire[j] EXCEPT ![Other(j, n)] = Append(@, t.out[j])] ELSE wire[j]
  BY <1>1, <1>7, <1>8
<1>10. K \in SUBSET Conn /\ \A j \in K : conn[j] \in ConnSet
  BY <1>7
<1>11. \A j \in t.shut \cup {k} : conn[j].is \in {"calling", "open"} => j \in K
  BY <1>2
<1>12. ASSUME NEW j \in Open \ K, n \in End(j)
       PROVE  Carries(t, chat[Other(j, n)], j, wire[j][n])
  <2>1. j \in Conn /\ j \notin t.shut \cup {k} /\ j \notin {}
    BY <1>2, <1>12 DEF Open
  <2>2. Carries(chat[n], chat[Other(j, n)], j, wire[j][n])
    BY <1>12, <2>1 DEF NetInv, WiresRight
  <2> QED
    BY <1>2, <2>1, <2>2, ReceiverRuns
<1>13. \A j \in Conn : Pairs(t, j) \subseteq Pairs(chat[n], j)
  BY <1>2 DEF Fewer
<1> HIDE DEF K, ends
<1>14. Runs(n, t, u, K, ends, wire)
  BY <1>1, <1>4, <1>5, <1>6, <1>8, <1>9, <1>10 DEF Runs
<1> QED
  BY <1>2, <1>11, <1>12, <1>13, <1>14, StepNet

\* Connections end without a handler; a node at neither end of the others starts again.
Cuts(K, ends) ==
    /\ K \in SUBSET Conn /\ Ends(K, ends) /\ \A k \in K : conn[k] \in ConnSet
    /\ \A m \in Node : \/ chat'[m] = chat[m]
                       \/ /\ chat'[m] = Fresh(m)
                          /\ \A k \in Conn \ K : conn[k] \in ConnSet => m \notin End(k)
    /\ \A k \in Conn : wire'[k] = IF k \in K THEN [m \in Node |-> << >>] ELSE wire[k]

LEMMA CutNet ==
  ASSUME IInv, NetInv, IInv', NEW K, NEW ends, Cuts(K, ends)
  PROVE  NetInv'
<1> USE DEF Cuts
<1>1. \A k \in Conn : /\ k \notin K => conn'[k] = conn[k]
                      /\ k \in K => conn'[k].is \notin {"calling", "open"}
                      /\ k \in Open' <=> k \in Open \ K
                      /\ conn'[k] \in ConnSet => /\ conn[k] \in ConnSet
                           /\ conn'[k].from = conn[k].from /\ conn'[k].to = conn[k].to
                           /\ End(k)' = End(k) /\ \A m : Other(k, m)' = Other(k, m)
  BY EndsNet
<1>2. NodesSound'
  <2>1. \A m \in Node : Fresh(m)' = Fresh(m)
    BY DEF Fresh
  <2>2. \A m \in Node : Sound(Fresh(m)) /\ Fresh(m).me = m /\ Fresh(m).shut = {}
    BY FreshSound
  <2> QED
    BY <2>1, <2>2 DEF NetInv, NodesSound
<1>3. ConnsRight'
  BY <1>1 DEF NetInv, ConnsRight
<1>4. LinksRight'
  <2> SUFFICES ASSUME NEW m \in Node, NEW k \in Conn, chat'[m].circuit[k].Active
               PROVE  chat'[m].circuit[k].link = Other(k, m)'
    BY DEF LinksRight
  <2>1. chat'[m] = chat[m]
    BY FreshGood
  <2>2. conn'[k] \in ConnSet
    BY DEF IInv, EndsKnown, Belongs
  <2> QED
    BY <1>1, <2>1, <2>2 DEF NetInv, LinksRight
<1>5. CallsRight'
  <2> SUFFICES ASSUME NEW k \in Conn, conn'[k].is = "calling"
               PROVE  /\ chat'[conn'[k].from].circuit[k].rtcflags \notin {"nil", "linkwait"}
                      /\ Pairs(chat'[conn'[k].from], k) = {}
    BY DEF CallsRight
  <2>1. k \notin K /\ conn'[k] = conn[k]
    BY <1>1
  <2>2. conn[k] \in ConnSet /\ conn[k].from \in Node /\ conn[k].from \in End(k)
    BY <2>1, ConnFacts DEF IInv, End
  <2>3. chat'[conn[k].from] = chat[conn[k].from]
    BY <2>1, <2>2
  <2> QED
    BY <2>1, <2>3 DEF NetInv, CallsRight
<1>6. WiresRight'
  <2> SUFFICES ASSUME NEW k \in Conn
               PROVE  IF k \in Open' THEN \A m \in End(k)' :
                                             Carries(chat'[m], chat'[Other(k, m)'], k, wire'[k][m])
                      ELSE \A m \in Node : wire'[k][m] = << >>
    BY DEF WiresRight
  <2>1. CASE k \in Open'
    <3>1. k \in Open /\ k \notin K /\ conn'[k] = conn[k] /\ wire'[k] = wire[k]
      BY <1>1, <2>1
    <3>2. conn[k] \in ConnSet
      BY <3>1, OpenConn
    <3>3. End(k)' = End(k) /\ \A m : Other(k, m)' = Other(k, m)
      BY <1>1, <3>1, <3>2
    <3>4. ASSUME NEW m \in End(k)
          PROVE  Carries(chat'[m], chat'[Other(k, m)], k, wire[k][m])
      <4>1. m \in Node /\ Other(k, m) \in Node /\ Other(k, m) \in End(k)
        BY <3>2, OpenFacts
      <4>2. chat'[m] = chat[m] /\ chat'[Other(k, m)] = chat[Other(k, m)]
        BY <3>1, <3>2, <4>1
      <4> QED
        BY <3>1, <4>2 DEF NetInv, WiresRight
    <3> QED
      BY <2>1, <3>1, <3>3, <3>4
  <2>2. CASE k \notin Open'
    <3>1. CASE k \in K
      BY <2>2, <3>1
    <3>2. CASE k \notin K
      <4>1. k \notin Open /\ wire'[k] = wire[k]
        BY <1>1, <2>2, <3>2
      <4> QED
        BY <2>2, <4>1 DEF NetInv, WiresRight
    <3> QED
      BY <3>1, <3>2
  <2> QED
    BY <2>1, <2>2
<1> QED
  BY <1>2, <1>3, <1>4, <1>5, <1>6 DEF NetInv

LEMMA BreakNet ==
  ASSUME IInv, NetInv, IInv', NEW k \in Conn, Break(k)
  PROVE  NetInv'
<1> DEFINE K == {k}
           ends == [c \in K |-> {n \in End(c) : chat[n].circuit[c].Active}]
<1>1. /\ k \in Open /\ Ends(K, ends) /\ chat' = chat
      /\ wire' = [wire EXCEPT ![k] = [n \in Node |-> << >>]]
  BY DEF Break, Open
<1>2. conn[k] \in ConnSet
  BY <1>1, OpenConn
<1>3. \A c \in Conn : wire'[c] = IF c \in K THEN [m \in Node |-> << >>] ELSE wire[c]
  BY <1>1 DEF IInv, WireOK
<1>4. K \in SUBSET Conn /\ \A c \in K : conn[c] \in ConnSet
  BY <1>2
<1> HIDE DEF K, ends
<1>5. Cuts(K, ends)
  BY <1>1, <1>3, <1>4 DEF Cuts
<1> QED
  BY <1>5, CutNet

LEMMA RestartNet ==
  ASSUME IInv, NetInv, IInv', NEW n \in Node, Restart(n)
  PROVE  NetInv'
<1> DEFINE K == {k \in Conn : conn[k] # Unused /\ n \in End(k)}
           Left(k) == IF conn[k].is = "over" THEN told[k] \ {n}
                      ELSE {m \in End(k) \ {n} : chat[m].circuit[k].Active}
           ends == [k \in K |-> Left(k)]
<1>1. /\ Ends(K, ends) /\ chat' = [chat EXCEPT ![n] = Fresh(n)]
      /\ wire' = [k \in Conn |-> IF k \in K THEN [m \in Node |-> << >>] ELSE wire[k]]
  BY DEF Restart
<1>2. K \in SUBSET Conn /\ \A k \in K : conn[k] \in ConnSet
  BY ConnFacts DEF IInv
<1>3. \A k \in Conn \ K : conn[k] \in ConnSet => n \notin End(k)
  <2>1. Unused \notin ConnSet
    BY DEF Unused, ConnSet
  <2> QED
    BY <2>1
<1> HIDE DEF K, ends
<1>4. chat'[n] = Fresh(n) /\ \A m \in Node : m # n => chat'[m] = chat[m]
  BY <1>1, FreshGood, ChatSet
<1>5. Cuts(K, ends)
  BY <1>1, <1>2, <1>3, <1>4 DEF Cuts
<1> QED
  BY <1>5, CutNet

LEMMA InitNet == Init => NetInv
<1> SUFFICES ASSUME Init
             PROVE  NetInv
  OBVIOUS
<1>1. \A n \in Node : chat[n] = Fresh(n)
  BY DEF Init
<1>2. NodesSound
  BY <1>1, FreshSound DEF NodesSound
<1>3. \A k \in Conn : conn[k] = Unused /\ conn[k] \notin ConnSet /\ conn[k].is = "unused"
  BY DEF Init, Unused, ConnSet
<1>4. ConnsRight /\ CallsRight
  BY <1>3 DEF ConnsRight, CallsRight
<1>5. LinksRight
  BY <1>1, FreshGood DEF LinksRight
<1>6. WiresRight
  BY <1>3 DEF Init, WiresRight, Open
<1> QED
  BY <1>2, <1>4, <1>5, <1>6 DEF NetInv

LEMMA NextNet ==
  ASSUME Forest, IInv, NetInv, [Next]_vars
  PROVE  NetInv'
<1>1. IInv'
  BY NextInv
<1>2. CASE \E n \in Node, u \in User : Login(n, u)
  BY <1>1, <1>2, LoginNet
<1>3. CASE \E n \in Node : \E r \in chat[n].user : Logout(n, r)
  BY <1>1, <1>3, LogoutNet
<1>4. CASE \E n \in Node : \E r \in chat[n].user, t \in Topic : ChangeTopic(n, r, t)
  BY <1>1, <1>4, ChangeTopicNet
<1>5. CASE \E n, p \in Node : MakeLinks(n, p)
  BY <1>1, <1>5, MakeLinksNet
<1>6. CASE \E n \in Node : CloseLinks(n) \/ Restart(n)
  BY <1>1, <1>6, CloseLinksNet, RestartNet
<1>7. CASE \E k \in Conn : ConnectFails(k) \/ Break(k)
  BY <1>1, <1>7, ConnectFailsNet, BreakNet
<1>8. CASE LinksMove
  BY <1>1, <1>8, ConnectOkNet, ReceiveNet, DisconnectedNet DEF LinksMove
<1>9. CASE UNCHANGED vars
  <2>1. chat' = chat /\ conn' = conn /\ wire' = wire
    BY <1>9 DEF vars
  <2>2. \A n \in Node : Fresh(n)' = Fresh(n)
    BY DEF Fresh
  <2>3. Open' = Open /\ \A k \in Conn : End(k)' = End(k) /\ \A m : Other(k, m)' = Other(k, m)
    BY <2>1 DEF Open, End, Other
  <2>4. NodesSound'
    BY <2>1, <2>2 DEF NetInv, NodesSound
  <2>5. ConnsRight' /\ CallsRight'
    BY <2>1 DEF NetInv, ConnsRight, CallsRight
  <2>6. LinksRight'
    BY <2>1, <2>3 DEF NetInv, LinksRight
  <2>7. WiresRight'
    BY <2>1, <2>3 DEF NetInv, WiresRight
  <2> QED
    BY <2>4, <2>5, <2>6, <2>7 DEF NetInv
<1> QED
  BY <1>2, <1>3, <1>4, <1>5, <1>6, <1>7, <1>8, <1>9 DEF Next

-----------------------------------------------------------------------------
(* The theorems about a forest of partners.                                *)

\* What has been spent never goes beyond the bounds.
UsedOK == used \in [call : 0 .. MaxCall, login : 0 .. MaxLogin, topic : 0 .. MaxTopic,
                    trouble : 0 .. MaxTrouble]

LEMMA SpendUsed ==
  ASSUME UsedOK
  PROVE  /\ Spend("call", MaxCall) => UsedOK'
         /\ Spend("login", MaxLogin) => UsedOK'
         /\ Spend("topic", MaxTopic) => UsedOK'
         /\ Spend("trouble", MaxTrouble) => UsedOK'
         /\ UNCHANGED used => UsedOK'
<1>1. \A b \in Nat : \A x \in 0 .. b : x < b => x + 1 \in 0 .. b
  OBVIOUS
<1>2. /\ used.call \in 0 .. MaxCall /\ used.login \in 0 .. MaxLogin
      /\ used.topic \in 0 .. MaxTopic /\ used.trouble \in 0 .. MaxTrouble
  BY DEF UsedOK
<1>3. Spend("call", MaxCall) => UsedOK'
  BY <1>1, <1>2, NetAssumption DEF Spend, UsedOK
<1>4. Spend("login", MaxLogin) => UsedOK'
  BY <1>1, <1>2, NetAssumption DEF Spend, UsedOK
<1>5. Spend("topic", MaxTopic) => UsedOK'
  BY <1>1, <1>2, NetAssumption DEF Spend, UsedOK
<1>6. Spend("trouble", MaxTrouble) => UsedOK'
  BY <1>1, <1>2, NetAssumption DEF Spend, UsedOK
<1> QED
  BY <1>3, <1>4, <1>5, <1>6 DEF UsedOK

LEMMA InitUsed == Init => UsedOK
  BY NetAssumption DEF Init, UsedOK

LEMMA NextUsed == UsedOK /\ [Next]_vars => UsedOK'
<1> SUFFICES ASSUME UsedOK, [Next]_vars
             PROVE  UsedOK'
  OBVIOUS
<1> USE SpendUsed
<1>1. CASE \E n \in Node, u \in User : Login(n, u)
  BY <1>1 DEF Login
<1>2. CASE \E n \in Node : \E r \in chat[n].user : Logout(n, r)
  BY <1>2 DEF Logout
<1>3. CASE \E n \in Node : \E r \in chat[n].user, t \in Topic : ChangeTopic(n, r, t)
  BY <1>3 DEF ChangeTopic
<1>4. CASE \E n, p \in Node : MakeLinks(n, p)
  BY <1>4 DEF MakeLinks
<1>5. CASE \E n \in Node : CloseLinks(n) \/ Restart(n)
  BY <1>5 DEF CloseLinks, Restart, Trouble
<1>6. CASE \E k \in Conn : ConnectFails(k) \/ Break(k)
  BY <1>6 DEF ConnectFails, Break, Trouble
<1>7. CASE LinksMove
  BY <1>7 DEF LinksMove, ConnectOk, Receive, Disconnected
<1>8. CASE UNCHANGED vars
  BY <1>8 DEF vars
<1> QED
  BY <1>1, <1>2, <1>3, <1>4, <1>5, <1>6, <1>7, <1>8 DEF Next

\* In a forest of partners a node knows at every moment exactly what each partner has
\* told it and not taken back, less what is still on its way (NetInv), whatever links
\* break, cross or are replaced and whichever nodes start again.
THEOREM TablesInStep ==
  ASSUME Forest
  PROVE  Spec => [](IInv /\ NetInv)
<1>1. Init => IInv /\ NetInv
  BY InitInv, InitNet
<1>2. (IInv /\ NetInv) /\ [Next]_vars => (IInv /\ NetInv)'
  BY NextInv, NextNet
<1> QED
  BY <1>1, <1>2, PTL DEF Spec

\* CountsMatch: the counts by which node_dec frees a node record (ref), by which
\* ProcessChatLine picks the circuits a text is sent to (refcnt) and which tell the
\* nodes of a circuit are the references there are.  So no record is freed while one
\* is left, none is kept after the last, and a text goes to each node that has a
\* reader for it.  It needs the forest: in a ring the same node is told of by two
\* partners and counted wrong.
THEOREM CountsStayMatched ==
  ASSUME Forest
  PROVE  Spec => []CountsMatch
<1>1. NetInv => CountsMatch
  <2> SUFFICES ASSUME NetInv, NEW n \in Node
               PROVE  LET s == chat[n]
                      IN  /\ \A k \in Conn : s.circuit[k].refcnt = Cardinality(OnCircuit(s, k))
                          /\ \A m \in Node :
                                s.node[m] = Sum([k \in Conn |-> s.circuit[k].hnode[m]])
                                            + Cardinality({r \in OnCircuit(s, Local) : r.node = m})
    BY DEF CountsMatch
  <2>1. Sound(chat[n])
    BY DEF NetInv, NodesSound
  <2> QED
    BY <2>1, SoundCounts
<1> QED
  BY <1>1, TablesInStep, PTL

\* TypeOK: every link and flag has one of the conditions the code knows, between two
\* steps nothing a handler said is left unsent, and no count is negative, so node_dec
\* frees no record twice.
THEOREM TypesStayRight ==
  ASSUME Forest
  PROVE  Spec => []TypeOK
<1>1. Init => UsedOK
  BY InitUsed
<1>2. UsedOK /\ [Next]_vars => UsedOK'
  BY NextUsed
<1>3. IInv /\ NetInv /\ UsedOK => TypeOK
  <2> SUFFICES ASSUME IInv, NetInv, UsedOK
               PROVE  TypeOK
    OBVIOUS
  <2>1. told \in [Conn -> SUBSET Node]
    BY DEF IInv, ToldOK
  <2>2. ASSUME NEW n \in Node
        PROVE  /\ chat[n].me = n /\ chat[n].out = Fresh(n).out /\ chat[n].shut = {}
               /\ Sound(chat[n])
    BY DEF NetInv, NodesSound
  <2>3. ASSUME NEW n \in Node
        PROVE  /\ chat[n].flags \in [Node -> {"nil", "linkini", "linked"}]
               /\ chat[n].node \in [Node -> Nat]
               /\ \A k \in Conn :
                     /\ chat[n].circuit[k].rtcflags \in {"nil", "linkini", "linkwait", "linked"}
                     /\ chat[n].circuit[k].refcnt \in Nat
                     /\ chat[n].circuit[k].hnode \in [Node -> Nat]
    BY <2>2, SoundTypes
  <2> QED
    BY <2>1, <2>2, <2>3 DEF UsedOK, TypeOK
<1>4. Spec => []UsedOK
  BY <1>1, <1>2, PTL DEF Spec
<1> QED
  BY <1>3, <1>4, TablesInStep, PTL

-----------------------------------------------------------------------------
(* Networks at rest.                                                       *)

\* A node's circuits are open connections then, and its users on one are among those
\* its partner has from elsewhere.
LEMMA QuietLinks ==
  ASSUME Forest, IInv, NetInv, Quiet, NEW n \in Node, NEW k \in Linked(chat[n])
  PROVE  LET p == chat[n].circuit[k].link
         IN  /\ p \in Partner[n] /\ k \in Open /\ End(k) = {n, p} /\ chat[p].circuit[k].link = n
             /\ Pairs(chat[n], k) \subseteq Heard(chat[p], k)
<1> DEFINE p == chat[n].circuit[k].link
<1>1. k \in Conn /\ chat[n].circuit[k].rtcflags = "linked"
  BY DEF Linked
<1>2. chat[n].circuit[k].Active
  <2>1. chat[n] \in State
    BY AtRest
  <2>2. chat[n].circuit[k] \in CircuitSet
    BY <1>1, <2>1, StateFields
  <2> QED
    BY <1>1, <2>2 DEF CircuitSet, InUse, NotInUse
<1>3. conn[k] \in ConnSet /\ n \in End(k) /\ k \in Open
  BY <1>1, <1>2, ConnFacts DEF IInv, EndsKnown, Belongs, Quiet, Open
<1>4. p = Other(k, n)
  BY <1>1, <1>2 DEF NetInv, LinksRight
<1>5. /\ p \in Node /\ p # n /\ p \in End(k) /\ Other(k, p) = n /\ p \in Partner[n]
  BY <1>1, <1>3, <1>4, OpenFacts DEF NetInv
<1>6. End(k) = {n, p}
  BY <1>3, <1>5 DEF End
<1>7. /\ Carries(chat[n], chat[p], k, wire[k][n]) /\ Carries(chat[p], chat[n], k, wire[k][p])
  BY <1>1, <1>3, <1>4, <1>5 DEF NetInv, WiresRight
<1>8. chat[p].circuit[k].link = n
  <2>1. chat[p] \in State /\ chat[p].circuit[k].rtcflags # "nil"
    BY <1>5, <1>7, AtRest DEF Carries
  <2>2. chat[p].circuit[k] \in CircuitSet
    BY <1>1, <2>1, StateFields
  <2>3. chat[p].circuit[k].Active
    BY <2>1, <2>2 DEF CircuitSet, InUse, NotInUse
  <2> QED
    BY <1>1, <1>5, <2>3 DEF NetInv, LinksRight
<1>9. Pairs(chat[n], k) \subseteq Heard(chat[p], k)
  <2>1. Carried(Pairs(chat[n], k), << >>, Heard(chat[p], k))
    BY <1>1, <1>7 DEF Quiet, Carries
  <2>2. PICK M : TakesAll(M, Pairs(chat[n], k), << >>, Heard(chat[p], k))
    BY <2>1 DEF Carried
  <2>3. Len(<< >>) = 0
    OBVIOUS
  <2> QED
    BY <2>2, <2>3 DEF TakesAll
<1> QED
  BY <1>3, <1>5, <1>6, <1>8, <1>9

LEMMA ReachOn ==
  ASSUME NEW n \in Node, NEW p \in Node, Joined(n, p)
  PROVE  p \in Reach(n) /\ Reach(p) \subseteq Reach(n)
<1>1. \A N \in SUBSET Node : n \in N /\ Around(N) \subseteq N => p \in N
  BY DEF Around
<1> QED
  BY <1>1 DEF Reach

\* A user from a link is logged in at the end of a way that leads, link by link, into
\* ever smaller sides.
LEMMA QuietUsers ==
  ASSUME Forest, IInv, NetInv, Quiet
  PROVE  NoGhosts
<1> DEFINE True(n, r) == [call |-> r.call, node |-> r.node] \in UNION {Here(m) : m \in Reach(n)}
           Size(n, k) == Cardinality(Side(n, chat[n].circuit[k].link))
           I == {i \in Nat : \A n \in Node : \A k \in Linked(chat[n]) : Size(n, k) < i =>
                                \A r \in OnCircuit(chat[n], k) : True(n, r)}
<1>1. ASSUME NEW n \in Node
      PROVE  /\ n \in Reach(n) /\ chat[n] \in State /\ chat[n].me = n
             /\ Links(n, Linking(chat[n])) /\ Placed(chat[n], Linking(chat[n]))
  BY AtRest DEF Reach, Sound, Steady, Tables
<1>2. ASSUME NEW n \in Node, NEW r \in OnCircuit(chat[n], Local)
      PROVE  True(n, r)
  <2>1. r.node = n
    BY <1>1 DEF Placed, OnCircuit
  <2>2. [call |-> r.call, node |-> r.node] \in Here(n)
    BY <2>1 DEF Here
  <2> QED
    BY <1>1, <2>2
<1>3. ASSUME NEW n \in Node, NEW k \in Linked(chat[n])
      PROVE  Size(n, k) \in Nat
  <2>1. Side(n, chat[n].circuit[k].link) \subseteq Node
    BY DEF Side
  <2> QED
    BY <2>1, ChatAssumption, FS_Subset, FS_CardinalityType
<1>4. 0 \in I
  BY <1>3
<1>5. ASSUME NEW i \in I
      PROVE  i + 1 \in I
  <2> SUFFICES ASSUME NEW n \in Node, NEW k \in Linked(chat[n]), Size(n, k) < i + 1,
                      NEW r \in OnCircuit(chat[n], k)
               PROVE  True(n, r)
    OBVIOUS
  <2> DEFINE p == chat[n].circuit[k].link
  <2>1. /\ p \in Partner[n] /\ k \in Open /\ End(k) = {n, p} /\ chat[p].circuit[k].link = n
        /\ Pairs(chat[n], k) \subseteq Heard(chat[p], k)
    BY QuietLinks
  <2>2. p \in Node /\ p # n /\ n \in Partner[p]
    BY <2>1, PartnerFacts
  <2>3. p \in Reach(n) /\ Reach(p) \subseteq Reach(n)
    BY <2>1, <2>2, ReachOn DEF Joined
  <2>4. PICK x \in chat[p].user : x.circuit # k /\ x.call = r.call /\ x.node = r.node
    <3>1. PairOf(r) \in Heard(chat[p], k)
      BY <2>1 DEF Pairs
    <3> QED
      BY <3>1 DEF Heard, Beyond, PairOf
  <2>5. k \in Linked(chat[p])
    BY <2>1 DEF Pairs, Heard
  <2>6. True(p, x) => True(n, r)
    BY <2>3, <2>4
  <2>7. CASE x.circuit = Local
    BY <1>2, <2>2, <2>6, <2>7 DEF OnCircuit
  <2>8. CASE x.circuit # Local
    <3> DEFINE j == x.circuit
               q == chat[p].circuit[j].link
    <3>1. j \in Linked(chat[p]) /\ j # k /\ x \in OnCircuit(chat[p], j)
      BY <1>1, <2>2, <2>4, <2>8, LinkingFacts DEF Placed, OnCircuit
    <3>2. q \in Partner[p] /\ q # n
      <4> DEFINE Q == Linking(chat[p])
      <4>1. DOMAIN Q = Linked(chat[p]) /\ Q[j] = q /\ Q[k] = n
        BY <2>1, <2>5, <3>1, LinkingFacts
      <4>2. Links(p, Q)
        BY <1>1, <2>2
      <4> HIDE DEF Q, p, q, j
      <4> QED
        BY <2>5, <3>1, <4>1, <4>2 DEF Links
    <3>3. n \in Node /\ p \in Node /\ p \in Partner[n] /\ q \in Partner[p] /\ q # n
      BY <2>1, <2>2, <3>2
    <3> HIDE DEF p, q, j
    <3>4. Side(p, q) \subseteq Side(n, p) /\ p \in Side(n, p) /\ p \notin Side(p, q)
      BY <3>3, SideBeyond, SideClosed
    <3>5. IsFiniteSet(Side(n, p)) /\ Side(p, q) # Side(n, p)
      <4>1. Side(n, p) \subseteq Node
        BY DEF Side
      <4> QED
        BY <3>4, <4>1, ChatAssumption, FS_Subset
    <3>6. Cardinality(Side(p, q)) < Cardinality(Side(n, p))
      <4>1. Cardinality(Side(p, q)) \in Nat /\ Cardinality(Side(n, p)) \in Nat
        BY <1>3, <2>2, <3>1 DEF p, q
      <4>2. Side(p, q) \in SUBSET Side(n, p)
        BY <3>4
      <4> QED
        <5> DEFINE S == Side(n, p)
                   T == Side(p, q)
        <5>1. IsFiniteSet(S) /\ T \in SUBSET S /\ S # T
          BY <3>5, <4>2
        <5>2. Cardinality(T) \in Nat /\ Cardinality(S) \in Nat
          BY <4>1
        <5> HIDE DEF S, T
        <5>3. Cardinality(T) <= Cardinality(S) /\ Cardinality(T) # Cardinality(S)
          BY <5>1, FS_Subset
        <5>4. Cardinality(T) < Cardinality(S)
          BY <5>2, <5>3
        <5> QED
          BY <5>4 DEF S, T
    <3>7. Size(p, j) < i
      BY <1>3, <2>2, <3>1, <3>6 DEF p, q
    <3> QED
      BY <2>2, <2>6, <3>1, <3>7
  <2> QED
    BY <2>7, <2>8
<1>6. \A i \in Nat : i \in I
  <2> HIDE DEF I
  <2>1. I \in SUBSET Nat
    BY DEF I
  <2> QED
    BY <1>4, <1>5, <2>1, NatInductionOnSet
<1>7. ASSUME NEW n \in Node, NEW r \in chat[n].user
      PROVE  True(n, r)
  <2>1. CASE r.circuit = Local
    BY <1>2, <2>1 DEF OnCircuit
  <2>2. CASE r.circuit # Local
    <3>1. r.circuit \in Linked(chat[n]) /\ r \in OnCircuit(chat[n], r.circuit)
      BY <1>1, <2>2, LinkingFacts DEF Placed, OnCircuit
    <3>2. Size(n, r.circuit) < Size(n, r.circuit) + 1 /\ Size(n, r.circuit) + 1 \in I
      BY <1>3, <1>6, <3>1
    <3> QED
      BY <3>1, <3>2
  <2> QED
    BY <2>1, <2>2
<1> QED
  BY <1>7 DEF NoGhosts, Shown

\* NoGhosts: whenever the network is at rest, no node of a forest shows a user who is
\* not logged in at the node given for him, or at one it has no way to: a user who
\* leaves, and those beyond a link that is lost, are taken from every node that was
\* told of them, whatever was on its way meanwhile.
THEOREM NobodyStaysBehind ==
  ASSUME Forest
  PROVE  Spec => []NoGhosts
<1>1. IInv /\ NetInv => NoGhosts
  <2>1. ~Quiet => NoGhosts
    BY DEF NoGhosts
  <2> QED
    BY <2>1, QuietUsers
<1> QED
  BY <1>1, TablesInStep, PTL

=============================================================================
