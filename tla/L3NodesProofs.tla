---------------------------- MODULE L3NodesProofs ----------------------------
(***************************************************************************)
(* What L3Nodes keeps true of the tables, for any number of nodes, any     *)
(* ports and any bounds.  A step gives one or more nodes new tables that a *)
(* handler has made from the old ones, so that each node stays Good by     *)
(* L3TablesProofs; the rest is the count of rounds and troubles.           *)
(*                                                                         *)
(* The second part is about qualities: what a path is worth to the nodes   *)
(* on it (Along), and that a hop more never makes a route better than the  *)
(* paths there are (ReachedByHop).                                         *)
(***************************************************************************)
EXTENDS L3Nodes, L3TablesProofs, FiniteSetTheorems, WellFoundedInduction

\* The two halves of the inductive invariant: the tables, and the rest.
TablesGood == node \in [Node -> State] /\ \A n \in Node : Good(node[n])

RestOK ==
    /\ running \subseteq Node /\ due \subseteq running
    /\ used \in [frame : 0 .. MaxFrame, trouble : 0 .. MaxTrouble]
    /\ quiet \in 0 .. SETTLED

IInv == TablesGood /\ RestOK

LEMMA InvParts == IInv => TypeOK /\ RoutesInOrder /\ NeighboursListed
<1> SUFFICES ASSUME IInv
             PROVE  TypeOK /\ RoutesInOrder /\ NeighboursListed
  OBVIOUS
<1>1. TypeOK
  BY DEF IInv, TablesGood, RestOK, TypeOK
<1>2. \A n, d \in Node : /\ Packed(node[n].DESTS[d].NRROUTE, node[n].NEIGHBOURS)
                         /\ BestFirst(node[n].DESTS[d].NRROUTE)
                         /\ node[n].DESTS[d].NRROUTE \in Routes
  BY GoodParts, DestFields DEF IInv, TablesGood, Sound
<1>3. RoutesInOrder
  <2> SUFFICES ASSUME NEW n \in Node, NEW d \in Node, NEW i \in Slot, NEW j \in Slot,
                      i < j, j \in RoutesOf(n, d)
               PROVE  /\ i \in RoutesOf(n, d)
                      /\ node[n].DESTS[d].NRROUTE[i].via # node[n].DESTS[d].NRROUTE[j].via
                      /\ node[n].DESTS[d].NRROUTE[i].quality
                            >= node[n].DESTS[d].NRROUTE[j].quality
    BY DEF RoutesInOrder
  <2> DEFINE r == node[n].DESTS[d].NRROUTE
  <2>1. r \in Routes /\ BestFirst(r) /\ Packed(r, node[n].NEIGHBOURS) /\ r[j].via # NoNode
    BY <1>2 DEF RoutesOf
  <2> HIDE DEF r
  <2>2. \/ i = 1 /\ j = 2
        \/ i = 1 /\ j = 3
        \/ i = 2 /\ j = 3
    BY Slots
  <2>3. \A k \in Slot : r[k].quality \in 0 .. 255
    BY <2>1, RouteFields
  <2>4. r[i].via # NoNode /\ r[i].via # r[j].via
    BY <2>1, <2>2 DEF Packed
  <2>5. r[i].quality >= r[j].quality
    <3>1. r[1].quality >= r[2].quality /\ r[2].quality >= r[3].quality
      BY <2>1 DEF BestFirst
    <3>2. r[1].quality >= r[3].quality
      <4>1. r[1].quality \in 0 .. 255 /\ r[2].quality \in 0 .. 255 /\ r[3].quality \in 0 .. 255
        BY <2>3, Slots
      <4> DEFINE x == r[1].quality
                 y == r[2].quality
                 z == r[3].quality
      <4>2. x \in 0 .. 255 /\ y \in 0 .. 255 /\ z \in 0 .. 255 /\ x >= y /\ y >= z
        BY <3>1, <4>1
      <4> HIDE DEF x, y, z
      <4>3. x >= z
        BY <4>2
      <4> QED
        BY <4>3 DEF x, z
    <3> QED
      BY <2>2, <3>1, <3>2
  <2> QED
    BY <2>4, <2>5 DEF RoutesOf, r
<1>4. NeighboursListed
  <2>1. \A n, d \in Node : \A k \in Slot :
           node[n].DESTS[d].NRROUTE[k].via \in node[n].NEIGHBOURS \cup {NoNode}
    BY <1>2 DEF Packed
  <2>2. \A n, m \in Node : node[n].LINKS[m] \in Tied => m \in node[n].NEIGHBOURS
    BY GoodParts DEF IInv, TablesGood
  <2> QED
    BY <2>1, <2>2 DEF NeighboursListed, RoutesOf
<1> QED
  BY <1>1, <1>3, <1>4

LEMMA InitGood == Init => IInv
<1> SUFFICES ASSUME Init
             PROVE  IInv
  OBVIOUS
<1>1. TablesGood
  BY FreshGood DEF Init, TablesGood, Good
<1>2. RestOK
  BY BoundAssumption DEF Init, RestOK
<1> QED
  BY <1>1, <1>2 DEF IInv

-----------------------------------------------------------------------------
(* What the steps have in common.                                          *)

LEMMA NodeFacts ==
  ASSUME IInv, NEW n \in Node
  PROVE  Good(node[n]) /\ node[n] \in State
  BY DEF IInv, TablesGood

\* New tables, for every node.
LEMMA AllTablesGood ==
  ASSUME NEW f, f = [n \in Node |-> f[n]], \A n \in Node : Good(f[n]), node' = f
  PROVE  TablesGood'
<1>1. \A n \in Node : f[n] \in State
  BY GoodParts
<1>2. f \in [Node -> State]
  BY <1>1
<1> QED
  BY <1>2 DEF TablesGood

\* For one of them.
LEMMA AtGood ==
  ASSUME IInv, NEW n \in Node, NEW s, Good(s), At(n, s)
  PROVE  TablesGood'
<1> DEFINE f == [node EXCEPT ![n] = s]
<1>1. f = [m \in Node |-> f[m]] /\ \A m \in Node : Good(f[m])
  BY DEF IInv, TablesGood
<1>2. node' = f
  BY DEF At
<1> HIDE DEF f
<1> QED
  BY <1>1, <1>2, AllTablesGood

\* For two of them.
LEMMA BothGood ==
  ASSUME IInv, NEW n \in Node, NEW m \in Node, NEW s, NEW t, Good(s), Good(t),
         node' = [node EXCEPT ![n] = s, ![m] = t]
  PROVE  TablesGood'
<1> DEFINE f == [node EXCEPT ![n] = s, ![m] = t]
<1>1. f = [x \in Node |-> f[x]] /\ \A x \in Node : Good(f[x])
  BY DEF IInv, TablesGood
<1> HIDE DEF f
<1> QED
  BY <1>1, AllTablesGood DEF f

LEMMA SameRest ==
  ASSUME IInv, UNCHANGED << running, due, used, quiet >>
  PROVE  RestOK'
  BY DEF IInv, RestOK

LEMMA TroubleType ==
  ASSUME IInv, NEW kind, Trouble(kind)
  PROVE  /\ used' \in [frame : 0 .. MaxFrame, trouble : 0 .. MaxTrouble]
         /\ quiet' \in 0 .. SETTLED
  BY BoundAssumption DEF IInv, RestOK, Trouble

LEMMA TroubleRest ==
  ASSUME IInv, NEW kind, Trouble(kind), UNCHANGED << running, due >>
  PROVE  RestOK'
  BY TroubleType DEF IInv, RestOK

LEMMA PortType ==
  ASSUME NEW n \in Node, NEW m \in Node
  PROVE  PORTQUALITY[n][m] \in Quality
  BY PortAssumption

-----------------------------------------------------------------------------
(* One lemma for each action.                                              *)

LEMMA TidyMinuteGood ==
  ASSUME IInv, NEW n \in Node, TidyMinute(n)
  PROVE  IInv'
<1>1. TablesGood'
  BY NodeFacts, TidyRoutesGood, AtGood DEF TidyMinute
<1> QED
  BY <1>1, SameRest DEF TidyMinute, IInv

LEMMA BroadcastGood ==
  ASSUME IInv, NEW n \in Node, NEW missed, Broadcast(n, missed)
  PROVE  TablesGood' /\ running' \subseteq Node /\ due' \subseteq running'
<1> DEFINE sent == UPDATEDESTLIST(node[n])
           list == NodesMessage(sent)
           f    == [m \in Node |->
                      IF m = n THEN TidyRoutes(sent)
                      ELSE IF m \in running /\ Hears(m, n) /\ m \notin missed
                      THEN PROCESSNODEMESSAGE(node[m], m, n, PORTQUALITY[m][n], list)
                      ELSE node[m]]
<1>1. node' = f
  BY DEF Broadcast
<1>2. Good(sent) /\ list \in SUBSET Told
  <2>1. Good(sent)
    BY NodeFacts, UPDATEDESTLISTGood
  <2> HIDE DEF sent
  <2> QED
    BY <2>1, NodesMessageType
<1>3. ASSUME NEW m \in Node
      PROVE  Good(f[m])
  <2> HIDE DEF sent, list
  <2>1. Good(TidyRoutes(sent))
    BY <1>2, TidyRoutesGood
  <2>2. Good(node[m])
    BY NodeFacts
  <2>3. Good(PROCESSNODEMESSAGE(node[m], m, n, PORTQUALITY[m][n], list))
    BY <1>2, <2>2, PortType, PROCESSNODEMESSAGEGood
  <2> QED
    BY <2>1, <2>2, <2>3
<1>4. f = [m \in Node |-> f[m]]
  OBVIOUS
<1> HIDE DEF f
<1>5. TablesGood'
  BY <1>1, <1>3, <1>4, AllTablesGood
<1> QED
  BY <1>5 DEF Broadcast, IInv, RestOK

LEMMA RunL3TimerGood ==
  ASSUME IInv, NEW n \in Node, RunL3Timer(n)
  PROVE  IInv'
<1>1. TablesGood' /\ running' \subseteq Node /\ due' \subseteq running'
  BY BroadcastGood DEF RunL3Timer
<1>2. quiet' \in 0 .. SETTLED /\ used' = used
  BY BoundAssumption DEF RunL3Timer, IInv, RestOK
<1> QED
  BY <1>1, <1>2 DEF IInv, RestOK

LEMMA MissBroadcastGood ==
  ASSUME IInv, NEW n \in Node, NEW m \in Node, MissBroadcast(n, m)
  PROVE  IInv'
<1>1. TablesGood' /\ running' \subseteq Node /\ due' \subseteq running'
  BY BroadcastGood DEF MissBroadcast
<1>2. /\ used' \in [frame : 0 .. MaxFrame, trouble : 0 .. MaxTrouble]
      /\ quiet' \in 0 .. SETTLED
  BY TroubleType DEF MissBroadcast
<1> QED
  BY <1>1, <1>2 DEF IInv, RestOK

LEMMA RunL3BGGood ==
  ASSUME IInv, NEW n \in Node, NEW d \in Node, RunL3BG(n, d)
  PROVE  IInv'
<1>1. At(n, L3BG(node[n], d, FALSE))
  BY DEF RunL3BG
<1>2. Good(L3BG(node[n], d, FALSE))
  BY NodeFacts, L3BGGood
<1>3. TablesGood'
  BY <1>1, <1>2, AtGood
<1> QED
  BY <1>3, SameRest DEF RunL3BG, IInv

LEMMA LinksFullGood ==
  ASSUME IInv, NEW n \in Node, NEW d \in Node, LinksFull(n, d)
  PROVE  IInv'
<1>1. Good(L3BG(node[n], d, TRUE))
  BY NodeFacts, L3BGGood
<1>2. TablesGood'
  BY <1>1, AtGood DEF LinksFull
<1>3. RestOK'
  BY TroubleRest DEF LinksFull
<1> QED
  BY <1>2, <1>3 DEF IInv

LEMMA ConnectGood ==
  ASSUME IInv, NEW n \in Node, NEW d \in Node, Connect(n, d)
  PROVE  IInv'
<1> DEFINE s == node[n]
           g == [op |-> "CREQ", src |-> n, dest |-> d, ttl |-> L3LIVES]
           e == [s.DESTS[d] EXCEPT !.DEST_Q = Append(@, g)]
<1>1. Good(s) /\ s \in State /\ s.DESTS[d] \in Dest /\ Sound(s.DESTS[d], s.NEIGHBOURS)
  BY NodeFacts, GoodParts
<1>2. g \in Frame
  BY LivesAssumption DEF Frame
<1>3. Append(s.DESTS[d].DEST_Q, g) \in Seq(Frame)
  <2>1. s.DESTS[d].DEST_Q \in Seq(Frame)
    BY <1>1, DestFields
  <2> HIDE DEF s, g
  <2> QED
    BY <1>2, <2>1, AppendProperties
<1>4. At(n, [s EXCEPT !.DESTS[d].DEST_Q = Append(@, g)])
  BY DEF Connect
<1> HIDE DEF s, g
<1>5. e = [s.DESTS[d] EXCEPT !.DEST_Q = Append(s.DESTS[d].DEST_Q, g),
                             !.DEST_ROUTE = s.DESTS[d].DEST_ROUTE]
  BY <1>1 DEF Dest
<1>6. Sound(e, s.NEIGHBOURS)
  BY <1>1, <1>3, <1>5, DestFields, WaitingSound
<1>7. [s EXCEPT !.DESTS[d].DEST_Q = Append(@, g)] = [s EXCEPT !.DESTS[d] = e]
  BY <1>1, StateFields DEF State, Dest
<1> HIDE DEF e
<1>8. Good([s EXCEPT !.DESTS[d] = e])
  BY <1>1, <1>6, OneDestGood
<1>9. TablesGood'
  BY <1>4, <1>7, <1>8, AtGood
<1>10. RestOK'
  BY BoundAssumption DEF Connect, IInv, RestOK
<1> QED
  BY <1>9, <1>10 DEF IInv

LEMMA TailGood ==
  ASSUME NEW s, Good(s), NEW m \in Node, s.TX_Q[m] # << >>
  PROVE  Good([s EXCEPT !.TX_Q[m] = Tail(@)])
<1>1. s.TX_Q[m] \in Seq(Frame)
  BY GoodParts, StateFields
<1>2. Tail(s.TX_Q[m]) \in Seq(Frame)
  BY <1>1
<1> QED
  BY <1>2, QueueGood

LEMMA ReceiveFrameGood ==
  ASSUME IInv, NEW n \in Node, NEW m \in Node, ReceiveFrame(n, m)
  PROVE  IInv'
<1> DEFINE q == node[m].TX_Q[n]
           s == NETROMMSG(node[n], n, m, Head(q))
           t == [node[m] EXCEPT !.TX_Q[n] = Tail(@)]
<1>1. q \in Seq(Frame) /\ q # << >> /\ n # m
  BY NodeFacts, StateFields DEF ReceiveFrame
<1>2. Head(q) \in Frame
  BY <1>1
<1>3. Good(s)
  BY <1>2, NodeFacts, NETROMMSGGood
<1>4. node' = [node EXCEPT ![n] = s, ![m].TX_Q[n] = Tail(@)]
  BY DEF ReceiveFrame
<1> HIDE DEF s
<1>5. node' = [node EXCEPT ![n] = s, ![m] = t]
  BY <1>1, <1>4 DEF IInv, TablesGood
<1>6. Good(t)
  BY <1>1, NodeFacts, TailGood
<1> HIDE DEF t
<1>7. TablesGood'
  BY <1>3, <1>5, <1>6, BothGood
<1> QED
  BY <1>7, SameRest DEF ReceiveFrame, IInv

LEMMA AnsweredGood ==
  ASSUME NEW s, Good(s), NEW n \in Node, NEW t \in Answered(s, n)
  PROVE  Good(t)
<1>1. s \in State
  BY GoodParts
<1>2. "untied" \in LinkState /\ "untied" \notin Tied /\ "up" \in LinkState /\ "setup" \in Tied
  BY DEF LinkState, Tied
<1>3. Good([s EXCEPT !.LINKS[n] = "untied"])
  BY <1>2, LinkGood
<1>4. s.LINKS[n] = "setup" => Good([s EXCEPT !.LINKS[n] = "up"])
  BY <1>2, GoodParts, LinkGood
<1>5. Good([L3LINKCLOSED(s, n, TRUE) EXCEPT !.LINKS[n] = "untied"])
  BY <1>2, L3LINKCLOSEDGood, LinkGood
<1> QED
  BY <1>3, <1>4, <1>5 DEF Answered

LEMMA SetUpGood ==
  ASSUME IInv, NEW n \in Node, NEW m \in Node, SetUp(n, m)
  PROVE  IInv'
<1> PICK s \in Answered(node[m], n) : node' = [node EXCEPT ![n].LINKS[m] = "up", ![m] = s]
  BY DEF SetUp
<1> DEFINE t == [node[n] EXCEPT !.LINKS[m] = "up"]
<1>1. Good(s)
  BY NodeFacts, AnsweredGood
<1>2. Good(t)
  <2>1. "up" \in LinkState /\ m \in node[n].NEIGHBOURS
    BY NodeFacts, GoodParts DEF SetUp, LinkState, Tied
  <2> QED
    BY <2>1, NodeFacts, LinkGood
<1>3. node' = [node EXCEPT ![n] = t, ![m] = s]
  OBVIOUS
<1> HIDE DEF t
<1>4. TablesGood'
  BY <1>1, <1>2, <1>3, BothGood
<1> QED
  BY <1>4, SameRest DEF SetUp, IInv

LEMMA NoAnswerRest ==
  ASSUME IInv, NEW n \in Node, NEW m \in Node, NoAnswer(n, m), UNCHANGED << running, due >>
  PROVE  RestOK'
<1>1. CASE Trouble("link")
  BY <1>1, TroubleRest
<1>2. CASE UNCHANGED << used, quiet >>
  BY <1>2, SameRest
<1> QED
  BY <1>1, <1>2 DEF NoAnswer

LEMMA SetUpFailsGood ==
  ASSUME IInv, NEW n \in Node, NEW m \in Node, SetUpFails(n, m)
  PROVE  IInv'
<1>1. Good(L3CONNECTFAILED(node[n], m))
  BY NodeFacts, L3CONNECTFAILEDGood
<1>2. TablesGood'
  BY <1>1, AtGood DEF SetUpFails
<1> QED
  BY <1>2, NoAnswerRest DEF SetUpFails, IInv

LEMMA LinkFailsGood ==
  ASSUME IInv, NEW n \in Node, NEW m \in Node, LinkFails(n, m)
  PROVE  IInv'
<1>1. Good(L3LINKCLOSED(node[n], m, FALSE))
  BY NodeFacts, L3LINKCLOSEDGood
<1>2. TablesGood'
  BY <1>1, AtGood DEF LinkFails
<1> QED
  BY <1>2, NoAnswerRest DEF LinkFails, IInv

LEMMA LinkGoneGood ==
  ASSUME IInv, NEW n \in Node, NEW m \in Node, LinkGone(n, m)
  PROVE  IInv'
<1>1. Good(L3LINKCLOSED(node[n], m, TRUE))
  BY NodeFacts, L3LINKCLOSEDGood
<1>2. TablesGood'
  BY <1>1, AtGood DEF LinkGone
<1> QED
  BY <1>2, SameRest DEF LinkGone, IInv

LEMMA LinkIdleGood ==
  ASSUME IInv, NEW n \in Node, NEW m \in Node, LinkIdle(n, m)
  PROVE  IInv'
<1> DEFINE s == L3LINKCLOSED(node[n], m, TRUE)
           t == L3LINKCLOSED(node[m], n, TRUE)
<1>1. Good(s) /\ Good(t)
  BY NodeFacts, L3LINKCLOSEDGood
<1>2. node' = [node EXCEPT ![n] = L3LINKCLOSED(@, m, TRUE), ![m] = L3LINKCLOSED(@, n, TRUE)]
  BY DEF LinkIdle
<1>3. node' = [node EXCEPT ![n] = s, ![m] = t]
  BY <1>2 DEF LinkIdle
<1> HIDE DEF s, t
<1>4. TablesGood'
  BY <1>1, <1>3, BothGood
<1>5. RestOK'
  BY TroubleRest DEF LinkIdle
<1> QED
  BY <1>4, <1>5 DEF IInv

LEMMA StopGood ==
  ASSUME IInv, NEW n \in Node, Stop(n)
  PROVE  IInv'
<1>1. TablesGood'
  BY FreshGood, AtGood DEF Stop, At
<1>2. /\ used' \in [frame : 0 .. MaxFrame, trouble : 0 .. MaxTrouble]
      /\ quiet' \in 0 .. SETTLED
  BY TroubleType DEF Stop
<1>3. running' \subseteq Node /\ due' \subseteq running'
  BY DEF Stop, IInv, RestOK
<1> QED
  BY <1>1, <1>2, <1>3 DEF IInv, RestOK

LEMMA StartGood ==
  ASSUME IInv, NEW n \in Node, Start(n)
  PROVE  IInv'
<1>1. TablesGood'
  BY DEF Start, IInv, TablesGood
<1>2. RestOK'
  BY BoundAssumption DEF Start, IInv, RestOK
<1> QED
  BY <1>1, <1>2 DEF IInv

-----------------------------------------------------------------------------
(* Paths.                                                                  *)

\* A set of numbers that is not empty has a least one.
LEMMA NatLeast ==
  ASSUME NEW S \in SUBSET Nat, S # {}
  PROVE  \E i \in S : \A r \in S : i <= r
<1>1. PICK i \in S : \A r \in S : << r, i >> \notin OpToRel(<, Nat)
  BY NatLessThanWellFounded, WFMin
<1>2. \A r \in S : ~ (r < i)
  BY <1>1, Zenon DEF OpToRel
<1> QED
  BY <1>2

\* Induction, for a set of numbers in the place of a predicate.
LEMMA NatInductionOnSet ==
  ASSUME NEW S \in SUBSET Nat, 0 \in S, \A n \in S : n + 1 \in S
  PROVE  \A n \in Nat : n \in S
<1> DEFINE T == Nat \ S
<1>1. SUFFICES ASSUME T # {} PROVE FALSE
  OBVIOUS
<1>2. PICK n \in T : \A m \in T : n <= m
  BY <1>1, NatLeast
<1>3. n # 0 /\ n - 1 \in Nat /\ n - 1 \notin T
  BY <1>2
<1> QED
  BY <1>2, <1>3

\* One hop takes from a quality, and takes more from a smaller one.
Hop(n, m, q) == (PORTQUALITY[n][m] * q + 128) \div 256

LEMMA HopFacts ==
  ASSUME NEW n \in Node, NEW m \in Node, NEW q \in Quality
  PROVE  Hop(n, m, q) \in Quality /\ Hop(n, m, q) <= q
<1>1. PORTQUALITY[n][m] \in 0 .. 255
  BY PortAssumption DEF Quality
<1> DEFINE a == PORTQUALITY[n][m]
<1> HIDE DEF a
<1>2. a \in 0 .. 255 /\ q \in 0 .. 255
  BY <1>1 DEF a, Quality
<1>3. a * q \in Nat /\ a * q <= 255 * q
  BY <1>2
<1> DEFINE x == a * q
<1> HIDE DEF x
<1>4. x \in Nat /\ x <= 255 * q
  BY <1>3 DEF x
<1>5. (x + 128) \div 256 \in 0 .. 255 /\ (x + 128) \div 256 <= q
  BY <1>2, <1>4
<1> QED
  BY <1>5 DEF Hop, a, x, Quality

LEMMA HopGrows ==
  ASSUME NEW n \in Node, NEW m \in Node, NEW q \in Quality, NEW r \in Quality, q <= r
  PROVE  Hop(n, m, q) <= Hop(n, m, r)
<1>1. PORTQUALITY[n][m] \in 0 .. 255
  BY PortAssumption DEF Quality
<1> DEFINE a == PORTQUALITY[n][m]
<1> HIDE DEF a
<1>2. a \in 0 .. 255 /\ q \in 0 .. 255 /\ r \in 0 .. 255
  BY <1>1 DEF a, Quality
<1>3. a * q \in Nat /\ a * r \in Nat /\ a * q <= a * r
  BY <1>2
<1> DEFINE x == a * q
           y == a * r
<1> HIDE DEF x, y
<1>4. x \in Nat /\ y \in Nat /\ x <= y
  BY <1>3 DEF x, y
<1>5. (x + 128) \div 256 <= (y + 128) \div 256
  BY <1>4
<1> QED
  BY <1>5 DEF Hop, a, x, y

LEMMA PathFacts ==
  ASSUME NEW p \in Paths
  PROVE  /\ Len(p) \in Nat /\ Len(p) >= 2 /\ p \in [1 .. Len(p) -> Node]
         /\ \A i, j \in 1 .. Len(p) : p[i] = p[j] => i = j
<1>1. PICK k \in 2 .. Cardinality(Node) : p \in [1 .. k -> Node]
  BY DEF Paths
<1>2. k \in Nat /\ k >= 2
  <2>1. Cardinality(Node) \in Nat
    BY NodeAssumption, FS_CardinalityType
  <2> QED
    BY <2>1
<1>3. p \in Seq(Node) /\ Len(p) = k
  BY <1>1, <1>2
<1> QED
  BY <1>1, <1>2, <1>3 DEF Paths

\* The sequence that its definition describes: f up to the k-th node.
Qualities(p, k, f) ==
    /\ f \in [2 .. k -> Quality]
    /\ \A i \in 2 .. k : f[i] = IF i = 2 THEN PORTQUALITY[p[2]][p[1]]
                                ELSE Hop(p[i], p[i - 1], f[i - 1])

LEMMA QualitiesExist ==
  ASSUME NEW p \in Paths
  PROVE  \E f : Qualities(p, Len(p), f)
<1>1. Len(p) \in Nat /\ p \in [1 .. Len(p) -> Node]
  BY PathFacts
<1> DEFINE S == {k \in Nat : k <= Len(p) => \E f : Qualities(p, k, f)}
<1>2. 0 \in S
  <2>1. Qualities(p, 0, [i \in 2 .. 0 |-> 0])
    BY DEF Qualities
  <2> QED
    BY <2>1
<1>3. ASSUME NEW k \in S
      PROVE  k + 1 \in S
  <2> SUFFICES ASSUME k + 1 <= Len(p)
               PROVE  \E f : Qualities(p, k + 1, f)
    OBVIOUS
  <2>1. PICK f : Qualities(p, k, f)
    BY <1>1
  <2> DEFINE new == IF k + 1 = 2 THEN PORTQUALITY[p[2]][p[1]]
                    ELSE Hop(p[k + 1], p[k], f[k])
             g   == [i \in 2 .. k + 1 |-> IF i = k + 1 THEN new ELSE f[i]]
  <2>2. k + 1 >= 2 => new \in Quality
    <3>1. CASE k + 1 = 2
      <4>1. p[2] \in Node /\ p[1] \in Node
        BY <1>1, <3>1
      <4> QED
        BY <3>1, <4>1, PortType
    <3>2. CASE k + 1 > 2
      <4>1. p[k + 1] \in Node /\ p[k] \in Node /\ f[k] \in Quality
        BY <1>1, <2>1, <3>2 DEF Qualities
      <4> QED
        BY <3>2, <4>1, HopFacts
    <3> QED
      BY <3>1, <3>2
  <2>3. \A i \in 2 .. k + 1 : i # k + 1 => i \in 2 .. k /\ (i # 2 => i - 1 \in 2 .. k)
    OBVIOUS
  <2>4. g \in [2 .. k + 1 -> Quality]
    <3> HIDE DEF new
    <3>1. \A i \in 2 .. k + 1 : g[i] \in Quality
      BY <2>1, <2>2, <2>3 DEF Qualities
    <3> QED
      BY <3>1
  <2>5. ASSUME NEW i \in 2 .. k + 1
        PROVE  g[i] = IF i = 2 THEN PORTQUALITY[p[2]][p[1]] ELSE Hop(p[i], p[i - 1], g[i - 1])
    <3>1. CASE i = k + 1
      <4>1. g[i] = new
        BY <3>1
      <4>2. i # 2 => g[i - 1] = f[k] /\ i - 1 = k
        BY <3>1
      <4> QED
        BY <3>1, <4>1, <4>2
    <3>2. CASE i # k + 1
      <4>1. g[i] = f[i] /\ (i # 2 => g[i - 1] = f[i - 1])
        BY <3>2
      <4>2. i \in 2 .. k
        BY <3>2
      <4> QED
        BY <2>1, <4>1, <4>2 DEF Qualities
    <3> QED
      BY <3>1, <3>2
  <2>6. Qualities(p, k + 1, g)
    <3> HIDE DEF g
    <3> QED
      BY <2>4, <2>5 DEF Qualities
  <2> QED
    BY <2>6
<1>4. Len(p) \in S
  <2> HIDE DEF S
  <2>1. \A n \in Nat : n \in S
    <3>1. S \in SUBSET Nat
      BY DEF S
    <3> QED
      BY <1>2, <1>3, <3>1, NatInductionOnSet
  <2> QED
    BY <1>1, <2>1
<1> QED
  BY <1>1, <1>4

\* So the definition of QualityAlong, a recursive one, has a value.
LEMMA AlongFacts ==
  ASSUME NEW p \in Paths
  PROVE  Qualities(p, Len(p), Along[p])
<1> DEFINE D(f) == [i \in 2 .. Len(p) |->
                      IF i = 2 THEN PORTQUALITY[p[2]][p[1]]
                      ELSE (PORTQUALITY[p[i]][p[i - 1]] * f[i - 1] + 128) \div 256]
           q == CHOOSE f : f = D(f)
<1>1. PICK f : Qualities(p, Len(p), f)
  BY QualitiesExist
<1>2. f = D(f)
  <2>1. f \in [2 .. Len(p) -> Quality]
    BY <1>1 DEF Qualities
  <2>2. \A i \in 2 .. Len(p) : f[i] = D(f)[i]
    BY <1>1 DEF Qualities, Hop
  <2> QED
    BY <2>1, <2>2
<1>3. q = D(q)
  <2> HIDE DEF D
  <2> QED
    BY <1>2
<1>4. Along[p] = q
  BY DEF Along, QualityAlong
<1> HIDE DEF q
<1>5. \A i \in 2 .. Len(p) : q[i] = IF i = 2 THEN PORTQUALITY[p[2]][p[1]]
                                    ELSE Hop(p[i], p[i - 1], q[i - 1])
  <2>1. \A i \in 2 .. Len(p) : q[i] = D(q)[i]
    <3> HIDE DEF D
    <3> QED
      BY <1>3
  <2> QED
    BY <2>1 DEF Hop
<1> HIDE DEF D
<1>6. Len(p) \in Nat /\ p \in [1 .. Len(p) -> Node]
  BY PathFacts
<1> DEFINE S == {k \in Nat : k \in 2 .. Len(p) => q[k] \in Quality}
<1>7. ASSUME NEW k \in S
      PROVE  k + 1 \in S
  <2> SUFFICES ASSUME k + 1 \in 2 .. Len(p)
               PROVE  q[k + 1] \in Quality
    OBVIOUS
  <2>1. p[k + 1] \in Node
    BY <1>6
  <2>2. CASE k + 1 = 2
    <3>1. p[1] \in Node /\ p[2] \in Node
      BY <1>6, <2>2
    <3>2. q[k + 1] = PORTQUALITY[p[2]][p[1]]
      BY <1>5, <2>2
    <3> QED
      BY <3>1, <3>2, PortType
  <2>3. CASE k + 1 # 2
    <3>1. k \in 2 .. Len(p) /\ p[k] \in Node
      BY <1>6, <2>3
    <3>2. q[k + 1] = Hop(p[k + 1], p[k], q[k])
      <4>1. k + 1 \in 2 .. Len(p) /\ (k + 1) - 1 = k
        OBVIOUS
      <4> QED
        BY <1>5, <2>3, <4>1
    <3> QED
      BY <2>1, <3>1, <3>2, HopFacts
  <2> QED
    BY <2>2, <2>3
<1>8. \A k \in Nat : k \in S
  <2>1. 0 \in S /\ S \in SUBSET Nat
    OBVIOUS
  <2> HIDE DEF S
  <2> QED
    BY <1>7, <2>1, NatInductionOnSet
<1>9. q \in [2 .. Len(p) -> Quality]
  <2>1. q = [i \in 2 .. Len(p) |-> q[i]]
    BY <1>3 DEF D
  <2>2. \A i \in 2 .. Len(p) : i \in Nat
    OBVIOUS
  <2> QED
    BY <1>8, <2>1, <2>2
<1> QED
  BY <1>4, <1>5, <1>9 DEF Qualities

\* What a path is worth does not depend on where it goes on to.
LEMMA AlongSame ==
  ASSUME NEW p \in Paths, NEW r \in Paths, NEW n \in Nat, n <= Len(p), n <= Len(r),
         \A i \in 1 .. n : p[i] = r[i]
  PROVE  \A i \in 2 .. n : Along[p][i] = Along[r][i]
<1>1. /\ Len(p) \in Nat /\ Len(r) \in Nat
      /\ Qualities(p, Len(p), Along[p]) /\ Qualities(r, Len(r), Along[r])
  BY PathFacts, AlongFacts
<1> DEFINE S == {k \in Nat : k \in 2 .. n => Along[p][k] = Along[r][k]}
<1>2. ASSUME NEW k \in S
      PROVE  k + 1 \in S
  <2> SUFFICES ASSUME k + 1 \in 2 .. n
               PROVE  Along[p][k + 1] = Along[r][k + 1]
    OBVIOUS
  <2>1. k + 1 \in 2 .. Len(p) /\ k + 1 \in 2 .. Len(r)
    BY <1>1
  <2>2. p[k + 1] = r[k + 1] /\ p[k] = r[k] /\ (k + 1) - 1 = k
    OBVIOUS
  <2>3. CASE k + 1 = 2
    <3>1. Along[p][k + 1] = PORTQUALITY[p[2]][p[1]] /\ Along[r][k + 1] = PORTQUALITY[r[2]][r[1]]
      BY <1>1, <2>1, <2>3 DEF Qualities
    <3>2. p[1] = r[1] /\ p[2] = r[2]
      BY <2>2, <2>3
    <3> QED
      BY <3>1, <3>2
  <2>4. CASE k + 1 # 2
    <3>1. k \in 2 .. n
      BY <2>4
    <3>2. Along[p][k] = Along[r][k]
      BY <3>1
    <3>3. /\ Along[p][k + 1] = Hop(p[k + 1], p[k], Along[p][k])
          /\ Along[r][k + 1] = Hop(r[k + 1], r[k], Along[r][k])
      BY <1>1, <2>1, <2>2, <2>4 DEF Qualities
    <3> QED
      BY <2>2, <3>2, <3>3
  <2> QED
    BY <2>3, <2>4
<1>3. \A k \in Nat : k \in S
  <2>1. 0 \in S /\ S \in SUBSET Nat
    OBVIOUS
  <2> HIDE DEF S
  <2> QED
    BY <1>2, <2>1, NatInductionOnSet
<1> QED
  BY <1>3

LEMMA NotAbove ==
  ASSUME NEW a \in 0 .. 255
  PROVE  a <= a
  OBVIOUS

LEMMA AtMost ==
  ASSUME NEW a \in 0 .. 255, NEW b \in 0 .. 255, NEW c \in 0 .. 255, a <= b, b <= c
  PROVE  a <= c
  OBVIOUS

\* The further a node is from the end of a path, the less the path is worth to it.
LEMMA AlongDescends ==
  ASSUME NEW p \in Paths, NEW j \in 2 .. Len(p), NEW i \in 2 .. j
  PROVE  Along[p][j] <= Along[p][i]
<1>1. Len(p) \in Nat /\ p \in [1 .. Len(p) -> Node] /\ Qualities(p, Len(p), Along[p])
  BY PathFacts, AlongFacts
<1> DEFINE S == {k \in Nat : k \in i .. Len(p) => Along[p][k] <= Along[p][i]}
<1>2. ASSUME NEW k \in S
      PROVE  k + 1 \in S
  <2> SUFFICES ASSUME k + 1 \in i .. Len(p)
               PROVE  Along[p][k + 1] <= Along[p][i]
    OBVIOUS
  <2>1. \A x \in 2 .. Len(p) : Along[p][x] \in 0 .. 255
    BY <1>1 DEF Qualities, Quality
  <2>2. CASE k + 1 = i
    <3>1. Along[p][i] \in 0 .. 255
      BY <1>1, <2>1
    <3>2. Along[p][i] <= Along[p][i]
      BY <3>1, NotAbove
    <3> QED
      BY <2>2, <3>2
  <2>3. CASE k + 1 # i
    <3>1. k \in i .. Len(p) /\ k \in 2 .. Len(p) /\ k + 1 \in 2 .. Len(p) /\ k + 1 # 2
      BY <1>1, <2>3
    <3>2. Along[p][k] <= Along[p][i]
      BY <3>1
    <3>3. (k + 1) - 1 = k /\ p[k + 1] \in Node /\ p[k] \in Node
      BY <1>1, <3>1
    <3>4. Along[p][k + 1] = Hop(p[k + 1], p[k], Along[p][k])
      BY <1>1, <3>1, <3>3 DEF Qualities
    <3>5. Along[p][k + 1] <= Along[p][k]
      <4>1. Along[p][k] \in Quality
        BY <2>1, <3>1 DEF Quality
      <4>2. Hop(p[k + 1], p[k], Along[p][k]) <= Along[p][k]
        BY <3>3, <4>1, HopFacts
      <4> QED
        BY <3>4, <4>2
    <3>6. i \in 2 .. Len(p)
      BY <1>1
    <3>7. Along[p][i] \in 0 .. 255 /\ Along[p][k] \in 0 .. 255 /\ Along[p][k + 1] \in 0 .. 255
      BY <2>1, <3>1, <3>6
    <3> QED
      BY <3>2, <3>5, <3>7, AtMost
  <2> QED
    BY <2>2, <2>3
<1>3. \A k \in Nat : k \in S
  <2>1. 0 \in S /\ S \in SUBSET Nat
    OBVIOUS
  <2> HIDE DEF S
  <2> QED
    BY <1>2, <2>1, NatInductionOnSet
<1>4. j \in Nat /\ j \in i .. Len(p)
  BY <1>1
<1> QED
  BY <1>3, <1>4

\* A sequence of nodes without one twice is no longer than there are nodes.
LEMMA PathFits ==
  ASSUME NEW k \in Nat, k >= 2, NEW p \in [1 .. k -> Node],
         \A i, j \in 1 .. k : p[i] = p[j] => i = j
  PROVE  k \in 2 .. Cardinality(Node)
<1>1. p \in Injection(1 .. k, Node)
  BY DEF Injection, IsInjective
<1>2. Cardinality(1 .. k) <= Cardinality(Node)
  BY <1>1, NodeAssumption, FS_Injection
<1>3. Cardinality(1 .. k) = k
  BY FS_Interval
<1>4. Cardinality(Node) \in Nat
  BY NodeAssumption, FS_CardinalityType
<1> QED
  BY <1>2, <1>3, <1>4

\* A neighbour is one hop away.
LEMMA ReachesNeighbour ==
  ASSUME NEW n \in Node, NEW d \in Node, n # d
  PROVE  Reaches(n, d, PORTQUALITY[n][d])
<1> DEFINE p == << d, n >>
<1>1. p \in [1 .. 2 -> Node] /\ p[1] = d /\ p[2] = n /\ Len(p) = 2 /\ DOMAIN p = 1 .. 2
  OBVIOUS
<1>2. \A i, j \in 1 .. 2 : p[i] = p[j] => i = j
  BY <1>1
<1> HIDE DEF p
<1>3. 2 \in 2 .. Cardinality(Node)
  <2>1. 2 \in Nat /\ 2 >= 2
    OBVIOUS
  <2> QED
    BY <1>1, <1>2, <2>1, PathFits
<1>4. p \in Paths
  BY <1>1, <1>2, <1>3 DEF Paths
<1>5. Along[p][2] = PORTQUALITY[n][d] /\ 2 \in 2 .. Len(p)
  BY <1>1, <1>4, AlongFacts DEF Qualities
<1>6. PORTQUALITY[n][d] <= PORTQUALITY[n][d]
  BY PortType DEF Quality
<1> QED
  BY <1>1, <1>4, <1>5, <1>6 DEF Reaches

Reached(n, d, q) == q = 0 \/ Reaches(n, d, q)

\* What m can reach, n can reach by way of m, or by a shorter path that it is on.
LEMMA ReachedByHop ==
  ASSUME NEW n \in Node, NEW m \in Node, NEW d \in Node, n # d,
         NEW q \in Quality, q = 0 \/ m = d \/ Reaches(m, d, q)
  PROVE  IF m = d THEN Reached(n, d, PORTQUALITY[n][d]) ELSE Reached(n, d, Hop(n, m, q))
<1>1. CASE m = d
  BY <1>1, ReachesNeighbour DEF Reached
<1>2. CASE m # d /\ q = 0
  <2>1. Hop(n, m, 0) \in Quality /\ Hop(n, m, 0) <= 0
    <3>1. 0 \in Quality
      BY DEF Quality
    <3> QED
      BY <3>1, HopFacts
  <2>2. Hop(n, m, 0) = 0
    BY <2>1 DEF Quality
  <2> QED
    BY <1>2, <2>2 DEF Reached
<1>3. CASE m # d /\ Reaches(m, d, q)
  <2> PICK p \in Paths : \E i \in 2 .. Len(p) : p[1] = d /\ p[i] = m /\ q <= Along[p][i]
    BY <1>3 DEF Reaches
  <2>1. PICK i \in 2 .. Len(p) : p[1] = d /\ p[i] = m /\ q <= Along[p][i]
    OBVIOUS
  <2> DEFINE h == Hop(n, m, q)
  <2>2. /\ Len(p) \in Nat /\ p \in [1 .. Len(p) -> Node] /\ Qualities(p, Len(p), Along[p])
        /\ \A x, y \in 1 .. Len(p) : p[x] = p[y] => x = y
    BY <2>1, PathFacts, AlongFacts
  <2>3. Along[p][i] \in Quality
    BY <2>1, <2>2 DEF Qualities
  <2>4. h \in Quality /\ h <= q
    BY HopFacts
  <2>5. CASE \E j \in 1 .. i : p[j] = n
    <3>1. PICK j \in 1 .. i : p[j] = n
      BY <2>5
    <3>2. j \in 2 .. i /\ j \in 2 .. Len(p)
      BY <2>1, <2>2, <3>1
    <3>3. Along[p][i] <= Along[p][j] /\ Along[p][j] \in Quality
      BY <2>1, <2>2, <3>2, AlongDescends DEF Qualities
    <3>4. h <= Along[p][j]
      <4> HIDE DEF h
      <4>1. h <= Along[p][i]
        BY <2>1, <2>3, <2>4, AtMost DEF Quality
      <4> QED
        BY <2>3, <2>4, <3>3, <4>1, AtMost DEF Quality
    <3>5. Reaches(n, d, h)
      <4> HIDE DEF h
      <4> QED
        BY <2>1, <3>1, <3>2, <3>4 DEF Reaches
    <3> QED
      BY <1>3, <3>5 DEF Reached
  <2>6. CASE \A j \in 1 .. i : p[j] # n
    <3> DEFINE r == [j \in 1 .. i + 1 |-> IF j = i + 1 THEN n ELSE p[j]]
    <3>1. i \in Nat /\ i >= 2 /\ i + 1 \in Nat /\ i <= Len(p)
      BY <2>1, <2>2
    <3>2. r \in [1 .. i + 1 -> Node] /\ r[i + 1] = n /\ \A j \in 1 .. i : r[j] = p[j]
      BY <2>2, <3>1
    <3> HIDE DEF r
    <3>3. \A x, y \in 1 .. i + 1 : r[x] = r[y] => x = y
      <4> SUFFICES ASSUME NEW x \in 1 .. i + 1, NEW y \in 1 .. i + 1, r[x] = r[y]
                   PROVE  x = y
        OBVIOUS
      <4>1. \A z \in 1 .. i + 1 : z = i + 1 \/ (z \in 1 .. i /\ z \in 1 .. Len(p))
        BY <3>1
      <4>2. CASE x = i + 1 \/ y = i + 1
        BY <2>6, <3>2, <4>1, <4>2
      <4>3. CASE x # i + 1 /\ y # i + 1
        <5>1. x \in 1 .. i /\ y \in 1 .. i /\ x \in 1 .. Len(p) /\ y \in 1 .. Len(p)
          BY <4>1, <4>3
        <5> QED
          BY <2>2, <3>2, <5>1
      <4> QED
        BY <4>2, <4>3
    <3>4. i + 1 \in 2 .. Cardinality(Node)
      BY <3>1, <3>2, <3>3, PathFits
    <3>5. r \in Paths /\ Len(r) = i + 1
      <4>1. DOMAIN r = 1 .. i + 1 /\ Len(r) = i + 1
        BY <3>1, <3>2
      <4> QED
        BY <3>2, <3>3, <3>4, <4>1 DEF Paths
    <3>6. Along[r][i] = Along[p][i]
      <4>1. i <= Len(r) /\ i \in 2 .. i
        BY <3>1, <3>5
      <4>2. \A j \in 1 .. i : p[j] = r[j]
        BY <3>2
      <4> QED
        BY <2>1, <3>1, <3>5, <4>1, <4>2, AlongSame
    <3>7. Along[r][i + 1] = Hop(n, m, Along[p][i])
      <4>1. Qualities(r, Len(r), Along[r]) /\ i + 1 \in 2 .. Len(r) /\ i + 1 # 2 /\ (i + 1) - 1 = i
        <5>1. Qualities(r, Len(r), Along[r])
          BY <3>5, AlongFacts
        <5>2. i + 1 \in 2 .. i + 1 /\ i + 1 # 2 /\ (i + 1) - 1 = i
          BY <3>1
        <5> QED
          BY <3>5, <5>1, <5>2
      <4>2. r[i] = m
        BY <2>1, <3>1, <3>2
      <4>3. Along[r][i + 1] = Hop(r[i + 1], r[i], Along[r][i])
        BY <4>1 DEF Qualities
      <4> QED
        BY <3>2, <3>6, <4>2, <4>3
    <3>8. h <= Along[r][i + 1]
      BY <2>1, <2>3, <3>7, HopGrows
    <3>9. r[1] = d /\ i + 1 \in 2 .. Len(r)
      BY <2>1, <3>1, <3>2, <3>5
    <3>10. Reaches(n, d, h)
      <4> HIDE DEF h
      <4> QED
        BY <3>2, <3>5, <3>8, <3>9 DEF Reaches
    <3> QED
      BY <1>3, <3>10 DEF Reached
  <2> QED
    BY <2>5, <2>6
<1> QED
  BY <1>1, <1>2, <1>3

-----------------------------------------------------------------------------
(* No route is better than a path: one lemma for each action.              *)

AllReached == \A n \in Node : AllWithin(node[n], Attainable[n])

LEMMA AttainableIn ==
  ASSUME NEW n \in Node, NEW d \in Node
  PROVE  Attainable[n][d] = {q \in Quality : n = d \/ Reached(n, d, q)}
  BY DEF Attainable, Reached

LEMMA ZeroReached ==
  ASSUME NEW n \in Node
  PROVE  \A d \in Node : 0 \in Attainable[n][d]
<1>1. 0 \in Quality
  BY DEF Quality
<1> QED
  BY <1>1, AttainableIn DEF Reached

LEMMA FreshReached ==
  ASSUME NEW n \in Node
  PROVE  AllWithin(Fresh, Attainable[n])
  BY ZeroReached, FreshWithin

LEMMA AtReached ==
  ASSUME IInv, AllReached, NEW n \in Node, NEW s, AllWithin(s, Attainable[n]), At(n, s)
  PROVE  AllReached'
<1>1. \A m \in Node : node'[m] = IF m = n THEN s ELSE node[m]
  BY DEF At, IInv, TablesGood
<1>2. \A m \in Node : AllWithin(node'[m], Attainable[m])
  BY <1>1 DEF AllReached
<1> QED
  BY <1>2 DEF AllReached

LEMMA BothReached ==
  ASSUME IInv, AllReached, NEW n \in Node, NEW m \in Node, NEW s, NEW t,
         AllWithin(s, Attainable[n]), AllWithin(t, Attainable[m]),
         node' = [node EXCEPT ![n] = s, ![m] = t]
  PROVE  AllReached'
<1>1. \A x \in Node : node'[x] = IF x = m THEN t ELSE IF x = n THEN s ELSE node[x]
  BY DEF IInv, TablesGood
<1>2. \A x \in Node : AllWithin(node'[x], Attainable[x])
  BY <1>1 DEF AllReached
<1> QED
  BY <1>2 DEF AllReached

LEMMA NodeReached ==
  ASSUME IInv, AllReached, NEW n \in Node
  PROVE  Good(node[n]) /\ node[n] \in State /\ AllWithin(node[n], Attainable[n])
  BY NodeFacts DEF AllReached

\* What n tells, m may reach by way of n.
LEMMA ToldReached ==
  ASSUME NEW s, Good(s), NEW n \in Node, AllWithin(s, Attainable[n]), NEW m \in Node, m # n,
         NEW e \in NodesMessage(s)
  PROVE  e.dest \notin {m, n} => Scaled(PORTQUALITY[m][n], e.quality) \in Attainable[m][e.dest]
<1> SUFFICES ASSUME e.dest \notin {m, n}
             PROVE  Scaled(PORTQUALITY[m][n], e.quality) \in Attainable[m][e.dest]
  OBVIOUS
<1> DEFINE d == e.dest
           q == e.quality
<1>1. d \in Node /\ q = s.DESTS[d].NRROUTE[1].quality
  BY DEF NodesMessage
<1>2. q \in Attainable[n][d]
  BY <1>1, Slots DEF AllWithin, Within
<1> HIDE DEF d, q
<1>3. q \in Quality /\ Reached(n, d, q)
  BY <1>1, <1>2, AttainableIn DEF d
<1>4. Reached(m, d, Hop(m, n, q))
  BY <1>1, <1>3, ReachedByHop DEF Reached, d
<1>5. Hop(m, n, q) \in Quality /\ Hop(m, n, q) = Scaled(PORTQUALITY[m][n], q)
  BY <1>3, HopFacts DEF Hop, Scaled
<1>6. Scaled(PORTQUALITY[m][n], q) \in Attainable[m][d]
  BY <1>1, <1>4, <1>5, AttainableIn
<1> QED
  BY <1>6 DEF d, q

LEMMA NeighbourReached ==
  ASSUME NEW n \in Node, NEW m \in Node
  PROVE  PORTQUALITY[m][n] \in Attainable[m][n]
<1>1. n # m => Reached(m, n, PORTQUALITY[m][n])
  BY ReachesNeighbour DEF Reached
<1> QED
  BY <1>1, PortType, AttainableIn

LEMMA BroadcastReached ==
  ASSUME IInv, AllReached, NEW n \in Node, NEW missed, Broadcast(n, missed)
  PROVE  AllReached'
<1> DEFINE sent == UPDATEDESTLIST(node[n])
           list == NodesMessage(sent)
           told(m) == PROCESSNODEMESSAGE(node[m], m, n, PORTQUALITY[m][n], list)
<1>1. \A m \in Node : \/ m = n /\ node'[m] = TidyRoutes(sent)
                      \/ m # n /\ node'[m] \in {told(m), node[m]}
  BY DEF Broadcast
<1>2. Good(sent) /\ AllWithin(sent, Attainable[n])
  BY NodeReached, UPDATEDESTLISTGood, UPDATEDESTLISTWithin
<1> HIDE DEF sent
<1>3. AllWithin(TidyRoutes(sent), Attainable[n])
  BY <1>2, TidyRoutesWithin
<1>4. ASSUME NEW m \in Node, m # n
      PROVE  AllWithin(told(m), Attainable[m])
  <2>1. list \in SUBSET Told
    BY <1>2, NodesMessageType
  <2>2. Good(node[m]) /\ AllWithin(node[m], Attainable[m])
    BY NodeReached
  <2>3. \A e \in list : e.dest \notin {m, n} => Scaled(PORTQUALITY[m][n], e.quality) \in Attainable[m][e.dest]
    BY <1>2, <1>4, ToldReached
  <2>4. PORTQUALITY[m][n] \in Quality /\ PORTQUALITY[m][n] \in Attainable[m][n]
    BY PortType, NeighbourReached
  <2> HIDE DEF list
  <2> QED
    BY <2>1, <2>2, <2>3, <2>4, PROCESSNODEMESSAGEWithin
<1> HIDE DEF told
<1>5. \A m \in Node : AllWithin(node'[m], Attainable[m])
  BY <1>1, <1>3, <1>4 DEF AllReached
<1> QED
  BY <1>5 DEF AllReached

\* The entry of a link may change, and what is queued on it.
LEMMA LinkWithin ==
  ASSUME NEW s, Good(s), NEW W, AllWithin(s, W), NEW m, NEW link, NEW q
  PROVE  AllWithin([s EXCEPT !.LINKS[m] = link], W) /\ AllWithin([s EXCEPT !.TX_Q[m] = q], W)
<1>1. /\ [s EXCEPT !.LINKS[m] = link].DESTS = s.DESTS
      /\ [s EXCEPT !.TX_Q[m] = q].DESTS = s.DESTS
  BY LinkKeepsDests
<1> QED
  BY <1>1, SameAllWithin

LEMMA ConnectReached ==
  ASSUME IInv, AllReached, NEW n \in Node, NEW d \in Node, Connect(n, d)
  PROVE  AllReached'
<1> DEFINE s == node[n]
           g == [op |-> "CREQ", src |-> n, dest |-> d, ttl |-> L3LIVES]
           e == [s.DESTS[d] EXCEPT !.DEST_Q = Append(@, g)]
<1>1. Good(s) /\ AllWithin(s, Attainable[n]) /\ s.DESTS \in [Node -> Dest]
  BY NodeReached, StateFields
<1>2. At(n, [s EXCEPT !.DESTS[d].DEST_Q = Append(@, g)])
  BY DEF Connect
<1> HIDE DEF s, g
<1>3. [s EXCEPT !.DESTS[d].DEST_Q = Append(@, g)] = [s EXCEPT !.DESTS[d] = e]
  BY <1>1, GoodParts, StateFields DEF State, Dest
<1>4. e.NRROUTE = s.DESTS[d].NRROUTE
  BY <1>1 DEF Dest
<1> HIDE DEF e
<1>5. Within(e, Attainable[n][d])
  BY <1>1, <1>4 DEF AllWithin, Within
<1>6. AllWithin([s EXCEPT !.DESTS[d] = e], Attainable[n])
  BY <1>1, <1>5, OneDestWithin
<1> QED
  BY <1>2, <1>3, <1>6, AtReached

LEMMA ReceiveFrameReached ==
  ASSUME IInv, AllReached, NEW n \in Node, NEW m \in Node, ReceiveFrame(n, m)
  PROVE  AllReached'
<1> DEFINE q == node[m].TX_Q[n]
           s == NETROMMSG(node[n], n, m, Head(q))
           t == [node[m] EXCEPT !.TX_Q[n] = Tail(@)]
<1>1. q \in Seq(Frame) /\ q # << >> /\ n # m
  BY NodeFacts, StateFields DEF ReceiveFrame
<1>2. Head(q) \in Frame
  BY <1>1
<1>3. AllWithin(s, Attainable[n])
  BY <1>2, NodeReached, NETROMMSGWithin
<1>4. node' = [node EXCEPT ![n] = s, ![m].TX_Q[n] = Tail(@)]
  BY DEF ReceiveFrame
<1> HIDE DEF s
<1>5. node' = [node EXCEPT ![n] = s, ![m] = t]
  BY <1>1, <1>4 DEF IInv, TablesGood
<1>6. AllWithin(t, Attainable[m])
  BY NodeReached, LinkWithin
<1> HIDE DEF t
<1> QED
  BY <1>3, <1>5, <1>6, BothReached

LEMMA AnsweredWithin ==
  ASSUME NEW s, Good(s), NEW n \in Node, NEW t \in Answered(s, n), NEW W, AllWithin(s, W)
  PROVE  AllWithin(t, W)
<1>1. /\ AllWithin([s EXCEPT !.LINKS[n] = "untied"], W)
      /\ AllWithin([s EXCEPT !.LINKS[n] = "up"], W)
  BY LinkWithin
<1>2. Good(L3LINKCLOSED(s, n, TRUE)) /\ AllWithin(L3LINKCLOSED(s, n, TRUE), W)
  BY L3LINKCLOSEDGood, L3LINKCLOSEDWithin
<1>3. AllWithin([L3LINKCLOSED(s, n, TRUE) EXCEPT !.LINKS[n] = "untied"], W)
  BY <1>2, LinkWithin
<1> QED
  BY <1>1, <1>3 DEF Answered

LEMMA SetUpReached ==
  ASSUME IInv, AllReached, NEW n \in Node, NEW m \in Node, SetUp(n, m)
  PROVE  AllReached'
<1> PICK s \in Answered(node[m], n) : node' = [node EXCEPT ![n].LINKS[m] = "up", ![m] = s]
  BY DEF SetUp
<1> DEFINE t == [node[n] EXCEPT !.LINKS[m] = "up"]
<1>1. AllWithin(s, Attainable[m])
  BY NodeReached, AnsweredWithin
<1>2. AllWithin(t, Attainable[n])
  BY NodeReached, LinkWithin
<1>3. node' = [node EXCEPT ![n] = t, ![m] = s]
  OBVIOUS
<1> HIDE DEF t
<1> QED
  BY <1>1, <1>2, <1>3, BothReached

LEMMA LinkIdleReached ==
  ASSUME IInv, AllReached, NEW n \in Node, NEW m \in Node, LinkIdle(n, m)
  PROVE  AllReached'
<1> DEFINE s == L3LINKCLOSED(node[n], m, TRUE)
           t == L3LINKCLOSED(node[m], n, TRUE)
<1>1. AllWithin(s, Attainable[n]) /\ AllWithin(t, Attainable[m])
  BY NodeReached, L3LINKCLOSEDWithin
<1>2. node' = [node EXCEPT ![n] = L3LINKCLOSED(@, m, TRUE), ![m] = L3LINKCLOSED(@, n, TRUE)]
  BY DEF LinkIdle
<1>3. node' = [node EXCEPT ![n] = s, ![m] = t]
  BY <1>2 DEF LinkIdle
<1> HIDE DEF s, t
<1> QED
  BY <1>1, <1>3, BothReached

LEMMA NextReached == IInv /\ AllReached /\ [Next]_vars => AllReached'
<1> SUFFICES ASSUME IInv, AllReached, [Next]_vars
             PROVE  AllReached'
  OBVIOUS
<1>1. CASE UNCHANGED vars
  BY <1>1 DEF vars, AllReached
<1>2. ASSUME NEW n \in Node, RunL3Timer(n) \/ TidyMinute(n) \/ Stop(n) \/ Start(n)
      PROVE  AllReached'
  <2>1. CASE RunL3Timer(n)
    BY <2>1, BroadcastReached DEF RunL3Timer
  <2>2. CASE TidyMinute(n)
    BY <2>2, NodeReached, TidyRoutesWithin, AtReached DEF TidyMinute
  <2>3. CASE Stop(n)
    <3>1. At(n, Fresh)
      BY <2>3 DEF Stop, At
    <3> QED
      BY <3>1, FreshReached, AtReached
  <2>4. CASE Start(n)
    BY <2>4 DEF Start, AllReached
  <2> QED
    BY <1>2, <2>1, <2>2, <2>3, <2>4
<1>3. ASSUME NEW n \in Node, NEW m \in Node,
             \/ MissBroadcast(n, m) \/ ReceiveFrame(n, m)
             \/ SetUp(n, m) \/ SetUpFails(n, m) \/ LinkFails(n, m)
             \/ LinkGone(n, m) \/ LinkIdle(n, m)
      PROVE  AllReached'
  <2>1. CASE MissBroadcast(n, m)
    BY <2>1, BroadcastReached DEF MissBroadcast
  <2>2. CASE SetUpFails(n, m)
    BY <2>2, NodeReached, L3CONNECTFAILEDWithin, AtReached DEF SetUpFails
  <2>3. CASE LinkFails(n, m)
    BY <2>3, NodeReached, L3LINKCLOSEDWithin, AtReached DEF LinkFails
  <2>4. CASE LinkGone(n, m)
    BY <2>4, NodeReached, L3LINKCLOSEDWithin, AtReached DEF LinkGone
  <2> QED
    BY <1>3, <2>1, <2>2, <2>3, <2>4, ReceiveFrameReached, SetUpReached, LinkIdleReached
<1>4. ASSUME NEW n \in Node, NEW d \in Node, Connect(n, d) \/ RunL3BG(n, d) \/ LinksFull(n, d)
      PROVE  AllReached'
  <2>1. \A full \in BOOLEAN : AllWithin(L3BG(node[n], d, full), Attainable[n])
    BY NodeReached, L3BGWithin
  <2>2. CASE RunL3BG(n, d)
    <3>1. At(n, L3BG(node[n], d, FALSE))
      BY <2>2 DEF RunL3BG
    <3> QED
      BY <2>1, <3>1, AtReached
  <2>3. CASE LinksFull(n, d)
    <3>1. At(n, L3BG(node[n], d, TRUE))
      BY <2>3 DEF LinksFull
    <3> QED
      BY <2>1, <3>1, AtReached
  <2> QED
    BY <1>4, <2>2, <2>3, ConnectReached
<1> QED
  BY <1>1, <1>2, <1>3, <1>4 DEF Next

-----------------------------------------------------------------------------
(* The theorems.                                                           *)

LEMMA NextGood == IInv /\ [Next]_vars => IInv'
<1> SUFFICES ASSUME IInv, [Next]_vars
             PROVE  IInv'
  OBVIOUS
<1>1. CASE UNCHANGED vars
  BY <1>1 DEF vars, IInv, TablesGood, RestOK
<1>2. CASE \E n \in Node : RunL3Timer(n) \/ TidyMinute(n) \/ Stop(n) \/ Start(n)
  BY <1>2, RunL3TimerGood, TidyMinuteGood, StopGood, StartGood
<1>3. CASE \E n, m \in Node :
              \/ MissBroadcast(n, m) \/ ReceiveFrame(n, m)
              \/ SetUp(n, m) \/ SetUpFails(n, m) \/ LinkFails(n, m)
              \/ LinkGone(n, m) \/ LinkIdle(n, m)
  BY <1>3, MissBroadcastGood, ReceiveFrameGood, SetUpGood, SetUpFailsGood,
     LinkFailsGood, LinkGoneGood, LinkIdleGood
<1>4. CASE \E n, d \in Node : Connect(n, d) \/ RunL3BG(n, d) \/ LinksFull(n, d)
  BY <1>4, ConnectGood, RunL3BGGood, LinksFullGood
<1> QED
  BY <1>1, <1>2, <1>3, <1>4 DEF Next

\* Whatever is broadcast, missed, set up, lost or stopped, every node stays Good.
THEOREM TablesInvariance == Spec => []IInv
<1>1. Init => IInv
  BY InitGood
<1>2. IInv /\ [Next]_vars => IInv'
  BY NextGood
<1> QED
  BY <1>1, <1>2, PTL DEF Spec

\* Tables, counts and qualities keep their types: no quality leaves its byte when
\* it is scaled, no count when it is taken down (DecayNETROMRoutes, Less).
THEOREM TablesTypeCorrect == Spec => []TypeOK
  BY TablesInvariance, InvParts, PTL

\* The routes to a destination stay packed, best first, one for each neighbour
\* (SORTROUTES, PROCROUTES, and the deletions of UPDATEDESTLIST and
\* DecayNETROMRoutes).
THEOREM RoutesStayInOrder == Spec => []RoutesInOrder
  BY TablesInvariance, InvParts, PTL

\* No route and no link goes by a neighbour that is not in the table (TidyRoutes).
THEOREM NeighboursStayListed == Spec => []NeighboursListed
  BY TablesInvariance, InvParts, PTL

\* No route is better than a path there is.  What is broadcast is scaled by the port
\* it is heard on, as the hop is; a route that is reflected, refreshed, moved up or
\* taken for the first time keeps the quality it had, or none.
THEOREM NeverBetterThanPaths == Spec => []NoBetterThanPaths
<1>1. Init => AllReached
  BY FreshReached DEF Init, AllReached
<1>2. IInv /\ AllReached /\ [Next]_vars => AllReached'
  BY NextReached
<1>3. AllReached => NoBetterThanPaths
  BY DEF AllReached, AllWithin, Within, RoutesOf, NoBetterThanPaths
<1> QED
  BY <1>1, <1>2, <1>3, TablesInvariance, PTL DEF Spec
=============================================================================
