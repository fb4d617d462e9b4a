--------------------------- MODULE L3TablesProofs ---------------------------
(***************************************************************************)
(* Every handler of L3Tables keeps a node Good: its tables keep their      *)
(* types, the routes of a destination stay packed, best first and one for  *)
(* each neighbour, and what goes by a neighbour goes by one in the table.  *)
(*                                                                         *)
(* First the routes of one destination, whose neighbours are among a set   *)
(* N (Sound), then the handlers, in the order of the module.  The same     *)
(* again for the qualities of routes: every one is among those there were  *)
(* before, 0, or the one that was heard of (Within).                       *)
(***************************************************************************)
EXTENDS L3Tables, SequenceTheorems, TLAPS

\* The routes are packed, one for each neighbour, all of them in N.
Packed(r, N) ==
    /\ r \in Routes
    /\ \A k \in Slot : /\ r[k].via \in N \cup {NoNode}
                       /\ r[k].via = NoNode => r[k].quality = 0
    /\ r[2].via # NoNode => r[1].via # NoNode /\ r[2].via # r[1].via
    /\ r[3].via # NoNode => /\ r[2].via # NoNode
                            /\ r[3].via # r[2].via /\ r[3].via # r[1].via

BestFirst(r) == r[1].quality >= r[2].quality /\ r[2].quality >= r[3].quality

Sound(d, N) == d \in Dest /\ Packed(d.NRROUTE, N) /\ BestFirst(d.NRROUTE)

Good(s) ==
    /\ s \in State
    /\ \A d \in Node : Sound(s.DESTS[d], s.NEIGHBOURS)
    /\ \A m \in Node : s.LINKS[m] \in Tied => m \in s.NEIGHBOURS

-----------------------------------------------------------------------------
(* The routes of one destination.                                          *)

LEMMA Slots == Slot = {1, 2, 3}
  BY DEF Slot

LEMMA RouteFields ==
  ASSUME NEW r \in Routes, NEW k \in Slot
  PROVE  /\ r[k] \in Route /\ r[k].via \in Node \cup {NoNode}
         /\ r[k].quality \in 0 .. 255 /\ r[k].obs \in 0 .. 255
  BY DEF Routes, Route, Quality

LEMMA NoRouteType ==
  NoRoute \in Route /\ NoRoute.via = NoNode /\ NoRoute.quality = 0
  BY DEF NoRoute, Route, Quality

LEMMA NoDestSound ==
  ASSUME NEW N
  PROVE  Sound(NoDest, N)
<1>1. NoDest.NRROUTE = [k \in Slot |-> NoRoute]
  BY DEF NoDest
<1>2. NoDest.NRROUTE \in Routes
  BY <1>1, NoRouteType DEF Routes
<1>3. NoDest \in Dest
  BY <1>2 DEF NoDest, Dest
<1> QED
  BY <1>1, <1>2, <1>3, NoRouteType, Slots DEF Sound, Packed, BestFirst

\* Neighbours may be added.
LEMMA SoundGrows ==
  ASSUME NEW d, NEW N, NEW M, Sound(d, N), N \subseteq M
  PROVE  Sound(d, M)
  BY DEF Sound, Packed

\* What is not a route may be changed, and so may the counts.
LEMMA SoundSame ==
  ASSUME NEW d, NEW e \in Dest, NEW N, Sound(d, N),
         \A k \in Slot : /\ e.NRROUTE[k].via = d.NRROUTE[k].via
                         /\ e.NRROUTE[k].quality = d.NRROUTE[k].quality
  PROVE  Sound(e, N)
<1>1. e.NRROUTE \in Routes
  BY DEF Dest
<1> QED
  BY <1>1, Slots DEF Sound, Packed, BestFirst

LEMMA DestFields ==
  ASSUME NEW d \in Dest
  PROVE  /\ d.listed \in BOOLEAN /\ d.NRROUTE \in Routes
         /\ d.DEST_ROUTE \in 0 .. 3 /\ d.DEST_Q \in Seq(Frame)
  BY DEF Dest

LEMMA RoutesUpdate ==
  ASSUME NEW d \in Dest, NEW r \in Routes, NEW k \in 0 .. 3
  PROVE  /\ [d EXCEPT !.NRROUTE = r, !.DEST_ROUTE = k] \in Dest
         /\ [d EXCEPT !.NRROUTE = r, !.DEST_ROUTE = k].NRROUTE = r
  BY DEF Dest

LEMMA Descends ==
  ASSUME NEW a \in 0 .. 255, NEW b \in 0 .. 255, NEW c \in 0 .. 255, a >= b, b >= c
  PROVE  a >= c /\ c >= 0
  OBVIOUS

LEMMA DropGood ==
  ASSUME NEW r \in Routes, NEW N, Packed(r, N), BestFirst(r), NEW k \in Slot
  PROVE  Drop(r, k) \in Routes /\ Packed(Drop(r, k), N) /\ BestFirst(Drop(r, k))
<1> DEFINE q == Drop(r, k)
<1>1. q \in Routes
  <2>1. \A i \in Slot : i < 3 => i + 1 \in Slot
    BY DEF Slot
  <2> QED
    BY <2>1, NoRouteType, RouteFields DEF Drop, Routes
<1>2. /\ q[1] = IF 1 < k THEN r[1] ELSE r[2]
      /\ q[2] = IF 2 < k THEN r[2] ELSE r[3]
      /\ q[3] = NoRoute
  BY Slots DEF Drop
<1>3. k = 1 \/ k = 2 \/ k = 3
  BY Slots
<1>4. \A j \in Slot : r[j].quality \in 0 .. 255
  BY RouteFields
<1>5. BestFirst(q)
  <2>1. /\ r[1].quality \in 0 .. 255 /\ r[2].quality \in 0 .. 255
        /\ r[3].quality \in 0 .. 255
        /\ r[1].quality >= r[2].quality /\ r[2].quality >= r[3].quality
    BY <1>4, Slots DEF BestFirst
  <2>2. CASE k = 1
    BY <1>2, <2>1, <2>2, NoRouteType DEF BestFirst
  <2>3. CASE k = 2
    <3>1. q[1] = r[1] /\ q[2] = r[3]
      BY <1>2, <2>3
    <3>2. r[1].quality >= r[3].quality /\ r[3].quality >= 0
      <4> DEFINE x == r[1].quality
                 y == r[2].quality
                 z == r[3].quality
      <4>1. x \in 0 .. 255 /\ y \in 0 .. 255 /\ z \in 0 .. 255 /\ x >= y /\ y >= z
        BY <2>1
      <4> HIDE DEF x, y, z
      <4>2. x >= z /\ z >= 0
        BY <4>1
      <4> QED
        BY <4>2 DEF x, z
    <3> QED
      BY <1>2, <3>1, <3>2, NoRouteType DEF BestFirst
  <2>4. CASE k = 3
    <3>1. q[1] = r[1] /\ q[2] = r[2]
      BY <1>2, <2>4
    <3> QED
      BY <1>2, <2>1, <3>1, NoRouteType DEF BestFirst
  <2> QED
    BY <1>3, <2>2, <2>3, <2>4
<1>6. Packed(q, N)
  BY <1>1, <1>2, <1>3, NoRouteType, Slots DEF Packed
<1> QED
  BY <1>1, <1>5, <1>6

LEMMA SoundDrop ==
  ASSUME NEW d, NEW e \in Dest, NEW N, Sound(d, N), NEW k \in Slot,
         e.NRROUTE = Drop(d.NRROUTE, k)
  PROVE  Sound(e, N)
<1>1. d.NRROUTE \in Routes
  BY DestFields DEF Sound
<1>2. Packed(Drop(d.NRROUTE, k), N) /\ BestFirst(Drop(d.NRROUTE, k))
  BY <1>1, DropGood DEF Sound
<1> QED
  BY <1>2 DEF Sound

LEMMA DropDeadSound ==
  ASSUME NEW d, NEW N, Sound(d, N), NEW k \in Slot
  PROVE  Sound(DropDead(d, k), N)
<1> DEFINE e == [d EXCEPT !.NRROUTE = Drop(d.NRROUTE, k), !.DEST_ROUTE = 0]
<1>1. d \in Dest /\ Drop(d.NRROUTE, k) \in Routes
  BY DestFields, DropGood DEF Sound
<1>2. e \in Dest /\ e.NRROUTE = Drop(d.NRROUTE, k)
  <2>1. 0 \in 0 .. 3
    OBVIOUS
  <2> QED
    BY <1>1, <2>1, RoutesUpdate
<1>3. DropDead(d, k) = d \/ DropDead(d, k) = e
  BY DEF DropDead
<1> HIDE DEF e
<1>4. Sound(e, N)
  BY <1>2, SoundDrop
<1> QED
  BY <1>3, <1>4

\* A route with another count.
LEMMA CountedRoute ==
  ASSUME NEW x \in Route, NEW obs \in 0 .. 255
  PROVE  /\ [x EXCEPT !.obs = obs] \in Route
         /\ [x EXCEPT !.obs = obs].via = x.via
         /\ [x EXCEPT !.obs = obs].quality = x.quality
  BY DEF Route

LEMMA AgeSound ==
  ASSUME NEW d, NEW N, Sound(d, N)
  PROVE  Sound(Age(d), N)
<1> DEFINE r == d.NRROUTE
           q == [k \in Slot |-> [r[k] EXCEPT !.obs = Older(r[k].obs)]]
<1>1. d \in Dest /\ r \in Routes
  BY DestFields DEF Sound
<1>2. Age(d) = [d EXCEPT !.NRROUTE = q]
  BY DEF Age
<1>3. ASSUME NEW k \in Slot
      PROVE  q[k] \in Route /\ q[k].via = r[k].via /\ q[k].quality = r[k].quality
  <2>1. r[k] \in Route /\ r[k].obs \in 0 .. 255
    BY <1>1, RouteFields
  <2>2. Older(r[k].obs) \in 0 .. 255
    BY <2>1 DEF Older
  <2>3. q[k] = [r[k] EXCEPT !.obs = Older(r[k].obs)]
    OBVIOUS
  <2> HIDE DEF r, q
  <2> QED
    BY <2>1, <2>2, <2>3 DEF Route
<1>4. q \in Routes
  <2> SUFFICES \A k \in Slot : q[k] \in Route
    BY DEF Routes
  <2> QED
    BY <1>3
<1> HIDE DEF q
<1>5. Age(d) \in Dest /\ Age(d).NRROUTE = q
  BY <1>1, <1>2, <1>4 DEF Dest
<1> QED
  BY <1>3, <1>5, SoundSame

LEMMA UpdateDestSound ==
  ASSUME NEW d, NEW N, Sound(d, N)
  PROVE  Sound(UpdateDest(d), N)
<1>1. Sound(DropDead(Age(d), 3), N)
  BY AgeSound, DropDeadSound, Slots
<1>2. Sound(DropDead(DropDead(Age(d), 3), 2), N)
  BY <1>1, DropDeadSound, Slots
<1>3. Sound(DropDead(DropDead(DropDead(Age(d), 3), 2), 1), N)
  BY <1>2, DropDeadSound, Slots
<1> QED
  BY <1>3, NoDestSound DEF UpdateDest

LEMMA FirstIn ==
  ASSUME NEW S, S \subseteq Slot, S # {}
  PROVE  First(S) \in S /\ First(S) \in Slot /\ \A j \in S : First(S) <= j
<1>1. \E k \in S : \A j \in S : k <= j
  <2>1. CASE 1 \in S
    BY <2>1, Slots
  <2>2. CASE 1 \notin S /\ 2 \in S
    BY <2>2, Slots
  <2>3. CASE 1 \notin S /\ 2 \notin S
    <3>1. \A k \in S : k = 3
      BY <2>3, Slots
    <3> QED
      BY <3>1
  <2> QED
    BY <2>1, <2>2, <2>3
<1> QED
  BY <1>1 DEF First

LEMMA LessType ==
  ASSUME NEW i \in 0 .. 255, NEW n \in Nat
  PROVE  Less(i, n) \in 0 .. 255
  BY DEF Less

\* A route's count may be changed.
LEMMA SoundCount ==
  ASSUME NEW d, NEW e \in Dest, NEW N, Sound(d, N), NEW k \in Slot, NEW obs \in 0 .. 255,
         e.NRROUTE = [d.NRROUTE EXCEPT ![k] = [@ EXCEPT !.obs = obs]]
  PROVE  Sound(e, N)
<1>1. d.NRROUTE \in [Slot -> Route]
  BY DestFields DEF Sound, Routes
<1>2. \A i \in Slot : e.NRROUTE[i] = IF i = k THEN [d.NRROUTE[k] EXCEPT !.obs = obs]
                                             ELSE d.NRROUTE[i]
  BY <1>1
<1>3. /\ [d.NRROUTE[k] EXCEPT !.obs = obs].via = d.NRROUTE[k].via
      /\ [d.NRROUTE[k] EXCEPT !.obs = obs].quality = d.NRROUTE[k].quality
  BY <1>1, CountedRoute
<1>4. \A i \in Slot : /\ e.NRROUTE[i].via = d.NRROUTE[i].via
                      /\ e.NRROUTE[i].quality = d.NRROUTE[i].quality
  BY <1>2, <1>3
<1> QED
  BY <1>4, SoundSame

LEMMA CountedRoutes ==
  ASSUME NEW r \in Routes, NEW k \in Slot, NEW obs \in 0 .. 255
  PROVE  [r EXCEPT ![k] = [@ EXCEPT !.obs = obs]] \in Routes
<1>1. r \in [Slot -> Route]
  BY DEF Routes
<1>2. [r[k] EXCEPT !.obs = obs] \in Route
  BY <1>1, CountedRoute
<1> QED
  BY <1>1, <1>2 DEF Routes

LEMMA DecaySound ==
  ASSUME NEW d, NEW N, Sound(d, N), NEW via \in Node
  PROVE  Sound(Decay(d, via), N)
<1> DEFINE r   == d.NRROUTE
           S   == {k \in Slot : r[k].via = via}
           at  == First(S)
           obs == IF at = 1 THEN Less(r[at].obs, 2) ELSE (r[at].obs - 1) % 256
           e   == [d EXCEPT !.NRROUTE = [r EXCEPT ![at] = [@ EXCEPT !.obs = obs]]]
           f   == [d EXCEPT !.NRROUTE = Drop(r, at)]
<1>1. CASE S = {}
  BY <1>1 DEF Decay
<1>2. CASE S # {}
  <2>1. at \in Slot
    BY <1>2, FirstIn
  <2>2. d \in Dest /\ r \in Routes
    BY DestFields DEF Sound
  <2>3. Decay(d, via) \in {d, e, f, NoDest}
    BY DEF Decay
  <2> HIDE DEF at
  <2>4. r[at].obs \in 0 .. 255
    BY <2>1, <2>2, RouteFields
  <2>5. obs \in 0 .. 255
    <3>1. Less(r[at].obs, 2) \in 0 .. 255
      <4> DEFINE x == r[at].obs
      <4>1. x \in 0 .. 255
        BY <2>4
      <4> HIDE DEF x
      <4>2. Less(x, 2) \in 0 .. 255
        BY <4>1, LessType
      <4> QED
        BY <4>2 DEF x
    <3>2. (r[at].obs - 1) % 256 \in 0 .. 255
      BY <2>4
    <3> QED
      BY <3>1, <3>2
  <2> HIDE DEF obs
  <2>6. e \in Dest /\ e.NRROUTE = [r EXCEPT ![at] = [@ EXCEPT !.obs = obs]]
    <3> DEFINE q == [r EXCEPT ![at] = [@ EXCEPT !.obs = obs]]
    <3>1. q \in Routes
      BY <2>1, <2>2, <2>5, CountedRoutes
    <3> HIDE DEF q
    <3>2. [d EXCEPT !.NRROUTE = q] \in Dest /\ [d EXCEPT !.NRROUTE = q].NRROUTE = q
      BY <2>2, <3>1 DEF Dest
    <3> QED
      BY <3>2 DEF q
  <2>7. f \in Dest /\ f.NRROUTE = Drop(r, at)
    <3>1. Drop(r, at) \in Routes
      BY <2>1, <2>2, DropGood DEF Sound
    <3> QED
      BY <2>2, <3>1 DEF Dest
  <2> HIDE DEF e, f
  <2>8. Sound(e, N)
    BY <2>1, <2>5, <2>6, SoundCount
  <2>9. Sound(f, N)
    BY <2>1, <2>7, SoundDrop
  <2> QED
    BY <2>3, <2>8, <2>9, NoDestSound
<1> QED
  BY <1>1, <1>2

LEMMA TryNextSound ==
  ASSUME NEW d, NEW N, Sound(d, N), NEW via \in Node
  PROVE  Sound(TryNext(d, via), N)
<1> DEFINE k   == d.DEST_ROUTE
           obs == Less(d.NRROUTE[k].obs, 1)
           w   == IF d.DEST_Q = << >> THEN d.DEST_Q ELSE Tail(d.DEST_Q)
           q   == [d.NRROUTE EXCEPT ![k] = [@ EXCEPT !.obs = obs]]
           e   == [d EXCEPT !.NRROUTE = q, !.DEST_Q = w, !.DEST_ROUTE = 1]
<1>1. d \in Dest /\ d.NRROUTE \in Routes
  BY DestFields DEF Sound
<1>2. CASE k # 0 /\ d.NRROUTE[k].via = via
  <2>1. k \in Slot
    BY <1>1, <1>2, DestFields DEF Slot
  <2>2. obs \in 0 .. 255
    <3> DEFINE x == d.NRROUTE[k].obs
    <3>1. x \in 0 .. 255
      BY <1>1, <2>1, RouteFields
    <3> HIDE DEF x
    <3>2. Less(x, 1) \in 0 .. 255
      BY <3>1, LessType
    <3> QED
      BY <3>2 DEF x
  <2>3. w \in Seq(Frame)
    <3>1. d.DEST_Q \in Seq(Frame)
      BY <1>1, DestFields
    <3> QED
      BY <3>1
  <2>4. TryNext(d, via) = e
    BY <1>1, <1>2 DEF TryNext, Dest
  <2> HIDE DEF k, obs, w
  <2>5. q \in Routes
    BY <1>1, <2>1, <2>2, CountedRoutes
  <2> HIDE DEF q
  <2>6. e \in Dest /\ e.NRROUTE = q
    <3> DEFINE f(j) == [d EXCEPT !.NRROUTE = q, !.DEST_Q = w, !.DEST_ROUTE = j]
    <3>1. \A j \in 0 .. 3 : f(j) \in Dest /\ f(j).NRROUTE = q
      BY <1>1, <2>3, <2>5 DEF Dest
    <3>2. e = f(1) /\ 1 \in 0 .. 3
      OBVIOUS
    <3> HIDE DEF f, e
    <3> QED
      BY <3>1, <3>2
  <2> HIDE DEF e
  <2>7. Sound(e, N)
    BY <2>1, <2>2, <2>6, SoundCount DEF q
  <2> QED
    BY <2>4, <2>7
<1>3. CASE ~(k # 0 /\ d.NRROUTE[k].via = via)
  BY <1>3 DEF TryNext
<1> QED
  BY <1>2, <1>3

\* There is an order of the slots in which each is ahead of the next.
LEMMA OrderExists ==
  ASSUME NEW r \in Routes
  PROVE  \E p \in [Slot -> Slot] : Ahead(r, p[1], p[2]) /\ Ahead(r, p[2], p[3])
<1> DEFINE P(a, b, c) == [k \in Slot |-> IF k = 1 THEN a ELSE IF k = 2 THEN b ELSE c]
<1>1. /\ r[1].quality \in Int /\ r[2].quality \in Int /\ r[3].quality \in Int
  <2>1. \A k \in Slot : r[k].quality \in 0 .. 255
    BY RouteFields
  <2> QED
    BY <2>1, Slots
<1>2. \A a, b, c \in Slot :
         a # b /\ b # c /\ a # c =>
           /\ P(a, b, c) \in [Slot -> Slot]
           /\ P(a, b, c)[1] = a /\ P(a, b, c)[2] = b /\ P(a, b, c)[3] = c
  <2> SUFFICES ASSUME NEW a \in Slot, NEW b \in Slot, NEW c \in Slot,
                      a # b, b # c, a # c
               PROVE  /\ P(a, b, c) \in [Slot -> Slot]
                      /\ P(a, b, c)[1] = a /\ P(a, b, c)[2] = b /\ P(a, b, c)[3] = c
    OBVIOUS
  <2>1. P(a, b, c)[1] = a /\ P(a, b, c)[2] = b /\ P(a, b, c)[3] = c
    BY Slots
  <2>2. P(a, b, c) \in [Slot -> Slot]
    OBVIOUS
  <2> QED
    BY <2>1, <2>2
<1>3. \E a, b, c \in Slot :
         a # b /\ b # c /\ a # c /\ Ahead(r, a, b) /\ Ahead(r, b, c)
  <2>1. CASE Ahead(r, 1, 2) /\ Ahead(r, 2, 3)
    BY <2>1, Slots
  <2>2. CASE Ahead(r, 1, 3) /\ Ahead(r, 3, 2)
    BY <2>2, Slots
  <2>3. CASE Ahead(r, 2, 1) /\ Ahead(r, 1, 3)
    BY <2>3, Slots
  <2>4. CASE Ahead(r, 2, 3) /\ Ahead(r, 3, 1)
    BY <2>4, Slots
  <2>5. CASE Ahead(r, 3, 1) /\ Ahead(r, 1, 2)
    BY <2>5, Slots
  <2>6. CASE Ahead(r, 3, 2) /\ Ahead(r, 2, 1)
    BY <2>6, Slots
  <2>7. \/ Ahead(r, 1, 2) /\ Ahead(r, 2, 3)
        \/ Ahead(r, 1, 3) /\ Ahead(r, 3, 2)
        \/ Ahead(r, 2, 1) /\ Ahead(r, 1, 3)
        \/ Ahead(r, 2, 3) /\ Ahead(r, 3, 1)
        \/ Ahead(r, 3, 1) /\ Ahead(r, 1, 2)
        \/ Ahead(r, 3, 2) /\ Ahead(r, 2, 1)
    BY <1>1 DEF Ahead
  <2> QED
    BY <2>1, <2>2, <2>3, <2>4, <2>5, <2>6, <2>7
<1> PICK a \in Slot, b \in Slot, c \in Slot :
          a # b /\ b # c /\ a # c /\ Ahead(r, a, b) /\ Ahead(r, b, c)
  BY <1>3
<1> HIDE DEF P
<1>4. /\ P(a, b, c) \in [Slot -> Slot]
      /\ Ahead(r, P(a, b, c)[1], P(a, b, c)[2]) /\ Ahead(r, P(a, b, c)[2], P(a, b, c)[3])
  BY <1>2
<1> QED
  BY <1>4

LEMMA AheadFacts ==
  ASSUME NEW r \in Routes, NEW i \in Slot, NEW j \in Slot, Ahead(r, i, j)
  PROVE  /\ i # j /\ r[i].quality >= r[j].quality
         /\ r[i].quality = r[j].quality => i < j
<1> DEFINE a == r[i].quality
           b == r[j].quality
<1>1. a \in 0 .. 255 /\ b \in 0 .. 255 /\ i \in Int /\ j \in Int
  BY RouteFields DEF Slot
<1>2. a > b \/ (a = b /\ i < j)
  BY DEF Ahead
<1> HIDE DEF a, b
<1>3. a >= b /\ (a = b => i < j)
  BY <1>1, <1>2
<1>4. i # j
  <2>1. a > b => a # b
    BY <1>1
  <2>2. i < j => i # j
    BY <1>1
  <2> QED
    BY <1>2, <2>1, <2>2 DEF a, b
<1> QED
  BY <1>3, <1>4 DEF a, b

LEMMA AheadTransitive ==
  ASSUME NEW r \in Routes, NEW i \in Slot, NEW j \in Slot, NEW k \in Slot,
         Ahead(r, i, j), Ahead(r, j, k)
  PROVE  Ahead(r, i, k)
<1> DEFINE a == r[i].quality
           b == r[j].quality
           c == r[k].quality
<1>1. /\ a \in 0 .. 255 /\ b \in 0 .. 255 /\ c \in 0 .. 255
      /\ i \in Int /\ j \in Int /\ k \in Int
  <2>1. a \in 0 .. 255 /\ b \in 0 .. 255 /\ c \in 0 .. 255
    BY RouteFields
  <2> QED
    BY <2>1 DEF Slot
<1>2. a > b \/ (a = b /\ i < j)
  BY DEF Ahead
<1>3. b > c \/ (b = c /\ j < k)
  BY DEF Ahead
<1> HIDE DEF a, b, c
<1>4. a > c \/ (a = c /\ i < k)
  BY <1>1, <1>2, <1>3
<1> QED
  BY <1>4 DEF Ahead, a, b, c

LEMMA NotBelowZero ==
  ASSUME NEW a \in 0 .. 255, NEW b \in 0 .. 255, a >= b, a = 0
  PROVE  b = 0
  OBVIOUS

LEMMA SORTROUTESSound ==
  ASSUME NEW d \in Dest, NEW N, Packed(d.NRROUTE, N)
  PROVE  Sound(SORTROUTES(d), N)
<1> DEFINE r == d.NRROUTE
           p == CHOOSE p \in [Slot -> Slot] : Ahead(r, p[1], p[2]) /\ Ahead(r, p[2], p[3])
           q == [k \in Slot |-> r[p[k]]]
<1>1. r \in Routes
  BY DestFields
<1>2. p \in [Slot -> Slot] /\ Ahead(r, p[1], p[2]) /\ Ahead(r, p[2], p[3])
  BY <1>1, OrderExists
<1>3. SORTROUTES(d) = [d EXCEPT !.NRROUTE = q, !.DEST_ROUTE = IF p[1] = 1 THEN @ ELSE 0]
  BY DEF SORTROUTES
<1> HIDE DEF p
<1>4. p \in [Slot -> Slot]
  BY <1>2
<1>5. p[1] \in Slot /\ p[2] \in Slot /\ p[3] \in Slot
  BY <1>4, Slots
<1>6. \A k \in Slot : r[k].quality \in 0 .. 255
  BY <1>1, RouteFields
<1>7. q \in Routes
  BY <1>1, <1>4 DEF Routes
<1>8. q[1] = r[p[1]] /\ q[2] = r[p[2]] /\ q[3] = r[p[3]]
  BY Slots
<1> HIDE DEF q
<1>9. /\ r[p[1]].quality >= r[p[2]].quality /\ r[p[2]].quality >= r[p[3]].quality
      /\ p[1] # p[2] /\ p[2] # p[3] /\ p[1] # p[3]
      /\ r[p[1]].quality = r[p[2]].quality => p[1] < p[2]
      /\ r[p[2]].quality = r[p[3]].quality => p[2] < p[3]
  BY <1>1, <1>2, <1>5, AheadFacts, AheadTransitive
<1>10. BestFirst(q)
  BY <1>8, <1>9 DEF BestFirst
<1>11. \A i, j \in Slot :
          /\ i < j /\ r[j].via # NoNode => r[i].via # NoNode
          /\ i # j /\ r[j].via # NoNode => r[i].via # r[j].via
          /\ r[i].via = NoNode => r[i].quality = 0
          /\ r[i].via \in N \cup {NoNode}
  BY Slots DEF Packed
<1>12. r[p[1]].via = NoNode => r[p[2]].via = NoNode
  <2> SUFFICES ASSUME r[p[1]].via = NoNode
               PROVE  r[p[2]].via = NoNode
    OBVIOUS
  <2>1. r[p[1]].quality = 0 /\ r[p[2]].quality = 0
    BY <1>5, <1>6, <1>9, <1>11, NotBelowZero
  <2>2. p[1] < p[2]
    BY <1>9, <2>1
  <2> QED
    BY <1>5, <1>11, <2>2
<1>13. r[p[2]].via = NoNode => r[p[3]].via = NoNode
  <2> SUFFICES ASSUME r[p[2]].via = NoNode
               PROVE  r[p[3]].via = NoNode
    OBVIOUS
  <2>1. r[p[2]].quality = 0 /\ r[p[3]].quality = 0
    BY <1>5, <1>6, <1>9, <1>11, NotBelowZero
  <2>2. p[2] < p[3]
    BY <1>9, <2>1
  <2> QED
    BY <1>5, <1>11, <2>2
<1>14. Packed(q, N)
  <2>1. \A k \in Slot : /\ q[k].via \in N \cup {NoNode}
                        /\ q[k].via = NoNode => q[k].quality = 0
    BY <1>5, <1>8, <1>11, Slots
  <2> QED
    BY <1>5, <1>7, <1>8, <1>9, <1>11, <1>12, <1>13, <2>1 DEF Packed
<1>15. SORTROUTES(d) \in Dest /\ SORTROUTES(d).NRROUTE = q
  <2> DEFINE route == IF p[1] = 1 THEN d.DEST_ROUTE ELSE 0
  <2>1. route \in 0 .. 3
    BY DestFields
  <2>2. SORTROUTES(d) = [d EXCEPT !.NRROUTE = q, !.DEST_ROUTE = route]
    BY <1>3
  <2> HIDE DEF route
  <2> QED
    BY <1>7, <2>1, <2>2 DEF Dest
<1> QED
  BY <1>10, <1>14, <1>15 DEF Sound

\* A slot that is not spare may take any quality; the sort does the rest.
LEMMA UpdateThisEntrySound ==
  ASSUME NEW d \in Dest, NEW N, Packed(d.NRROUTE, N), NEW k \in Slot,
         d.NRROUTE[k].via # NoNode, NEW qual \in Quality
  PROVE  Sound(UpdateThisEntry(d, k, qual), N)
<1> DEFINE r   == d.NRROUTE
           obs == IF Locked(r[k]) THEN r[k].obs ELSE OBSINIT
           new == IF qual = 0 THEN r[k].quality ELSE qual
           q   == [r EXCEPT ![k] = [r[k] EXCEPT !.obs = obs, !.quality = new]]
           e   == [d EXCEPT !.NRROUTE = q]
<1>1. r \in Routes /\ r[k] \in Route
  BY DestFields, RouteFields
<1>2. obs \in 0 .. 255 /\ new \in 0 .. 255
  BY <1>1, RouteFields, ObsAssumption DEF Quality
<1>3. UpdateThisEntry(d, k, qual) = SORTROUTES(e)
  BY DEF UpdateThisEntry
<1> HIDE DEF obs, new
<1>4. q \in Routes
  BY <1>1, <1>2 DEF Routes, Route, Quality
<1>5. \A i \in Slot : /\ q[i].via = r[i].via
                      /\ i # k => q[i] = r[i]
  BY <1>1 DEF Routes, Route
<1> HIDE DEF q
<1>6. Packed(q, N)
  BY <1>4, <1>5, Slots DEF Packed
<1>7. e \in Dest /\ e.NRROUTE = q
  BY <1>4, DestFields DEF Dest
<1> QED
  BY <1>3, <1>6, <1>7, SORTROUTESSound

LEMMA PROCROUTESSound ==
  ASSUME NEW d, NEW N, Sound(d, N), NEW via \in Node, NEW qual \in Quality
  PROVE  Sound(PROCROUTES(d, via, qual), N \cup {via})
<1> DEFINE r    == d.NRROUTE
           here == {k \in Slot : r[k].via = via}
           room == {k \in Slot : r[k].via = NoNode \/ r[k].quality < qual}
           at   == First(room)
           M    == N \cup {via}
<1>1. d \in Dest /\ r \in Routes /\ Packed(r, M) /\ Sound(d, M)
  BY SoundGrows, DestFields DEF Sound
<1>2. via # NoNode
  BY NoNodeAssumption
<1>3. CASE here # {}
  <2> DEFINE k == First(here)
             e == [d EXCEPT !.DEST_ROUTE = IF k = 1 /\ @ > 1 THEN 1 ELSE @]
  <2>1. k \in Slot /\ r[k].via = via
    BY <1>3, FirstIn
  <2>2. PROCROUTES(d, via, qual) = UpdateThisEntry(e, k, qual)
    BY <1>3 DEF PROCROUTES
  <2> HIDE DEF k
  <2>3. e \in Dest /\ e.NRROUTE = r
    BY <1>1, DestFields DEF Dest
  <2> QED
    BY <1>1, <1>2, <2>1, <2>2, <2>3, UpdateThisEntrySound
<1>4. CASE here = {} /\ room = {}
  BY <1>1, <1>4 DEF PROCROUTES
<1>5. CASE here = {} /\ room # {}
  <2>1. /\ at \in Slot /\ (r[at].via = NoNode \/ r[at].quality < qual)
        /\ \A j \in Slot : j < at => r[j].via # NoNode
    <3>1. at \in room /\ at \in Slot /\ \A j \in room : at <= j
      BY <1>5, FirstIn
    <3> HIDE DEF at
    <3> QED
      BY <3>1, Slots
  <2>2. \A k \in Slot : r[k].via # via
    BY <1>5
  <2>3. CASE r[at].via = NoNode
    <3> DEFINE q == [r EXCEPT ![at].via = via]
               e == [d EXCEPT !.NRROUTE = q]
    <3>1. PROCROUTES(d, via, qual) = UpdateThisEntry(e, at, qual)
      BY <1>1, <1>5, <2>3 DEF PROCROUTES, Dest
    <3> HIDE DEF at
    <3>2. q \in Routes
      BY <1>1, <2>1 DEF Routes, Route
    <3>3. \A i \in Slot : /\ i # at => q[i] = r[i]
                          /\ i = at => q[i].via = via /\ q[i].quality = r[i].quality
      BY <1>1, <2>1 DEF Routes, Route
    <3>4. e \in Dest /\ e.NRROUTE = q
      BY <1>1, <3>2 DEF Dest
    <3> HIDE DEF q
    <3>5. Packed(q, M)
      BY <1>1, <1>2, <2>1, <2>2, <2>3, <3>2, <3>3, Slots DEF Packed
    <3> QED
      BY <1>2, <2>1, <3>1, <3>3, <3>4, <3>5, UpdateThisEntrySound
  <2>4. CASE r[at].via # NoNode
    <3> DEFINE q == [MakeRoom(r, at) EXCEPT ![at].via = via]
               e == [d EXCEPT !.NRROUTE = q, !.DEST_ROUTE = IF at = 1 THEN 0 ELSE @]
    <3>1. PROCROUTES(d, via, qual) = UpdateThisEntry(e, at, qual)
      BY <1>1, <1>5, <2>4 DEF PROCROUTES
    <3> HIDE DEF at
    <3>2. MakeRoom(r, at) \in Routes
      <4>1. \A i \in Slot : ~(i <= at) => i - 1 \in Slot
        BY <2>1 DEF Slot
      <4> QED
        BY <1>1, <4>1 DEF MakeRoom, Routes
    <3>3. \A i \in Slot : /\ i < at => q[i] = r[i]
                          /\ i = at => q[i].via = via /\ q[i].quality = r[i].quality
                          /\ i > at => q[i] = r[i - 1]
      <4>1. \A i \in Slot : MakeRoom(r, at)[i] = IF i <= at THEN r[i] ELSE r[i - 1]
        BY DEF MakeRoom
      <4>2. \A i \in Slot : /\ i # at => q[i] = MakeRoom(r, at)[i]
                            /\ i = at => /\ q[i].via = via
                                         /\ q[i].quality = MakeRoom(r, at)[i].quality
        BY <2>1, <3>2 DEF Routes, Route
      <4> QED
        BY <2>1, <4>1, <4>2, Slots
    <3>4. q \in Routes
      BY <2>1, <3>2 DEF Routes, Route
    <3> HIDE DEF q
    <3>5. e \in Dest /\ e.NRROUTE = q
      <4> DEFINE route == IF at = 1 THEN 0 ELSE d.DEST_ROUTE
      <4>1. route \in 0 .. 3
        BY <1>1, DestFields
      <4> HIDE DEF route
      <4>2. /\ [d EXCEPT !.NRROUTE = q, !.DEST_ROUTE = route] \in Dest
            /\ [d EXCEPT !.NRROUTE = q, !.DEST_ROUTE = route].NRROUTE = q
        BY <1>1, <3>4, <4>1 DEF Dest
      <4> QED
        BY <4>2 DEF route
    <3>6. Packed(q, M)
      <4>1. at = 1 \/ at = 2 \/ at = 3
        BY <2>1, Slots
      <4>2. CASE at = 1
        <5>1. /\ q[1].via = via /\ q[1].quality = r[1].quality
              /\ q[2] = r[1] /\ q[3] = r[2]
          BY <3>3, <4>2, Slots
        <5> QED
          BY <1>1, <1>2, <2>2, <2>4, <3>4, <4>2, <5>1, Slots DEF Packed
      <4>3. CASE at = 2
        <5>1. /\ q[2].via = via /\ q[2].quality = r[2].quality
              /\ q[1] = r[1] /\ q[3] = r[2]
          BY <3>3, <4>3, Slots
        <5> QED
          BY <1>1, <1>2, <2>2, <2>4, <3>4, <4>3, <5>1, Slots DEF Packed
      <4>4. CASE at = 3
        <5>1. /\ q[3].via = via /\ q[3].quality = r[3].quality
              /\ q[1] = r[1] /\ q[2] = r[2]
          BY <3>3, <4>4, Slots
        <5> QED
          BY <1>1, <1>2, <2>2, <2>4, <3>4, <4>4, <5>1, Slots DEF Packed
      <4> QED
        BY <4>1, <4>2, <4>3, <4>4
    <3> HIDE DEF e
    <3> QED
      BY <1>2, <2>1, <3>1, <3>3, <3>5, <3>6, UpdateThisEntrySound
  <2> QED
    BY <2>3, <2>4
<1> QED
  BY <1>3, <1>4, <1>5

-----------------------------------------------------------------------------
(* The handlers.                                                           *)

LEMMA StateFields ==
  ASSUME NEW s \in State
  PROVE  /\ s.DESTS \in [Node -> Dest] /\ s.NEIGHBOURS \subseteq Node
         /\ s.LINKS \in [Node -> LinkState] /\ s.TX_Q \in [Node -> Seq(Frame)]
  BY DEF State

LEMMA GoodParts ==
  ASSUME NEW s, Good(s)
  PROVE  /\ s \in State
         /\ \A d \in Node : s.DESTS[d] \in Dest /\ Sound(s.DESTS[d], s.NEIGHBOURS)
         /\ \A m \in Node : s.LINKS[m] \in Tied => m \in s.NEIGHBOURS
  BY DEF Good, Sound

LEMMA FreshGood == Good(Fresh)
<1>1. NoDest \in Dest
  BY NoDestSound DEF Sound
<1>2. Fresh \in State
  BY <1>1 DEF Fresh, State, LinkState
<1> QED
  BY <1>2, NoDestSound DEF Good, Fresh, Tied

\* Every destination may be changed.
LEMMA AllDestsGood ==
  ASSUME NEW s, Good(s), NEW f, f = [d \in Node |-> f[d]],
         \A d \in Node : Sound(f[d], s.NEIGHBOURS)
  PROVE  Good([s EXCEPT !.DESTS = f])
<1>1. f \in [Node -> Dest]
  BY DEF Sound
<1>2. s \in State
  BY GoodParts
<1>3. [s EXCEPT !.DESTS = f] \in State
  BY <1>1, <1>2 DEF State
<1> QED
  BY <1>2, <1>3 DEF Good, State

\* Or one.
LEMMA OneDestGood ==
  ASSUME NEW s, Good(s), NEW d \in Node, NEW e, Sound(e, s.NEIGHBOURS)
  PROVE  Good([s EXCEPT !.DESTS[d] = e])
<1> DEFINE f == [s.DESTS EXCEPT ![d] = e]
<1>1. s \in State
  BY GoodParts
<1>2. f = [x \in Node |-> f[x]] /\ \A x \in Node : f[x] = IF x = d THEN e ELSE s.DESTS[x]
  BY <1>1, StateFields
<1> HIDE DEF f
<1>3. Good([s EXCEPT !.DESTS = f])
  BY <1>2, GoodParts, AllDestsGood
<1> QED
  BY <1>3 DEF f

\* A link may be changed, a queue, or both.
LEMMA LinkGood ==
  ASSUME NEW s, Good(s), NEW m \in Node, NEW link \in LinkState,
         link \in Tied => m \in s.NEIGHBOURS
  PROVE  Good([s EXCEPT !.LINKS[m] = link])
<1> DEFINE l == [s.LINKS EXCEPT ![m] = link]
<1>1. s \in State
  BY GoodParts
<1>2. l \in [Node -> LinkState]
  BY <1>1, StateFields
<1>3. \A x \in Node : l[x] \in Tied => x \in s.NEIGHBOURS
  BY <1>1, GoodParts, StateFields
<1> HIDE DEF l
<1>4. Good([s EXCEPT !.LINKS = l])
  BY <1>1, <1>2, <1>3, GoodParts DEF Good, State
<1> QED
  BY <1>4 DEF l

LEMMA QueueGood ==
  ASSUME NEW s, Good(s), NEW m \in Node, NEW q \in Seq(Frame)
  PROVE  Good([s EXCEPT !.TX_Q[m] = q])
<1> DEFINE t == [s.TX_Q EXCEPT ![m] = q]
<1>1. s \in State
  BY GoodParts
<1>2. t \in [Node -> Seq(Frame)]
  BY <1>1, StateFields
<1> HIDE DEF t
<1>3. Good([s EXCEPT !.TX_Q = t])
  BY <1>1, <1>2, GoodParts DEF Good, State
<1> QED
  BY <1>3 DEF t

LEMMA LinkAndQueueGood ==
  ASSUME NEW s, Good(s), NEW m \in Node, NEW link \in LinkState, NEW q \in Seq(Frame),
         link \in Tied => m \in s.NEIGHBOURS
  PROVE  Good([s EXCEPT !.LINKS[m] = link, !.TX_Q[m] = q])
<1> DEFINE t == [s EXCEPT !.LINKS[m] = link]
<1>1. Good(t)
  BY LinkGood
<1> HIDE DEF t
<1>2. Good([t EXCEPT !.TX_Q[m] = q])
  BY <1>1, QueueGood
<1> QED
  BY <1>2 DEF t

LEMMA DecayNETROMRoutesGood ==
  ASSUME NEW s, Good(s), NEW m \in Node
  PROVE  Good(DecayNETROMRoutes(s, m))
<1> DEFINE f == [d \in Node |-> Decay(s.DESTS[d], m)]
<1>1. \A d \in Node : Sound(f[d], s.NEIGHBOURS)
  BY GoodParts, DecaySound
<1>2. f = [d \in Node |-> f[d]]
  OBVIOUS
<1>3. DecayNETROMRoutes(s, m) = [s EXCEPT !.DESTS = f]
  BY DEF DecayNETROMRoutes
<1> HIDE DEF f
<1> QED
  BY <1>1, <1>2, <1>3, AllDestsGood

LEMMA L3TRYNEXTDESTGood ==
  ASSUME NEW s, Good(s), NEW m \in Node
  PROVE  Good(L3TRYNEXTDEST(s, m))
<1> DEFINE f == [d \in Node |-> TryNext(s.DESTS[d], m)]
<1>1. \A d \in Node : Sound(f[d], s.NEIGHBOURS)
  BY GoodParts, TryNextSound
<1>2. f = [d \in Node |-> f[d]]
  OBVIOUS
<1>3. L3TRYNEXTDEST(s, m) = [s EXCEPT !.DESTS = f]
  BY DEF L3TRYNEXTDEST
<1> HIDE DEF f
<1> QED
  BY <1>1, <1>2, <1>3, AllDestsGood

LEMMA UPDATEDESTLISTGood ==
  ASSUME NEW s, Good(s)
  PROVE  Good(UPDATEDESTLIST(s))
<1> DEFINE f == [d \in Node |-> UpdateDest(s.DESTS[d])]
<1>1. \A d \in Node : Sound(f[d], s.NEIGHBOURS)
  BY GoodParts, UpdateDestSound
<1>2. f = [d \in Node |-> f[d]]
  OBVIOUS
<1>3. UPDATEDESTLIST(s) = [s EXCEPT !.DESTS = f]
  BY DEF UPDATEDESTLIST
<1> HIDE DEF f
<1> QED
  BY <1>1, <1>2, <1>3, AllDestsGood

LEMMA CLEAROUTLINKGood ==
  ASSUME NEW s, Good(s), NEW m \in Node
  PROVE  Good(CLEAROUTLINK(s, m))
<1>1. << >> \in Seq(Frame) /\ "none" \in LinkState /\ "none" \notin Tied
  BY DEF LinkState, Tied
<1> QED
  BY <1>1, LinkAndQueueGood DEF CLEAROUTLINK

LEMMA L3CONNECTFAILEDGood ==
  ASSUME NEW s, Good(s), NEW m \in Node
  PROVE  Good(L3CONNECTFAILED(s, m))
  BY DecayNETROMRoutesGood, L3TRYNEXTDESTGood, CLEAROUTLINKGood DEF L3CONNECTFAILED

LEMMA L3LINKCLOSEDGood ==
  ASSUME NEW s, Good(s), NEW m \in Node, NEW normal \in BOOLEAN
  PROVE  Good(L3LINKCLOSED(s, m, normal))
  BY DecayNETROMRoutesGood, CLEAROUTLINKGood DEF L3LINKCLOSED

\* A neighbour that goes has no route and no link.
LEMMA TidyRoutesGood ==
  ASSUME NEW s, Good(s)
  PROVE  Good(TidyRoutes(s))
<1> DEFINE N == {m \in s.NEIGHBOURS : s.LINKS[m] \in Tied \/ COUNTNODES(s, m) # {}}
           t == [s EXCEPT !.NEIGHBOURS = N]
<1>1. s \in State /\ s.NEIGHBOURS \subseteq Node
  BY GoodParts, StateFields
<1>2. TidyRoutes(s) = t
  BY DEF TidyRoutes
<1>3. ASSUME NEW d \in Node, NEW k \in Slot
      PROVE  s.DESTS[d].NRROUTE[k].via \in N \cup {NoNode}
  <2> DEFINE m == s.DESTS[d].NRROUTE[k].via
  <2>1. m \in s.NEIGHBOURS \cup {NoNode}
    BY GoodParts DEF Sound, Packed
  <2>2. d \in COUNTNODES(s, m)
    BY DEF COUNTNODES
  <2> QED
    BY <2>1, <2>2
<1>4. \A m \in Node : s.LINKS[m] \in Tied => m \in N
  BY GoodParts
<1>5. N \subseteq Node
  BY <1>1
<1> HIDE DEF N
<1>6. t \in State /\ t.DESTS = s.DESTS /\ t.LINKS = s.LINKS /\ t.NEIGHBOURS = N
  BY <1>1, <1>5 DEF State
<1>7. \A d \in Node : Sound(s.DESTS[d], N)
  BY <1>3, GoodParts DEF Sound, Packed
<1> QED
  BY <1>2, <1>4, <1>6, <1>7 DEF Good

\* What a broadcast may contain.
Told == [dest : Node, via : Node \cup {NoNode}, quality : Quality]

LEMMA NodesMessageType ==
  ASSUME NEW s, Good(s)
  PROVE  NodesMessage(s) \subseteq Told
<1>1. \A d \in Node : /\ s.DESTS[d].NRROUTE[1].via \in Node \cup {NoNode}
                      /\ s.DESTS[d].NRROUTE[1].quality \in Quality
  BY GoodParts, DestFields, RouteFields, Slots DEF Quality
<1> QED
  BY <1>1 DEF NodesMessage, Told

\* The product of two qualities, scaled, is one again.
LEMMA ScaledType ==
  ASSUME NEW q \in Quality, NEW p \in Quality
  PROVE  Scaled(q, p) \in Quality
<1>1. q \in Nat /\ p \in Nat /\ q <= 255 /\ p <= 255
  BY DEF Quality
<1>2. q * p \in Nat /\ q * p <= 255 * p
  BY <1>1
<1>3. q * p <= 65025
  BY <1>1, <1>2
<1> DEFINE x == q * p
<1>4. x \in Nat /\ x <= 65025
  BY <1>2, <1>3
<1> HIDE DEF x
<1>5. (x + 128) \div 256 \in 0 .. 255
  BY <1>4
<1> QED
  BY <1>5 DEF Scaled, Quality, x

LEMMA ListedSound ==
  ASSUME NEW d, NEW N, Sound(d, N)
  PROVE  Sound([d EXCEPT !.listed = TRUE], N)
<1>1. /\ [d EXCEPT !.listed = TRUE] \in Dest
      /\ [d EXCEPT !.listed = TRUE].NRROUTE = d.NRROUTE
  BY DEF Sound, Dest
<1> QED
  BY <1>1 DEF Sound

LEMMA PROCESSNODEMESSAGEGood ==
  ASSUME NEW s, Good(s), NEW self \in Node, NEW origin \in Node,
         NEW qual \in Quality, NEW message \in SUBSET Told
  PROVE  Good(PROCESSNODEMESSAGE(s, self, origin, qual, message))
<1> DEFINE Listed(d) == [s.DESTS[d] EXCEPT !.listed = TRUE]
           About(d) == {e \in message : /\ e.dest = d /\ d # self
                                        /\ Practical(Scaled(qual, e.quality))}
           Heard(d, e) == PROCROUTES(Listed(d), origin,
                             IF e.via = self THEN 0 ELSE Scaled(qual, e.quality))
           N == s.NEIGHBOURS \cup {origin}
           f == [d \in Node |->
                   IF d = origin THEN PROCROUTES(Listed(d), origin, qual)
                   ELSE IF About(d) = {} THEN s.DESTS[d]
                   ELSE Heard(d, CHOOSE e \in About(d) : TRUE)]
           t == [s EXCEPT !.NEIGHBOURS = N, !.DESTS = f]
<1>1. s \in State /\ N \subseteq Node
  BY GoodParts, StateFields
<1>2. PROCESSNODEMESSAGE(s, self, origin, qual, message) = t
  BY DEF PROCESSNODEMESSAGE
<1>3. ASSUME NEW d \in Node, NEW q \in Quality
      PROVE  Sound(PROCROUTES(Listed(d), origin, q), N)
  <2>1. Sound(Listed(d), s.NEIGHBOURS)
    BY GoodParts, ListedSound
  <2> HIDE DEF Listed
  <2> QED
    BY <2>1, PROCROUTESSound
<1>4. ASSUME NEW d \in Node
      PROVE  Sound(f[d], N)
  <2>1. CASE d = origin
    BY <1>3, <2>1
  <2>2. CASE d # origin /\ About(d) = {}
    <3>1. Sound(s.DESTS[d], N)
      BY GoodParts, SoundGrows
    <3> QED
      BY <2>2, <3>1
  <2>3. CASE d # origin /\ About(d) # {}
    <3> DEFINE e == CHOOSE e \in About(d) : TRUE
               q == IF e.via = self THEN 0 ELSE Scaled(qual, e.quality)
    <3>1. e \in Told
      BY <2>3
    <3>2. q \in Quality
      <4>1. e.quality \in Quality
        BY <3>1 DEF Told
      <4>2. Scaled(qual, e.quality) \in Quality
        BY <4>1, ScaledType
      <4>3. 0 \in Quality
        BY DEF Quality
      <4> QED
        BY <4>2, <4>3
    <3>3. f[d] = PROCROUTES(Listed(d), origin, q)
      BY <2>3
    <3> HIDE DEF q, Listed, f
    <3> QED
      BY <1>3, <3>2, <3>3
  <2> QED
    BY <2>1, <2>2, <2>3
<1>5. f = [d \in Node |-> f[d]]
  OBVIOUS
<1> HIDE DEF f, N
<1>6. f \in [Node -> Dest]
  BY <1>4, <1>5 DEF Sound
<1>7. t \in State /\ t.DESTS = f /\ t.NEIGHBOURS = N /\ t.LINKS = s.LINKS
  BY <1>1, <1>6 DEF State
<1>8. s.NEIGHBOURS \subseteq N
  BY DEF N
<1> QED
  BY <1>2, <1>4, <1>7, <1>8, GoodParts DEF Good

LEMMA CHECKNEIGHBOURGood ==
  ASSUME NEW s, Good(s), NEW m \in Node
  PROVE  Good(CHECKNEIGHBOUR(s, m)) /\ m \in CHECKNEIGHBOUR(s, m).NEIGHBOURS
<1> DEFINE t == CHECKNEIGHBOUR(s, m)
           l == [s.LINKS EXCEPT ![m] = "up"]
           N == s.NEIGHBOURS \cup {m}
<1>1. s \in State
  BY GoodParts
<1>2. l \in [Node -> LinkState] /\ N \subseteq Node
  BY <1>1, StateFields DEF LinkState
<1>3. t = [s EXCEPT !.NEIGHBOURS = N, !.LINKS = l]
  BY DEF CHECKNEIGHBOUR
<1>4. \A x \in Node : l[x] \in Tied => x \in N
  BY <1>1, GoodParts, StateFields
<1>5. \A d \in Node : Sound(s.DESTS[d], N)
  BY GoodParts, SoundGrows
<1>6. m \in N
  OBVIOUS
<1> HIDE DEF l, N, t
<1>7. t \in State /\ t.DESTS = s.DESTS /\ t.NEIGHBOURS = N /\ t.LINKS = l
  BY <1>1, <1>2, <1>3 DEF State
<1> QED
  BY <1>4, <1>5, <1>6, <1>7 DEF Good, t

LEMMA CHECKL3TABLESGood ==
  ASSUME NEW s, Good(s), NEW m \in s.NEIGHBOURS, NEW src \in Node
  PROVE  /\ Good(CHECKL3TABLES(s, m, src))
         /\ CHECKL3TABLES(s, m, src).NEIGHBOURS = s.NEIGHBOURS
<1>1. s \in State /\ m \in Node
  BY GoodParts, StateFields
<1>2. CASE s.DESTS[src].listed
  BY <1>2 DEF CHECKL3TABLES
<1>3. CASE ~s.DESTS[src].listed
  <2> DEFINE d == [s.DESTS[src] EXCEPT !.listed = TRUE]
             p == PROCROUTES(d, m, 0)
             e == [p EXCEPT !.DEST_ROUTE = 1]
  <2>1. Sound(d, s.NEIGHBOURS)
    BY GoodParts, ListedSound
  <2>2. 0 \in Quality /\ s.NEIGHBOURS \cup {m} = s.NEIGHBOURS
    BY DEF Quality
  <2>3. CHECKL3TABLES(s, m, src) = [s EXCEPT !.DESTS[src] = e]
    BY <1>3 DEF CHECKL3TABLES
  <2> HIDE DEF d
  <2>4. Sound(p, s.NEIGHBOURS)
    BY <1>1, <2>1, <2>2, PROCROUTESSound
  <2> HIDE DEF p
  <2>5. e \in Dest /\ e.NRROUTE = p.NRROUTE
    BY <2>4 DEF Sound, Dest
  <2>6. Sound(e, s.NEIGHBOURS)
    BY <2>4, <2>5 DEF Sound
  <2> HIDE DEF e
  <2>7. Good([s EXCEPT !.DESTS[src] = e])
    BY <2>6, OneDestGood
  <2>8. [s EXCEPT !.DESTS[src] = e].NEIGHBOURS = s.NEIGHBOURS
    BY <1>1 DEF State
  <2> QED
    BY <2>3, <2>7, <2>8
<1> QED
  BY <1>2, <1>3

\* What waits for a destination, and its route in use, may be changed.
LEMMA WaitingSound ==
  ASSUME NEW d, NEW N, Sound(d, N), NEW q \in Seq(Frame), NEW route \in 0 .. 3
  PROVE  Sound([d EXCEPT !.DEST_Q = q, !.DEST_ROUTE = route], N)
<1> DEFINE e == [d EXCEPT !.DEST_Q = q, !.DEST_ROUTE = route]
<1>1. e \in Dest /\ e.NRROUTE = d.NRROUTE
  BY DEF Sound, Dest
<1> QED
  BY <1>1 DEF Sound

LEMMA L3BGGood ==
  ASSUME NEW s, Good(s), NEW d \in Node, NEW linksFull \in BOOLEAN
  PROVE  Good(L3BG(s, d, linksFull))
<1> DEFINE dest == s.DESTS[d]
           use  == IF dest.DEST_ROUTE # 0 /\ dest.NRROUTE[dest.DEST_ROUTE].via # NoNode
                   THEN dest.DEST_ROUTE ELSE 1
           m    == dest.NRROUTE[use].via
           sent == [dest EXCEPT !.DEST_Q = << >>, !.DEST_ROUTE = use]
           kept == [dest EXCEPT !.DEST_ROUTE = use]
           q    == s.TX_Q[m] \o dest.DEST_Q
           up   == [s EXCEPT !.LINKS[m] = "up", !.TX_Q[m] = q]
           set  == [s EXCEPT !.LINKS[m] = "setup"]
<1>1. s \in State /\ dest \in Dest /\ Sound(dest, s.NEIGHBOURS)
  BY GoodParts
<1>2. use \in Slot /\ use \in 0 .. 3
  BY <1>1, DestFields DEF Slot
<1>3. m \in s.NEIGHBOURS \cup {NoNode}
  BY <1>1, <1>2 DEF Sound, Packed
<1>4. Good([s EXCEPT !.DESTS[d] = NoDest])
  BY NoDestSound, OneDestGood
<1>5. CASE m = NoNode
  BY <1>4, <1>5 DEF L3BG
<1>6. CASE m # NoNode
  <2>1. m \in s.NEIGHBOURS /\ m \in Node
    BY <1>1, <1>3, <1>6, StateFields
  <2>2. s.LINKS[m] \in LinkState
    BY <1>1, <2>1, StateFields
  <2>3. L3BG(s, d, linksFull) \in
          {[s EXCEPT !.DESTS[d] = kept], [s EXCEPT !.DESTS[d] = NoDest],
           [up EXCEPT !.DESTS[d] = sent], [set EXCEPT !.DESTS[d] = kept]}
    BY <1>6, <2>2 DEF L3BG, LinkState
  <2>4. q \in Seq(Frame)
    <3>1. s.TX_Q[m] \in Seq(Frame) /\ dest.DEST_Q \in Seq(Frame)
      BY <1>1, <2>1, StateFields, DestFields
    <3> HIDE DEF m, dest
    <3> QED
      BY <3>1, ConcatProperties
  <2> HIDE DEF m, q, dest, use
  <2>5. Sound(sent, s.NEIGHBOURS) /\ Sound(kept, s.NEIGHBOURS)
    <3>1. sent \in Dest /\ sent.NRROUTE = dest.NRROUTE
      <4> DEFINE f(w) == [dest EXCEPT !.DEST_Q = w, !.DEST_ROUTE = use]
      <4>1. \A w \in Seq(Frame) : f(w) \in Dest /\ f(w).NRROUTE = dest.NRROUTE
        BY <1>1, <1>2 DEF Dest
      <4>2. sent = f(<< >>) /\ << >> \in Seq(Frame)
        OBVIOUS
      <4> HIDE DEF f, sent
      <4> QED
        BY <4>1, <4>2
    <3>2. kept \in Dest /\ kept.NRROUTE = dest.NRROUTE
      BY <1>1, <1>2 DEF Dest
    <3> HIDE DEF sent, kept
    <3> QED
      BY <1>1, <3>1, <3>2 DEF Sound
  <2>6. "up" \in LinkState /\ "setup" \in LinkState
    BY DEF LinkState
  <2>7. Good(up) /\ Good(set)
    BY <2>1, <2>4, <2>6, LinkGood, LinkAndQueueGood
  <2>8. up.NEIGHBOURS = s.NEIGHBOURS /\ set.NEIGHBOURS = s.NEIGHBOURS
    BY <1>1 DEF State
  <2> HIDE DEF up, set, sent, kept
  <2>9. /\ Good([s EXCEPT !.DESTS[d] = kept]) /\ Good([up EXCEPT !.DESTS[d] = sent])
        /\ Good([set EXCEPT !.DESTS[d] = kept])
    BY <2>5, <2>7, <2>8, OneDestGood
  <2> QED
    BY <1>4, <2>3, <2>9
<1> QED
  BY <1>5, <1>6

LEMMA ChooseRouteSound ==
  ASSUME NEW d, NEW N, Sound(d, N), NEW m \in Node, NEW ours \in BOOLEAN
  PROVE  Sound(ChooseRoute(d, m, ours), N)
<1> DEFINE k     == IF ours THEN NextRoute(d.DEST_ROUTE) ELSE d.DEST_ROUTE
           back  == d.NRROUTE[IF k = 0 THEN 1 ELSE k].via = m
           route == CASE ~back -> k
                      [] back /\ k = 0 -> 2
                      [] OTHER -> NextRoute(k)
<1>1. d \in Dest /\ d.DEST_ROUTE \in 0 .. 3 /\ d.DEST_Q \in Seq(Frame)
  BY DestFields DEF Sound
<1>2. \A i \in 0 .. 3 : NextRoute(i) \in 0 .. 3
  BY DEF NextRoute
<1>3. k \in 0 .. 3
  BY <1>1, <1>2
<1> HIDE DEF k
<1>4. route \in 0 .. 3
  <2> HIDE DEF back
  <2> QED
    BY <1>2, <1>3
<1>5. ChooseRoute(d, m, ours) = [d EXCEPT !.DEST_ROUTE = route]
  BY DEF ChooseRoute, k
<1> HIDE DEF route
<1>6. Sound([d EXCEPT !.DEST_Q = d.DEST_Q, !.DEST_ROUTE = route], N)
  BY <1>1, <1>4, WaitingSound
<1>7. [d EXCEPT !.DEST_Q = d.DEST_Q, !.DEST_ROUTE = route] = [d EXCEPT !.DEST_ROUTE = route]
  BY <1>1 DEF Dest
<1> QED
  BY <1>5, <1>6, <1>7

LEMMA ForUsGood ==
  ASSUME NEW s, Good(s), NEW self \in Node, NEW m \in s.NEIGHBOURS, NEW f \in Frame
  PROVE  Good(ForUs(s, self, m, f))
<1> DEFINE t == CHECKL3TABLES(s, m, f.src)
           g == [op |-> "CACK", src |-> self, dest |-> f.src, ttl |-> L3LIVES]
           q == Append(t.TX_Q[m], g)
<1>1. s \in State /\ m \in Node /\ f.src \in Node
  BY GoodParts, StateFields DEF Frame
<1>2. Good(t)
  BY <1>1, CHECKL3TABLESGood
<1>3. g \in Frame
  BY <1>1, LivesAssumption DEF Frame
<1> HIDE DEF t, g
<1>4. q \in Seq(Frame)
  <2>1. t.TX_Q[m] \in Seq(Frame)
    BY <1>1, <1>2, GoodParts, StateFields
  <2> QED
    BY <1>3, <2>1, AppendProperties
<1>5. ForUs(s, self, m, f) = IF f.op = "CREQ" THEN [t EXCEPT !.TX_Q[m] = q] ELSE s
  BY DEF ForUs, t, g
<1> HIDE DEF q
<1>6. Good([t EXCEPT !.TX_Q[m] = q])
  BY <1>1, <1>2, <1>4, QueueGood
<1> QED
  BY <1>5, <1>6

\* A frame's life does not reach 0: with one hop left it is dropped.
LEMMA OnwardType ==
  ASSUME NEW f \in Frame, f.ttl # 1
  PROVE  [f EXCEPT !.ttl = @ - 1] \in Frame
  BY DEF Frame

LEMMA NETROMMSGGood ==
  ASSUME NEW t, Good(t), NEW self \in Node, NEW m \in Node, NEW f \in Frame
  PROVE  Good(NETROMMSG(t, self, m, f))
<1> DEFINE s      == CHECKNEIGHBOUR(t, m)
           ours   == f.src = self
           d      == s.DESTS[f.dest]
           chosen == ChooseRoute(d, m, ours)
           routed == [s EXCEPT !.DESTS[f.dest] = chosen]
           known  == CHECKL3TABLES(routed, m, f.src)
           to     == known.DESTS[f.dest]
           on     == [f EXCEPT !.ttl = @ - 1]
           queued == [to EXCEPT !.DEST_Q = Append(@, on)]
<1>1. Good(s) /\ m \in s.NEIGHBOURS
  BY CHECKNEIGHBOURGood
<1>2. f.src \in Node /\ f.dest \in Node
  BY DEF Frame
<1>3. CASE f.dest = self
  BY <1>1, <1>3, ForUsGood DEF NETROMMSG
<1>4. CASE f.dest # self /\ (f.ttl = 1 \/ ~d.listed \/ (ours /\ d.NRROUTE[2].via = NoNode))
  BY <1>1, <1>4 DEF NETROMMSG
<1>5. CASE f.dest # self /\ ~(f.ttl = 1 \/ ~d.listed \/ (ours /\ d.NRROUTE[2].via = NoNode))
  <2>1. NETROMMSG(t, self, m, f) = [known EXCEPT !.DESTS[f.dest].DEST_Q = Append(@, on)]
    BY <1>5 DEF NETROMMSG
  <2> HIDE DEF s
  <2>2. Sound(chosen, s.NEIGHBOURS)
    BY <1>1, <1>2, GoodParts, ChooseRouteSound
  <2>3. Good(routed) /\ routed.NEIGHBOURS = s.NEIGHBOURS
    <3> HIDE DEF chosen
    <3>1. Good(routed)
      BY <1>1, <1>2, <2>2, OneDestGood
    <3>2. s \in State
      BY <1>1, GoodParts
    <3> QED
      BY <3>1, <3>2 DEF State
  <2> HIDE DEF routed
  <2>4. Good(known)
    BY <1>1, <1>2, <2>3, CHECKL3TABLESGood
  <2> HIDE DEF known
  <2>5. to \in Dest /\ Sound(to, known.NEIGHBOURS)
    BY <1>2, <2>4, GoodParts
  <2>6. on \in Frame
    BY <1>5, OnwardType
  <2> HIDE DEF on
  <2>7. Append(to.DEST_Q, on) \in Seq(Frame)
    <3>1. to.DEST_Q \in Seq(Frame)
      BY <2>5, DestFields
    <3> HIDE DEF to
    <3> QED
      BY <2>6, <3>1, AppendProperties
  <2>8. Sound(queued, known.NEIGHBOURS)
    <3> HIDE DEF to
    <3>1. queued = [to EXCEPT !.DEST_Q = Append(to.DEST_Q, on), !.DEST_ROUTE = to.DEST_ROUTE]
      BY <2>5 DEF Dest
    <3>2. to.DEST_ROUTE \in 0 .. 3
      BY <2>5, DestFields
    <3>3. Sound([to EXCEPT !.DEST_Q = Append(to.DEST_Q, on), !.DEST_ROUTE = to.DEST_ROUTE],
                known.NEIGHBOURS)
      BY <2>5, <2>7, <3>2, WaitingSound
    <3> QED
      BY <3>1, <3>3, Zenon
  <2>9. [known EXCEPT !.DESTS[f.dest].DEST_Q = Append(@, on)]
          = [known EXCEPT !.DESTS[f.dest] = queued]
    BY <1>2, <2>4, GoodParts, StateFields DEF State, Dest
  <2> HIDE DEF queued
  <2>10. Good([known EXCEPT !.DESTS[f.dest] = queued])
    BY <1>2, <2>4, <2>8, OneDestGood
  <2> QED
    BY <2>1, <2>9, <2>10
<1> QED
  BY <1>3, <1>4, <1>5
-----------------------------------------------------------------------------
(* Where qualities come from: a handler leaves a destination with those it *)
(* had, with 0, or with the one that was heard of.  Q is any set of them.  *)

Within(d, Q) == \A k \in Slot : d.NRROUTE[k].quality \in Q

LEMMA NoDestWithin ==
  ASSUME NEW Q, 0 \in Q
  PROVE  Within(NoDest, Q)
  BY DEF Within, NoDest, NoRoute

LEMMA DropWithin ==
  ASSUME NEW d, NEW e, NEW Q, 0 \in Q, Within(d, Q), NEW k, e.NRROUTE = Drop(d.NRROUTE, k)
  PROVE  Within(e, Q)
<1>1. \A i \in Slot : i < 3 => i + 1 \in Slot
  BY DEF Slot
<1>2. NoRoute.quality = 0
  BY DEF NoRoute
<1>3. \A i \in Slot : Drop(d.NRROUTE, k)[i] \in {d.NRROUTE[i], NoRoute}
                      \/ (i < 3 /\ Drop(d.NRROUTE, k)[i] = d.NRROUTE[i + 1])
  BY DEF Drop
<1> QED
  BY <1>1, <1>2, <1>3 DEF Within

LEMMA DropDeadWithin ==
  ASSUME NEW d, NEW N, Sound(d, N), NEW k \in Slot, NEW Q, 0 \in Q, Within(d, Q)
  PROVE  Within(DropDead(d, k), Q)
<1> DEFINE e == [d EXCEPT !.NRROUTE = Drop(d.NRROUTE, k), !.DEST_ROUTE = 0]
<1>1. d \in Dest /\ Drop(d.NRROUTE, k) \in Routes
  BY DestFields, DropGood DEF Sound
<1>2. e.NRROUTE = Drop(d.NRROUTE, k)
  <2>1. 0 \in 0 .. 3
    OBVIOUS
  <2> QED
    BY <1>1, <2>1, RoutesUpdate
<1>3. DropDead(d, k) = d \/ DropDead(d, k) = e
  BY DEF DropDead
<1> HIDE DEF e
<1>4. Within(e, Q)
  BY <1>2, DropWithin
<1> QED
  BY <1>3, <1>4

\* Only counts change.
LEMMA SameWithin ==
  ASSUME NEW d, NEW e, NEW Q, Within(d, Q),
         \A k \in Slot : e.NRROUTE[k].quality = d.NRROUTE[k].quality
  PROVE  Within(e, Q)
  BY DEF Within

LEMMA AgeWithin ==
  ASSUME NEW d, NEW N, Sound(d, N), NEW Q, Within(d, Q)
  PROVE  Within(Age(d), Q)
<1> DEFINE r == d.NRROUTE
           q == [k \in Slot |-> [r[k] EXCEPT !.obs = Older(r[k].obs)]]
<1>1. d \in Dest /\ r \in Routes
  BY DestFields DEF Sound
<1>2. Age(d) = [d EXCEPT !.NRROUTE = q]
  BY DEF Age
<1>3. \A k \in Slot : q[k].quality = r[k].quality
  <2> TAKE k \in Slot
  <2>1. r[k] \in Route /\ q[k] = [r[k] EXCEPT !.obs = Older(r[k].obs)]
    BY <1>1, RouteFields
  <2> HIDE DEF r, q
  <2> QED
    BY <2>1 DEF Route
<1> HIDE DEF q
<1>4. Age(d).NRROUTE = q
  BY <1>1, <1>2 DEF Dest
<1> QED
  BY <1>3, <1>4, SameWithin

LEMMA UpdateDestWithin ==
  ASSUME NEW d, NEW N, Sound(d, N), NEW Q, 0 \in Q, Within(d, Q)
  PROVE  Within(UpdateDest(d), Q)
<1>1. Sound(Age(d), N) /\ Within(Age(d), Q)
  BY AgeSound, AgeWithin
<1>2. Sound(DropDead(Age(d), 3), N) /\ Within(DropDead(Age(d), 3), Q)
  BY <1>1, DropDeadSound, DropDeadWithin, Slots
<1> DEFINE e == DropDead(Age(d), 3)
<1>3. Sound(DropDead(e, 2), N) /\ Within(DropDead(e, 2), Q)
  <2> HIDE DEF e
  <2>1. Sound(e, N) /\ Within(e, Q)
    BY <1>2 DEF e
  <2> QED
    BY <2>1, DropDeadSound, DropDeadWithin, Slots
<1> HIDE DEF e
<1>4. Within(DropDead(DropDead(e, 2), 1), Q)
  BY <1>3, DropDeadWithin, Slots
<1> QED
  BY <1>4, NoDestWithin DEF UpdateDest, e

\* A count is changed.
LEMMA CountWithin ==
  ASSUME NEW d, NEW e, NEW Q, Within(d, Q), d.NRROUTE \in Routes, NEW k \in Slot, NEW obs,
         e.NRROUTE = [d.NRROUTE EXCEPT ![k] = [@ EXCEPT !.obs = obs]]
  PROVE  Within(e, Q)
<1>1. d.NRROUTE \in [Slot -> Route] /\ d.NRROUTE[k] \in Route
  BY DEF Routes
<1>2. [d.NRROUTE[k] EXCEPT !.obs = obs].quality = d.NRROUTE[k].quality
  BY <1>1 DEF Route
<1>3. \A i \in Slot : e.NRROUTE[i] = IF i = k THEN [d.NRROUTE[k] EXCEPT !.obs = obs]
                                     ELSE d.NRROUTE[i]
  BY <1>1
<1>4. \A i \in Slot : e.NRROUTE[i].quality = d.NRROUTE[i].quality
  BY <1>2, <1>3
<1> QED
  BY <1>4 DEF Within

LEMMA DecayWithin ==
  ASSUME NEW d, NEW N, Sound(d, N), NEW via \in Node, NEW Q, 0 \in Q, Within(d, Q)
  PROVE  Within(Decay(d, via), Q)
<1> DEFINE r   == d.NRROUTE
           S   == {k \in Slot : r[k].via = via}
           at  == First(S)
           obs == IF at = 1 THEN Less(r[at].obs, 2) ELSE (r[at].obs - 1) % 256
           e   == [d EXCEPT !.NRROUTE = [r EXCEPT ![at] = [@ EXCEPT !.obs = obs]]]
           f   == [d EXCEPT !.NRROUTE = Drop(r, at)]
<1>1. CASE S = {}
  BY <1>1 DEF Decay
<1>2. CASE S # {}
  <2>1. at \in Slot
    BY <1>2, FirstIn
  <2>2. d \in Dest /\ r \in Routes
    BY DestFields DEF Sound
  <2>3. Decay(d, via) \in {d, e, f, NoDest}
    BY DEF Decay
  <2> HIDE DEF at, obs
  <2>4. e.NRROUTE = [r EXCEPT ![at] = [@ EXCEPT !.obs = obs]] /\ f.NRROUTE = Drop(r, at)
    BY <2>2 DEF Dest
  <2> HIDE DEF e, f
  <2>5. Within(e, Q)
    BY <2>1, <2>2, <2>4, CountWithin
  <2>6. Within(f, Q)
    BY <2>4, DropWithin
  <2> QED
    BY <2>3, <2>5, <2>6, NoDestWithin
<1> QED
  BY <1>1, <1>2

LEMMA TryNextWithin ==
  ASSUME NEW d, NEW N, Sound(d, N), NEW via \in Node, NEW Q, Within(d, Q)
  PROVE  Within(TryNext(d, via), Q)
<1> DEFINE k   == d.DEST_ROUTE
           obs == Less(d.NRROUTE[k].obs, 1)
           w   == IF d.DEST_Q = << >> THEN d.DEST_Q ELSE Tail(d.DEST_Q)
           q   == [d.NRROUTE EXCEPT ![k] = [@ EXCEPT !.obs = obs]]
           e   == [d EXCEPT !.NRROUTE = q, !.DEST_Q = w, !.DEST_ROUTE = 1]
<1>1. d \in Dest /\ d.NRROUTE \in Routes
  BY DestFields DEF Sound
<1>2. CASE k # 0 /\ d.NRROUTE[k].via = via
  <2>1. k \in Slot
    BY <1>1, <1>2, DestFields DEF Slot
  <2>2. TryNext(d, via) = e
    BY <1>1, <1>2 DEF TryNext, Dest
  <2> HIDE DEF k, obs, w
  <2>3. e.NRROUTE = q
    <3> HIDE DEF q
    <3> QED
      BY <1>1 DEF Dest
  <2> HIDE DEF e
  <2> QED
    BY <1>1, <2>1, <2>2, <2>3, CountWithin
<1>3. CASE ~(k # 0 /\ d.NRROUTE[k].via = via)
  BY <1>3 DEF TryNext
<1> QED
  BY <1>2, <1>3

LEMMA SORTROUTESWithin ==
  ASSUME NEW d \in Dest, NEW Q, Within(d, Q)
  PROVE  Within(SORTROUTES(d), Q)
<1> DEFINE r == d.NRROUTE
           p == CHOOSE p \in [Slot -> Slot] : Ahead(r, p[1], p[2]) /\ Ahead(r, p[2], p[3])
           q == [k \in Slot |-> r[p[k]]]
<1>1. r \in Routes
  BY DestFields
<1>2. p \in [Slot -> Slot]
  BY <1>1, OrderExists
<1>3. SORTROUTES(d).NRROUTE = q
  BY DEF SORTROUTES, Dest
<1> HIDE DEF p
<1>4. \A k \in Slot : q[k] = r[p[k]] /\ p[k] \in Slot
  BY <1>2
<1> QED
  BY <1>3, <1>4 DEF Within

LEMMA UpdateThisEntryWithin ==
  ASSUME NEW d \in Dest, NEW k \in Slot, NEW qual \in Quality,
         NEW Q, Within(d, Q), qual = 0 \/ qual \in Q
  PROVE  Within(UpdateThisEntry(d, k, qual), Q)
<1> DEFINE r   == d.NRROUTE
           obs == IF Locked(r[k]) THEN r[k].obs ELSE OBSINIT
           new == IF qual = 0 THEN r[k].quality ELSE qual
           x   == [r[k] EXCEPT !.obs = obs, !.quality = new]
           q   == [r EXCEPT ![k] = x]
           e   == [d EXCEPT !.NRROUTE = q]
<1>1. r \in Routes /\ r[k] \in Route
  BY DestFields, RouteFields
<1>2. obs \in 0 .. 255 /\ new \in 0 .. 255 /\ new \in Q
  BY <1>1, RouteFields, ObsAssumption DEF Quality, Within
<1>3. UpdateThisEntry(d, k, qual) = SORTROUTES(e)
  BY DEF UpdateThisEntry
<1> HIDE DEF obs, new
<1>4. x \in Route /\ x.quality = new
  BY <1>1, <1>2 DEF Route, Quality
<1> HIDE DEF x
<1>5. q \in Routes /\ \A i \in Slot : q[i] = IF i = k THEN x ELSE r[i]
  BY <1>1, <1>4 DEF Routes
<1> HIDE DEF q
<1>6. e \in Dest /\ e.NRROUTE = q
  BY <1>5 DEF Dest
<1>7. Within(e, Q)
  BY <1>2, <1>4, <1>5, <1>6 DEF Within
<1> HIDE DEF e
<1> QED
  BY <1>3, <1>6, <1>7, SORTROUTESWithin

LEMMA PROCROUTESWithin ==
  ASSUME NEW d, NEW N, Sound(d, N), NEW via \in Node, NEW qual \in Quality,
         NEW Q, Within(d, Q), qual = 0 \/ qual \in Q
  PROVE  Within(PROCROUTES(d, via, qual), Q)
<1> DEFINE r    == d.NRROUTE
           here == {k \in Slot : r[k].via = via}
           room == {k \in Slot : r[k].via = NoNode \/ r[k].quality < qual}
           at   == First(room)
<1>1. d \in Dest /\ r \in Routes
  BY DestFields DEF Sound
<1>2. CASE here # {}
  <2> DEFINE k == First(here)
             e == [d EXCEPT !.DEST_ROUTE = IF k = 1 /\ @ > 1 THEN 1 ELSE @]
  <2>1. k \in Slot
    BY <1>2, FirstIn
  <2>2. PROCROUTES(d, via, qual) = UpdateThisEntry(e, k, qual)
    BY <1>2 DEF PROCROUTES
  <2> HIDE DEF k
  <2>3. e \in Dest /\ e.NRROUTE = r
    BY <1>1, DestFields DEF Dest
  <2> HIDE DEF e
  <2>4. Within(e, Q)
    BY <2>3 DEF Within
  <2> QED
    BY <2>1, <2>2, <2>3, <2>4, UpdateThisEntryWithin
<1>3. CASE here = {} /\ room = {}
  BY <1>3 DEF PROCROUTES
<1>4. CASE here = {} /\ room # {}
  <2>1. at \in Slot
    BY <1>4, FirstIn
  <2>2. CASE r[at].via = NoNode
    <3> DEFINE q == [r EXCEPT ![at].via = via]
               e == [d EXCEPT !.NRROUTE = q]
    <3>1. PROCROUTES(d, via, qual) = UpdateThisEntry(e, at, qual)
      BY <1>1, <1>4, <2>2 DEF PROCROUTES, Dest
    <3> HIDE DEF at
    <3>2. q \in Routes
      BY <1>1, <2>1 DEF Routes, Route
    <3>3. \A i \in Slot : q[i].quality = r[i].quality
      BY <1>1, <2>1 DEF Routes, Route
    <3> HIDE DEF q
    <3>4. e \in Dest /\ e.NRROUTE = q
      BY <1>1, <3>2 DEF Dest
    <3> HIDE DEF e
    <3>5. Within(e, Q)
      BY <3>3, <3>4, SameWithin
    <3> QED
      BY <2>1, <3>1, <3>4, <3>5, UpdateThisEntryWithin
  <2>3. CASE r[at].via # NoNode
    <3> DEFINE s == MakeRoom(r, at)
               q == [s EXCEPT ![at].via = via]
               e == [d EXCEPT !.NRROUTE = q, !.DEST_ROUTE = IF at = 1 THEN 0 ELSE @]
    <3>1. PROCROUTES(d, via, qual) = UpdateThisEntry(e, at, qual)
      BY <1>1, <1>4, <2>3 DEF PROCROUTES
    <3> HIDE DEF at
    <3>2. s \in Routes /\ \A i \in Slot : s[i].quality \in Q
      <4>1. \A i \in Slot : ~(i <= at) => i - 1 \in Slot
        BY <2>1 DEF Slot
      <4>2. \A i \in Slot : s[i] \in Route /\ s[i].quality \in Q
        BY <1>1, <4>1 DEF MakeRoom, Routes, Within
      <4>3. s = [i \in Slot |-> s[i]]
        BY DEF MakeRoom
      <4> HIDE DEF s
      <4> QED
        BY <4>2, <4>3 DEF Routes
    <3> HIDE DEF s
    <3>3. q \in Routes /\ \A i \in Slot : q[i].quality = s[i].quality
      BY <2>1, <3>2 DEF Routes, Route
    <3> HIDE DEF q
    <3>4. e \in Dest /\ e.NRROUTE = q
      <4> DEFINE route == IF at = 1 THEN 0 ELSE d.DEST_ROUTE
      <4>1. route \in 0 .. 3
        BY <1>1, DestFields
      <4> HIDE DEF route
      <4>2. /\ [d EXCEPT !.NRROUTE = q, !.DEST_ROUTE = route] \in Dest
            /\ [d EXCEPT !.NRROUTE = q, !.DEST_ROUTE = route].NRROUTE = q
        BY <1>1, <3>3, <4>1, RoutesUpdate
      <4> QED
        BY <4>2 DEF route
    <3> HIDE DEF e
    <3>5. Within(e, Q)
      BY <3>2, <3>3, <3>4 DEF Within
    <3> QED
      BY <2>1, <3>1, <3>4, <3>5, UpdateThisEntryWithin
  <2> QED
    BY <2>2, <2>3
<1> QED
  BY <1>2, <1>3, <1>4

-----------------------------------------------------------------------------
(* The handlers: W[d] are the qualities that routes to d may have.         *)

AllWithin(s, W) == \A d \in Node : 0 \in W[d] /\ Within(s.DESTS[d], W[d])

LEMMA SameAllWithin ==
  ASSUME NEW s, NEW t, NEW W, AllWithin(s, W), t.DESTS = s.DESTS
  PROVE  AllWithin(t, W)
  BY DEF AllWithin

LEMMA OneDestWithin ==
  ASSUME NEW s, Good(s), NEW d \in Node, NEW e, NEW W, AllWithin(s, W), Within(e, W[d])
  PROVE  AllWithin([s EXCEPT !.DESTS[d] = e], W)
<1> DEFINE t == [s EXCEPT !.DESTS[d] = e]
<1>1. s \in State /\ s.DESTS \in [Node -> Dest]
  BY GoodParts, StateFields
<1>2. t.DESTS = [s.DESTS EXCEPT ![d] = e]
  BY <1>1 DEF State
<1> HIDE DEF t
<1>3. \A x \in Node : t.DESTS[x] = IF x = d THEN e ELSE s.DESTS[x]
  BY <1>1, <1>2
<1>4. AllWithin(t, W)
  BY <1>3 DEF AllWithin
<1> QED
  BY <1>4 DEF t

LEMMA FreshWithin ==
  ASSUME NEW W, \A d \in Node : 0 \in W[d]
  PROVE  AllWithin(Fresh, W)
<1>1. \A d \in Node : Fresh.DESTS[d] = NoDest
  BY DEF Fresh
<1> QED
  BY <1>1, NoDestWithin DEF AllWithin

LEMMA DecayNETROMRoutesWithin ==
  ASSUME NEW s, Good(s), NEW m \in Node, NEW W, AllWithin(s, W)
  PROVE  AllWithin(DecayNETROMRoutes(s, m), W)
<1>1. \A d \in Node : DecayNETROMRoutes(s, m).DESTS[d] = Decay(s.DESTS[d], m)
  BY GoodParts DEF DecayNETROMRoutes, State
<1>2. \A d \in Node : Within(Decay(s.DESTS[d], m), W[d])
  BY GoodParts, DecayWithin DEF AllWithin
<1> QED
  BY <1>1, <1>2 DEF AllWithin

LEMMA L3TRYNEXTDESTWithin ==
  ASSUME NEW s, Good(s), NEW m \in Node, NEW W, AllWithin(s, W)
  PROVE  AllWithin(L3TRYNEXTDEST(s, m), W)
<1>1. \A d \in Node : L3TRYNEXTDEST(s, m).DESTS[d] = TryNext(s.DESTS[d], m)
  BY GoodParts DEF L3TRYNEXTDEST, State
<1>2. \A d \in Node : Within(TryNext(s.DESTS[d], m), W[d])
  BY GoodParts, TryNextWithin DEF AllWithin
<1> QED
  BY <1>1, <1>2 DEF AllWithin

LEMMA UPDATEDESTLISTWithin ==
  ASSUME NEW s, Good(s), NEW W, AllWithin(s, W)
  PROVE  AllWithin(UPDATEDESTLIST(s), W)
<1>1. \A d \in Node : UPDATEDESTLIST(s).DESTS[d] = UpdateDest(s.DESTS[d])
  BY GoodParts DEF UPDATEDESTLIST, State
<1>2. \A d \in Node : Within(UpdateDest(s.DESTS[d]), W[d])
  BY GoodParts, UpdateDestWithin DEF AllWithin
<1> QED
  BY <1>1, <1>2 DEF AllWithin

LEMMA LinkKeepsDests ==
  ASSUME NEW s, Good(s), NEW m, NEW link, NEW q
  PROVE  /\ [s EXCEPT !.LINKS[m] = link].DESTS = s.DESTS
         /\ [s EXCEPT !.TX_Q[m] = q].DESTS = s.DESTS
         /\ [s EXCEPT !.LINKS[m] = link, !.TX_Q[m] = q].DESTS = s.DESTS
  BY GoodParts DEF State

LEMMA L3CONNECTFAILEDWithin ==
  ASSUME NEW s, Good(s), NEW m \in Node, NEW W, AllWithin(s, W)
  PROVE  AllWithin(L3CONNECTFAILED(s, m), W)
<1> DEFINE t == DecayNETROMRoutes(s, m)
           u == L3TRYNEXTDEST(t, m)
<1>1. Good(t) /\ AllWithin(t, W)
  BY DecayNETROMRoutesGood, DecayNETROMRoutesWithin
<1> HIDE DEF t
<1>2. Good(u) /\ AllWithin(u, W)
  BY <1>1, L3TRYNEXTDESTGood, L3TRYNEXTDESTWithin
<1> HIDE DEF u
<1>3. CLEAROUTLINK(u, m).DESTS = u.DESTS
  BY <1>2, LinkKeepsDests DEF CLEAROUTLINK
<1> QED
  BY <1>2, <1>3, SameAllWithin DEF L3CONNECTFAILED, t, u

LEMMA L3LINKCLOSEDWithin ==
  ASSUME NEW s, Good(s), NEW m \in Node, NEW normal, NEW W, AllWithin(s, W)
  PROVE  AllWithin(L3LINKCLOSED(s, m, normal), W)
<1> DEFINE t == IF s.LINKS[m] \in Tied /\ ~normal THEN DecayNETROMRoutes(s, m) ELSE s
<1>1. Good(t) /\ AllWithin(t, W)
  BY DecayNETROMRoutesGood, DecayNETROMRoutesWithin
<1> HIDE DEF t
<1>2. CLEAROUTLINK(t, m).DESTS = t.DESTS
  BY <1>1, LinkKeepsDests DEF CLEAROUTLINK
<1> QED
  BY <1>1, <1>2, SameAllWithin DEF L3LINKCLOSED, t

LEMMA TidyRoutesWithin ==
  ASSUME NEW s, Good(s), NEW W, AllWithin(s, W)
  PROVE  AllWithin(TidyRoutes(s), W)
<1>1. TidyRoutes(s).DESTS = s.DESTS
  BY GoodParts DEF TidyRoutes, State
<1> QED
  BY <1>1, SameAllWithin

LEMMA ListedWithin ==
  ASSUME NEW d \in Dest, NEW Q, Within(d, Q)
  PROVE  Within([d EXCEPT !.listed = TRUE], Q)
<1>1. [d EXCEPT !.listed = TRUE].NRROUTE = d.NRROUTE
  BY DEF Dest
<1> QED
  BY <1>1 DEF Within

\* A broadcast: what it tells of other nodes may be reached by way of its origin.
LEMMA PROCESSNODEMESSAGEWithin ==
  ASSUME NEW s, Good(s), NEW self \in Node, NEW origin \in Node,
         NEW qual \in Quality, NEW message \in SUBSET Told, NEW W, AllWithin(s, W),
         qual \in W[origin],
         \A e \in message : e.dest \notin {self, origin} => Scaled(qual, e.quality) \in W[e.dest]
  PROVE  AllWithin(PROCESSNODEMESSAGE(s, self, origin, qual, message), W)
<1> DEFINE Listed(d) == [s.DESTS[d] EXCEPT !.listed = TRUE]
           About(d) == {e \in message : /\ e.dest = d /\ d # self
                                        /\ Practical(Scaled(qual, e.quality))}
           Heard(d, e) == PROCROUTES(Listed(d), origin,
                             IF e.via = self THEN 0 ELSE Scaled(qual, e.quality))
           f == [d \in Node |->
                   IF d = origin THEN PROCROUTES(Listed(d), origin, qual)
                   ELSE IF About(d) = {} THEN s.DESTS[d]
                   ELSE Heard(d, CHOOSE e \in About(d) : TRUE)]
           t == PROCESSNODEMESSAGE(s, self, origin, qual, message)
<1>1. t.DESTS = f
  BY GoodParts DEF PROCESSNODEMESSAGE, State
<1> HIDE DEF t
<1>2. ASSUME NEW d \in Node, NEW q \in Quality, q = 0 \/ q \in W[d]
      PROVE  Within(PROCROUTES(Listed(d), origin, q), W[d])
  <2>1. Sound(Listed(d), s.NEIGHBOURS) /\ Within(Listed(d), W[d])
    BY GoodParts, ListedSound, ListedWithin DEF AllWithin
  <2> HIDE DEF Listed
  <2> QED
    BY <1>2, <2>1, PROCROUTESWithin
<1>3. ASSUME NEW d \in Node
      PROVE  Within(f[d], W[d])
  <2>1. CASE d = origin
    BY <1>2, <2>1
  <2>2. CASE d # origin /\ About(d) = {}
    BY <2>2 DEF AllWithin
  <2>3. CASE d # origin /\ About(d) # {}
    <3> DEFINE e == CHOOSE e \in About(d) : TRUE
               q == IF e.via = self THEN 0 ELSE Scaled(qual, e.quality)
    <3>1. e \in message /\ e \in Told /\ e.dest = d /\ d # self
      BY <2>3
    <3>2. f[d] = PROCROUTES(Listed(d), origin, q)
      BY <2>3
    <3> HIDE DEF e, f
    <3>3. q \in Quality /\ (q = 0 \/ q \in W[d])
      <4>1. e.quality \in Quality
        BY <3>1 DEF Told
      <4>2. Scaled(qual, e.quality) \in Quality /\ Scaled(qual, e.quality) \in W[d]
        BY <2>3, <3>1, <4>1, ScaledType
      <4>3. 0 \in Quality
        BY DEF Quality
      <4> QED
        BY <4>2, <4>3
    <3> HIDE DEF q, Listed
    <3> QED
      BY <1>2, <3>2, <3>3
  <2> QED
    BY <2>1, <2>2, <2>3
<1> HIDE DEF f
<1>4. AllWithin(t, W)
  BY <1>1, <1>3 DEF AllWithin
<1> QED
  BY <1>4 DEF t

LEMMA CHECKL3TABLESWithin ==
  ASSUME NEW s, Good(s), NEW m \in s.NEIGHBOURS, NEW src \in Node, NEW W, AllWithin(s, W)
  PROVE  AllWithin(CHECKL3TABLES(s, m, src), W)
<1>1. s \in State /\ m \in Node
  BY GoodParts, StateFields
<1>2. CASE s.DESTS[src].listed
  BY <1>2 DEF CHECKL3TABLES
<1>3. CASE ~s.DESTS[src].listed
  <2> DEFINE d == [s.DESTS[src] EXCEPT !.listed = TRUE]
             p == PROCROUTES(d, m, 0)
             e == [p EXCEPT !.DEST_ROUTE = 1]
  <2>1. Sound(d, s.NEIGHBOURS) /\ Within(d, W[src])
    BY GoodParts, ListedSound, ListedWithin DEF AllWithin
  <2>2. 0 \in Quality
    BY DEF Quality
  <2>3. CHECKL3TABLES(s, m, src) = [s EXCEPT !.DESTS[src] = e]
    BY <1>3 DEF CHECKL3TABLES
  <2> HIDE DEF d
  <2>4. Sound(p, s.NEIGHBOURS \cup {m}) /\ Within(p, W[src])
    BY <1>1, <2>1, <2>2, PROCROUTESSound, PROCROUTESWithin
  <2> HIDE DEF p
  <2>5. e.NRROUTE = p.NRROUTE
    BY <2>4 DEF Sound, Dest
  <2>6. Within(e, W[src])
    BY <2>4, <2>5 DEF Within
  <2> HIDE DEF e
  <2>7. AllWithin([s EXCEPT !.DESTS[src] = e], W)
    BY <2>6, OneDestWithin
  <2> QED
    BY <2>3, <2>7
<1> QED
  BY <1>2, <1>3

LEMMA L3BGWithin ==
  ASSUME NEW s, Good(s), NEW d \in Node, NEW linksFull \in BOOLEAN, NEW W, AllWithin(s, W)
  PROVE  AllWithin(L3BG(s, d, linksFull), W)
<1> DEFINE dest == s.DESTS[d]
           use  == IF dest.DEST_ROUTE # 0 /\ dest.NRROUTE[dest.DEST_ROUTE].via # NoNode
                   THEN dest.DEST_ROUTE ELSE 1
           m    == dest.NRROUTE[use].via
           sent == [dest EXCEPT !.DEST_Q = << >>, !.DEST_ROUTE = use]
           kept == [dest EXCEPT !.DEST_ROUTE = use]
           q    == s.TX_Q[m] \o dest.DEST_Q
           t    == L3BG(s, d, linksFull)
<1>1. s \in State /\ dest \in Dest /\ Sound(dest, s.NEIGHBOURS)
  BY GoodParts
<1>2. use \in Slot
  BY <1>1, DestFields DEF Slot
<1>3. m \in s.NEIGHBOURS \cup {NoNode}
  BY <1>1, <1>2 DEF Sound, Packed
<1>4. m # NoNode => s.LINKS[m] \in LinkState
  BY <1>1, <1>3, StateFields
<1>5. \/ t = [s EXCEPT !.DESTS[d] = NoDest]
      \/ t = [s EXCEPT !.DESTS[d] = kept]
      \/ t = [s EXCEPT !.LINKS[m] = "up", !.TX_Q[m] = q, !.DESTS[d] = sent]
      \/ t = [s EXCEPT !.LINKS[m] = "setup", !.DESTS[d] = kept]
  BY <1>4 DEF L3BG, LinkState
<1> HIDE DEF t, m, q, dest, use
<1>6. sent.NRROUTE = dest.NRROUTE /\ kept.NRROUTE = dest.NRROUTE
  BY <1>1 DEF Dest
<1> HIDE DEF sent, kept
<1>7. \E e \in {NoDest, kept, sent} : t.DESTS = [s.DESTS EXCEPT ![d] = e]
  BY <1>1, <1>5 DEF State
<1>8. PICK e \in {NoDest, kept, sent} : t.DESTS = [s.DESTS EXCEPT ![d] = e]
  BY <1>7
<1>9. 0 \in W[d] /\ Within(dest, W[d])
  BY DEF AllWithin, dest
<1>10. Within(e, W[d])
  BY <1>6, <1>8, <1>9, NoDestWithin DEF Within
<1>11. \A x \in Node : t.DESTS[x] = IF x = d THEN e ELSE s.DESTS[x]
  BY <1>1, <1>8, StateFields
<1>12. AllWithin(t, W)
  BY <1>10, <1>11 DEF AllWithin
<1> QED
  BY <1>12 DEF t

LEMMA ForUsWithin ==
  ASSUME NEW s, Good(s), NEW self, NEW m \in s.NEIGHBOURS, NEW f \in Frame,
         NEW W, AllWithin(s, W)
  PROVE  AllWithin(ForUs(s, self, m, f), W)
<1> DEFINE t == CHECKL3TABLES(s, m, f.src)
           q == Append(t.TX_Q[m], [op |-> "CACK", src |-> self, dest |-> f.src, ttl |-> L3LIVES])
<1>1. f.src \in Node
  BY DEF Frame
<1>2. Good(t) /\ AllWithin(t, W)
  BY <1>1, CHECKL3TABLESGood, CHECKL3TABLESWithin
<1>3. ForUs(s, self, m, f) = IF f.op = "CREQ" THEN [t EXCEPT !.TX_Q[m] = q] ELSE s
  BY DEF ForUs
<1> HIDE DEF t, q
<1>4. [t EXCEPT !.TX_Q[m] = q].DESTS = t.DESTS
  BY <1>2, LinkKeepsDests
<1>5. AllWithin([t EXCEPT !.TX_Q[m] = q], W)
  BY <1>2, <1>4, SameAllWithin
<1> QED
  BY <1>3, <1>5

LEMMA NETROMMSGWithin ==
  ASSUME NEW t, Good(t), NEW self \in Node, NEW m \in Node, NEW f \in Frame,
         NEW W, AllWithin(t, W)
  PROVE  AllWithin(NETROMMSG(t, self, m, f), W)
<1> DEFINE s      == CHECKNEIGHBOUR(t, m)
           ours   == f.src = self
           d      == s.DESTS[f.dest]
           chosen == ChooseRoute(d, m, ours)
           routed == [s EXCEPT !.DESTS[f.dest] = chosen]
           known  == CHECKL3TABLES(routed, m, f.src)
           to     == known.DESTS[f.dest]
           on     == [f EXCEPT !.ttl = @ - 1]
           queued == [to EXCEPT !.DEST_Q = Append(@, on)]
<1>1. Good(s) /\ m \in s.NEIGHBOURS
  BY CHECKNEIGHBOURGood
<1>2. AllWithin(s, W)
  <2>1. s.DESTS = t.DESTS
    BY GoodParts DEF CHECKNEIGHBOUR, State
  <2> HIDE DEF s
  <2> QED
    BY <2>1, SameAllWithin
<1>3. f.src \in Node /\ f.dest \in Node
  BY DEF Frame
<1>4. CASE f.dest = self
  BY <1>1, <1>2, <1>4, ForUsWithin DEF NETROMMSG
<1>5. CASE f.dest # self /\ (f.ttl = 1 \/ ~d.listed \/ (ours /\ d.NRROUTE[2].via = NoNode))
  BY <1>2, <1>5 DEF NETROMMSG
<1>6. CASE f.dest # self /\ ~(f.ttl = 1 \/ ~d.listed \/ (ours /\ d.NRROUTE[2].via = NoNode))
  <2>1. NETROMMSG(t, self, m, f) = [known EXCEPT !.DESTS[f.dest].DEST_Q = Append(@, on)]
    BY <1>6 DEF NETROMMSG
  <2> HIDE DEF s
  <2>2. Sound(chosen, s.NEIGHBOURS) /\ Within(chosen, W[f.dest])
    <3>1. Sound(d, s.NEIGHBOURS) /\ Within(d, W[f.dest])
      BY <1>1, <1>2, <1>3, GoodParts DEF AllWithin
    <3> HIDE DEF d, ours
    <3>2. chosen.NRROUTE = d.NRROUTE
      BY <3>1 DEF ChooseRoute, Sound, Dest
    <3>3. ours \in BOOLEAN
      BY DEF ours
    <3> QED
      BY <3>1, <3>2, <3>3, ChooseRouteSound DEF Within
  <2>3. Good(routed) /\ AllWithin(routed, W) /\ m \in routed.NEIGHBOURS
    <3> HIDE DEF chosen
    <3>1. Good(routed) /\ AllWithin(routed, W)
      BY <1>1, <1>2, <1>3, <2>2, OneDestGood, OneDestWithin
    <3>2. s \in State
      BY <1>1, GoodParts
    <3> QED
      BY <1>1, <3>1, <3>2 DEF State
  <2> HIDE DEF routed
  <2>4. Good(known) /\ AllWithin(known, W)
    BY <1>3, <2>3, CHECKL3TABLESGood, CHECKL3TABLESWithin
  <2> HIDE DEF known
  <2>5. to \in Dest /\ Within(to, W[f.dest])
    BY <1>3, <2>4, GoodParts DEF AllWithin
  <2>6. Within(queued, W[f.dest])
    <3> HIDE DEF to, on
    <3>1. queued.NRROUTE = to.NRROUTE
      BY <2>5 DEF Dest
    <3> QED
      BY <2>5, <3>1 DEF Within
  <2>7. [known EXCEPT !.DESTS[f.dest].DEST_Q = Append(@, on)]
          = [known EXCEPT !.DESTS[f.dest] = queued]
    BY <1>3, <2>4, GoodParts, StateFields DEF State, Dest
  <2> HIDE DEF queued
  <2>8. AllWithin([known EXCEPT !.DESTS[f.dest] = queued], W)
    BY <1>3, <2>4, <2>6, OneDestWithin
  <2> QED
    BY <2>1, <2>7, <2>8
<1> QED
  BY <1>4, <1>5, <1>6
=============================================================================
