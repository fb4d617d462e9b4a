------------------------------ MODULE L3Tables ------------------------------
(***************************************************************************)
(* The routing tables of one node, L3Code.c: the destinations it knows     *)
(* (DESTS) with up to three NET/ROM routes each, the neighbours the routes *)
(* go by (NEIGHBOURS) and the links to them.  Each handler is an operator  *)
(* from a node to a node.                                                  *)
(*                                                                         *)
(* A route is an element of NRROUTE, sorted by quality; obs is its         *)
(* obsolescence count, 128 and more meaning locked.  A spare slot has      *)
(* via = NoNode, as the zero pointer in the code.  DEST_ROUTE is the slot  *)
(* in use, 0 for none.                                                     *)
(*                                                                         *)
(* A node is named by its call, and calls neighbours by theirs: there is   *)
(* one port.  No table is full.  INP3 routes, locked routes, applications' *)
(* entries and aliases are left out.                                       *)
(***************************************************************************)
EXTENDS Integers, Sequences

CONSTANTS
    Node, NoNode,
    OBSINIT,   \* the count a route gets when it is heard of
    OBSMIN,    \* routes with less are not broadcast
    MINQUAL,   \* routes heard of with less are ignored
    L3LIVES    \* hops a frame may make

ASSUME NoNodeAssumption  == NoNode \notin Node
ASSUME ObsAssumption     == OBSINIT \in 1 .. 127 /\ OBSMIN \in 0 .. 127
ASSUME QualityAssumption == MINQUAL \in 0 .. 255
ASSUME LivesAssumption   == L3LIVES \in 1 .. 255

Slot    == 1 .. 3
Quality == 0 .. 255
Route   == [via : Node \cup {NoNode}, quality : Quality, obs : 0 .. 255]
Routes  == [Slot -> Route]
Frame   == [op : {"CREQ", "CACK"}, src : Node, dest : Node, ttl : 1 .. 255]
Dest    == [listed : BOOLEAN, NRROUTE : Routes, DEST_ROUTE : 0 .. 3, DEST_Q : Seq(Frame)]

NoRoute == [via |-> NoNode, quality |-> 0, obs |-> 0]
NoDest  == [listed |-> FALSE, NRROUTE |-> [k \in Slot |-> NoRoute],
            DEST_ROUTE |-> 0, DEST_Q |-> << >>]

Locked(r) == r.obs >= 128

\* A link is none, being set up, or up.  It is untied when it is up and no route
\* has it as its NEIGHBOUR_LINK, which is so until a frame comes by it.
LinkState == {"none", "setup", "up", "untied"}
Tied == {"setup", "up"}

State ==
    [DESTS : [Node -> Dest], NEIGHBOURS : SUBSET Node,
     LINKS : [Node -> LinkState], TX_Q : [Node -> Seq(Frame)]]

Fresh ==
    [DESTS |-> [d \in Node |-> NoDest], NEIGHBOURS |-> {},
     LINKS |-> [m \in Node |-> "none"], TX_Q |-> [m \in Node |-> << >>]]

-----------------------------------------------------------------------------
(* The routes of one destination.                                          *)

Drop(r, k)   == [i \in Slot |-> IF i < k THEN r[i] ELSE IF i < 3 THEN r[i + 1] ELSE NoRoute]
MakeRoom(r, k) == [i \in Slot |-> IF i <= k THEN r[i] ELSE r[i - 1]]

Ahead(r, i, j) == r[i].quality > r[j].quality \/ (r[i].quality = r[j].quality /\ i < j)

\* A mutant: a route that has become better stays where it is.
SortForgotten(d) == d

\* Routes of the same quality keep their order.  When the best changes a choice of
\* route is forced, when only the others do it is not.
SORTROUTES(d) ==
    LET r == d.NRROUTE
        p == CHOOSE p \in [Slot -> Slot] : Ahead(r, p[1], p[2]) /\ Ahead(r, p[2], p[3])
    IN  [d EXCEPT !.NRROUTE    = [k \in Slot |-> r[p[k]]],
                  !.DEST_ROUTE = IF p[1] = 1 THEN @ ELSE 0]

UpdateThisEntry(d, k, qual) ==
    LET r == d.NRROUTE[k]
    IN  SORTROUTES([d EXCEPT !.NRROUTE[k] =
            [r EXCEPT !.obs     = IF Locked(r) THEN r.obs ELSE OBSINIT,
                      !.quality = IF qual = 0 THEN r.quality ELSE qual]])

First(S) == CHOOSE k \in S : \A j \in S : k <= j

\* A route heard of is refreshed, or takes the first slot that is spare or worse.
PROCROUTES(d, via, qual) ==
    LET r    == d.NRROUTE
        here == {k \in Slot : r[k].via = via}
        room == {k \in Slot : r[k].via = NoNode \/ r[k].quality < qual}
        at   == First(room)
    IN  IF here # {}
        THEN UpdateThisEntry(
                [d EXCEPT !.DEST_ROUTE = IF First(here) = 1 /\ @ > 1 THEN 1 ELSE @],
                First(here), qual)
        ELSE IF room = {} THEN d
        ELSE IF r[at].via = NoNode
        THEN UpdateThisEntry([d EXCEPT !.NRROUTE[at].via = via], at, qual)
        ELSE UpdateThisEntry(
                [d EXCEPT !.NRROUTE    = [MakeRoom(r, at) EXCEPT ![at].via = via],
                          !.DEST_ROUTE = IF at = 1 THEN 0 ELSE @],
                at, qual)

\* One pass of UPDATEDESTLIST over a destination; what loses its last route goes.
Older(obs) == IF obs = 0 \/ obs >= 128 THEN obs ELSE obs - 1

Age(d) ==
    [d EXCEPT !.NRROUTE =
        [k \in Slot |-> [d.NRROUTE[k] EXCEPT !.obs = Older(d.NRROUTE[k].obs)]]]

DropDead(d, k) ==
    IF d.NRROUTE[k].via # NoNode /\ d.NRROUTE[k].obs = 0
    THEN [d EXCEPT !.NRROUTE = Drop(@, k), !.DEST_ROUTE = 0] ELSE d

UpdateDest(d) ==
    LET aged == DropDead(DropDead(DropDead(Age(d), 3), 2), 1)
    IN  IF aged.NRROUTE[1].via = NoNode THEN NoDest ELSE aged

\* Counting down, never below 0; what is locked does not count.  A mutant does not
\* look.
LessUnguarded(i, n) == i - n
Less(i, n) == IF i >= 128 THEN i ELSE IF i < n THEN 0 ELSE i - n

\* The link to a neighbour has failed.  The first route loses two, but stays
\* locked if it is; the others lose one, and nobody looks whether they have any.
Decay(d, via) ==
    LET r      == d.NRROUTE
        at     == First({k \in Slot : r[k].via = via})
        obs    == IF at = 1 THEN Less(r[at].obs, 2) ELSE (r[at].obs - 1) % 256
    IN  IF \A k \in Slot : r[k].via # via THEN d
        ELSE IF obs # 0 THEN [d EXCEPT !.NRROUTE[at].obs = obs]
        ELSE IF at = 1 /\ r[2].via = NoNode THEN NoDest
        ELSE [d EXCEPT !.NRROUTE = Drop(@, at)]

\* A mutant: the frame that could not be sent is left.
TryNextKeeps(d, via) ==
    IF d.DEST_ROUTE # 0 /\ d.NRROUTE[d.DEST_ROUTE].via = via
    THEN [d EXCEPT !.NRROUTE[d.DEST_ROUTE].obs = Less(@, 1), !.DEST_ROUTE = 1] ELSE d

\* A destination whose route in use goes by the neighbour loses its first frame,
\* and is left to its best route: DEST_ROUTE = 7 is an assignment.
TryNext(d, via) ==
    IF d.DEST_ROUTE # 0 /\ d.NRROUTE[d.DEST_ROUTE].via = via
    THEN [d EXCEPT !.NRROUTE[d.DEST_ROUTE].obs = Less(@, 1),
                   !.DEST_Q = IF @ = << >> THEN @ ELSE Tail(@),
                   !.DEST_ROUTE = 1]
    ELSE d

-----------------------------------------------------------------------------
(* The handlers.  s is the node that runs one, m the neighbour concerned.  *)

DecayNETROMRoutes(s, m) == [s EXCEPT !.DESTS = [d \in Node |-> Decay(@[d], m)]]
L3TRYNEXTDEST(s, m)     == [s EXCEPT !.DESTS = [d \in Node |-> TryNext(@[d], m)]]
UPDATEDESTLIST(s)       == [s EXCEPT !.DESTS = [d \in Node |-> UpdateDest(@[d])]]

CLEAROUTLINK(s, m) == [s EXCEPT !.LINKS[m] = "none", !.TX_Q[m] = << >>]

L3CONNECTFAILED(s, m) == CLEAROUTLINK(L3TRYNEXTDEST(DecayNETROMRoutes(s, m), m), m)

L3LINKCLOSED(s, m, normal) ==
    CLEAROUTLINK(IF s.LINKS[m] \in Tied /\ ~normal THEN DecayNETROMRoutes(s, m) ELSE s, m)

\* The destinations with a route by m.  A mutant counts best routes only.
CountFirst(s, m) == {d \in Node : s.DESTS[d].NRROUTE[1].via = m}
COUNTNODES(s, m) == {d \in Node : \E k \in Slot : s.DESTS[d].NRROUTE[k].via = m}

TidyRoutes(s) ==
    [s EXCEPT !.NEIGHBOURS = {m \in @ : s.LINKS[m] \in Tied \/ COUNTNODES(s, m) # {}}]

\* What a NODES broadcast tells: destination, best neighbour and its quality.
NodesMessage(s) ==
    {[dest |-> d, via |-> s.DESTS[d].NRROUTE[1].via, quality |-> s.DESTS[d].NRROUTE[1].quality] :
        d \in {e \in Node : /\ s.DESTS[e].NRROUTE[1].quality >= 1
                            /\ s.DESTS[e].NRROUTE[1].obs >= OBSMIN}}

\* Mutants: the quality reported is taken as it is; no quality is too small.
NotScaled(qual, reported) == reported
AnyQuality(qual) == TRUE

Scaled(qual, reported) == (qual * reported + 128) \div 256
Practical(qual) == qual >= MINQUAL

\* self hears the broadcast of origin by a port of quality qual.  A route whose
\* best neighbour is self is a loop: it is refreshed, its quality left alone.
PROCESSNODEMESSAGE(s, self, origin, qual, message) ==
    LET Listed(d) == [s.DESTS[d] EXCEPT !.listed = TRUE]
        About(d) == {e \in message : e.dest = d /\ d # self /\ Practical(Scaled(qual, e.quality))}
        Heard(d, e) == PROCROUTES(Listed(d), origin,
                          IF e.via = self THEN 0 ELSE Scaled(qual, e.quality))
    IN  [s EXCEPT
           !.NEIGHBOURS = @ \cup {origin},
           !.DESTS = [d \in Node |->
              IF d = origin THEN PROCROUTES(Listed(d), origin, qual)
              ELSE IF About(d) = {} THEN @[d]
              ELSE Heard(d, CHOOSE e \in About(d) : TRUE)]]

\* A frame has come by a link no route is tied to.
CHECKNEIGHBOUR(s, m) ==
    [s EXCEPT !.NEIGHBOURS = @ \cup {m}, !.LINKS[m] = "up"]

\* A frame has come from src by neighbour m: src is listed, with no quality.
CHECKL3TABLES(s, m, src) ==
    IF s.DESTS[src].listed THEN s
    ELSE [s EXCEPT !.DESTS[src] =
            [PROCROUTES([@ EXCEPT !.listed = TRUE], m, 0) EXCEPT !.DEST_ROUTE = 1]]

\* The frames for d: sent, kept until the link to the neighbour is up, or dropped
\* with the destination when it has no route or there is no entry for a link.
L3BG(s, d, linksFull) ==
    LET dest == s.DESTS[d]
        use  == IF dest.DEST_ROUTE # 0 /\ dest.NRROUTE[dest.DEST_ROUTE].via # NoNode
                THEN dest.DEST_ROUTE ELSE 1
        m    == dest.NRROUTE[use].via
        sent == [dest EXCEPT !.DEST_Q = << >>, !.DEST_ROUTE = use]
        kept == [dest EXCEPT !.DEST_ROUTE = use]
    IN  IF m = NoNode THEN [s EXCEPT !.DESTS[d] = NoDest]
        ELSE CASE s.LINKS[m] \in {"up", "untied"} ->
                    [s EXCEPT !.LINKS[m] = "up", !.TX_Q[m] = s.TX_Q[m] \o dest.DEST_Q,
                              !.DESTS[d] = sent]
               [] s.LINKS[m] = "setup" -> [s EXCEPT !.DESTS[d] = kept]
               [] s.LINKS[m] = "none" /\ linksFull -> [s EXCEPT !.DESTS[d] = NoDest]
               [] s.LINKS[m] = "none" /\ ~linksFull ->
                    [s EXCEPT !.LINKS[m] = "setup", !.DESTS[d] = kept]

NextRoute(k) == IF k = 3 THEN 1 ELSE k + 1

\* Which route takes on a frame that came by m: not the way it came, if that is
\* known to be wrong, and another one when it was ours.
ChooseRoute(d, m, ours) ==
    LET k    == IF ours THEN NextRoute(d.DEST_ROUTE) ELSE d.DEST_ROUTE
        back == d.NRROUTE[IF k = 0 THEN 1 ELSE k].via = m
    IN  [d EXCEPT !.DEST_ROUTE = CASE ~back -> k
                                   [] back /\ k = 0 -> 2
                                   [] OTHER -> NextRoute(k)]

ForUs(s, self, m, f) ==
    IF f.op = "CREQ"
    THEN [CHECKL3TABLES(s, m, f.src) EXCEPT
            !.TX_Q[m] = Append(@, [op |-> "CACK", src |-> self, dest |-> f.src, ttl |-> L3LIVES])]
    ELSE s

NETROMMSG(t, self, m, f) ==
    LET s    == CHECKNEIGHBOUR(t, m)
        ours == f.src = self
        d    == s.DESTS[f.dest]
    IN  IF f.dest = self THEN ForUs(s, self, m, f)
        ELSE IF \/ f.ttl = 1 \/ ~d.listed
                \/ ours /\ d.NRROUTE[2].via = NoNode
        THEN s
        ELSE LET routed == [s EXCEPT !.DESTS[f.dest] = ChooseRoute(@, m, ours)]
                 known  == CHECKL3TABLES(routed, m, f.src)
             IN  [known EXCEPT !.DESTS[f.dest].DEST_Q = Append(@, [f EXCEPT !.ttl = @ - 1])]
=============================================================================
