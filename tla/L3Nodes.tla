------------------------------ MODULE L3Nodes ------------------------------
(***************************************************************************)
(* A network of nodes: they tell each other what they know by NODES        *)
(* broadcasts, forget what they no longer hear of, and pass frames on by   *)
(* links that are set up when there is something to send.                  *)
(*                                                                         *)
(* L3INTERVAL is the same at every node, so each broadcasts once before    *)
(* any does so twice: due holds those that have yet to in this round.  A   *)
(* broadcast and its reception are one step, in which some neighbours may  *)
(* miss it.  The links are the data link of L2Link, reduced to what the    *)
(* network layer is told of them.                                          *)
(***************************************************************************)
EXTENDS L3Tables, FiniteSets

CONSTANTS
    PORTQUALITY,   \* [Node -> [Node -> Quality]]: 0 where neither hears the other
    Troubles,      \* what may go wrong: "miss", "link", "stop", "idle", "full"
    MaxTrouble,    \* how often, of all of them
    Calls,         \* from which node to which circuits are asked for
    MaxFrame,      \* how often
    SETTLED        \* the rounds after which the tables are expected to be right

ASSUME NodeAssumption == IsFiniteSet(Node)
ASSUME PortAssumption ==
    /\ PORTQUALITY \in [Node -> [Node -> Quality]]
    /\ \A n, m \in Node : /\ PORTQUALITY[n][n] = 0
                          /\ (PORTQUALITY[n][m] = 0) = (PORTQUALITY[m][n] = 0)
ASSUME BoundAssumption ==
    Calls \subseteq Node \X Node /\ MaxTrouble \in Nat /\ MaxFrame \in Nat /\ SETTLED \in Nat

VARIABLES
    node,     \* the tables of each node
    running,  \* the nodes that are on the air
    due,      \* those that have yet to broadcast in this round
    used,     \* the frames and troubles there have been
    quiet     \* history: rounds that have ended, up to SETTLED, since the last of
              \* them, and with no frame on its way

vars == << node, running, due, used, quiet >>

Hears(n, m) == PORTQUALITY[n][m] # 0

TypeOK ==
    /\ node \in [Node -> State]
    /\ running \subseteq Node /\ due \subseteq running
    /\ used \in [frame : 0 .. MaxFrame, trouble : 0 .. MaxTrouble]
    /\ quiet \in 0 .. SETTLED

Init ==
    /\ node = [n \in Node |-> Fresh]
    /\ running = Node /\ due = Node
    /\ used = [frame |-> 0, trouble |-> 0] /\ quiet = 0

Trouble(kind) ==
    /\ kind \in Troubles /\ used.trouble < MaxTrouble
    /\ used' = [used EXCEPT !.trouble = @ + 1] /\ quiet' = 0

NoFrames ==
    \A n, m \in Node : node[n].TX_Q[m] = << >> /\ node[n].DESTS[m].DEST_Q = << >>

At(n, s) == node' = [node EXCEPT ![n] = s]

-----------------------------------------------------------------------------
(* What a node does.                                                       *)

\* One minute of L3TimerProc, with the broadcast not due.
TidyMinute(n) ==
    /\ n \in running /\ TidyRoutes(node[n]) # node[n]
    /\ At(n, TidyRoutes(node[n]))
    /\ UNCHANGED << running, due, used, quiet >>

\* One with the broadcast due.
Broadcast(n, missed) ==
    /\ n \in due
    /\ \E sent \in {UPDATEDESTLIST(node[n])} : \E list \in {NodesMessage(sent)} :
          node' = [m \in Node |->
             IF m = n THEN TidyRoutes(sent)
             ELSE IF m \in running /\ Hears(m, n) /\ m \notin missed
             THEN PROCESSNODEMESSAGE(node[m], m, n, PORTQUALITY[m][n], list)
             ELSE node[m]]
    /\ due' = IF due = {n} THEN running ELSE due \ {n}
    /\ UNCHANGED running

RunL3Timer(n) ==
    /\ Broadcast(n, {})
    /\ quiet' = IF due # {n} THEN quiet
                ELSE IF ~NoFrames THEN 0
                ELSE IF quiet = SETTLED THEN quiet ELSE quiet + 1
    /\ UNCHANGED used

MissBroadcast(n, m) ==
    /\ m \in running /\ Hears(m, n)
    /\ Trouble("miss") /\ Broadcast(n, {m})

RunL3BG(n, d) ==
    /\ n \in running /\ node[n].DESTS[d].DEST_Q # << >>
    /\ \E s \in {L3BG(node[n], d, FALSE)} : s # node[n] /\ At(n, s)
    /\ UNCHANGED << running, due, used, quiet >>

\* There is no entry for a link: what there is to send goes, and the destination.
LinksFull(n, d) ==
    /\ Trouble("full")
    /\ n \in running /\ node[n].DESTS[d].DEST_Q # << >>
    /\ L3BG(node[n], d, TRUE) # L3BG(node[n], d, FALSE)
    /\ At(n, L3BG(node[n], d, TRUE))
    /\ UNCHANGED << running, due >>

\* A user asks for a circuit to a node that is listed (SENDL4CONNECT).
Connect(n, d) ==
    /\ used.frame < MaxFrame /\ used' = [used EXCEPT !.frame = @ + 1] /\ quiet' = 0
    /\ n \in running /\ n # d /\ << n, d >> \in Calls /\ node[n].DESTS[d].listed
    /\ At(n, [node[n] EXCEPT !.DESTS[d].DEST_Q =
                 Append(@, [op |-> "CREQ", src |-> n, dest |-> d, ttl |-> L3LIVES])])
    /\ UNCHANGED << running, due >>

Open(n, m) == node[n].LINKS[m] \in {"up", "untied"}

ReceiveFrame(n, m) ==
    LET q == node[m].TX_Q[n]
    IN  /\ n # m /\ {n, m} \subseteq running /\ Open(n, m) /\ Open(m, n) /\ q # << >>
        /\ \E s \in {NETROMMSG(node[n], n, m, Head(q))} :
              node' = [node EXCEPT ![n] = s, ![m].TX_Q[n] = Tail(@)]
        /\ UNCHANGED << running, due, used, quiet >>

-----------------------------------------------------------------------------
(* What the data link tells.                                               *)

\* What the peer makes of SABM: a link it did not have, its own call crossing
\* this one, or a link it thought up, repeated or reset.
Answered(s, n) ==
    CASE s.LINKS[n] = "none"   -> {[s EXCEPT !.LINKS[n] = "untied"]}
      [] s.LINKS[n] = "setup"  -> {[s EXCEPT !.LINKS[n] = "up"]}
      [] s.LINKS[n] = "untied" -> {s}
      [] OTHER -> {s, [L3LINKCLOSED(s, n, TRUE) EXCEPT !.LINKS[n] = "untied"]}

SetUp(n, m) ==
    /\ {n, m} \subseteq running /\ Hears(n, m) /\ node[n].LINKS[m] = "setup"
    /\ \E s \in Answered(node[m], n) :
          node' = [node EXCEPT ![n].LINKS[m] = "up", ![m] = s]
    /\ UNCHANGED << running, due, used, quiet >>

\* The peer is not there, or the link was not good enough this time.
NoAnswer(n, m) ==
    \/ m \notin running /\ UNCHANGED << used, quiet >>
    \/ Trouble("link")

SetUpFails(n, m) ==
    /\ n \in running /\ node[n].LINKS[m] = "setup" /\ NoAnswer(n, m)
    /\ At(n, L3CONNECTFAILED(node[n], m))
    /\ UNCHANGED << running, due >>

LinkFails(n, m) ==
    /\ n \in running /\ Open(n, m) /\ NoAnswer(n, m)
    /\ At(n, L3LINKCLOSED(node[n], m, FALSE))
    /\ UNCHANGED << running, due >>

\* The peer is there and does not know the link: it answers DM.
LinkGone(n, m) ==
    /\ {n, m} \subseteq running /\ Open(n, m) /\ node[m].LINKS[n] = "none"
    /\ At(n, L3LINKCLOSED(node[n], m, TRUE))
    /\ UNCHANGED << running, due, used, quiet >>

\* A link that has nothing to carry is closed after a while.
LinkIdle(n, m) ==
    /\ Trouble("idle")
    /\ n # m /\ {n, m} \subseteq running /\ Open(n, m) /\ Open(m, n)
    /\ node[n].TX_Q[m] = << >> /\ node[m].TX_Q[n] = << >>
    /\ node' = [node EXCEPT ![n] = L3LINKCLOSED(@, m, TRUE), ![m] = L3LINKCLOSED(@, n, TRUE)]
    /\ UNCHANGED << running, due >>

\* A node goes off the air; it comes back with empty tables.
Stop(n) ==
    /\ Trouble("stop") /\ n \in running
    /\ node' = [node EXCEPT ![n] = Fresh]
    /\ running' = running \ {n}
    /\ due' = IF due = {n} THEN running \ {n} ELSE due \ {n}

Start(n) ==
    /\ n \notin running
    /\ running' = running \cup {n} /\ quiet' = 0
    /\ UNCHANGED << node, due, used >>

-----------------------------------------------------------------------------
Next ==
    \/ \E n \in Node : RunL3Timer(n) \/ TidyMinute(n) \/ Stop(n) \/ Start(n)
    \/ \E n, m \in Node :
          \/ MissBroadcast(n, m) \/ ReceiveFrame(n, m)
          \/ SetUp(n, m) \/ SetUpFails(n, m) \/ LinkFails(n, m)
          \/ LinkGone(n, m) \/ LinkIdle(n, m)
    \/ \E n, d \in Node : Connect(n, d) \/ RunL3BG(n, d) \/ LinksFull(n, d)

Spec == Init /\ [][Next]_vars

\* The background passes run, frames arrive, and the data link ends a set-up and
\* notices a peer that is gone, having its own retries: neither of the three stops
\* everywhere while there is some of it to do.
LinkMoves(n, m) ==
    \/ SetUp(n, m) \/ LinkGone(n, m)
    \/ m \notin running /\ (SetUpFails(n, m) \/ LinkFails(n, m))

Fairness ==
    /\ WF_vars(\E n, d \in Node : RunL3BG(n, d))
    /\ WF_vars(\E n, m \in Node : ReceiveFrame(n, m))
    /\ WF_vars(\E n, m \in Node : LinkMoves(n, m))

FairSpec == Spec /\ Fairness

-----------------------------------------------------------------------------
(* Properties.                                                             *)

RoutesOf(n, d) == {k \in Slot : node[n].DESTS[d].NRROUTE[k].via # NoNode}

\* The routes to a destination stay packed, best first, one for each neighbour,
\* whatever order they are heard of, fail and expire in: the first is what is
\* broadcast and what ACTIVATE_DEST tries first.
RoutesInOrder ==
    \A n, d \in Node :
        LET r == node[n].DESTS[d].NRROUTE
        IN  \A i, j \in Slot : i < j /\ j \in RoutesOf(n, d) =>
               /\ i \in RoutesOf(n, d)
               /\ r[i].via # r[j].via /\ r[i].quality >= r[j].quality

\* A route, and a link, goes by a neighbour that is in the table: TidyRoutes never
\* zeroes an entry that ROUT_NEIGHBOUR or LINK->NEIGHBOUR still points to.
NeighboursListed ==
    \A n \in Node :
        /\ \A d \in Node : \A k \in RoutesOf(n, d) :
              node[n].DESTS[d].NRROUTE[k].via \in node[n].NEIGHBOURS
        /\ \A m \in Node : node[n].LINKS[m] \in Tied => m \in node[n].NEIGHBOURS

\* A route whose count has come to 0 in use is deleted by the next update, unless
\* it is heard of before (L3TRYNEXTDEST: "IF ALREADY ZERO - WILL BE DELETED BY NEXT
\* NODES UPDATE").
ZeroIsDeleted ==
    [][\A n, d \in Node : \A k, l \in Slot :
          LET r == node[n].DESTS[d].NRROUTE[k]
              t == node'[n].DESTS[d].NRROUTE[l]
          IN  r.via # NoNode /\ r.obs = 0 /\ t.via = r.via => t.obs \in {0, OBSINIT}]_vars

\* Paths are told from their end, as news of it travel: p[1] is the destination.
Paths ==
    {p \in UNION {[1 .. k -> Node] : k \in 2 .. Cardinality(Node)} :
        \A i, j \in DOMAIN p : p[i] = p[j] => i = j}

\* The quality of path p at its i-th node, scaled at each hop.
QualityAlong(p) ==
    LET q[i \in 2 .. Len(p)] ==
            IF i = 2 THEN PORTQUALITY[p[2]][p[1]]
            ELSE (PORTQUALITY[p[i]][p[i - 1]] * q[i - 1] + 128) \div 256
    IN  q

Along == [p \in Paths |-> QualityAlong(p)]

\* There is a path from n to d that is as good as q.
Reaches(n, d, q) ==
    \E p \in Paths : \E i \in 2 .. Len(p) : p[1] = d /\ p[i] = n /\ q <= Along[p][i]

\* What n may think of a route to d.
Attainable ==
    [n \in Node |-> [d \in Node |-> {q \in Quality : n = d \/ q = 0 \/ Reaches(n, d, q)}]]

\* No route is better than a path there is, without a node twice: routes that are
\* reflected to where they came from do not count up (PROCESSNODEMESSAGE).
NoBetterThanPaths ==
    \A n, d \in Node : \A k \in RoutesOf(n, d) :
        node[n].DESTS[d].NRROUTE[k].quality \in Attainable[n][d]

\* SETTLED rounds after the last trouble every node on the air has in its table
\* each neighbour that is there, by a route as good as its port, and no node that
\* is not: one that goes off the air is forgotten (UPDATEDESTLIST: "REMOVE 'DEAD'
\* ENTRIES"), one that comes back is found, and what else went wrong is over.
Settles ==
    quiet = SETTLED =>
        \A n \in running : \A d \in Node \ {n} :
            IF d \notin running THEN ~node[n].DESTS[d].listed
            ELSE Hears(n, d) => node[n].DESTS[d].NRROUTE[1].quality >= PORTQUALITY[n][d]

\* No frame goes round for ever, or waits for ever: it arrives or is dropped.
FramesEnd == []<>NoFrames
=============================================================================
