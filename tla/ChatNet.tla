------------------------------ MODULE ChatNet ------------------------------
(***************************************************************************)
(* Chat nodes that link to their partners while users come and go: calls   *)
(* that cross, links that break, nodes that start again.                   *)
(*                                                                         *)
(* The connections are the node's own (level 4 or 2): lines arrive in      *)
(* order or not at all, and each end is told, some time, that one is over. *)
(***************************************************************************)
EXTENDS ChatNode

CONSTANTS
    Partner,      \* [Node -> SUBSET Node]: the nodes each is configured to link with
    Home,         \* [User -> SUBSET Node]: where each may log in
    Troubles,     \* what may go wrong: "nocall", "break", "restart"
    MaxTrouble,   \* how often, of all of them
    MaxCall,      \* how often nodes call their partners
    MaxLogin,     \* how often users log in
    MaxTopic      \* how often they change topic

ASSUME NetAssumption ==
    /\ Partner \in [Node -> SUBSET Node] /\ Home \in [User -> SUBSET Node]
    /\ \A n, m \in Node : n \in Partner[m] => m \in Partner[n] /\ m # n
    /\ MaxTrouble \in Nat /\ MaxCall \in Nat /\ MaxLogin \in Nat /\ MaxTopic \in Nat

VARIABLES
    chat,      \* what each node knows
    conn,      \* each connection: who called whom, and what has become of it
    wire,      \* the packets on their way to each end
    told,      \* the ends that are yet to be told that it is over
    used       \* the calls, logins, changes of topic and troubles there have been

vars == << chat, conn, wire, told, used >>

Unused == [is |-> "unused"]
End(k) == {conn[k].from, conn[k].to}
Other(k, n) == IF n = conn[k].from THEN conn[k].to ELSE conn[k].from
Open == {k \in Conn : conn[k].is = "open"}

Init ==
    /\ chat = [n \in Node |-> Fresh(n)]
    /\ conn = [k \in Conn |-> Unused]
    /\ wire = [k \in Conn |-> [n \in Node |-> << >>]]
    /\ told = [k \in Conn |-> {}]
    /\ used = [call |-> 0, login |-> 0, topic |-> 0, trouble |-> 0]

Spend(what, bound) == used[what] < bound /\ used' = [used EXCEPT ![what] = @ + 1]
Trouble(kind) == kind \in Troubles /\ Spend("trouble", MaxTrouble)

\* Connections that end with this step, and the ends still to be told of each.
\* With none left, the number is free.
Ends(K, ends) ==
    /\ told' = [k \in Conn |-> IF k \in K THEN ends[k] ELSE told[k]]
    /\ conn' = [k \in Conn |-> IF k \notin K THEN conn[k]
                               ELSE IF ends[k] = {} THEN Unused ELSE [conn[k] EXCEPT !.is = "over"]]

\* A handler has run at n: what it sent goes, what it closed is over.
Commit(n, s, sent) ==
    LET closed == {k \in s.shut : conn[k].is \in {"calling", "open"}}
        Begun(k) == {m \in End(k) : IF m = n THEN s.circuit[k].Active ELSE chat[m].circuit[k].Active}
    IN  /\ chat' = [chat EXCEPT ![n] = [s EXCEPT !.out = Fresh(n).out, !.shut = {}]]
        /\ Ends(closed, [k \in closed |-> Begun(k)])
        /\ wire' = [k \in Conn |->
              IF k \in closed THEN [m \in Node |-> << >>]
              ELSE IF k \in Open /\ s.out[k] # << >>
              THEN [sent[k] EXCEPT ![Other(k, n)] = Append(@, s.out[k])] ELSE sent[k]]

-----------------------------------------------------------------------------
(* Users.                                                                  *)

Login(n, u) ==
    /\ n \in Home[u] /\ OfCall(chat[n], u) = {}
    /\ Commit(n, rtloginu(chat[n], u), wire)
    /\ Spend("login", MaxLogin)

Logout(n, r) ==
    /\ r \in OnCircuit(chat[n], Local)
    /\ Commit(n, logout(chat[n], r), wire) /\ UNCHANGED used

ChangeTopic(n, r, t) ==
    /\ r \in OnCircuit(chat[n], Local) /\ r.topic # t
    /\ Commit(n, TopicCommand(chat[n], r, t), wire)
    /\ Spend("topic", MaxTopic)

-----------------------------------------------------------------------------
(* Links.                                                                  *)

Free == {k \in Conn : conn[k] = Unused}
First(K) == CHOOSE k \in K : \A j \in K : k <= j

\* ChatTimer, with users somewhere.
MakeLinks(n, p) ==
    /\ chat[n].user # {} /\ p \in Partner[n]
    /\ chat[n].flags[p] = "nil" /\ ~node_find(chat[n], p)
    /\ Free # {}
    /\ chat' = [chat EXCEPT ![n] = makelinks(@, First(Free), p)]
    /\ conn' = [conn EXCEPT ![First(Free)] = [is |-> "calling", from |-> n, to |-> p]]
    /\ Spend("call", MaxCall) /\ UNCHANGED << wire, told >>

\* ChatTimer every ten minutes, with users nowhere.
CloseLinks(n) ==
    /\ chat[n].user = {} /\ node_close(chat[n]).shut # {}
    /\ \E k \in node_close(chat[n]).shut : conn[k].is # "over"
    /\ Commit(n, node_close(chat[n]), wire) /\ UNCHANGED used

\* The called node waits for *RTL, which the caller sends as soon as it is told.
ConnectOk(k) ==
    /\ conn[k].is = "calling"
    /\ conn' = [conn EXCEPT ![k].is = "open"]
    /\ chat' = [chat EXCEPT ![conn[k].to].circuit[k] = Circuit("linkwait", conn[k].from)]
    /\ wire' = [wire EXCEPT ![k][conn[k].to] =
                   << << Line("RTL", conn[k].from, conn[k].to, deftopic) >> >>]
    /\ UNCHANGED << told, used >>

\* BUSY, FAILURE, SORRY: the link is dropped, and then the connection to the own node.
ConnectFails(k) ==
    /\ conn[k].is = "calling" /\ Trouble("nocall")
    /\ Commit(conn[k].from, Disconnect(link_drop(chat[conn[k].from], k), k), wire)

Receive(k, n) ==
    /\ k \in Open /\ n \in End(k) /\ wire[k][n] # << >>
    /\ Commit(n, ChatDoReceivedData(chat[n], k, Head(wire[k][n])),
              [wire EXCEPT ![k][n] = Tail(@)])
    /\ UNCHANGED used

Disconnected(k, n) ==
    /\ n \in told[k]
    /\ \E s \in {ChatDisconnected(chat[n], k)} :
          /\ chat' = [chat EXCEPT ![n] = [s EXCEPT !.out = Fresh(n).out]]
          /\ wire' = [c \in Conn |->
                IF c \in Open /\ s.out[c] # << >>
                THEN [wire[c] EXCEPT ![Other(c, n)] = Append(@, s.out[c])] ELSE wire[c]]
    /\ Ends({k}, [c \in {k} |-> told[c] \ {n}]) /\ UNCHANGED used

\* The path between the nodes fails.
Break(k) ==
    /\ k \in Open /\ Trouble("break")
    /\ Ends({k}, [c \in {k} |-> {n \in End(c) : chat[n].circuit[c].Active}])
    /\ wire' = [wire EXCEPT ![k] = [n \in Node |-> << >>]]
    /\ UNCHANGED chat

\* The program starts again: nothing is kept.
Restart(n) ==
    /\ Trouble("restart") /\ chat[n] # Fresh(n)
    /\ LET K == {k \in Conn : conn[k] # Unused /\ n \in End(k)}
           Left(k) == IF conn[k].is = "over" THEN told[k] \ {n}
                      ELSE {m \in End(k) \ {n} : chat[m].circuit[k].Active}
       IN  /\ Ends(K, [k \in K |-> Left(k)])
           /\ wire' = [k \in Conn |-> IF k \in K THEN [m \in Node |-> << >>] ELSE wire[k]]
    /\ chat' = [chat EXCEPT ![n] = Fresh(n)]

-----------------------------------------------------------------------------
LinksMove ==
    \/ \E k \in Conn : ConnectOk(k)
    \/ \E k \in Conn, n \in Node : Receive(k, n) \/ Disconnected(k, n)

Next ==
    \/ \E n \in Node, u \in User : Login(n, u)
    \/ \E n \in Node : \E r \in chat[n].user : Logout(n, r)
    \/ \E n \in Node : \E r \in chat[n].user, t \in Topic : ChangeTopic(n, r, t)
    \/ \E n, p \in Node : MakeLinks(n, p)
    \/ \E n \in Node : CloseLinks(n) \/ Restart(n)
    \/ \E k \in Conn : ConnectFails(k) \/ Break(k)
    \/ LinksMove

Spec == Init /\ [][Next]_vars

-----------------------------------------------------------------------------
(* Properties.                                                             *)

\* The types of the tables.  Counts never are negative: a record is not freed twice.
TypeOK ==
    /\ \A n \in Node :
          /\ chat[n].me = n /\ chat[n].out = Fresh(n).out /\ chat[n].shut = {}
          /\ chat[n].flags \in [Node -> {"nil", "linkini", "linked"}]
          /\ chat[n].node \in [Node -> Nat]
          /\ \A k \in Conn : LET c == chat[n].circuit[k]
                             IN  /\ c.rtcflags \in {"nil", "linkini", "linkwait", "linked"}
                                 /\ c.refcnt \in Nat /\ c.hnode \in [Node -> Nat]
    /\ told \in [Conn -> SUBSET Node]
    /\ used \in [call : 0 .. MaxCall, login : 0 .. MaxLogin, topic : 0 .. MaxTopic,
                 trouble : 0 .. MaxTrouble]

Sum(f) == FoldSet(LAMBDA k, x : f[k] + x, 0, Conn)

\* The counts by which records are freed (node_dec) and texts are sent on
\* (ProcessChatLine) are the references there are.
CountsMatch ==
    \A n \in Node :
       LET s == chat[n]
       IN  /\ \A k \in Conn : s.circuit[k].refcnt = Cardinality(OnCircuit(s, k))
           /\ \A m \in Node :
                 s.node[m] = Sum([k \in Conn |-> s.circuit[k].hnode[m]])
                             + Cardinality({r \in OnCircuit(s, Local) : r.node = m})

\* The nodes that are reached from m by its partner p.  With no ring, each is reached
\* by one partner of m only: then the counts match (ChatNetProofs).
Side(m, p) ==
    {n \in Node : \A N \in SUBSET Node :
        p \in N /\ (\A a \in N : Partner[a] \ {m} \subseteq N) => n \in N}
Forest == \A m \in Node : \A p, q \in Partner[m] : p # q => q \notin Side(m, p)

\* A link said to be set up or linked has a circuit (makelinks leaves it alone until then).
FlagsMatch ==
    \A n, p \in Node : chat[n].flags[p] # "nil" =>
       \E k \in Listed(chat[n]) : chat[n].circuit[k].link = p

\* Nothing is on its way, being set up or yet to be told.
Quiet ==
    /\ \A k \in Conn : told[k] = {} /\ conn[k].is # "calling" /\ wire[k] = [n \in Node |-> << >>]

Joined(n, m) == \E k \in Open : End(k) = {n, m}
Around(N) == N \cup {m \in Node : \E n \in N : Joined(n, m)}
Reach(n) == {m \in Node : \A N \in SUBSET Node : n \in N /\ Around(N) \subseteq N => m \in N}
Here(n) == {[call |-> r.call, node |-> n] : r \in OnCircuit(chat[n], Local)}

Shown(n) == {[call |-> r.call, node |-> r.node] : r \in chat[n].user}

\* At rest each node knows the nodes it can reach, no others, and every user at them.
KnowsReached ==
    Quiet => \A n \in Node :
       /\ {m \in Node : node_find(chat[n], m)} \ {n} = Reach(n) \ {n}
       /\ UNION {Here(m) : m \in Reach(n)} \subseteq Shown(n)

\* At rest no user is shown who is not logged in at a node that can be reached: no
\* leave is lost, and none taken for another's.
NoGhosts == Quiet => \A n \in Node : Shown(n) \subseteq UNION {Here(m) : m \in Reach(n)}

\* At rest a node knows the topics of the users of its partners, by which it picks
\* the links a text goes to.
KnowsTopics ==
    Quiet => \A n, m \in Node : Joined(n, m) =>
       \A r \in OnCircuit(chat[m], Local) : \E x \in user_find(chat[n], r.call, m) : x.topic = r.topic
=============================================================================
