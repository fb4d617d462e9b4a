------------------------------ MODULE ChatNode ------------------------------
(***************************************************************************)
(* What one chat node (HanksRT.c) knows, and what it does with it: the     *)
(* nodes and users it has heard of, counted per circuit, and the handlers  *)
(* that keep them in step with its partners.                               *)
(*                                                                         *)
(* A circuit is numbered by the connection it is one end of.  What a       *)
(* handler sends and which connections it closes are left in out and shut, *)
(* for the network to take up.  A node or user record is its call: the C   *)
(* code compares addresses, and frees a record only when nothing points to *)
(* it.  The counts of a topic and of a topic on a circuit always are those *)
(* of the users in it, and are read off the users.                         *)
(***************************************************************************)
EXTENDS Integers, SequencesExt

CONSTANTS
    Node,
    User,
    Topic,
    deftopic,     \* the one a user starts in
    MaxConn       \* how many connections there may be

Conn == 1 .. MaxConn
Local == 0        \* the circuit of a user of this node

ASSUME ChatAssumption == deftopic \in Topic /\ MaxConn \in Nat /\ IsFiniteSet(Node)

Nobody == [n \in Node |-> 0]

(* A circuit: what it is used for, the partner once that is known, the     *)
(* users on it, and the references to each node reached on it.             *)
NoCircuit == [Active |-> FALSE, rtcflags |-> "nil", refcnt |-> 0, hnode |-> Nobody]
Circuit(flags, link) ==
    [Active |-> TRUE, rtcflags |-> flags, link |-> link, refcnt |-> 0, hnode |-> Nobody]

Fresh(me) ==
    [me |-> me,
     flags |-> [n \in Node |-> "nil"],           \* of the link to each partner
     circuit |-> [k \in Conn |-> NoCircuit],
     node |-> Nobody,                            \* references to each node
     user |-> {},
     out |-> [k \in Conn |-> << >>],
     shut |-> {}]

node_find(s, n) == s.node[n] # 0
cn_find(s, k, n) == s.circuit[k].hnode[n] # 0
OfCall(s, u) == {r \in s.user : r.call = u}
user_find(s, u, n) == {r \in s.user : r.call = u /\ r.node = n}
OnCircuit(s, k) == {r \in s.user : r.circuit = k}

Linked(s) == {k \in Conn : s.circuit[k].rtcflags = "linked"}
Listed(s) == {k \in Conn : s.circuit[k].rtcflags \in {"linkini", "linked"}}

Send(s, K, line) ==
    [s EXCEPT !.out = [k \in Conn |-> IF k \in K THEN Append(@[k], line) ELSE @[k]]]
Disconnect(s, k) == [s EXCEPT !.shut = @ \cup {k}]

Line(kind, n, about, topic) == [kind |-> kind, node |-> n, about |-> about, topic |-> topic]
NodeLine(s, kind, n) == Line(kind, s.me, n, deftopic)
UserLine(kind, r) == Line(kind, r.node, r.call, deftopic)
TopicLine(s, r) == Line("topic", s.me, r.call, r.topic)

-----------------------------------------------------------------------------
(* The counts.                                                             *)

\* The last reference goes only if no user and no linked circuit has the node.
node_dec(s, n) ==
    IF s.node[n] # 1 THEN [s EXCEPT !.node[n] = @ - 1]
    ELSE [s EXCEPT !.node[n] =
             Cardinality({r \in s.user : r.node = n})
             + Cardinality({k \in Linked(s) : cn_find(s, k, n)})]

cn_inc(s, k, n) == [s EXCEPT !.node[n] = @ + 1, !.circuit[k].hnode[n] = @ + 1]

cn_dec(s, k, n) ==
    IF cn_find(s, k, n) THEN [s EXCEPT !.circuit[k].hnode[n] = @ - 1] ELSE s

(* Who is told: the linked circuits on which the node is not reached.      *)
Without(s, n) == {k \in Linked(s) : ~cn_find(s, k, n)}
node_tell(s, n, kind) == Send(s, Without(s, n), NodeLine(s, kind, n))
user_tell(s, r, kind) == Send(s, Without(s, r.node), UserLine(kind, r))
echo(s, k, line) == Send(s, Without(s, line.node) \ {k}, line)

\* With its last circuit gone, and no user of its own, the node forgets all nodes.
circuit_free(s, k) ==
    LET gone == [s EXCEPT !.circuit[k].hnode = Nobody, !.circuit[k].rtcflags = "nil"]
    IN  IF Listed(gone) = {} /\ OnCircuit(gone, Local) = {}
        THEN [gone EXCEPT !.node = Nobody] ELSE gone

-----------------------------------------------------------------------------
(* Users.                                                                  *)

user_join(s, k, u, n) ==
    [s EXCEPT !.user = @ \cup {[call |-> u, node |-> n, circuit |-> k, topic |-> deftopic]}]

\* A user of this node logs in, who is known nowhere.
rtloginu(s, u) ==
    LET t == user_join([s EXCEPT !.node[s.me] = @ + 1], Local, u, s.me)
    IN  user_tell(t, [call |-> u, node |-> s.me], "join")

logout(s, r) ==
    LET t == node_dec([user_tell(s, r, "leave") EXCEPT !.user = @ \ {r}], s.me)
    IN  IF Listed(t) = {} /\ OnCircuit(t, Local) = {} THEN [t EXCEPT !.node = Nobody] ELSE t

topic_chg(s, r, t) == [s EXCEPT !.user = (@ \ {r}) \cup {[r EXCEPT !.topic = t]}]

\* The command /T: all links are told.
TopicCommand(s, r, t) == Send(topic_chg(s, r, t), Linked(s), TopicLine(s, [r EXCEPT !.topic = t]))

-----------------------------------------------------------------------------
(* Links.                                                                  *)

\* A new partner is told of the nodes and users of the other links, and of the
\* users' topics; the other links are told of it.
state_tell_NoTopics(s, k) ==             \* a mutant: users without their topics
    LET p == s.circuit[k].link
        a == node_tell(cn_inc(s, k, p), p, "link")
        b == FoldSet(LAMBDA n, t : Send(t, {k} \cap Without(t, n), NodeLine(t, "link", n)), a,
                     {n \in Node : node_find(a, n) /\ n # s.me})
    IN  FoldSet(LAMBDA r, t : Send(t, {k} \cap Without(t, r.node), UserLine("join", r)), b, s.user)
state_tell(s, k) ==
    LET p == s.circuit[k].link
        a == node_tell(cn_inc(s, k, p), p, "link")
        b == FoldSet(LAMBDA n, t : Send(t, {k} \cap Without(t, n), NodeLine(t, "link", n)), a,
                     {n \in Node : node_find(a, n) /\ n # s.me})
    IN  FoldSet(LAMBDA r, t : Send(Send(t, {k} \cap Without(t, r.node), UserLine("join", r)),
                                   {k}, TopicLine(t, r)), b, s.user)

\* The users and then the nodes of a link go, and the other links are told.
DropUser_Unsaid(s, r) ==                 \* a mutant: the other links are not told
    node_dec([s EXCEPT !.user = @ \ {r}, !.circuit[r.circuit].refcnt = @ - 1], r.node)
DropUser(s, r) ==
    node_dec([user_tell(s, r, "leave") EXCEPT !.user = @ \ {r},
                                              !.circuit[r.circuit].refcnt = @ - 1], r.node)
DropNode_Unsaid(s, n) == node_dec(s, n)  \* a mutant: the other links are not told
DropNode(s, n) == node_dec(node_tell(s, n, "unlink"), n)

link_drop_KeepsFlags(s, k) ==            \* a mutant: the link stays marked
    LET a == [s EXCEPT !.circuit[k].rtcflags = "nil"]
        b == FoldSet(LAMBDA r, t : DropUser(t, r), a, OnCircuit(a, k))
        c == FoldSet(LAMBDA n, t : DropNode(t, n), b, {n \in Node : cn_find(b, k, n)})
    IN  circuit_free(c, k)
link_drop(s, k) ==
    LET a == [s EXCEPT !.flags[s.circuit[k].link] = "nil", !.circuit[k].rtcflags = "nil"]
        b == FoldSet(LAMBDA r, t : DropUser(t, r), a, OnCircuit(a, k))
        c == FoldSet(LAMBDA n, t : DropNode(t, n), b, {n \in Node : cn_find(b, k, n)})
    IN  circuit_free(c, k)

\* An older link with the same partner is closed without its end being told.
CloseOld(s, p) ==
    LET old == {k \in Listed(s) : s.circuit[k].link = p}
    IN  IF s.flags[p] = "nil" \/ old = {} THEN s
        ELSE LET k == CHOOSE c \in old : TRUE
             IN  [link_drop(Disconnect(s, k), k) EXCEPT !.circuit[k] = NoCircuit]

\* *RTL has come from a partner: refused if that is known, so as not to make a loop.
rtloginl(s, k, p) ==
    IF node_find(s, p) THEN Disconnect(s, k)
    ELSE LET t == [CloseOld(s, p) EXCEPT !.circuit[k] = Circuit("linked", p),
                                         !.flags[p] = "linked"]
         IN  state_tell(Send(t, {k}, Line("OK", s.me, p, deftopic)), k)

\* OK has come: by now the partner may be known by another way.
ProcessConnecting(s, k) ==
    LET p == s.circuit[k].link
    IN  IF node_find(s, p) THEN Disconnect(s, k)
        ELSE state_tell([s EXCEPT !.flags[p] = "linked", !.circuit[k].rtcflags = "linked"], k)

\* One partner at a time, not linked and not known, gets a call.
makelinks(s, k, p) == [s EXCEPT !.flags[p] = "linkini", !.circuit[k] = Circuit("linkini", p)]

node_close(s) == FoldSet(LAMBDA k, t : Disconnect(t, k), s,
                         Listed(s) \cup {k \in Conn : s.circuit[k].rtcflags = "linkwait"})

\* The connection is gone: what had no partner yet only leaves the list.
ChatDisconnected(s, k) ==
    LET t == IF s.circuit[k].rtcflags = "linkwait" THEN circuit_free(s, k) ELSE link_drop(s, k)
    IN  IF s.circuit[k].Active THEN [t EXCEPT !.circuit[k] = NoCircuit] ELSE s

-----------------------------------------------------------------------------
(* A line from a partner.                                                  *)

id_join_NoCount(s, k, l) ==              \* a mutant: the user holds no reference to its node
    IF user_find(s, l.about, l.node) # {} THEN s
    ELSE [user_join(echo(s, k, l), k, l.about, l.node) EXCEPT !.circuit[k].refcnt = @ + 1]
id_join(s, k, l) ==
    IF user_find(s, l.about, l.node) # {} THEN s
    ELSE LET t == cn_inc(echo(s, k, l), k, l.node)
         IN  [user_join(t, k, l.about, l.node) EXCEPT !.circuit[k].refcnt = @ + 1]

id_leave_KeepsCount(s, k, l) ==          \* a mutant: the circuit keeps the reference
    IF user_find(s, l.about, l.node) = {} THEN s
    ELSE node_dec([echo(s, k, l) EXCEPT !.circuit[k].refcnt = @ - 1,
                                        !.user = @ \ user_find(s, l.about, l.node)], l.node)
id_leave(s, k, l) ==
    IF user_find(s, l.about, l.node) = {} THEN s
    ELSE LET t == [echo(s, k, l) EXCEPT !.circuit[k].refcnt = @ - 1,
                                        !.user = @ \ user_find(s, l.about, l.node)]
         IN  node_dec(cn_dec(t, k, l.node), l.node)

id_link(s, k, l) ==
    IF node_find(s, l.about) THEN s ELSE echo(cn_inc(s, k, l.about), k, l)

id_unlink(s, k, l) ==
    IF ~cn_find(s, k, l.about) THEN s
    ELSE echo(node_dec(cn_dec(s, k, l.about), l.about), k, l)

id_topic(s, k, l) ==
    LET r == {x \in user_find(s, l.about, l.node) : x.topic # l.topic}
    IN  IF r = {} THEN s ELSE topic_chg(echo(s, k, l), CHOOSE x \in r : TRUE, l.topic)

\* Lines of a node that is not known, or of this one, are not looked at.
chkctl(s, k, l) ==
    IF ~node_find(s, l.node) \/ l.node = s.me THEN s
    ELSE CASE l.kind = "join"   -> id_join(s, k, l)
           [] l.kind = "leave"  -> id_leave(s, k, l)
           [] l.kind = "link"   -> id_link(s, k, l)
           [] l.kind = "unlink" -> id_unlink(s, k, l)
           [] l.kind = "topic"  -> id_topic(s, k, l)
           [] OTHER -> s

ChatDoReceivedLine(s, k, l) ==
    CASE s.circuit[k].rtcflags = "linkini" -> IF l.kind = "OK" THEN ProcessConnecting(s, k) ELSE s
      [] s.circuit[k].rtcflags = "linkwait" -> rtloginl(s, k, l.node)
      [] OTHER -> chkctl(s, k, l)

\* What one handler of the partner sent comes as one packet.
ChatDoReceivedData(s, k, packet) == FoldLeft(LAMBDA t, l : ChatDoReceivedLine(t, k, l), s, packet)
=============================================================================
