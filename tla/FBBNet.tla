------------------------------- MODULE FBBNet -------------------------------
(***************************************************************************)
(* BBSs that call each other to forward what they hold: sessions that      *)
(* break between two parts of a message, calls that cross, BBSs that crash *)
(* and start again from their files.                                       *)
(*                                                                         *)
(* In a session lines arrive in order or not at all, and each end is told, *)
(* some time, that it is over.  A connection's number is used again when   *)
(* both have been told.                                                    *)
(***************************************************************************)
EXTENDS FBBNode

CONSTANTS
    Origin,       \* [Bid -> BBS]: where each message is posted
    Partner,      \* [BBS -> SUBSET BBS]: whom each has a connect script for
    Troubles,     \* what may go wrong: "nocall", "cross", "break", "crash"
    MaxTrouble    \* how often, of all of them

ASSUME NetAssumption ==
    /\ Origin \in [Bid -> BBS] /\ Partner \in [BBS -> SUBSET BBS]
    /\ \A n \in BBS : n \notin Partner[n]
    /\ MaxTrouble \in Nat

VARIABLES
    bbs,       \* what each BBS keeps
    conn,      \* each connection: who called whom, and what has become of it
    wire,      \* the lines on their way to each end
    told,      \* the ends that are yet to be told that it is over
    posted,    \* the messages that users have posted
    trouble    \* how much has gone wrong

vars == << bbs, conn, wire, told, posted, trouble >>

Unused == [is |-> "unused"]
End(k) == {conn[k].from, conn[k].to}
Other(k, n) == IF n = conn[k].from THEN conn[k].to ELSE conn[k].from
Free == {k \in Conn : conn[k] = Unused}
Open == {k \in Conn : conn[k].is = "open"}
Silence == [n \in BBS |-> << >>]

Init ==
    /\ bbs = [n \in BBS |-> Fresh(n)]
    /\ conn = [k \in Conn |-> Unused]
    /\ wire = [k \in Conn |-> Silence]
    /\ told = [k \in Conn |-> {}]
    /\ posted = {}
    /\ trouble = 0

Trouble(kind) == kind \in Troubles /\ trouble < MaxTrouble /\ trouble' = trouble + 1

\* Connections that end with this step, and the ends still to be told of each.
Ends(K, ends) ==
    /\ told' = [k \in Conn |-> IF k \in K THEN ends[k] ELSE told[k]]
    /\ conn' = [k \in Conn |-> IF k \notin K THEN conn[k]
                               ELSE IF ends[k] = {} THEN Unused ELSE [conn[k] EXCEPT !.is = "over"]]
    /\ wire' = [k \in Conn |-> IF k \in K THEN Silence ELSE wire[k]]

\* A handler has run at n for connection k, whose line it took: what it sent
\* goes; when it closed the connection, both ends are told.
Commit(k, n, s) ==
    /\ bbs' = [bbs EXCEPT ![n] = [s EXCEPT !.out = Fresh(n).out, !.shut = {}]]
    /\ IF k \in s.shut THEN Ends({k}, [c \in {k} |-> End(c)])
       ELSE /\ wire' = [wire EXCEPT ![k] = [wire[k] EXCEPT ![n] = Tail(@), ![Other(k, n)] = @ \o s.out[k]]]
            /\ UNCHANGED << told, conn >>

-----------------------------------------------------------------------------
\* A user posts a message: it is stored, with its routes, and is on file.
Post(b) ==
    /\ b \notin posted /\ posted' = posted \cup {b}
    /\ bbs' = [bbs EXCEPT ![Origin[b]] =
                  CreateMessageFromBuffer(@, New(b, Origin[b], Nobody, FALSE))]
    /\ UNCHANGED << conn, wire, told, trouble >>

\* FWDTimerProc.  The timer is set back when a session ends and takes far longer
\* than the other end to learn of it: a call while there is still a connection
\* between the two, the partner's own call among them, is counted as a trouble.
Call(n, p) ==
    /\ p \in Partner[n] /\ ~bbs[n].Forwarding[p] /\ SeeifMessagestoForward(bbs[n], p)
    /\ IF \E k \in Conn : conn[k] # Unused /\ End(k) = {n, p}
       THEN Trouble("cross") ELSE UNCHANGED trouble
    /\ Free # {}
    /\ \E k \in {Min(Free)} :
          /\ conn' = [conn EXCEPT ![k] = [is |-> "calling", from |-> n, to |-> p]]
          /\ bbs' = [bbs EXCEPT ![n] = [@ EXCEPT !.Forwarding[p] = TRUE,
                                                 !.session[k] = Session(p, TRUE)]]
    /\ UNCHANGED << wire, told, posted >>

\* The called BBS sends its SID and its prompt.
ConnectOk(k) ==
    /\ conn[k].is = "calling" /\ conn' = [conn EXCEPT ![k].is = "open"]
    /\ bbs' = [bbs EXCEPT ![conn[k].to].session[k] = Session(conn[k].from, FALSE)]
    /\ wire' = [wire EXCEPT ![k][conn[k].from] = << Line("prompt") >>]
    /\ UNCHANGED << told, posted, trouble >>

ConnectFails(k) ==
    /\ conn[k].is = "calling" /\ Trouble("nocall")
    /\ Ends({k}, [c \in {k} |-> {conn[c].from}])
    /\ UNCHANGED << bbs, posted >>

Receive(k, n) ==
    /\ k \in Open /\ n \in End(k) /\ wire[k][n] # << >>
    /\ Commit(k, n, ProcessFBBLine(bbs[n], k, Head(wire[k][n])))
    /\ UNCHANGED << posted, trouble >>

BBSDisconnected(k, n) ==
    /\ n \in told[k]
    /\ bbs' = [bbs EXCEPT ![n] = Disconnected(@, k)]
    /\ Ends({k}, [c \in {k} |-> told[c] \ {n}])
    /\ UNCHANGED << posted, trouble >>

\* The path between the BBSs fails.
Break(k) ==
    /\ k \in Open /\ Trouble("break")
    /\ Ends({k}, [c \in {k} |-> End(c)])
    /\ UNCHANGED << bbs, posted >>

\* The program ends without saving, and starts again from its files.
Crash(n) ==
    /\ bbs[n] # Fresh(n) /\ Trouble("crash")
    /\ bbs' = [bbs EXCEPT ![n] = Started(n, bbs[n].saved)]
    /\ LET K == {k \in Conn : conn[k] # Unused /\ n \in End(k)}
           Left(k) == CASE conn[k].is = "over"    -> told[k] \ {n}
                        [] conn[k].is = "calling" -> {conn[k].from} \ {n}
                        [] OTHER                  -> End(k) \ {n}
       IN  Ends(K, [k \in K |-> Left(k)])
    /\ UNCHANGED posted

-----------------------------------------------------------------------------
Calling == \E n, p \in BBS : Call(n, p)
Proceeds(k) == ConnectOk(k) \/ \E n \in BBS : Receive(k, n) \/ BBSDisconnected(k, n)

Next ==
    \/ \E b \in Bid : Post(b)
    \/ Calling
    \/ \E k \in Conn : Proceeds(k) \/ ConnectFails(k) \/ Break(k)
    \/ \E n \in BBS : Crash(n)

\* Something of connection k is on its way, being set up or yet to be told: the
\* guard of Proceeds(k).
Moving(k) == \/ conn[k].is = "calling" \/ told[k] # {}
             \/ \E n \in BBS : wire[k][n] # << >>

\* The timer comes round for every partner (weak fairness of Call).  What is sent
\* arrives and a session that is over is told to its ends: weak fairness of each
\* Proceeds(k), with its guard written out.
Fairness ==
    /\ \A n, p \in BBS : WF_vars(Call(n, p))
    /\ \A k \in Conn : []<>~Moving(k) \/ []<><<Proceeds(k)>>_vars

Spec == Init /\ [][Next]_vars /\ Fairness

-----------------------------------------------------------------------------
(* Properties.                                                             *)

\* The types of the tables and the lines: an answer for every proposal of a block
\* that waits for one, no block larger than its bound, and nothing passed over.
TypeOK ==
    /\ bbs \in [BBS -> State]
    /\ \A n \in BBS :
          /\ bbs[n].me = n /\ bbs[n].out = Fresh(n).out /\ bbs[n].shut = {}
          /\ \A k \in Conn : LET e == bbs[n].session[k]
                             IN  /\ Len(e.hdr) <= MaxBlock /\ Len(e.want) <= MaxBlock
                                 /\ e.NextMessagetoForward <= Len(bbs[n].msg) + 1
    /\ conn \in [Conn -> {Unused} \cup
                         [is : {"calling", "open", "over"}, from : BBS, to : BBS]]
    /\ wire \in [Conn -> [BBS -> Seq(Lines)]] /\ told \in [Conn -> SUBSET BBS]
    /\ \A k \in Conn : \A n \in BBS : \A i \in DOMAIN wire[k][n] :
          wire[k][n][i].kind = "FS" =>
             Len(wire[k][n][i].answers) = Len(bbs[n].session[k].hdr)
    /\ posted \subseteq Bid /\ trouble \in 0 .. MaxTrouble

\* A BBS stores a bulletin once, whoever offers it while it is on its way to others
\* or is being received ("in case we are offered it again before completion"), unless
\* a copy came by a restart, which does not note that the bulletin is coming.
StoredOnce ==
    \A n \in BBS : \A b \in Bid : Type[b] = "B" =>
       \/ Cardinality(LookupBID(bbs[n], b)) <= 1
       \/ \E m \in LookupBID(bbs[n], b) : bbs[n].msg[m].restarted

\* A message that a BBS counts as passed on to a partner is at that partner, and
\* stays there over a crash.
SentIsThere ==
    \A n \in BBS : \A m \in DOMAIN bbs[n].msg : \A p \in bbs[n].msg[m].forw :
       /\ LookupBID(bbs[p], bbs[n].msg[m].bid) # {}
       /\ \E i \in DOMAIN bbs[p].saved : bbs[p].saved[i].bid = bbs[n].msg[m].bid

\* A text on its way is waited for.  The first to come is that of the header it will
\* be put to, and goes on from the part there is.
IsText(l) == l.kind = "text"
TextsMatchHeaders ==
    \A k \in Open : \A n \in End(k) : \A i \in DOMAIN wire[k][n] :
       LET l == wire[k][n][i]
           e == bbs[n].session[k]
       IN  IsText(l) =>
              /\ e.want # << >>
              /\ (\A j \in 1 .. i - 1 : ~IsText(wire[k][n][j])) =>
                    l.bid = Head(e.want) /\ (e.length # 0 => l.from = e.length)

\* The BBSs are a mail relay: what they have and owe is that of their messages.  A
\* message goes along its routes only, and is owed until it is where it should be,
\* over breaks, restarts, crossing calls, private messages that come again, crashes.
Relay == INSTANCE MailRelay WITH
    at  <- [n \in BBS |-> {bbs[n].msg[m].bid : m \in DOMAIN bbs[n].msg}],
    due <- [n \in BBS |-> [b \in Bid |-> UNION {bbs[n].msg[m].fbbs : m \in LookupBID(bbs[n], b)}]]
Relays == Relay!Spec

\* Again and again, all has been passed on and is where it should be, and no
\* session is left over.
Everywhere(b) == \A n \in BBS : n \in UNION {Routes[b][m] : m \in BBS} => LookupBID(bbs[n], b) # {}
AllForwarded ==
    []<>(/\ Free = Conn
         /\ \A n \in BBS : /\ bbs[n].temp = {} /\ bbs[n].Forwarding = Fresh(n).Forwarding
                           /\ \A m \in DOMAIN bbs[n].msg : bbs[n].msg[m].fbbs = {}
         /\ \A b \in posted : Everywhere(b))
=============================================================================
