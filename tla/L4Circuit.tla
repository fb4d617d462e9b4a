------------------------------ MODULE L4Circuit ------------------------------
(***************************************************************************)
(* Two nodes and the transport circuits between them, over a network that  *)
(* loses and delays messages: L3 routes each message on its own, and the   *)
(* links under it are reset and fail (AX25Link).  L4Entry has the          *)
(* handlers; here they are bound to the tables of the two nodes.           *)
(*                                                                         *)
(* Everything runs on one thread and a handler runs to its end, so an      *)
(* action is one call of a handler for one entry: the loops of L4BG and    *)
(* L4TimerProc over L4TABLE touch one entry at a time, and no entry reads  *)
(* another.                                                                *)
(***************************************************************************)
EXTENDS L4Entry, SequencesExt

CONSTANTS
    A, B,
    FirstId,       \* NEXTID when the two nodes start
    RestartIds,    \* what rand() may make of it when a node is started again
    AnswerOf,      \* AnswerOf[n]: the ways n may answer a caller (AnswerKind)
    FULL_CTEXT,    \* the nodes that send a sign-on to callers
    MaxMsg,        \* MaxMsg[n]: frames the sessions of n give
    MaxConnect,    \* MaxConnect[n]: connects the users of n make
    CanClose,      \* the nodes where a session may be closed by its user
    Troubles,      \* the kinds of trouble that may happen: of TroubleKind
    Alone,         \* the kinds that happen with no other trouble
    MaxTrouble     \* how often, of all kinds together

\* A message is lost, or overtaken; a partner is busy; a node is started again;
\* there is no free buffer; L4TIMER expires while a message is still on its way.
TroubleKind == {"loss", "delay", "busy", "restart", "nobuffer", "early"}

ASSUME NodeAssumption == A # B
ASSUME TroubleAssumption == Troubles \subseteq TroubleKind /\ MaxTrouble \in Nat
ASSUME FirstIdAssumption == FirstId \in Id /\ RestartIds \subseteq Id

VARIABLES
    L4TABLE,   \* L4TABLE[n][i]: the entries of node n
    NEXTID,    \* NEXTID[n]: the id of its next circuit
    net,       \* net[n]: messages on their way to n
    given,     \* given[n]: for each frame given at n, the circuit it was given to
    taken,     \* taken[n]: the frames taken at n, each with the circuit it came on
    used       \* how often the surroundings have acted

vars == << L4TABLE, NEXTID, net, given, taken, used >>

Node == {A, B}
Peer(n) == IF n = A THEN B ELSE A
TakenFrame == [info : Nat, on : Nat]

NothingUsed ==
    [connect |-> [n \in Node |-> 0], opened |-> [n \in Node |-> 0], trouble |-> 0]

TypeOK ==
    /\ L4TABLE \in [Node -> [Index -> Entry]]
    /\ \A n \in Node, i \in Index : L4TABLE[n][i].CIRCUITINDEX = i
    /\ NEXTID \in [Node -> Id]
    /\ net \in [Node -> Seq(Message)]
    /\ given \in [Node -> Seq(Nat)]
    /\ taken \in [Node -> Seq(TakenFrame)]
    /\ used \in [connect : [Node -> Nat], opened : [Node -> Nat], trouble : Nat]

Init ==
    /\ L4TABLE = [n \in Node |-> [i \in Index |-> FreeEntry(i)]]
    /\ NEXTID  = [n \in Node |-> FirstId]
    /\ net     = [n \in Node |-> << >>]
    /\ given   = [n \in Node |-> << >>]
    /\ taken   = [n \in Node |-> << >>]
    /\ used    = NothingUsed

May(kind) ==
    /\ kind \in Troubles /\ used.trouble < MaxTrouble
    /\ kind \in Alone => used.trouble = 0

After(kind) == used.trouble + IF kind \in Alone THEN MaxTrouble ELSE 1

\* Whether GetBuff finds a buffer.
Buffers == {TRUE} \cup {b \in {FALSE} : May("nobuffer")}

IdAfter_NoWrap(id) == id + 1      \* a mutant: the id leaves its byte

\* 255 is followed by 1.
IdAfter(id) == IF id = MaxId THEN 1 ELSE id + 1

\* A handler has made entry i of n into e: what it sent is on its way to the
\* other end, and what it passed on is taken.  circuit is the one that took.
Enter(n, i, e) ==
    L4TABLE' = [L4TABLE EXCEPT ![n][i] = [e EXCEPT !.OUT = << >>, !.TAKEN = << >>]]

Passed(n, e, circuit) ==
    taken' = [taken EXCEPT ![n] = @ \o [k \in 1 .. Len(e.TAKEN) |->
                                          [info |-> e.TAKEN[k], on |-> circuit]]]

-----------------------------------------------------------------------------
(* Messages.                                                               *)

\* A message for a circuit, received in the order sent or after a delay.
ReceiveForCircuit(n) ==
    /\ net[n] # << >> /\ Head(net[n]).op # "CREQ"
    /\ LET m == Head(net[n])
           i == m.index
       IN  IF i \notin Index
           THEN /\ net' = [net EXCEPT ![n] = Tail(@)]
                /\ UNCHANGED << L4TABLE, taken >>
           ELSE LET e == FRAMEFORUS(L4TABLE[n][i], m)
                IN  /\ Enter(n, i, e)
                    /\ Passed(n, e, L4TABLE[n][i].CIRCUIT)
                    /\ net' = [net EXCEPT ![n] = Tail(@), ![Peer(n)] = @ \o e.OUT]
    /\ UNCHANGED << NEXTID, given, used >>

\* The sign-on the node has for a caller: its next frame, or none.
Ctext(n, kind) ==
    IF kind = "node" /\ n \in FULL_CTEXT THEN Len(given[n]) + 1 ELSE 0

\* Each sign-on is a frame given.
GiveCtext(n, ctext, circuit) ==
    given' = IF ctext = 0 THEN given ELSE [given EXCEPT ![n] = Append(@, circuit)]

\* CONNECTREQUEST for a circuit that is there already.
RepeatedRequest(n, m) ==
    LET i     == Lowest(CircuitsOf(L4TABLE[n], m))
        kind  == IF L4TABLE[n][i].USER = "node" THEN "node" ELSE "appl"
        ctext == Ctext(n, kind)
        e     == SendConACK(L4TABLE[n][i], m, ctext)
    IN  /\ Enter(n, i, e)
        /\ net' = [net EXCEPT ![n] = Tail(@), ![Peer(n)] = @ \o e.OUT]
        /\ GiveCtext(n, ctext, e.CIRCUIT)
        /\ UNCHANGED << NEXTID, used >>

\* CONNECTREQUEST with an entry to spare: set up, then accepted or cleared.
NewRequest(n, m, kind) ==
    LET i       == Lowest(Spare(L4TABLE[n]))
        circuit == used.opened[n] + 1
        ctext   == Ctext(n, kind)
        new     == SETUPNEWCIRCUIT(L4TABLE[n][i], m, NEXTID[n], circuit, kind)
        e       == IF kind = "none" THEN SendConNAK(CLEARSESSIONENTRY(new), m)
                                    ELSE SendConACK(new, m, ctext)
    IN  /\ Enter(n, i, e)
        /\ net' = [net EXCEPT ![n] = Tail(@), ![Peer(n)] = @ \o e.OUT]
        /\ NEXTID' = [NEXTID EXCEPT ![n] = IdAfter(@)]
        /\ GiveCtext(n, ctext, circuit)
        /\ used' = [used EXCEPT !.opened[n] = circuit]

RefusedRequest(n, m) ==
    /\ net' = [net EXCEPT ![n] = Tail(@),
                          ![Peer(n)] = @ \o SendConNAK(FreeEntry(1), m).OUT]
    /\ UNCHANGED << L4TABLE, NEXTID, given, used >>

CONNECTREQUEST(n, kind) ==
    /\ net[n] # << >> /\ Head(net[n]).op = "CREQ"
    /\ LET m == Head(net[n])
       IN  CASE CircuitsOf(L4TABLE[n], m) # {} -> RepeatedRequest(n, m)
             [] CircuitsOf(L4TABLE[n], m) = {} /\ Spare(L4TABLE[n]) # {}
                    -> NewRequest(n, m, kind)
             [] OTHER -> RefusedRequest(n, m)
    /\ UNCHANGED taken

-----------------------------------------------------------------------------
(* The background passes.                                                  *)

RunL4BG(n, i) ==
    LET e == L4BG(L4TABLE[n][i])
    IN  /\ e # L4TABLE[n][i]
        /\ Enter(n, i, e)
        /\ net' = [net EXCEPT ![Peer(n)] = @ \o e.OUT]
        /\ UNCHANGED << NEXTID, given, taken, used >>

Quiet == \A n \in Node : net[n] = << >>

\* L4T1 is longer than an answer takes; a limited number of expiries come
\* early.  L4LIMIT is longer than all retries take.
Due(n, i, ev) ==
    /\ TimerEventPossible(L4TABLE[n][i], ev)
    /\ ev = "L4TIMER" => Quiet \/ May("early")
    /\ ev = "L4LIMIT" => /\ Quiet /\ L4BG(L4TABLE[n][i]) = L4TABLE[n][i]
                          /\ ~L4TABLE[n][i].L4TIMER /\ ~L4TABLE[n][i].L4ACKREQ

RunTimers(n, i, ev) ==
    /\ Due(n, i, ev)
    /\ \E buffer \in Buffers :
          LET e == TimerEvent(L4TABLE[n][i], ev, buffer)
          IN  /\ buffer \/ (ev = "L4TIMER" /\ Quiet /\ L4TABLE[n][i].L4STATE = 2)
              /\ Enter(n, i, e)
              /\ net' = [net EXCEPT ![Peer(n)] = @ \o e.OUT]
              /\ used' = IF buffer /\ (ev = "L4TIMER" => Quiet) THEN used
                         ELSE [used EXCEPT !.trouble = After(IF buffer THEN "early" ELSE "nobuffer")]
    /\ UNCHANGED << NEXTID, given, taken >>

-----------------------------------------------------------------------------
(* The users.                                                              *)

\* SetupNewSession and DoNetromConnect, for a user whose destination is the
\* other node.
Connect(n) ==
    /\ used.connect[n] < MaxConnect[n]
    /\ Spare(L4TABLE[n]) # {}
    /\ \E buffer \in Buffers :
          LET i == Lowest(Spare(L4TABLE[n]))
              e == SENDL4CONNECT([L4TABLE[n][i] EXCEPT
                                    !.L4STATE = 2, !.USER = "partner",
                                    !.CIRCUITID = NEXTID[n],
                                    !.CIRCUIT = used.opened[n] + 1], buffer)
          IN  /\ Enter(n, i, e)
              /\ net' = [net EXCEPT ![Peer(n)] = @ \o e.OUT]
              /\ used' = [used EXCEPT !.connect[n] = @ + 1, !.opened[n] = @ + 1,
                                      !.trouble = IF buffer THEN @ ELSE After("nobuffer")]
    /\ NEXTID' = [NEXTID EXCEPT ![n] = IdAfter(@)]
    /\ UNCHANGED << given, taken >>

\* IFRM150 of the partner: a frame for a circuit that is up.
Send(n, i) ==
    /\ L4TABLE[n][i].L4STATE = 5 /\ L4TABLE[n][i].USER # "none"
    /\ Len(given[n]) < MaxMsg[n]
    /\ Enter(n, i, [L4TABLE[n][i] EXCEPT !.L4TX_Q = Append(@, Len(given[n]) + 1)])
    /\ given' = [given EXCEPT ![n] = Append(@, L4TABLE[n][i].CIRCUIT)]
    /\ UNCHANGED << NEXTID, net, taken, used >>

\* IFRM150 of the partner: a frame before the circuit is up cancels it.
CancelConnect(n, i) ==
    /\ n \in CanClose
    /\ L4TABLE[n][i].L4STATE = 2 /\ L4TABLE[n][i].USER = "partner"
    /\ Enter(n, i, CLEARSESSIONENTRY(L4TABLE[n][i]))
    /\ UNCHANGED << NEXTID, net, given, taken, used >>

Close(n, i) ==
    /\ n \in CanClose
    /\ L4TABLE[n][i].L4STATE # 0 /\ L4TABLE[n][i].USER # "none"
    /\ LET e == CLOSECURRENTSESSION(L4TABLE[n][i])
       IN  /\ Enter(n, i, e)
           /\ net' = [net EXCEPT ![Peer(n)] = @ \o e.OUT]
    /\ UNCHANGED << NEXTID, given, taken, used >>

-----------------------------------------------------------------------------
(* The surroundings.                                                       *)

LoseMessage(n) ==
    /\ May("loss")
    /\ \E k \in DOMAIN net[n] : net' = [net EXCEPT ![n] = RemoveAt(@, k)]
    /\ used' = [used EXCEPT !.trouble = After("loss")]
    /\ UNCHANGED << L4TABLE, NEXTID, given, taken >>

\* A message takes another way and is overtaken by all those behind it.
DelayMessage(n) ==
    /\ May("delay")
    /\ \E k \in 1 .. Len(net[n]) - 1 :
          net' = [net EXCEPT ![n] = Append(RemoveAt(@, k), @[k])]
    /\ used' = [used EXCEPT !.trouble = After("delay")]
    /\ UNCHANGED << L4TABLE, NEXTID, given, taken >>

BecomeBusy(n, i) ==
    /\ May("busy")
    /\ L4TABLE[n][i].USER = "partner" /\ ~L4TABLE[n][i].PARTNERBUSY
    /\ L4TABLE' = [L4TABLE EXCEPT ![n][i].PARTNERBUSY = TRUE]
    /\ used' = [used EXCEPT !.trouble = After("busy")]
    /\ UNCHANGED << NEXTID, net, given, taken >>

BecomeFree(n, i) ==
    /\ L4TABLE[n][i].PARTNERBUSY
    /\ L4TABLE' = [L4TABLE EXCEPT ![n][i].PARTNERBUSY = FALSE]
    /\ UNCHANGED << NEXTID, net, given, taken, used >>

\* The program is started again: an empty table, and a NEXTID by rand(), which
\* has not been seeded.
Restart(n) ==
    /\ May("restart")
    /\ L4TABLE' = [L4TABLE EXCEPT ![n] = [i \in Index |-> FreeEntry(i)]]
    /\ \E id \in RestartIds : NEXTID' = [NEXTID EXCEPT ![n] = id]
    /\ used' = [used EXCEPT !.trouble = After("restart")]
    /\ UNCHANGED << net, given, taken >>

Next ==
    \E n \in Node :
        \/ ReceiveForCircuit(n)
        \/ \E kind \in AnswerOf[n] : CONNECTREQUEST(n, kind)
        \/ Connect(n)
        \/ LoseMessage(n) \/ DelayMessage(n) \/ Restart(n)
        \/ \E i \in Index :
              \/ RunL4BG(n, i)
              \/ \E ev \in TimerEvents : RunTimers(n, i, ev)
              \/ Send(n, i) \/ CancelConnect(n, i) \/ Close(n, i)
              \/ BecomeBusy(n, i) \/ BecomeFree(n, i)

Spec == Init /\ [][Next]_vars

\* CONTROL runs every 100 ms: what is on its way arrives, queues are looked at
\* and timers run down.  A partner's queue drains.  The idle limit is relied on
\* only for a circuit that is being set up or closed.
Fairness ==
    \A n \in Node :
        /\ WF_vars(ReceiveForCircuit(n))
        /\ WF_vars(\E kind \in AnswerOf[n] : CONNECTREQUEST(n, kind))
        /\ \A i \in Index :
              /\ WF_vars(RunL4BG(n, i))
              /\ \A ev \in {"BUSYOVER", "L4TIMER", "L4ACKREQ"} : WF_vars(RunTimers(n, i, ev))
              /\ WF_vars(L4TABLE[n][i].L4STATE \in {2, 4} /\ RunTimers(n, i, "L4LIMIT"))
              /\ WF_vars(BecomeFree(n, i))

FairSpec == Spec /\ Fairness

-----------------------------------------------------------------------------
(* Properties.                                                             *)

\* The circuits keep the promise of L2Delivery from session to session, whatever
\* the links under them do: a stream each way, in the order given, never twice,
\* and nothing missing but at the end of a circuit.  A frame given, or taken, is
\* a cut when it is the first of its circuit.
GivenMarks ==
    [n \in Node |-> [k \in DOMAIN given[n] |-> k = 1 \/ given[n][k] # given[n][k - 1]]]

TakenMarks ==
    [n \in Node |->
        [k \in DOMAIN taken[n] |->
            [info |-> taken[n][k].info,
             cut  |-> k = 1 \/ taken[n][k].on # taken[n][k - 1].on]]]

Streams == INSTANCE L2Delivery WITH given <- GivenMarks, taken <- TakenMarks
Delivers == Streams!Spec

Sessions(n) == {i \in Index : L4TABLE[n][i].L4STATE # 0}
TakenAt(n, k) == \E j \in DOMAIN taken[n] : taken[n][j].info = k
HeldOn(e, k) == \E j \in DOMAIN e.L4HOLD_Q : e.L4HOLD_Q[j].info = k

\* A frame given to a circuit that is up is queued, held for a retry, or taken at
\* the other end: no acknowledgement, however old, releases what was not received
\* (ACKFRAMES: "IF NEGATIVE, THAN THIS MUST BE A DELAYED REPEAT").
NothingForgotten ==
    \A n \in Node : \A i \in Sessions(n) : \A k \in DOMAIN given[n] :
        LET e == L4TABLE[n][i]
        IN  e.L4STATE = 5 /\ given[n][k] = e.CIRCUIT
                => k \in ToSet(e.L4TX_Q) \/ HeldOn(e, k) \/ TakenAt(Peer(n), k)

\* What is taken on one circuit was given to one circuit, in the order given and
\* never twice, over restarts, repeated requests and circuits that reuse an entry.
CircuitsApart ==
    \A n \in Node : \A j, k \in DOMAIN taken[n] :
        j < k /\ taken[n][j].on = taken[n][k].on =>
            /\ 0 < taken[n][j].info /\ taken[n][j].info < taken[n][k].info
            /\ taken[n][k].info <= Len(given[Peer(n)])
            /\ given[Peer(n)][taken[n][j].info] = given[Peer(n)][taken[n][k].info]

\* The frames held for a retry are those from L4WS to before TXSEQNO, in order,
\* so that an acknowledgement releases the frames it means.
HoldMatchesWindow ==
    \A n \in Node : \A i \in Sessions(n) :
        LET e == L4TABLE[n][i]
        IN  /\ Len(e.L4HOLD_Q) = Outstanding(e)
            /\ \A k \in DOMAIN e.L4HOLD_Q : e.L4HOLD_Q[k].txno = Add(e.L4WS, k - 1)

\* Whatever acknowledgements come, old, repeated or meant for another circuit, the
\* frames held are no more than L4WS and TXSEQNO account for, nor than the window
\* and the one that the test in L4BG lets go beyond it.
HoldBounded ==
    \A n \in Node, i \in Index :
        LET e == L4TABLE[n][i]
        IN  Len(e.L4HOLD_Q) <= Outstanding(e) /\ Len(e.L4HOLD_Q) <= L4WINDOW + 1

\* A frame given to a circuit is taken in the end, or the circuit is no longer
\* up and its session has been told.
AllTaken ==
    \A n \in Node : \A i \in Index, k \in 1 .. MaxMsg[n] :
        LET Current == /\ k \in DOMAIN given[n] /\ L4TABLE[n][i].L4STATE = 5
                       /\ given[n][k] = L4TABLE[n][i].CIRCUIT
        IN  []<>(Current => TakenAt(Peer(n), k))

\* A connect is answered or given up, a disconnect answered or given up.
ConnectEnds == \A n \in Node, i \in Index : []<>(L4TABLE[n][i].L4STATE # 2)
CloseEnds   == \A n \in Node, i \in Index : []<>(L4TABLE[n][i].L4STATE # 4)
=============================================================================
