------------------------------- MODULE L4Entry -------------------------------
(***************************************************************************)
(* The transport circuits of L4Code.c: one entry of L4TABLE, and the       *)
(* handlers that change it, as operators from an entry to an entry.        *)
(*                                                                         *)
(* An entry carries two outputs of the handler that runs: OUT, what it has *)
(* queued for the network (DEST_Q, or the TX_Q of the link the request     *)
(* came on), and TAKEN, the frames IFRM150 has passed on.  USER is who has *)
(* the session: a partner (L4CROSSLINK, a user or an application), the     *)
(* command handler of the node, or nobody.  PARTNERBUSY stands for a       *)
(* partner with L4WINDOW frames or more queued.  CIRCUIT numbers the       *)
(* circuits of a node in the order they were set up; the code has no such  *)
(* number, the properties need it.                                         *)
(*                                                                         *)
(* Payloads are numbers.  A countdown timer is a BOOLEAN: running or not.  *)
(* A message fits one frame (no L4MORE).                                   *)
(***************************************************************************)
EXTENDS Integers, Sequences, FiniteSets

CONSTANTS
    Modulus,      \* of the sequence numbers: 256 in the code
    L4WINDOW,     \* the window both ends agree on
    L4N2,         \* retries before a circuit is given up
    MAXCIRCUITS,  \* entries of L4TABLE
    MaxId         \* the largest circuit id: 255 in the code

ASSUME ModulusAssumption  == Modulus \in Nat /\ Modulus >= 4 /\ Modulus % 2 = 0
ASSUME WindowAssumption  == L4WINDOW \in 1 .. (Modulus \div 2) - 1
ASSUME RetryAssumption   == L4N2 \in 0 .. 254
ASSUME CircuitAssumption == MAXCIRCUITS \in Nat \ {0} /\ MaxId \in Nat \ {0}

SeqNo == 0 .. Modulus - 1
Half  == Modulus \div 2
Index == 1 .. MAXCIRCUITS
Id    == 1 .. MaxId
Add(i, j) == (i + j) % Modulus
Distance(from, to) == (to - from) % Modulus

\* index and id address the circuit of the receiver; a CREQ carries the
\* caller's own.  own is the index and id a CACK reports of the answering end
\* (L4TXNO and L4RXNO there).  busy in a CACK is a refusal.
Message ==
    [op : {"CREQ", "CACK", "DREQ", "DACK", "INFO", "IACK"},
     index : Index \cup {0}, id : Id \cup {0},
     own : [index : Index \cup {0}, id : Id \cup {0}],
     txno : SeqNo, rxno : SeqNo, busy : BOOLEAN, nak : BOOLEAN, info : Nat]

Nobody == [index |-> 0, id |-> 0]

Msg(op, index, id) ==
    [op |-> op, index |-> index, id |-> id, own |-> Nobody,
     txno |-> 0, rxno |-> 0, busy |-> FALSE, nak |-> FALSE, info |-> 0]

-----------------------------------------------------------------------------
(* L4STATE: 0 free, 2 CREQ sent, 4 DREQ sent, 5 up.  BUSY and NAK are the  *)
(* bits of NAKBITS, CHOKED and DISCPENDING those of FLAGS.                 *)

Entry ==
    [L4STATE : {0, 2, 4, 5}, USER : {"none", "partner", "node"},
     CIRCUITINDEX : Index, CIRCUITID : Id \cup {0},
     FARINDEX : Index \cup {0}, FARID : Id \cup {0},
     TXSEQNO : SeqNo, RXSEQNO : SeqNo, L4WS : SeqNo, L4LASTACKED : SeqNo,
     L4TX_Q : Seq(Nat), L4HOLD_Q : Seq(Message), L4RESEQ_Q : Seq(Message),
     L4TIMER : BOOLEAN, L4ACKREQ : BOOLEAN, L4RETRIES : 0 .. 255,
     CHOKED : BOOLEAN, DISCPENDING : BOOLEAN, BUSY : BOOLEAN, NAK : BOOLEAN,
     PARTNERBUSY : BOOLEAN, CIRCUIT : Nat, OUT : Seq(Message), TAKEN : Seq(Nat)]

FreeEntry(i) ==
    [L4STATE |-> 0, USER |-> "none",
     CIRCUITINDEX |-> i, CIRCUITID |-> 0, FARINDEX |-> 0, FARID |-> 0,
     TXSEQNO |-> 0, RXSEQNO |-> 0, L4WS |-> 0, L4LASTACKED |-> 0,
     L4TX_Q |-> << >>, L4HOLD_Q |-> << >>, L4RESEQ_Q |-> << >>,
     L4TIMER |-> FALSE, L4ACKREQ |-> FALSE, L4RETRIES |-> 0,
     CHOKED |-> FALSE, DISCPENDING |-> FALSE, BUSY |-> FALSE, NAK |-> FALSE,
     PARTNERBUSY |-> FALSE, CIRCUIT |-> 0, OUT |-> << >>, TAKEN |-> << >>]

CLEARSESSIONENTRY(e) ==
    [FreeEntry(e.CIRCUITINDEX) EXCEPT !.OUT = e.OUT, !.TAKEN = e.TAKEN]

Post(e, m) == [e EXCEPT !.OUT = Append(@, m)]

Outstanding(e) == Distance(e.L4WS, e.TXSEQNO)

\* The frames queued on the partner or, where there is none, on the circuit.
CHECKIFBUSYL4(e) ==
    IF e.USER = "partner" THEN e.PARTNERBUSY
    ELSE Len(e.L4TX_Q) + Outstanding(e) >= L4WINDOW

GETBUSYBIT(e) == [e EXCEPT !.BUSY = CHECKIFBUSYL4(e)]

-----------------------------------------------------------------------------
(* Sending.                                                                *)

SENDL4IACK(e) ==
    LET s == [GETBUSYBIT(e) EXCEPT !.L4LASTACKED = e.RXSEQNO]
    IN  Post(s, [Msg("IACK", e.FARINDEX, e.FARID)
                   EXCEPT !.rxno = e.RXSEQNO, !.busy = s.BUSY, !.nak = s.NAK])

SENDL4MESSAGE_NoHold(e, info) ==  \* a mutant: no copy is kept
    LET b == GETBUSYBIT([e EXCEPT !.TXSEQNO = Add(@, 1)])
    IN  Post([b EXCEPT !.L4LASTACKED = e.RXSEQNO, !.L4TIMER = TRUE, !.L4ACKREQ = FALSE],
             [Msg("INFO", e.FARINDEX, e.FARID)
                EXCEPT !.txno = e.TXSEQNO, !.rxno = e.RXSEQNO,
                       !.busy = b.BUSY, !.nak = b.NAK, !.info = info])

\* The copy on L4HOLD_Q keeps the number acknowledged and the flags it had
\* when the frame was first sent.
SENDL4MESSAGE(e, info) ==
    LET b == GETBUSYBIT([e EXCEPT !.TXSEQNO = Add(@, 1)])
        m == [Msg("INFO", e.FARINDEX, e.FARID)
                EXCEPT !.txno = e.TXSEQNO, !.rxno = e.RXSEQNO,
                       !.busy = b.BUSY, !.nak = b.NAK, !.info = info]
    IN  Post([b EXCEPT !.L4LASTACKED = e.RXSEQNO, !.L4TIMER = TRUE,
                       !.L4ACKREQ = FALSE, !.L4HOLD_Q = Append(@, m)], m)

\* buffer: whether the pool has one.
SENDL4CONNECT(e, buffer) ==
    IF buffer THEN Post([e EXCEPT !.L4TIMER = TRUE],
                        Msg("CREQ", e.CIRCUITINDEX, e.CIRCUITID))
              ELSE e

SENDL4DISC_NoTimer(e) ==          \* a mutant: DREQ is not repeated
    IF e.L4STATE < 4 THEN CLEARSESSIONENTRY(e)
    ELSE Post([e EXCEPT !.L4STATE = 4, !.L4TIMER = FALSE, !.L4ACKREQ = FALSE],
              Msg("DREQ", e.FARINDEX, e.FARID))

SENDL4DISC(e) ==
    IF e.L4STATE < 4 THEN CLEARSESSIONENTRY(e)
    ELSE Post([e EXCEPT !.L4STATE = 4, !.L4TIMER = TRUE, !.L4ACKREQ = FALSE],
              Msg("DREQ", e.FARINDEX, e.FARID))

CLOSECURRENTSESSION(e) ==
    LET r == [e EXCEPT !.USER = "none"]
    IN  IF r.L4HOLD_Q # << >> \/ r.L4TX_Q # << >>
        THEN [r EXCEPT !.DISCPENDING = TRUE]
        ELSE SENDL4DISC(r)

-----------------------------------------------------------------------------
(* Acknowledgement.                                                        *)

\* NR - L4WS, brought back into range at one end only.
AckCount_Abs(e, nr) == Distance(e.L4WS, nr) \* a mutant: an old ack counts as new

AckCount(e, nr) ==
    IF nr - e.L4WS < - Half THEN nr - e.L4WS + Modulus ELSE nr - e.L4WS

Release_OneLess(e, count) ==      \* a mutant: the last one stays
    [e EXCEPT !.L4HOLD_Q = SubSeq(@, IF count = 0 THEN 1 ELSE count, Len(@)),
              !.L4WS = Add(@, count), !.L4TIMER = FALSE, !.L4RETRIES = 0]

\* The frames acknowledged leave L4HOLD_Q, as far as it goes.
Release(e, count) ==
    [e EXCEPT !.L4HOLD_Q = SubSeq(@, count + 1, Len(@)),
              !.L4WS = Add(@, count), !.L4TIMER = FALSE, !.L4RETRIES = 0]

\* The choke flag of the message and, where it asks for it, the first frame held.
ChokeAndResend(e, m) ==
    LET r == [e EXCEPT !.CHOKED = m.busy]
    IN  IF m.nak /\ r.L4HOLD_Q # << >> THEN Post(r, Head(r.L4HOLD_Q)) ELSE r

ACKFRAMES(e, m) ==
    LET count == AckCount(e, m.rxno)
        r     == Release(e, count)
    IN  IF count < 0 THEN e
        ELSE IF m.rxno # r.TXSEQNO
        THEN ChokeAndResend([r EXCEPT !.L4TIMER = TRUE], m)
        ELSE IF r.DISCPENDING /\ r.L4TX_Q = << >> THEN SENDL4DISC(r)
        ELSE ChokeAndResend(r, m)

-----------------------------------------------------------------------------
(* Receiving.                                                              *)

Deliver(e, m) ==
    [e EXCEPT !.NAK = FALSE, !.RXSEQNO = Add(@, 1), !.L4ACKREQ = TRUE,
              !.TAKEN = Append(@, m.info)]

\* The frames at the head of L4RESEQ_Q that come next.
RunAtHead(e) ==
    Cardinality({k \in 1 .. Len(e.L4RESEQ_Q) :
                    \A j \in 1 .. k : e.L4RESEQ_Q[j].txno = Add(e.RXSEQNO, j - 1)})

DeliverRun(e) ==
    LET k == RunAtHead(e)
    IN  IF k = 0 THEN e
        ELSE [e EXCEPT !.RXSEQNO = Add(@, k),
                       !.TAKEN = @ \o [j \in 1 .. k |-> e.L4RESEQ_Q[j].info],
                       !.L4RESEQ_Q = SubSeq(@, k + 1, Len(@))]

\* The frame that comes next is saved, but not at the head: Prev points to the
\* local Saved, and it is the frame after it that is taken off and passed on,
\* still chained; nothing, if there is none after it.  What the scan then makes
\* of the overwritten header is not followed.
DeliverMisplaced(e) ==
    LET at == {p \in 2 .. Len(e.L4RESEQ_Q) : e.L4RESEQ_Q[p].txno = e.RXSEQNO}
        p  == CHOOSE q \in at : \A r \in at : q <= r
    IN  IF at = {} \/ p = Len(e.L4RESEQ_Q) THEN e
        ELSE [Deliver(e, e.L4RESEQ_Q[p + 1]) EXCEPT !.L4RESEQ_Q = SubSeq(@, 1, p + 1)]

Resequence(e) == DeliverMisplaced(DeliverRun(e))

\* TXNO - RXSEQNO, brought back into range at one end only.
FramesMissing_Repeat(e, m) ==     \* a mutant: a repeat counts as the frame due
    IF m.txno < e.RXSEQNO THEN 0 ELSE m.txno - e.RXSEQNO

FramesMissing_Ahead(e, m) ==      \* a mutant: so does a frame that comes early
    IF m.txno < e.RXSEQNO THEN m.txno - e.RXSEQNO ELSE 0

FramesMissing(e, m) ==
    IF m.txno - e.RXSEQNO > Half THEN m.txno - e.RXSEQNO - Modulus
                                 ELSE m.txno - e.RXSEQNO

SaveFrame(e, m) ==
    IF \E k \in DOMAIN e.L4RESEQ_Q : e.L4RESEQ_Q[k].txno = m.txno THEN e
    ELSE [e EXCEPT !.L4RESEQ_Q = Append(@, m)]

InfoFrame(e, m) ==
    LET a       == ACKFRAMES(e, m)
        missing == FramesMissing(a, m)
    IN  IF e.L4STATE = 2 THEN e
        ELSE IF a.DISCPENDING \/ a.L4STATE = 4 THEN a
        ELSE IF missing < 0 THEN [a EXCEPT !.L4ACKREQ = TRUE]
        ELSE IF missing > 0 THEN SaveFrame(SENDL4IACK([a EXCEPT !.NAK = TRUE]), m)
        ELSE Resequence(Deliver(a, m))

\* A refusal ends the session; an answer in state 5 is a repeat.
ConnectAck(e, m) ==
    IF m.busy THEN CLEARSESSIONENTRY(e)
    ELSE IF e.L4STATE = 5 THEN e
    ELSE [e EXCEPT !.FARINDEX = m.own.index, !.FARID = m.own.id, !.L4STATE = 5,
                   !.L4TIMER = FALSE, !.L4RETRIES = 0]

\* DACK, and the end of the session and of its partner.
DisconnectRequest(e) ==
    CLEARSESSIONENTRY(Post(e, Msg("DACK", e.FARINDEX, e.FARID)))

FRAMEFORUS_AnyId(e, m) ==         \* a mutant: the id is not compared
    CASE m.op = "CACK" -> ConnectAck(e, m)
      [] m.op = "DREQ" -> DisconnectRequest(e)
      [] m.op = "DACK" -> CLEARSESSIONENTRY(e)
      [] m.op = "INFO" -> InfoFrame(e, m)
      [] m.op = "IACK" -> ACKFRAMES(e, m)
      [] OTHER -> e

\* Everything but a CREQ is for a circuit that has this id.
FRAMEFORUS(e, m) ==
    CASE e.CIRCUITID # m.id -> e
      [] e.CIRCUITID = m.id /\ m.op = "CACK" -> ConnectAck(e, m)
      [] e.CIRCUITID = m.id /\ m.op = "DREQ" -> DisconnectRequest(e)
      [] e.CIRCUITID = m.id /\ m.op = "DACK" -> CLEARSESSIONENTRY(e)
      [] e.CIRCUITID = m.id /\ m.op = "INFO" -> InfoFrame(e, m)
      [] e.CIRCUITID = m.id /\ m.op = "IACK" -> ACKFRAMES(e, m)
      [] OTHER -> e

-----------------------------------------------------------------------------
(* Connect requests.                                                       *)

\* What an application or the node does with a caller: the command handler of
\* the node, an application, or no room (no application free, no destination).
AnswerKind == {"node", "appl", "none"}

\* ctext is the sign-on the node sends, or 0.  A repeated request has it again.
SendConACK(e, m, ctext) ==
    Post([e EXCEPT !.L4TX_Q = IF ctext = 0 THEN @ ELSE Append(@, ctext)],
         [Msg("CACK", m.index, m.id)
            EXCEPT !.own = [index |-> e.CIRCUITINDEX, id |-> e.CIRCUITID]])

SendConNAK(e, m) == Post(e, [Msg("CACK", m.index, m.id) EXCEPT !.busy = TRUE])

SETUPNEWCIRCUIT(e, m, id, circuit, kind) ==
    [e EXCEPT !.L4STATE = 5, !.FARINDEX = m.index, !.FARID = m.id, !.CIRCUITID = id,
              !.CIRCUIT = circuit, !.USER = IF kind = "appl" THEN "partner" ELSE "node"]

\* FINDCIRCUIT: the circuits of a table that were set up by this request, and
\* the entries to spare.
CircuitsOf(table, m) ==
    {i \in Index : /\ table[i].L4STATE # 0
                   /\ table[i].FARID = m.id /\ table[i].FARINDEX = m.index}

Spare(table) == {i \in Index : table[i].L4STATE = 0}

Lowest(S) == CHOOSE i \in S : \A j \in S : i <= j

-----------------------------------------------------------------------------
(* The background passes.                                                  *)

SendQueued_NoLimit(e) ==          \* a mutant: the window is not looked at
    IF e.L4TX_Q = << >> THEN e
    ELSE IF e.CHOKED THEN [e EXCEPT !.L4TIMER = TRUE]
    ELSE SENDL4MESSAGE([e EXCEPT !.L4TX_Q = Tail(@)], Head(e.L4TX_Q))

\* One frame of L4TX_Q is sent, unless the circuit is choked or at its window.
SendQueued(e) ==
    IF e.L4TX_Q = << >> THEN e
    ELSE IF e.CHOKED THEN [e EXCEPT !.L4TIMER = TRUE]
    ELSE IF Outstanding(e) > L4WINDOW THEN e
    ELSE SENDL4MESSAGE([e EXCEPT !.L4TX_Q = Tail(@)], Head(e.L4TX_Q))

L4BG(e) ==
    LET s == SendQueued(e)
        t == IF s.L4HOLD_Q # << >> THEN [s EXCEPT !.L4TIMER = TRUE] ELSE s
    IN  IF e.L4STATE = 0 THEN e
        ELSE IF Distance(t.L4LASTACKED, t.RXSEQNO) >= L4WINDOW THEN SENDL4IACK(t) ELSE t

L4TIMEOUT_NoClose(e, buffer) ==   \* a mutant: no end to the retries of data
    LET r == [e EXCEPT !.L4TIMER = FALSE, !.CHOKED = FALSE]
    IN  CASE e.L4STATE = 2 -> SENDL4CONNECT(r, buffer)
          [] e.L4STATE = 4 -> SENDL4DISC(r)
          [] OTHER -> [r EXCEPT !.OUT = @ \o r.L4HOLD_Q]

L4TIMEOUT(e, buffer) ==
    LET r == [e EXCEPT !.L4TIMER = FALSE, !.L4RETRIES = @ + 1]
        out == r.L4RETRIES > L4N2
    IN  CASE e.L4STATE = 0 -> [e EXCEPT !.L4TIMER = FALSE]
          [] e.L4STATE # 0 /\ out -> CLEARSESSIONENTRY(r)
          [] ~out /\ e.L4STATE = 2 -> SENDL4CONNECT(r, buffer)
          [] ~out /\ e.L4STATE = 4 -> SENDL4DISC(r)
          [] ~out /\ e.L4STATE = 5 -> [r EXCEPT !.CHOKED = FALSE, !.OUT = @ \o r.L4HOLD_Q]

\* What a pass of L4TimerProc finds on a circuit.
TimerEvents == {"BUSYOVER", "L4TIMER", "L4ACKREQ", "L4LIMIT"}

TimerEventPossible(e, ev) ==
    CASE ev = "BUSYOVER" -> e.BUSY /\ ~CHECKIFBUSYL4(e)
      [] ev = "L4TIMER"  -> e.L4TIMER
      [] ev = "L4ACKREQ" -> e.L4ACKREQ
      [] ev = "L4LIMIT"  -> e.L4STATE # 0

TimerEvent(e, ev, buffer) ==
    CASE ev = "BUSYOVER" -> [e EXCEPT !.BUSY = FALSE, !.L4ACKREQ = TRUE]
      [] ev = "L4TIMER"  -> L4TIMEOUT(e, buffer)
      [] ev = "L4ACKREQ" -> SENDL4IACK([e EXCEPT !.L4ACKREQ = FALSE])
      [] ev = "L4LIMIT"  -> CLOSECURRENTSESSION(e)
=============================================================================
