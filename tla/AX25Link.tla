------------------------------ MODULE AX25Link ------------------------------
(***************************************************************************)
(* Two stations run the data link of L2Link over a radio channel.          *)
(*                                                                         *)
(* TIMERINTERRUPT (cMain.c) runs every 100 ms under one semaphore: the     *)
(* link timers, then every frame the port has received, then, for each     *)
(* link, the frames on RX_Q to the session layer and SDETX.  Nothing else  *)
(* happens during a run (running): the stations share only the air, so     *)
(* what the other one does meanwhile it may as well do before or after.    *)
(* The session layer calls between runs: it connects, sends, closes, or    *)
(* cancels a connect.                                                      *)
(*                                                                         *)
(* The frames a station has sent and its peer has not yet handled are the  *)
(* sender's PORTTX_Q: queue and air keep their order, and the air may lose *)
(* any frame.                                                              *)
(***************************************************************************)
EXTENDS L2Link, SequencesExt

CONSTANTS
    A, B,          \* the two stations
    Answer,        \* Answer[n]: the kinds of answer a caller of n may get
    CTEXTMSG,      \* stations that greet a caller of the node with CTEXT
    CanClose,      \* stations whose session layer may close the link
    CanBeBusy,     \* stations that may run out of buffers, or whose session may lag
    MaxConnect,    \* bound: connects by each station
    MaxMsg,        \* bound: frames given to the link by each station, as a function
    MaxLoss,       \* bound: frames lost
    MaxBusy,       \* bound: times a station becomes busy
    MaxRestart,    \* bound: restarts of a station
    MaxSpurious,   \* bound: timers that expire while the answer is still on its way
    MaxTrouble,    \* bound: the last four together
    IdleTimeouts,  \* TRUE when L2KILLTIME is set
    MaxQ           \* bound: frames under way from a station when a timer fires

Node == {A, B}
Peer(n) == IF n = A THEN B ELSE A

Idle == "idle"

ASSUME NodeAssumption == A # B /\ Idle \notin Node
ASSUME BoundsAssumption ==
    /\ Answer \in [Node -> SUBSET AnswerKind \ {{}}]
    /\ CTEXTMSG \subseteq Node /\ CanClose \subseteq Node /\ CanBeBusy \subseteq Node
    /\ MaxConnect \in [Node -> Nat] /\ MaxMsg \in [Node -> Nat]
    /\ MaxLoss \in Nat /\ MaxBusy \in Nat /\ MaxRestart \in Nat /\ MaxSpurious \in Nat
    /\ MaxTrouble \in Nat /\ MaxQ \in Nat /\ IdleTimeouts \in BOOLEAN

VARIABLES
    station,   \* station[n]: the link entry and port queues of n
    running,   \* the station whose TIMERINTERRUPT runs, or Idle
    given,     \* history: given[n][i] tells of the i-th frame n's session layer gave
               \* whether the link was emptied since the one before
    taken,     \* history: the frames n's session layer took, told likewise
    used       \* how much of each bound has been used

vars == << station, running, given, taken, used >>

TypeOK ==
    /\ station \in [Node -> Station]
    /\ running \in Node \cup {Idle}
    /\ given \in [Node -> Seq(BOOLEAN)]
    /\ taken \in [Node -> Seq([info : Nat, cut : BOOLEAN])]
    /\ used \in [connect : [Node -> Nat], loss : Nat, busy : Nat, restart : Nat,
                 spurious : Nat]

Init ==
    /\ station = [n \in Node |-> FreeEntry]
    /\ running = Idle
    /\ given = [n \in Node |-> << >>]
    /\ taken = [n \in Node |-> << >>]
    /\ used = [connect |-> [n \in Node |-> 0], loss |-> 0, busy |-> 0, restart |-> 0,
               spurious |-> 0]

-----------------------------------------------------------------------------
(* TIMERINTERRUPT.                                                         *)

\* The sign-on message n would send: the next of its frames, if it sends one.
SignOn(n) ==
    IF n \in CTEXTMSG /\ Len(given[n]) < MaxMsg[n] THEN Len(given[n]) + 1 ELSE NULL

\* ProcessIframe: the first frame of an uplink makes its session.
ProcessIframes(s) ==
    IF s.RX_Q = << >> THEN s
    ELSE LET r == [s EXCEPT !.RX_Q = << >>, !.CUTRX = FALSE]
         IN  IF s.CIRCUITPOINTER THEN r ELSE SetupSessionForL2(r)

LinkPass(s) ==
    LET p == ProcessIframes(s)
    IN  IF Up(p) /\ ~p.RNRSET THEN SDETX(p) ELSE p

\* A timer that fires with frames still under way is early: the delay of the
\* channel is what T1 is there to cover.  So is the validation poll or the idle
\* limit, minutes both, before T1 or the two ticks of the hang guard are over.
Early(n, ev) ==
    \/ /\ ev \in {"L2TIMER", "L2SLOTIM", "KILLTIMER"}
       /\ \E m \in Node : station[m].PORTTX_Q # << >>
    \/ /\ ev \in {"L2SLOTIM", "KILLTIMER"}
       /\ HangGuard(station[n]).L2TIMER

\* The frames under way to n.
Waiting(n) == Len(station[Peer(n)].PORTTX_Q)

\* A run starts: the timers leave the link as s, and k frames come in.
StartRun(n, s, k) ==
    /\ running = Idle
    /\ station' = [station EXCEPT
          ![n] = [s EXCEPT !.PORTRX_Q = SubSeq(station[Peer(n)].PORTTX_Q, 1, k)],
          ![Peer(n)].PORTTX_Q = SubSeq(@, k + 1, Len(@))]
    /\ running' = n
    /\ UNCHANGED << given, taken >>

\* What may go wrong has not yet done so too often.
TroubleLeft == used.loss + used.busy + used.restart + used.spurious < MaxTrouble

\* No timer is due.
RunPort(n, k) ==
    /\ StartRun(n, station[n], k)
    /\ UNCHANGED used

RunTimers(n, ev, k) ==
    /\ TimerEventPossible(station[n], ev)
    /\ Len(station[n].PORTTX_Q) < MaxQ
    /\ ev = "KILLTIMER" => IdleTimeouts
    /\ Early(n, ev) => used.spurious < MaxSpurious /\ TroubleLeft
    /\ StartRun(n, L2TimerProc(station[n], ev), k)
    /\ used' = [used EXCEPT !.spurious = IF Early(n, ev) THEN @ + 1 ELSE @]

\* The next of the frames that came in; kind is the answer if it is a caller.
ReceiveFrame(n, kind) ==
    LET s == station[n]
        answer == [kind |-> kind, ctext |-> SignOn(n)]
        r == L2Routine([s EXCEPT !.PORTRX_Q = Tail(@)], Head(s.PORTRX_Q), answer)
        signedOn == SignOn(n) # NULL /\ SignOn(n) \in ToSet(r.TX_Q)
    IN  /\ running = n
        /\ s.PORTRX_Q # << >>
        /\ station' = [station EXCEPT ![n] = [r EXCEPT !.CUTTX = @ /\ ~signedOn]]
        /\ given' = [given EXCEPT ![n] = IF signedOn THEN Append(@, r.CUTTX) ELSE @]
        /\ UNCHANGED << running, taken, used >>

\* The run ends with the link pass.
RunLinks(n) ==
    LET s == station[n]
    IN  /\ running = n
        /\ s.PORTRX_Q = << >>
        /\ station' = [station EXCEPT ![n] = LinkPass(s)]
        /\ taken' = [taken EXCEPT ![n] = @ \o
                       [i \in DOMAIN s.RX_Q |-> [info |-> s.RX_Q[i], cut |-> s.CUTRX /\ i = 1]]]
        /\ running' = Idle
        /\ UNCHANGED << given, used >>

FTimePasses(n) ==    \* 15 ticks since an F was sent
    /\ running = Idle
    /\ station[n].LAST_F
    /\ station' = [station EXCEPT ![n].LAST_F = FALSE]
    /\ UNCHANGED << running, given, taken, used >>

-----------------------------------------------------------------------------
(* The session layer: Cmd.c and L4Code.c calling the link.                 *)

\* The CONNECT command: a free entry, or the entry that has the same calls.
Connect(n) ==
    /\ running = Idle
    /\ station[n].SESSION = "none"
    /\ used.connect[n] < MaxConnect[n]
    /\ station' = [station EXCEPT ![n] =
          L2SENDCOMMAND([RESET2(@) EXCEPT !.LINKTYPE = 2, !.L2STATE = 2,
                                          !.CIRCUITPOINTER = TRUE,
                                          !.SESSION = "calling"], "SABM", 0)]
    /\ used' = [used EXCEPT !.connect[n] = @ + 1]
    /\ UNCHANGED << running, given, taken >>

\* L4BG: a frame of the session to the link, unless the link has enough.
Send(n) ==
    /\ running = Idle
    /\ station[n].SESSION = "up"
    /\ COUNT_AT_L2(station[n]) <= 5
    /\ Len(given[n]) < MaxMsg[n]
    /\ station' = [station EXCEPT ![n].TX_Q = Append(@, Len(given[n]) + 1),
                                  ![n].CUTTX = FALSE]
    /\ given' = [given EXCEPT ![n] = Append(@, station[n].CUTTX)]
    /\ UNCHANGED << running, taken, used >>

\* CLOSECURRENTSESSION with k frames still on the session's L4TX_Q.
CLOSECURRENTSESSION(s, pending) ==
    LET r == [s EXCEPT !.TX_Q = @ \o pending, !.CIRCUITPOINTER = FALSE,
                        !.SESSION = "none", !.CUTTX = @ /\ pending = << >>]
    IN  IF r.LINKWS # r.LINKNS \/ r.TX_Q # << >>
        THEN [r EXCEPT !.DISCPENDING = TRUE]
        ELSE [r EXCEPT !.L2STATE = 4, !.L2TIMER = TRUE]

Close(n) ==
    /\ running = Idle
    /\ n \in CanClose
    /\ station[n].SESSION # "none"
    /\ \E k \in 0 .. MaxMsg[n] - Len(given[n]) :
          /\ station[n].SESSION = "calling" => k = 0
          /\ station' = [station EXCEPT ![n] =
                            CLOSECURRENTSESSION(@, [i \in 1 .. k |-> Len(given[n]) + i])]
          /\ given' = [given EXCEPT ![n] = @ \o [i \in 1 .. k |-> station[n].CUTTX /\ i = 1]]
    /\ UNCHANGED << running, taken, used >>

\* IFRM150: the user types before the link is up.
CancelConnect(n) ==
    /\ running = Idle
    /\ n \in CanClose
    /\ station[n].SESSION = "calling"
    /\ station' = [station EXCEPT ![n].CIRCUITPOINTER = FALSE, ![n].SESSION = "none",
                                  ![n].L2STATE = 4, ![n].L2TIMER = TRUE,
                                  ![n].L2RETRIES = PORTN2 - 2]
    /\ UNCHANGED << running, given, taken, used >>

-----------------------------------------------------------------------------
(* The surroundings.                                                       *)

LoseFrame(n) ==
    /\ running = Idle
    /\ used.loss < MaxLoss /\ TroubleLeft
    /\ \E i \in DOMAIN station[n].PORTTX_Q :
          station' = [station EXCEPT ![n].PORTTX_Q = RemoveAt(@, i)]
    /\ used' = [used EXCEPT !.loss = @ + 1]
    /\ UNCHANGED << running, given, taken >>

BecomeBusy(n) ==
    /\ running = Idle
    /\ n \in CanBeBusy /\ ~station[n].BUSY
    /\ used.busy < MaxBusy /\ TroubleLeft
    /\ station' = [station EXCEPT ![n].BUSY = TRUE]
    /\ used' = [used EXCEPT !.busy = @ + 1]
    /\ UNCHANGED << running, given, taken >>

BecomeFree(n) ==
    /\ running = Idle
    /\ station[n].BUSY
    /\ station' = [station EXCEPT ![n].BUSY = FALSE]
    /\ UNCHANGED << running, given, taken, used >>

\* The program is started again: LINKS and the port queues are empty.
Restart(n) ==
    /\ running = Idle
    /\ used.restart < MaxRestart /\ TroubleLeft
    /\ station' = [station EXCEPT ![n] = FreeEntry]
    /\ used' = [used EXCEPT !.restart = @ + 1]
    /\ UNCHANGED << running, given, taken >>

Next ==
    \E n \in Node :
        \/ \E k \in 0 .. Waiting(n) : RunPort(n, k)
        \/ \E k \in 0 .. Waiting(n), ev \in TimerEvents : RunTimers(n, ev, k)
        \/ \E kind \in Answer[n] : ReceiveFrame(n, kind)
        \/ RunLinks(n)
        \/ FTimePasses(n)
        \/ Connect(n) \/ Send(n) \/ Close(n) \/ CancelConnect(n)
        \/ LoseFrame(n) \/ BecomeBusy(n) \/ BecomeFree(n) \/ Restart(n)

Spec == Init /\ [][Next]_vars

\* TIMERINTERRUPT runs every 100 ms at either end and comes to its end, and what
\* is sent is lost or received in time.  L2TimerProc passes over each link again
\* and again, so a hang is noticed, a busy report is withdrawn once the station is
\* no longer busy, and a timer that runs again and again expires.  What makes a
\* station busy passes: sessions drain their queues and buffers are freed.
Fairness ==
    /\ []<>(running = Idle)
    /\ \A n \in Node :
          /\ []<>(running = n)
          /\ []<>(station[n].PORTTX_Q = << >>)
          /\ []<>(HangGuard(station[n]) = station[n])
          /\ []<>(~station[n].BUSY)
          /\ []<>(~TimerEventPossible(station[n], "BUSYOVER"))
          /\ SF_vars(\E ev \in {"L2TIMER", "L2SLOTIM"} : RunTimers(n, ev, Waiting(n)))

FairSpec == Spec /\ Fairness

-----------------------------------------------------------------------------
(* Properties.                                                             *)

\* What a session layer gets from the link is what the other one gave, in
\* the order given and never twice, over any number of connections.
InOrderOnce ==
    \A n \in Node : \A i, j \in DOMAIN taken[n] :
        i < j => taken[n][i].info < taken[n][j].info

\* The link keeps the promise of L2Delivery: nothing is lost, repeated or
\* reordered while neither end empties its link.
Delivery == INSTANCE L2Delivery WITH given <- given, taken <- taken
Delivers == Delivery!Spec

\* The handlers leave LINKOWS at LINKWS: every frame whose ack was accepted
\* has been released.
AcksAreSettled == \A n \in Node : station[n].LINKOWS = station[n].LINKWS

\* As long as no timer has expired early, FRAMES of a link that is up holds the
\* frames from LINKOWS to before SDTSLOT and no other, and LINKNS is among them
\* or just after.
SlotsMatchWindow ==
    used.spurious = 0 =>
    \A n \in Node : LET s == station[n]
                         loaded == Cardinality({i \in SeqNo : s.FRAMES[i] # NULL})
                     IN  Up(s) => /\ \A i \in SeqNo : Distance(s.LINKOWS, i) < loaded
                                                      <=> s.FRAMES[i] # NULL
                                  /\ s.SDTSLOT = Add(s.LINKOWS, loaded)
                                  /\ Distance(s.LINKOWS, s.LINKNS) <= loaded

\* A link that is up and waits for its peer has a timer that will make it ask.
NoSilentStall ==
    \A n \in Node : LET s == station[n]
                     IN  Up(s) /\ (s.LINKWS # s.LINKNS \/ s.POLLSENT)
                            => s.L2TIMER \/ s.L2SLOTIM

\* The link of n was not emptied since its session layer gave frame i.
Current(n, i) ==
    /\ i \in DOMAIN given[n] /\ ~station[n].CUTTX
    /\ \A j \in i + 1 .. Len(given[n]) : ~given[n][j]

HasTaken(n, i) == \E j \in DOMAIN taken[n] : taken[n][j].info = i

\* A frame given to a link that is still up is with the link, or with the other
\* session layer: no acknowledgement releases what was not received.
NothingForgotten ==
    \A n \in Node : \A i \in DOMAIN given[n] :
        LET s == station[n]
        IN  Current(n, i) /\ Up(s) =>
                \/ i \in ToSet(s.TX_Q) \/ \E q \in SeqNo : s.FRAMES[q] = i
                \/ i \in ToSet(station[Peer(n)].RX_Q)
                \/ HasTaken(Peer(n), i)

\* A frame given is taken in the end, or the session that gave it is told that
\* the link is gone.
AllTaken ==
    \A n \in Node : \A i \in 1 .. MaxMsg[n] :
        []<>(Current(n, i) /\ station[n].SESSION = "up" => HasTaken(Peer(n), i))

\* A session is never left without its link: while the session layer has one the
\* link's entry is in use and points to it.
SessionsHaveLinks ==
    \A n \in Node : station[n].SESSION # "none" =>
        station[n].CIRCUITPOINTER /\ station[n].L2STATE >= 2

\* "SEND DISC WHEN ALL DATA ACK'ED" (L2Code.c:50): a close that waits becomes a
\* disconnect only when every frame given to the link has been acknowledged.
DiscAfterAllAcked ==
    [][\A n \in Node :
          /\ station[n].DISCPENDING
          /\ station'[n].L2STATE = 4 /\ ~station'[n].DISCPENDING
          /\ running = n
          => /\ station'[n].TX_Q = << >>
             /\ \A i \in SeqNo : station'[n].FRAMES[i] = NULL]_vars

\* "N(R) LESS THAN WINDOW START - ONLY OK IF WINDOW WRAPS" (L2Code.c:1751): the
\* window start moves no further than the frames that were sent.
AcksInsideWindow ==
    [][\A n \in Node :
          LET s == station[n]
              t == station'[n]
          IN  Up(s) /\ Up(t) /\ s.LINKWS # t.LINKWS /\ ~t.CUTTX
              => Distance(s.LINKWS, t.LINKWS) <= Distance(s.LINKWS, s.LINKNS)]_vars

\* A connect is answered or given up.
ConnectEnds == \A n \in Node : []<>(station[n].SESSION # "calling")

\* A link that disconnects is gone in the end.
CloseEnds == \A n \in Node : []<>(station[n].L2STATE # 4)

\* A link in frame reject is set up again or given up, whatever stopped its timer:
\* an F that arrives in state 3 stops it (L2_PROCESS), and nothing but the hang
\* guard starts it again.
FrameRejectEnds == \A n \in Node : []<>(station[n].L2STATE # 3)
=============================================================================
