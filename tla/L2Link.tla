------------------------------- MODULE L2Link -------------------------------
(***************************************************************************)
(* The AX.25 data link of L2Code.c: one entry of LINKTABLE, and the        *)
(* handlers that change it, as operators from a station to a station.      *)
(*                                                                         *)
(* A station is the entry of the one link it has with its peer, the port's *)
(* queues PORTTX_Q and PORTRX_Q, and BUSY, which stands for the conditions that *)
(* make RR_OR_RNR answer RNR (free buffers short, or more than ten frames  *)
(* queued on the session the data goes to).  The operators carry the names *)
(* of the C functions and are composed in the order of the C calls.        *)
(*                                                                         *)
(* Payloads are numbers and NULL is 0.  A countdown timer is a BOOLEAN:    *)
(* running or not.  VER1FLAG is 0: both ends speak AX.25 version 2.        *)
(***************************************************************************)
EXTENDS Integers, Sequences, FiniteSets

CONSTANTS
    Modulus,     \* of the sequence numbers; also the slots of FRAMES: 8 in the code
    LINKWINDOW,  \* frames sent before a poll
    PORTN2       \* retries before a link is given up

ASSUME ModulusAssumption == Modulus \in Nat /\ Modulus >= 2
ASSUME WindowAssumption  == LINKWINDOW \in 1 .. Modulus - 1
ASSUME RetryAssumption   == PORTN2 \in 2 .. 253

NULL  == 0
SeqNo == 0 .. Modulus - 1

-----------------------------------------------------------------------------
(* Frames.  cmd tells a command from a response, pf is the poll/final bit. *)

Control == {"I", "RR", "RNR", "REJ", "SABM", "UA", "DISC", "DM", "FRMR"}

Frame == [ctl: Control, cmd: BOOLEAN, pf: BOOLEAN, nr: SeqNo, ns: SeqNo, info: Nat]

Command(ctl, nr) ==
    [ctl |-> ctl, cmd |-> TRUE, pf |-> TRUE, nr |-> nr, ns |-> 0, info |-> NULL]

Response(ctl, nr, pf) ==
    [ctl |-> ctl, cmd |-> FALSE, pf |-> pf, nr |-> nr, ns |-> 0, info |-> NULL]

Information(nr, ns, pf, info) ==
    [ctl |-> "I", cmd |-> TRUE, pf |-> pf, nr |-> nr, ns |-> ns, info |-> info]

-----------------------------------------------------------------------------
(* States: 0 no entry, 2 SABM sent, 3 frame reject, 4 disconnecting,       *)
(* 5 up, 6 up and a REJ is owed.  LINKTYPE is 1 for an uplink and 2 for a  *)
(* downlink.  SESSION is the L4TABLE entry whose L4TARGET is this link:    *)
(* none, calling (L4STATE 2, waiting for the answer to SABM) or up.        *)
(* CIRCUITPOINTER tells whether the link points to that table entry; it    *)
(* may, after the entry has been cleared.  CUTTX and CUTRX are history:    *)
(* CLEARL2QUEUES has emptied the link since its session layer last gave,   *)
(* or last took, a frame.                                                  *)

Session == {"none", "calling", "up"}

Station ==
    [L2STATE : 0 .. 6,
     LINKWS : SeqNo, LINKOWS : SeqNo, LINKNS : SeqNo, LINKNR : SeqNo,
     SDTSLOT : SeqNo, FRAMES : [SeqNo -> Nat],
     TX_Q : Seq(Nat), RX_Q : Seq(Nat),
     L2RETRIES : 0 .. 255,
     L2TIMER : BOOLEAN, L2ACKREQ : BOOLEAN, L2SLOTIM : BOOLEAN,
     RNRSET : BOOLEAN, RNRSENT : BOOLEAN, POLLSENT : BOOLEAN,
     REJSENT : BOOLEAN, DISCPENDING : BOOLEAN,
     SDREJF : BOOLEAN, SESSACTIVE : BOOLEAN, LAST_F : BOOLEAN,
     LINKTYPE : 0 .. 2, CIRCUITPOINTER : BOOLEAN, SESSION : Session,
     PORTTX_Q : Seq(Frame), PORTRX_Q : Seq(Frame), BUSY : BOOLEAN,
     CUTTX : BOOLEAN, CUTRX : BOOLEAN]

FreeEntry ==
    [L2STATE |-> 0,
     LINKWS |-> 0, LINKOWS |-> 0, LINKNS |-> 0, LINKNR |-> 0,
     SDTSLOT |-> 0, FRAMES |-> [i \in SeqNo |-> NULL],
     TX_Q |-> << >>, RX_Q |-> << >>,
     L2RETRIES |-> 0,
     L2TIMER |-> FALSE, L2ACKREQ |-> FALSE, L2SLOTIM |-> FALSE,
     RNRSET |-> FALSE, RNRSENT |-> FALSE, POLLSENT |-> FALSE,
     REJSENT |-> FALSE, DISCPENDING |-> FALSE,
     SDREJF |-> FALSE, SESSACTIVE |-> FALSE, LAST_F |-> FALSE,
     LINKTYPE |-> 0, CIRCUITPOINTER |-> FALSE, SESSION |-> "none",
     PORTTX_Q |-> << >>, PORTRX_Q |-> << >>, BUSY |-> FALSE,
     CUTTX |-> TRUE, CUTRX |-> TRUE]

Up(s) == s.L2STATE >= 5
Add(i, j) == (i + j) % Modulus
Distance(from, to) == (to - from) % Modulus

-----------------------------------------------------------------------------
(* Clearing an entry and its queues.                                       *)

RESET2X_KeepsOWS(s) ==          \* a mutant: LINKOWS is not reset
    [s EXCEPT !.SDREJF = FALSE, !.LINKWS = 0, !.LINKNR = 0, !.LINKNS = 0,
              !.SDTSLOT = 0, !.L2STATE = 5, !.RNRSET = FALSE, !.RNRSENT = FALSE,
              !.POLLSENT = FALSE, !.REJSENT = FALSE, !.DISCPENDING = FALSE]

RESET2X(s) ==
    [s EXCEPT !.SDREJF = FALSE, !.LINKWS = 0, !.LINKOWS = 0, !.LINKNR = 0,
              !.LINKNS = 0, !.SDTSLOT = 0, !.L2STATE = 5,
              !.RNRSET = FALSE, !.RNRSENT = FALSE, !.POLLSENT = FALSE,
              !.REJSENT = FALSE, !.DISCPENDING = FALSE]

CLEARL2QUEUES_KeepsFrames(s) == \* a mutant: sent frames stay in their slots
    [s EXCEPT !.TX_Q = << >>, !.RX_Q = << >>, !.CUTTX = TRUE, !.CUTRX = TRUE]

CLEARL2QUEUES(s) ==
    [s EXCEPT !.FRAMES = [i \in SeqNo |-> NULL], !.TX_Q = << >>, !.RX_Q = << >>,
              !.CUTTX = TRUE, !.CUTRX = TRUE]

RESET2(s) == RESET2X(CLEARL2QUEUES(s))

\* The entry is zeroed; what is not in it, the session and the port, stays.
CLEAROUTLINK(s) ==
    [FreeEntry EXCEPT !.SESSION = s.SESSION, !.PORTTX_Q = s.PORTTX_Q,
                      !.PORTRX_Q = s.PORTRX_Q, !.BUSY = s.BUSY]

InformPartner_Silent(s) == s      \* a mutant: the session is not told

\* CLEARSESSIONENTRY frees the session, the link goes on pointing to it.
InformPartner(s) ==
    IF s.CIRCUITPOINTER THEN [s EXCEPT !.SESSION = "none"] ELSE s

-----------------------------------------------------------------------------
(* Sending.  Every command this code sends carries the P bit, so its timer *)
(* is started.                                                             *)

PUT_ON_PORT_Q(s, f) == [s EXCEPT !.PORTTX_Q = Append(@, f)]

L2SENDCOMMAND_NoTimer(s, ctl, nr) ==   \* a mutant: the answer is not timed
    PUT_ON_PORT_Q(s, Command(ctl, nr))

L2SENDCOMMAND(s, ctl, nr) ==
    [PUT_ON_PORT_Q(s, Command(ctl, nr)) EXCEPT !.L2TIMER = TRUE]

L2SENDRESPONSE(s, ctl, pf) ==
    [PUT_ON_PORT_Q(s, Response(ctl, s.LINKNR, pf)) EXCEPT !.L2SLOTIM = TRUE]

\* UA and DM are made from the received frame, with or without a link entry.
L2SENDRESP(s, ctl) == PUT_ON_PORT_Q(s, Response(ctl, 0, TRUE))

SENDFRMR(s) == PUT_ON_PORT_Q(s, Response("FRMR", s.LINKNR, FALSE))

SDFRMR(s) == SENDFRMR([s EXCEPT !.L2STATE = 3, !.L2TIMER = TRUE])

\* The supervisory code to send, and the flag that remembers a busy report.
RR_OR_RNR(s) ==
    IF s.BUSY THEN "RNR" ELSE IF s.L2STATE = 6 THEN "REJ" ELSE "RR"

NoteRNR(s) == [s EXCEPT !.RNRSENT = s.BUSY]

SendSupervisCmd(s) ==
    [L2SENDCOMMAND([NoteRNR(s) EXCEPT !.L2ACKREQ = FALSE, !.POLLSENT = TRUE],
                   RR_OR_RNR(s), s.LINKNR)
       EXCEPT !.L2SLOTIM = TRUE]

ResetAndSABM(s) ==      \* answer to a FRMR in every state
    L2SENDCOMMAND([RESET2(s) EXCEPT !.L2STATE = 2, !.L2ACKREQ = FALSE,
                                    !.L2RETRIES = 0], "SABM", 0)

-----------------------------------------------------------------------------
(* Acknowledgement.                                                        *)

\* Mutants: an acked frame stays in its slot, or one too many is released.
Acked_Last(s, i) == Distance(s.LINKOWS, i) + 1 < Distance(s.LINKOWS, s.LINKWS)
Acked_OneMore(s, i) ==
    s.LINKOWS # s.LINKWS /\ Distance(s.LINKOWS, i) <= Distance(s.LINKOWS, s.LINKWS)

\* The slots from LINKOWS up to LINKWS.
Acked(s, i) == Distance(s.LINKOWS, i) < Distance(s.LINKOWS, s.LINKWS)

\* What is acked is released; a link that is retrying goes back to its first
\* retry; DISC follows when a close was waiting.
ACKMSG(s) ==
    LET r == [s EXCEPT
                !.FRAMES = [i \in SeqNo |-> IF Acked(s, i) THEN NULL ELSE @[i]],
                !.LINKOWS = s.LINKWS,
                !.L2RETRIES = IF s.LINKOWS # s.LINKWS /\ @ # 0 THEN 1 ELSE @]
        q == IF r.L2RETRIES = 0 THEN [r EXCEPT !.L2TIMER = FALSE, !.POLLSENT = FALSE]
                                ELSE r
    IN  IF r.LINKWS # r.LINKNS
        THEN [r EXCEPT !.L2TIMER = TRUE]
        ELSE IF q.DISCPENDING /\ q.TX_Q = << >>
             THEN [q EXCEPT !.DISCPENDING = FALSE, !.L2TIMER = TRUE, !.L2STATE = 4]
             ELSE q

\* The comparisons of SDNRCHK, in its order.
NRAccepted(s, nr) ==
    IF nr >= s.LINKWS THEN nr <= s.LINKNS \/ s.LINKNS < s.LINKWS
                      ELSE nr <= s.LINKNS

SDNRCHK(s, nr) ==
    IF NRAccepted(s, nr) THEN ACKMSG([s EXCEPT !.LINKWS = nr])
                         ELSE [s EXCEPT !.SDREJF = TRUE]

SEND_RR_RESP(s, pf) == ACKMSG(L2SENDRESPONSE(NoteRNR(s), RR_OR_RNR(s), pf))

-----------------------------------------------------------------------------
(* Sending information frames.                                             *)

COUNT_AT_L2(s) == Len(s.TX_Q) + Cardinality({i \in SeqNo : s.FRAMES[i] # NULL})

\* As many frames of TX_Q as there are free slots in a row from SDTSLOT.
LoadFrames(s) ==
    LET loads == {j \in 1 .. Modulus : \A i \in 1 .. j :
                    i <= Len(s.TX_Q) /\ s.FRAMES[Add(s.SDTSLOT, i - 1)] = NULL}
        k     == Cardinality(loads)
    IN  [s EXCEPT
           !.FRAMES  = [i \in SeqNo |-> IF Distance(s.SDTSLOT, i) + 1 \in loads
                                        THEN s.TX_Q[Distance(s.SDTSLOT, i) + 1]
                                        ELSE @[i]],
           !.TX_Q    = SubSeq(@, k + 1, Len(@)),
           !.SDTSLOT = Add(@, k)]

\* The I frame after which SDETX sets P: it fills the window, or no frame is
\* loaded after it.
PollAfter(s, k) ==
    \/ Distance(s.LINKOWS, Add(s.LINKNS, k)) >= LINKWINDOW
    \/ s.FRAMES[Add(s.LINKNS, k)] = NULL

AfterSending_NoT3(s) ==           \* a mutant: no validation poll
    [s EXCEPT !.L2ACKREQ = FALSE, !.L2TIMER = TRUE, !.POLLSENT = TRUE]

AfterSending(s) ==
    [s EXCEPT !.L2ACKREQ = FALSE, !.L2SLOTIM = TRUE, !.L2TIMER = TRUE, !.POLLSENT = TRUE]

\* The frames from LINKNS up to the first one with P.
SendIFrames(s) ==
    LET k == Cardinality({j \in 1 .. Modulus : \A i \in 1 .. j - 1 : ~PollAfter(s, i)})
        I(j) == Information(s.LINKNR, Add(s.LINKNS, j - 1), j = k,
                            s.FRAMES[Add(s.LINKNS, j - 1)])
    IN  AfterSending([s EXCEPT !.PORTTX_Q = @ \o [j \in 1 .. k |-> I(j)],
                               !.LINKNS = Add(@, k)])

SDETX(s) ==
    IF Distance(s.LINKOWS, s.LINKWS) >= LINKWINDOW THEN s
    ELSE LET l == LoadFrames(s)
         IN  IF l.POLLSENT \/ l.FRAMES[l.LINKNS] = NULL THEN l ELSE SendIFrames(l)

-----------------------------------------------------------------------------
(* Receiving.                                                              *)

PROC_I_FRAME_NoWrap(s, f) ==      \* a mutant: the mask is missing
    LET r == [s EXCEPT !.LINKNR = @ + 1]
    IN  IF s.DISCPENDING THEN r
        ELSE [r EXCEPT !.RX_Q = Append(@, f.info), !.L2ACKREQ = TRUE]

PROC_I_FRAME(s, f) ==
    LET r == [s EXCEPT !.LINKNR = Add(@, 1)]
    IN  IF s.DISCPENDING THEN r
        ELSE [r EXCEPT !.RX_Q = Append(@, f.info), !.L2ACKREQ = TRUE]

FinalForPoll(s, f) ==    \* the CheckPF tail of SDIFRM
    IF s.REJSENT \/ ~f.pf THEN s
    ELSE [SEND_RR_RESP([s EXCEPT !.REJSENT = (s.L2STATE = 6), !.L2ACKREQ = FALSE], TRUE)
            EXCEPT !.LAST_F = TRUE]

InSequence_Any(s, f) == TRUE      \* a mutant: no sequence check

InSequence(s, f) == f.ns = s.LINKNR

SDIFRM(s, f) ==
    LET r == IF s.SDREJF THEN s ELSE SDNRCHK(s, f.nr)
        a == [r EXCEPT !.SESSACTIVE = TRUE]
    IN  IF r.SDREJF THEN SDFRMR(r)
        ELSE IF ~InSequence(r, f)
        THEN FinalForPoll([a EXCEPT !.L2STATE = 6, !.L2ACKREQ = TRUE], f)
        ELSE FinalForPoll(
               PROC_I_FRAME(IF a.L2STATE = 6
                            THEN [a EXCEPT !.L2STATE = 5, !.REJSENT = FALSE]
                            ELSE a, f), f)

SupervisoryCommand(s) ==     \* SFRAME, a command: answer unless F went out recently
    IF s.LAST_F THEN s
    ELSE [L2SENDRESPONSE(NoteRNR(s), RR_OR_RNR(s), TRUE)
            EXCEPT !.L2ACKREQ = FALSE, !.LAST_F = TRUE]

SupervisoryFinal_NoResend(s, f) ==  \* a mutant: LINKNS does not go back
    LET r == [s EXCEPT !.POLLSENT = FALSE]
        q == IF f.ctl = "REJ" \/ s.L2RETRIES # 0
             THEN [r EXCEPT !.L2RETRIES = 0, !.L2TIMER = FALSE]
             ELSE r
    IN  IF f.ctl = "RNR" THEN [q EXCEPT !.L2TIMER = TRUE] ELSE q

SupervisoryFinal(s, f) ==    \* SFRAME, a response with F
    LET r == [s EXCEPT !.POLLSENT = FALSE]
        q == IF f.ctl = "REJ" \/ s.L2RETRIES # 0
             THEN [r EXCEPT !.LINKNS = f.nr, !.L2RETRIES = 0, !.L2TIMER = FALSE]
             ELSE r
    IN  IF f.ctl = "RNR" THEN [q EXCEPT !.L2TIMER = TRUE] ELSE q

NotePeerBusy(s, f) == [s EXCEPT !.RNRSET = (f.ctl = "RNR")]

SFRAME(s, f) ==
    LET r == IF s.SDREJF THEN s ELSE SDNRCHK(s, f.nr)
        v == NotePeerBusy(r, f)
    IN  IF r.SDREJF THEN SDFRMR(r)
        ELSE IF f.cmd THEN SupervisoryCommand(v)
        ELSE IF f.pf THEN SupervisoryFinal(v, f)
        ELSE v

SDUFRM(s, f) ==
    CASE f.ctl = "FRMR" -> ResetAndSABM(s)
      [] f.ctl = "DM"   -> CLEAROUTLINK(InformPartner(s))
      [] OTHER          -> s           \* UA, a repeat

\* UA, DM and FRMR while the link is not up.
SetupOrClearing(s, f) ==
    CASE f.ctl = "UA" /\ s.L2STATE = 2 ->
            [RESET2X(s) EXCEPT !.L2TIMER = FALSE, !.L2RETRIES = 0,
                               !.SESSION = IF s.CIRCUITPOINTER /\ @ = "calling" THEN "up" ELSE @]
      [] f.ctl = "UA" /\ s.L2STATE = 4 -> CLEAROUTLINK(InformPartner(s))
      [] f.ctl = "DM" /\ s.L2STATE = 2 -> InformPartner(s)     \* CONNECTREFUSED
      [] f.ctl = "DM" /\ s.L2STATE # 2 -> CLEAROUTLINK(InformPartner(s))
      [] f.ctl = "FRMR" -> ResetAndSABM(s)
      [] OTHER -> s

\* A FRMR with P would reset the link in state 3, but none is sent with P.
L2_PROCESS(s0, f) ==
    LET s == IF ~f.cmd /\ f.pf THEN [s0 EXCEPT !.L2TIMER = FALSE] ELSE s0
    IN  CASE s.L2STATE = 3 -> IF f.cmd THEN SENDFRMR(s) ELSE s
          [] Up(s) /\ f.ctl = "I" -> SDIFRM(s, f)
          [] Up(s) /\ f.ctl \in {"UA", "DM", "FRMR"} -> SDUFRM(s, f)
          [] Up(s) /\ f.ctl \in {"RR", "RNR", "REJ"} -> SFRAME(s, f)
          [] OTHER -> SetupOrClearing(s, f)

\* An entry for the caller.  CIRCUITPOINTER, L2RETRIES, SESSACTIVE and the
\* delayed-ack timer of an entry that is reset are left alone.
SETUPNEWL2SESSION(s) ==
    [RESET2(s) EXCEPT !.LINKTYPE = IF @ = 0 THEN 1 ELSE @, !.L2TIMER = FALSE,
                      !.L2SLOTIM = TRUE, !.L2STATE = 5]

SetupSessionForL2(s) == [s EXCEPT !.CIRCUITPOINTER = TRUE, !.SESSION = "up"]

\* What a station does with a caller.  kind: "node" (a connect to the node),
\* "appl" (to an application, which gets a session at once), "noappl" (no
\* session entry or no application free) or "limit" (the port's USERS are
\* reached or LINKS is full).  ctext is the sign-on of the node, or NULL.
AnswerKind == {"node", "appl", "noappl", "limit"}
Answers == [kind : AnswerKind, ctext : Nat]

L2SABM(s, answer) ==
    LET r == SETUPNEWL2SESSION(s)
        t == IF answer.kind = "node" /\ answer.ctext # NULL
             THEN [r EXCEPT !.TX_Q = Append(@, answer.ctext)]
             ELSE r
        attach == answer.kind # "node" /\ r.LINKTYPE = 1 /\ ~r.CIRCUITPOINTER
    IN  IF ~attach THEN L2SENDRESP(t, "UA")
        ELSE IF answer.kind = "appl" THEN L2SENDRESP(SetupSessionForL2(r), "UA")
        ELSE L2SENDRESP(CLEAROUTLINK(r), "DM")

L2LINKACTIVE(s, f, answer) ==
    CASE f.ctl = "DISC" -> L2SENDRESP(CLEAROUTLINK(InformPartner(s)), "UA")
      [] f.ctl = "SABM" /\ s.L2STATE = 4 -> L2SENDRESP(s, "DM")
      [] f.ctl = "SABM" /\ s.L2STATE # 4 /\ ~s.SESSACTIVE -> L2SENDRESP(s, "UA")
      [] f.ctl = "SABM" /\ s.L2STATE # 4 /\ s.SESSACTIVE ->
            L2SABM(InformPartner(s), answer)
      [] OTHER -> L2_PROCESS(s, f)

L2FORUS(s, f, answer) ==
    CASE f.ctl = "SABM" -> IF answer.kind = "limit" THEN L2SENDRESP(s, "DM")
                           ELSE L2SABM(s, answer)
      [] f.ctl # "SABM" /\ f.cmd /\ f.pf -> L2SENDRESP(s, "DM")
      [] OTHER -> s

L2Routine(s, f, answer) ==
    IF s.L2STATE = 0 THEN L2FORUS(s, f, answer) ELSE L2LINKACTIVE(s, f, answer)

-----------------------------------------------------------------------------
(* Timers.                                                                 *)

Retry(s) == [s EXCEPT !.L2RETRIES = (@ + 1) % 256]

\* State 5 and above, and state 3 when it has retries left.
PollOrClose(s) ==
    LET r == Retry(s)
    IN  IF r.L2RETRIES >= PORTN2
        THEN L2SENDCOMMAND([InformPartner(r) EXCEPT !.L2RETRIES = 254, !.L2STATE = 4],
                           "DISC", 0)
        ELSE SendSupervisCmd(r)

RepeatDisc_Never(s) == s          \* a mutant: state 4 is passed over

RepeatDisc(s) ==
    LET r == Retry(s)
    IN  IF r.L2RETRIES >= PORTN2 THEN CLEAROUTLINK(r) ELSE L2SENDCOMMAND(r, "DISC", 0)

L2TIMEOUT(s) ==
    LET r == Retry(s)
        out == r.L2RETRIES >= PORTN2
    IN  CASE s.L2STATE <= 1 -> s
          [] s.L2STATE = 2 -> IF out THEN CLEAROUTLINK(InformPartner(r))  \* CONNECTFAILED
                              ELSE L2SENDCOMMAND(r, "SABM", 0)
          [] s.L2STATE = 4 -> RepeatDisc(s)
          [] s.L2STATE = 3 -> IF out
                              THEN L2SENDCOMMAND([r EXCEPT !.L2RETRIES = 0, !.L2STATE = 2],
                                                 "SABM", 0)
                              ELSE PollOrClose(r)
          [] OTHER -> PollOrClose(s)

\* L2KILLTIME without an I frame.
KillIdle(s) == InformPartner([s EXCEPT !.L2TIMER = TRUE, !.L2STATE = 4])

\* What one pass of L2TimerProc over the link finds: the link timer at zero, a
\* busy report to be withdrawn, the delayed ack or the link validation poll
\* due, the idle limit passed, or nothing.  A find ends the pass.
TimerEvents == {"L2TIMER", "BUSYOVER", "L2ACKREQ", "L2SLOTIM", "KILLTIMER", "QUIET"}

HangGuard_OnlyClosing(s) ==       \* a mutant: state 3 is not watched
    IF ~s.L2TIMER /\ s.L2STATE = 4 THEN [s EXCEPT !.L2TIMER = TRUE] ELSE s

\* A timer not running below state 5 is restarted, except in state 2.
HangGuard(s) ==
    IF ~s.L2TIMER /\ s.L2STATE < 5 /\ s.L2STATE # 2 THEN [s EXCEPT !.L2TIMER = TRUE] ELSE s

\* RR_OR_RNR is asked again while a busy report stands.
CheckBusy(s) ==
    IF s.RNRSENT /\ ~s.BUSY THEN [s EXCEPT !.RNRSENT = FALSE, !.L2ACKREQ = FALSE] ELSE s

TimerEventPossible(s, ev) ==
    LET busyOver == s.RNRSENT /\ ~s.BUSY /\ s.L2RETRIES = 0
    IN  /\ s.L2STATE # 0
        /\ CASE ev = "L2TIMER"   -> s.L2TIMER
             [] ev = "BUSYOVER"  -> busyOver
             [] ev = "L2ACKREQ"  -> s.L2ACKREQ /\ ~s.RNRSENT /\ s.L2RETRIES = 0
             [] ev = "L2SLOTIM"  -> s.L2SLOTIM /\ ~busyOver
             [] ev \in {"KILLTIMER", "QUIET"} -> ~busyOver

L2TimerProc(s, ev) ==
    LET g == HangGuard(s)
        c == CheckBusy(g)
    IN  CASE ev = "L2TIMER"   -> L2TIMEOUT([s EXCEPT !.L2TIMER = FALSE])
          [] ev = "BUSYOVER"  -> SendSupervisCmd(c)
          [] ev = "L2ACKREQ"  -> SEND_RR_RESP([g EXCEPT !.L2ACKREQ = FALSE], FALSE)
          [] ev = "L2SLOTIM"  -> SendSupervisCmd([c EXCEPT !.L2SLOTIM = FALSE])
          [] ev = "KILLTIMER" -> KillIdle(c)
          [] ev = "QUIET"     -> c
=============================================================================
