--------------------------- MODULE AX25LinkProofs ---------------------------
(***************************************************************************)
(* Type correctness and two safety properties of AX25Link, for any modulus,*)
(* window, number of retries and bounds.                                   *)
(*                                                                         *)
(* The first part is about L2Link: every handler keeps a link entry Good.  *)
(* Its fields keep their types, what was acknowledged has been released,   *)
(* and an up link that has anything outstanding has a timer that makes it  *)
(* ask its peer again.  There is one lemma per operator, in the order of   *)
(* the module, up to RoutineGood (any frame received) and TimerProcGood    *)
(* (any timer event).  Operators between two states that are not Good, as  *)
(* after an N(R) is taken and before ACKMSG, have what they need instead   *)
(* as hypothesis.                                                          *)
(*                                                                         *)
(* A station has 29 fields, too many for the provers to see at once that   *)
(* an update is again in Station.  So an update is shown to be a record    *)
(* with the fields of a station (IsRecord) and each field to have its type *)
(* (FieldsOK), and StationIntro puts the two together.                     *)
(*                                                                         *)
(* The second part is about the two stations.  The inductive invariant is  *)
(* the type invariant with Good of each station.  Init gives it, and there *)
(* is one lemma per action of Next: the action changes one station by      *)
(* operators that keep it Good, or moves frames from one port queue to the *)
(* other.                                                                  *)
(***************************************************************************)
EXTENDS AX25Link, FiniteSetTheorems, SequenceTheorems, TLAPS

-----------------------------------------------------------------------------
(* The handlers of a station.                                              *)

\* A link whose validation timer (T3) was never started has sent no I frame and
\* no poll since it came up.  Nothing stops the timer without sending a poll.
Quiet(s) == ~s.L2SLOTIM => s.LINKWS = 0 /\ s.LINKNS = 0 /\ ~s.POLLSENT

\* Between two handlers: all that was acknowledged is released, and Quiet holds of
\* a link that is up.
Settled(s) == s.LINKOWS = s.LINKWS /\ (Up(s) => Quiet(s))

\* The inductive invariant of one station.
Good(s) == s \in Station /\ Settled(s)

\* The names of the fields of a station.
Fields ==
    {"L2STATE", "LINKWS", "LINKOWS", "LINKNS", "LINKNR", "SDTSLOT", "FRAMES",
     "TX_Q", "RX_Q", "L2RETRIES", "L2TIMER", "L2ACKREQ", "L2SLOTIM", "RNRSET",
     "RNRSENT", "POLLSENT", "REJSENT", "DISCPENDING", "SDREJF", "SESSACTIVE",
     "LAST_F", "LINKTYPE", "CIRCUITPOINTER", "SESSION", "PORTTX_Q", "PORTRX_Q",
     "BUSY", "CUTTX", "CUTRX"}

\* Each field of s has its type, whatever else s is.
FieldsOK(s) ==
    /\ s.L2STATE \in 0 .. 6
    /\ s.LINKWS \in SeqNo /\ s.LINKOWS \in SeqNo /\ s.LINKNS \in SeqNo
    /\ s.LINKNR \in SeqNo /\ s.SDTSLOT \in SeqNo
    /\ s.FRAMES \in [SeqNo -> Nat] /\ s.TX_Q \in Seq(Nat) /\ s.RX_Q \in Seq(Nat)
    /\ s.L2RETRIES \in 0 .. 255
    /\ s.L2TIMER \in BOOLEAN /\ s.L2ACKREQ \in BOOLEAN /\ s.L2SLOTIM \in BOOLEAN
    /\ s.RNRSET \in BOOLEAN /\ s.RNRSENT \in BOOLEAN /\ s.POLLSENT \in BOOLEAN
    /\ s.REJSENT \in BOOLEAN /\ s.DISCPENDING \in BOOLEAN /\ s.SDREJF \in BOOLEAN
    /\ s.SESSACTIVE \in BOOLEAN /\ s.LAST_F \in BOOLEAN /\ s.LINKTYPE \in 0 .. 2
    /\ s.CIRCUITPOINTER \in BOOLEAN /\ s.SESSION \in Session
    /\ s.PORTTX_Q \in Seq(Frame) /\ s.PORTRX_Q \in Seq(Frame)
    /\ s.BUSY \in BOOLEAN /\ s.CUTTX \in BOOLEAN /\ s.CUTRX \in BOOLEAN

\* s is a record with the fields of a station.
IsRecord(s) == s = [f \in Fields |-> s[f]]

\* A record with well-typed fields of a station is a station.
LEMMA StationIntro ==
  ASSUME NEW s, IsRecord(s), FieldsOK(s)
  PROVE  s \in Station
  BY DEF IsRecord, Fields, FieldsOK, Station

\* A well-typed, settled record is Good.
LEMMA GoodIntro ==
  ASSUME NEW s, IsRecord(s), FieldsOK(s), Settled(s)
  PROVE  Good(s)
  BY StationIntro DEF Good

\* 0, to which RESET2X puts the sequence numbers, is one of them.
LEMMA SeqNoFacts == 0 \in SeqNo
  BY ModulusAssumption DEF SeqNo

\* Counting a sequence number on (ANDB 7 in the code) gives a sequence number.
LEMMA AddType ==
  ASSUME NEW i \in SeqNo, NEW j \in Int
  PROVE  Add(i, j) \in SeqNo
  BY ModulusAssumption DEF SeqNo, Add

\* RESET2X keeps the types of an entry.
LEMMA ResetType ==
  ASSUME NEW s \in Station
  PROVE  RESET2X(s) \in Station
  <1>1. FieldsOK(RESET2X(s))
    BY SeqNoFacts DEF FieldsOK, RESET2X, Station
  <1>2. IsRecord(RESET2X(s))
    BY ZenonT(30) DEF IsRecord, Fields, RESET2X, Station
  <1> QED
    BY <1>1, <1>2, StationIntro

\* CLEARL2QUEUES keeps the types of an entry.
LEMMA ClearQueuesType ==
  ASSUME NEW s \in Station
  PROVE  CLEARL2QUEUES(s) \in Station
  <1>1. FieldsOK(CLEARL2QUEUES(s))
    BY DEF FieldsOK, CLEARL2QUEUES, Station, NULL
  <1>2. IsRecord(CLEARL2QUEUES(s))
    BY ZenonT(30) DEF IsRecord, Fields, CLEARL2QUEUES, Station
  <1> QED
    BY <1>1, <1>2, StationIntro

\* RESET2 makes any entry Good: its window is empty and nothing is polled.
LEMMA Reset2Good ==
  ASSUME NEW s \in Station
  PROVE  Good(RESET2(s))
  <1> DEFINE t == CLEARL2QUEUES(s)
  <1>1. t \in Station
    BY ClearQueuesType
  <1> HIDE DEF t
  <1>2. /\ RESET2X(t).LINKOWS = 0 /\ RESET2X(t).LINKWS = 0
        /\ RESET2X(t).LINKNS = 0 /\ RESET2X(t).POLLSENT = FALSE
    BY <1>1 DEF RESET2X, Station
  <1>3. Good(RESET2X(t))
    BY <1>1, <1>2, ResetType DEF Good, Settled, Quiet
  <1> QED
    BY <1>3 DEF RESET2, t

\* An entry of LINKS that is not in use is Good.
LEMMA FreeEntryGood == Good(FreeEntry)
  <1>1. FieldsOK(FreeEntry)
    BY SeqNoFacts DEF FieldsOK, FreeEntry, NULL, Session
  <1>2. IsRecord(FreeEntry)
    BY DEF IsRecord, Fields, FreeEntry
  <1>3. Settled(FreeEntry)
    BY DEF Settled, Quiet, FreeEntry, Up
  <1> QED
    BY <1>1, <1>2, <1>3, GoodIntro

\* CLEAROUTLINK makes any entry Good, and keeps session and port queues typed.
LEMMA ClearOutGood ==
  ASSUME NEW s \in Station
  PROVE  Good(CLEAROUTLINK(s))
  <1> DEFINE t == CLEAROUTLINK(s)
  <1>0. FreeEntry \in Station
    BY FreeEntryGood DEF Good
  <1>1. FieldsOK(t)
    BY <1>0, SeqNoFacts DEF FieldsOK, CLEAROUTLINK, Station
  <1>2. IsRecord(t)
    BY <1>0 DEF IsRecord, Fields, CLEAROUTLINK, Station
  <1>3. Settled(t)
    BY DEF Settled, Quiet, Good, CLEAROUTLINK, FreeEntry, Up
  <1> QED
    BY <1>1, <1>2, <1>3, GoodIntro

\* Telling the session layer that the link is gone keeps the entry Good.
LEMMA InformPartnerGood ==
  ASSUME NEW s, Good(s)
  PROVE  Good(InformPartner(s))
  <1> DEFINE t == [s EXCEPT !.SESSION = "none"]
  <1>1. FieldsOK(t)
    BY DEF FieldsOK, Good, Station, Session
  <1>2. IsRecord(t)
    BY DEF IsRecord, Fields, Good, Station
  <1>3. Settled(t)
    BY DEF Settled, Quiet, Good, Station, Up
  <1>4. Good(t)
    BY <1>1, <1>2, <1>3, GoodIntro
  <1> QED
    BY <1>4 DEF InformPartner

\* Queueing a frame on the port keeps the entry Good.
LEMMA PutGood ==
  ASSUME NEW s, Good(s), NEW f \in Frame
  PROVE  Good(PUT_ON_PORT_Q(s, f))
  <1> DEFINE t == PUT_ON_PORT_Q(s, f)
  <1>1. FieldsOK(t)
    BY DEF FieldsOK, Good, Station, PUT_ON_PORT_Q
  <1>2. IsRecord(t)
    BY DEF IsRecord, Fields, Good, Station, PUT_ON_PORT_Q
  <1>3. Settled(t)
    BY DEF Settled, Quiet, Good, Station, Up, PUT_ON_PORT_Q
  <1> QED
    BY <1>1, <1>2, <1>3, GoodIntro

\* What L2SENDCOMMAND puts together is a frame.
LEMMA CommandFrame ==
  ASSUME NEW c \in Control, NEW nr \in SeqNo
  PROVE  Command(c, nr) \in Frame
  BY SeqNoFacts DEF Command, Frame, NULL

\* What L2SENDRESPONSE and L2SENDRESP put together is a frame.
LEMMA ResponseFrame ==
  ASSUME NEW c \in Control, NEW nr \in SeqNo, NEW pf \in BOOLEAN
  PROVE  Response(c, nr, pf) \in Frame
  BY SeqNoFacts DEF Response, Frame, NULL

\* What SDETX puts together is a frame.
LEMMA InformationFrame ==
  ASSUME NEW nr \in SeqNo, NEW ns \in SeqNo, NEW pf \in BOOLEAN, NEW i \in Nat
  PROVE  Information(nr, ns, pf, i) \in Frame
  BY DEF Information, Frame, Control

\* Starting or stopping the link timer keeps the entry Good.
LEMMA L2TimerGood ==
  ASSUME NEW s, Good(s), NEW b \in BOOLEAN
  PROVE  Good([s EXCEPT !.L2TIMER = b])
  <1> DEFINE t == [s EXCEPT !.L2TIMER = b]
  <1>1. FieldsOK(t)
    BY DEF FieldsOK, Good, Station
  <1>2. IsRecord(t)
    BY DEF IsRecord, Fields, Good, Station
  <1>3. Settled(t)
    BY DEF Settled, Quiet, Good, Station, Up
  <1> QED
    BY <1>1, <1>2, <1>3, GoodIntro

\* L2SENDCOMMAND keeps the entry Good.
LEMMA SendCommandGood ==
  ASSUME NEW s, Good(s), NEW c \in Control, NEW nr \in SeqNo
  PROVE  Good(L2SENDCOMMAND(s, c, nr))
  BY CommandFrame, PutGood, L2TimerGood DEF L2SENDCOMMAND

\* Starting the validation timer makes an entry Good that has released what was
\* acknowledged: this is how an update that breaks Quiet is mended.
LEMMA SlotimGood ==
  ASSUME NEW s \in Station, s.LINKOWS = s.LINKWS
  PROVE  Good([s EXCEPT !.L2SLOTIM = TRUE])
  <1> DEFINE t == [s EXCEPT !.L2SLOTIM = TRUE]
  <1>1. FieldsOK(t)
    BY DEF FieldsOK, Station
  <1>2. IsRecord(t)
    BY DEF IsRecord, Fields, Station
  <1>3. Settled(t)
    BY DEF Settled, Quiet, Good, Station, Up
  <1> QED
    BY <1>1, <1>2, <1>3, GoodIntro

\* L2SENDRESPONSE keeps the entry Good.
LEMMA SendResponseGood ==
  ASSUME NEW s, Good(s), NEW c \in Control, NEW pf \in BOOLEAN
  PROVE  Good(L2SENDRESPONSE(s, c, pf))
  <1>1. s.LINKNR \in SeqNo
    BY DEF Good, Station
  <1>2. Good(PUT_ON_PORT_Q(s, Response(c, s.LINKNR, pf)))
    BY <1>1, ResponseFrame, PutGood
  <1> QED
    BY <1>2, SlotimGood DEF L2SENDRESPONSE, Good, Settled, Quiet

\* L2SENDRESP keeps the entry Good.
LEMMA SendRespGood ==
  ASSUME NEW s, Good(s), NEW c \in Control
  PROVE  Good(L2SENDRESP(s, c))
  BY SeqNoFacts, ResponseFrame, PutGood DEF L2SENDRESP

\* SENDFRMR keeps the entry Good.
LEMMA SendFrmrGood ==
  ASSUME NEW s, Good(s)
  PROVE  Good(SENDFRMR(s))
  <1>1. s.LINKNR \in SeqNo
    BY DEF Good, Station
  <1> QED
    BY <1>1, ResponseFrame, PutGood DEF SENDFRMR, Control

\* SDFRMR takes the link out of the up states, so Quiet is not asked of it.
LEMMA FrameRejectGood ==
  ASSUME NEW s \in Station, s.LINKOWS = s.LINKWS
  PROVE  Good(SDFRMR(s))
  <1> DEFINE t == [s EXCEPT !.L2STATE = 3, !.L2TIMER = TRUE]
  <1>1. FieldsOK(t)
    BY DEF FieldsOK, Station
  <1>2. IsRecord(t)
    BY DEF IsRecord, Fields, Station
  <1>3. Settled(t)
    BY DEF Settled, Quiet, Good, Station, Up
  <1>4. Good(t)
    BY <1>1, <1>2, <1>3, GoodIntro
  <1> QED
    BY <1>4, SendFrmrGood DEF SDFRMR

\* Remembering whether a busy report stands keeps the entry Good.
LEMMA NoteRNRGood ==
  ASSUME NEW s, Good(s)
  PROVE  Good(NoteRNR(s))
  <1> DEFINE t == NoteRNR(s)
  <1>1. FieldsOK(t)
    BY DEF FieldsOK, Good, Station, NoteRNR
  <1>2. IsRecord(t)
    BY DEF IsRecord, Fields, Good, Station, NoteRNR
  <1>3. Settled(t)
    BY DEF Settled, Quiet, Good, Station, Up, NoteRNR
  <1> QED
    BY <1>1, <1>2, <1>3, GoodIntro

\* RR_OR_RNR answers with one of the control codes.
LEMMA SupervisoryCode ==
  ASSUME NEW s
  PROVE  RR_OR_RNR(s) \in Control
  BY DEF RR_OR_RNR, Control

\* SendSupervisCmd polls and starts the validation timer in one, so it needs no
\* Quiet before it: this is where the timer that expired is started again.
LEMMA SendSupervisGood ==
  ASSUME NEW s \in Station, s.LINKOWS = s.LINKWS
  PROVE  Good(SendSupervisCmd(s))
  <1> DEFINE r == NoteRNR(s)
             t == [r EXCEPT !.L2ACKREQ = FALSE, !.POLLSENT = TRUE]
             u == PUT_ON_PORT_Q(t, Command(RR_OR_RNR(s), s.LINKNR))
             v == [u EXCEPT !.L2TIMER = TRUE]
  <1>1. r \in Station /\ r.LINKOWS = r.LINKWS
    <2>1. FieldsOK(r)
      BY DEF FieldsOK, Station, NoteRNR
    <2>2. IsRecord(r)
      BY DEF IsRecord, Fields, Station, NoteRNR
    <2>3. r.LINKOWS = r.LINKWS
      BY DEF Station, NoteRNR
    <2> QED
      BY <2>1, <2>2, <2>3, StationIntro
  <1>2. t \in Station /\ t.LINKOWS = t.LINKWS
    <2> HIDE DEF r
    <2>1. FieldsOK(t)
      BY <1>1 DEF FieldsOK, Station
    <2>2. IsRecord(t)
      BY <1>1 DEF IsRecord, Fields, Station
    <2>3. t.LINKOWS = t.LINKWS
      BY <1>1 DEF Station
    <2> QED
      BY <2>1, <2>2, <2>3, StationIntro
  <1>3. s.LINKNR \in SeqNo
    BY DEF Station
  <1>4. v \in Station /\ v.LINKOWS = v.LINKWS
    <2> HIDE DEF t
    <2>1. Command(RR_OR_RNR(s), s.LINKNR) \in Frame
      BY <1>3, SupervisoryCode, CommandFrame
    <2>2. FieldsOK(v)
      BY <1>2, <2>1 DEF FieldsOK, Station, PUT_ON_PORT_Q
    <2>3. IsRecord(v)
      BY <1>2 DEF IsRecord, Fields, Station, PUT_ON_PORT_Q
    <2> QED
      BY <1>2, <2>2, <2>3, StationIntro DEF Station, PUT_ON_PORT_Q
  <1> QED
    BY <1>4, SlotimGood DEF SendSupervisCmd, L2SENDCOMMAND

\* The answer to a FRMR makes any entry Good.
LEMMA ResetAndSABMGood ==
  ASSUME NEW s \in Station
  PROVE  Good(ResetAndSABM(s))
  <1> DEFINE r == RESET2(s)
             t == [r EXCEPT !.L2STATE = 2, !.L2ACKREQ = FALSE, !.L2RETRIES = 0]
  <1>1. Good(r)
    BY Reset2Good
  <1>2. Good(t)
    <2> HIDE DEF r
    <2>1. FieldsOK(t)
      BY <1>1 DEF FieldsOK, Good, Station
    <2>2. IsRecord(t)
      BY <1>1 DEF IsRecord, Fields, Good, Station
    <2>3. Settled(t)
      BY <1>1 DEF Settled, Quiet, Good, Station, Up
    <2> QED
      BY <2>1, <2>2, <2>3, GoodIntro
  <1> QED
    BY <1>2, SeqNoFacts, SendCommandGood DEF ResetAndSABM, Control

\* ACKMSG makes an entry Good whose window start has moved, and says nothing
\* untrue of a link that was Quiet.  It keeps LINKWS and SDREJF.
LEMMA AckGood ==
  ASSUME NEW s \in Station, Up(s) => Quiet(s)
  PROVE  /\ Good(ACKMSG(s)) /\ (Quiet(s) => Quiet(ACKMSG(s)))
         /\ ACKMSG(s).LINKWS = s.LINKWS /\ ACKMSG(s).SDREJF = s.SDREJF
  <1> DEFINE Same(t) == /\ t.LINKWS = s.LINKWS /\ t.SDREJF = s.SDREJF
                        /\ Quiet(s) => Quiet(t)
             frames == [i \in SeqNo |-> IF Acked(s, i) THEN NULL ELSE s.FRAMES[i]]
             retries == IF s.LINKOWS # s.LINKWS /\ s.L2RETRIES # 0 THEN 1 ELSE s.L2RETRIES
             r == [s EXCEPT !.FRAMES = frames, !.LINKOWS = s.LINKWS, !.L2RETRIES = retries]
             q == IF r.L2RETRIES = 0 THEN [r EXCEPT !.L2TIMER = FALSE, !.POLLSENT = FALSE]
                                     ELSE r
             d == [q EXCEPT !.DISCPENDING = FALSE, !.L2TIMER = TRUE, !.L2STATE = 4]
  <1>1. frames \in [SeqNo -> Nat] /\ retries \in 0 .. 255
    BY DEF Station, NULL
  <1>2. Good(r) /\ Same(r)
    <2> HIDE DEF frames, retries
    <2>1. FieldsOK(r)
      BY <1>1 DEF FieldsOK, Station
    <2>2. IsRecord(r)
      BY DEF IsRecord, Fields, Station
    <2>3. Settled(r) /\ Same(r)
      BY DEF Settled, Quiet, Station, Up
    <2> QED
      BY <2>1, <2>2, <2>3, GoodIntro
  <1> HIDE DEF r
  <1>3. Good(q) /\ Same(q)
    <2> DEFINE p == [r EXCEPT !.L2TIMER = FALSE, !.POLLSENT = FALSE]
    <2>1. FieldsOK(p)
      BY <1>2 DEF FieldsOK, Good, Station
    <2>2. IsRecord(p)
      BY <1>2 DEF IsRecord, Fields, Good, Station
    <2>3. Settled(p) /\ Same(p)
      BY <1>2 DEF Settled, Quiet, Good, Station, Up
    <2>4. Good(p)
      BY <2>1, <2>2, <2>3, GoodIntro
    <2> QED
      BY <1>2, <2>3, <2>4
  <1> HIDE DEF q
  <1>4. Good(d) /\ Same(d)
    <2>1. FieldsOK(d)
      BY <1>3 DEF FieldsOK, Good, Station
    <2>2. IsRecord(d)
      BY <1>3 DEF IsRecord, Fields, Good, Station
    <2>3. Settled(d)
      BY <1>3 DEF Settled, Quiet, Good, Station, Up
    <2>4. Same(d)
      BY <1>3 DEF Quiet, Good, Station
    <2> QED
      BY <2>1, <2>2, <2>3, <2>4, GoodIntro
  <1>5. /\ Good([r EXCEPT !.L2TIMER = TRUE])
        /\ Same([r EXCEPT !.L2TIMER = TRUE])
    <2>1. Good([r EXCEPT !.L2TIMER = TRUE])
      BY <1>2, L2TimerGood
    <2>2. Same([r EXCEPT !.L2TIMER = TRUE])
      BY <1>2 DEF Quiet, Good, Station
    <2> QED
      BY <2>1, <2>2
  <1>6. ACKMSG(s) = IF r.LINKWS # r.LINKNS THEN [r EXCEPT !.L2TIMER = TRUE]
                    ELSE IF q.DISCPENDING /\ q.TX_Q = << >> THEN d ELSE q
    BY DEF ACKMSG, r, q
  <1> QED
    BY <1>3, <1>4, <1>5, <1>6

\* SDNRCHK makes the entry Good if it accepts the N(R).  On a Quiet link, where
\* LINKWS and LINKNS are both 0, no N(R) but 0 is accepted.
LEMMA CheckAckGood ==
  ASSUME NEW s, Good(s), NEW nr \in SeqNo
  PROVE  /\ SDNRCHK(s, nr) \in Station
         /\ SDNRCHK(s, nr).LINKOWS = SDNRCHK(s, nr).LINKWS
         /\ ~SDNRCHK(s, nr).SDREJF =>
               /\ Good(SDNRCHK(s, nr)) /\ SDNRCHK(s, nr).LINKWS = nr
               /\ Quiet(s) => Quiet(SDNRCHK(s, nr))
  <1> DEFINE t == [s EXCEPT !.LINKWS = nr]
             e == [s EXCEPT !.SDREJF = TRUE]
  <1>1. CASE NRAccepted(s, nr)
    <2>1. FieldsOK(t)
      BY DEF FieldsOK, Good, Station
    <2>2. IsRecord(t)
      BY DEF IsRecord, Fields, Good, Station
    <2>3. (Up(t) => Quiet(t)) /\ (Quiet(s) => Quiet(t))
      BY <1>1 DEF NRAccepted, Settled, Quiet, Good, Station, Up, SeqNo
    <2>4. t.LINKWS = nr
      BY DEF Good, Station
    <2>5. t \in Station
      BY <2>1, <2>2, StationIntro
    <2> HIDE DEF t
    <2>6. Good(ACKMSG(t)) /\ ACKMSG(t).LINKWS = nr /\ (Quiet(t) => Quiet(ACKMSG(t)))
      BY <2>3, <2>4, <2>5, AckGood
    <2> QED
      BY <1>1, <2>3, <2>6 DEF t, SDNRCHK, Good, Settled, Quiet
  <1>2. CASE ~NRAccepted(s, nr)
    <2>1. FieldsOK(e)
      BY DEF FieldsOK, Good, Station
    <2>2. IsRecord(e)
      BY DEF IsRecord, Fields, Good, Station
    <2>3. e.LINKOWS = e.LINKWS /\ e.SDREJF = TRUE
      BY DEF Good, Settled, Station
    <2> QED
      BY <1>2, <2>1, <2>2, <2>3, StationIntro DEF SDNRCHK
  <1> QED
    BY <1>1, <1>2

\* SEND_RR_RESP keeps the entry Good.
LEMMA SendRRGood ==
  ASSUME NEW s, Good(s), NEW pf \in BOOLEAN
  PROVE  Good(SEND_RR_RESP(s, pf))
  <1>1. Good(L2SENDRESPONSE(NoteRNR(s), RR_OR_RNR(s), pf))
    BY NoteRNRGood, SupervisoryCode, SendResponseGood
  <1> QED
    BY <1>1, AckGood DEF SEND_RR_RESP, Good, Settled, Quiet

\* The number of frames loaded or sent at a time is a number.
LEMMA CountType ==
  ASSUME NEW S, S \subseteq 1 .. Modulus
  PROVE  Cardinality(S) \in Nat
  <1>1. IsFiniteSet(1 .. Modulus)
    BY ModulusAssumption, FS_Interval
  <1> QED
    BY <1>1, FS_Subset, FS_CardinalityType

\* The rest of a queue is a queue of the same kind.
LEMMA DropType ==
  ASSUME NEW T, NEW q \in Seq(T), NEW k \in Nat
  PROVE  SubSeq(q, k + 1, Len(q)) \in Seq(T)
  <1>1. CASE k + 1 <= Len(q)
    BY <1>1, SubSeqProperties
  <1>2. CASE ~(k + 1 <= Len(q))
    BY <1>2, SubSeqProperties
  <1> QED
    BY <1>1, <1>2

\* Moving frames from TX_Q to FRAMES keeps the entry Good.
LEMMA LoadGood ==
  ASSUME NEW s, Good(s)
  PROVE  Good(LoadFrames(s))
  <1> DEFINE loads == {j \in 1 .. Modulus : \A i \in 1 .. j :
                         i <= Len(s.TX_Q) /\ s.FRAMES[Add(s.SDTSLOT, i - 1)] = NULL}
             k == Cardinality(loads)
             frames == [i \in SeqNo |-> IF Distance(s.SDTSLOT, i) + 1 \in loads
                                        THEN s.TX_Q[Distance(s.SDTSLOT, i) + 1]
                                        ELSE s.FRAMES[i]]
             tx == SubSeq(s.TX_Q, k + 1, Len(s.TX_Q))
             slot == Add(s.SDTSLOT, k)
             t == [s EXCEPT !.FRAMES = frames, !.TX_Q = tx, !.SDTSLOT = slot]
  <1>1. /\ s.TX_Q \in Seq(Nat) /\ s.FRAMES \in [SeqNo -> Nat] /\ s.SDTSLOT \in SeqNo
    BY DEF Good, Station
  <1>2. k \in Nat
    BY CountType
  <1>3. \A j \in loads : j \in 1 .. Len(s.TX_Q)
    <2>1. \A j \in loads : j \in 1 .. Modulus /\ j <= Len(s.TX_Q)
      <3> SUFFICES ASSUME NEW j \in loads
                   PROVE  j \in 1 .. Modulus /\ j <= Len(s.TX_Q)
        OBVIOUS
      <3>1. j \in 1 .. Modulus /\ j \in 1 .. j
        BY ModulusAssumption
      <3> QED
        BY <3>1
    <2> QED
      BY <1>1, <2>1
  <1>4. frames \in [SeqNo -> Nat]
    <2> HIDE DEF loads
    <2> QED BY <1>1, <1>3
  <1>5. tx \in Seq(Nat)
    BY <1>1, <1>2, DropType
  <1>6. slot \in SeqNo
    BY <1>1, <1>2, AddType
  <1>7. Good(t)
    <2> HIDE DEF frames, tx, slot
    <2>1. FieldsOK(t)
      BY <1>4, <1>5, <1>6 DEF FieldsOK, Good, Station
    <2>2. IsRecord(t)
      BY DEF IsRecord, Fields, Good, Station
    <2>3. Settled(t)
      BY DEF Settled, Quiet, Good, Station, Up
    <2> QED
      BY <2>1, <2>2, <2>3, GoodIntro
  <1> QED
    BY <1>7 DEF LoadFrames

\* Sending I frames starts the validation timer, which keeps the entry Good.
LEMMA SendIGood ==
  ASSUME NEW s, Good(s)
  PROVE  Good(SendIFrames(s))
  <1> DEFINE k == Cardinality({j \in 1 .. Modulus : \A i \in 1 .. j - 1 : ~PollAfter(s, i)})
             I(j) == Information(s.LINKNR, Add(s.LINKNS, j - 1), j = k,
                                 s.FRAMES[Add(s.LINKNS, j - 1)])
             sent == [j \in 1 .. k |-> I(j)]
             out == s.PORTTX_Q \o sent
             ns == Add(s.LINKNS, k)
             t == [s EXCEPT !.PORTTX_Q = out, !.LINKNS = ns]
             u == AfterSending(t)
  <1>1. /\ s.PORTTX_Q \in Seq(Frame) /\ s.FRAMES \in [SeqNo -> Nat]
        /\ s.LINKNS \in SeqNo /\ s.LINKNR \in SeqNo
    BY DEF Good, Station
  <1>2. k \in Nat
    BY CountType
  <1> HIDE DEF k
  <1>3. \A j \in 1 .. k : I(j) \in Frame
    <2> SUFFICES ASSUME NEW j \in 1 .. k
                 PROVE  I(j) \in Frame
      OBVIOUS
    <2>1. Add(s.LINKNS, j - 1) \in SeqNo
      BY <1>1, <1>2, AddType
    <2>2. s.FRAMES[Add(s.LINKNS, j - 1)] \in Nat /\ (j = k) \in BOOLEAN
      BY <1>1, <2>1
    <2> QED
      BY <1>1, <2>1, <2>2, InformationFrame
  <1>4. sent \in Seq(Frame)
    BY <1>2, <1>3
  <1>5. out \in Seq(Frame)
    BY <1>1, <1>4, ConcatProperties
  <1>6. ns \in SeqNo
    BY <1>1, <1>2, AddType
  <1> HIDE DEF out, ns
  <1>7. t \in Station /\ t.LINKOWS = t.LINKWS
    <2>1. FieldsOK(t)
      BY <1>5, <1>6 DEF FieldsOK, Good, Station
    <2>2. IsRecord(t)
      BY DEF IsRecord, Fields, Good, Station
    <2>3. t.LINKOWS = t.LINKWS
      BY DEF Settled, Quiet, Good, Station
    <2> QED
      BY <2>1, <2>2, <2>3, StationIntro
  <1> HIDE DEF t
  <1>8. Good(u)
    <2>1. FieldsOK(u)
      BY <1>7 DEF FieldsOK, Station, AfterSending
    <2>2. IsRecord(u)
      BY <1>7 DEF IsRecord, Fields, Station, AfterSending
    <2>3. Settled(u)
      BY <1>7 DEF Settled, Quiet, Station, AfterSending
    <2> QED
      BY <2>1, <2>2, <2>3, GoodIntro
  <1> QED
    BY <1>8 DEF SendIFrames, t, out, ns, k

\* SDETX keeps the entry Good.
LEMMA TransmitGood ==
  ASSUME NEW s, Good(s)
  PROVE  Good(SDETX(s))
  BY LoadGood, SendIGood DEF SDETX

\* PROC_I_FRAME keeps the entry Good.
LEMMA ProcIFrameGood ==
  ASSUME NEW s, Good(s), NEW f \in Frame
  PROVE  Good(PROC_I_FRAME(s, f))
  <1> DEFINE r == [s EXCEPT !.LINKNR = Add(@, 1)]
             rx == Append(r.RX_Q, f.info)
             t == [r EXCEPT !.RX_Q = rx, !.L2ACKREQ = TRUE]
  <1>1. Good(r)
    <2>1. Add(s.LINKNR, 1) \in SeqNo
      BY AddType DEF Good, Station
    <2>2. FieldsOK(r)
      BY <2>1 DEF FieldsOK, Good, Station
    <2>3. IsRecord(r)
      BY DEF IsRecord, Fields, Good, Station
    <2>4. Settled(r)
      BY DEF Settled, Quiet, Good, Station, Up
    <2> QED
      BY <2>2, <2>3, <2>4, GoodIntro
  <1> HIDE DEF r
  <1>2. Good(t)
    <2>1. rx \in Seq(Nat)
      BY <1>1, AppendProperties DEF Good, Station, Frame
    <2> HIDE DEF rx
    <2>2. FieldsOK(t)
      BY <1>1, <2>1 DEF FieldsOK, Good, Station
    <2>3. IsRecord(t)
      BY <1>1 DEF IsRecord, Fields, Good, Station
    <2>4. Settled(t)
      BY <1>1 DEF Settled, Quiet, Good, Station, Up
    <2> QED
      BY <2>2, <2>3, <2>4, GoodIntro
  <1> QED
    BY <1>1, <1>2 DEF PROC_I_FRAME, r, t, rx

\* The flags REJSENT, LAST_F and L2ACKREQ have no part in Good but their types.
LEMMA FlagsGood ==
  ASSUME NEW s, Good(s), NEW b \in BOOLEAN
  PROVE  /\ Good([s EXCEPT !.LAST_F = b])
         /\ Good([s EXCEPT !.REJSENT = b, !.L2ACKREQ = FALSE])
         /\ Good([s EXCEPT !.L2ACKREQ = FALSE, !.LAST_F = b])
         /\ Good([s EXCEPT !.L2ACKREQ = b])
  <1>1. Good([s EXCEPT !.LAST_F = b])
    <2> DEFINE t == [s EXCEPT !.LAST_F = b]
    <2>1. FieldsOK(t)
      BY DEF FieldsOK, Good, Station
    <2>2. IsRecord(t)
      BY DEF IsRecord, Fields, Good, Station
    <2>3. Settled(t)
      BY DEF Settled, Quiet, Good, Station, Up
    <2> QED
      BY <2>1, <2>2, <2>3, GoodIntro
  <1>2. Good([s EXCEPT !.REJSENT = b, !.L2ACKREQ = FALSE])
    <2> DEFINE t == [s EXCEPT !.REJSENT = b, !.L2ACKREQ = FALSE]
    <2>1. FieldsOK(t)
      BY DEF FieldsOK, Good, Station
    <2>2. IsRecord(t)
      BY DEF IsRecord, Fields, Good, Station
    <2>3. Settled(t)
      BY DEF Settled, Quiet, Good, Station, Up
    <2> QED
      BY <2>1, <2>2, <2>3, GoodIntro
  <1>3. Good([s EXCEPT !.L2ACKREQ = b])
    <2> DEFINE t == [s EXCEPT !.L2ACKREQ = b]
    <2>1. FieldsOK(t)
      BY DEF FieldsOK, Good, Station
    <2>2. IsRecord(t)
      BY DEF IsRecord, Fields, Good, Station
    <2>3. Settled(t)
      BY DEF Settled, Quiet, Good, Station, Up
    <2> QED
      BY <2>1, <2>2, <2>3, GoodIntro
  <1>4. Good([s EXCEPT !.L2ACKREQ = FALSE, !.LAST_F = b])
    <2> DEFINE t == [s EXCEPT !.L2ACKREQ = FALSE, !.LAST_F = b]
    <2>1. FieldsOK(t)
      BY DEF FieldsOK, Good, Station
    <2>2. IsRecord(t)
      BY DEF IsRecord, Fields, Good, Station
    <2>3. Settled(t)
      BY DEF Settled, Quiet, Good, Station, Up
    <2> QED
      BY <2>1, <2>2, <2>3, GoodIntro
  <1> QED
    BY <1>1, <1>2, <1>3, <1>4

\* The CheckPF tail of SDIFRM keeps the entry Good.
LEMMA FinalForPollGood ==
  ASSUME NEW s, Good(s), NEW f
  PROVE  Good(FinalForPoll(s, f))
  <1> DEFINE t == [s EXCEPT !.REJSENT = (s.L2STATE = 6), !.L2ACKREQ = FALSE]
  <1>1. Good(t)
    BY FlagsGood
  <1>2. Good(SEND_RR_RESP(t, TRUE))
    BY <1>1, SendRRGood
  <1> QED
    BY <1>2, FlagsGood DEF FinalForPoll

\* SDIFRM keeps the entry of an up link Good.
\* A frame out of sequence makes the state 6 whatever it was, so Quiet is needed
\* of a link that the acknowledgement in the frame has made disconnect.
LEMMA IFrameGood ==
  ASSUME NEW s, Good(s), Up(s), NEW f \in Frame
  PROVE  Good(SDIFRM(s, f))
  <1> DEFINE r == IF s.SDREJF THEN s ELSE SDNRCHK(s, f.nr)
             a == [r EXCEPT !.SESSACTIVE = TRUE]
             out == [a EXCEPT !.L2STATE = 6, !.L2ACKREQ = TRUE]
             back == IF a.L2STATE = 6 THEN [a EXCEPT !.L2STATE = 5, !.REJSENT = FALSE]
                                      ELSE a
  <1>1. f.nr \in SeqNo
    BY DEF Frame
  <1>2. Quiet(s)
    BY DEF Good, Settled
  <1>3. /\ r \in Station /\ r.LINKOWS = r.LINKWS
        /\ ~r.SDREJF => Good(r) /\ Quiet(r)
    BY <1>1, <1>2, CheckAckGood DEF Good, Settled
  <1> HIDE DEF r
  <1>4. CASE r.SDREJF
    BY <1>3, <1>4, FrameRejectGood DEF SDIFRM, r
  <1>5. CASE ~r.SDREJF
    <2>1. Good(a) /\ Quiet(a)
      <3>1. FieldsOK(a)
        BY <1>3 DEF FieldsOK, Station
      <3>2. IsRecord(a)
        BY <1>3 DEF IsRecord, Fields, Station
      <3>3. Settled(a)
        BY <1>3, <1>5 DEF Settled, Quiet, Good, Station, Up
      <3>4. Quiet(a)
        BY <1>3, <1>5 DEF Quiet, Station
      <3> QED
        BY <3>1, <3>2, <3>3, <3>4, GoodIntro
    <2> HIDE DEF a
    <2>2. Good(out)
      <3>1. FieldsOK(out)
        BY <2>1 DEF FieldsOK, Good, Station
      <3>2. IsRecord(out)
        BY <2>1 DEF IsRecord, Fields, Good, Station
      <3>3. Settled(out)
        BY <2>1 DEF Settled, Quiet, Good, Station
      <3> QED
        BY <3>1, <3>2, <3>3, GoodIntro
    <2>3. Good(back)
      <3> DEFINE b == [a EXCEPT !.L2STATE = 5, !.REJSENT = FALSE]
      <3>1. FieldsOK(b)
        BY <2>1 DEF FieldsOK, Good, Station
      <3>2. IsRecord(b)
        BY <2>1 DEF IsRecord, Fields, Good, Station
      <3>3. Settled(b)
        BY <2>1 DEF Settled, Quiet, Good, Station
      <3>4. Good(b)
        BY <3>1, <3>2, <3>3, GoodIntro
      <3> QED
        BY <2>1, <3>4
    <2>4. Good(FinalForPoll(out, f)) /\ Good(FinalForPoll(PROC_I_FRAME(back, f), f))
      BY <2>2, <2>3, ProcIFrameGood, FinalForPollGood
    <2> QED
      BY <1>5, <2>4 DEF SDIFRM, r, a
  <1> QED
    BY <1>4, <1>5

\* The answer to a supervisory command keeps the entry Good.
LEMMA SupervisoryCommandGood ==
  ASSUME NEW s, Good(s)
  PROVE  Good(SupervisoryCommand(s))
  <1> DEFINE t == L2SENDRESPONSE(NoteRNR(s), RR_OR_RNR(s), TRUE)
  <1>1. Good(t)
    BY NoteRNRGood, SupervisoryCode, SendResponseGood
  <1> QED
    BY <1>1, FlagsGood DEF SupervisoryCommand

\* A supervisory response with F keeps the entry Good.
\* LINKNS goes back to the N(R) that SDNRCHK has just accepted.
LEMMA SupervisoryFinalGood ==
  ASSUME NEW s, Good(s), NEW f \in Frame, s.LINKWS = f.nr
  PROVE  Good(SupervisoryFinal(s, f))
  <1> DEFINE r == [s EXCEPT !.POLLSENT = FALSE]
             back == [r EXCEPT !.LINKNS = f.nr, !.L2RETRIES = 0, !.L2TIMER = FALSE]
  <1>1. Good(r) /\ r.LINKWS = f.nr
    <2>1. FieldsOK(r)
      BY DEF FieldsOK, Good, Station
    <2>2. IsRecord(r)
      BY DEF IsRecord, Fields, Good, Station
    <2>3. Settled(r) /\ r.LINKWS = f.nr
      BY DEF Settled, Quiet, Good, Station, Up
    <2> QED
      BY <2>1, <2>2, <2>3, GoodIntro
  <1> HIDE DEF r
  <1>2. Good(back)
    <2>1. FieldsOK(back)
      BY <1>1 DEF FieldsOK, Good, Station, Frame
    <2>2. IsRecord(back)
      BY <1>1 DEF IsRecord, Fields, Good, Station
    <2>3. Settled(back)
      BY <1>1 DEF Settled, Quiet, Good, Station, Up
    <2> QED
      BY <2>1, <2>2, <2>3, GoodIntro
  <1> HIDE DEF back
  <1> DEFINE q == IF f.ctl = "REJ" \/ s.L2RETRIES # 0 THEN back ELSE r
  <1>3. Good(q)
    BY <1>1, <1>2
  <1>4. SupervisoryFinal(s, f) = IF f.ctl = "RNR" THEN [q EXCEPT !.L2TIMER = TRUE] ELSE q
    BY DEF SupervisoryFinal, back, r
  <1> HIDE DEF q
  <1> QED
    BY <1>3, <1>4, L2TimerGood

\* SFRAME keeps the entry of an up link Good.
LEMMA SFrameGood ==
  ASSUME NEW s, Good(s), NEW f \in Frame
  PROVE  Good(SFRAME(s, f))
  <1> DEFINE r == IF s.SDREJF THEN s ELSE SDNRCHK(s, f.nr)
             v == NotePeerBusy(r, f)
  <1>1. f.nr \in SeqNo
    BY DEF Frame
  <1>2. /\ r \in Station /\ r.LINKOWS = r.LINKWS
        /\ ~r.SDREJF => Good(r) /\ r.LINKWS = f.nr
    BY <1>1, CheckAckGood DEF Good, Settled
  <1> HIDE DEF r
  <1>3. CASE r.SDREJF
    BY <1>2, <1>3, FrameRejectGood DEF SFRAME, r
  <1>4. CASE ~r.SDREJF
    <2>1. Good(v) /\ v.LINKWS = f.nr
      <3>1. FieldsOK(v)
        BY <1>2 DEF FieldsOK, Station, NotePeerBusy
      <3>2. IsRecord(v)
        BY <1>2 DEF IsRecord, Fields, Station, NotePeerBusy
      <3>3. Settled(v)
        BY <1>2, <1>4 DEF Settled, Quiet, Good, Station, Up, NotePeerBusy
      <3>4. v.LINKWS = f.nr
        BY <1>2, <1>4 DEF Station, NotePeerBusy
      <3> QED
        BY <3>1, <3>2, <3>3, <3>4, GoodIntro
    <2> HIDE DEF v
    <2>2. Good(SupervisoryCommand(v)) /\ Good(SupervisoryFinal(v, f))
      BY <2>1, SupervisoryCommandGood, SupervisoryFinalGood
    <2> QED
      BY <1>4, <2>1, <2>2 DEF SFRAME, r, v
  <1> QED
    BY <1>3, <1>4

\* SDUFRM keeps the entry Good.
LEMMA SDUFrmGood ==
  ASSUME NEW s, Good(s), NEW f
  PROVE  Good(SDUFRM(s, f))
  <1>1. s \in Station /\ InformPartner(s) \in Station
    BY InformPartnerGood DEF Good
  <1> QED
    BY <1>1, ResetAndSABMGood, ClearOutGood DEF SDUFRM

\* UA, DM and FRMR on a link that is not up keep the entry Good.
\* UA in state 2: the link comes up with nothing sent.
LEMMA SetupOrClearingGood ==
  ASSUME NEW s, Good(s), NEW f
  PROVE  Good(SetupOrClearing(s, f))
  <1> DEFINE r == RESET2X(s)
             session == IF s.CIRCUITPOINTER /\ s.SESSION = "calling" THEN "up" ELSE s.SESSION
             t == [r EXCEPT !.L2TIMER = FALSE, !.L2RETRIES = 0, !.SESSION = session]
  <1>1. r \in Station /\ Settled(r) /\ r.SESSION = s.SESSION
            /\ r.CIRCUITPOINTER = s.CIRCUITPOINTER
    <2>1. r \in Station
      BY ResetType DEF Good
    <2>2. /\ r.LINKOWS = 0 /\ r.LINKWS = 0 /\ r.LINKNS = 0 /\ r.POLLSENT = FALSE
          /\ r.SESSION = s.SESSION /\ r.CIRCUITPOINTER = s.CIRCUITPOINTER
      BY DEF RESET2X, Good, Station
    <2> QED
      BY <2>1, <2>2 DEF Settled, Quiet
  <1>2. session \in Session
    BY DEF Good, Station, Session
  <1> HIDE DEF session, r
  <1>3. Good(t)
    <2>1. FieldsOK(t)
      BY <1>1, <1>2 DEF FieldsOK, Station
    <2>2. IsRecord(t)
      BY <1>1 DEF IsRecord, Fields, Station
    <2>3. Settled(t)
      BY <1>1 DEF Settled, Quiet, Station, Up
    <2> QED
      BY <2>1, <2>2, <2>3, GoodIntro
  <1>4. [RESET2X(s) EXCEPT !.L2TIMER = FALSE, !.L2RETRIES = 0,
           !.SESSION = IF s.CIRCUITPOINTER /\ @ = "calling" THEN "up" ELSE @] = t
    BY <1>1 DEF r, session
  <1>5. s \in Station /\ InformPartner(s) \in Station
    BY InformPartnerGood DEF Good
  <1>6. Good(CLEAROUTLINK(InformPartner(s))) /\ Good(ResetAndSABM(s)) /\ Good(InformPartner(s))
    BY <1>5, InformPartnerGood, ClearOutGood, ResetAndSABMGood
  <1> HIDE DEF t
  <1> QED
    BY <1>3, <1>4, <1>6 DEF SetupOrClearing

\* L2_PROCESS keeps the entry Good, in every state and for every frame.
LEMMA ProcessGood ==
  ASSUME NEW s0, Good(s0), NEW f \in Frame
  PROVE  Good(L2_PROCESS(s0, f))
  <1> DEFINE s == IF ~f.cmd /\ f.pf THEN [s0 EXCEPT !.L2TIMER = FALSE] ELSE s0
  <1>1. Good(s)
    BY L2TimerGood
  <1> HIDE DEF s
  <1>2. Up(s) => Good(SDIFRM(s, f))
    BY <1>1, IFrameGood
  <1>3. /\ Good(SENDFRMR(s)) /\ Good(SDUFRM(s, f)) /\ Good(SFRAME(s, f))
        /\ Good(SetupOrClearing(s, f))
    BY <1>1, SendFrmrGood, SDUFrmGood, SFrameGood, SetupOrClearingGood
  <1> QED
    BY <1>1, <1>2, <1>3 DEF L2_PROCESS, s

\* Attaching a session keeps the entry Good.
LEMMA SetupSessionGood ==
  ASSUME NEW s, Good(s)
  PROVE  Good(SetupSessionForL2(s))
  <1> DEFINE t == SetupSessionForL2(s)
  <1>1. FieldsOK(t)
    BY DEF FieldsOK, Good, Station, Session, SetupSessionForL2
  <1>2. IsRecord(t)
    BY DEF IsRecord, Fields, Good, Station, SetupSessionForL2
  <1>3. Settled(t)
    BY DEF Settled, Quiet, Good, Station, Up, SetupSessionForL2
  <1> QED
    BY <1>1, <1>2, <1>3, GoodIntro

\* SETUPNEWL2SESSION makes the entry Good, for a new caller or an old one.
LEMMA SetupNewGood ==
  ASSUME NEW s \in Station
  PROVE  Good(SETUPNEWL2SESSION(s))
  <1> DEFINE r == RESET2(s)
             type == IF r.LINKTYPE = 0 THEN 1 ELSE r.LINKTYPE
             t == [r EXCEPT !.LINKTYPE = type, !.L2TIMER = FALSE, !.L2SLOTIM = TRUE,
                            !.L2STATE = 5]
  <1>1. Good(r)
    BY Reset2Good
  <1> HIDE DEF r
  <1>2. type \in 0 .. 2
    BY <1>1 DEF Good, Station
  <1>3. SETUPNEWL2SESSION(s) = t
    BY <1>1 DEF SETUPNEWL2SESSION, r, Good, Station
  <1> HIDE DEF type
  <1>4. FieldsOK(t)
    BY <1>1, <1>2 DEF FieldsOK, Good, Station
  <1>5. IsRecord(t)
    BY <1>1, ZenonT(30) DEF IsRecord, Fields, Good, Station
  <1>6. Settled(t)
    BY <1>1 DEF Settled, Quiet, Good, Station
  <1> QED
    BY <1>3, <1>4, <1>5, <1>6, GoodIntro

\* Changing TX_Q keeps the entry Good.
LEMMA QueueGood ==
  ASSUME NEW s, Good(s), NEW q \in Seq(Nat)
  PROVE  Good([s EXCEPT !.TX_Q = q])
  <1> DEFINE t == [s EXCEPT !.TX_Q = q]
  <1>1. FieldsOK(t)
    BY DEF FieldsOK, Good, Station
  <1>2. IsRecord(t)
    BY DEF IsRecord, Fields, Good, Station
  <1>3. Settled(t)
    BY DEF Settled, Quiet, Good, Station, Up
  <1> QED
    BY <1>1, <1>2, <1>3, GoodIntro

\* L2SABM keeps the entry Good, whatever the caller is answered.
LEMMA SABMGood ==
  ASSUME NEW s \in Station, NEW answer \in Answers
  PROVE  Good(L2SABM(s, answer))
  <1> DEFINE r == SETUPNEWL2SESSION(s)
             t == IF answer.kind = "node" /\ answer.ctext # NULL
                  THEN [r EXCEPT !.TX_Q = Append(@, answer.ctext)] ELSE r
  <1>1. Good(r)
    BY SetupNewGood
  <1> HIDE DEF r
  <1>2. Append(r.TX_Q, answer.ctext) \in Seq(Nat)
    BY <1>1, AppendProperties DEF Good, Station, Answers
  <1>3. Good(t)
    BY <1>1, <1>2, QueueGood
  <1>4. Good(SetupSessionForL2(r)) /\ Good(CLEAROUTLINK(r))
    BY <1>1, SetupSessionGood, ClearOutGood DEF Good
  <1> HIDE DEF t
  <1>5. /\ Good(L2SENDRESP(t, "UA")) /\ Good(L2SENDRESP(SetupSessionForL2(r), "UA"))
        /\ Good(L2SENDRESP(CLEAROUTLINK(r), "DM"))
    BY <1>3, <1>4, SendRespGood DEF Control
  <1> QED
    BY <1>5 DEF L2SABM, r, t

\* L2Routine keeps the entry Good: every frame, in every state.
LEMMA RoutineGood ==
  ASSUME NEW s, Good(s), NEW f \in Frame, NEW answer \in Answers
  PROVE  Good(L2Routine(s, f, answer))
  <1>1. s \in Station /\ InformPartner(s) \in Station
    BY InformPartnerGood DEF Good
  <1>2. Good(CLEAROUTLINK(InformPartner(s)))
    BY <1>1, ClearOutGood
  <1>3. /\ Good(L2SENDRESP(CLEAROUTLINK(InformPartner(s)), "UA"))
        /\ Good(L2SENDRESP(s, "DM")) /\ Good(L2SENDRESP(s, "UA"))
    BY <1>2, SendRespGood DEF Control
  <1>4. Good(L2SABM(InformPartner(s), answer)) /\ Good(L2SABM(s, answer))
    BY <1>1, SABMGood
  <1>5. Good(L2_PROCESS(s, f))
    BY ProcessGood
  <1>6. Good(L2LINKACTIVE(s, f, answer))
    BY <1>3, <1>4, <1>5 DEF L2LINKACTIVE
  <1>7. Good(L2FORUS(s, f, answer))
    BY <1>3, <1>4 DEF L2FORUS
  <1> QED
    BY <1>6, <1>7 DEF L2Routine

\* Counting a retry, modulo 256, keeps the entry Good.
LEMMA RetryGood ==
  ASSUME NEW s, Good(s)
  PROVE  Good(Retry(s))
  <1> DEFINE n == (s.L2RETRIES + 1) % 256
             t == [s EXCEPT !.L2RETRIES = n]
  <1>1. n \in 0 .. 255
    <2>1. s.L2RETRIES \in 0 .. 255
      BY DEF Good, Station
    <2> QED
      BY <2>1
  <1>2. Retry(s) = t
    BY DEF Retry
  <1> HIDE DEF n
  <1>3. FieldsOK(t)
    BY <1>1 DEF FieldsOK, Good, Station
  <1>4. IsRecord(t)
    BY DEF IsRecord, Fields, Good, Station
  <1>5. Settled(t)
    BY DEF Settled, Quiet, Good, Station, Up
  <1> QED
    BY <1>2, <1>3, <1>4, <1>5, GoodIntro

\* Giving the link up after N2 retries keeps the entry Good.
LEMMA GiveUpGood ==
  ASSUME NEW s, Good(s)
  PROVE  Good([s EXCEPT !.L2RETRIES = 254, !.L2STATE = 4])
  <1> DEFINE t == [s EXCEPT !.L2RETRIES = 254, !.L2STATE = 4]
  <1>1. FieldsOK(t)
    BY DEF FieldsOK, Good, Station
  <1>2. IsRecord(t)
    BY ZenonT(30) DEF IsRecord, Fields, Good, Station
  <1>3. Settled(t)
    BY DEF Settled, Quiet, Good, Station, Up
  <1> QED
    BY <1>1, <1>2, <1>3, GoodIntro

\* PollOrClose keeps the entry Good.
LEMMA PollOrCloseGood ==
  ASSUME NEW s, Good(s)
  PROVE  Good(PollOrClose(s))
  <1> DEFINE r == Retry(s)
             t == [InformPartner(r) EXCEPT !.L2RETRIES = 254, !.L2STATE = 4]
  <1>1. Good(r) /\ Good(InformPartner(r))
    BY RetryGood, InformPartnerGood
  <1>2. Good(t)
    BY <1>1, GiveUpGood
  <1> HIDE DEF r, t
  <1>3. Good(L2SENDCOMMAND(t, "DISC", 0))
    BY <1>2, SeqNoFacts, SendCommandGood DEF Control
  <1>4. Good(SendSupervisCmd(r))
    BY <1>1, SendSupervisGood DEF Good, Settled
  <1> QED
    BY <1>3, <1>4 DEF PollOrClose, r, t

\* L2TIMEOUT keeps the entry Good.
LEMMA TimeoutGood ==
  ASSUME NEW s, Good(s)
  PROVE  Good(L2TIMEOUT(s))
  <1> DEFINE r == Retry(s)
             t == [r EXCEPT !.L2RETRIES = 0, !.L2STATE = 2]
  <1>1. Good(r) /\ r \in Station /\ Good(InformPartner(r)) /\ InformPartner(r) \in Station
    BY RetryGood, InformPartnerGood DEF Good
  <1>2. Good(CLEAROUTLINK(r)) /\ Good(CLEAROUTLINK(InformPartner(r)))
    BY <1>1, ClearOutGood
  <1>3. Good(L2SENDCOMMAND(r, "SABM", 0)) /\ Good(L2SENDCOMMAND(r, "DISC", 0))
    BY <1>1, SeqNoFacts, SendCommandGood DEF Control
  <1>4. Good(t)
    <2> HIDE DEF r
    <2>1. FieldsOK(t)
      BY <1>1 DEF FieldsOK, Good, Station
    <2>2. IsRecord(t)
      BY <1>1 DEF IsRecord, Fields, Good, Station
    <2>3. Settled(t)
      BY <1>1 DEF Settled, Quiet, Good, Station, Up
    <2> QED
      BY <2>1, <2>2, <2>3, GoodIntro
  <1>5. Good(L2SENDCOMMAND(t, "SABM", 0))
    BY <1>4, SeqNoFacts, SendCommandGood DEF Control
  <1>6. Good(PollOrClose(r)) /\ Good(PollOrClose(s))
    BY <1>1, PollOrCloseGood
  <1> QED
    BY <1>1, <1>2, <1>3, <1>5, <1>6 DEF L2TIMEOUT, RepeatDisc

\* L2TimerProc keeps the entry Good: every timer event, in every state.
LEMMA TimerProcGood ==
  ASSUME NEW s, Good(s), NEW ev \in TimerEvents
  PROVE  Good(L2TimerProc(s, ev))
  <1> DEFINE g == HangGuard(s)
             c == CheckBusy(g)
             noAck == [g EXCEPT !.L2ACKREQ = FALSE]
             due == [c EXCEPT !.L2SLOTIM = FALSE]
             idle == [c EXCEPT !.L2TIMER = TRUE, !.L2STATE = 4]
  <1>1. Good(g)
    BY L2TimerGood DEF HangGuard
  <1>2. Good(c)
    <2> HIDE DEF g
    <2> DEFINE t == [g EXCEPT !.RNRSENT = FALSE, !.L2ACKREQ = FALSE]
    <2>1. FieldsOK(t)
      BY <1>1 DEF FieldsOK, Good, Station
    <2>2. IsRecord(t)
      BY <1>1 DEF IsRecord, Fields, Good, Station
    <2>3. Settled(t)
      BY <1>1 DEF Settled, Quiet, Good, Station, Up
    <2>4. Good(t)
      BY <2>1, <2>2, <2>3, GoodIntro
    <2> QED
      BY <1>1, <2>4 DEF CheckBusy
  <1> HIDE DEF g
  <1>3. Good(L2TIMEOUT([s EXCEPT !.L2TIMER = FALSE])) /\ Good(SendSupervisCmd(c))
    BY <1>2, L2TimerGood, TimeoutGood, SendSupervisGood DEF Good, Settled
  <1>4. Good(SEND_RR_RESP(noAck, FALSE))
    BY <1>1, FlagsGood, SendRRGood
  <1> HIDE DEF c
  <1>5. Good(SendSupervisCmd(due))
    <2>1. FieldsOK(due)
      BY <1>2 DEF FieldsOK, Good, Station
    <2>2. IsRecord(due)
      BY <1>2 DEF IsRecord, Fields, Good, Station
    <2>3. due.LINKOWS = due.LINKWS
      BY <1>2 DEF Settled, Good, Station
    <2> HIDE DEF due
    <2> QED
      BY <2>1, <2>2, <2>3, StationIntro, SendSupervisGood
  <1>6. Good(InformPartner(idle))
    <2>1. FieldsOK(idle)
      BY <1>2 DEF FieldsOK, Good, Station
    <2>2. IsRecord(idle)
      BY <1>2 DEF IsRecord, Fields, Good, Station
    <2>3. Settled(idle)
      BY <1>2 DEF Settled, Quiet, Good, Station, Up
    <2> QED
      BY <2>1, <2>2, <2>3, GoodIntro, InformPartnerGood
  <1> QED
    BY <1>2, <1>3, <1>4, <1>5, <1>6 DEF L2TimerProc, TimerEvents, KillIdle, g, c

-----------------------------------------------------------------------------
(* The two stations.                                                       *)

\* The inductive invariant.
IInv == TypeOK /\ \A n \in Node : Good(station[n])

\* The type of the counters of the bounds, as TypeOK has it.
Used == [connect : [Node -> Nat], loss : Nat, busy : Nat, restart : Nat, spurious : Nat]

\* Counting up any one bound keeps the type of the counters.
LEMMA UsedGrows ==
  ASSUME NEW u \in Used, NEW n \in Node
  PROVE  /\ [u EXCEPT !.connect[n] = @ + 1] \in Used
         /\ [u EXCEPT !.loss = @ + 1] \in Used
         /\ [u EXCEPT !.busy = @ + 1] \in Used
         /\ [u EXCEPT !.restart = @ + 1] \in Used
         /\ [u EXCEPT !.spurious = @ + 1] \in Used /\ [u EXCEPT !.spurious = @] \in Used
  BY DEF Used

\* The stations are n and its peer.
LEMMA PeerFacts ==
  ASSUME NEW n \in Node
  PROVE  Peer(n) \in Node /\ Peer(n) # n /\ \A m \in Node : m = n \/ m = Peer(n)
  BY NodeAssumption DEF Node, Peer

\* The port queues have no part in Good but their types.
LEMMA PortQueuesGood ==
  ASSUME NEW s, Good(s), NEW q \in Seq(Frame)
  PROVE  Good([s EXCEPT !.PORTRX_Q = q]) /\ Good([s EXCEPT !.PORTTX_Q = q])
  <1>1. Good([s EXCEPT !.PORTRX_Q = q])
    <2> DEFINE t == [s EXCEPT !.PORTRX_Q = q]
    <2>1. FieldsOK(t)
      BY DEF FieldsOK, Good, Station
    <2>2. IsRecord(t)
      BY DEF IsRecord, Fields, Good, Station
    <2>3. Settled(t)
      BY DEF Settled, Quiet, Good, Station, Up
    <2> QED
      BY <2>1, <2>2, <2>3, GoodIntro
  <1>2. Good([s EXCEPT !.PORTTX_Q = q])
    <2> DEFINE t == [s EXCEPT !.PORTTX_Q = q]
    <2>1. FieldsOK(t)
      BY DEF FieldsOK, Good, Station
    <2>2. IsRecord(t)
      BY DEF IsRecord, Fields, Good, Station
    <2>3. Settled(t)
      BY DEF Settled, Quiet, Good, Station, Up
    <2> QED
      BY <2>1, <2>2, <2>3, GoodIntro
  <1> QED
    BY <1>1, <1>2

\* The invariant holds when both stations have started.
LEMMA InitGood == Init => IInv
  <1> SUFFICES ASSUME Init PROVE IInv
    OBVIOUS
  <1>1. Good(FreeEntry) /\ FreeEntry \in Station
    BY FreeEntryGood DEF Good
  <1>2. TypeOK
    BY <1>1 DEF Init, TypeOK
  <1> QED
    BY <1>1, <1>2 DEF IInv, Init

\* Replacing one station by a Good one keeps all of them Good.
LEMMA StationPreserved ==
  ASSUME IInv, NEW n \in Node, NEW s, Good(s),
         station' = [station EXCEPT ![n] = s]
  PROVE  station' \in [Node -> Station] /\ \A m \in Node : Good(station'[m])
  BY DEF IInv, TypeOK, Good

\* A run that starts moves frames from the peer to n, and n is as the timers left it.
LEMMA StartRunGood ==
  ASSUME IInv, NEW n \in Node, NEW s, Good(s), NEW k \in 0 .. Waiting(n),
         StartRun(n, s, k)
  PROVE  /\ station' \in [Node -> Station] /\ \A m \in Node : Good(station'[m])
         /\ running' \in Node \cup {Idle} /\ given' = given /\ taken' = taken
  <1> DEFINE p == Peer(n)
             in == SubSeq(station[p].PORTTX_Q, 1, k)
             rest == SubSeq(station[p].PORTTX_Q, k + 1, Len(station[p].PORTTX_Q))
             t == [s EXCEPT !.PORTRX_Q = in]
             u == [station[p] EXCEPT !.PORTTX_Q = rest]
  <1>1. p \in Node /\ p # n /\ \A m \in Node : m = n \/ m = p
    BY PeerFacts
  <1>2. Good(station[p]) /\ station[p].PORTTX_Q \in Seq(Frame) /\ station \in [Node -> Station]
    BY <1>1 DEF IInv, TypeOK, Good, Station
  <1>3. k \in 0 .. Len(station[p].PORTTX_Q)
    BY DEF Waiting
  <1>4. in \in Seq(Frame)
    BY <1>2, <1>3, SubSeqProperties
  <1>5. rest \in Seq(Frame)
    BY <1>2, <1>3, DropType
  <1>6. Good(t) /\ Good(u)
    BY <1>2, <1>4, <1>5, PortQueuesGood
  <1>7. station' = [[station EXCEPT ![n] = t] EXCEPT ![p] = u]
    BY <1>1, <1>2 DEF StartRun
  <1> HIDE DEF t, u, p
  <1>8. station' \in [Node -> Station] /\ \A m \in Node : Good(station'[m])
    BY <1>1, <1>2, <1>6, <1>7 DEF Good
  <1> QED
    BY <1>8 DEF StartRun

\* A run with no timer due keeps the invariant.
LEMMA RunPortGood ==
  ASSUME IInv, NEW n \in Node, NEW k \in 0 .. Waiting(n), RunPort(n, k)
  PROVE  IInv'
  <1>1. Good(station[n])
    BY DEF IInv
  <1>2. StartRun(n, station[n], k) /\ used' = used
    BY DEF RunPort
  <1> QED
    BY <1>1, <1>2, StartRunGood DEF IInv, TypeOK

\* A run with a timer event keeps the invariant.
LEMMA RunTimersGood ==
  ASSUME IInv, NEW n \in Node, NEW k \in 0 .. Waiting(n), NEW ev \in TimerEvents,
         RunTimers(n, ev, k)
  PROVE  IInv'
  <1>1. Good(L2TimerProc(station[n], ev))
    BY TimerProcGood DEF IInv
  <1>2. StartRun(n, L2TimerProc(station[n], ev), k)
    BY DEF RunTimers
  <1>3. used' \in Used
    <2>1. used \in Used
      BY DEF IInv, TypeOK, Used
    <2>2. used' = [used EXCEPT !.spurious = IF Early(n, ev) THEN used.spurious + 1
                                                           ELSE used.spurious]
      BY DEF RunTimers
    <2> QED
      BY <2>1, <2>2, UsedGrows
  <1> QED
    BY <1>1, <1>2, <1>3, StartRunGood DEF IInv, TypeOK, Used

\* The histories CUTTX and CUTRX, and emptying RX_Q, have no part in Good.
LEMMA CutGood ==
  ASSUME NEW s, Good(s), NEW b \in BOOLEAN
  PROVE  Good([s EXCEPT !.CUTTX = b]) /\ Good([s EXCEPT !.RX_Q = << >>, !.CUTRX = b])
  <1>1. Good([s EXCEPT !.CUTTX = b])
    <2> DEFINE t == [s EXCEPT !.CUTTX = b]
    <2>1. FieldsOK(t)
      BY DEF FieldsOK, Good, Station
    <2>2. IsRecord(t)
      BY DEF IsRecord, Fields, Good, Station
    <2>3. Settled(t)
      BY DEF Settled, Quiet, Good, Station, Up
    <2> QED
      BY <2>1, <2>2, <2>3, GoodIntro
  <1>2. Good([s EXCEPT !.RX_Q = << >>, !.CUTRX = b])
    <2> DEFINE t == [s EXCEPT !.RX_Q = << >>, !.CUTRX = b]
    <2>1. FieldsOK(t)
      BY DEF FieldsOK, Good, Station
    <2>2. IsRecord(t)
      BY DEF IsRecord, Fields, Good, Station
    <2>3. Settled(t)
      BY DEF Settled, Quiet, Good, Station, Up
    <2> QED
      BY <2>1, <2>2, <2>3, GoodIntro
  <1> QED
    BY <1>1, <1>2

\* The sign-on message is a payload or NULL.
LEMMA SignOnType ==
  ASSUME IInv, NEW n \in Node
  PROVE  SignOn(n) \in Nat
  BY DEF IInv, TypeOK, SignOn, NULL

\* Handling a received frame keeps the invariant.
LEMMA ReceiveFrameGood ==
  ASSUME IInv, NEW n \in Node, NEW kind \in Answer[n], ReceiveFrame(n, kind)
  PROVE  IInv'
  <1> DEFINE s == station[n]
             answer == [kind |-> kind, ctext |-> SignOn(n)]
             q == [s EXCEPT !.PORTRX_Q = Tail(s.PORTRX_Q)]
             f == Head(s.PORTRX_Q)
             r == L2Routine(q, f, answer)
             signedOn == SignOn(n) # NULL /\ SignOn(n) \in ToSet(r.TX_Q)
             t == [r EXCEPT !.CUTTX = r.CUTTX /\ ~signedOn]
  <1>1. Good(s) /\ s.PORTRX_Q \in Seq(Frame)
    BY DEF IInv, Good, Station
  <1>2. s.PORTRX_Q # << >>
    BY DEF ReceiveFrame
  <1>3. f \in Frame /\ Tail(s.PORTRX_Q) \in Seq(Frame)
    BY <1>1, <1>2, HeadTailProperties
  <1>4. answer \in Answers
    BY SignOnType, BoundsAssumption DEF Answers
  <1>5. Good(q)
    BY <1>1, <1>3, PortQueuesGood
  <1>6. Good(r)
    BY <1>3, <1>4, <1>5, RoutineGood
  <1>7. r.CUTTX \in BOOLEAN
    BY <1>6 DEF Good, Station
  <1>8. /\ station' = [station EXCEPT ![n] = t]
        /\ given' = [given EXCEPT ![n] = IF signedOn THEN Append(given[n], r.CUTTX) ELSE given[n]]
        /\ running' = running /\ taken' = taken /\ used' = used
    BY DEF ReceiveFrame
  <1> HIDE DEF r, signedOn
  <1>9. Good(t)
    BY <1>6, CutGood
  <1> HIDE DEF t
  <1>10. station' \in [Node -> Station] /\ \A m \in Node : Good(station'[m])
    BY <1>8, <1>9, StationPreserved
  <1>11. given' \in [Node -> Seq(BOOLEAN)]
    <2>1. given \in [Node -> Seq(BOOLEAN)]
      BY DEF IInv, TypeOK
    <2>2. Append(given[n], r.CUTTX) \in Seq(BOOLEAN)
      BY <1>7, <2>1, AppendProperties
    <2> QED
      BY <1>8, <2>1, <2>2
  <1> QED
    BY <1>8, <1>10, <1>11 DEF IInv, TypeOK

\* ProcessIframes and SDETX keep the entry Good.
LEMMA LinkPassGood ==
  ASSUME NEW s, Good(s)
  PROVE  Good(LinkPass(s))
  <1> DEFINE r == [s EXCEPT !.RX_Q = << >>, !.CUTRX = FALSE]
  <1>1. Good(r)
    BY CutGood
  <1> HIDE DEF r
  <1>2. Good(SetupSessionForL2(r))
    BY <1>1, SetupSessionGood
  <1>3. Good(ProcessIframes(s))
    BY <1>1, <1>2 DEF ProcessIframes, r
  <1> QED
    BY <1>3, TransmitGood DEF LinkPass

\* A function on 1..k into T is a sequence of elements of T.
LEMMA SeqOfFunction ==
  ASSUME NEW T, NEW k \in Nat, NEW e, e = [i \in 1 .. k |-> e[i]],
         \A i \in 1 .. k : e[i] \in T
  PROVE  e \in Seq(T)
  OBVIOUS

\* The link pass that ends a run keeps the invariant.
LEMMA RunLinksGood ==
  ASSUME IInv, NEW n \in Node, RunLinks(n)
  PROVE  IInv'
  <1> DEFINE s == station[n]
             new == [i \in DOMAIN s.RX_Q |-> [info |-> s.RX_Q[i], cut |-> s.CUTRX /\ i = 1]]
             T == [info : Nat, cut : BOOLEAN]
  <1>1. Good(s) /\ s.RX_Q \in Seq(Nat) /\ s.CUTRX \in BOOLEAN
    BY DEF IInv, Good, Station
  <1>2. /\ station' = [station EXCEPT ![n] = LinkPass(s)]
        /\ taken' = [taken EXCEPT ![n] = taken[n] \o new]
        /\ running' = Idle /\ given' = given /\ used' = used
    BY DEF RunLinks
  <1>3. station' \in [Node -> Station] /\ \A m \in Node : Good(station'[m])
    BY <1>1, <1>2, LinkPassGood, StationPreserved
  <1>4. new \in Seq(T)
    <2>1. Len(s.RX_Q) \in Nat /\ DOMAIN s.RX_Q = 1 .. Len(s.RX_Q)
      BY <1>1
    <2>2. \A i \in 1 .. Len(s.RX_Q) : new[i] \in T
      BY <1>1, <2>1
    <2>3. new = [i \in 1 .. Len(s.RX_Q) |-> new[i]]
      BY <2>1
    <2> HIDE DEF new, T
    <2> QED
      BY <2>1, <2>2, <2>3, SeqOfFunction
  <1>5. taken' \in [Node -> Seq(T)]
    <2>1. taken \in [Node -> Seq(T)]
      BY DEF IInv, TypeOK
    <2> HIDE DEF new, T
    <2>2. taken[n] \o new \in Seq(T)
      BY <1>4, <2>1, ConcatProperties
    <2> QED
      BY <1>2, <2>1, <2>2
  <1> QED
    BY <1>2, <1>3, <1>5 DEF IInv, TypeOK

\* Time passing since the last F keeps the invariant.
LEMMA FTimePassesGood ==
  ASSUME IInv, NEW n \in Node, FTimePasses(n)
  PROVE  IInv'
  <1> DEFINE t == [station[n] EXCEPT !.LAST_F = FALSE]
  <1>1. Good(t)
    BY FlagsGood DEF IInv
  <1>2. station' = [station EXCEPT ![n] = t]
    BY DEF FTimePasses
  <1>3. station' \in [Node -> Station] /\ \A m \in Node : Good(station'[m])
    BY <1>1, <1>2, StationPreserved
  <1> QED
    BY <1>3 DEF IInv, TypeOK, FTimePasses

\* The CONNECT command keeps the invariant.
LEMMA ConnectGood ==
  ASSUME IInv, NEW n \in Node, Connect(n)
  PROVE  IInv'
  <1> DEFINE r == RESET2(station[n])
             t == [r EXCEPT !.LINKTYPE = 2, !.L2STATE = 2, !.CIRCUITPOINTER = TRUE,
                            !.SESSION = "calling"]
             u == L2SENDCOMMAND(t, "SABM", 0)
  <1>1. Good(r)
    BY Reset2Good DEF IInv, Good
  <1>2. station' = [station EXCEPT ![n] = u]
    BY DEF Connect
  <1> HIDE DEF r
  <1>3. Good(t)
    <2>1. FieldsOK(t)
      BY <1>1 DEF FieldsOK, Good, Station, Session
    <2>2. IsRecord(t)
      BY <1>1 DEF IsRecord, Fields, Good, Station
    <2>3. Settled(t)
      BY <1>1 DEF Settled, Quiet, Good, Station, Up
    <2> QED
      BY <2>1, <2>2, <2>3, GoodIntro
  <1>4. Good(u)
    BY <1>3, SeqNoFacts, SendCommandGood DEF Control
  <1> HIDE DEF u
  <1>5. station' \in [Node -> Station] /\ \A m \in Node : Good(station'[m])
    BY <1>2, <1>4, StationPreserved
  <1>6. used' \in Used
    <2>1. used' = [used EXCEPT !.connect[n] = used.connect[n] + 1]
      BY DEF Connect
    <2> QED
      BY <2>1, UsedGrows DEF IInv, TypeOK, Used
  <1> QED
    BY <1>5, <1>6 DEF IInv, TypeOK, Used, Connect

\* A frame from the session layer keeps the invariant.
LEMMA SendGood ==
  ASSUME IInv, NEW n \in Node, Send(n)
  PROVE  IInv'
  <1> DEFINE s == station[n]
             tx == Append(s.TX_Q, Len(given[n]) + 1)
             q == [s EXCEPT !.TX_Q = tx]
             t == [q EXCEPT !.CUTTX = FALSE]
  <1>1. Good(s) /\ s.TX_Q \in Seq(Nat) /\ s.CUTTX \in BOOLEAN
    BY DEF IInv, Good, Station
  <1>2. given \in [Node -> Seq(BOOLEAN)] /\ Len(given[n]) \in Nat
    BY DEF IInv, TypeOK
  <1>3. tx \in Seq(Nat)
    BY <1>1, <1>2, AppendProperties
  <1>4. station' = [station EXCEPT ![n] = t]
    BY DEF Send, IInv, TypeOK
  <1> HIDE DEF tx
  <1>5. Good(q)
    BY <1>1, <1>3, QueueGood
  <1> HIDE DEF q
  <1>6. Good(t)
    BY <1>5, CutGood
  <1> HIDE DEF t
  <1>7. station' \in [Node -> Station] /\ \A m \in Node : Good(station'[m])
    BY <1>4, <1>6, StationPreserved
  <1>8. given' \in [Node -> Seq(BOOLEAN)]
    <2>1. Append(given[n], s.CUTTX) \in Seq(BOOLEAN)
      BY <1>1, <1>2, AppendProperties
    <2> QED
      BY <1>2, <2>1 DEF Send
  <1> QED
    BY <1>7, <1>8 DEF IInv, TypeOK, Send

\* CLOSECURRENTSESSION keeps the entry Good, with any frames still to be sent.
LEMMA CloseSessionGood ==
  ASSUME NEW s, Good(s), NEW pending \in Seq(Nat)
  PROVE  Good(CLOSECURRENTSESSION(s, pending))
  <1> DEFINE tx == s.TX_Q \o pending
             cut == s.CUTTX /\ pending = << >>
             r == [s EXCEPT !.TX_Q = tx, !.CIRCUITPOINTER = FALSE, !.SESSION = "none",
                            !.CUTTX = cut]
             pend == [r EXCEPT !.DISCPENDING = TRUE]
             disc == [r EXCEPT !.L2STATE = 4, !.L2TIMER = TRUE]
  <1>1. tx \in Seq(Nat) /\ cut \in BOOLEAN
    BY ConcatProperties DEF Good, Station
  <1>2. CLOSECURRENTSESSION(s, pending) \in {pend, disc}
    BY DEF CLOSECURRENTSESSION
  <1> HIDE DEF tx, cut
  <1>3. Good(r)
    <2>1. FieldsOK(r)
      BY <1>1 DEF FieldsOK, Good, Station, Session
    <2>2. IsRecord(r)
      BY DEF IsRecord, Fields, Good, Station
    <2>3. Settled(r)
      BY DEF Settled, Quiet, Good, Station, Up
    <2> QED
      BY <2>1, <2>2, <2>3, GoodIntro
  <1> HIDE DEF r
  <1>4. Good(pend)
    <2>1. FieldsOK(pend)
      BY <1>3 DEF FieldsOK, Good, Station
    <2>2. IsRecord(pend)
      BY <1>3 DEF IsRecord, Fields, Good, Station
    <2>3. Settled(pend)
      BY <1>3 DEF Settled, Quiet, Good, Station, Up
    <2> QED
      BY <2>1, <2>2, <2>3, GoodIntro
  <1>5. Good(disc)
    <2>1. FieldsOK(disc)
      BY <1>3 DEF FieldsOK, Good, Station
    <2>2. IsRecord(disc)
      BY <1>3 DEF IsRecord, Fields, Good, Station
    <2>3. Settled(disc)
      BY <1>3 DEF Settled, Quiet, Good, Station, Up
    <2> QED
      BY <2>1, <2>2, <2>3, GoodIntro
  <1> QED
    BY <1>2, <1>4, <1>5

\* Closing a session keeps the invariant.
LEMMA CloseGood ==
  ASSUME IInv, NEW n \in Node, Close(n)
  PROVE  IInv'
  <1> PICK k \in 0 .. MaxMsg[n] - Len(given[n]) :
         /\ station' = [station EXCEPT ![n] =
               CLOSECURRENTSESSION(station[n], [i \in 1 .. k |-> Len(given[n]) + i])]
         /\ given' = [given EXCEPT ![n] =
               given[n] \o [i \in 1 .. k |-> station[n].CUTTX /\ i = 1]]
    BY DEF Close
  <1> DEFINE pending == [i \in 1 .. k |-> Len(given[n]) + i]
             cuts == [i \in 1 .. k |-> station[n].CUTTX /\ i = 1]
             t == CLOSECURRENTSESSION(station[n], pending)
  <1>1. given \in [Node -> Seq(BOOLEAN)] /\ Len(given[n]) \in Nat /\ k \in Nat
    BY BoundsAssumption DEF IInv, TypeOK
  <1>2. pending \in Seq(Nat)
    BY <1>1, SeqOfFunction
  <1>3. cuts \in Seq(BOOLEAN)
    BY <1>1, SeqOfFunction
  <1>4. given[n] \o cuts \in Seq(BOOLEAN)
    BY <1>1, <1>3, ConcatProperties
  <1>5. Good(t)
    BY <1>2, CloseSessionGood DEF IInv
  <1> HIDE DEF t, cuts
  <1>6. station' \in [Node -> Station] /\ \A m \in Node : Good(station'[m])
    BY <1>5, StationPreserved DEF t
  <1>7. given' \in [Node -> Seq(BOOLEAN)]
    BY <1>1, <1>4 DEF cuts
  <1> QED
    BY <1>6, <1>7 DEF IInv, TypeOK, Close

\* Cancelling a connect keeps the invariant; PORTN2 - 2 is a retry count.
LEMMA CancelConnectGood ==
  ASSUME IInv, NEW n \in Node, CancelConnect(n)
  PROVE  IInv'
  <1> DEFINE s == station[n]
             t == [s EXCEPT !.CIRCUITPOINTER = FALSE, !.SESSION = "none", !.L2STATE = 4,
                            !.L2TIMER = TRUE, !.L2RETRIES = PORTN2 - 2]
  <1>1. Good(s)
    BY DEF IInv
  <1>2. station' = [station EXCEPT ![n] = t]
    BY DEF CancelConnect, IInv, TypeOK
  <1>3. Good(t)
    <2> HIDE DEF s
    <2>1. FieldsOK(t)
      BY <1>1, RetryAssumption DEF FieldsOK, Good, Station, Session
    <2>2. IsRecord(t)
      BY <1>1, ZenonT(30) DEF IsRecord, Fields, Good, Station
    <2>3. Settled(t)
      BY <1>1 DEF Settled, Quiet, Good, Station, Up
    <2> QED
      BY <2>1, <2>2, <2>3, GoodIntro
  <1> HIDE DEF t
  <1>4. station' \in [Node -> Station] /\ \A m \in Node : Good(station'[m])
    BY <1>2, <1>3, StationPreserved
  <1> QED
    BY <1>4 DEF IInv, TypeOK, CancelConnect

\* A queue with one frame lost is a queue of the same kind.
LEMMA RemoveAtType ==
  ASSUME NEW T, NEW q \in Seq(T), NEW i \in DOMAIN q
  PROVE  RemoveAt(q, i) \in Seq(T)
  <1>1. SubSeq(q, 1, i - 1) \in Seq(T) /\ SubSeq(q, i + 1, Len(q)) \in Seq(T)
    BY SubSeqProperties
  <1> QED
    BY <1>1, ConcatProperties DEF RemoveAt

\* Losing a frame keeps the invariant.
LEMMA LoseFrameGood ==
  ASSUME IInv, NEW n \in Node, LoseFrame(n)
  PROVE  IInv'
  <1> DEFINE s == station[n]
  <1> PICK i \in DOMAIN s.PORTTX_Q :
         station' = [station EXCEPT ![n].PORTTX_Q = RemoveAt(@, i)]
    BY DEF LoseFrame
  <1> DEFINE t == [s EXCEPT !.PORTTX_Q = RemoveAt(s.PORTTX_Q, i)]
  <1>1. Good(s) /\ s.PORTTX_Q \in Seq(Frame)
    BY DEF IInv, Good, Station
  <1>2. Good(t)
    BY <1>1, RemoveAtType, PortQueuesGood
  <1>3. station' = [station EXCEPT ![n] = t]
    BY DEF IInv, TypeOK
  <1> HIDE DEF t
  <1>4. station' \in [Node -> Station] /\ \A m \in Node : Good(station'[m])
    BY <1>2, <1>3, StationPreserved
  <1>5. used' \in Used
    BY UsedGrows DEF LoseFrame, IInv, TypeOK, Used
  <1> QED
    BY <1>4, <1>5 DEF IInv, TypeOK, Used, LoseFrame

\* BUSY has no part in Good but its type.
LEMMA BusyGood ==
  ASSUME NEW s, Good(s), NEW b \in BOOLEAN
  PROVE  Good([s EXCEPT !.BUSY = b])
  <1> DEFINE t == [s EXCEPT !.BUSY = b]
  <1>1. FieldsOK(t)
    BY DEF FieldsOK, Good, Station
  <1>2. IsRecord(t)
    BY DEF IsRecord, Fields, Good, Station
  <1>3. Settled(t)
    BY DEF Settled, Quiet, Good, Station, Up
  <1> QED
    BY <1>1, <1>2, <1>3, GoodIntro

\* Becoming busy or free keeps the invariant.
LEMMA BusyChangesGood ==
  ASSUME IInv, NEW n \in Node, BecomeBusy(n) \/ BecomeFree(n)
  PROVE  IInv'
  <1> PICK b \in BOOLEAN : station' = [station EXCEPT ![n] = [station[n] EXCEPT !.BUSY = b]]
    BY DEF BecomeBusy, BecomeFree, IInv, TypeOK
  <1>1. Good([station[n] EXCEPT !.BUSY = b])
    BY BusyGood DEF IInv
  <1>2. station' \in [Node -> Station] /\ \A m \in Node : Good(station'[m])
    BY <1>1, StationPreserved
  <1>3. used' \in Used
    BY UsedGrows DEF BecomeBusy, BecomeFree, IInv, TypeOK, Used
  <1> QED
    BY <1>2, <1>3 DEF IInv, TypeOK, Used, BecomeBusy, BecomeFree

\* A restart keeps the invariant.
LEMMA RestartGood ==
  ASSUME IInv, NEW n \in Node, Restart(n)
  PROVE  IInv'
  <1>1. station' \in [Node -> Station] /\ \A m \in Node : Good(station'[m])
    BY FreeEntryGood, StationPreserved DEF Restart
  <1>2. used' \in Used
    BY UsedGrows DEF Restart, IInv, TypeOK, Used
  <1> QED
    BY <1>1, <1>2 DEF IInv, TypeOK, Used, Restart

\* The invariant is inductive: every step keeps it.
LEMMA NextGood == IInv /\ [Next]_vars => IInv'
  <1> SUFFICES ASSUME IInv, [Next]_vars PROVE IInv'
    OBVIOUS
  <1>1. CASE UNCHANGED vars
    BY <1>1 DEF IInv, TypeOK, vars
  <1>2. CASE Next
    BY <1>2, RunPortGood, RunTimersGood, ReceiveFrameGood, RunLinksGood, FTimePassesGood,
       ConnectGood, SendGood, CloseGood, CancelConnectGood, LoseFrameGood,
       BusyChangesGood, RestartGood DEF Next
  <1> QED
    BY <1>1, <1>2

\* The inductive invariant holds in every reachable state.
THEOREM Invariance == Spec => []IInv
  BY InitGood, NextGood, PTL DEF Spec

\* Every field, queue, frame and history keeps its type: no sequence number or
\* retry count leaves its range, whatever the peer sends.
THEOREM TypeCorrect == Spec => []TypeOK
  BY Invariance, PTL DEF IInv

\* What Good says of each station is AcksAreSettled and NoSilentStall.
LEMMA GoodMeans == IInv => AcksAreSettled /\ NoSilentStall
  BY DEF IInv, TypeOK, Good, Settled, Quiet, AcksAreSettled, NoSilentStall

\* AcksAreSettled: between two handlers every frame whose acknowledgement was
\* accepted has been released.  LINKOWS trails LINKWS inside SDNRCHK and ACKMSG
\* only, so the window test of SDETX, which compares the two, never holds.
THEOREM AcksSettled == Spec => []AcksAreSettled
  BY Invariance, GoodMeans, PTL

\* NoSilentStall: a link that is up and has frames or a poll outstanding has the
\* link timer or the validation timer running, after any losses, retries, resets,
\* reconnects and restarts.
THEOREM AlwaysAsksAgain == Spec => []NoSilentStall
  BY Invariance, GoodMeans, PTL
=============================================================================
