---------------------------- MODULE L4EntryProofs ----------------------------
(***************************************************************************)
(* Every handler of L4Entry keeps an entry of L4TABLE Good: its fields     *)
(* keep their types, it keeps its place in the table, and the frames it    *)
(* holds for a retry are no more than its window start and its next        *)
(* sequence number account for.                                            *)
(*                                                                         *)
(* There is one lemma per operator, in the order of the module, up to      *)
(* FrameForUsGood (any message), BGGood and TimerEventGood (the passes).   *)
(*                                                                         *)
(* As an entry has 24 fields, an update is shown to be a record with the   *)
(* fields of an entry (IsRecord) and each field to have its type           *)
(* (FieldsOK), and EntryIntro puts the two together.                       *)
(***************************************************************************)
EXTENDS L4Entry, SequenceTheorems, FiniteSetTheorems, WellFoundedInduction, TLAPS

\* The frames held are no more than those between L4WS and TXSEQNO, nor than the
\* window and one.
Held(e) ==
    /\ Len(e.L4HOLD_Q) <= Outstanding(e)
    /\ Len(e.L4HOLD_Q) <= L4WINDOW + 1

\* The inductive invariant of one entry.
Good(e) == e \in Entry /\ Held(e)

\* A handler has made e into f: Good, and in the same place of the table.
Keeps(e, f) == Good(f) /\ f.CIRCUITINDEX = e.CIRCUITINDEX

\* The names of the fields of an entry.
Fields ==
    {"L4STATE", "USER", "CIRCUITINDEX", "CIRCUITID", "FARINDEX", "FARID",
     "TXSEQNO", "RXSEQNO", "L4WS", "L4LASTACKED", "L4TX_Q", "L4HOLD_Q",
     "L4RESEQ_Q", "L4TIMER", "L4ACKREQ", "L4RETRIES", "CHOKED", "DISCPENDING",
     "BUSY", "NAK", "PARTNERBUSY", "CIRCUIT", "OUT", "TAKEN"}

\* Each field of e has its type, whatever else e is.
FieldsOK(e) ==
    /\ e.L4STATE \in {0, 2, 4, 5} /\ e.USER \in {"none", "partner", "node"}
    /\ e.CIRCUITINDEX \in Index /\ e.CIRCUITID \in Id \cup {0}
    /\ e.FARINDEX \in Index \cup {0} /\ e.FARID \in Id \cup {0}
    /\ e.TXSEQNO \in SeqNo /\ e.RXSEQNO \in SeqNo
    /\ e.L4WS \in SeqNo /\ e.L4LASTACKED \in SeqNo
    /\ e.L4TX_Q \in Seq(Nat) /\ e.L4HOLD_Q \in Seq(Message)
    /\ e.L4RESEQ_Q \in Seq(Message)
    /\ e.L4TIMER \in BOOLEAN /\ e.L4ACKREQ \in BOOLEAN /\ e.L4RETRIES \in 0 .. 255
    /\ e.CHOKED \in BOOLEAN /\ e.DISCPENDING \in BOOLEAN /\ e.BUSY \in BOOLEAN
    /\ e.NAK \in BOOLEAN /\ e.PARTNERBUSY \in BOOLEAN /\ e.CIRCUIT \in Nat
    /\ e.OUT \in Seq(Message) /\ e.TAKEN \in Seq(Nat)

\* e is a record with the fields of an entry.
IsRecord(e) == e = [f \in Fields |-> e[f]]

\* A record with well-typed fields of an entry is an entry.
LEMMA EntryIntro ==
  ASSUME NEW e, IsRecord(e), FieldsOK(e)
  PROVE  e \in Entry
  BY DEF IsRecord, Fields, FieldsOK, Entry

\* A well-typed record that holds no more than it may is Good.
LEMMA GoodIntro ==
  ASSUME NEW e, IsRecord(e), FieldsOK(e), Held(e)
  PROVE  Good(e)
  BY EntryIntro DEF Good

\* 0, where sequence numbers start, is one of them.
LEMMA SeqNoFacts == 0 \in SeqNo
  BY ModulusAssumption DEF SeqNo

\* Counting a sequence number on (a byte in the code) gives a sequence number.
LEMMA AddType ==
  ASSUME NEW i \in SeqNo, NEW j \in Int
  PROVE  Add(i, j) \in SeqNo
  BY ModulusAssumption DEF SeqNo, Add

\* A sequence number counted on by no more than the modulus wraps at most once.
LEMMA AddOf ==
  ASSUME NEW i \in SeqNo, NEW k \in 0 .. Modulus
  PROVE  Add(i, k) = IF i + k < Modulus THEN i + k ELSE i + k - Modulus
  <1>1. i + k \in 0 .. 2 * Modulus - 1 /\ Modulus \in Nat \ {0}
    BY ModulusAssumption DEF SeqNo
  <1> QED
    BY <1>1 DEF Add, SeqNo

\* The way from one sequence number to another, by cases.
LEMMA DistanceOf ==
  ASSUME NEW i \in SeqNo, NEW j \in SeqNo
  PROVE  /\ Distance(i, j) = IF j >= i THEN j - i ELSE j - i + Modulus
         /\ Distance(i, j) \in SeqNo
  <1>1. j - i \in -(Modulus - 1) .. Modulus - 1 /\ Modulus \in Nat \ {0}
    BY ModulusAssumption DEF SeqNo
  <1>2. Distance(i, j) = IF j >= i THEN j - i ELSE j - i + Modulus
    BY <1>1 DEF Distance, SeqNo
  <1> QED
    BY <1>1, <1>2 DEF SeqNo

\* Half the sequence numbers, and the window below it.
LEMMA HalfFacts == Half \in Nat /\ 2 * Half = Modulus /\ L4WINDOW \in Nat /\ L4WINDOW < Half
  BY ModulusAssumption, WindowAssumption DEF Half

\* The frames left of a queue when its head has gone.
LEMMA DropType ==
  ASSUME NEW S, NEW q \in Seq(S), NEW k \in Nat
  PROVE  /\ SubSeq(q, k + 1, Len(q)) \in Seq(S)
         /\ Len(SubSeq(q, k + 1, Len(q))) <= Len(q)
         /\ Len(SubSeq(q, k + 1, Len(q))) = IF k <= Len(q) THEN Len(q) - k ELSE 0
  <1>1. Len(q) \in Nat /\ \A i \in 1 .. Len(q) : q[i] \in S
    BY ElementOfSeq, LenProperties
  <1> QED
    BY <1>1, SubSeqProperties

\* A message of the code's layout is a message.
LEMMA MsgType ==
  ASSUME NEW op \in {"CREQ", "CACK", "DREQ", "DACK", "INFO", "IACK"},
         NEW index \in Index \cup {0}, NEW id \in Id \cup {0},
         NEW own \in [index : Index \cup {0}, id : Id \cup {0}],
         NEW tx \in SeqNo, NEW rx \in SeqNo, NEW b \in BOOLEAN, NEW k \in BOOLEAN,
         NEW info \in Nat
  PROVE  [op |-> op, index |-> index, id |-> id, own |-> own, txno |-> tx,
          rxno |-> rx, busy |-> b, nak |-> k, info |-> info] \in Message
  BY DEF Message

\* An entry that is not in use is Good.
LEMMA FreeEntryGood ==
  ASSUME NEW i \in Index
  PROVE  Good(FreeEntry(i)) /\ FreeEntry(i).CIRCUITINDEX = i
  <1>1. FieldsOK(FreeEntry(i))
    BY SeqNoFacts DEF FieldsOK, FreeEntry
  <1>2. IsRecord(FreeEntry(i))
    BY DEF IsRecord, Fields, FreeEntry
  <1>3. Held(FreeEntry(i))
    <2>1. Distance(0, 0) = 0 /\ 0 <= L4WINDOW + 1
      BY SeqNoFacts, DistanceOf, HalfFacts
    <2>2. FreeEntry(i).L4HOLD_Q = << >> /\ FreeEntry(i).L4WS = 0 /\ FreeEntry(i).TXSEQNO = 0
      BY DEF FreeEntry
    <2>3. Len(<< >>) = 0
      OBVIOUS
    <2> HIDE DEF FreeEntry
    <2> QED
      BY <2>1, <2>2, <2>3 DEF Held, Outstanding
  <1> QED
    BY <1>1, <1>2, <1>3, GoodIntro DEF FreeEntry

\* CLEARSESSIONENTRY keeps the place of an entry, what it has sent and what it has
\* passed on, and nothing else of it.
LEMMA ClearAny ==
  ASSUME NEW e, e.CIRCUITINDEX \in Index, e.OUT \in Seq(Message), e.TAKEN \in Seq(Nat)
  PROVE  Keeps(e, CLEARSESSIONENTRY(e))
  <1> DEFINE f == FreeEntry(e.CIRCUITINDEX)
             t == CLEARSESSIONENTRY(e)
  <1>1. e.CIRCUITINDEX \in Index /\ e.OUT \in Seq(Message) /\ e.TAKEN \in Seq(Nat)
    OBVIOUS
  <1>2. Good(f) /\ f.CIRCUITINDEX = e.CIRCUITINDEX
    BY <1>1, FreeEntryGood
  <1>3. t = [f EXCEPT !.OUT = e.OUT, !.TAKEN = e.TAKEN]
    BY DEF CLEARSESSIONENTRY
  <1> HIDE DEF f, t
  <1>4. FieldsOK(t)
    BY <1>1, <1>2, <1>3 DEF FieldsOK, Good, Entry
  <1>5. IsRecord(t)
    BY <1>2, <1>3 DEF IsRecord, Fields, Good, Entry
  <1>6. Held(t)
    BY <1>2, <1>3 DEF Held, Good, Entry, Outstanding
  <1>7. t.CIRCUITINDEX = e.CIRCUITINDEX
    BY <1>2, <1>3 DEF Good, Entry
  <1> QED
    BY <1>4, <1>5, <1>6, <1>7, GoodIntro DEF Keeps, t

\* CLEARSESSIONENTRY makes any entry Good.
LEMMA ClearGood ==
  ASSUME NEW e \in Entry
  PROVE  Keeps(e, CLEARSESSIONENTRY(e))
  BY ClearAny DEF Entry

\* An entry whose sender's half is untouched holds what it did.
LEMMA SameHeld ==
  ASSUME NEW e, Held(e), NEW f, f.L4HOLD_Q = e.L4HOLD_Q, f.L4WS = e.L4WS,
         f.TXSEQNO = e.TXSEQNO
  PROVE  Held(f)
  BY DEF Held, Outstanding

\* What a handler sends is no part of Good but its type.
LEMMA PostGood ==
  ASSUME NEW e, Good(e), NEW m \in Message
  PROVE  Keeps(e, Post(e, m))
  <1> DEFINE t == Post(e, m)
  <1>1. FieldsOK(t)
    BY AppendProperties DEF FieldsOK, Post, Good, Entry
  <1>2. IsRecord(t)
    BY DEF IsRecord, Fields, Post, Good, Entry
  <1>3. Held(t)
    BY SameHeld DEF Good, Entry, Post
  <1> QED
    BY <1>1, <1>2, <1>3, GoodIntro DEF Keeps, Post, Good, Entry

\* Setting NAKBITS.
LEMMA BusyBitGood ==
  ASSUME NEW e, Good(e)
  PROVE  Keeps(e, GETBUSYBIT(e))
  <1> DEFINE t == GETBUSYBIT(e)
  <1>1. CHECKIFBUSYL4(e) \in BOOLEAN
    <2>1. CASE e.USER = "partner"
      BY <2>1 DEF CHECKIFBUSYL4, Good, Entry
    <2>2. CASE e.USER # "partner"
      <3> DEFINE queued == Len(e.L4TX_Q) + Outstanding(e) >= L4WINDOW
      <3>1. queued \in BOOLEAN
        BY SMT
      <3> HIDE DEF queued
      <3>2. CHECKIFBUSYL4(e) = queued
        BY <2>2 DEF CHECKIFBUSYL4, queued
      <3> QED
        BY <3>1, <3>2
    <2> QED
      BY <2>1, <2>2
  <1>2. FieldsOK(t)
    BY <1>1 DEF FieldsOK, GETBUSYBIT, Good, Entry
  <1>3. IsRecord(t)
    BY DEF IsRecord, Fields, GETBUSYBIT, Good, Entry
  <1>4. Held(t)
    BY SameHeld DEF Good, Entry, GETBUSYBIT
  <1> QED
    BY <1>2, <1>3, <1>4, GoodIntro DEF Keeps, GETBUSYBIT, Good, Entry

\* An acknowledgement on its own.
LEMMA IAckGood ==
  ASSUME NEW e, Good(e)
  PROVE  Keeps(e, SENDL4IACK(e))
  <1> DEFINE b == GETBUSYBIT(e)
             s == [b EXCEPT !.L4LASTACKED = e.RXSEQNO]
             m == [Msg("IACK", e.FARINDEX, e.FARID)
                     EXCEPT !.rxno = e.RXSEQNO, !.busy = s.BUSY, !.nak = s.NAK]
  <1>1. SENDL4IACK(e) = Post(s, m)
    BY DEF SENDL4IACK
  <1>2. Good(b) /\ b.CIRCUITINDEX = e.CIRCUITINDEX
    BY BusyBitGood DEF Keeps
  <1>3. e.RXSEQNO \in SeqNo /\ e.FARINDEX \in Index \cup {0} /\ e.FARID \in Id \cup {0}
    BY DEF Good, Entry
  <1> HIDE DEF b
  <1>4. FieldsOK(s) /\ IsRecord(s)
    BY <1>2, <1>3 DEF FieldsOK, IsRecord, Fields, Good, Entry
  <1>5. Held(s)
    BY <1>2, SameHeld DEF Good, Entry
  <1>6. Good(s) /\ s.CIRCUITINDEX = e.CIRCUITINDEX
    BY <1>2, <1>4, <1>5, GoodIntro DEF Good, Entry
  <1>7. s.BUSY \in BOOLEAN /\ s.NAK \in BOOLEAN
    BY <1>4 DEF FieldsOK
  <1>8. m \in Message
    BY <1>3, <1>7, SeqNoFacts DEF Msg, Nobody, Message
  <1> HIDE DEF s, m
  <1> QED
    BY <1>1, <1>6, <1>8, PostGood DEF Keeps

\* The sender may send while no more than L4WINDOW frames are outstanding (the
\* test of L4BG): one more is then held, and one more is outstanding.
LEMMA MessageGood ==
  ASSUME NEW e, Good(e), NEW info \in Nat, Outstanding(e) <= L4WINDOW
  PROVE  Keeps(e, SENDL4MESSAGE(e, info))
  <1> DEFINE a == [e EXCEPT !.TXSEQNO = Add(@, 1)]
             b == GETBUSYBIT(a)
             m == [Msg("INFO", e.FARINDEX, e.FARID)
                     EXCEPT !.txno = e.TXSEQNO, !.rxno = e.RXSEQNO,
                            !.busy = b.BUSY, !.nak = b.NAK, !.info = info]
             s == [b EXCEPT !.L4LASTACKED = e.RXSEQNO, !.L4TIMER = TRUE,
                            !.L4ACKREQ = FALSE, !.L4HOLD_Q = Append(@, m)]
  <1>1. SENDL4MESSAGE(e, info) = Post(s, m)
    BY DEF SENDL4MESSAGE
  <1>2. /\ e \in Entry /\ Held(e) /\ e.RXSEQNO \in SeqNo /\ e.TXSEQNO \in SeqNo
        /\ e.L4WS \in SeqNo /\ e.L4HOLD_Q \in Seq(Message)
        /\ e.FARINDEX \in Index \cup {0} /\ e.FARID \in Id \cup {0}
    BY DEF Good, Entry
  <1>3. Add(e.TXSEQNO, 1) \in SeqNo
    BY <1>2, AddType
  <1>4. Outstanding(a) = Outstanding(e) + 1
    <2>1. a.L4WS = e.L4WS /\ a.TXSEQNO = Add(e.TXSEQNO, 1)
      BY <1>2 DEF Entry
    <2> HIDE DEF a
    <2>2. /\ Add(e.TXSEQNO, 1) = IF e.TXSEQNO + 1 < Modulus THEN e.TXSEQNO + 1 ELSE 0
      BY <1>2, AddOf, ModulusAssumption DEF SeqNo
    <2>3. Outstanding(e) = IF e.TXSEQNO >= e.L4WS THEN e.TXSEQNO - e.L4WS
                                                  ELSE e.TXSEQNO - e.L4WS + Modulus
      BY <1>2, DistanceOf DEF Outstanding
    <2>4. Outstanding(a) = IF a.TXSEQNO >= a.L4WS THEN a.TXSEQNO - a.L4WS
                                                  ELSE a.TXSEQNO - a.L4WS + Modulus
      BY <1>2, <1>3, <2>1, DistanceOf DEF Outstanding
    <2> QED
      BY <1>2, <2>1, <2>2, <2>3, <2>4, HalfFacts, ModulusAssumption DEF SeqNo
  <1>5. FieldsOK(a) /\ IsRecord(a)
    BY <1>2, <1>3 DEF FieldsOK, IsRecord, Fields, Entry
  <1>6. a.L4HOLD_Q = e.L4HOLD_Q /\ a.CIRCUITINDEX = e.CIRCUITINDEX
    BY <1>2 DEF Entry
  <1> HIDE DEF a
  <1>7. Len(e.L4HOLD_Q) \in Nat /\ Outstanding(e) \in Int
    BY <1>2, LenProperties, ModulusAssumption DEF Outstanding, Distance, SeqNo
  <1>8. Good(a)
    BY <1>2, <1>4, <1>5, <1>6, <1>7, GoodIntro DEF Held
  <1>9. Good(b) /\ b.CIRCUITINDEX = e.CIRCUITINDEX
    BY <1>6, <1>8, BusyBitGood DEF Keeps
  <1>10. b.L4HOLD_Q = e.L4HOLD_Q /\ Outstanding(b) = Outstanding(e) + 1
    BY <1>4, <1>6, <1>8 DEF GETBUSYBIT, Good, Entry, Outstanding
  <1> HIDE DEF b
  <1>11. b.BUSY \in BOOLEAN /\ b.NAK \in BOOLEAN
    BY <1>9 DEF Good, Entry
  <1>12. m \in Message
    BY <1>2, <1>11 DEF Msg, Nobody, Message
  <1> HIDE DEF m
  <1>13. Append(e.L4HOLD_Q, m) \in Seq(Message) /\ Len(Append(e.L4HOLD_Q, m)) = Len(e.L4HOLD_Q) + 1
    BY <1>2, <1>12, AppendProperties
  <1>14. FieldsOK(s) /\ IsRecord(s)
    BY <1>2, <1>9, <1>10, <1>13 DEF FieldsOK, IsRecord, Fields, Good, Entry
  <1>15. s.L4HOLD_Q = Append(e.L4HOLD_Q, m) /\ Outstanding(s) = Outstanding(b)
         /\ s.CIRCUITINDEX = b.CIRCUITINDEX
    BY <1>9, <1>10 DEF Good, Entry, Outstanding
  <1> HIDE DEF s
  <1>16. Held(s)
    BY <1>2, <1>7, <1>10, <1>13, <1>15, WindowAssumption DEF Held, Half
  <1> QED
    BY <1>1, <1>9, <1>12, <1>14, <1>15, <1>16, GoodIntro, PostGood DEF Keeps

\* A connect request.
LEMMA ConnectGood ==
  ASSUME NEW e, Good(e), NEW buffer
  PROVE  Keeps(e, SENDL4CONNECT(e, buffer))
  <1> DEFINE t == [e EXCEPT !.L4TIMER = TRUE]
             m == Msg("CREQ", e.CIRCUITINDEX, e.CIRCUITID)
  <1>1. FieldsOK(t) /\ IsRecord(t)
    BY DEF FieldsOK, IsRecord, Fields, Good, Entry
  <1>2. Held(t)
    BY SameHeld DEF Good, Entry
  <1>3. t.CIRCUITINDEX = e.CIRCUITINDEX
    BY DEF Good, Entry
  <1>4. m \in Message
    BY SeqNoFacts DEF Msg, Nobody, Message, Good, Entry
  <1>5. SENDL4CONNECT(e, buffer) = IF buffer THEN Post(t, m) ELSE e
    BY DEF SENDL4CONNECT
  <1> HIDE DEF t, m
  <1>6. Good(t)
    BY <1>1, <1>2, GoodIntro
  <1> QED
    BY <1>3, <1>4, <1>5, <1>6, PostGood DEF Keeps

\* A disconnect request.
LEMMA DiscGood ==
  ASSUME NEW e, Good(e)
  PROVE  Keeps(e, SENDL4DISC(e))
  <1> DEFINE t == [e EXCEPT !.L4STATE = 4, !.L4TIMER = TRUE, !.L4ACKREQ = FALSE]
             m == Msg("DREQ", e.FARINDEX, e.FARID)
  <1>1. FieldsOK(t) /\ IsRecord(t)
    BY DEF FieldsOK, IsRecord, Fields, Good, Entry
  <1>2. Held(t)
    BY SameHeld DEF Good, Entry
  <1>3. t.CIRCUITINDEX = e.CIRCUITINDEX
    BY DEF Good, Entry
  <1>4. m \in Message
    BY SeqNoFacts DEF Msg, Nobody, Message, Good, Entry
  <1>5. SENDL4DISC(e) = IF e.L4STATE < 4 THEN CLEARSESSIONENTRY(e) ELSE Post(t, m)
    BY DEF SENDL4DISC
  <1> HIDE DEF t, m
  <1>6. Keeps(e, CLEARSESSIONENTRY(e))
    BY ClearGood DEF Good
  <1>7. Good(t)
    BY <1>1, <1>2, GoodIntro
  <1> QED
    BY <1>3, <1>4, <1>5, <1>6, <1>7, PostGood DEF Keeps

\* The end of a session.
LEMMA CloseGood ==
  ASSUME NEW e, Good(e)
  PROVE  Keeps(e, CLOSECURRENTSESSION(e))
  <1> DEFINE r == [e EXCEPT !.USER = "none"]
             d == [r EXCEPT !.DISCPENDING = TRUE]
  <1>1. FieldsOK(r) /\ IsRecord(r) /\ FieldsOK(d) /\ IsRecord(d)
    BY DEF FieldsOK, IsRecord, Fields, Good, Entry
  <1>2. Held(r) /\ Held(d)
    BY SameHeld DEF Good, Entry
  <1>3. r.CIRCUITINDEX = e.CIRCUITINDEX /\ d.CIRCUITINDEX = e.CIRCUITINDEX
    BY DEF Good, Entry
  <1>4. \/ CLOSECURRENTSESSION(e) = d
        \/ CLOSECURRENTSESSION(e) = SENDL4DISC(r)
    BY DEF CLOSECURRENTSESSION
  <1> HIDE DEF r, d
  <1>5. Good(r) /\ Good(d)
    BY <1>1, <1>2, GoodIntro
  <1> QED
    BY <1>3, <1>4, <1>5, DiscGood DEF Keeps

\* Going k on brings the end of a window at least the shorter of k and 0 nearer.
LEMMA DistanceShorter ==
  ASSUME NEW i \in SeqNo, NEW j \in SeqNo, NEW k \in 0 .. Modulus - 1,
         NEW n \in Nat, n <= Distance(i, j)
  PROVE  (IF k <= n THEN n - k ELSE 0) <= Distance(Add(i, k), j)
  <1> DEFINE w == Add(i, k)
  <1>1. w \in SeqNo
    BY AddType DEF SeqNo
  <1>2. w = IF i + k < Modulus THEN i + k ELSE i + k - Modulus
    BY AddOf, ModulusAssumption
  <1> HIDE DEF w
  <1>3. Distance(w, j) = IF j >= w THEN j - w ELSE j - w + Modulus
    BY <1>1, DistanceOf
  <1>4. Distance(i, j) = IF j >= i THEN j - i ELSE j - i + Modulus
    BY DistanceOf
  <1>5. (IF k <= n THEN n - k ELSE 0) <= (IF j >= w THEN j - w ELSE j - w + Modulus)
    <2>1. n <= IF j >= i THEN j - i ELSE j - i + Modulus
      BY <1>4
    <2> QED
      BY <1>1, <1>2, <2>1, ModulusAssumption DEF SeqNo
  <1> QED
    BY <1>3, <1>5 DEF w

\* count frames leave the head of the queue of held frames and L4WS goes on by as
\* many.  When count is more than is outstanding, nothing is held afterwards.
LEMMA ReleaseGood ==
  ASSUME NEW e, Good(e), NEW count \in 0 .. Modulus - 1
  PROVE  Keeps(e, Release(e, count)) /\ Release(e, count).TXSEQNO = e.TXSEQNO
  <1> DEFINE t == Release(e, count)
             q == SubSeq(e.L4HOLD_Q, count + 1, Len(e.L4HOLD_Q))
  <1>1. /\ e \in Entry /\ Held(e) /\ e.L4HOLD_Q \in Seq(Message) /\ e.L4WS \in SeqNo
        /\ e.TXSEQNO \in SeqNo /\ Len(e.L4HOLD_Q) \in Nat /\ count \in Nat
    BY LenProperties, ModulusAssumption DEF Good, Entry
  <1>2. /\ q \in Seq(Message)
        /\ Len(q) = IF count <= Len(e.L4HOLD_Q) THEN Len(e.L4HOLD_Q) - count ELSE 0
    BY <1>1, DropType
  <1>3. t = [e EXCEPT !.L4HOLD_Q = q, !.L4WS = Add(e.L4WS, count),
                      !.L4TIMER = FALSE, !.L4RETRIES = 0]
    BY <1>1 DEF Release, Entry
  <1> HIDE DEF q, t
  <1>4. Add(e.L4WS, count) \in SeqNo
    BY <1>1, AddType
  <1>5. FieldsOK(t) /\ IsRecord(t)
    <2>1. e \in Entry /\ q \in Seq(Message) /\ Add(e.L4WS, count) \in SeqNo
      BY <1>1, <1>2, <1>4
    <2>2. FieldsOK(t)
      BY <1>3, <2>1 DEF FieldsOK, Entry
    <2>3. IsRecord(t)
      BY <1>3, <2>1 DEF IsRecord, Fields, Entry
    <2> QED
      BY <2>2, <2>3
  <1>6. t.L4HOLD_Q = q /\ t.L4WS = Add(e.L4WS, count) /\ t.TXSEQNO = e.TXSEQNO
        /\ t.CIRCUITINDEX = e.CIRCUITINDEX
    BY <1>1, <1>3 DEF Entry
  <1>7. Len(q) <= Distance(Add(e.L4WS, count), e.TXSEQNO)
    BY <1>1, <1>2, DistanceShorter DEF Held, Outstanding
  <1>8. Held(t)
    BY <1>1, <1>2, <1>6, <1>7, HalfFacts DEF Held, Outstanding
  <1> QED
    BY <1>5, <1>6, <1>8, GoodIntro DEF Keeps, t

\* The choke flag and the resend that a message may ask for.
LEMMA ChokeGood ==
  ASSUME NEW e, Good(e), NEW m \in Message
  PROVE  Keeps(e, ChokeAndResend(e, m))
  <1> DEFINE r == [e EXCEPT !.CHOKED = m.busy]
  <1>1. m.busy \in BOOLEAN
    BY DEF Message
  <1>2. FieldsOK(r) /\ IsRecord(r)
    BY <1>1 DEF FieldsOK, IsRecord, Fields, Good, Entry
  <1>3. Held(r)
    BY SameHeld DEF Good, Entry
  <1>4. r.CIRCUITINDEX = e.CIRCUITINDEX /\ r.L4HOLD_Q \in Seq(Message)
    BY DEF Good, Entry
  <1>5. ChokeAndResend(e, m) = IF m.nak /\ r.L4HOLD_Q # << >>
                               THEN Post(r, Head(r.L4HOLD_Q)) ELSE r
    BY DEF ChokeAndResend
  <1> HIDE DEF r
  <1>6. Good(r)
    BY <1>2, <1>3, GoodIntro
  <1>7. r.L4HOLD_Q # << >> => Head(r.L4HOLD_Q) \in Message
    BY <1>4, HeadTailProperties
  <1> QED
    BY <1>4, <1>5, <1>6, <1>7, PostGood DEF Keeps

\* An acknowledgement that is not below zero is below the modulus.
LEMMA AckCountType ==
  ASSUME NEW e, e.L4WS \in SeqNo, NEW nr \in SeqNo, ~(AckCount(e, nr) < 0)
  PROVE  AckCount(e, nr) \in 0 .. Modulus - 1
  BY HalfFacts, ModulusAssumption DEF AckCount, SeqNo

\* The acknowledgement in a message.
LEMMA AckFramesGood ==
  ASSUME NEW e, Good(e), NEW m \in Message
  PROVE  Keeps(e, ACKFRAMES(e, m))
  <1> DEFINE count == AckCount(e, m.rxno)
             r == Release(e, count)
             t == [r EXCEPT !.L4TIMER = TRUE]
  <1>1. m.rxno \in SeqNo /\ e.L4WS \in SeqNo
    BY DEF Message, Good, Entry
  <1>2. \/ count < 0 /\ ACKFRAMES(e, m) = e
        \/ ~(count < 0) /\ ACKFRAMES(e, m) = ChokeAndResend(t, m)
        \/ ~(count < 0) /\ ACKFRAMES(e, m) = SENDL4DISC(r)
        \/ ~(count < 0) /\ ACKFRAMES(e, m) = ChokeAndResend(r, m)
    BY DEF ACKFRAMES
  <1>3. ~(count < 0) => count \in 0 .. Modulus - 1
    BY <1>1, AckCountType
  <1> HIDE DEF count
  <1>4. ~(count < 0) => Good(r) /\ r.CIRCUITINDEX = e.CIRCUITINDEX
    BY <1>3, ReleaseGood DEF Keeps
  <1> HIDE DEF r
  <1>5. ASSUME Good(r) PROVE Keeps(r, t)
    <2>1. FieldsOK(t) /\ IsRecord(t)
      BY <1>5 DEF FieldsOK, IsRecord, Fields, Good, Entry
    <2>2. Held(t)
      BY <1>5, SameHeld DEF Good, Entry
    <2>3. t.CIRCUITINDEX = r.CIRCUITINDEX
      BY <1>5 DEF Good, Entry
    <2> HIDE DEF t
    <2> QED
      BY <2>1, <2>2, <2>3, GoodIntro DEF Keeps
  <1> HIDE DEF t
  <1>6. CASE count < 0
    BY <1>2, <1>6 DEF Keeps
  <1>7. CASE ~(count < 0)
    <2>1. Good(r) /\ Good(t) /\ r.CIRCUITINDEX = e.CIRCUITINDEX
          /\ t.CIRCUITINDEX = e.CIRCUITINDEX
      BY <1>4, <1>5, <1>7 DEF Keeps
    <2> QED
      BY <1>2, <1>7, <2>1, ChokeGood, DiscGood DEF Keeps
  <1> QED
    BY <1>6, <1>7

\* The frame that is due is passed on.
LEMMA DeliverGood ==
  ASSUME NEW e, Good(e), NEW m \in Message
  PROVE  Keeps(e, Deliver(e, m))
  <1> DEFINE t == Deliver(e, m)
  <1>1. m.info \in Nat /\ Add(e.RXSEQNO, 1) \in SeqNo
    BY AddType DEF Message, Good, Entry
  <1>2. FieldsOK(t)
    BY <1>1, AppendProperties DEF FieldsOK, Deliver, Good, Entry
  <1>3. IsRecord(t)
    BY DEF IsRecord, Fields, Deliver, Good, Entry
  <1>4. Held(t)
    BY SameHeld DEF Deliver, Good, Entry
  <1>5. t.CIRCUITINDEX = e.CIRCUITINDEX
    BY DEF Deliver, Good, Entry
  <1> QED
    BY <1>2, <1>3, <1>4, <1>5, GoodIntro DEF Keeps

\* The run at the head of a queue is no longer than the queue.
LEMMA RunAtHeadType ==
  ASSUME NEW e, e.L4RESEQ_Q \in Seq(Message)
  PROVE  RunAtHead(e) \in 0 .. Len(e.L4RESEQ_Q)
  <1> DEFINE n == Len(e.L4RESEQ_Q)
             S == {k \in 1 .. n : \A j \in 1 .. k : e.L4RESEQ_Q[j].txno = Add(e.RXSEQNO, j - 1)}
  <1>1. n \in Nat
    BY LenProperties
  <1>2. IsFiniteSet(1 .. n) /\ Cardinality(1 .. n) = n
    BY <1>1, FS_Interval
  <1>3. S \subseteq 1 .. n
    OBVIOUS
  <1>4. RunAtHead(e) = Cardinality(S)
    BY DEF RunAtHead
  <1> HIDE DEF S
  <1>5. IsFiniteSet(S) /\ Cardinality(S) <= n
    BY <1>2, <1>3, FS_Subset
  <1>6. Cardinality(S) \in Nat
    BY <1>5, FS_CardinalityType
  <1> QED
    BY <1>1, <1>4, <1>5, <1>6

\* The frames saved that come next are passed on.
LEMMA DeliverRunGood ==
  ASSUME NEW e, Good(e)
  PROVE  Keeps(e, DeliverRun(e))
  <1> DEFINE k == RunAtHead(e)
             run == [j \in 1 .. k |-> e.L4RESEQ_Q[j].info]
             q == SubSeq(e.L4RESEQ_Q, k + 1, Len(e.L4RESEQ_Q))
             t == [e EXCEPT !.RXSEQNO = Add(e.RXSEQNO, k), !.TAKEN = e.TAKEN \o run,
                            !.L4RESEQ_Q = q]
  <1>1. /\ e.L4RESEQ_Q \in Seq(Message) /\ e.TAKEN \in Seq(Nat) /\ e.RXSEQNO \in SeqNo
    BY DEF Good, Entry
  <1>2. k \in 0 .. Len(e.L4RESEQ_Q) /\ k \in Nat
    <2>1. Len(e.L4RESEQ_Q) \in Nat
      BY <1>1, LenProperties
    <2> QED
      BY <1>1, <2>1, RunAtHeadType
  <1>3. DeliverRun(e) = IF k = 0 THEN e ELSE t
    BY DEF DeliverRun, Good, Entry
  <1> HIDE DEF k
  <1>4. q \in Seq(Message)
    BY <1>1, <1>2, DropType
  <1>5. run \in Seq(Nat)
    <2>1. \A j \in 1 .. k : e.L4RESEQ_Q[j] \in Message
      BY <1>1, <1>2, ElementOfSeq, LenProperties
    <2>2. \A j \in 1 .. k : e.L4RESEQ_Q[j].info \in Nat
      BY <2>1 DEF Message
    <2> QED
      BY <1>2, <2>2, IsASeq
  <1>6. e.TAKEN \o run \in Seq(Nat)
    BY <1>1, <1>5, ConcatProperties
  <1>7. Add(e.RXSEQNO, k) \in SeqNo
    BY <1>1, <1>2, AddType
  <1> HIDE DEF q, run
  <1>8. FieldsOK(t) /\ IsRecord(t)
    <2>1. FieldsOK(t)
      BY <1>4, <1>6, <1>7 DEF FieldsOK, Good, Entry
    <2>2. IsRecord(t)
      BY DEF IsRecord, Fields, Good, Entry
    <2> QED
      BY <2>1, <2>2
  <1>9. Held(t)
    BY SameHeld DEF Good, Entry
  <1>10. t.CIRCUITINDEX = e.CIRCUITINDEX
    BY DEF Good, Entry
  <1> HIDE DEF t
  <1> QED
    BY <1>3, <1>8, <1>9, <1>10, GoodIntro DEF Keeps

\* A new queue of saved frames.
LEMMA SavedGood ==
  ASSUME NEW e, Good(e), NEW q \in Seq(Message)
  PROVE  Keeps(e, [e EXCEPT !.L4RESEQ_Q = q])
  <1> DEFINE t == [e EXCEPT !.L4RESEQ_Q = q]
  <1>1. FieldsOK(t) /\ IsRecord(t)
    BY DEF FieldsOK, IsRecord, Fields, Good, Entry
  <1>2. Held(t)
    BY SameHeld DEF Good, Entry
  <1>3. t.CIRCUITINDEX = e.CIRCUITINDEX
    BY DEF Good, Entry
  <1> QED
    BY <1>1, <1>2, <1>3, GoodIntro DEF Keeps

\* A set of numbers that is not empty has a least one.
LEMMA NatLeast ==
  ASSUME NEW S \in SUBSET Nat, S # {}
  PROVE  \E i \in S : \A r \in S : i <= r
  <1>1. PICK i \in S : \A r \in S : <<r, i>> \notin OpToRel(<, Nat)
    BY NatLessThanWellFounded, WFMin
  <1>2. \A r \in S : ~ (r < i)
    BY <1>1, Zenon DEF OpToRel
  <1> QED
    BY <1>2

\* The frame after the one that is due is passed on.
LEMMA MisplacedGood ==
  ASSUME NEW e, Good(e)
  PROVE  Keeps(e, DeliverMisplaced(e))
  <1> DEFINE n == Len(e.L4RESEQ_Q)
             at == {p \in 2 .. n : e.L4RESEQ_Q[p].txno = e.RXSEQNO}
             p == CHOOSE q \in at : \A r \in at : q <= r
             d == Deliver(e, e.L4RESEQ_Q[p + 1])
             q == SubSeq(d.L4RESEQ_Q, 1, p + 1)
  <1>1. e.L4RESEQ_Q \in Seq(Message) /\ n \in Nat
    BY LenProperties DEF Good, Entry
  <1>2. (at = {} \/ p = n) \/ (at # {} /\ p # n)
    OBVIOUS
  <1>3. CASE at = {} \/ p = n
    <2>1. DeliverMisplaced(e) = e
      BY <1>3 DEF DeliverMisplaced
    <2> QED
      BY <2>1 DEF Keeps
  <1>4. CASE at # {} /\ p # n
    <2>1. \A i \in at : i \in 2 .. n
      OBVIOUS
    <2>2. at \subseteq Nat /\ at # {}
      BY <1>1, <1>4
    <2>3. \E i \in at : \A r \in at : i <= r
      <3> HIDE DEF at
      <3> QED
        BY <2>2, NatLeast
    <2>4. p \in at
      BY <2>3
    <2> HIDE DEF p
    <2>5. p \in 2 .. n /\ p + 1 \in 1 .. n
      BY <1>1, <1>4, <2>1, <2>4
    <2>6. e.L4RESEQ_Q[p + 1] \in Message
      BY <1>1, <2>5, ElementOfSeq
    <2>7. Good(d) /\ d.CIRCUITINDEX = e.CIRCUITINDEX
      BY <2>6, DeliverGood DEF Keeps
    <2>8. d.L4RESEQ_Q = e.L4RESEQ_Q
      BY DEF Deliver, Good, Entry
    <2>9. q \in Seq(Message)
      <3>1. \A i \in 1 .. p + 1 : e.L4RESEQ_Q[i] \in Message
        BY <1>1, <2>5, ElementOfSeq
      <3> QED
        BY <1>1, <2>5, <2>8, <3>1, SubSeqProperties
    <2>10. DeliverMisplaced(e) = [d EXCEPT !.L4RESEQ_Q = q]
      BY <1>4 DEF DeliverMisplaced, p
    <2> HIDE DEF d, q
    <2> QED
      BY <2>7, <2>9, <2>10, SavedGood DEF Keeps
  <1> QED
    BY <1>2, <1>3, <1>4

\* What the saved frames allow after a frame has been passed on.
LEMMA ResequenceGood ==
  ASSUME NEW e, Good(e)
  PROVE  Keeps(e, Resequence(e))
  BY DeliverRunGood, MisplacedGood DEF Keeps, Resequence

\* A frame that came early is saved.
LEMMA SaveGood ==
  ASSUME NEW e, Good(e), NEW m \in Message
  PROVE  Keeps(e, SaveFrame(e, m))
  <1>1. e.L4RESEQ_Q \in Seq(Message) /\ Append(e.L4RESEQ_Q, m) \in Seq(Message)
    BY AppendProperties DEF Good, Entry
  <1>2. \/ SaveFrame(e, m) = e
        \/ SaveFrame(e, m) = [e EXCEPT !.L4RESEQ_Q = Append(e.L4RESEQ_Q, m)]
    BY DEF SaveFrame, Good, Entry
  <1> QED
    BY <1>1, <1>2, SavedGood DEF Keeps

\* A flag of the receiver.
LEMMA FlagGood ==
  ASSUME NEW e, Good(e)
  PROVE  /\ Keeps(e, [e EXCEPT !.L4ACKREQ = TRUE])
         /\ Keeps(e, [e EXCEPT !.NAK = TRUE])
         /\ Keeps(e, [e EXCEPT !.L4ACKREQ = FALSE])
         /\ Keeps(e, [e EXCEPT !.L4TIMER = TRUE])
         /\ Keeps(e, [e EXCEPT !.BUSY = FALSE, !.L4ACKREQ = TRUE])
  <1> DEFINE A == [e EXCEPT !.L4ACKREQ = TRUE]
             B == [e EXCEPT !.NAK = TRUE]
             C == [e EXCEPT !.L4ACKREQ = FALSE]
             D == [e EXCEPT !.L4TIMER = TRUE]
             F == [e EXCEPT !.BUSY = FALSE, !.L4ACKREQ = TRUE]
  <1>1. FieldsOK(A) /\ FieldsOK(B) /\ FieldsOK(C) /\ FieldsOK(D) /\ FieldsOK(F)
    BY DEF FieldsOK, Good, Entry
  <1>2. IsRecord(A) /\ IsRecord(B) /\ IsRecord(C) /\ IsRecord(D) /\ IsRecord(F)
    BY DEF IsRecord, Fields, Good, Entry
  <1>3. Held(A) /\ Held(B) /\ Held(C) /\ Held(D) /\ Held(F)
    BY SameHeld DEF Good, Entry
  <1>4. /\ A.CIRCUITINDEX = e.CIRCUITINDEX /\ B.CIRCUITINDEX = e.CIRCUITINDEX
        /\ C.CIRCUITINDEX = e.CIRCUITINDEX /\ D.CIRCUITINDEX = e.CIRCUITINDEX
        /\ F.CIRCUITINDEX = e.CIRCUITINDEX
    BY DEF Good, Entry
  <1> HIDE DEF A, B, C, D, F
  <1>5. Good(A) /\ Good(B) /\ Good(C) /\ Good(D) /\ Good(F)
    BY <1>1, <1>2, <1>3, GoodIntro
  <1> QED
    BY <1>4, <1>5 DEF Keeps, A, B, C, D, F

\* A frame of data.
LEMMA InfoGood ==
  ASSUME NEW e, Good(e), NEW m \in Message
  PROVE  Keeps(e, InfoFrame(e, m))
  <1> DEFINE a == ACKFRAMES(e, m)
             n == [a EXCEPT !.NAK = TRUE]
  <1>1. \/ InfoFrame(e, m) = e
        \/ InfoFrame(e, m) = a
        \/ InfoFrame(e, m) = [a EXCEPT !.L4ACKREQ = TRUE]
        \/ InfoFrame(e, m) = SaveFrame(SENDL4IACK(n), m)
        \/ InfoFrame(e, m) = Resequence(Deliver(a, m))
    BY DEF InfoFrame
  <1>2. Good(a) /\ a.CIRCUITINDEX = e.CIRCUITINDEX
    BY AckFramesGood DEF Keeps
  <1> HIDE DEF a
  <1>3. Keeps(a, n) /\ Keeps(a, [a EXCEPT !.L4ACKREQ = TRUE])
    BY <1>2, FlagGood
  <1> HIDE DEF n
  <1>4. Keeps(n, SENDL4IACK(n)) /\ Keeps(a, Deliver(a, m))
    BY <1>2, <1>3, IAckGood, DeliverGood DEF Keeps
  <1>5. /\ Keeps(SENDL4IACK(n), SaveFrame(SENDL4IACK(n), m))
        /\ Keeps(Deliver(a, m), Resequence(Deliver(a, m)))
    BY <1>4, SaveGood, ResequenceGood DEF Keeps
  <1> QED
    BY <1>1, <1>2, <1>3, <1>4, <1>5 DEF Keeps

\* An answer to a connect request.
LEMMA ConnectAckGood ==
  ASSUME NEW e, Good(e), NEW m \in Message
  PROVE  Keeps(e, ConnectAck(e, m))
  <1> DEFINE t == [e EXCEPT !.FARINDEX = m.own.index, !.FARID = m.own.id,
                            !.L4STATE = 5, !.L4TIMER = FALSE, !.L4RETRIES = 0]
  <1>1. m.own.index \in Index \cup {0} /\ m.own.id \in Id \cup {0}
    BY DEF Message
  <1>2. FieldsOK(t)
    BY <1>1 DEF FieldsOK, Good, Entry
  <1>3. IsRecord(t)
    BY DEF IsRecord, Fields, Good, Entry
  <1>4. Held(t)
    BY SameHeld DEF Good, Entry
  <1>5. t.CIRCUITINDEX = e.CIRCUITINDEX
    BY DEF Good, Entry
  <1>6. Keeps(e, CLEARSESSIONENTRY(e))
    BY ClearGood DEF Good
  <1>7. \/ ConnectAck(e, m) = CLEARSESSIONENTRY(e)
        \/ ConnectAck(e, m) = e
        \/ ConnectAck(e, m) = t
    BY DEF ConnectAck
  <1> HIDE DEF t
  <1> QED
    BY <1>2, <1>3, <1>4, <1>5, <1>6, <1>7, GoodIntro DEF Keeps

\* A disconnect request from the other end.
LEMMA DisconnectGood ==
  ASSUME NEW e, Good(e)
  PROVE  Keeps(e, DisconnectRequest(e))
  <1> DEFINE m == Msg("DACK", e.FARINDEX, e.FARID)
             p == Post(e, m)
  <1>1. m \in Message
    BY SeqNoFacts DEF Msg, Nobody, Message, Good, Entry
  <1>2. DisconnectRequest(e) = CLEARSESSIONENTRY(p)
    BY DEF DisconnectRequest
  <1> HIDE DEF m
  <1>3. Good(p) /\ p.CIRCUITINDEX = e.CIRCUITINDEX
    BY <1>1, PostGood DEF Keeps
  <1> HIDE DEF p
  <1>4. Keeps(p, CLEARSESSIONENTRY(p))
    BY <1>3, ClearGood DEF Good
  <1> QED
    BY <1>2, <1>3, <1>4 DEF Keeps

\* Any message but a connect request.
LEMMA FrameForUsGood ==
  ASSUME NEW e, Good(e), NEW m \in Message
  PROVE  Keeps(e, FRAMEFORUS(e, m))
  <1>1. \/ FRAMEFORUS(e, m) = e
        \/ FRAMEFORUS(e, m) = ConnectAck(e, m)
        \/ FRAMEFORUS(e, m) = DisconnectRequest(e)
        \/ FRAMEFORUS(e, m) = CLEARSESSIONENTRY(e)
        \/ FRAMEFORUS(e, m) = InfoFrame(e, m)
        \/ FRAMEFORUS(e, m) = ACKFRAMES(e, m)
    BY DEF FRAMEFORUS
  <1>2. Keeps(e, e) /\ Keeps(e, CLEARSESSIONENTRY(e))
    BY ClearGood DEF Keeps, Good
  <1> QED
    BY <1>1, <1>2, ConnectAckGood, DisconnectGood, InfoGood, AckFramesGood

\* The answers to a connect request.
LEMMA ConAckGood ==
  ASSUME NEW e, Good(e), NEW m \in Message, NEW ctext \in Nat
  PROVE  Keeps(e, SendConACK(e, m, ctext))
  <1> DEFINE q == IF ctext = 0 THEN e.L4TX_Q ELSE Append(e.L4TX_Q, ctext)
             t == [e EXCEPT !.L4TX_Q = q]
             a == [Msg("CACK", m.index, m.id)
                     EXCEPT !.own = [index |-> e.CIRCUITINDEX, id |-> e.CIRCUITID]]
  <1>1. /\ e.L4TX_Q \in Seq(Nat) /\ e.CIRCUITINDEX \in Index \cup {0}
        /\ e.CIRCUITID \in Id \cup {0} /\ m.index \in Index \cup {0} /\ m.id \in Id \cup {0}
    BY DEF Good, Entry, Message
  <1>2. q \in Seq(Nat)
    BY <1>1, AppendProperties
  <1>3. a \in Message
    BY <1>1, SeqNoFacts DEF Msg, Nobody, Message
  <1>4. SendConACK(e, m, ctext) = Post(t, a)
    BY DEF SendConACK, Good, Entry
  <1> HIDE DEF q, a
  <1>5. FieldsOK(t) /\ IsRecord(t)
    BY <1>2 DEF FieldsOK, IsRecord, Fields, Good, Entry
  <1>6. Held(t)
    BY SameHeld DEF Good, Entry
  <1>7. t.CIRCUITINDEX = e.CIRCUITINDEX
    BY DEF Good, Entry
  <1> HIDE DEF t
  <1> QED
    BY <1>3, <1>4, <1>5, <1>6, <1>7, GoodIntro, PostGood DEF Keeps

\* A refusal of a request keeps the entry Good.
LEMMA ConNakGood ==
  ASSUME NEW e, Good(e), NEW m \in Message
  PROVE  Keeps(e, SendConNAK(e, m))
  <1> DEFINE a == [Msg("CACK", m.index, m.id) EXCEPT !.busy = TRUE]
  <1>1. a \in Message
    BY SeqNoFacts DEF Msg, Nobody, Message
  <1> HIDE DEF a
  <1> QED
    BY <1>1, PostGood DEF SendConNAK, a

\* A circuit that is set up for a caller.
LEMMA SetupGood ==
  ASSUME NEW e, Good(e), NEW m \in Message, NEW id \in Id, NEW circuit \in Nat,
         NEW kind
  PROVE  Keeps(e, SETUPNEWCIRCUIT(e, m, id, circuit, kind))
  <1> DEFINE t == SETUPNEWCIRCUIT(e, m, id, circuit, kind)
  <1>1. m.index \in Index \cup {0} /\ m.id \in Id \cup {0}
    BY DEF Message
  <1>2. FieldsOK(t)
    BY <1>1 DEF FieldsOK, SETUPNEWCIRCUIT, Good, Entry
  <1>3. IsRecord(t)
    BY DEF IsRecord, Fields, SETUPNEWCIRCUIT, Good, Entry
  <1>4. Held(t)
    BY SameHeld DEF SETUPNEWCIRCUIT, Good, Entry
  <1>5. t.CIRCUITINDEX = e.CIRCUITINDEX
    BY DEF SETUPNEWCIRCUIT, Good, Entry
  <1> HIDE DEF t
  <1> QED
    BY <1>2, <1>3, <1>4, <1>5, GoodIntro DEF Keeps, t

\* A user's connect: the entry it takes, before the request is sent.
LEMMA NewSessionGood ==
  ASSUME NEW e, Good(e), NEW id \in Id, NEW circuit \in Nat
  PROVE  Keeps(e, [e EXCEPT !.L4STATE = 2, !.USER = "partner", !.CIRCUITID = id,
                            !.CIRCUIT = circuit])
  <1> DEFINE t == [e EXCEPT !.L4STATE = 2, !.USER = "partner", !.CIRCUITID = id,
                            !.CIRCUIT = circuit]
  <1>1. FieldsOK(t)
    BY DEF FieldsOK, Good, Entry
  <1>2. IsRecord(t)
    BY DEF IsRecord, Fields, Good, Entry
  <1>3. Held(t)
    BY SameHeld DEF Good, Entry
  <1>4. t.CIRCUITINDEX = e.CIRCUITINDEX
    BY DEF Good, Entry
  <1> HIDE DEF t
  <1> QED
    BY <1>1, <1>2, <1>3, <1>4, GoodIntro DEF Keeps, t

\* Frames given, sent and passed on.
LEMMA QueuesGood ==
  ASSUME NEW e, Good(e), NEW q \in Seq(Nat), NEW out \in Seq(Message)
  PROVE  /\ Keeps(e, [e EXCEPT !.L4TX_Q = q])
         /\ Keeps(e, [e EXCEPT !.OUT = << >>, !.TAKEN = << >>])
         /\ Keeps(e, [e EXCEPT !.CHOKED = FALSE, !.OUT = out])
  <1> DEFINE A == [e EXCEPT !.L4TX_Q = q]
             B == [e EXCEPT !.OUT = << >>, !.TAKEN = << >>]
             C == [e EXCEPT !.CHOKED = FALSE, !.OUT = out]
  <1>1. FieldsOK(A) /\ FieldsOK(B) /\ FieldsOK(C)
    BY EmptySeq DEF FieldsOK, Good, Entry
  <1>2. IsRecord(A) /\ IsRecord(B) /\ IsRecord(C)
    BY DEF IsRecord, Fields, Good, Entry
  <1>3. Held(A) /\ Held(B) /\ Held(C)
    BY SameHeld DEF Good, Entry
  <1>4. /\ A.CIRCUITINDEX = e.CIRCUITINDEX /\ B.CIRCUITINDEX = e.CIRCUITINDEX
        /\ C.CIRCUITINDEX = e.CIRCUITINDEX
    BY DEF Good, Entry
  <1> HIDE DEF A, B, C
  <1>5. Good(A) /\ Good(B) /\ Good(C)
    BY <1>1, <1>2, <1>3, GoodIntro
  <1> QED
    BY <1>4, <1>5 DEF Keeps, A, B, C

\* One pass of L4BG sends no frame that the window does not allow.
LEMMA SendQueuedGood ==
  ASSUME NEW e, Good(e)
  PROVE  Keeps(e, SendQueued(e))
  <1> DEFINE h == [e EXCEPT !.L4TX_Q = Tail(e.L4TX_Q)]
             f == [e EXCEPT !.L4TIMER = TRUE]
             info == Head(e.L4TX_Q)
  <1>1. e.L4TX_Q \in Seq(Nat)
    BY DEF Good, Entry
  <1>2. \/ SendQueued(e) = e
        \/ SendQueued(e) = f
        \/ /\ e.L4TX_Q # << >> /\ ~(Outstanding(e) > L4WINDOW)
           /\ SendQueued(e) = SENDL4MESSAGE(h, info)
    BY DEF SendQueued, Good, Entry
  <1>3. Outstanding(h) = Outstanding(e)
    BY DEF Outstanding, Good, Entry
  <1>4. Outstanding(e) \in Int
    BY DistanceOf, ModulusAssumption DEF Outstanding, SeqNo, Good, Entry
  <1> HIDE DEF f
  <1>5. Keeps(e, f)
    BY FlagGood DEF f
  <1>6. ASSUME e.L4TX_Q # << >>, ~(Outstanding(e) > L4WINDOW)
        PROVE  Keeps(e, SENDL4MESSAGE(h, info))
    <2>1. info \in Nat /\ Tail(e.L4TX_Q) \in Seq(Nat)
      BY <1>1, <1>6, HeadTailProperties
    <2>2. Good(h) /\ h.CIRCUITINDEX = e.CIRCUITINDEX
      BY <2>1, QueuesGood, EmptySeq DEF Keeps
    <2>3. Outstanding(h) <= L4WINDOW
      BY <1>3, <1>4, <1>6, HalfFacts
    <2> HIDE DEF h, info
    <2> QED
      BY <2>1, <2>2, <2>3, MessageGood DEF Keeps
  <1> HIDE DEF h, info
  <1> QED
    BY <1>2, <1>5, <1>6 DEF Keeps

\* L4BG as a whole.
LEMMA BGGood ==
  ASSUME NEW e, Good(e)
  PROVE  Keeps(e, L4BG(e))
  <1> DEFINE s == SendQueued(e)
             f == [s EXCEPT !.L4TIMER = TRUE]
             t == IF s.L4HOLD_Q # << >> THEN f ELSE s
  <1>1. \/ L4BG(e) = e
        \/ L4BG(e) = t
        \/ L4BG(e) = SENDL4IACK(t)
    BY DEF L4BG
  <1>2. Good(s) /\ s.CIRCUITINDEX = e.CIRCUITINDEX
    BY SendQueuedGood DEF Keeps
  <1> HIDE DEF s
  <1>3. Keeps(s, f) /\ (t = f \/ t = s)
    BY <1>2, FlagGood
  <1> HIDE DEF f, t
  <1>4. Good(t) /\ t.CIRCUITINDEX = e.CIRCUITINDEX
    BY <1>2, <1>3 DEF Keeps
  <1>5. Keeps(t, SENDL4IACK(t))
    BY <1>4, IAckGood
  <1> QED
    BY <1>1, <1>4, <1>5 DEF Keeps

\* An expiry of L4TIMER: the count of retries stays in its byte, as the circuit is
\* given up before.
LEMMA TimeoutGood ==
  ASSUME NEW e, Good(e), NEW buffer
  PROVE  Keeps(e, L4TIMEOUT(e, buffer))
  <1> DEFINE r == [e EXCEPT !.L4TIMER = FALSE, !.L4RETRIES = @ + 1]
             o == [e EXCEPT !.L4TIMER = FALSE]
             c == [r EXCEPT !.CHOKED = FALSE, !.OUT = r.OUT \o r.L4HOLD_Q]
  <1>1. e \in Entry /\ e.L4STATE \in {0, 2, 4, 5} /\ e.L4RETRIES \in 0 .. 255
    BY DEF Good, Entry
  <1>2. /\ r.CIRCUITINDEX = e.CIRCUITINDEX /\ r.OUT = e.OUT /\ r.TAKEN = e.TAKEN
        /\ r.L4RETRIES = e.L4RETRIES + 1 /\ o.CIRCUITINDEX = e.CIRCUITINDEX
        /\ e.CIRCUITINDEX \in Index /\ e.OUT \in Seq(Message) /\ e.TAKEN \in Seq(Nat)
    BY <1>1 DEF Entry
  <1>3. Keeps(e, CLEARSESSIONENTRY(r))
    <2> HIDE DEF r
    <2>1. Keeps(r, CLEARSESSIONENTRY(r))
      BY <1>2, ClearAny
    <2> QED
      BY <1>2, <2>1 DEF Keeps
  <1>4. Good(o)
    <2>1. FieldsOK(o) /\ IsRecord(o)
      BY DEF FieldsOK, IsRecord, Fields, Good, Entry
    <2>2. Held(o)
      BY SameHeld DEF Good, Entry
    <2> QED
      BY <2>1, <2>2, GoodIntro
  <1>5. ASSUME ~(e.L4RETRIES + 1 > L4N2) PROVE Good(r)
    <2>1. e.L4RETRIES + 1 \in 0 .. 255
      BY <1>1, <1>5, RetryAssumption
    <2>2. FieldsOK(r)
      BY <2>1 DEF FieldsOK, Good, Entry
    <2>3. IsRecord(r)
      BY DEF IsRecord, Fields, Good, Entry
    <2>4. Held(r)
      BY SameHeld DEF Good, Entry
    <2> QED
      BY <2>2, <2>3, <2>4, GoodIntro
  <1>6. \/ L4TIMEOUT(e, buffer) = o
        \/ L4TIMEOUT(e, buffer) = CLEARSESSIONENTRY(r)
        \/ /\ ~(r.L4RETRIES > L4N2)
           /\ \/ L4TIMEOUT(e, buffer) = SENDL4CONNECT(r, buffer)
              \/ L4TIMEOUT(e, buffer) = SENDL4DISC(r)
              \/ L4TIMEOUT(e, buffer) = c
    <2> DEFINE out == r.L4RETRIES > L4N2
    <2>1. L4TIMEOUT(e, buffer) =
            CASE e.L4STATE = 0 -> o
              [] e.L4STATE # 0 /\ out -> CLEARSESSIONENTRY(r)
              [] ~out /\ e.L4STATE = 2 -> SENDL4CONNECT(r, buffer)
              [] ~out /\ e.L4STATE = 4 -> SENDL4DISC(r)
              [] ~out /\ e.L4STATE = 5 -> [r EXCEPT !.CHOKED = FALSE, !.OUT = @ \o r.L4HOLD_Q]
      BY DEF L4TIMEOUT
    <2>2. c = [r EXCEPT !.CHOKED = FALSE, !.OUT = @ \o r.L4HOLD_Q]
      BY <1>1 DEF Entry
    <2> HIDE DEF r, o, c
    <2>3. CASE e.L4STATE = 0
      BY <2>1, <2>3
    <2>4. CASE e.L4STATE # 0 /\ out
      BY <2>1, <2>4
    <2>5. CASE e.L4STATE = 2 /\ ~out
      BY <2>1, <2>5
    <2>6. CASE e.L4STATE = 4 /\ ~out
      BY <2>1, <2>6
    <2>7. CASE e.L4STATE = 5 /\ ~out
      BY <2>1, <2>2, <2>7
    <2> HIDE DEF out
    <2>8. e.L4STATE \in {0, 2, 4, 5} /\ (out \/ ~out)
      BY <1>1
    <2> QED
      BY <2>3, <2>4, <2>5, <2>6, <2>7, <2>8
  <1>7. r.OUT \in Seq(Message) /\ r.L4HOLD_Q \in Seq(Message)
    BY <1>1 DEF Entry
  <1> HIDE DEF r, o
  <1>8. r.OUT \o r.L4HOLD_Q \in Seq(Message)
    BY <1>7, ConcatProperties
  <1>9. ASSUME ~(r.L4RETRIES > L4N2) PROVE Keeps(r, c)
    BY <1>2, <1>5, <1>8, <1>9, QueuesGood, EmptySeq
  <1> HIDE DEF c
  <1> QED
    BY <1>2, <1>3, <1>4, <1>5, <1>6, <1>9, ConnectGood, DiscGood DEF Keeps

\* Whatever a pass of L4TimerProc finds.
LEMMA TimerEventGood ==
  ASSUME NEW e, Good(e), NEW ev, ev \in TimerEvents, NEW buffer
  PROVE  Keeps(e, TimerEvent(e, ev, buffer))
  <1> DEFINE f == [e EXCEPT !.L4ACKREQ = FALSE]
  <1>1. \/ TimerEvent(e, ev, buffer) = [e EXCEPT !.BUSY = FALSE, !.L4ACKREQ = TRUE]
        \/ TimerEvent(e, ev, buffer) = L4TIMEOUT(e, buffer)
        \/ TimerEvent(e, ev, buffer) = SENDL4IACK(f)
        \/ TimerEvent(e, ev, buffer) = CLOSECURRENTSESSION(e)
    BY DEF TimerEvent, TimerEvents
  <1>2. Keeps(e, f) /\ Keeps(e, [e EXCEPT !.BUSY = FALSE, !.L4ACKREQ = TRUE])
    BY FlagGood
  <1> HIDE DEF f
  <1>3. Keeps(f, SENDL4IACK(f))
    BY <1>2, IAckGood DEF Keeps
  <1> QED
    BY <1>1, <1>2, <1>3, TimeoutGood, CloseGood DEF Keeps
=============================================================================
