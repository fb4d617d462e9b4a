--------------------------- MODULE L4CircuitProofs ---------------------------
(***************************************************************************)
(* Type correctness of L4Circuit and the bound on what a circuit holds for *)
(* a retry, for any modulus, window, number of retries, size of the table, *)
(* largest id, and any number of lost, delayed and early messages and      *)
(* restarts.                                                               *)
(*                                                                         *)
(* The inductive invariant is the type invariant with Good of each entry   *)
(* (L4EntryProofs).  There is one lemma per action of Next.                *)
(***************************************************************************)
EXTENDS L4Circuit, L4EntryProofs

\* The inductive invariant.
IInv == TypeOK /\ \A n \in Node, i \in Index : Good(L4TABLE[n][i])

\* The part of IInv that is about the tables.
TablesOK(table) ==
    /\ table \in [Node -> [Index -> Entry]]
    /\ \A n \in Node, i \in Index : Good(table[n][i]) /\ table[n][i].CIRCUITINDEX = i

\* The type of the counters of the bounds, as TypeOK has it.
Used == [connect : [Node -> Nat], opened : [Node -> Nat], trouble : Nat]

\* The invariant in the parts that an action may change.
LEMMA InvParts ==
  IInv <=> /\ TablesOK(L4TABLE) /\ NEXTID \in [Node -> Id]
           /\ net \in [Node -> Seq(Message)] /\ given \in [Node -> Seq(Nat)]
           /\ taken \in [Node -> Seq(TakenFrame)] /\ used \in Used
  BY DEF IInv, TypeOK, TablesOK, Used, Good

\* The same of the next state.
LEMMA InvPartsNext ==
  ASSUME TablesOK(L4TABLE'), NEXTID' \in [Node -> Id],
         net' \in [Node -> Seq(Message)], given' \in [Node -> Seq(Nat)],
         taken' \in [Node -> Seq(TakenFrame)], used' \in Used
  PROVE  IInv'
  BY DEF IInv, TypeOK, TablesOK, Used, Good

\* What counts as how much trouble is a number.
LEMMA AfterType ==
  ASSUME used \in Used, NEW kind
  PROVE  After(kind) \in Nat
  BY TroubleAssumption DEF After, Used

\* Counting up the bounds keeps the type of the counters.
LEMMA UsedGrows ==
  ASSUME NEW u \in Used, NEW n \in Node
  PROVE  /\ \A k \in Nat : [u EXCEPT !.trouble = k] \in Used
         /\ [u EXCEPT !.opened[n] = u.opened[n] + 1] \in Used
         /\ [u EXCEPT !.connect[n] = u.connect[n] + 1] \in Used
         /\ u.opened[n] \in Nat
  BY DEF Used

\* The other node.
LEMMA PeerFacts ==
  ASSUME NEW n \in Node
  PROVE  Peer(n) \in Node /\ Peer(n) # n
  BY NodeAssumption DEF Node, Peer

\* 255 is followed by 1.
LEMMA IdAfterType ==
  ASSUME NEW id \in Id
  PROVE  IdAfter(id) \in Id
  BY CircuitAssumption DEF IdAfter, Id

\* An entry of a Good table.
LEMMA EntryFacts ==
  ASSUME IInv, NEW n \in Node, NEW i \in Index
  PROVE  /\ Good(L4TABLE[n][i]) /\ L4TABLE[n][i].CIRCUITINDEX = i
         /\ L4TABLE[n][i] \in Entry
  BY DEF IInv, TypeOK, Good

\* A handler that keeps an entry Good keeps the tables.
LEMMA EnterKeepsTables ==
  ASSUME IInv, NEW n \in Node, NEW i \in Index, NEW e,
         Keeps(L4TABLE[n][i], e), Enter(n, i, e)
  PROVE  TablesOK(L4TABLE')
  <1> DEFINE t == [e EXCEPT !.OUT = << >>, !.TAKEN = << >>]
  <1>1. Good(t) /\ t.CIRCUITINDEX = i
    <2>1. Good(e) /\ e.CIRCUITINDEX = i
      BY EntryFacts DEF Keeps
    <2> QED
      BY <2>1, QueuesGood, EmptySeq DEF Keeps
  <1>2. L4TABLE' = [L4TABLE EXCEPT ![n][i] = t]
    BY DEF Enter
  <1> HIDE DEF t
  <1>3. L4TABLE \in [Node -> [Index -> Entry]] /\ t \in Entry
    BY <1>1 DEF IInv, TypeOK, Good
  <1>4. L4TABLE' \in [Node -> [Index -> Entry]]
    BY <1>2, <1>3
  <1>5. ASSUME NEW m \in Node, NEW j \in Index
        PROVE  Good(L4TABLE'[m][j]) /\ L4TABLE'[m][j].CIRCUITINDEX = j
    <2>1. CASE m = n /\ j = i
      BY <1>1, <1>2, <1>3, <2>1
    <2>2. CASE ~(m = n /\ j = i)
      <3>1. L4TABLE'[m][j] = L4TABLE[m][j]
        BY <1>2, <1>3, <2>2
      <3> QED
        BY <3>1, EntryFacts
    <2> QED
      BY <2>1, <2>2
  <1> QED
    BY <1>4, <1>5 DEF TablesOK

\* What a Good entry has sent and passed on.
LEMMA OutType ==
  ASSUME NEW e, Good(e)
  PROVE  e.OUT \in Seq(Message) /\ e.TAKEN \in Seq(Nat)
  BY DEF Good, Entry

\* The queues when messages are sent to one end.
LEMMA SentType ==
  ASSUME net \in [Node -> Seq(Message)], NEW n \in Node, NEW out \in Seq(Message)
  PROVE  [net EXCEPT ![Peer(n)] = net[Peer(n)] \o out] \in [Node -> Seq(Message)]
  <1>1. net[Peer(n)] \o out \in Seq(Message)
    BY PeerFacts, ConcatProperties
  <1> QED
    BY <1>1

\* The queues when a message has been received and others sent in answer.
LEMMA AnsweredType ==
  ASSUME net \in [Node -> Seq(Message)], NEW n \in Node, net[n] # << >>,
         NEW out \in Seq(Message)
  PROVE  /\ [net EXCEPT ![n] = Tail(net[n])] \in [Node -> Seq(Message)]
         /\ [net EXCEPT ![n] = Tail(net[n]), ![Peer(n)] = net[Peer(n)] \o out]
              \in [Node -> Seq(Message)]
         /\ Head(net[n]) \in Message
  <1>1. net[Peer(n)] \o out \in Seq(Message)
    BY PeerFacts, ConcatProperties
  <1>2. Tail(net[n]) \in Seq(Message) /\ Head(net[n]) \in Message
    BY HeadTailProperties
  <1> QED
    BY <1>1, <1>2

\* The invariant holds when both nodes have started.
LEMMA InitGood == Init => IInv
  <1> SUFFICES ASSUME Init PROVE IInv
    OBVIOUS
  <1>1. \A i \in Index : Good(FreeEntry(i)) /\ FreeEntry(i).CIRCUITINDEX = i
                         /\ FreeEntry(i) \in Entry
    BY FreeEntryGood DEF Good
  <1>2. TablesOK(L4TABLE)
    BY <1>1 DEF Init, TablesOK
  <1>3. NEXTID \in [Node -> Id]
    BY FirstIdAssumption DEF Init
  <1>4. /\ net \in [Node -> Seq(Message)] /\ given \in [Node -> Seq(Nat)]
        /\ taken \in [Node -> Seq(TakenFrame)]
    BY EmptySeq DEF Init
  <1>5. used \in Used
    BY DEF Init, NothingUsed, Used
  <1> QED
    BY <1>2, <1>3, <1>4, <1>5, InvParts

\* The history of frames taken, with those of one more handler.
LEMMA PassedType ==
  ASSUME taken \in [Node -> Seq(TakenFrame)], NEW n \in Node, NEW e, Good(e),
         NEW circuit \in Nat, Passed(n, e, circuit)
  PROVE  taken' \in [Node -> Seq(TakenFrame)]
  <1> DEFINE new == [k \in 1 .. Len(e.TAKEN) |-> [info |-> e.TAKEN[k], on |-> circuit]]
  <1>1. e.TAKEN \in Seq(Nat) /\ Len(e.TAKEN) \in Nat
    BY OutType, LenProperties
  <1>2. \A k \in 1 .. Len(e.TAKEN) : [info |-> e.TAKEN[k], on |-> circuit] \in TakenFrame
    BY <1>1, ElementOfSeq DEF TakenFrame
  <1>3. new \in Seq(TakenFrame)
    BY <1>1, <1>2, IsASeq
  <1>4. taken' = [taken EXCEPT ![n] = taken[n] \o new]
    BY DEF Passed
  <1> HIDE DEF new
  <1>5. taken[n] \o new \in Seq(TakenFrame)
    BY <1>3, ConcatProperties
  <1> QED
    BY <1>4, <1>5

\* A message for a circuit keeps the invariant.
LEMMA ReceiveGood ==
  ASSUME IInv, NEW n \in Node, ReceiveForCircuit(n)
  PROVE  IInv'
  <1> DEFINE m == Head(net[n])
             i == m.index
  <1>1. /\ net \in [Node -> Seq(Message)] /\ net[n] # << >> /\ m \in Message
        /\ taken \in [Node -> Seq(TakenFrame)] /\ TablesOK(L4TABLE)
    BY AnsweredType, EmptySeq, InvParts DEF ReceiveForCircuit
  <1>2. NEXTID' = NEXTID /\ given' = given /\ used' = used
    BY DEF ReceiveForCircuit
  <1>3. CASE i \notin Index
    <2>1. /\ net' = [net EXCEPT ![n] = Tail(net[n])]
          /\ L4TABLE' = L4TABLE /\ taken' = taken
      BY <1>3 DEF ReceiveForCircuit
    <2>2. net' \in [Node -> Seq(Message)]
      BY <1>1, <2>1, AnsweredType, EmptySeq
    <2> QED
      BY <1>1, <1>2, <2>1, <2>2, InvParts, InvPartsNext
  <1>4. CASE i \in Index
    <2> DEFINE e == FRAMEFORUS(L4TABLE[n][i], m)
               out == e.OUT
               circuit == L4TABLE[n][i].CIRCUIT
    <2>1. /\ Enter(n, i, e) /\ Passed(n, e, circuit)
          /\ net' = [net EXCEPT ![n] = Tail(net[n]), ![Peer(n)] = net[Peer(n)] \o out]
      BY <1>1, <1>4, PeerFacts DEF ReceiveForCircuit
    <2>2. Keeps(L4TABLE[n][i], e) /\ circuit \in Nat
      BY <1>1, <1>4, EntryFacts, FrameForUsGood DEF Entry
    <2> HIDE DEF e, circuit
    <2>3. Good(e) /\ out \in Seq(Message)
      BY <2>2, OutType DEF Keeps
    <2> HIDE DEF out
    <2>4. TablesOK(L4TABLE')
      BY <1>4, <2>1, <2>2, EnterKeepsTables
    <2>5. net' \in [Node -> Seq(Message)]
      BY <1>1, <2>1, <2>3, AnsweredType
    <2>6. taken' \in [Node -> Seq(TakenFrame)]
      BY <1>1, <2>1, <2>2, <2>3, PassedType
    <2> QED
      BY <1>2, <2>4, <2>5, <2>6, InvParts, InvPartsNext
  <1> QED
    BY <1>3, <1>4

\* A choice of an entry is an entry.
LEMMA LowestType ==
  ASSUME NEW S \in SUBSET Index, S # {}
  PROVE  Lowest(S) \in S
  <1>1. S \in SUBSET Nat
    BY DEF Index
  <1>2. \E i \in S : \A j \in S : i <= j
    BY <1>1, NatLeast
  <1> QED
    BY <1>2 DEF Lowest

\* The history of frames given, with a sign-on.
LEMMA GiveType ==
  ASSUME given \in [Node -> Seq(Nat)], NEW n \in Node, NEW ctext,
         NEW circuit \in Nat, GiveCtext(n, ctext, circuit)
  PROVE  given' \in [Node -> Seq(Nat)]
  <1>1. Append(given[n], circuit) \in Seq(Nat)
    BY AppendProperties
  <1>2. given' = given \/ given' = [given EXCEPT ![n] = Append(given[n], circuit)]
    BY DEF GiveCtext
  <1> QED
    BY <1>1, <1>2

\* A sign-on is a frame.
LEMMA CtextType ==
  ASSUME given \in [Node -> Seq(Nat)], NEW n \in Node, NEW kind
  PROVE  Ctext(n, kind) \in Nat
  BY LenProperties DEF Ctext

\* A request for a circuit that is there keeps the invariant.
LEMMA RepeatedGood ==
  ASSUME IInv, NEW n \in Node, net[n] # << >>, NEW m \in Message,
         CircuitsOf(L4TABLE[n], m) # {}, RepeatedRequest(n, m), UNCHANGED taken
  PROVE  IInv'
  <1> DEFINE i == Lowest(CircuitsOf(L4TABLE[n], m))
             kind == IF L4TABLE[n][i].USER = "node" THEN "node" ELSE "appl"
             ctext == Ctext(n, kind)
             e == SendConACK(L4TABLE[n][i], m, ctext)
             circuit == e.CIRCUIT
             out == e.OUT
  <1>1. i \in Index
    <2>1. CircuitsOf(L4TABLE[n], m) \subseteq Index
      BY DEF CircuitsOf
    <2> QED
      BY <2>1, LowestType
  <1>2. /\ Enter(n, i, e) /\ GiveCtext(n, ctext, circuit)
        /\ net' = [net EXCEPT ![n] = Tail(net[n]), ![Peer(n)] = net[Peer(n)] \o out]
        /\ NEXTID' = NEXTID /\ used' = used /\ taken' = taken
    BY PeerFacts DEF RepeatedRequest, IInv, TypeOK
  <1> HIDE DEF i, kind
  <1>3. /\ net \in [Node -> Seq(Message)] /\ given \in [Node -> Seq(Nat)]
        /\ NEXTID \in [Node -> Id] /\ taken \in [Node -> Seq(TakenFrame)] /\ used \in Used
    BY InvParts
  <1>4. ctext \in Nat
    BY <1>3, CtextType
  <1> HIDE DEF ctext
  <1>5. Keeps(L4TABLE[n][i], e)
    BY <1>1, <1>4, EntryFacts, ConAckGood
  <1> HIDE DEF e
  <1>6. out \in Seq(Message) /\ circuit \in Nat
    BY <1>5 DEF Keeps, Good, Entry
  <1> HIDE DEF out, circuit
  <1>7. TablesOK(L4TABLE')
    BY <1>1, <1>2, <1>5, EnterKeepsTables
  <1>8. net' \in [Node -> Seq(Message)]
    BY <1>2, <1>3, <1>6, AnsweredType
  <1>9. given' \in [Node -> Seq(Nat)]
    BY <1>2, <1>3, <1>6, GiveType
  <1> QED
    BY <1>2, <1>3, <1>7, <1>8, <1>9, InvPartsNext

\* A request for a new circuit keeps the invariant.
LEMMA NewGood ==
  ASSUME IInv, NEW n \in Node, net[n] # << >>, NEW m \in Message, NEW kind,
         Spare(L4TABLE[n]) # {}, NewRequest(n, m, kind), UNCHANGED taken
  PROVE  IInv'
  <1> DEFINE i == Lowest(Spare(L4TABLE[n]))
             circuit == used.opened[n] + 1
             ctext == Ctext(n, kind)
             new == SETUPNEWCIRCUIT(L4TABLE[n][i], m, NEXTID[n], circuit, kind)
             clear == CLEARSESSIONENTRY(new)
             e == IF kind = "none" THEN SendConNAK(clear, m) ELSE SendConACK(new, m, ctext)
             out == e.OUT
  <1>1. i \in Index
    <2>1. Spare(L4TABLE[n]) \subseteq Index
      BY DEF Spare
    <2> QED
      BY <2>1, LowestType
  <1>2. /\ net \in [Node -> Seq(Message)] /\ given \in [Node -> Seq(Nat)]
        /\ NEXTID \in [Node -> Id] /\ taken \in [Node -> Seq(TakenFrame)] /\ used \in Used
    BY InvParts
  <1>3. circuit \in Nat /\ ctext \in Nat
    <2>1. used.opened[n] \in Nat
      BY <1>2, UsedGrows
    <2>2. ctext \in Nat
      BY <1>2, CtextType
    <2> QED
      BY <2>1, <2>2
  <1>4. /\ Enter(n, i, e) /\ GiveCtext(n, ctext, circuit)
        /\ net' = [net EXCEPT ![n] = Tail(net[n]), ![Peer(n)] = net[Peer(n)] \o out]
        /\ NEXTID' = [NEXTID EXCEPT ![n] = IdAfter(NEXTID[n])]
        /\ used' = [used EXCEPT !.opened[n] = used.opened[n] + 1] /\ taken' = taken
    BY <1>2, PeerFacts DEF NewRequest
  <1> HIDE DEF i, ctext
  <1>5. used' \in Used /\ NEXTID' \in [Node -> Id] /\ taken' \in [Node -> Seq(TakenFrame)]
    BY <1>2, <1>4, UsedGrows, IdAfterType
  <1> HIDE DEF circuit
  <1>6. Keeps(L4TABLE[n][i], new)
    BY <1>1, <1>2, <1>3, EntryFacts, SetupGood
  <1> HIDE DEF new
  <1>7. Keeps(new, clear)
    BY <1>6, ClearGood DEF Keeps, Good
  <1> HIDE DEF clear
  <1>8. Keeps(L4TABLE[n][i], e)
    BY <1>3, <1>6, <1>7, ConAckGood, ConNakGood DEF Keeps
  <1> HIDE DEF e
  <1>9. out \in Seq(Message)
    BY <1>8, OutType DEF Keeps
  <1> HIDE DEF out
  <1>10. TablesOK(L4TABLE')
    BY <1>1, <1>4, <1>8, EnterKeepsTables
  <1>11. net' \in [Node -> Seq(Message)]
    BY <1>2, <1>4, <1>9, AnsweredType
  <1>12. given' \in [Node -> Seq(Nat)]
    BY <1>2, <1>3, <1>4, GiveType
  <1> QED
    BY <1>5, <1>10, <1>11, <1>12, InvPartsNext

\* A connect request keeps the invariant.
LEMMA ConnectRequestGood ==
  ASSUME IInv, NEW n \in Node, NEW kind, CONNECTREQUEST(n, kind)
  PROVE  IInv'
  <1> DEFINE m == Head(net[n])
  <1>1. net \in [Node -> Seq(Message)] /\ net[n] # << >> /\ m \in Message
    BY InvParts, AnsweredType, EmptySeq DEF CONNECTREQUEST
  <1>2. UNCHANGED taken
    BY DEF CONNECTREQUEST
  <1>3. \/ CircuitsOf(L4TABLE[n], m) # {} /\ RepeatedRequest(n, m)
        \/ Spare(L4TABLE[n]) # {} /\ NewRequest(n, m, kind)
        \/ RefusedRequest(n, m)
    BY DEF CONNECTREQUEST
  <1>4. CASE RefusedRequest(n, m)
    <2> DEFINE e == SendConNAK(FreeEntry(1), m)
               out == e.OUT
    <2>1. Good(FreeEntry(1))
      BY FreeEntryGood, CircuitAssumption DEF Index
    <2>2. out \in Seq(Message)
      BY <1>1, <2>1, ConNakGood, OutType DEF Keeps
    <2>3. net' = [net EXCEPT ![n] = Tail(net[n]), ![Peer(n)] = net[Peer(n)] \o out]
          /\ UNCHANGED << L4TABLE, NEXTID, given, used >>
      BY <1>1, <1>4, PeerFacts DEF RefusedRequest
    <2> HIDE DEF out
    <2>4. net' \in [Node -> Seq(Message)]
      BY <1>1, <2>2, <2>3, AnsweredType
    <2> QED
      BY <1>2, <2>3, <2>4, InvParts, InvPartsNext
  <1> HIDE DEF m
  <1> QED
    BY <1>1, <1>2, <1>3, <1>4, RepeatedGood, NewGood

\* An action that hands entry i of n to a handler and sends what comes of it.
LEMMA HandlerGood ==
  ASSUME IInv, NEW n \in Node, NEW i \in Index, NEW e, Keeps(L4TABLE[n][i], e),
         Enter(n, i, e), net' = [net EXCEPT ![Peer(n)] = @ \o e.OUT]
  PROVE  TablesOK(L4TABLE') /\ net' \in [Node -> Seq(Message)]
  <1> DEFINE out == e.OUT
  <1>1. net \in [Node -> Seq(Message)]
    BY InvParts
  <1>2. out \in Seq(Message)
    BY OutType DEF Keeps
  <1>3. net' = [net EXCEPT ![Peer(n)] = net[Peer(n)] \o out]
    BY <1>1, PeerFacts
  <1> HIDE DEF out
  <1> QED
    BY <1>1, <1>2, <1>3, EnterKeepsTables, SentType

\* A pass of L4BG keeps the invariant.
LEMMA RunBGGood ==
  ASSUME IInv, NEW n \in Node, NEW i \in Index, RunL4BG(n, i)
  PROVE  IInv'
  <1> DEFINE e == L4BG(L4TABLE[n][i])
  <1>1. Keeps(L4TABLE[n][i], e)
    BY EntryFacts, BGGood
  <1>2. Enter(n, i, e) /\ net' = [net EXCEPT ![Peer(n)] = @ \o e.OUT]
        /\ UNCHANGED << NEXTID, given, taken, used >>
    BY DEF RunL4BG
  <1> HIDE DEF e
  <1> QED
    BY <1>1, <1>2, HandlerGood, InvParts, InvPartsNext

\* A timer event keeps the invariant.
LEMMA RunTimersGood ==
  ASSUME IInv, NEW n \in Node, NEW i \in Index, NEW ev \in TimerEvents,
         RunTimers(n, i, ev)
  PROVE  IInv'
  <1>1. PICK buffer \in Buffers :
           LET e == TimerEvent(L4TABLE[n][i], ev, buffer)
           IN  /\ Enter(n, i, e)
               /\ net' = [net EXCEPT ![Peer(n)] = @ \o e.OUT]
               /\ used' = IF buffer /\ (ev = "L4TIMER" => Quiet) THEN used
                          ELSE [used EXCEPT !.trouble = After(IF buffer THEN "early" ELSE "nobuffer")]
    BY DEF RunTimers
  <1> DEFINE e == TimerEvent(L4TABLE[n][i], ev, buffer)
  <1>2. UNCHANGED << NEXTID, given, taken >>
    BY DEF RunTimers
  <1>3. used' \in Used
    <2>1. used \in Used
      BY InvParts
    <2>2. used' = used \/ \E kind \in TroubleKind : used' = [used EXCEPT !.trouble = After(kind)]
      BY <1>1 DEF TroubleKind
    <2> QED
      BY <2>1, <2>2, UsedGrows, AfterType
  <1>4. Enter(n, i, e) /\ net' = [net EXCEPT ![Peer(n)] = @ \o e.OUT]
    BY <1>1
  <1>5. Keeps(L4TABLE[n][i], e)
    BY EntryFacts, TimerEventGood
  <1> HIDE DEF e
  <1>6. TablesOK(L4TABLE') /\ net' \in [Node -> Seq(Message)]
    BY <1>4, <1>5, HandlerGood
  <1> QED
    BY <1>2, <1>3, <1>6, InvParts, InvPartsNext

\* A user's connect keeps the invariant.
LEMMA ConnectStepGood ==
  ASSUME IInv, NEW n \in Node, Connect(n)
  PROVE  IInv'
  <1> DEFINE i == Lowest(Spare(L4TABLE[n]))
             s == [L4TABLE[n][i] EXCEPT !.L4STATE = 2, !.USER = "partner",
                                        !.CIRCUITID = NEXTID[n],
                                        !.CIRCUIT = used.opened[n] + 1]
  <1>1. i \in Index
    <2>1. Spare(L4TABLE[n]) \subseteq Index /\ Spare(L4TABLE[n]) # {}
      BY DEF Spare, Connect
    <2> QED
      BY <2>1, LowestType
  <1>2. NEXTID \in [Node -> Id] /\ used \in Used
    BY InvParts
  <1>3. PICK buffer \in Buffers :
           LET e == SENDL4CONNECT(s, buffer)
           IN  /\ Enter(n, i, e)
               /\ net' = [net EXCEPT ![Peer(n)] = @ \o e.OUT]
               /\ used' = [used EXCEPT !.connect[n] = @ + 1, !.opened[n] = @ + 1,
                                       !.trouble = IF buffer THEN @ ELSE After("nobuffer")]
    BY DEF Connect
  <1> DEFINE e == SENDL4CONNECT(s, buffer)
  <1>4. /\ NEXTID' = [NEXTID EXCEPT ![n] = IdAfter(NEXTID[n])]
        /\ given' = given /\ taken' = taken
    BY <1>2 DEF Connect
  <1>5. NEXTID' \in [Node -> Id]
    BY <1>2, <1>4, IdAfterType
  <1>6. used' \in Used
    <2>1. used' = [used EXCEPT !.connect[n] = @ + 1, !.opened[n] = @ + 1,
                               !.trouble = IF buffer THEN @ ELSE After("nobuffer")]
      BY <1>3
    <2> DEFINE c == [used.connect EXCEPT ![n] = used.connect[n] + 1]
               o == [used.opened EXCEPT ![n] = used.opened[n] + 1]
               t == IF buffer THEN used.trouble ELSE After("nobuffer")
    <2>2. used' = [connect |-> c, opened |-> o, trouble |-> t]
      BY <1>2, <2>1 DEF Used
    <2>3. c \in [Node -> Nat] /\ o \in [Node -> Nat] /\ t \in Nat
      BY <1>2, AfterType DEF Used
    <2> HIDE DEF c, o, t
    <2> QED
      BY <2>2, <2>3 DEF Used
  <1>7. Enter(n, i, e) /\ net' = [net EXCEPT ![Peer(n)] = @ \o e.OUT]
    BY <1>3
  <1> HIDE DEF i
  <1>8. Keeps(L4TABLE[n][i], s)
    <2>1. used.opened[n] \in Nat
      BY <1>2, UsedGrows
    <2>2. used.opened[n] + 1 \in Nat
      BY <2>1
    <2> QED
      BY <1>1, <1>2, <2>2, EntryFacts, NewSessionGood
  <1> HIDE DEF s
  <1>9. Keeps(s, e)
    BY <1>8, ConnectGood DEF Keeps
  <1>10. Keeps(L4TABLE[n][i], e)
    BY <1>8, <1>9 DEF Keeps
  <1> HIDE DEF e
  <1>11. TablesOK(L4TABLE') /\ net' \in [Node -> Seq(Message)]
    BY <1>1, <1>7, <1>10, HandlerGood
  <1> QED
    BY <1>4, <1>5, <1>6, <1>11, InvParts, InvPartsNext

\* A frame given keeps the invariant.
LEMMA SendGood ==
  ASSUME IInv, NEW n \in Node, NEW i \in Index, Send(n, i)
  PROVE  IInv'
  <1> DEFINE s == L4TABLE[n][i]
             q == Append(s.L4TX_Q, Len(given[n]) + 1)
             e == [s EXCEPT !.L4TX_Q = q]
  <1>1. Good(s) /\ s \in Entry /\ given \in [Node -> Seq(Nat)]
    BY EntryFacts, InvParts
  <1>2. s.L4TX_Q \in Seq(Nat) /\ s.CIRCUIT \in Nat /\ Len(given[n]) + 1 \in Nat
    BY <1>1, LenProperties DEF Entry
  <1>3. q \in Seq(Nat)
    BY <1>2, AppendProperties
  <1>4. Enter(n, i, e) /\ given' = [given EXCEPT ![n] = Append(given[n], s.CIRCUIT)]
        /\ UNCHANGED << NEXTID, net, taken, used >>
    BY <1>1 DEF Send
  <1>5. given' \in [Node -> Seq(Nat)]
    BY <1>1, <1>2, <1>4, AppendProperties
  <1> HIDE DEF q
  <1>6. Keeps(s, e)
    BY <1>1, <1>3, QueuesGood, EmptySeq
  <1> HIDE DEF e
  <1>7. TablesOK(L4TABLE')
    BY <1>4, <1>6, EnterKeepsTables
  <1> QED
    BY <1>4, <1>5, <1>7, InvParts, InvPartsNext

\* A connect that its user cancels keeps the invariant.
LEMMA CancelGood ==
  ASSUME IInv, NEW n \in Node, NEW i \in Index, CancelConnect(n, i)
  PROVE  IInv'
  <1>1. Keeps(L4TABLE[n][i], CLEARSESSIONENTRY(L4TABLE[n][i]))
    BY EntryFacts, ClearGood
  <1>2. Enter(n, i, CLEARSESSIONENTRY(L4TABLE[n][i]))
        /\ UNCHANGED << NEXTID, net, given, taken, used >>
    BY DEF CancelConnect
  <1> QED
    BY <1>1, <1>2, EnterKeepsTables, InvParts, InvPartsNext

\* A close keeps the invariant.
LEMMA CloseStepGood ==
  ASSUME IInv, NEW n \in Node, NEW i \in Index, Close(n, i)
  PROVE  IInv'
  <1> DEFINE e == CLOSECURRENTSESSION(L4TABLE[n][i])
  <1>1. Keeps(L4TABLE[n][i], e)
    BY EntryFacts, CloseGood
  <1>2. Enter(n, i, e) /\ net' = [net EXCEPT ![Peer(n)] = @ \o e.OUT]
        /\ UNCHANGED << NEXTID, given, taken, used >>
    BY DEF Close
  <1> HIDE DEF e
  <1> QED
    BY <1>1, <1>2, HandlerGood, InvParts, InvPartsNext

\* A queue with one element taken out, or moved to its end.
LEMMA RemoveAtType ==
  ASSUME NEW T, NEW q \in Seq(T), NEW k \in 1 .. Len(q)
  PROVE  RemoveAt(q, k) \in Seq(T) /\ Append(RemoveAt(q, k), q[k]) \in Seq(T)
  <1>1. SubSeq(q, 1, k - 1) \in Seq(T) /\ SubSeq(q, k + 1, Len(q)) \in Seq(T)
    <2>1. Len(q) \in Nat /\ \A i \in 1 .. Len(q) : q[i] \in T
      BY LenProperties, ElementOfSeq
    <2> QED
      BY <2>1, SubSeqProperties
  <1>2. RemoveAt(q, k) \in Seq(T)
    BY <1>1, ConcatProperties DEF RemoveAt
  <1>3. q[k] \in T
    BY ElementOfSeq
  <1> QED
    BY <1>2, <1>3, AppendProperties

\* The network keeps the invariant.
LEMMA NetworkGood ==
  ASSUME IInv, NEW n \in Node, LoseMessage(n) \/ DelayMessage(n)
  PROVE  IInv'
  <1>1. net \in [Node -> Seq(Message)] /\ net[n] \in Seq(Message) /\ used \in Used
    BY InvParts
  <1>2. \E kind \in TroubleKind : used' = [used EXCEPT !.trouble = After(kind)]
    BY DEF LoseMessage, DelayMessage, TroubleKind
  <1>5. used' \in Used
    BY <1>1, <1>2, UsedGrows, AfterType
  <1>6. UNCHANGED << L4TABLE, NEXTID, given, taken >>
    BY DEF LoseMessage, DelayMessage
  <1>3. PICK k \in 1 .. Len(net[n]) :
           \/ net' = [net EXCEPT ![n] = RemoveAt(net[n], k)]
           \/ net' = [net EXCEPT ![n] = Append(RemoveAt(net[n], k), net[n][k])]
    <2>1. CASE LoseMessage(n)
      <3>1. PICK k \in DOMAIN net[n] : net' = [net EXCEPT ![n] = RemoveAt(@, k)]
        BY <2>1 DEF LoseMessage
      <3>2. k \in 1 .. Len(net[n])
        BY <1>1, LenProperties
      <3> QED
        BY <1>1, <3>1, <3>2
    <2>2. CASE DelayMessage(n)
      <3>1. PICK k \in 1 .. Len(net[n]) - 1 :
               net' = [net EXCEPT ![n] = Append(RemoveAt(@, k), @[k])]
        BY <2>2 DEF DelayMessage
      <3>2. k \in 1 .. Len(net[n])
        BY <1>1, LenProperties
      <3> QED
        BY <1>1, <3>1, <3>2
    <2> QED
      BY <2>1, <2>2
  <1>4. net' \in [Node -> Seq(Message)]
    BY <1>1, <1>3, RemoveAtType
  <1> QED
    BY <1>4, <1>5, <1>6, InvParts, InvPartsNext

\* A partner that becomes busy, or free, keeps the invariant.
LEMMA BusyGood ==
  ASSUME IInv, NEW n \in Node, NEW i \in Index, BecomeBusy(n, i) \/ BecomeFree(n, i)
  PROVE  IInv'
  <1> DEFINE s == L4TABLE[n][i]
  <1>1. PICK b \in BOOLEAN : L4TABLE' = [L4TABLE EXCEPT ![n][i].PARTNERBUSY = b]
    BY DEF BecomeBusy, BecomeFree
  <1> DEFINE t == [s EXCEPT !.PARTNERBUSY = b]
  <1>2. L4TABLE' = [L4TABLE EXCEPT ![n][i] = t]
    BY <1>1
  <1>3. Good(s) /\ s.CIRCUITINDEX = i /\ s \in Entry
    BY EntryFacts
  <1>4. Good(t)
    <2>1. FieldsOK(t) /\ IsRecord(t)
      BY <1>3 DEF FieldsOK, IsRecord, Fields, Entry
    <2>2. Held(t)
      BY <1>3, SameHeld DEF Good, Entry
    <2> QED
      BY <2>1, <2>2, GoodIntro
  <1>5. t.CIRCUITINDEX = i
    BY <1>3 DEF Entry
  <1> HIDE DEF t
  <1>6. L4TABLE \in [Node -> [Index -> Entry]] /\ t \in Entry
    BY <1>4 DEF IInv, TypeOK, Good
  <1>7. TablesOK(L4TABLE')
    <2>1. L4TABLE' \in [Node -> [Index -> Entry]]
      BY <1>2, <1>6
    <2>2. ASSUME NEW m \in Node, NEW j \in Index
          PROVE  Good(L4TABLE'[m][j]) /\ L4TABLE'[m][j].CIRCUITINDEX = j
      <3>1. (L4TABLE'[m][j] = t /\ j = i) \/ L4TABLE'[m][j] = L4TABLE[m][j]
        BY <1>2, <1>6
      <3> QED
        BY <1>4, <1>5, <3>1, EntryFacts
    <2> QED
      BY <2>1, <2>2 DEF TablesOK
  <1>8. used' = [used EXCEPT !.trouble = After("busy")] \/ used' = used
    BY DEF BecomeBusy, BecomeFree
  <1>9. used' \in Used
    BY <1>8, UsedGrows, AfterType, InvParts
  <1>10. UNCHANGED << NEXTID, net, given, taken >>
    BY DEF BecomeBusy, BecomeFree
  <1> QED
    BY <1>7, <1>9, <1>10, InvParts, InvPartsNext

\* A node that is started again keeps the invariant.
LEMMA RestartGood ==
  ASSUME IInv, NEW n \in Node, Restart(n)
  PROVE  IInv'
  <1> DEFINE t == [i \in Index |-> FreeEntry(i)]
  <1>1. L4TABLE' = [L4TABLE EXCEPT ![n] = t]
        /\ used' = [used EXCEPT !.trouble = After("restart")]
        /\ UNCHANGED << net, given, taken >>
    BY DEF Restart
  <1>2. \A i \in Index : Good(t[i]) /\ t[i].CIRCUITINDEX = i /\ t[i] \in Entry
    BY FreeEntryGood DEF Good
  <1>3. t \in [Index -> Entry]
    BY <1>2
  <1> HIDE DEF t
  <1>4. L4TABLE \in [Node -> [Index -> Entry]]
    BY DEF IInv, TypeOK
  <1>5. TablesOK(L4TABLE')
    <2>1. L4TABLE' \in [Node -> [Index -> Entry]]
      BY <1>1, <1>3, <1>4
    <2>2. ASSUME NEW m \in Node, NEW j \in Index
          PROVE  Good(L4TABLE'[m][j]) /\ L4TABLE'[m][j].CIRCUITINDEX = j
      <3>1. L4TABLE'[m][j] = t[j] \/ L4TABLE'[m][j] = L4TABLE[m][j]
        BY <1>1, <1>4
      <3> QED
        BY <1>2, <3>1, EntryFacts
    <2> QED
      BY <2>1, <2>2 DEF TablesOK
  <1>6. NEXTID' \in [Node -> Id]
    <2>1. NEXTID \in [Node -> Id]
      BY InvParts
    <2>2. PICK id \in RestartIds : NEXTID' = [NEXTID EXCEPT ![n] = id]
      BY DEF Restart
    <2> QED
      BY <2>1, <2>2, FirstIdAssumption
  <1> QED
    BY <1>1, <1>5, <1>6, UsedGrows, AfterType, InvParts, InvPartsNext

\* Every step keeps the invariant.
LEMMA NextGood == IInv /\ [Next]_vars => IInv'
  <1> SUFFICES ASSUME IInv, [Next]_vars PROVE IInv'
    OBVIOUS
  <1>1. CASE Next
    <2>1. PICK n \in Node :
             \/ ReceiveForCircuit(n)
             \/ \E kind \in AnswerOf[n] : CONNECTREQUEST(n, kind)
             \/ Connect(n)
             \/ LoseMessage(n) \/ DelayMessage(n) \/ Restart(n)
             \/ \E i \in Index :
                   \/ RunL4BG(n, i)
                   \/ \E ev \in TimerEvents : RunTimers(n, i, ev)
                   \/ Send(n, i) \/ CancelConnect(n, i) \/ Close(n, i)
                   \/ BecomeBusy(n, i) \/ BecomeFree(n, i)
      BY <1>1 DEF Next
    <2>2. CASE ReceiveForCircuit(n)
      BY <2>2, ReceiveGood
    <2>3. CASE \E kind \in AnswerOf[n] : CONNECTREQUEST(n, kind)
      BY <2>3, ConnectRequestGood
    <2>4. CASE Connect(n)
      BY <2>4, ConnectStepGood
    <2>5. CASE LoseMessage(n) \/ DelayMessage(n)
      BY <2>5, NetworkGood
    <2>6. CASE Restart(n)
      BY <2>6, RestartGood
    <2>7. ASSUME NEW i \in Index,
                 \/ RunL4BG(n, i)
                 \/ \E ev \in TimerEvents : RunTimers(n, i, ev)
                 \/ Send(n, i) \/ CancelConnect(n, i) \/ Close(n, i)
                 \/ BecomeBusy(n, i) \/ BecomeFree(n, i)
          PROVE  IInv'
      BY <2>7, RunBGGood, RunTimersGood, SendGood, CancelGood, CloseStepGood, BusyGood
    <2> QED
      BY <2>1, <2>2, <2>3, <2>4, <2>5, <2>6, <2>7
  <1>2. CASE UNCHANGED vars
    <2>1. /\ L4TABLE' = L4TABLE /\ NEXTID' = NEXTID /\ net' = net
          /\ given' = given /\ taken' = taken /\ used' = used
      BY <1>2 DEF vars
    <2> QED
      BY <2>1, InvParts, InvPartsNext
  <1> QED
    BY <1>1, <1>2

\* The inductive invariant holds throughout.
THEOREM CircuitInvariance == Spec => []IInv
  BY InitGood, NextGood, PTL DEF Spec

\* Every field, queue, message and history keeps its type: no sequence number,
\* circuit id or retry count leaves its byte, and an entry keeps its place in
\* L4TABLE, whatever messages come and after any restarts.
THEOREM CircuitTypeCorrect == Spec => []TypeOK
  BY CircuitInvariance, PTL DEF IInv

\* HoldBounded: an acknowledgement that is old, repeated or meant for another
\* circuit may release too many frames, but never leaves more held than lie
\* between L4WS and TXSEQNO, and the queue never outgrows the window and one.
THEOREM HeldFramesBounded == Spec => []HoldBounded
  <1>1. IInv => HoldBounded
    BY DEF IInv, Good, Held, HoldBounded
  <1> QED
    BY <1>1, CircuitInvariance, PTL
=============================================================================
