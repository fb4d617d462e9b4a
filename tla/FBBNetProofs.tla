---------------------------- MODULE FBBNetProofs ----------------------------
(***************************************************************************)
(* What FBBNet keeps true, for any number of BBSs, messages and sessions,  *)
(* any routes and any bounds, whatever breaks or crashes.                  *)
(*                                                                         *)
(* The inductive invariant, Inv, says where the dialogue of each open      *)
(* session is: a handler that takes a line brings its BBS and its lines to *)
(* the next place (LineResult of FBBNodeProofs), and a step elsewhere      *)
(* leaves the place as it was (TalkKept).  There is one lemma per action.  *)
(*                                                                         *)
(* That a bulletin is stored once needs a second one, OnceInv, about what  *)
(* is on its way to a BBS in all of its sessions: again a lemma per action *)
(* and one, OnceKept, for what they all have to show.  That the BBSs are a *)
(* mail relay needs a third, RelayInv, about what is owed, offered and     *)
(* waited for (LineTakes of FBBNodeProofs).                                *)
(***************************************************************************)
EXTENDS FBBNet, FBBNodeProofs

\* The two ends of an open session are at one place of the dialogue.
Talk(k) ==
    LET c == conn[k].from
        d == conn[k].to
    IN  /\ bbs[c].session[k].user = d /\ bbs[d].session[k].user = c
        /\ bbs[c].session[k].Active /\ bbs[d].session[k].Active
        /\ \A m \in BBS \ {c, d} : wire[k][m] = << >>
        /\ \/ Greeting(bbs[c].session[k], bbs[d].session[k], wire[k][c], wire[k][d])
           \/ Phase(k, bbs[c], bbs[d], wire[k][c], wire[k][d])
           \/ Phase(k, bbs[d], bbs[c], wire[k][d], wire[k][c])

Connections ==
    [is : {"calling", "open", "over"}, from : BBS, to : BBS]

ConnOK ==
    /\ conn \in [Conn -> {Unused} \cup Connections]
    /\ wire \in [Conn -> [BBS -> Seq(Lines)]] /\ told \in [Conn -> SUBSET BBS]
    /\ \A k \in Conn :
          /\ conn[k] # Unused => conn[k].from # conn[k].to
          /\ told[k] # {} => conn[k].is = "over"
          /\ conn[k].is # "open" => wire[k] = Silence
          /\ conn[k].is = "calling" =>
                bbs[conn[k].from].session[k] = Session(conn[k].to, TRUE)

BoxesGood ==
    /\ bbs \in [BBS -> State]
    /\ \A n \in BBS : /\ Good(bbs[n])
                      /\ bbs[n].me = n /\ bbs[n].out = Fresh(n).out /\ bbs[n].shut = {}

Talks == \A k \in Open : Talk(k)

\* A message marked as passed on is at the partner.
SavedThere ==
    \A n \in BBS : \A i \in DOMAIN bbs[n].msg : \A p \in bbs[n].msg[i].forw :
       bbs[n].msg[i].bid \in Bids(bbs[p])

Inv ==
    /\ BoxesGood /\ ConnOK /\ Talks /\ SavedThere
    /\ posted \subseteq Bid /\ trouble \in 0 .. MaxTrouble

-----------------------------------------------------------------------------
(* What a step leaves as it was.                                           *)

LEMMA GrownReflexive ==
  ASSUME NEW s \in State
  PROVE  Grown(s, s)
<1>1. Len(s.msg) \in Nat
  BY DEF State
<1> QED
  BY <1>1 DEF Grown

\* An open session goes on when its two ends and its lines are left alone.
LEMMA TalkKept ==
  ASSUME NEW k \in Conn, conn[k] \in Connections, conn'[k] = conn[k], wire'[k] = wire[k],
         BoxesGood, BoxesGood', Talk(k),
         \A n \in BBS : Grown(bbs[n], bbs'[n]),
         \A n \in End(k) : bbs'[n].session[k] = bbs[n].session[k]
  PROVE  Talk(k)'
<1> DEFINE c == conn[k].from
           d == conn[k].to
<1>1. c \in BBS /\ d \in BBS
  BY DEF Connections
<1>2. /\ bbs[c] \in State /\ bbs[d] \in State /\ bbs'[c] \in State /\ bbs'[d] \in State
      /\ Grown(bbs[c], bbs'[c]) /\ Grown(bbs[d], bbs'[d])
      /\ bbs'[c].session[k] = bbs[c].session[k] /\ bbs'[d].session[k] = bbs[d].session[k]
  BY <1>1 DEF BoxesGood, End
<1> HIDE DEF c, d
<1>3. ASSUME Phase(k, bbs[c], bbs[d], wire[k][c], wire[k][d])
      PROVE  Phase(k, bbs'[c], bbs'[d], wire'[k][c], wire'[k][d])
  BY <1>2, <1>3, PhaseKept
<1>4. ASSUME Phase(k, bbs[d], bbs[c], wire[k][d], wire[k][c])
      PROVE  Phase(k, bbs'[d], bbs'[c], wire'[k][d], wire'[k][c])
  BY <1>2, <1>4, PhaseKept
<1> QED
  BY <1>2, <1>3, <1>4, Zenon DEF Talk, c, d

\* Marks stay right when a new one is made only for what the partner has.
LEMMA SavedKept ==
  ASSUME BoxesGood, BoxesGood', SavedThere,
         \A n \in BBS : Grown(bbs[n], bbs'[n]),
         \A n \in BBS : \A i \in DOMAIN bbs'[n].msg : \A p \in bbs'[n].msg[i].forw :
            \/ i \in DOMAIN bbs[n].msg /\ p \in bbs[n].msg[i].forw
            \/ bbs'[n].msg[i].bid \in Bids(bbs[p])
  PROVE  SavedThere'
<1>1. SUFFICES ASSUME NEW n \in BBS, NEW i \in DOMAIN bbs'[n].msg, NEW p \in bbs'[n].msg[i].forw
               PROVE  bbs'[n].msg[i].bid \in Bids(bbs'[p])
  BY DEF SavedThere
<1>2. p \in BBS
  <2>1. bbs'[n] \in State
    BY DEF BoxesGood
  <2>2. bbs'[n].msg[i] \in Message
    BY <2>1 DEF State
  <2> QED
    BY <2>2 DEF Message
<1>3. Bids(bbs[p]) \subseteq Bids(bbs'[p])
  BY <1>2, GrownBids DEF BoxesGood
<1>4. bbs'[n].msg[i].bid \in Bids(bbs[p])
  BY DEF Grown, SavedThere
<1> QED
  BY <1>3, <1>4

\* A step that changes one BBS.
LEMMA OneBBS ==
  ASSUME BoxesGood, NEW n \in BBS, NEW t, bbs' = [bbs EXCEPT ![n] = t],
         Good(t), t.me = n, t.out = Fresh(n).out, t.shut = {}
  PROVE  /\ BoxesGood' /\ bbs'[n] = t /\ \A m \in BBS \ {n} : bbs'[m] = bbs[m]
         /\ Grown(bbs[n], t) => \A m \in BBS : Grown(bbs[m], bbs'[m])
<1>1. t \in State
  BY DEF Good
<1>2. bbs' \in [BBS -> State] /\ bbs'[n] = t /\ \A m \in BBS \ {n} : bbs'[m] = bbs[m]
  BY <1>1 DEF BoxesGood
<1>3. BoxesGood'
  BY <1>2, Zenon DEF BoxesGood
<1>4. ASSUME Grown(bbs[n], t), NEW m \in BBS
      PROVE  Grown(bbs[m], bbs'[m])
  BY <1>2, <1>4, GrownReflexive DEF BoxesGood
<1> QED
  BY <1>2, <1>3, <1>4

-----------------------------------------------------------------------------
(* The steps other than a handler's.                                       *)

LEMMA SessionType ==
  /\ NoSession \in Sessions
  /\ \A p \in BBS : Session(p, TRUE) \in Sessions /\ Session(p, FALSE) \in Sessions
  /\ \A s : Len(s.msg) \in Nat =>
        Fits(s, NoSession) /\ \A p : Fits(s, Session(p, TRUE)) /\ Fits(s, Session(p, FALSE))
<1>1. << >> \in Seq(Nat) /\ << >> \in Seq(Bid) /\ Len(<< >>) = 0
  OBVIOUS
<1>2. NoSession \in Sessions
  BY <1>1 DEF NoSession, Sessions
<1>3. ASSUME NEW p \in BBS
      PROVE  Session(p, TRUE) \in Sessions /\ Session(p, FALSE) \in Sessions
  BY <1>2 DEF Session, Sessions
<1>4. ASSUME NEW s, Len(s.msg) \in Nat, NEW p
      PROVE  Fits(s, NoSession) /\ Fits(s, Session(p, TRUE)) /\ Fits(s, Session(p, FALSE))
  BY <1>1, <1>4, BlockAssumption DEF NoSession, Session, Fits
<1> QED
  BY <1>2, <1>3, <1>4

LEMMA StartGood ==
  ASSUME NEW t \in State, Kept(t), t.session = [k \in Conn |-> NoSession]
  PROVE  Good(t)
<1>1. Len(t.msg) \in Nat
  BY DEF State
<1>2. \A k \in Conn : Fits(t, t.session[k])
  BY <1>1, SessionType
<1> QED
  BY <1>2 DEF Good

\* A BBS starts, with no messages or with those of its file.
LEMMA FreshGood ==
  ASSUME NEW n \in BBS
  PROVE  /\ Good(Fresh(n)) /\ Fresh(n).me = n /\ Fresh(n).shut = {} /\ Fresh(n).temp = {}
         /\ Fresh(n).msg = << >>
<1>1. << >> \in Seq(Lines) /\ << >> \in Seq(Message) /\ NoSession \in Sessions
  BY SessionType
<1>2. Fresh(n) \in State /\ Fresh(n).saved = << >> /\ Fresh(n).session = [k \in Conn |-> NoSession]
      /\ Fresh(n).me = n /\ Fresh(n).shut = {} /\ Fresh(n).temp = {} /\ Fresh(n).msg = << >>
  BY <1>1 DEF Fresh, State
<1>3. Kept(Fresh(n))
  BY <1>2 DEF Kept
<1> QED
  BY <1>2, <1>3, StartGood

LEMMA StartedGood ==
  ASSUME NEW n \in BBS, NEW q \in Seq(Message)
  PROVE  LET t == Started(n, q)
         IN  /\ Good(t) /\ t.me = n /\ t.out = Fresh(n).out /\ t.shut = {} /\ t.temp = {}
             /\ t.session = [k \in Conn |-> NoSession]
             /\ Len(t.msg) = Len(q) /\ DOMAIN t.msg = DOMAIN q
             /\ \A i \in DOMAIN q : /\ t.msg[i].bid = q[i].bid /\ t.msg[i].restarted = q[i].restarted
                                    /\ t.msg[i].forw = q[i].forw
<1> DEFINE t == Started(n, q)
           M == [m \in DOMAIN q |-> [q[m] EXCEPT !.Defered = 0]]
<1>1. Len(q) \in Nat /\ DOMAIN q = 1 .. Len(q) /\ \A m \in DOMAIN q : q[m] \in Message
  OBVIOUS
<1>2. ASSUME NEW m \in DOMAIN q
      PROVE  /\ M[m] \in Message /\ M[m].bid = q[m].bid /\ M[m].restarted = q[m].restarted
             /\ M[m].forw = q[m].forw
  <2> DEFINE d == [q[m] EXCEPT !.Defered = 0]
  <2>1. q[m] \in Message /\ 0 \in 0 .. DeferCycles
    BY <1>1, BlockAssumption
  <2>2. d \in Message /\ d.bid = q[m].bid /\ d.restarted = q[m].restarted /\ d.forw = q[m].forw
    BY <2>1 DEF Message
  <2>3. M[m] = d
    OBVIOUS
  <2> QED
    BY <2>2, <2>3
<1>3. M \in Seq(Message) /\ Len(M) = Len(q) /\ DOMAIN M = DOMAIN q
  <2>1. M \in [1 .. Len(q) -> Message]
    BY <1>1, <1>2
  <2> HIDE DEF M
  <2> QED
    BY <1>1, <2>1
<1>4. t = [Fresh(n) EXCEPT !.msg = M, !.saved = q]
  BY DEF Started
<1> HIDE DEF t, M
<1>5. /\ Fresh(n) \in State /\ Fresh(n).me = n /\ Fresh(n).shut = {} /\ Fresh(n).temp = {}
      /\ Fresh(n).session = [k \in Conn |-> NoSession]
  BY FreshGood DEF Good, Fresh
<1>6. /\ t \in State /\ t.me = n /\ t.out = Fresh(n).out /\ t.shut = {} /\ t.temp = {}
      /\ t.msg = M /\ t.saved = q /\ t.session = [k \in Conn |-> NoSession]
  BY <1>3, <1>4, <1>5 DEF State
<1>7. Kept(t)
  BY <1>2, <1>3, <1>6 DEF Kept
<1>8. Good(t)
  BY <1>6, <1>7, StartGood
<1> QED
  BY <1>2, <1>3, <1>6, <1>8 DEF t

LEMMA InitInv ==
  ASSUME Init
  PROVE  Inv
<1>1. BoxesGood
  BY FreshGood DEF Init, BoxesGood, Good
<1>2. ConnOK
  <2>1. << >> \in Seq(Lines)
    OBVIOUS
  <2>2. conn \in [Conn -> {Unused} \cup Connections] /\ told \in [Conn -> SUBSET BBS]
        /\ wire \in [Conn -> [BBS -> Seq(Lines)]]
    BY <2>1 DEF Init, Silence
  <2>3. \A k \in Conn : conn[k] = Unused /\ told[k] = {} /\ wire[k] = Silence /\ Unused.is = "unused"
    BY DEF Init, Unused
  <2> QED
    BY <2>2, <2>3 DEF ConnOK
<1>3. Talks
  BY DEF Init, Talks, Open, Unused
<1>4. SavedThere
  BY DEF Init, SavedThere, Fresh
<1> QED
  BY <1>1, <1>2, <1>3, <1>4, NetAssumption DEF Inv, Init

LEMMA PostInv ==
  ASSUME Inv, NEW b \in Bid, Post(b)
  PROVE  Inv'
<1> DEFINE n == Origin[b]
           msg == New(b, n, Nobody, FALSE)
           t == CreateMessageFromBuffer(bbs[n], msg)
<1>1. n \in BBS /\ msg \in Message /\ msg.forw = {} /\ msg.bid = b
  BY NewType, NetAssumption
<1>2. BoxesGood /\ ConnOK /\ Talks /\ SavedThere /\ bbs' = [bbs EXCEPT ![n] = t]
      /\ conn' = conn /\ wire' = wire /\ told' = told /\ trouble' = trouble /\ posted' = posted \cup {b}
      /\ posted \subseteq Bid /\ trouble \in 0 .. MaxTrouble
  BY DEF Inv, Post
<1> HIDE DEF n, msg
<1>3. Good(bbs[n]) /\ bbs[n] \in State /\ bbs[n].me = n /\ bbs[n].out = Fresh(n).out /\ bbs[n].shut = {}
  BY <1>1, <1>2 DEF BoxesGood
<1>4. Good(t) /\ t.me = n /\ t.out = Fresh(n).out /\ t.shut = {} /\ t.session = bbs[n].session
      /\ Grown(bbs[n], t)
      /\ \A i \in DOMAIN t.msg : \A p \in t.msg[i].forw :
            i \in DOMAIN bbs[n].msg /\ p \in bbs[n].msg[i].forw
  BY <1>1, <1>3, StoreDoes
<1> HIDE DEF t
<1>5. BoxesGood' /\ bbs'[n] = t /\ (\A m \in BBS \ {n} : bbs'[m] = bbs[m])
      /\ \A m \in BBS : Grown(bbs[m], bbs'[m])
  BY <1>1, <1>2, <1>4, OneBBS
<1>6. \A m \in BBS : bbs'[m].session = bbs[m].session
  BY <1>4, <1>5
<1>7. ConnOK'
  <2>1. \A k \in Conn : conn[k].is = "calling" => conn[k].from \in BBS
    BY <1>2 DEF ConnOK, Connections, Unused
  <2> QED
    BY <1>2, <1>6, <2>1 DEF ConnOK
<1>8. Talks'
  <2>1. SUFFICES ASSUME NEW k \in Conn, conn[k].is = "open"
                 PROVE  Talk(k)'
    BY <1>2 DEF Talks, Open
  <2>2. conn[k] \in Connections /\ Talk(k)
    BY <1>2, <2>1 DEF ConnOK, Talks, Open, Unused
  <2>3. End(k) \subseteq BBS
    BY <2>2 DEF End, Connections
  <2> QED
    BY <1>2, <1>5, <1>6, <2>2, <2>3, TalkKept
<1>9. SavedThere'
  <2>1. \A m \in BBS : \A i \in DOMAIN bbs'[m].msg : \A p \in bbs'[m].msg[i].forw :
           i \in DOMAIN bbs[m].msg /\ p \in bbs[m].msg[i].forw
    BY <1>4, <1>5
  <2> QED
    BY <1>2, <1>5, <2>1, SavedKept
<1> QED
  BY <1>2, <1>5, <1>7, <1>8, <1>9 DEF Inv

\* Connections end, and no other session is changed.
LEMMA EndsInv ==
  ASSUME Inv, BoxesGood', NEW K \in SUBSET Conn, NEW ends, Ends(K, ends),
         \A k \in K : conn[k] \in Connections /\ ends[k] \in SUBSET BBS,
         \A n \in BBS : Grown(bbs[n], bbs'[n]),
         \A k \in Conn \ K : conn[k] # Unused =>
            \A n \in End(k) : bbs'[n].session[k] = bbs[n].session[k]
  PROVE  ConnOK' /\ Talks'
<1>1. ConnOK /\ Talks /\ BoxesGood
  BY DEF Inv
<1>2. /\ conn \in [Conn -> {Unused} \cup Connections] /\ wire \in [Conn -> [BBS -> Seq(Lines)]]
      /\ told \in [Conn -> SUBSET BBS]
  BY <1>1 DEF ConnOK
<1>3. Silence \in [BBS -> Seq(Lines)]
  <2>1. << >> \in Seq(Lines)
    OBVIOUS
  <2> QED
    BY <2>1 DEF Silence
<1>4. \A k \in Conn \ K : conn'[k] = conn[k] /\ wire'[k] = wire[k] /\ told'[k] = told[k]
  BY DEF Ends
<1>5. \A k \in K : /\ wire'[k] = Silence /\ told'[k] = ends[k]
                   /\ conn'[k] = IF ends[k] = {} THEN Unused ELSE [conn[k] EXCEPT !.is = "over"]
  BY DEF Ends
<1>6. \A k \in K : /\ conn'[k] \in {Unused} \cup Connections /\ conn'[k].is \notin {"calling", "open"}
                   /\ told'[k] # {} => conn'[k].is = "over"
                   /\ conn'[k] # Unused => conn'[k].from = conn[k].from /\ conn'[k].to = conn[k].to
  <2>1. SUFFICES ASSUME NEW k \in K
                 PROVE  /\ conn'[k] \in {Unused} \cup Connections /\ conn'[k].is \notin {"calling", "open"}
                        /\ told'[k] # {} => conn'[k].is = "over"
                        /\ conn'[k] # Unused => conn'[k].from = conn[k].from /\ conn'[k].to = conn[k].to
    OBVIOUS
  <2>2. CASE ends[k] = {}
    <3>1. conn'[k] = Unused /\ told'[k] = {}
      BY <1>5, <2>2
    <3>2. Unused.is = "unused"
      BY DEF Unused
    <3> QED
      BY <3>1, <3>2
  <2>3. CASE ends[k] # {}
    <3> DEFINE c == [conn[k] EXCEPT !.is = "over"]
    <3>1. c \in Connections /\ c.is = "over" /\ c.from = conn[k].from /\ c.to = conn[k].to
      BY DEF Connections
    <3> QED
      BY <1>5, <2>3, <3>1
  <2> QED
    BY <2>2, <2>3
<1>7. conn' \in [Conn -> {Unused} \cup Connections] /\ wire' \in [Conn -> [BBS -> Seq(Lines)]]
      /\ told' \in [Conn -> SUBSET BBS]
  <2>1. \A k \in Conn : /\ conn'[k] \in {Unused} \cup Connections
                        /\ wire'[k] \in [BBS -> Seq(Lines)] /\ told'[k] \in SUBSET BBS
    BY <1>2, <1>3, <1>4, <1>5, <1>6
  <2>2. DOMAIN conn' = Conn /\ DOMAIN wire' = Conn /\ DOMAIN told' = Conn
        /\ conn' = [k \in Conn |-> conn'[k]] /\ wire' = [k \in Conn |-> wire'[k]]
        /\ told' = [k \in Conn |-> told'[k]]
    BY DEF Ends
  <2> QED
    BY <2>1, <2>2
<1>8. ConnOK'
  <2>1. SUFFICES ASSUME NEW k \in Conn
                 PROVE  /\ conn'[k] # Unused => conn'[k].from # conn'[k].to
                        /\ told'[k] # {} => conn'[k].is = "over"
                        /\ conn'[k].is # "open" => wire'[k] = Silence
                        /\ conn'[k].is = "calling" =>
                              bbs'[conn'[k].from].session[k] = Session(conn'[k].to, TRUE)
    BY <1>7 DEF ConnOK
  <2>2. CASE k \in K
    <3>1. conn[k] # Unused
      BY <2>2 DEF Connections, Unused
    <3>2. conn[k].from # conn[k].to
      BY <1>1, <3>1 DEF ConnOK
    <3> QED
      BY <1>5, <1>6, <2>2, <3>2
  <2>3. CASE k \notin K
    <3>1. /\ conn[k] # Unused => conn[k].from # conn[k].to
          /\ told[k] # {} => conn[k].is = "over"
          /\ conn[k].is # "open" => wire[k] = Silence
          /\ conn[k].is = "calling" => bbs[conn[k].from].session[k] = Session(conn[k].to, TRUE)
      BY <1>1 DEF ConnOK
    <3>2. conn[k].is = "calling" => conn[k] # Unused
      BY DEF Unused
    <3>3. conn[k].from \in End(k)
      BY DEF End
    <3> QED
      BY <1>4, <2>3, <3>1, <3>2, <3>3
  <2> QED
    BY <2>2, <2>3
<1>9. Talks'
  <2>1. SUFFICES ASSUME NEW k \in Conn, conn'[k].is = "open"
                 PROVE  Talk(k)'
    BY DEF Talks, Open
  <2>2. k \notin K /\ conn'[k] = conn[k] /\ wire'[k] = wire[k]
    BY <1>4, <1>6, <2>1
  <2>3. Talk(k) /\ conn[k] # Unused
    BY <1>1, <2>1, <2>2 DEF Talks, Open, Unused
  <2>4. conn[k] \in Connections
    BY <1>2, <2>3
  <2> QED
    BY <1>1, <2>2, <2>3, <2>4, TalkKept
<1> QED
  BY <1>8, <1>9

LEMMA ConnectFailsInv ==
  ASSUME Inv, NEW k \in Conn, ConnectFails(k)
  PROVE  Inv'
<1>1. conn[k] \in Connections
  BY DEF Inv, ConnOK, ConnectFails, Unused
<1>2. BoxesGood' /\ SavedThere' /\ bbs' = bbs /\ posted' = posted
  BY DEF Inv, ConnectFails, BoxesGood, SavedThere
<1>3. \A n \in BBS : Grown(bbs[n], bbs'[n])
  BY <1>2, GrownReflexive DEF Inv, BoxesGood
<1>4. Ends({k}, [c \in {k} |-> {conn[c].from}])
  BY DEF ConnectFails
<1>5. ConnOK' /\ Talks'
  <2> DEFINE ends == [c \in {k} |-> {conn[c].from}]
             K == {k}
  <2>1. \A c \in K : conn[c] \in Connections /\ ends[c] \in SUBSET BBS
    BY <1>1 DEF Connections
  <2>2. Ends(K, ends) /\ K \in SUBSET Conn
    BY <1>4
  <2> HIDE DEF ends, K
  <2> QED
    BY <1>2, <1>3, <2>1, <2>2, EndsInv
<1>6. posted' \subseteq Bid /\ trouble' \in 0 .. MaxTrouble
  BY <1>2, NetAssumption DEF Inv, ConnectFails, Trouble
<1> QED
  BY <1>2, <1>5, <1>6 DEF Inv

LEMMA BreakInv ==
  ASSUME Inv, NEW k \in Conn, Break(k)
  PROVE  Inv'
<1>1. conn[k] \in Connections
  BY DEF Inv, ConnOK, Break, Open, Unused
<1>2. BoxesGood' /\ SavedThere' /\ bbs' = bbs /\ posted' = posted
  BY DEF Inv, Break, BoxesGood, SavedThere
<1>3. \A n \in BBS : Grown(bbs[n], bbs'[n])
  BY <1>2, GrownReflexive DEF Inv, BoxesGood
<1>4. Ends({k}, [c \in {k} |-> End(c)])
  BY DEF Break
<1>5. ConnOK' /\ Talks'
  <2> DEFINE ends == [c \in {k} |-> End(c)]
             K == {k}
  <2>1. \A c \in K : conn[c] \in Connections /\ ends[c] \in SUBSET BBS
    BY <1>1 DEF Connections, End
  <2>2. Ends(K, ends) /\ K \in SUBSET Conn
    BY <1>4
  <2> HIDE DEF ends, K
  <2> QED
    BY <1>2, <1>3, <2>1, <2>2, EndsInv
<1>6. posted' \subseteq Bid /\ trouble' \in 0 .. MaxTrouble
  BY <1>2, NetAssumption DEF Inv, Break, Trouble
<1> QED
  BY <1>2, <1>5, <1>6 DEF Inv

\* A session that has ended: what was coming of it is no longer noted.
LEMMA DisconnectedGood ==
  ASSUME NEW s, Good(s), NEW k \in Conn
  PROVE  LET t == Disconnected(s, k)
         IN  /\ Good(t) /\ t.me = s.me /\ t.msg = s.msg /\ t.out = s.out /\ t.shut = s.shut
             /\ \A j \in Conn \ {k} : t.session[j] = s.session[j]
             /\ t.session[k] = NoSession \/ t.session[k] = s.session[k]
             /\ s.session[k].Active => t.session[k] = NoSession /\ t.temp = {c \in s.temp : c.conn # k}
             /\ \A c \in s.temp : c.conn # k => c \in t.temp
<1> DEFINE t == Disconnected(s, k)
           u == SaveFBBBinary(s, k)
           e == s.session[k]
           r == [user |-> e.user, bid |-> Head(e.want),
                 Count |-> IF s.restart = NoRestart THEN 0 ELSE s.restart.Count,
                 live |-> ~e.shared \/ s.restart.live]
<1>1. s \in State /\ e \in Sessions /\ e.want \in Seq(Bid)
  BY DEF Good, State, Sessions
<1>2. CASE ~e.Active
  BY <1>2 DEF Disconnected
<1>3. CASE e.Active
  <2>1. /\ u \in State /\ u.me = s.me /\ u.msg = s.msg /\ u.saved = s.saved /\ u.out = s.out
        /\ u.shut = s.shut /\ u.session = s.session /\ u.temp = s.temp
    <3>1. CASE e.length = 0 \/ e.want = << >>
      BY <1>1, <3>1 DEF SaveFBBBinary
    <3>2. CASE ~(e.length = 0 \/ e.want = << >>)
      <4>1. r \in Restarts
        <5>1. Head(e.want) \in Bid
          BY <1>1, <3>2
        <5>2. s.restart = NoRestart \/ s.restart \in Restarts
          BY <1>1 DEF State
        <5>3. (IF s.restart = NoRestart THEN 0 ELSE s.restart.Count) \in 0 .. MaxRestart
          BY <5>2, BlockAssumption DEF Restarts
        <5>4. e.shared \in BOOLEAN /\ e.user \in BBS \cup {Nobody}
          BY <1>1 DEF Sessions
        <5> QED
          BY <5>1, <5>3, <5>4 DEF Restarts
      <4>2. u = [s EXCEPT !.restart = r]
        BY <3>2 DEF SaveFBBBinary
      <4> HIDE DEF r, u
      <4> QED
        BY <1>1, <4>1, <4>2 DEF State
    <3> QED
      BY <3>1, <3>2
  <2> HIDE DEF u
  <2> DEFINE v == RemoveTempBIDS(u, k)
  <2>2. /\ v \in State /\ v.me = s.me /\ v.msg = s.msg /\ v.saved = s.saved /\ v.out = s.out
        /\ v.shut = s.shut /\ v.session = s.session /\ v.temp = {c \in s.temp : c.conn # k}
    BY <2>1 DEF RemoveTempBIDS, State
  <2>3. t = [v EXCEPT !.session[k] = NoSession, !.Forwarding[e.user] = FALSE]
    BY <1>3 DEF Disconnected, u
  <2> HIDE DEF v, t
  <2>4. /\ t \in State /\ t.me = s.me /\ t.msg = s.msg /\ t.saved = s.saved /\ t.out = s.out
        /\ t.shut = s.shut /\ t.session = [s.session EXCEPT ![k] = NoSession]
        /\ t.temp = {c \in s.temp : c.conn # k}
    BY <2>2, <2>3, SessionType DEF State
  <2>5. t.session[k] = NoSession /\ \A j \in Conn \ {k} : t.session[j] = s.session[j]
    BY <1>1, <2>4 DEF State
  <2>6. Kept(t)
    BY <2>4 DEF Good, Kept
  <2>7. ASSUME NEW j \in Conn
        PROVE  Fits(t, t.session[j])
    <3>1. Fits(s, s.session[j]) /\ Len(t.msg) \in Nat
      BY <2>4 DEF Good, State
    <3> QED
      BY <2>4, <2>5, <3>1, SessionType DEF Fits
  <2>8. Good(t)
    BY <2>4, <2>6, <2>7 DEF Good
  <2> QED
    BY <2>4, <2>5, <2>8 DEF t
<1> QED
  BY <1>2, <1>3

LEMMA BBSDisconnectedInv ==
  ASSUME Inv, NEW k \in Conn, NEW n \in BBS, BBSDisconnected(k, n)
  PROVE  Inv'
<1> DEFINE t == Disconnected(bbs[n], k)
           K == {k}
           ends == [c \in {k} |-> told[c] \ {n}]
<1>1. BoxesGood /\ ConnOK /\ SavedThere /\ n \in told[k] /\ bbs' = [bbs EXCEPT ![n] = t]
      /\ Ends(K, ends) /\ posted' = posted /\ trouble' = trouble
  BY DEF Inv, BBSDisconnected
<1>2. Good(bbs[n]) /\ bbs[n] \in State /\ bbs[n].me = n /\ bbs[n].out = Fresh(n).out /\ bbs[n].shut = {}
  BY <1>1 DEF BoxesGood
<1>3. /\ Good(t) /\ t.me = n /\ t.msg = bbs[n].msg /\ t.out = Fresh(n).out /\ t.shut = {}
      /\ \A j \in Conn \ {k} : t.session[j] = bbs[n].session[j]
  BY <1>2, DisconnectedGood
<1>4. Grown(bbs[n], t)
  BY <1>2, <1>3, GrownReflexive DEF Grown
<1> HIDE DEF t
<1>5. BoxesGood' /\ bbs'[n] = t /\ (\A m \in BBS \ {n} : bbs'[m] = bbs[m])
      /\ \A m \in BBS : Grown(bbs[m], bbs'[m])
  BY <1>1, <1>3, <1>4, OneBBS
<1>6. conn[k] \in Connections
  <2>1. told[k] # {}
    BY <1>1
  <2>2. conn[k].is = "over"
    BY <1>1, <2>1 DEF ConnOK
  <2> QED
    BY <1>1, <2>2 DEF ConnOK, Unused
<1>7. ConnOK' /\ Talks'
  <2>1. \A c \in K : conn[c] \in Connections /\ ends[c] \in SUBSET BBS
    BY <1>1, <1>6 DEF ConnOK
  <2>2. \A j \in Conn \ K : \A m \in BBS : bbs'[m].session[j] = bbs[m].session[j]
    BY <1>3, <1>5
  <2>3. \A j \in Conn \ K : conn[j] # Unused => End(j) \subseteq BBS
    BY <1>1 DEF ConnOK, Connections, End
  <2>4. K \in SUBSET Conn
    OBVIOUS
  <2> HIDE DEF ends, K
  <2> QED
    BY <1>1, <1>5, <2>1, <2>2, <2>3, <2>4, EndsInv
<1>8. SavedThere'
  <2>1. \A m \in BBS : \A i \in DOMAIN bbs'[m].msg : \A p \in bbs'[m].msg[i].forw :
           i \in DOMAIN bbs[m].msg /\ p \in bbs[m].msg[i].forw
    BY <1>3, <1>5
  <2> QED
    BY <1>1, <1>5, <2>1, SavedKept
<1> QED
  BY <1>1, <1>5, <1>7, <1>8 DEF Inv

LEMMA CrashInv ==
  ASSUME Inv, NEW n \in BBS, Crash(n)
  PROVE  Inv'
<1> DEFINE s == bbs[n]
           t == Started(n, s.saved)
           K == {k \in Conn : conn[k] # Unused /\ n \in End(k)}
           Left(k) == CASE conn[k].is = "over"    -> told[k] \ {n}
                        [] conn[k].is = "calling" -> {conn[k].from} \ {n}
                        [] OTHER                  -> End(k) \ {n}
           ends == [k \in K |-> Left(k)]
<1>1. BoxesGood /\ ConnOK /\ SavedThere /\ bbs' = [bbs EXCEPT ![n] = t]
      /\ Ends(K, ends) /\ posted' = posted /\ trouble' \in 0 .. MaxTrouble
  <2>1. trouble' \in 0 .. MaxTrouble
    BY NetAssumption DEF Inv, Crash, Trouble
  <2> QED
    BY <2>1 DEF Inv, Crash
<1>2. Good(s) /\ s \in State /\ s.saved \in Seq(Message) /\ s.msg \in Seq(Message) /\ Kept(s)
  BY <1>1 DEF BoxesGood, Good, State
<1>3. /\ Good(t) /\ t.me = n /\ t.out = Fresh(n).out /\ t.shut = {}
      /\ Len(t.msg) = Len(s.saved) /\ DOMAIN t.msg = DOMAIN s.saved
      /\ \A i \in DOMAIN s.saved : /\ t.msg[i].bid = s.saved[i].bid /\ t.msg[i].restarted = s.saved[i].restarted
                                   /\ t.msg[i].forw = s.saved[i].forw
  BY <1>2, StartedGood
<1>4. Grown(s, t) /\ DOMAIN t.msg = DOMAIN s.msg /\ \A i \in DOMAIN s.msg : t.msg[i].forw \subseteq s.msg[i].forw
  <2>1. Len(s.msg) \in Nat /\ DOMAIN s.msg = 1 .. Len(s.msg) /\ DOMAIN s.saved = 1 .. Len(s.saved)
    BY <1>2
  <2> HIDE DEF t
  <2> QED
    BY <1>2, <1>3, <2>1 DEF Kept, Grown
<1> HIDE DEF t
<1>5. BoxesGood' /\ bbs'[n] = t /\ (\A m \in BBS \ {n} : bbs'[m] = bbs[m])
      /\ \A m \in BBS : Grown(bbs[m], bbs'[m])
  <2>1. Grown(bbs[n], t)
    BY <1>4
  <2> HIDE DEF s
  <2> QED
    BY <1>1, <1>3, <2>1, OneBBS
<1>6. ConnOK' /\ Talks'
  <2>1. ASSUME NEW k \in K
        PROVE  conn[k] \in Connections /\ ends[k] \in SUBSET BBS
    <3>1. conn[k] \in Connections /\ told[k] \in SUBSET BBS
      BY <1>1 DEF ConnOK
    <3>2. End(k) \in SUBSET BBS /\ {conn[k].from} \in SUBSET BBS
      BY <3>1 DEF End, Connections
    <3> QED
      BY <3>1, <3>2
  <2>2. ASSUME NEW j \in Conn \ K, conn[j] # Unused
        PROVE  \A m \in End(j) : bbs'[m].session[j] = bbs[m].session[j]
    <3>1. n \notin End(j)
      BY <2>2
    <3>2. End(j) \subseteq BBS
      BY <1>1, <2>2 DEF ConnOK, Connections, End
    <3> QED
      BY <1>5, <3>1, <3>2
  <2>3. K \in SUBSET Conn
    OBVIOUS
  <2> HIDE DEF ends, K
  <2> QED
    BY <1>1, <1>5, <2>1, <2>2, <2>3, EndsInv
<1>7. SavedThere'
  <2>1. \A m \in BBS : \A i \in DOMAIN bbs'[m].msg : \A p \in bbs'[m].msg[i].forw :
           i \in DOMAIN bbs[m].msg /\ p \in bbs[m].msg[i].forw
    BY <1>3, <1>4, <1>5
  <2> QED
    BY <1>1, <1>5, <2>1, SavedKept
<1> QED
  BY <1>1, <1>5, <1>6, <1>7 DEF Inv

\* A BBS that takes up a session, with the flag of its partner.
LEMMA SetSessionGood ==
  ASSUME NEW s, Good(s), NEW t \in State, NEW k \in Conn, Fits(s, t.session[k]),
         \A j \in Conn \ {k} : t.session[j] = s.session[j], t.msg = s.msg, t.saved = s.saved
  PROVE  Good(t) /\ Grown(s, t)
<1>1. s \in State
  BY DEF Good
<1>2. Kept(t)
  BY DEF Good, Kept
<1>3. ASSUME NEW j \in Conn
      PROVE  Fits(t, t.session[j])
  <2>1. Fits(s, s.session[j])
    BY DEF Good
  <2> QED
    BY <2>1 DEF Fits
<1>4. Grown(s, t)
  BY <1>1, GrownReflexive DEF Grown
<1> QED
  BY <1>2, <1>3, <1>4 DEF Good

LEMMA FreeMin ==
  ASSUME Free # {}
  PROVE  Min(Free) \in Free
<1>1. Free \subseteq 1 .. MaxConn
  BY DEF Free, Conn
<1>2. \E x \in Free : \A y \in Free : x <= y
  <2>1. MaxConn \in Nat /\ \A x \in 1 .. MaxConn : x \in Nat
    BY BlockAssumption
  <2> QED
    BY <1>1, <2>1, NatLeast
<1> QED
  BY <1>2 DEF Min

LEMMA CallInv ==
  ASSUME Inv, NEW n \in BBS, NEW p \in BBS, Call(n, p)
  PROVE  Inv'
<1> DEFINE s == bbs[n]
<1>1. /\ BoxesGood /\ ConnOK /\ Talks /\ SavedThere /\ n # p
      /\ wire' = wire /\ told' = told /\ posted' = posted /\ trouble' \in 0 .. MaxTrouble
      /\ posted \subseteq Bid
  <2>1. trouble' \in 0 .. MaxTrouble
    BY NetAssumption DEF Inv, Call, Trouble
  <2> QED
    BY <2>1, NetAssumption DEF Inv, Call
<1>2. PICK k \in Free :
         /\ conn' = [conn EXCEPT ![k] = [is |-> "calling", from |-> n, to |-> p]]
         /\ bbs' = [bbs EXCEPT ![n] = [@ EXCEPT !.Forwarding[p] = TRUE,
                                                !.session[k] = Session(p, TRUE)]]
  <2>1. Min(Free) \in Free
    BY FreeMin DEF Call
  <2> QED
    BY <2>1 DEF Call
<1> DEFINE t == [s EXCEPT !.Forwarding[p] = TRUE, !.session[k] = Session(p, TRUE)]
<1>3. Good(s) /\ s \in State /\ s.me = n /\ s.out = Fresh(n).out /\ s.shut = {} /\ k \in Conn
      /\ conn[k] = Unused
  BY <1>1 DEF BoxesGood, Good, Free
<1>4. bbs' = [bbs EXCEPT ![n] = t]
  BY <1>2
<1>5. /\ t \in State /\ t.me = n /\ t.msg = s.msg /\ t.saved = s.saved /\ t.out = s.out /\ t.shut = {}
      /\ t.session = [s.session EXCEPT ![k] = Session(p, TRUE)]
  BY <1>3, SessionType DEF State
<1> HIDE DEF t
<1>6. /\ Good(t) /\ Grown(s, t) /\ t.session[k] = Session(p, TRUE)
      /\ \A j \in Conn \ {k} : t.session[j] = s.session[j]
  <2>1. t.session[k] = Session(p, TRUE) /\ \A j \in Conn \ {k} : t.session[j] = s.session[j]
    BY <1>3, <1>5 DEF State
  <2>2. Len(s.msg) \in Nat
    BY <1>3 DEF State
  <2>3. Fits(s, t.session[k])
    BY <2>1, <2>2, SessionType
  <2> QED
    BY <1>3, <1>5, <2>1, <2>3, SetSessionGood
<1>7. BoxesGood' /\ bbs'[n] = t /\ (\A m \in BBS \ {n} : bbs'[m] = bbs[m])
      /\ \A m \in BBS : Grown(bbs[m], bbs'[m])
  BY <1>1, <1>3, <1>4, <1>5, <1>6, OneBBS
<1>8. \A j \in Conn \ {k} : conn'[j] = conn[j] /\ \A m \in BBS : bbs'[m].session[j] = bbs[m].session[j]
  BY <1>1, <1>2, <1>6, <1>7 DEF ConnOK
<1> DEFINE c == [is |-> "calling", from |-> n, to |-> p]
<1>9. conn'[k] = c /\ c \in Connections /\ c.is = "calling" /\ c.from = n /\ c.to = p
      /\ conn' = [conn EXCEPT ![k] = c]
  BY <1>1, <1>2, <1>3 DEF ConnOK, Connections
<1> HIDE DEF c
<1>10. ConnOK'
  <2>1. conn' \in [Conn -> {Unused} \cup Connections]
    BY <1>1, <1>9 DEF ConnOK
  <2>2. SUFFICES ASSUME NEW j \in Conn
                 PROVE  /\ conn'[j] # Unused => conn'[j].from # conn'[j].to
                        /\ told[j] # {} => conn'[j].is = "over"
                        /\ conn'[j].is # "open" => wire[j] = Silence
                        /\ conn'[j].is = "calling" =>
                              bbs'[conn'[j].from].session[j] = Session(conn'[j].to, TRUE)
    BY <1>1, <2>1 DEF ConnOK
  <2>3. CASE j = k
    <3>1. told[k] = {} /\ wire[k] = Silence
      <4>1. conn[k].is = "unused"
        BY <1>3 DEF Unused
      <4> QED
        BY <1>1, <1>3, <4>1 DEF ConnOK
    <3> QED
      BY <1>1, <1>6, <1>7, <1>9, <2>3, <3>1
  <2>4. CASE j # k
    <3>1. conn[j].is = "calling" => conn[j].from \in BBS
      BY <1>1 DEF ConnOK, Connections, Unused
    <3>2. /\ conn[j] # Unused => conn[j].from # conn[j].to
          /\ told[j] # {} => conn[j].is = "over"
          /\ conn[j].is # "open" => wire[j] = Silence
          /\ conn[j].is = "calling" => bbs[conn[j].from].session[j] = Session(conn[j].to, TRUE)
      BY <1>1 DEF ConnOK
    <3>3. conn'[j] = conn[j] /\ \A q \in BBS : bbs'[q].session[j] = bbs[q].session[j]
      BY <1>8, <2>4
    <3> QED
      BY <3>1, <3>2, <3>3
  <2> QED
    BY <2>3, <2>4
<1>11. Talks'
  <2>1. SUFFICES ASSUME NEW j \in Conn, conn'[j].is = "open"
                 PROVE  Talk(j)'
    BY DEF Talks, Open
  <2>2. j # k
    BY <1>9, <2>1
  <2>3. conn[j] \in Connections /\ Talk(j) /\ conn'[j] = conn[j] /\ wire'[j] = wire[j]
    BY <1>1, <1>8, <2>1, <2>2 DEF ConnOK, Talks, Open, Unused
  <2>4. End(j) \subseteq BBS
    BY <2>3 DEF End, Connections
  <2> QED
    BY <1>1, <1>7, <1>8, <2>2, <2>3, <2>4, TalkKept
<1>12. SavedThere'
  <2>1. \A m \in BBS : \A i \in DOMAIN bbs'[m].msg : \A q \in bbs'[m].msg[i].forw :
           i \in DOMAIN bbs[m].msg /\ q \in bbs[m].msg[i].forw
    BY <1>5, <1>7
  <2> QED
    BY <1>1, <1>7, <2>1, SavedKept
<1> QED
  BY <1>1, <1>7, <1>10, <1>11, <1>12 DEF Inv

LEMMA ConnectOkInv ==
  ASSUME Inv, NEW k \in Conn, ConnectOk(k)
  PROVE  Inv'
<1> DEFINE n == conn[k].to
           p == conn[k].from
           s == bbs[n]
           t == [s EXCEPT !.session[k] = Session(p, FALSE)]
           c == [conn[k] EXCEPT !.is = "open"]
           w == << Line("prompt") >>
<1>1. /\ BoxesGood /\ ConnOK /\ Talks /\ SavedThere /\ conn[k].is = "calling"
      /\ conn' = [conn EXCEPT ![k] = c] /\ wire' = [wire EXCEPT ![k] = [@ EXCEPT ![p] = w]]
      /\ bbs' = [bbs EXCEPT ![n].session[k] = Session(p, FALSE)]
      /\ told' = told /\ posted' = posted /\ trouble' = trouble
      /\ posted \subseteq Bid /\ trouble \in 0 .. MaxTrouble
  BY DEF Inv, ConnectOk
<1>2. conn[k] \in Connections /\ n \in BBS /\ p \in BBS /\ n # p
      /\ bbs[p].session[k] = Session(n, TRUE) /\ wire[k] = Silence /\ told[k] = {}
  <2>1. conn[k] \in Connections /\ conn[k] # Unused
    BY <1>1 DEF ConnOK, Unused
  <2> QED
    BY <1>1, <2>1 DEF ConnOK, Connections
<1>3. Good(s) /\ s \in State /\ s.me = n /\ s.out = Fresh(n).out /\ s.shut = {}
  BY <1>1, <1>2 DEF BoxesGood, Good
<1>4. bbs' = [bbs EXCEPT ![n] = t]
  BY <1>1
<1>5. /\ t \in State /\ t.me = n /\ t.msg = s.msg /\ t.saved = s.saved /\ t.out = s.out /\ t.shut = {}
      /\ t.session = [s.session EXCEPT ![k] = Session(p, FALSE)]
  <2> HIDE DEF n, p
  <2> QED
    BY <1>2, <1>3, SessionType DEF State
<1> HIDE DEF n, p, t
<1>6. /\ Good(t) /\ Grown(s, t) /\ t.session[k] = Session(p, FALSE)
      /\ \A j \in Conn \ {k} : t.session[j] = s.session[j]
  <2>1. t.session[k] = Session(p, FALSE) /\ \A j \in Conn \ {k} : t.session[j] = s.session[j]
    BY <1>3, <1>5 DEF State
  <2>2. Len(s.msg) \in Nat
    BY <1>3 DEF State
  <2>3. Fits(s, t.session[k])
    BY <2>1, <2>2, SessionType
  <2> QED
    BY <1>3, <1>5, <2>1, <2>3, SetSessionGood
<1>7. BoxesGood' /\ bbs'[n] = t /\ (\A m \in BBS \ {n} : bbs'[m] = bbs[m])
      /\ \A m \in BBS : Grown(bbs[m], bbs'[m])
  <2>1. t.me = n /\ t.out = Fresh(n).out /\ t.shut = {}
    BY <1>3, <1>5
  <2>2. Good(t) /\ Grown(bbs[n], t) /\ n \in BBS
    BY <1>2, <1>6
  <2> HIDE DEF s
  <2> QED
    BY <1>1, <1>4, <2>1, <2>2, OneBBS
<1>8. c \in Connections /\ c.is = "open" /\ c.from = p /\ c.to = n
  BY <1>2 DEF Connections, n, p
<1>9. w \in Seq(Lines)
  BY DEF Line, Lines
<1> HIDE DEF c, w
<1>10. /\ conn'[k] = c /\ wire'[k] = [Silence EXCEPT ![p] = w]
       /\ wire'[k][p] = w /\ \A m \in BBS \ {p} : wire'[k][m] = << >>
  <2>1. conn'[k] = c /\ wire'[k] = [Silence EXCEPT ![p] = w]
    BY <1>1, <1>2 DEF ConnOK
  <2> QED
    BY <1>2, <2>1 DEF Silence
<1>11. \A j \in Conn \ {k} : /\ conn'[j] = conn[j] /\ wire'[j] = wire[j]
                             /\ \A m \in BBS : bbs'[m].session[j] = bbs[m].session[j]
  BY <1>1, <1>6, <1>7 DEF ConnOK
<1>12. ConnOK'
  <2>1. conn' \in [Conn -> {Unused} \cup Connections]
    BY <1>1, <1>8 DEF ConnOK
  <2>2. wire' \in [Conn -> [BBS -> Seq(Lines)]]
    BY <1>1, <1>2, <1>9 DEF ConnOK
  <2>3. SUFFICES ASSUME NEW j \in Conn
                 PROVE  /\ conn'[j] # Unused => conn'[j].from # conn'[j].to
                        /\ told[j] # {} => conn'[j].is = "over"
                        /\ conn'[j].is # "open" => wire'[j] = Silence
                        /\ conn'[j].is = "calling" =>
                              bbs'[conn'[j].from].session[j] = Session(conn'[j].to, TRUE)
    BY <1>1, <2>1, <2>2 DEF ConnOK
  <2>4. CASE j = k
    BY <1>2, <1>8, <1>10, <2>4
  <2>5. CASE j # k
    <3>1. conn[j].is = "calling" => conn[j].from \in BBS
      BY <1>1 DEF ConnOK, Connections, Unused
    <3>2. /\ conn[j] # Unused => conn[j].from # conn[j].to
          /\ told[j] # {} => conn[j].is = "over"
          /\ conn[j].is # "open" => wire[j] = Silence
          /\ conn[j].is = "calling" => bbs[conn[j].from].session[j] = Session(conn[j].to, TRUE)
      BY <1>1 DEF ConnOK
    <3> QED
      BY <1>11, <2>5, <3>1, <3>2
  <2> QED
    BY <2>4, <2>5
<1>13. Talks'
  <2>1. SUFFICES ASSUME NEW j \in Conn, conn'[j].is = "open"
                 PROVE  Talk(j)'
    BY DEF Talks, Open
  <2>2. CASE j # k
    <3>1. conn[j] \in Connections /\ Talk(j) /\ conn'[j] = conn[j] /\ wire'[j] = wire[j]
      BY <1>1, <1>11, <2>1, <2>2 DEF ConnOK, Talks, Open, Unused
    <3>2. End(j) \subseteq BBS
      BY <3>1 DEF End, Connections
    <3> QED
      BY <1>1, <1>7, <1>11, <2>2, <3>1, <3>2, TalkKept
  <2>3. CASE j = k
    <3>1. bbs'[n].session[k] = Session(p, FALSE) /\ bbs'[p].session[k] = Session(n, TRUE)
      BY <1>2, <1>6, <1>7
    <3>2. \A q : /\ Session(q, TRUE).user = q /\ Session(q, TRUE).Active /\ Idle(Session(q, TRUE))
                 /\ Session(q, FALSE).user = q /\ Session(q, FALSE).Active /\ Idle(Session(q, FALSE))
      BY DEF Session, NoSession, Idle, Waiting
    <3>3. conn'[k].from = p /\ conn'[k].to = n
      BY <1>8, <1>10
    <3>4. wire'[k][p] = w /\ wire'[k][n] = << >> /\ \A m \in BBS \ {p, n} : wire'[k][m] = << >>
      BY <1>2, <1>10
    <3>5. Greeting(bbs'[p].session[k], bbs'[n].session[k], wire'[k][p], wire'[k][n])
      BY <3>1, <3>2, <3>4 DEF Greeting, w
    <3>6. /\ bbs'[p].session[k].user = n /\ bbs'[n].session[k].user = p
          /\ bbs'[p].session[k].Active /\ bbs'[n].session[k].Active
      BY <3>1, <3>2
    <3> QED
      BY <2>3, <3>3, <3>4, <3>5, <3>6, Zenon DEF Talk
  <2> QED
    BY <2>2, <2>3
<1>14. SavedThere'
  <2>1. \A m \in BBS : \A i \in DOMAIN bbs'[m].msg : \A q \in bbs'[m].msg[i].forw :
           i \in DOMAIN bbs[m].msg /\ q \in bbs[m].msg[i].forw
    BY <1>5, <1>7
  <2> QED
    BY <1>1, <1>7, <2>1, SavedKept
<1> QED
  BY <1>1, <1>7, <1>12, <1>13, <1>14 DEF Inv

-----------------------------------------------------------------------------
(* A line of a session.                                                    *)

\* What n, of session k with m, does with the line there is for it: the line makes it s.
ReceiveDoes(k, n, m, s) ==
    /\ conn[k] \in Connections /\ conn[k].is = "open" /\ Talk(k)
    /\ m \in BBS /\ m # n /\ End(k) = {n, m} /\ n \in End(k)
    /\ (conn[k].from = n /\ conn[k].to = m) \/ (conn[k].from = m /\ conn[k].to = n)
    /\ bbs[m].session[k].user = n /\ bbs[n].session[k].user = m
    /\ bbs[m].session[k].Active /\ bbs[n].session[k].Active
    /\ wire[k][m] \in Seq(Lines) /\ wire[k][n] \in Seq(Lines) /\ wire[k][n] # << >>
    /\ Result(k, bbs[m], bbs[n], s, wire[k][m], wire[k][n])
    /\ Good(s) /\ s \in State /\ Moved(bbs[n], s, k, Bids(bbs[m]))
    /\ bbs'[n].msg = s.msg /\ bbs'[n].session = s.session /\ bbs'[n].temp = s.temp
    /\ bbs'[n].saved = s.saved
    /\ BoxesGood' /\ (\A q \in BBS \ {n} : bbs'[q] = bbs[q])
    /\ Grown(s, bbs'[n]) /\ \A q \in BBS : Grown(bbs[q], bbs'[q])
    /\ \A j \in Conn \ {k} : \A q \in BBS : bbs'[q].session[j] = bbs[q].session[j]
    /\ k \in s.shut => Ends({k}, [c \in {k} |-> End(c)])
    /\ k \notin s.shut =>
          /\ told' = told /\ conn' = conn /\ wire' \in [Conn -> [BBS -> Seq(Lines)]]
          /\ wire'[k][n] = Tail(wire[k][n]) /\ wire'[k][m] = wire[k][m] \o s.out[k]
          /\ \A q \in BBS \ {n, m} : wire'[k][q] = << >>
          /\ \A j \in Conn \ {k} : wire'[j] = wire[j]

LEMMA ReceiveStep ==
  ASSUME Inv, NEW k \in Conn, NEW n \in BBS, Receive(k, n)
  PROVE  ReceiveDoes(k, n, Other(k, n), ProcessFBBLine(bbs[n], k, Head(wire[k][n])))
<1> DEFINE m == Other(k, n)
           x == bbs[m]
           y == bbs[n]
           wx == wire[k][m]
           wy == wire[k][n]
           s == ProcessFBBLine(y, k, Head(wy))
           t == [s EXCEPT !.out = Fresh(n).out, !.shut = {}]
<1>1. /\ BoxesGood /\ ConnOK /\ Talks /\ SavedThere /\ posted \subseteq Bid /\ trouble \in 0 .. MaxTrouble
      /\ posted' = posted /\ trouble' = trouble
      /\ conn[k].is = "open" /\ n \in End(k) /\ wy # << >> /\ Commit(k, n, s)
  BY DEF Inv, Receive, Open
<1>2. /\ conn[k] \in Connections /\ conn[k].from # conn[k].to /\ Talk(k)
  <2>1. conn[k] # Unused
    BY <1>1 DEF Unused
  <2> QED
    BY <1>1, <2>1 DEF ConnOK, Talks, Open
<1>3. m \in BBS /\ m # n /\ End(k) = {n, m} /\ (n = conn[k].from <=> m = conn[k].to)
      /\ conn[k].from \in {n, m} /\ conn[k].to \in {n, m}
  BY <1>1, <1>2 DEF Connections, End, Other
<1>4. /\ Good(x) /\ Good(y) /\ x \in State /\ y \in State /\ y.me = n /\ y.out = Fresh(n).out /\ y.shut = {}
      /\ wx \in Seq(Lines) /\ wy \in Seq(Lines)
  BY <1>1, <1>3 DEF BoxesGood, ConnOK, Good
<1>5. /\ x.session[k].user = n /\ y.session[k].user = m /\ x.session[k].Active /\ y.session[k].Active
      /\ \A q \in BBS \ {n, m} : wire[k][q] = << >>
      /\ \/ Greeting(y.session[k], x.session[k], wy, wx)
         \/ Greeting(x.session[k], y.session[k], wx, wy)
         \/ Phase(k, x, y, wx, wy)
         \/ Phase(k, y, x, wy, wx)
  <2>1. CASE n = conn[k].from
    BY <1>2, <1>3, <2>1 DEF Talk
  <2>2. CASE n = conn[k].to
    BY <1>2, <1>3, <2>2 DEF Talk
  <2> QED
    BY <1>1, <2>1, <2>2 DEF End
<1>6. y.out[k] = << >>
  BY <1>4 DEF Fresh
<1> HIDE DEF m, x, y, wx, wy
<1>7. Result(k, x, y, s, wx, wy)
  BY <1>1, <1>3, <1>4, <1>5, <1>6, LineResult
<1>8. Good(s) /\ s \in State /\ Moved(y, s, k, Bids(x))
  BY <1>7 DEF Result, Good
<1> HIDE DEF s
<1>9. /\ t \in State /\ t.me = s.me /\ t.msg = s.msg /\ t.saved = s.saved /\ t.session = s.session
      /\ t.out = Fresh(n).out /\ t.shut = {} /\ t.temp = s.temp
  <2>1. Fresh(n).out \in [Conn -> Seq(Lines)]
    BY FreshGood DEF Good, State
  <2> QED
    BY <1>8, <2>1 DEF State
<1>10. bbs' = [bbs EXCEPT ![n] = t]
  BY <1>1 DEF Commit
<1> HIDE DEF t
<1>11. Good(t) /\ t.me = n /\ Grown(y, t) /\ Grown(s, t)
  <2>1. Grown(y, t) /\ t.me = n
    BY <1>4, <1>8, <1>9 DEF Moved, Grown
  <2>2. Good(t)
    BY <1>8, <1>9 DEF Good, Kept, Fits
  <2>3. Grown(s, t)
    BY <1>8, <1>9, GrownReflexive DEF Grown
  <2> QED
    BY <2>1, <2>2, <2>3
<1>12. BoxesGood' /\ bbs'[n] = t /\ (\A q \in BBS \ {n} : bbs'[q] = bbs[q])
       /\ \A q \in BBS : Grown(bbs[q], bbs'[q])
  <2>1. Grown(bbs[n], t)
    BY <1>11 DEF y
  <2> QED
    BY <1>1, <1>9, <1>10, <1>11, <2>1, OneBBS
<1>13. \A j \in Conn \ {k} : \A q \in BBS : bbs'[q].session[j] = bbs[q].session[j]
  <2>1. \A j \in Conn \ {k} : t.session[j] = y.session[j]
    BY <1>8, <1>9 DEF Moved
  <2> QED
    BY <1>12, <2>1 DEF y
<1>14. ASSUME k \notin s.shut
       PROVE  /\ told' = told /\ conn' = conn /\ wire' \in [Conn -> [BBS -> Seq(Lines)]]
              /\ wire'[k][n] = Tail(wy) /\ wire'[k][m] = wx \o s.out[k]
              /\ \A q \in BBS \ {n, m} : wire'[k][q] = << >>
              /\ \A j \in Conn \ {k} : wire'[j] = wire[j]
  <2> DEFINE w == [wire[k] EXCEPT ![n] = Tail(@), ![m] = @ \o s.out[k]]
  <2>1. wire' = [wire EXCEPT ![k] = w] /\ told' = told /\ conn' = conn
    BY <1>1, <1>14 DEF Commit, m
  <2>2. wire[k] \in [BBS -> Seq(Lines)] /\ wire[k][n] = wy /\ wire[k][m] = wx
    BY <1>1 DEF ConnOK, wx, wy
  <2>3. Tail(wy) \in Seq(Lines) /\ s.out[k] \in Seq(Lines) /\ wx \o s.out[k] \in Seq(Lines)
    <3>1. Tail(wy) \in Seq(Lines) /\ s.out[k] \in Seq(Lines)
      BY <1>1, <1>4, <1>8 DEF State, wy
    <3> QED
      BY <1>4, <3>1
  <2>4. /\ w \in [BBS -> Seq(Lines)] /\ w[n] = Tail(wy) /\ w[m] = wx \o s.out[k]
        /\ \A q \in BBS \ {n, m} : w[q] = << >>
    BY <1>3, <1>5, <2>2, <2>3
  <2> HIDE DEF w
  <2>5. wire'[k] = w /\ (\A j \in Conn \ {k} : wire'[j] = wire[j])
        /\ wire' \in [Conn -> [BBS -> Seq(Lines)]]
    BY <1>1, <2>1, <2>4 DEF ConnOK
  <2> QED
    BY <2>1, <2>4, <2>5
<1>15. k \in s.shut => Ends({k}, [c \in {k} |-> End(c)])
  BY <1>1 DEF Commit
<1>16. (conn[k].from = n /\ conn[k].to = m) \/ (conn[k].from = m /\ conn[k].to = n)
  BY <1>2, <1>3
<1>17. /\ bbs'[n].msg = s.msg /\ bbs'[n].session = s.session /\ bbs'[n].temp = s.temp
       /\ bbs'[n].saved = s.saved /\ Grown(s, bbs'[n])
  BY <1>9, <1>11, <1>12
<1> QED
  BY <1>1, <1>2, <1>3, <1>4, <1>5, <1>7, <1>8, <1>12, <1>13, <1>14, <1>15, <1>16, <1>17, Zenon
     DEF ReceiveDoes, m, x, y, wx, wy, s

LEMMA ReceiveInv ==
  ASSUME Inv, NEW k \in Conn, NEW n \in BBS, Receive(k, n)
  PROVE  Inv'
<1> DEFINE m == Other(k, n)
           s == ProcessFBBLine(bbs[n], k, Head(wire[k][n]))
           x == bbs[m]
           y == bbs[n]
           t == bbs'[n]
           wx == wire[k][m]
           wy == wire[k][n]
<1>1. /\ BoxesGood /\ ConnOK /\ Talks /\ SavedThere /\ posted \subseteq Bid /\ trouble \in 0 .. MaxTrouble
      /\ posted' = posted /\ trouble' = trouble
  BY DEF Inv, Receive
<1>2. ReceiveDoes(k, n, m, s)
  BY ReceiveStep
<1> HIDE DEF m, s
<1>3. /\ conn[k] \in Connections /\ conn[k].is = "open" /\ m \in BBS /\ m # n /\ End(k) = {n, m}
      /\ (conn[k].from = n /\ conn[k].to = m) \/ (conn[k].from = m /\ conn[k].to = n)
      /\ x.session[k].user = n /\ y.session[k].user = m /\ x.session[k].Active /\ y.session[k].Active
  BY <1>2 DEF ReceiveDoes
<1>4. /\ Result(k, x, y, s, wx, wy) /\ s \in State /\ Moved(y, s, k, Bids(x))
      /\ t.msg = s.msg /\ t.session = s.session /\ Grown(s, t)
      /\ BoxesGood' /\ (\A q \in BBS \ {n} : bbs'[q] = bbs[q])
      /\ (\A q \in BBS : Grown(bbs[q], bbs'[q]))
      /\ \A j \in Conn \ {k} : \A q \in BBS : bbs'[q].session[j] = bbs[q].session[j]
  BY <1>2 DEF ReceiveDoes
<1>5. x \in State /\ y \in State /\ t \in State
  BY <1>1, <1>3, <1>4 DEF BoxesGood
<1> HIDE DEF x, y, t, wx, wy
<1>6. SavedThere'
  <2>1. \A i \in DOMAIN t.msg : \A q \in t.msg[i].forw :
           \/ i \in DOMAIN y.msg /\ q \in y.msg[i].forw
           \/ q = m /\ t.msg[i].bid \in Bids(x)
    BY <1>3, <1>4 DEF Moved
  <2>2. \A r \in BBS : \A i \in DOMAIN bbs'[r].msg : \A q \in bbs'[r].msg[i].forw :
           \/ i \in DOMAIN bbs[r].msg /\ q \in bbs[r].msg[i].forw
           \/ bbs'[r].msg[i].bid \in Bids(bbs[q])
    BY <1>4, <2>1 DEF x, y, t
  <2> QED
    BY <1>1, <1>4, <2>2, SavedKept
<1>7. CASE k \in s.shut
  <2> DEFINE ends == [c \in {k} |-> End(c)]
             K == {k}
  <2>1. \A c \in K : conn[c] \in Connections /\ ends[c] \in SUBSET BBS
    BY <1>3
  <2>2. Ends(K, ends) /\ K \in SUBSET Conn
    BY <1>2, <1>7 DEF ReceiveDoes
  <2>3. \A j \in Conn \ K : conn[j] # Unused => End(j) \subseteq BBS
    BY <1>1 DEF ConnOK, Connections, End
  <2>4. \A j \in Conn \ K : conn[j] # Unused => \A q \in End(j) : bbs'[q].session[j] = bbs[q].session[j]
    BY <1>4, <2>3
  <2> HIDE DEF ends, K
  <2>5. ConnOK' /\ Talks'
    BY <1>1, <1>4, <2>1, <2>2, <2>4, EndsInv
  <2> QED
    BY <1>1, <1>4, <1>6, <2>5 DEF Inv
<1>8. CASE k \notin s.shut
  <2>1. /\ told' = told /\ conn' = conn /\ wire' \in [Conn -> [BBS -> Seq(Lines)]]
        /\ wire'[k][n] = Tail(wy) /\ wire'[k][m] = wx \o s.out[k]
        /\ (\A q \in BBS \ {n, m} : wire'[k][q] = << >>)
        /\ \A j \in Conn \ {k} : wire'[j] = wire[j]
    BY <1>2, <1>8 DEF ReceiveDoes, wx, wy
  <2>2. ConnOK'
    <3>1. SUFFICES ASSUME NEW j \in Conn
                   PROVE  /\ conn[j].is # "open" => wire'[j] = Silence
                          /\ conn[j].is = "calling" =>
                                bbs'[conn[j].from].session[j] = Session(conn[j].to, TRUE)
      BY <1>1, <2>1 DEF ConnOK
    <3>2. CASE j = k
      BY <1>3, <3>2
    <3>3. CASE j # k
      <4>1. conn[j].is = "calling" => conn[j].from \in BBS
        BY <1>1 DEF ConnOK, Connections, Unused
      <4>2. /\ conn[j].is # "open" => wire[j] = Silence
            /\ conn[j].is = "calling" => bbs[conn[j].from].session[j] = Session(conn[j].to, TRUE)
        BY <1>1 DEF ConnOK
      <4> QED
        BY <1>4, <2>1, <3>3, <4>1, <4>2
    <3> QED
      BY <3>2, <3>3
  <2>3. Talks'
    <3>1. SUFFICES ASSUME NEW j \in Conn, conn[j].is = "open"
                   PROVE  Talk(j)'
      BY <2>1 DEF Talks, Open
    <3>2. CASE j # k
      <4>1. conn[j] \in Connections /\ Talk(j) /\ conn'[j] = conn[j] /\ wire'[j] = wire[j]
        BY <1>1, <2>1, <3>1, <3>2 DEF ConnOK, Talks, Open, Unused
      <4>2. End(j) \subseteq BBS
        BY <4>1 DEF End, Connections
      <4> QED
        BY <1>1, <1>4, <3>2, <4>1, <4>2, TalkKept
    <3>3. CASE j = k
      <4>1. bbs'[m] = x /\ bbs'[n] = t
        BY <1>3, <1>4 DEF x, t
      <4>2. t.session[k].user = m /\ t.session[k].Active /\ x.session[k].user = n /\ x.session[k].Active
        BY <1>3, <1>4 DEF Moved
      <4>3. \/ Phase(k, x, s, wx \o s.out[k], Tail(wy))
            \/ Phase(k, s, x, Tail(wy), wx \o s.out[k])
        BY <1>4, <1>8 DEF Result
      <4>4. Grown(x, x)
        BY <1>5, GrownReflexive
      <4>5. ASSUME Phase(k, x, s, wx \o s.out[k], Tail(wy))
            PROVE  Phase(k, x, t, wx \o s.out[k], Tail(wy))
        BY <1>4, <1>5, <4>4, <4>5, PhaseKept
      <4>6. ASSUME Phase(k, s, x, Tail(wy), wx \o s.out[k])
            PROVE  Phase(k, t, x, Tail(wy), wx \o s.out[k])
        BY <1>4, <1>5, <4>4, <4>6, PhaseKept
      <4>7. Phase(k, x, t, wire'[k][m], wire'[k][n]) \/ Phase(k, t, x, wire'[k][n], wire'[k][m])
        BY <2>1, <4>3, <4>5, <4>6
      <4>8. CASE conn[k].from = n /\ conn[k].to = m
        BY <2>1, <3>3, <4>1, <4>2, <4>7, <4>8, Zenon DEF Talk
      <4>9. CASE conn[k].from = m /\ conn[k].to = n
        <5>1. BBS \ {m, n} = BBS \ {n, m}
          OBVIOUS
        <5> QED
          BY <2>1, <3>3, <4>1, <4>2, <4>7, <4>9, <5>1, Zenon DEF Talk
      <4> QED
        BY <1>3, <4>8, <4>9
    <3> QED
      BY <3>2, <3>3
  <2> QED
    BY <1>1, <1>4, <1>6, <2>2, <2>3 DEF Inv
<1> QED
  BY <1>7, <1>8

-----------------------------------------------------------------------------
(* The invariant, and what follows from it.                                *)

\* What every BBS keeps is well formed, the ends of a session agree on the place of
\* their dialogue, and a message marked as passed on is at the partner: so it is
\* from the start and after every step, with any BBSs, messages, routes and bounds.
THEOREM Invariance == Spec => []Inv
<1>1. Init => Inv
  BY InitInv
<1>2. Inv /\ [Next]_vars => Inv'
  <2> SUFFICES ASSUME Inv, [Next]_vars PROVE Inv'
    OBVIOUS
  <2>1. ASSUME NEW b \in Bid, Post(b) PROVE Inv'
    BY <2>1, PostInv
  <2>2. ASSUME NEW n \in BBS, NEW p \in BBS, Call(n, p) PROVE Inv'
    BY <2>2, CallInv
  <2>3. ASSUME NEW k \in Conn, ConnectOk(k) PROVE Inv'
    BY <2>3, ConnectOkInv
  <2>4. ASSUME NEW k \in Conn, NEW n \in BBS, Receive(k, n) PROVE Inv'
    BY <2>4, ReceiveInv
  <2>5. ASSUME NEW k \in Conn, NEW n \in BBS, BBSDisconnected(k, n) PROVE Inv'
    BY <2>5, BBSDisconnectedInv
  <2>6. ASSUME NEW k \in Conn, ConnectFails(k) PROVE Inv'
    BY <2>6, ConnectFailsInv
  <2>7. ASSUME NEW k \in Conn, Break(k) PROVE Inv'
    BY <2>7, BreakInv
  <2>8. ASSUME NEW n \in BBS, Crash(n) PROVE Inv'
    BY <2>8, CrashInv
  <2>9. CASE UNCHANGED vars
    <3>1. bbs' = bbs /\ conn' = conn /\ wire' = wire /\ told' = told /\ posted' = posted /\ trouble' = trouble
      BY <2>9 DEF vars
    <3>2. \A k : Talk(k)' = Talk(k)
      BY <3>1 DEF Talk
    <3>3. Talks' = Talks
      BY <3>1, <3>2 DEF Talks, Open
    <3>4. ConnOK' = ConnOK
      BY <3>1 DEF ConnOK
    <3> QED
      BY <3>1, <3>3, <3>4 DEF Inv, BoxesGood, SavedThere
  <2> QED
    BY <2>1, <2>2, <2>3, <2>4, <2>5, <2>6, <2>7, <2>8, <2>9 DEF Next, Calling, Proceeds
<1> QED
  BY <1>1, <1>2, PTL DEF Spec

\* All that is sent for a block of answers are texts.
LEMMA FollowsTexts ==
  ASSUME NEW T \in Seq(Lines), NEW W \in Seq(Bid), NEW len, Follows(T, W, len)
  PROVE  \A j \in DOMAIN T : T[j].kind = "text"
<1> DEFINE m == Len(W)
<1>1. PICK q \in [0 .. m -> 0 .. Len(T)] :
        /\ q[0] = 0 /\ q[m] = Len(T)
        /\ \A i \in 1 .. m :
              /\ q[i] = q[i - 1] + 1 \/ q[i] = q[i - 1] + 2
              /\ T[q[i]] = Text(W[i], 1, 2)
              /\ q[i] = q[i - 1] + 2 => T[q[i] - 1] = Text(W[i], 0, 1)
  BY DEF Follows, Laid
<1>2. m \in Nat /\ Len(T) \in Nat /\ DOMAIN T = 1 .. Len(T)
  OBVIOUS
<1> HIDE DEF m
<1> DEFINE S == {i \in Nat : i <= m => \A j \in 1 .. q[i] : T[j].kind = "text"}
<1>3. 0 \in S
  BY <1>1
<1>4. ASSUME NEW i \in S
      PROVE  i + 1 \in S
  <2>1. SUFFICES ASSUME i + 1 <= m, NEW j \in 1 .. q[i + 1]
                 PROVE  T[j].kind = "text"
    OBVIOUS
  <2>2. i \in 0 .. m /\ i + 1 \in 1 .. m /\ (i + 1) - 1 = i /\ i <= m
    BY <1>2, <2>1
  <2>3. q[i] \in Nat /\ q[i + 1] \in Nat /\ j \in Nat
    <3>1. q[i] \in Nat /\ q[i + 1] \in Nat
      BY <1>1, <1>2, <2>2
    <3> QED
      BY <2>1, <3>1
  <2>4. /\ q[i + 1] = q[i] + 1 \/ q[i + 1] = q[i] + 2
        /\ T[q[i + 1]] = Text(W[i + 1], 1, 2)
        /\ q[i + 1] = q[i] + 2 => T[q[i + 1] - 1] = Text(W[i + 1], 0, 1)
    BY <1>1, <2>2
  <2>5. j \in 1 .. q[i] \/ j = q[i + 1] \/ (q[i + 1] = q[i] + 2 /\ j = q[i + 1] - 1)
    <3> DEFINE c == q[i]
               d == q[i + 1]
    <3>1. c \in Nat /\ d \in Nat /\ j \in 1 .. d /\ (d = c + 1 \/ d = c + 2)
      BY <2>1, <2>3, <2>4
    <3> HIDE DEF c, d
    <3>2. j \in 1 .. c \/ j = d \/ (d = c + 2 /\ j = d - 1)
      BY <3>1
    <3> QED
      BY <3>2 DEF c, d
  <2>6. \A j_1 \in 1 .. q[i] : T[j_1].kind = "text"
    BY <2>2
  <2>7. \A b, f, u : Text(b, f, u).kind = "text"
    BY DEF Text
  <2> QED
    BY <2>4, <2>5, <2>6, <2>7
<1>5. m \in S
  <2>1. S \in SUBSET Nat
    OBVIOUS
  <2> HIDE DEF S
  <2> QED
    BY <1>2, <1>3, <1>4, <2>1, NatInductionOnSet
<1> QED
  BY <1>1, <1>2, <1>5

\* The lines on their way to an end, by the place of the dialogue.
LEMMA LinesOfSession ==
  ASSUME Inv, NEW k \in Conn, NEW n \in BBS, wire[k][n] # << >>
  PROVE  /\ k \in Open /\ n \in End(k) /\ Other(k, n) \in BBS
         /\ LET x == bbs[Other(k, n)]
                y == bbs[n]
                wx == wire[k][Other(k, n)]
                wy == wire[k][n]
            IN  \/ Greeting(y.session[k], x.session[k], wy, wx)
                \/ Turn(k, x, y, wx, wy)
                \/ Answered(k, y, x, wy, wx)
                \/ Sending(k, x, y, wx, wy)
<1> DEFINE m == Other(k, n)
           x == bbs[m]
           y == bbs[n]
           wx == wire[k][m]
           wy == wire[k][n]
<1>1. ConnOK /\ Talks
  BY DEF Inv
<1>2. conn[k].is = "open"
  BY <1>1 DEF ConnOK, Silence
<1>3. k \in Open /\ conn[k] \in Connections /\ Talk(k)
  <2>1. conn[k] # Unused
    BY <1>2 DEF Unused
  <2> QED
    BY <1>1, <1>2, <2>1 DEF ConnOK, Talks, Open
<1>4. n \in End(k)
  BY <1>3 DEF Talk, End
<1>5. m \in BBS /\ (n = conn[k].from => m = conn[k].to) /\ (n # conn[k].from => n = conn[k].to /\ m = conn[k].from)
  BY <1>3, <1>4 DEF Connections, End, Other
<1>6. \/ Greeting(y.session[k], x.session[k], wy, wx)
      \/ Greeting(x.session[k], y.session[k], wx, wy)
      \/ Phase(k, x, y, wx, wy)
      \/ Phase(k, y, x, wy, wx)
  <2> HIDE DEF m
  <2>1. CASE n = conn[k].from
    BY <1>3, <1>5, <2>1 DEF Talk
  <2>2. CASE n # conn[k].from
    BY <1>3, <1>5, <2>2 DEF Talk
  <2> QED
    BY <2>1, <2>2
<1> HIDE DEF m
<1>7. \/ Greeting(y.session[k], x.session[k], wy, wx)
      \/ Turn(k, x, y, wx, wy)
      \/ Answered(k, y, x, wy, wx)
      \/ Sending(k, x, y, wx, wy)
  <2> HIDE DEF x, y
  <2> QED
    BY <1>6 DEF Greeting, Phase, Turn, Answered, Sending
<1> QED
  BY <1>3, <1>4, <1>5, <1>7 DEF m

LEMMA OfferedLength ==
  ASSUME NEW s, NEW e, e.hdr \in Seq(Nat)
  PROVE  Len(Offered(s, e)) = Len(e.hdr)
<1>1. Offered(s, e) = [i \in 1 .. Len(e.hdr) |-> s.msg[e.hdr[i]].bid]
  BY DEF Offered
<1> QED
  BY <1>1

\* The types of all that BBSs keep and send, with the bounds of a block, and an answer
\* for each proposal that waits for one, whatever is lost, broken or started again.
THEOREM TypeCorrect == Spec => []TypeOK
<1>1. Inv => TypeOK
  <2> SUFFICES ASSUME Inv PROVE TypeOK
    OBVIOUS
  <2>1. BoxesGood /\ ConnOK /\ posted \subseteq Bid /\ trouble \in 0 .. MaxTrouble
    BY DEF Inv
  <2>2. ASSUME NEW k \in Conn, NEW n \in BBS, NEW i \in DOMAIN wire[k][n], wire[k][n][i].kind = "FS"
        PROVE  Len(wire[k][n][i].answers) = Len(bbs[n].session[k].hdr)
    <3> DEFINE m == Other(k, n)
               x == bbs[m]
               y == bbs[n]
               wx == wire[k][m]
               wy == wire[k][n]
    <3>1. wy \in Seq(Lines) /\ i \in 1 .. Len(wy) /\ wy # << >>
      BY <2>1, <2>2 DEF ConnOK
    <3>2. /\ m \in BBS
          /\ \/ Greeting(y.session[k], x.session[k], wy, wx)
             \/ Turn(k, x, y, wx, wy)
             \/ Answered(k, y, x, wy, wx)
             \/ Sending(k, x, y, wx, wy)
      BY <3>1, LinesOfSession
    <3>3. y \in State /\ y.session[k].hdr \in Seq(Nat) /\ y.session[k].want \in Seq(Bid)
      <4>1. y \in State /\ y.session[k] \in Sessions
        BY <2>1 DEF BoxesGood, State
      <4> HIDE DEF y
      <4> QED
        BY <4>1 DEF Sessions
    <3>4. wy[i].kind = "FS"
      BY <2>2
    <3> HIDE DEF m, wx, wy, x, y
    <3>5. CASE Greeting(y.session[k], x.session[k], wy, wx)
      <4>1. wy = << Line("prompt") >> /\ i = 1
        BY <3>1, <3>5 DEF Greeting
      <4> QED
        BY <3>4, <4>1 DEF Line
    <3>6. CASE Turn(k, x, y, wx, wy)
      <4>1. i = Len(wy) \/ (i = 1 /\ wy[1] = Line("SID"))
        BY <3>1, <3>6 DEF Turn
      <4> QED
        BY <3>4, <3>6, <4>1 DEF Turn, Offer, Line
    <3>7. CASE Answered(k, y, x, wy, wx)
      <4>1. i = 1
        <5>1. i = 1 \/ (i = 2 /\ Offer(x, x.session[k], wy[2]))
          <6>1. Len(wy) = 1 \/ (Len(wy) = 2 /\ Offer(x, x.session[k], wy[2]))
            BY <3>7 DEF Answered
          <6>2. CASE Len(wy) = 1
            BY <3>1, <6>2
          <6>3. CASE Len(wy) = 2 /\ Offer(x, x.session[k], wy[2])
            <7>1. i \in 1 .. 2
              BY <3>1, <6>3
            <7> QED
              BY <6>3, <7>1
          <6> QED
            BY <6>1, <6>2, <6>3
        <5> QED
          BY <3>4, <5>1 DEF Offer
      <4>2. Len(wy[1].answers) = Len(Offered(y, y.session[k]))
        BY <3>7 DEF Answered, Replied
      <4>3. Len(Offered(y, y.session[k])) = Len(y.session[k].hdr)
        BY <3>3, OfferedLength
      <4> QED
        BY <4>1, <4>2, <4>3 DEF wy, y
    <3>8. CASE Sending(k, x, y, wx, wy)
      <4>1. Follows(wy, y.session[k].want, y.session[k].length)
        BY <3>8 DEF Sending
      <4>2. \A j \in DOMAIN wy : wy[j].kind = "text"
        BY <3>1, <3>3, <4>1, FollowsTexts
      <4> QED
        BY <3>1, <3>4, <4>2
    <3> QED
      BY <3>2, <3>5, <3>6, <3>7, <3>8
  <2> QED
    BY <2>1, <2>2 DEF TypeOK, BoxesGood, ConnOK, Good, Fits, Connections
<1> QED
  BY <1>1, Invariance, PTL

\* A BBS puts each part of a message to the header it belongs to, and after the part
\* it has: what is on its way has its header, in order, in every dialogue.
THEOREM TextsMatch == Spec => []TextsMatchHeaders
<1>1. Inv => TextsMatchHeaders
  <2> SUFFICES ASSUME Inv, NEW k \in Open, NEW n \in End(k), NEW i \in DOMAIN wire[k][n],
                      IsText(wire[k][n][i])
               PROVE  LET l == wire[k][n][i]
                          e == bbs[n].session[k]
                      IN  /\ e.want # << >>
                          /\ (\A j \in 1 .. i - 1 : ~IsText(wire[k][n][j])) =>
                                l.bid = Head(e.want) /\ (e.length # 0 => l.from = e.length)
    BY DEF TextsMatchHeaders
  <2> DEFINE m == Other(k, n)
             x == bbs[m]
             y == bbs[n]
             e == y.session[k]
             wx == wire[k][m]
             wy == wire[k][n]
  <2>1. BoxesGood /\ ConnOK /\ k \in Conn /\ n \in BBS
    <3>1. conn[k] \in Connections
      BY DEF Inv, ConnOK, Open, Unused
    <3> QED
      BY <3>1 DEF Inv, Open, End, Connections
  <2>2. wy \in Seq(Lines) /\ i \in 1 .. Len(wy) /\ wy # << >>
    BY <2>1 DEF ConnOK
  <2>3. /\ m \in BBS
        /\ \/ Greeting(y.session[k], x.session[k], wy, wx)
           \/ Turn(k, x, y, wx, wy)
           \/ Answered(k, y, x, wy, wx)
           \/ Sending(k, x, y, wx, wy)
    BY <2>1, <2>2, LinesOfSession
  <2>4. wy[i].kind = "text" /\ e.want \in Seq(Bid)
    <3>1. e \in Sessions
      BY <2>1 DEF BoxesGood, State
    <3> HIDE DEF e
    <3> QED
      BY <3>1 DEF IsText, Sessions
  <2> HIDE DEF m, wx, x, y, wy
  <2>5. Sending(k, x, y, wx, wy)
    <3>1. ~Greeting(y.session[k], x.session[k], wy, wx)
      BY <2>2, <2>4 DEF Greeting, Line
    <3>2. ~Turn(k, x, y, wx, wy)
      BY <2>2, <2>4 DEF Turn, Offer, Line
    <3>3. ~Answered(k, y, x, wy, wx)
      BY <2>2, <2>4 DEF Answered, Offer
    <3> QED
      BY <2>3, <3>1, <3>2, <3>3
  <2>6. Follows(wy, e.want, e.length) /\ e.length \in 0 .. 1
    BY <2>5 DEF Sending, Follows
  <2> HIDE DEF e
  <2>7. /\ e.want # << >>
        /\ wy[1] = Text(e.want[1], 1, 2) \/ (wy[1] = Text(e.want[1], 0, 1) /\ e.length = 0)
    BY <2>2, <2>4, <2>6, FollowsNext
  <2>8. IsText(wy[1]) /\ Head(e.want) = e.want[1]
    BY <2>4, <2>7 DEF IsText, Text
  <2>9. ASSUME \A j \in 1 .. i - 1 : ~IsText(wy[j])
        PROVE  wy[i].bid = Head(e.want) /\ (e.length # 0 => wy[i].from = e.length)
    <3>1. i = 1
      BY <2>2, <2>8, <2>9
    <3> QED
      BY <2>6, <2>7, <2>8, <3>1 DEF Text
  <2> QED
    BY <2>7, <2>9 DEF wy, e, y
<1> QED
  BY <1>1, Invariance, PTL

\* A mark that a partner has a message is made only when the partner has stored it,
\* and it is on file there: no break, crash or new start makes such a mark wrong.
THEOREM SentStays == Spec => []SentIsThere
<1>1. Inv => SentIsThere
  <2> SUFFICES ASSUME Inv, NEW n \in BBS, NEW m \in DOMAIN bbs[n].msg, NEW p \in bbs[n].msg[m].forw
               PROVE  /\ LookupBID(bbs[p], bbs[n].msg[m].bid) # {}
                      /\ \E i \in DOMAIN bbs[p].saved : bbs[p].saved[i].bid = bbs[n].msg[m].bid
    BY DEF SentIsThere
  <2>1. BoxesGood /\ SavedThere
    BY DEF Inv
  <2>2. p \in BBS
    <3>1. bbs[n].msg[m] \in Message
      BY <2>1 DEF BoxesGood, State
    <3> QED
      BY <3>1 DEF Message
  <2>3. PICK i \in DOMAIN bbs[p].msg : bbs[p].msg[i].bid = bbs[n].msg[m].bid
    BY <2>1 DEF SavedThere, Bids
  <2>4. i \in DOMAIN bbs[p].saved /\ bbs[p].saved[i].bid = bbs[p].msg[i].bid
    <3>1. bbs[p] \in State /\ Kept(bbs[p])
      BY <2>1, <2>2 DEF BoxesGood, Good
    <3>2. DOMAIN bbs[p].msg = 1 .. Len(bbs[p].msg) /\ DOMAIN bbs[p].saved = 1 .. Len(bbs[p].saved)
      BY <3>1 DEF State
    <3> QED
      BY <3>1, <3>2 DEF Kept
  <2> QED
    BY <2>3, <2>4 DEF LookupBID
<1> QED
  BY <1>1, Invariance, PTL

-----------------------------------------------------------------------------
(* A bulletin is stored once.                                              *)

\* The messages on their way to n, from their start, in session k.
ArrivingAt(k, n) ==
    Arriving(k, bbs[Other(k, n)], bbs[n], wire[k][Other(k, n)], wire[k][n])

HasCopy(s, b) == \E i \in DOMAIN s.msg : s.msg[i].bid = b /\ s.msg[i].restarted

\* What is on its way to n is noted there, and what it waits for has been posted.  A
\* bulletin that is the next to come is not there yet, but for a copy by a restart.
Fed(k, n) ==
    LET W == bbs[n].session[k].want
    IN  /\ \A b \in ArrivingAt(k, n) : Came(b, k) \in bbs[n].temp /\ b \in posted
        /\ ToSet(W) \subseteq posted
        /\ W # << >> /\ Type[Head(W)] = "B" /\ Head(W) \in ArrivingAt(k, n) =>
              Head(W) \notin Bids(bbs[n]) \/ HasCopy(bbs[n], Head(W))

Apart(j, k, n) == \A b \in ArrivingAt(j, n) : b \notin ArrivingAt(k, n)

OnceInv ==
    /\ \A n \in BBS : Bids(bbs[n]) \subseteq posted
    /\ \A k \in Open : \A n \in End(k) : Fed(k, n)
    /\ \A j, k \in Open : j # k => \A n \in End(j) \cap End(k) : Apart(j, k, n)
    /\ StoredOnce

\* A step leaves session k as it is.
Untouched(k) ==
    /\ k \in Open /\ conn'[k] = conn[k] /\ wire'[k] = wire[k]
    /\ \A n \in End(k) : /\ bbs'[n].session[k] = bbs[n].session[k]
                         /\ \A b \in Bid : Came(b, k) \in bbs[n].temp => Came(b, k) \in bbs'[n].temp

\* A step stores at most one message at n: one that is there by a restart, or that is
\* not there and not on its way in a session other than c.
Adds(n, c) ==
    \/ Len(bbs'[n].msg) = Len(bbs[n].msg)
    \/ /\ Len(bbs'[n].msg) = Len(bbs[n].msg) + 1
       /\ LET m == bbs'[n].msg[Len(bbs'[n].msg)]
          IN  /\ m.bid \in posted'
              /\ \/ m.restarted
                 \/ Type[m.bid] # "B"
                 \/ /\ m.bid \notin Bids(bbs[n]) \/ HasCopy(bbs[n], m.bid)
                    /\ \A k \in Open : k # c /\ n \in End(k) => m.bid \notin ArrivingAt(k, n)

\* The answers on their way are to messages that are there.
LEMMA AnswersAreTo ==
  ASSUME Inv, NEW k \in Conn, NEW m \in BBS, wire[k][m] # << >>, wire[k][m][1].kind = "FS"
  PROVE  ToSet(bbs[m].session[k].hdr) \subseteq DOMAIN bbs[m].msg
<1> DEFINE x == bbs[Other(k, m)]
           y == bbs[m]
           wx == wire[k][Other(k, m)]
           wy == wire[k][m]
<1>1. \/ Greeting(y.session[k], x.session[k], wy, wx)
      \/ Turn(k, x, y, wx, wy)
      \/ Answered(k, y, x, wy, wx)
      \/ Sending(k, x, y, wx, wy)
  BY LinesOfSession
<1>2. wy \in Seq(Lines) /\ wy # << >> /\ wy[1].kind = "FS" /\ y.session[k].want \in Seq(Bid)
  <2>1. wy \in Seq(Lines)
    BY DEF Inv, ConnOK
  <2>2. y \in State
    BY DEF Inv, BoxesGood
  <2> HIDE DEF y
  <2>3. y.session[k].want \in Seq(Bid)
    BY <2>2 DEF State, Sessions
  <2> QED
    BY <2>1, <2>3
<1> HIDE DEF x, y, wx, wy
<1>3. ~Greeting(y.session[k], x.session[k], wy, wx)
  BY <1>2 DEF Greeting, Line
<1>4. ~Turn(k, x, y, wx, wy)
  BY <1>2 DEF Turn, Offer, Line
<1>5. ~Sending(k, x, y, wx, wy)
  <2>1. ASSUME Sending(k, x, y, wx, wy) PROVE FALSE
    <3>1. wy[1] = Text(y.session[k].want[1], 0, 1) \/ wy[1] = Text(y.session[k].want[1], 1, 2)
      BY <1>2, <2>1, FollowsNext DEF Sending
    <3> QED
      BY <1>2, <3>1 DEF Text
  <2> QED
    BY <2>1
<1> QED
  BY <1>1, <1>3, <1>4, <1>5 DEF Answered, y

LEMMA OpenEnds ==
  ASSUME Inv, NEW k \in Open
  PROVE  /\ k \in Conn /\ conn[k] \in Connections /\ End(k) \subseteq BBS
         /\ \A n \in End(k) : Other(k, n) \in End(k)
<1>1. k \in Conn /\ conn[k] \in Connections
  BY DEF Inv, ConnOK, Open, Unused
<1> QED
  BY <1>1 DEF Connections, End, Other

\* What is on its way stays so while nothing of the session is changed.
LEMMA ArrivingKept ==
  ASSUME Inv, BoxesGood', \A n \in BBS : Grown(bbs[n], bbs'[n]),
         NEW k, Untouched(k), NEW n \in End(k)
  PROVE  ArrivingAt(k, n)' = ArrivingAt(k, n)
<1> DEFINE m == Other(k, n)
           x == bbs[m]
           y == bbs[n]
           u == bbs'[m]
           v == bbs'[n]
           wx == wire[k][m]
           wy == wire[k][n]
<1>1. k \in Conn /\ n \in BBS /\ m \in BBS /\ m \in End(k) /\ k \in Open
  BY OpenEnds DEF Untouched
<1>2. Other(k, n)' = m
  BY DEF Untouched, Other
<1>3. u.session[k] = x.session[k] /\ v.session[k] = y.session[k] /\ wire'[k] = wire[k]
  BY <1>1 DEF Untouched
<1>4. wx # << >> /\ wx[1].kind = "FS" => Offered(u, u.session[k]) = Offered(x, x.session[k])
  <2>1. x \in State /\ u \in State /\ Grown(x, u)
    BY <1>1 DEF Inv, BoxesGood
  <2>2. wx # << >> /\ wx[1].kind = "FS" => ToSet(x.session[k].hdr) \subseteq DOMAIN x.msg
    BY <1>1, AnswersAreTo
  <2> HIDE DEF m, x, u, wx
  <2> QED
    BY <1>3, <2>1, <2>2, OfferedKept
<1>5. Arriving(k, u, v, wx, wy) = Arriving(k, x, y, wx, wy)
  <2> HIDE DEF m, x, y, u, v, wx, wy
  <2> QED
    BY <1>3, <1>4, Zenon DEF Arriving
<1> QED
  BY <1>2, <1>3, <1>5, Zenon DEF ArrivingAt

\* What a BBS has after it has stored one more message, or none.
LEMMA MoreBids ==
  ASSUME NEW s \in State, NEW t \in State, Grown(s, t)
  PROVE  /\ Len(t.msg) = Len(s.msg) => Bids(t) = Bids(s)
         /\ Len(t.msg) = Len(s.msg) + 1 => Bids(t) = Bids(s) \cup {t.msg[Len(t.msg)].bid}
         /\ \A b : HasCopy(s, b) => HasCopy(t, b)
         /\ Len(t.msg) = Len(s.msg) + 1 /\ t.msg[Len(t.msg)].restarted =>
               HasCopy(t, t.msg[Len(t.msg)].bid)
<1>1. DOMAIN s.msg = 1 .. Len(s.msg) /\ DOMAIN t.msg = 1 .. Len(t.msg)
      /\ Len(s.msg) \in Nat /\ Len(t.msg) \in Nat
  BY DEF State
<1>2. \A i \in DOMAIN s.msg : i \in DOMAIN t.msg
  BY <1>1 DEF Grown
<1>3. Len(t.msg) = Len(s.msg) => DOMAIN t.msg = DOMAIN s.msg
  BY <1>1
<1>4. ASSUME Len(t.msg) = Len(s.msg) + 1
      PROVE  /\ Len(t.msg) \in DOMAIN t.msg
             /\ \A i \in DOMAIN t.msg : i \in DOMAIN s.msg \/ i = Len(t.msg)
  BY <1>1, <1>4
<1>5. Len(t.msg) = Len(s.msg) => Bids(t) = Bids(s)
  BY <1>3 DEF Bids, Grown
<1>6. ASSUME Len(t.msg) = Len(s.msg) + 1
      PROVE  Bids(t) = Bids(s) \cup {t.msg[Len(t.msg)].bid}
  BY <1>2, <1>4, <1>6 DEF Bids, Grown
<1>7. \A b : HasCopy(s, b) => HasCopy(t, b)
  BY <1>2 DEF HasCopy, Grown
<1>8. Len(t.msg) = Len(s.msg) + 1 /\ t.msg[Len(t.msg)].restarted => HasCopy(t, t.msg[Len(t.msg)].bid)
  BY <1>4 DEF HasCopy
<1> QED
  BY <1>5, <1>6, <1>7, <1>8

LEMMA StoredOnceKept ==
  ASSUME BoxesGood, BoxesGood', StoredOnce, NEW c,
         \A n \in BBS : Grown(bbs[n], bbs'[n]) /\ Adds(n, c)
  PROVE  StoredOnce'
<1>1. SUFFICES ASSUME NEW n \in BBS, NEW b \in Bid, Type[b] = "B"
               PROVE  \/ Cardinality(LookupBID(bbs'[n], b)) <= 1
                      \/ \E m \in LookupBID(bbs'[n], b) : bbs'[n].msg[m].restarted
  BY DEF StoredOnce
<1> DEFINE s == bbs[n]
           t == bbs'[n]
           r == Len(t.msg)
<1>2. s \in State /\ t \in State /\ Grown(s, t) /\ Adds(n, c)
  BY DEF BoxesGood
<1>3. \/ Cardinality(LookupBID(s, b)) <= 1
      \/ HasCopy(s, b)
  BY <1>1 DEF StoredOnce, LookupBID, HasCopy
<1>4. \/ Len(t.msg) = Len(s.msg)
      \/ /\ Len(t.msg) = Len(s.msg) + 1
         /\ t.msg[r].restarted \/ Type[t.msg[r].bid] # "B" \/ t.msg[r].bid \notin Bids(s)
            \/ HasCopy(s, t.msg[r].bid)
  BY <1>2 DEF Adds
<1> HIDE DEF s, t
<1>5. DOMAIN s.msg = 1 .. Len(s.msg) /\ DOMAIN t.msg = 1 .. r /\ Len(s.msg) \in Nat /\ r \in Nat
  BY <1>2 DEF State
<1>6. SUFFICES Cardinality(LookupBID(t, b)) <= 1 \/ HasCopy(t, b)
  BY DEF LookupBID, HasCopy, t
<1>7. ASSUME \A i \in DOMAIN t.msg : i \in DOMAIN s.msg \/ t.msg[i].bid # b
      PROVE  Cardinality(LookupBID(t, b)) <= 1 \/ HasCopy(t, b)
  <2>1. \A i \in DOMAIN s.msg : i \in DOMAIN t.msg
    BY <1>2, <1>5 DEF Grown
  <2>2. LookupBID(t, b) = LookupBID(s, b)
    BY <1>2, <1>7, <2>1 DEF LookupBID, Grown
  <2>3. HasCopy(s, b) => HasCopy(t, b)
    BY <1>2, MoreBids
  <2> QED
    BY <1>3, <2>2, <2>3
<1>8. CASE Len(t.msg) = Len(s.msg)
  BY <1>5, <1>7, <1>8
<1>9. CASE Len(t.msg) = Len(s.msg) + 1 /\ t.msg[r].bid # b
  <2>1. \A i \in DOMAIN t.msg : i \in DOMAIN s.msg \/ i = r
    BY <1>5, <1>9
  <2> QED
    BY <1>7, <1>9, <2>1
<1>10. CASE Len(t.msg) = Len(s.msg) + 1 /\ t.msg[r].bid = b
  <2>1. t.msg[r].restarted => HasCopy(t, b)
    BY <1>2, <1>10, MoreBids
  <2>2. HasCopy(s, b) => HasCopy(t, b)
    BY <1>2, MoreBids
  <2>3. ASSUME b \notin Bids(s)
        PROVE  Cardinality(LookupBID(t, b)) <= 1
    <3>1. \A i \in DOMAIN t.msg : i \in DOMAIN s.msg \/ i = r
      BY <1>5, <1>10
    <3>2. \A i \in DOMAIN s.msg : t.msg[i].bid # b
      BY <1>2, <2>3 DEF Bids, Grown
    <3>3. LookupBID(t, b) = {r}
      <4>1. r \in DOMAIN t.msg
        BY <1>5, <1>10
      <4> QED
        BY <1>10, <3>1, <3>2, <4>1 DEF LookupBID
    <3>4. Cardinality({r}) = 1
      BY FS_Singleton
    <3> QED
      BY <3>3, <3>4
  <2> QED
    BY <1>1, <1>4, <1>5, <1>10, <2>1, <2>2, <2>3
<1> QED
  BY <1>4, <1>8, <1>9, <1>10

LEMMA FedKept ==
  ASSUME Inv, OnceInv, BoxesGood', posted \subseteq posted', NEW c,
         \A n \in BBS : Grown(bbs[n], bbs'[n]) /\ Adds(n, c),
         NEW k, Untouched(k), k # c, NEW n \in End(k)
  PROVE  Fed(k, n)'
<1> DEFINE s == bbs[n]
           t == bbs'[n]
           W == s.session[k].want
           r == t.msg[Len(t.msg)].bid
           R == ArrivingAt(k, n)
<1>1. k \in Open /\ n \in BBS /\ s \in State /\ t \in State /\ Grown(s, t) /\ Adds(n, c) /\ Fed(k, n)
  BY OpenEnds DEF Untouched, Inv, BoxesGood, OnceInv
<1>2. ArrivingAt(k, n)' = R
  BY ArrivingKept
<1>3. t.session[k].want = W /\ \A b \in Bid : Came(b, k) \in s.temp => Came(b, k) \in t.temp
  BY DEF Untouched
<1>4. /\ \A b \in R : Came(b, k) \in s.temp /\ b \in posted /\ b \in Bid
      /\ ToSet(W) \subseteq posted
      /\ W # << >> /\ Type[Head(W)] = "B" /\ Head(W) \in R =>
            Head(W) \notin Bids(s) \/ HasCopy(s, Head(W))
  BY <1>1 DEF Fed, Inv
<1>5. \/ Len(t.msg) = Len(s.msg)
      \/ /\ Len(t.msg) = Len(s.msg) + 1
         /\ t.msg[Len(t.msg)].restarted \/ Type[r] # "B" \/ r \notin R
  BY <1>1 DEF Adds
<1> HIDE DEF s, t, W, r, R
<1>6. ASSUME W # << >>, Type[Head(W)] = "B", Head(W) \in R
      PROVE  Head(W) \notin Bids(t) \/ HasCopy(t, Head(W))
  <2>1. Head(W) \notin Bids(s) \/ HasCopy(s, Head(W))
    BY <1>4, <1>6
  <2>2. HasCopy(s, Head(W)) => HasCopy(t, Head(W))
    BY <1>1, MoreBids
  <2>3. CASE Len(t.msg) = Len(s.msg)
    <3>1. Bids(t) = Bids(s)
      BY <1>1, <2>3, MoreBids
    <3> QED
      BY <2>1, <2>2, <3>1
  <2>4. CASE Len(t.msg) = Len(s.msg) + 1 /\ t.msg[Len(t.msg)].restarted
    <3>1. HasCopy(t, r) /\ Bids(t) = Bids(s) \cup {r}
      BY <1>1, <2>4, MoreBids DEF r
    <3> QED
      BY <2>1, <2>2, <3>1
  <2>5. CASE Len(t.msg) = Len(s.msg) + 1 /\ (Type[r] # "B" \/ r \notin R)
    <3>1. Bids(t) = Bids(s) \cup {r}
      BY <1>1, <2>5, MoreBids DEF r
    <3> QED
      BY <1>6, <2>1, <2>2, <2>5, <3>1
  <2> QED
    BY <1>5, <2>3, <2>4, <2>5
<1>7. \A b \in R : Came(b, k) \in t.temp /\ b \in posted'
  BY <1>3, <1>4
<1>8. ToSet(W) \subseteq posted'
  BY <1>4
<1> QED
  BY <1>2, <1>3, <1>6, <1>7, <1>8, Zenon DEF Fed, t

\* What a step has to do: the sessions other than c are left alone, and in c nothing
\* comes that is coming in another.
LEMMA OnceKept ==
  ASSUME Inv, OnceInv, BoxesGood', posted \subseteq posted', NEW c,
         \A n \in BBS : Grown(bbs[n], bbs'[n]) /\ Adds(n, c),
         \A k \in Open' : k # c => Untouched(k),
         c \in Open' => \A n \in End(c)' :
            /\ Fed(c, n)'
            /\ \A k \in Open' : k # c /\ n \in End(k) => \A b \in ArrivingAt(c, n)' : b \notin ArrivingAt(k, n)
  PROVE  OnceInv'
<1>1. \A n \in BBS : Bids(bbs'[n]) \subseteq posted'
  <2>1. SUFFICES ASSUME NEW n \in BBS PROVE Bids(bbs'[n]) \subseteq posted'
    OBVIOUS
  <2> DEFINE s == bbs[n]
             t == bbs'[n]
  <2>2. s \in State /\ t \in State /\ Grown(s, t) /\ Bids(s) \subseteq posted
    BY DEF Inv, BoxesGood, OnceInv
  <2>3. \/ Len(t.msg) = Len(s.msg)
        \/ Len(t.msg) = Len(s.msg) + 1 /\ t.msg[Len(t.msg)].bid \in posted'
    BY DEF Adds
  <2> HIDE DEF s, t
  <2>4. Bids(t) \subseteq posted'
    BY <2>2, <2>3, MoreBids
  <2> QED
    BY <2>4 DEF t
<1>2. ASSUME NEW k \in Open', k # c
      PROVE  /\ Untouched(k) /\ k \in Open /\ End(k)' = End(k)
             /\ \A n \in End(k) : ArrivingAt(k, n)' = ArrivingAt(k, n) /\ Fed(k, n)'
  <2>1. Untouched(k) /\ k \in Open /\ End(k)' = End(k)
    BY <1>2 DEF Untouched, End
  <2>2. \A n \in End(k) : ArrivingAt(k, n)' = ArrivingAt(k, n)
    BY <2>1, ArrivingKept
  <2>3. \A n \in End(k) : Fed(k, n)'
    BY <1>2, <2>1, FedKept
  <2> QED
    BY <2>1, <2>2, <2>3
<1>3. \A k \in Open' : \A n \in End(k)' : Fed(k, n)'
  BY <1>2
<1>4. ASSUME NEW j \in Open', NEW k \in Open', j # k, NEW n \in End(j)' \cap End(k)'
      PROVE  Apart(j, k, n)'
  <2>1. SUFFICES ASSUME NEW b \in ArrivingAt(j, n)', b \in ArrivingAt(k, n)'
                 PROVE  FALSE
    BY DEF Apart
  <2>2. CASE j # c /\ k # c
    <3>1. j \in Open /\ k \in Open /\ n \in End(j) \cap End(k)
          /\ b \in ArrivingAt(j, n) /\ b \in ArrivingAt(k, n)
      BY <1>2, <1>4, <2>1, <2>2
    <3> QED
      BY <1>4, <3>1 DEF OnceInv, Apart
  <2>3. CASE j = c
    <3>1. n \in End(k) /\ b \in ArrivingAt(k, n)
      BY <1>2, <1>4, <2>1, <2>3
    <3> QED
      BY <1>4, <2>1, <2>3, <3>1
  <2>4. CASE k = c
    <3>1. n \in End(j) /\ b \in ArrivingAt(j, n)
      BY <1>2, <1>4, <2>1, <2>4
    <3> QED
      BY <1>4, <2>1, <2>4, <3>1
  <2> QED
    BY <2>2, <2>3, <2>4
<1>5. StoredOnce'
  BY StoredOnceKept DEF Inv, OnceInv
<1> QED
  BY <1>1, <1>3, <1>4, <1>5 DEF OnceInv

\* After connections have ended, the open ones are others that were open.
LEMMA EndsOpen ==
  ASSUME Inv, NEW K \in SUBSET Conn, NEW ends, Ends(K, ends),
         \A k \in K : conn[k] \in Connections
  PROVE  \A k \in Open' : k \notin K /\ k \in Open /\ conn'[k] = conn[k] /\ wire'[k] = wire[k]
<1>1. SUFFICES ASSUME NEW k \in Conn, conn'[k].is = "open"
               PROVE  k \notin K /\ conn'[k] = conn[k] /\ wire'[k] = wire[k]
  BY DEF Open
<1>2. ASSUME k \in K PROVE FALSE
  <2>1. conn'[k] = IF ends[k] = {} THEN Unused ELSE [conn[k] EXCEPT !.is = "over"]
    BY <1>2 DEF Ends
  <2>2. Unused.is = "unused"
    BY DEF Unused
  <2>3. [conn[k] EXCEPT !.is = "over"].is = "over"
    BY <1>2 DEF Connections
  <2> QED
    BY <1>1, <2>1, <2>2, <2>3
<1> QED
  BY <1>2 DEF Ends

\* Nothing is stored: the open sessions are left alone.
LEMMA NothingStored ==
  ASSUME Inv, OnceInv, Inv', posted' = posted,
         \A n \in BBS : Grown(bbs[n], bbs'[n]) /\ Len(bbs'[n].msg) = Len(bbs[n].msg),
         NEW c, c \in Open' => \A n \in End(c)' : ArrivingAt(c, n)' = {} /\ bbs'[n].session[c].want = << >>,
         \A k \in Open' : k # c => Untouched(k)
  PROVE  OnceInv'
<1>1. \A n \in BBS : Adds(n, c)
  BY DEF Adds
<1>2. ToSet(<< >>) = {}
  BY DEF ToSet
<1>3. c \in Open' => \A n \in End(c)' : Fed(c, n)'
  BY <1>2 DEF Fed
<1> QED
  BY <1>1, <1>3, OnceKept DEF Inv

\* A step keeps the messages, and changes nothing of the sessions other than c.
Leaves(c) ==
    /\ \A n \in BBS : Grown(bbs[n], bbs'[n])
    /\ \A k \in Open' : k # c => Untouched(k)

\* A message posted is one more at its origin.
LEMMA PostLeaves ==
  ASSUME Inv, NEW b \in Bid, Post(b)
  PROVE  LET n == Origin[b]
             msg == New(b, n, Nobody, FALSE)
             t == CreateMessageFromBuffer(bbs[n], msg)
         IN  /\ n \in BBS /\ msg \in Message /\ msg.bid = b /\ Good(bbs[n]) /\ bbs[n].me = n
             /\ bbs'[n] = t /\ t.msg = Append(bbs[n].msg, msg)
             /\ (\A m \in BBS \ {n} : bbs'[m] = bbs[m])
             /\ b \notin posted /\ posted' = posted \cup {b} /\ Leaves(0) /\ 0 \notin Open'
<1> DEFINE n == Origin[b]
           msg == New(b, n, Nobody, FALSE)
           s == bbs[n]
           t == CreateMessageFromBuffer(s, msg)
<1>1. n \in BBS /\ msg \in Message /\ msg.forw = {} /\ msg.bid = b
  BY NewType, NetAssumption
<1>2. /\ bbs' = [bbs EXCEPT ![n] = t] /\ conn' = conn /\ wire' = wire /\ b \notin posted
      /\ posted' = posted \cup {b}
  BY DEF Post
<1> HIDE DEF n, msg
<1>3. Good(s) /\ s \in State /\ s.me = n /\ s.out = Fresh(n).out /\ s.shut = {} /\ BoxesGood
  BY <1>1 DEF Inv, BoxesGood
<1>4. /\ Good(t) /\ t.me = n /\ t.out = Fresh(n).out /\ t.shut = {} /\ t.session = s.session
      /\ t.temp = s.temp /\ t.msg = Append(s.msg, msg) /\ Grown(s, t)
  BY <1>1, <1>3, StoreDoes
<1> HIDE DEF t
<1>5. bbs'[n] = t /\ (\A m \in BBS \ {n} : bbs'[m] = bbs[m])
      /\ \A m \in BBS : Grown(bbs[m], bbs'[m])
  BY <1>1, <1>2, <1>3, <1>4, OneBBS
<1>6. ASSUME NEW k \in Open'
      PROVE  Untouched(k)
  <2>1. k \in Open /\ End(k) \subseteq BBS
    BY <1>2, OpenEnds DEF Open
  <2> QED
    BY <1>2, <1>4, <1>5, <2>1 DEF Untouched
<1>7. 0 \notin Open'
  BY BlockAssumption DEF Open, Conn
<1> QED
  BY <1>1, <1>2, <1>3, <1>4, <1>5, <1>6, <1>7, Zenon DEF Leaves, n, msg, t

LEMMA PostOnce ==
  ASSUME Inv, OnceInv, Inv', NEW b \in Bid, Post(b)
  PROVE  OnceInv'
<1> DEFINE n == Origin[b]
           msg == New(b, n, Nobody, FALSE)
           s == bbs[n]
           t == CreateMessageFromBuffer(s, msg)
<1>1. /\ n \in BBS /\ msg \in Message /\ msg.bid = b /\ bbs'[n] = t /\ t.msg = Append(s.msg, msg)
      /\ (\A m \in BBS \ {n} : bbs'[m] = bbs[m])
      /\ b \notin posted /\ posted' = posted \cup {b} /\ Leaves(0) /\ 0 \notin Open'
  BY PostLeaves
<1> HIDE DEF n, msg, t
<1>2. \A k \in Open : \A m \in End(k) : b \notin ArrivingAt(k, m)
  BY <1>1 DEF OnceInv, Fed
<1>3. b \notin Bids(s)
  BY <1>1 DEF OnceInv
<1>4. Adds(n, 0)
  <2>1. s.msg \in Seq(Message)
    BY <1>1 DEF Inv, BoxesGood, State
  <2>2. Len(t.msg) = Len(s.msg) + 1 /\ t.msg[Len(t.msg)] = msg
    BY <1>1, <2>1
  <2> QED
    BY <1>1, <1>2, <1>3, <2>2 DEF Adds
<1>5. \A m \in BBS : Adds(m, 0)
  BY <1>1, <1>4 DEF Adds
<1> QED
  BY <1>1, <1>5, OnceKept DEF Inv, Leaves

\* A call does nothing to the messages, nor to the other sessions.
LEMMA CallLeaves ==
  ASSUME Inv, NEW n \in BBS, NEW p \in BBS, Call(n, p)
  PROVE  /\ posted' = posted
         /\ \A m \in BBS : bbs'[m].msg = bbs[m].msg /\ bbs'[m].saved = bbs[m].saved
         /\ \E k \in Conn : k \notin Open' /\ Leaves(k)
<1> DEFINE s == bbs[n]
<1>1. wire' = wire /\ posted' = posted
  BY DEF Call
<1>2. PICK k \in Free :
         /\ conn' = [conn EXCEPT ![k] = [is |-> "calling", from |-> n, to |-> p]]
         /\ bbs' = [bbs EXCEPT ![n] = [@ EXCEPT !.Forwarding[p] = TRUE,
                                                !.session[k] = Session(p, TRUE)]]
  <2>1. Min(Free) \in Free
    BY FreeMin DEF Call
  <2> QED
    BY <2>1 DEF Call
<1> DEFINE t == [s EXCEPT !.Forwarding[p] = TRUE, !.session[k] = Session(p, TRUE)]
<1>3. s \in State /\ bbs \in [BBS -> State] /\ bbs' = [bbs EXCEPT ![n] = t]
  BY <1>2 DEF Inv, BoxesGood
<1>4. /\ t.msg = s.msg /\ t.saved = s.saved /\ t.temp = s.temp
      /\ \A j \in Conn \ {k} : t.session[j] = s.session[j]
  BY <1>3 DEF State
<1> HIDE DEF t
<1>5. bbs'[n] = t /\ \A m \in BBS \ {n} : bbs'[m] = bbs[m]
  BY <1>3
<1>6. \A m \in BBS : /\ bbs'[m].msg = bbs[m].msg /\ bbs'[m].saved = bbs[m].saved
                     /\ bbs'[m].temp = bbs[m].temp
                     /\ \A j \in Conn \ {k} : bbs'[m].session[j] = bbs[m].session[j]
  BY <1>4, <1>5
<1>7. \A m \in BBS : Grown(bbs[m], bbs'[m])
  BY <1>6, GrownReflexive DEF Grown, Inv, BoxesGood
<1>8. k \notin Open' /\ k \in Conn
  <2>1. conn'[k] = [is |-> "calling", from |-> n, to |-> p] /\ k \in Conn
    BY <1>2 DEF Inv, ConnOK, Free
  <2> QED
    BY <2>1 DEF Open
<1>9. ASSUME NEW j \in Open', j # k
      PROVE  Untouched(j)
  <2>1. conn'[j] = conn[j] /\ j \in Open
    BY <1>2, <1>9 DEF Inv, ConnOK, Open
  <2>2. End(j) \subseteq BBS /\ j \in Conn \ {k}
    BY <1>9, <2>1, OpenEnds
  <2> QED
    BY <1>1, <1>6, <2>1, <2>2 DEF Untouched
<1> QED
  BY <1>1, <1>6, <1>7, <1>8, <1>9 DEF Leaves

LEMMA CallOnce ==
  ASSUME Inv, OnceInv, Inv', NEW n \in BBS, NEW p \in BBS, Call(n, p)
  PROVE  OnceInv'
<1>1. /\ posted' = posted /\ \A m \in BBS : bbs'[m].msg = bbs[m].msg
      /\ \E k \in Conn : k \notin Open' /\ Leaves(k)
  BY CallLeaves
<1> QED
  BY <1>1, NothingStored DEF Leaves

\* The two ends of a session that begins.
LEMMA ConnectOkLeaves ==
  ASSUME Inv, NEW k \in Conn, ConnectOk(k)
  PROVE  LET n == conn[k].to
             p == conn[k].from
         IN  /\ n \in BBS /\ p \in BBS /\ n # p /\ conn'[k].from = p /\ conn'[k].to = n
             /\ bbs'[n].session[k] = Session(p, FALSE) /\ bbs'[p].session[k] = Session(n, TRUE)
             /\ wire'[k][p] = << Line("prompt") >> /\ wire'[k][n] = << >>
             /\ posted' = posted /\ Leaves(k)
             /\ \A m \in BBS : bbs'[m].msg = bbs[m].msg /\ bbs'[m].saved = bbs[m].saved
<1> DEFINE n == conn[k].to
           p == conn[k].from
           s == bbs[n]
           t == [s EXCEPT !.session[k] = Session(p, FALSE)]
           w == << Line("prompt") >>
<1>1. /\ conn[k].is = "calling" /\ conn' = [conn EXCEPT ![k] = [conn[k] EXCEPT !.is = "open"]]
      /\ wire' = [wire EXCEPT ![k] = [@ EXCEPT ![p] = w]]
      /\ bbs' = [bbs EXCEPT ![n] = t] /\ posted' = posted
  BY DEF ConnectOk
<1>2. /\ conn[k] \in Connections /\ n \in BBS /\ p \in BBS /\ n # p /\ s \in State
      /\ bbs[p].session[k] = Session(n, TRUE) /\ wire[k] = Silence /\ bbs \in [BBS -> State]
  <2>1. conn[k] \in Connections /\ conn[k] # Unused
    BY <1>1 DEF Inv, ConnOK, Unused
  <2> QED
    BY <1>1, <2>1 DEF Inv, BoxesGood, ConnOK, Connections
<1>3. conn'[k].from = p /\ conn'[k].to = n
  <2>1. conn'[k] = [conn[k] EXCEPT !.is = "open"]
    BY <1>1 DEF Inv, ConnOK
  <2> QED
    BY <1>2, <2>1 DEF Connections
<1> HIDE DEF n, p
<1>4. /\ t.msg = s.msg /\ t.saved = s.saved /\ t.temp = s.temp /\ t.session[k] = Session(p, FALSE)
      /\ \A j \in Conn \ {k} : t.session[j] = s.session[j]
  BY <1>2 DEF State
<1> HIDE DEF t, w
<1>5. bbs'[n] = t /\ \A m \in BBS \ {n} : bbs'[m] = bbs[m]
  BY <1>1, <1>2
<1>6. \A m \in BBS : /\ bbs'[m].msg = bbs[m].msg /\ bbs'[m].saved = bbs[m].saved
                     /\ bbs'[m].temp = bbs[m].temp
                     /\ \A j \in Conn \ {k} : bbs'[m].session[j] = bbs[m].session[j]
  BY <1>4, <1>5
<1>7. \A m \in BBS : Grown(bbs[m], bbs'[m])
  BY <1>6, GrownReflexive DEF Grown, Inv, BoxesGood
<1>8. ASSUME NEW j \in Open', j # k
      PROVE  Untouched(j)
  <2>1. conn'[j] = conn[j] /\ j \in Open /\ wire'[j] = wire[j]
    BY <1>1, <1>8 DEF Inv, ConnOK, Open
  <2>2. End(j) \subseteq BBS /\ j \in Conn \ {k}
    BY <1>8, <2>1, OpenEnds
  <2> QED
    BY <1>6, <2>1, <2>2 DEF Untouched
<1>9. wire'[k][p] = w /\ wire'[k][n] = << >>
  BY <1>1, <1>2 DEF Inv, ConnOK, Silence
<1>10. bbs'[n].session[k] = Session(p, FALSE) /\ bbs'[p].session[k] = Session(n, TRUE)
  BY <1>2, <1>4, <1>5
<1> QED
  BY <1>1, <1>2, <1>3, <1>6, <1>7, <1>8, <1>9, <1>10 DEF Leaves, n, p, w

LEMMA ConnectOkOnce ==
  ASSUME Inv, OnceInv, Inv', NEW k \in Conn, ConnectOk(k)
  PROVE  OnceInv'
<1> DEFINE n == conn[k].to
           p == conn[k].from
           w == << Line("prompt") >>
<1>1. /\ n \in BBS /\ p \in BBS /\ n # p /\ conn'[k].from = p /\ conn'[k].to = n
      /\ bbs'[n].session[k] = Session(p, FALSE) /\ bbs'[p].session[k] = Session(n, TRUE)
      /\ wire'[k][p] = w /\ wire'[k][n] = << >> /\ posted' = posted /\ Leaves(k)
      /\ \A m \in BBS : bbs'[m].msg = bbs[m].msg
  BY ConnectOkLeaves
<1> HIDE DEF n, p, w
<1>2. ASSUME NEW m \in End(k)'
      PROVE  ArrivingAt(k, m)' = {} /\ bbs'[m].session[k].want = << >>
  <2>1. m \in {n, p} /\ Other(k, m)' \in {n, p}
    BY <1>1 DEF End, Other
  <2>2. \A q : /\ Session(q, TRUE).want = << >> /\ Session(q, TRUE).length = 0
               /\ Session(q, FALSE).want = << >> /\ Session(q, FALSE).length = 0
    BY DEF Session, NoSession
  <2>3. \A q \in {n, p} : /\ bbs'[q].session[k].want = << >> /\ bbs'[q].session[k].length = 0
                          /\ wire'[k][q] = << >> \/ wire'[k][q][1].kind # "FS"
                          /\ \A i \in DOMAIN wire'[k][q] : wire'[k][q][i].kind # "text"
    <3>1. w[1].kind = "prompt" /\ \A i \in DOMAIN w : w[i].kind = "prompt"
      BY DEF w, Line
    <3>2. \A i \in DOMAIN << >> : FALSE
      OBVIOUS
    <3>3. bbs'[n].session[k] = Session(p, FALSE) /\ bbs'[p].session[k] = Session(n, TRUE)
      BY <1>1
    <3>4. wire'[k][p] = w /\ wire'[k][n] = << >>
      BY <1>1
    <3> QED
      BY <2>2, <3>1, <3>2, <3>3, <3>4
  <2>4. Arriving(k, bbs'[Other(k, m)'], bbs'[m], wire'[k][Other(k, m)'], wire'[k][m]) = {}
    BY <2>1, <2>3, NothingArrives
  <2> QED
    BY <2>1, <2>3, <2>4 DEF ArrivingAt
<1> QED
  BY <1>1, <1>2, NothingStored DEF Leaves

\* A session that ends on its way does nothing to the BBSs.
LEMMA EndedLeaves ==
  ASSUME Inv, NEW k \in Conn, ConnectFails(k) \/ Break(k)
  PROVE  bbs' = bbs /\ posted' = posted /\ k \notin Open' /\ Leaves(k)
<1>1. bbs' = bbs /\ posted' = posted /\ conn[k] \in Connections
  <2>1. CASE ConnectFails(k)
    BY <2>1 DEF ConnectFails, Inv, ConnOK, Unused
  <2>2. CASE Break(k)
    BY <2>2, OpenEnds DEF Break
  <2> QED
    BY <2>1, <2>2
<1>2. \A j \in Open' : j # k /\ j \in Open /\ conn'[j] = conn[j] /\ wire'[j] = wire[j]
  <2> DEFINE K == {k}
             from == [c \in K |-> {conn[c].from}]
             both == [c \in K |-> End(c)]
  <2>1. Ends(K, from) \/ Ends(K, both)
    BY DEF ConnectFails, Break
  <2>2. K \in SUBSET Conn /\ \A j \in K : conn[j] \in Connections
    BY <1>1
  <2> HIDE DEF from, both
  <2> QED
    BY <2>1, <2>2, EndsOpen
<1>3. \A j \in Open' : Untouched(j)
  BY <1>1, <1>2 DEF Untouched
<1>4. \A n \in BBS : Grown(bbs[n], bbs'[n])
  BY <1>1, GrownReflexive DEF Inv, BoxesGood
<1> QED
  BY <1>1, <1>2, <1>3, <1>4 DEF Leaves

LEMMA EndedOnce ==
  ASSUME Inv, OnceInv, Inv', NEW k \in Conn, ConnectFails(k) \/ Break(k)
  PROVE  OnceInv'
<1>1. bbs' = bbs /\ posted' = posted /\ k \notin Open' /\ Leaves(k)
  BY EndedLeaves
<1> QED
  BY <1>1, NothingStored DEF Leaves

\* A session that is over is taken off at one of its ends.
LEMMA BBSDisconnectedLeaves ==
  ASSUME Inv, NEW k \in Conn, NEW n \in BBS, BBSDisconnected(k, n)
  PROVE  /\ bbs'[n] = Disconnected(bbs[n], k) /\ (\A m \in BBS \ {n} : bbs'[m] = bbs[m])
         /\ posted' = posted /\ k \notin Open' /\ Leaves(k)
         /\ \A m \in BBS : bbs'[m].msg = bbs[m].msg
<1> DEFINE s == bbs[n]
           t == Disconnected(s, k)
           K == {k}
           ends == [c \in {k} |-> told[c] \ {n}]
<1>1. /\ n \in told[k] /\ bbs' = [bbs EXCEPT ![n] = t] /\ Ends(K, ends) /\ posted' = posted
      /\ bbs \in [BBS -> State] /\ Good(s) /\ s \in State
  BY DEF BBSDisconnected, Inv, BoxesGood
<1>2. /\ t.msg = s.msg /\ (\A j \in Conn \ {k} : t.session[j] = s.session[j])
      /\ \A c \in s.temp : c.conn # k => c \in t.temp
  BY <1>1, DisconnectedGood
<1> HIDE DEF t
<1>3. bbs'[n] = t /\ \A m \in BBS \ {n} : bbs'[m] = bbs[m]
  BY <1>1
<1>4. \A m \in BBS : bbs'[m].msg = bbs[m].msg
  BY <1>2, <1>3
<1>5. \A m \in BBS : Grown(bbs[m], bbs'[m])
  BY <1>4, GrownReflexive DEF Grown, Inv, BoxesGood
<1>6. conn[k] \in Connections
  <2>1. told[k] # {}
    BY <1>1
  <2>2. conn[k].is = "over"
    BY <2>1 DEF Inv, ConnOK
  <2> QED
    BY <2>2 DEF Inv, ConnOK, Unused
<1>7. \A j \in Open' : j \notin K /\ j \in Open /\ conn'[j] = conn[j] /\ wire'[j] = wire[j]
  <2>1. K \in SUBSET Conn /\ \A j \in K : conn[j] \in Connections
    BY <1>6
  <2> HIDE DEF ends, K
  <2> QED
    BY <1>1, <2>1, EndsOpen
<1>8. ASSUME NEW j \in Open'
      PROVE  j # k /\ Untouched(j)
  <2>1. j # k /\ j \in Conn \ {k} /\ End(j) \subseteq BBS
    BY <1>7, OpenEnds
  <2>2. \A b \in Bid : Came(b, j).conn = j
    BY DEF Came
  <2>3. \A m \in BBS : /\ bbs'[m].session[j] = bbs[m].session[j]
                       /\ \A b \in Bid : Came(b, j) \in bbs[m].temp => Came(b, j) \in bbs'[m].temp
    BY <1>2, <1>3, <2>1, <2>2
  <2> QED
    BY <1>7, <2>1, <2>3 DEF Untouched
<1> QED
  BY <1>1, <1>3, <1>4, <1>5, <1>8 DEF Leaves, t

LEMMA BBSDisconnectedOnce ==
  ASSUME Inv, OnceInv, Inv', NEW k \in Conn, NEW n \in BBS, BBSDisconnected(k, n)
  PROVE  OnceInv'
<1>1. /\ posted' = posted /\ k \notin Open' /\ Leaves(k)
      /\ \A m \in BBS : bbs'[m].msg = bbs[m].msg
  BY BBSDisconnectedLeaves
<1> QED
  BY <1>1, NothingStored DEF Leaves

\* A BBS that starts again has as many messages as it had.
LEMMA CrashLeaves ==
  ASSUME Inv, NEW n \in BBS, Crash(n)
  PROVE  LET t == Started(n, bbs[n].saved)
         IN  /\ bbs'[n] = t /\ (\A m \in BBS \ {n} : bbs'[m] = bbs[m])
             /\ Len(t.msg) = Len(bbs[n].msg) /\ posted' = posted /\ 0 \notin Open' /\ Leaves(0)
<1> DEFINE s == bbs[n]
           t == Started(n, s.saved)
           K == {k \in Conn : conn[k] # Unused /\ n \in End(k)}
           Left(k) == CASE conn[k].is = "over"    -> told[k] \ {n}
                        [] conn[k].is = "calling" -> {conn[k].from} \ {n}
                        [] OTHER                  -> End(k) \ {n}
           ends == [k \in K |-> Left(k)]
<1>1. /\ bbs' = [bbs EXCEPT ![n] = t] /\ Ends(K, ends) /\ posted' = posted
      /\ bbs \in [BBS -> State] /\ Good(s) /\ s \in State
  BY DEF Crash, Inv, BoxesGood
<1>2. s.saved \in Seq(Message) /\ s.msg \in Seq(Message) /\ Kept(s)
  BY <1>1 DEF Good, State
<1>3. /\ Len(t.msg) = Len(s.saved) /\ DOMAIN t.msg = DOMAIN s.saved
      /\ \A i \in DOMAIN s.saved : /\ t.msg[i].bid = s.saved[i].bid
                                   /\ t.msg[i].restarted = s.saved[i].restarted
  BY <1>2, StartedGood
<1>4. Grown(s, t) /\ Len(t.msg) = Len(s.msg)
  <2>1. Len(s.msg) \in Nat /\ DOMAIN s.msg = 1 .. Len(s.msg) /\ DOMAIN s.saved = 1 .. Len(s.saved)
    BY <1>2
  <2> HIDE DEF t
  <2> QED
    BY <1>2, <1>3, <2>1 DEF Kept, Grown
<1> HIDE DEF t
<1>5. bbs'[n] = t /\ \A m \in BBS \ {n} : bbs'[m] = bbs[m]
  BY <1>1
<1>6. \A m \in BBS : Grown(bbs[m], bbs'[m])
  BY <1>4, <1>5, GrownReflexive DEF Inv, BoxesGood
<1>7. \A j \in Open' : j \notin K /\ j \in Open /\ conn'[j] = conn[j] /\ wire'[j] = wire[j]
  <2>1. K \in SUBSET Conn /\ \A k \in K : conn[k] \in Connections
    BY DEF Inv, ConnOK
  <2> HIDE DEF ends, K
  <2> QED
    BY <1>1, <2>1, EndsOpen
<1>8. ASSUME NEW j \in Open'
      PROVE  Untouched(j)
  <2>1. j \in Conn /\ End(j) \subseteq BBS /\ conn[j] # Unused
    BY <1>7, OpenEnds DEF Open, Unused
  <2>2. n \notin End(j)
    BY <1>7, <2>1
  <2>3. \A m \in End(j) : bbs'[m] = bbs[m]
    BY <1>5, <2>1, <2>2
  <2> QED
    BY <1>7, <2>3 DEF Untouched
<1>9. 0 \notin Open'
  BY BlockAssumption DEF Open, Conn
<1> QED
  BY <1>1, <1>4, <1>5, <1>6, <1>8, <1>9 DEF Leaves, t

LEMMA CrashOnce ==
  ASSUME Inv, OnceInv, Inv', NEW n \in BBS, Crash(n)
  PROVE  OnceInv'
<1> DEFINE t == Started(n, bbs[n].saved)
<1>1. /\ bbs'[n] = t /\ (\A m \in BBS \ {n} : bbs'[m] = bbs[m])
      /\ Len(t.msg) = Len(bbs[n].msg) /\ posted' = posted /\ 0 \notin Open' /\ Leaves(0)
  BY CrashLeaves
<1> HIDE DEF t
<1>2. \A m \in BBS : Len(bbs'[m].msg) = Len(bbs[m].msg)
  BY <1>1
<1> QED
  BY <1>1, <1>2, NothingStored DEF Leaves

\* A line of session k stores what it should.
LEMMA ReceiveAdds ==
  ASSUME Inv, OnceInv, Inv', NEW k \in Conn, NEW n \in BBS, NEW m, NEW s,
         ReceiveDoes(k, n, m, s), posted' = posted
  PROVE  \A q \in BBS : Adds(q, k)
<1> DEFINE y == bbs[n]
           t == bbs'[n]
           W == y.session[k].want
           b == t.msg[Len(t.msg)].bid
           R == ArrivingAt(k, n)
<1>1. /\ \A q \in BBS \ {n} : bbs'[q] = bbs[q]
      /\ t.msg = s.msg /\ k \in Open /\ n \in End(k) /\ Gained(y, s, k)
  BY DEF ReceiveDoes, Result, Open
<1>2. \A q \in BBS \ {n} : Adds(q, k)
  BY <1>1 DEF Adds
<1>3. \/ Len(t.msg) = Len(y.msg)
      \/ /\ Len(t.msg) = Len(y.msg) + 1 /\ W # << >> /\ b = Head(W)
         /\ t.msg[Len(t.msg)].restarted \/ y.session[k].length = 1
  BY <1>1 DEF Gained
<1>4. /\ ToSet(W) \subseteq posted
      /\ W # << >> /\ Type[Head(W)] = "B" /\ Head(W) \in R => Head(W) \notin Bids(y) \/ HasCopy(y, Head(W))
  BY <1>1 DEF OnceInv, Fed
<1>5. W # << >> => Head(W) \in ToSet(W)
  <2>1. W \in Seq(Bid)
    <3>1. y \in State
      BY DEF Inv, BoxesGood
    <3> HIDE DEF y
    <3> QED
      BY <3>1 DEF State, Sessions
  <2> HIDE DEF W
  <2>2. W # << >> => Head(W) = W[1] /\ 1 \in DOMAIN W
    BY <2>1
  <2> QED
    BY <2>2 DEF ToSet
<1>6. y.session[k].length = 1 => Head(W) \in R
  BY DEF ArrivingAt, Arriving
<1>7. \A j \in Open : j # k /\ n \in End(j) => \A c \in R : c \notin ArrivingAt(j, n)
  BY <1>1 DEF OnceInv, Apart
<1> HIDE DEF W, b, R
<1>8. Adds(n, k)
  <2>1. CASE Len(t.msg) = Len(y.msg)
    BY <2>1 DEF Adds
  <2>2. CASE Len(t.msg) = Len(y.msg) + 1 /\ t.msg[Len(t.msg)].restarted /\ b \in posted'
    BY <2>2 DEF Adds, b
  <2>3. CASE /\ Len(t.msg) = Len(y.msg) + 1 /\ b \in posted'
             /\ \/ Type[b] # "B"
                \/ b \notin Bids(y) \/ HasCopy(y, b)
             /\ \A j \in Open : j # k /\ n \in End(j) => b \notin ArrivingAt(j, n)
    BY <2>3 DEF Adds, b
  <2> QED
    BY <1>3, <1>4, <1>5, <1>6, <1>7, <2>1, <2>2, <2>3
<1> QED
  BY <1>2, <1>8

\* What comes in session k, after a line of it, is noted and comes in no other.
LEMMA ReceiveFed ==
  ASSUME Inv, OnceInv, Inv', NEW k \in Conn, NEW n \in BBS, NEW m, NEW s,
         ReceiveDoes(k, n, m, s), posted' = posted, k \notin s.shut,
         \A j \in Open' : j # k => Untouched(j),
         NEW q \in End(k)'
  PROVE  /\ Fed(k, q)'
         /\ \A j \in Open' : j # k /\ q \in End(j) => \A b \in ArrivingAt(k, q)' : b \notin ArrivingAt(j, q)
<1> DEFINE x == bbs[m]
           y == bbs[n]
           t == bbs'[n]
           wx == wire[k][m]
           wy == wire[k][n]
           ux == wx \o s.out[k]
           uy == Tail(wy)
           V == s.session[k].want
<1>1. /\ conn' = conn /\ m \in BBS /\ m # n /\ End(k) = {n, m} /\ k \in Open
      /\ (conn[k].from = n /\ conn[k].to = m) \/ (conn[k].from = m /\ conn[k].to = n)
      /\ bbs'[m] = x /\ t.msg = s.msg /\ t.session = s.session /\ t.temp = s.temp
      /\ wire'[k][n] = uy /\ wire'[k][m] = ux
      /\ Grown(y, t) /\ y.temp \subseteq t.temp
      /\ Passes(k, x, y, s, wx, wy, ux, uy)
  BY DEF ReceiveDoes, Result, Open, Moved
<1>2. /\ Other(k, n) = m /\ Other(k, m) = n /\ Other(k, n)' = m /\ Other(k, m)' = n /\ q \in {n, m}
  BY <1>1 DEF Other, End
<1>3. /\ ArrivingAt(k, n) = Arriving(k, x, y, wx, wy) /\ ArrivingAt(k, m) = Arriving(k, y, x, wy, wx)
      /\ ArrivingAt(k, n)' = Arriving(k, x, t, ux, uy) /\ ArrivingAt(k, m)' = Arriving(k, t, x, uy, ux)
  BY <1>1, <1>2, Zenon DEF ArrivingAt
<1>4. Arriving(k, x, t, ux, uy) = Arriving(k, x, s, ux, uy) /\ Arriving(k, t, x, uy, ux) = Arriving(k, s, x, uy, ux)
  <2> HIDE DEF x, t, ux, uy
  <2>1. Offered(t, t.session[k]) = Offered(s, s.session[k])
    BY <1>1 DEF Offered
  <2> QED
    BY <1>1, <2>1, Zenon DEF Arriving
<1>5. /\ \A b \in ArrivingAt(k, n)' :
            \/ b \in ArrivingAt(k, n)
            \/ ~LookupTempBID(y, b) /\ IsNew(y, b) /\ Came(b, k) \in t.temp /\ b \in Bids(x)
      /\ ArrivingAt(k, m)' \subseteq ArrivingAt(k, m)
      /\ V # << >> => IsNew(s, Head(V)) \/ (V = y.session[k].want /\ Len(s.msg) = Len(y.msg))
      /\ ToSet(V) \subseteq ToSet(y.session[k].want) \cup Bids(x)
  <2>1. Proposed(x, x.session[k]) \subseteq Bids(x)
    BY DEF Proposed, Bids
  <2> QED
    BY <1>1, <1>3, <1>4, <2>1 DEF Passes
<1>6. Fed(k, n) /\ Fed(k, m) /\ Bids(x) \subseteq posted /\ y \in State /\ t \in State
  BY <1>1 DEF OnceInv, Inv, BoxesGood
<1>7. \A j \in Open' : j # k => /\ j \in Open /\ \A r \in End(j) : \A b \in ArrivingAt(j, r) : Came(b, j) \in bbs[r].temp
  BY DEF OnceInv, Fed, Untouched
<1>8. \A j \in Open' : j # k => \A r \in End(j) \cap End(k) : \A b \in ArrivingAt(k, r) : b \notin ArrivingAt(j, r)
  BY <1>1, <1>7 DEF OnceInv, Apart
<1>9. CASE q = m
  <2>1. Fed(k, m)'
    <3>1. /\ \A b \in ArrivingAt(k, m) : Came(b, k) \in x.temp /\ b \in posted
          /\ ToSet(x.session[k].want) \subseteq posted
          /\ x.session[k].want # << >> /\ Type[Head(x.session[k].want)] = "B"
             /\ Head(x.session[k].want) \in ArrivingAt(k, m) =>
                 Head(x.session[k].want) \notin Bids(x) \/ HasCopy(x, Head(x.session[k].want))
      BY <1>6 DEF Fed
    <3> HIDE DEF x
    <3> QED
      BY <1>1, <1>5, <3>1 DEF Fed
  <2>2. \A j \in Open' : j # k /\ m \in End(j) => \A b \in ArrivingAt(k, m)' : b \notin ArrivingAt(j, m)
    BY <1>1, <1>5, <1>8
  <2> QED
    BY <1>9, <2>1, <2>2
<1>10. CASE q = n
  <2>1. /\ \A b \in ArrivingAt(k, n) : Came(b, k) \in y.temp /\ b \in posted
        /\ ToSet(y.session[k].want) \subseteq posted
        /\ y.session[k].want # << >> /\ Type[Head(y.session[k].want)] = "B"
           /\ Head(y.session[k].want) \in ArrivingAt(k, n) =>
               Head(y.session[k].want) \notin Bids(y) \/ HasCopy(y, Head(y.session[k].want))
    BY <1>6 DEF Fed
  <2>2. \A b \in ArrivingAt(k, n)' : Came(b, k) \in t.temp /\ b \in posted
    BY <1>1, <1>5, <1>6, <2>1
  <2>3. ToSet(V) \subseteq posted
    BY <1>5, <1>6, <2>1
  <2>4. ASSUME V # << >>, Type[Head(V)] = "B", Head(V) \in ArrivingAt(k, n)'
        PROVE  Head(V) \notin Bids(t) \/ HasCopy(t, Head(V))
    <3> HIDE DEF x, y, t, V
    <3>1. Bids(t) = Bids(s)
      BY <1>1 DEF Bids
    <3>2. CASE IsNew(s, Head(V))
      BY <2>4, <3>1, <3>2 DEF IsNew
    <3>3. CASE V = y.session[k].want /\ Len(s.msg) = Len(y.msg)
      <4>1. Bids(t) = Bids(y) /\ (HasCopy(y, Head(V)) => HasCopy(t, Head(V)))
        BY <1>1, <1>6, <3>3, MoreBids
      <4>2. CASE Head(V) \in ArrivingAt(k, n)
        BY <2>1, <2>4, <3>3, <4>1, <4>2
      <4>3. CASE IsNew(y, Head(V))
        BY <2>4, <4>1, <4>3 DEF IsNew
      <4> QED
        BY <1>5, <2>4, <4>2, <4>3
    <3> QED
      BY <1>5, <2>4, <3>2, <3>3
  <2>5. Fed(k, n)'
    <3>1. t.session[k].want = V
      BY <1>1
    <3> HIDE DEF V
    <3> QED
      BY <2>2, <2>3, <2>4, <3>1 DEF Fed
  <2>6. ASSUME NEW j \in Open', j # k, n \in End(j), NEW b \in ArrivingAt(k, n)', b \in ArrivingAt(j, n)
        PROVE  FALSE
    <3>1. b \notin ArrivingAt(k, n)
      BY <1>1, <1>8, <2>6
    <3>2. ~LookupTempBID(y, b)
      BY <1>5, <2>6, <3>1
    <3>3. Came(b, j) \in y.temp
      BY <1>7, <2>6
    <3> QED
      BY <3>2, <3>3 DEF LookupTempBID, Came
  <2> QED
    BY <1>10, <2>5, <2>6
<1> QED
  BY <1>2, <1>9, <1>10

\* A line changes its own session only, and one that closes it ends it.
LEMMA ReceiveLeaves ==
  ASSUME Inv, NEW k \in Conn, NEW n \in BBS, Receive(k, n)
  PROVE  LET s == ProcessFBBLine(bbs[n], k, Head(wire[k][n]))
         IN  /\ ReceiveDoes(k, n, Other(k, n), s) /\ posted' = posted
             /\ Leaves(k) /\ (k \in s.shut => k \notin Open')
<1> DEFINE m == Other(k, n)
           s == ProcessFBBLine(bbs[n], k, Head(wire[k][n]))
<1>1. ReceiveDoes(k, n, m, s) /\ posted' = posted
  BY ReceiveStep DEF Receive
<1> HIDE DEF m, s
<1>2. /\ conn[k] \in Connections /\ End(k) = {n, m}
      /\ (\A q \in BBS : Grown(bbs[q], bbs'[q]))
      /\ (\A q \in BBS \ {n} : bbs'[q] = bbs[q])
      /\ bbs[n].temp \subseteq bbs'[n].temp
      /\ \A j \in Conn \ {k} : \A q \in BBS : bbs'[q].session[j] = bbs[q].session[j]
      /\ k \in s.shut => Ends({k}, [c \in {k} |-> End(c)])
      /\ k \notin s.shut => conn' = conn /\ \A j \in Conn \ {k} : wire'[j] = wire[j]
  BY <1>1 DEF ReceiveDoes, Moved
<1>3. ASSUME NEW j \in Open'
      PROVE  /\ k \in s.shut => j # k
             /\ j # k => j \in Open /\ conn'[j] = conn[j] /\ wire'[j] = wire[j]
  <2>1. CASE k \in s.shut
    <3> DEFINE ends == [c \in {k} |-> End(c)]
               K == {k}
    <3>1. Ends(K, ends) /\ K \in SUBSET Conn /\ \A i \in K : conn[i] \in Connections
      BY <1>2, <2>1
    <3> HIDE DEF ends
    <3>2. j \notin K /\ j \in Open /\ conn'[j] = conn[j] /\ wire'[j] = wire[j]
      BY <3>1, EndsOpen
    <3> QED
      BY <3>2
  <2>2. CASE k \notin s.shut
    BY <1>2, <2>2 DEF Open
  <2> QED
    BY <2>1, <2>2
<1>4. ASSUME NEW j \in Open', j # k
      PROVE  Untouched(j)
  <2>1. j \in Conn \ {k} /\ End(j) \subseteq BBS
    BY <1>3, <1>4, OpenEnds
  <2>2. \A q \in BBS : bbs[q].temp \subseteq bbs'[q].temp
    BY <1>2
  <2> QED
    BY <1>2, <1>3, <1>4, <2>1, <2>2 DEF Untouched
<1> QED
  BY <1>1, <1>2, <1>3, <1>4 DEF Leaves, m, s

LEMMA ReceiveOnce ==
  ASSUME Inv, OnceInv, Inv', NEW k \in Conn, NEW n \in BBS, Receive(k, n)
  PROVE  OnceInv'
<1> DEFINE m == Other(k, n)
           s == ProcessFBBLine(bbs[n], k, Head(wire[k][n]))
<1>1. ReceiveDoes(k, n, m, s) /\ posted' = posted /\ Leaves(k) /\ (k \in s.shut => k \notin Open')
  BY ReceiveLeaves
<1> HIDE DEF m, s
<1>2. \A q \in BBS : Adds(q, k)
  BY <1>1, ReceiveAdds
<1>3. ASSUME k \in Open', NEW q \in End(k)'
      PROVE  /\ Fed(k, q)'
             /\ \A j \in Open' : j # k /\ q \in End(j) => \A b \in ArrivingAt(k, q)' : b \notin ArrivingAt(j, q)
  BY <1>1, <1>3, ReceiveFed DEF Leaves
<1> QED
  BY <1>1, <1>2, <1>3, OnceKept DEF Inv, Leaves

\* What comes to a BBS is noted there, and comes in one session only.
LEMMA OnceInvariance == Spec => []OnceInv
<1>1. Init => OnceInv
  <2> SUFFICES ASSUME Init PROVE OnceInv
    OBVIOUS
  <2>1. Open = {}
    BY DEF Init, Open, Unused
  <2>2. \A n \in BBS : bbs[n].msg = << >>
    BY FreshGood DEF Init
  <2>3. \A n \in BBS : Bids(bbs[n]) = {} /\ \A b \in Bid : LookupBID(bbs[n], b) = {}
    BY <2>2 DEF Bids, LookupBID
  <2>4. Cardinality({}) = 0
    BY FS_EmptySet
  <2>5. StoredOnce
    <3>1. \A n \in BBS : \A b \in Bid : Cardinality(LookupBID(bbs[n], b)) = 0
      BY <2>3, <2>4
    <3> QED
      BY <3>1 DEF StoredOnce
  <2> QED
    BY <2>1, <2>3, <2>5 DEF OnceInv
<1>2. Inv /\ Inv' /\ OnceInv /\ [Next]_vars => OnceInv'
  <2> SUFFICES ASSUME Inv, Inv', OnceInv, [Next]_vars PROVE OnceInv'
    OBVIOUS
  <2>1. ASSUME NEW b \in Bid, Post(b) PROVE OnceInv'
    BY <2>1, PostOnce
  <2>2. ASSUME NEW n \in BBS, NEW p \in BBS, Call(n, p) PROVE OnceInv'
    BY <2>2, CallOnce
  <2>3. ASSUME NEW k \in Conn, ConnectOk(k) PROVE OnceInv'
    BY <2>3, ConnectOkOnce
  <2>4. ASSUME NEW k \in Conn, NEW n \in BBS, Receive(k, n) PROVE OnceInv'
    BY <2>4, ReceiveOnce
  <2>5. ASSUME NEW k \in Conn, NEW n \in BBS, BBSDisconnected(k, n) PROVE OnceInv'
    BY <2>5, BBSDisconnectedOnce
  <2>6. ASSUME NEW k \in Conn, ConnectFails(k) PROVE OnceInv'
    BY <2>6, EndedOnce
  <2>7. ASSUME NEW k \in Conn, Break(k) PROVE OnceInv'
    BY <2>7, EndedOnce
  <2>8. ASSUME NEW n \in BBS, Crash(n) PROVE OnceInv'
    BY <2>8, CrashOnce
  <2>9. CASE UNCHANGED vars
    <3>1. bbs' = bbs /\ conn' = conn /\ wire' = wire /\ posted' = posted
      BY <2>9 DEF vars
    <3>2. \A k, n : Other(k, n)' = Other(k, n) /\ End(k)' = End(k)
      BY <3>1 DEF Other, End
    <3>3. \A k, n : ArrivingAt(k, n)' = ArrivingAt(k, n)
      BY <3>1, <3>2 DEF ArrivingAt
    <3>4. (\A k, n : Fed(k, n)' = Fed(k, n)) /\ \A j, k, n : Apart(j, k, n)' = Apart(j, k, n)
      BY <3>1, <3>3 DEF Fed, Apart
    <3>5. StoredOnce' = StoredOnce /\ Open' = Open
      BY <3>1 DEF StoredOnce, Open
    <3> QED
      BY <3>1, <3>2, <3>4, <3>5 DEF OnceInv
  <2> QED
    BY <2>1, <2>2, <2>3, <2>4, <2>5, <2>6, <2>7, <2>8, <2>9 DEF Next, Calling, Proceeds
<1> QED
  BY <1>1, <1>2, Invariance, PTL DEF Spec

\* A BBS stores a bulletin once, however many partners offer it at a time: what it is
\* being sent is noted until its session is over, so that it comes in one session, and
\* it is asked again whether it is wanted when its text comes.  Only the copy of a
\* restart, which is not noted, may be a second one.
THEOREM BulletinsOnce == Spec => []StoredOnce
<1>1. OnceInv => StoredOnce
  BY DEF OnceInv
<1> QED
  BY <1>1, OnceInvariance, PTL

-----------------------------------------------------------------------------
(* A mail relay.                                                           *)

\* The mail that a BBS has is in the relay what it says of it.
LEMMA SameMaps ==
  ASSUME \A n \in BBS : bbs'[n].msg = bbs[n].msg
  PROVE  UNCHANGED Relay!vars
<1>1. \A n \in BBS : \A b : LookupBID(bbs'[n], b) = LookupBID(bbs[n], b)
  BY DEF LookupBID
<1> QED
  BY <1>1 DEF Relay!vars

\* One message more at n is one that the relay stores.
LEMMA StoreMaps ==
  ASSUME NEW n \in BBS, BoxesGood, BoxesGood', \A q \in BBS \ {n} : bbs'[q] = bbs[q],
         Grown(bbs[n], bbs'[n]), Len(bbs'[n].msg) = Len(bbs[n].msg) + 1,
         \A i \in DOMAIN bbs[n].msg : bbs'[n].msg[i].fbbs = bbs[n].msg[i].fbbs,
         NEW b \in Bid, NEW back, 
         LET m == bbs'[n].msg[Len(bbs'[n].msg)] IN m.bid = b /\ m.fbbs = Routes[b][n] \ back
  PROVE  Relay!Store(n, b, back)
<1> DEFINE s == bbs[n]
           t == bbs'[n]
           r == Len(t.msg)
           Due(u, c) == UNION {u.msg[m].fbbs : m \in LookupBID(u, c)}
           due == [q \in BBS |-> [c \in Bid |-> Due(bbs[q], c)]]
           at == [q \in BBS |-> Bids(bbs[q])]
<1>1. /\ s \in State /\ t \in State /\ Grown(s, t) /\ r = Len(s.msg) + 1
      /\ \A i \in DOMAIN s.msg : t.msg[i].fbbs = s.msg[i].fbbs
      /\ t.msg[r].bid = b /\ t.msg[r].fbbs = Routes[b][n] \ back
  BY DEF BoxesGood
<1> HIDE DEF s, t
<1>2. DOMAIN s.msg = 1 .. Len(s.msg) /\ DOMAIN t.msg = 1 .. r /\ Len(s.msg) \in Nat
  BY <1>1 DEF State
<1>3. r \in DOMAIN t.msg /\ r \notin DOMAIN s.msg
      /\ \A i \in DOMAIN t.msg : i \in DOMAIN s.msg \/ i = r
  BY <1>1, <1>2
<1>4. DOMAIN s.msg \subseteq DOMAIN t.msg /\ \A i \in DOMAIN s.msg : t.msg[i].bid = s.msg[i].bid
  BY <1>1, GrownBids DEF Grown
<1>5. \A c : LookupBID(t, c) = LookupBID(s, c) \cup IF c = b THEN {r} ELSE {}
  BY <1>1, <1>3, <1>4 DEF LookupBID
<1>6. \A c : \A i \in LookupBID(s, c) : t.msg[i].fbbs = s.msg[i].fbbs
  BY <1>1 DEF LookupBID
<1>7. ASSUME NEW c
      PROVE  Due(t, c) = IF c = b THEN Due(s, c) \cup (Routes[b][n] \ back) ELSE Due(s, c)
  BY <1>1, <1>5, <1>6
<1>8. Bids(t) = Bids(s) \cup {b}
  BY <1>1, MoreBids
<1> HIDE DEF Due, r
<1>9. at' = [at EXCEPT ![n] = @ \cup {b}]
  BY <1>8 DEF s, t
<1>10. due' = [due EXCEPT ![n][b] = @ \cup (Routes[b][n] \ back)]
  <2>1. \A q \in BBS \ {n} : \A c : Due(bbs[q], c)' = Due(bbs[q], c)
    BY DEF Due, LookupBID
  <2>2. \A c : Due(bbs[n], c)' = Due(t, c)
    BY DEF Due, LookupBID, t
  <2>3. \A c : Due(bbs[n], c)' = IF c = b THEN Due(bbs[n], c) \cup (Routes[b][n] \ back) ELSE Due(bbs[n], c)
    BY <1>7, <2>2 DEF s
  <2>4. due'[n] = [due[n] EXCEPT ![b] = @ \cup (Routes[b][n] \ back)]
    BY <2>3
  <2>5. \A q \in BBS \ {n} : due'[q] = due[q]
    BY <2>1
  <2>6. DOMAIN due = BBS /\ DOMAIN due' = BBS /\ due' = [q \in BBS |-> due'[q]]
    OBVIOUS
  <2> HIDE DEF due
  <2> QED
    BY <2>4, <2>5, <2>6
<1> QED
  BY <1>9, <1>10 DEF Relay!Store, Due, Bids

\* What n has marked is counted as settled.
LEMMA SettleMaps ==
  ASSUME NEW n \in BBS, BoxesGood, BoxesGood', SavedThere', \A q \in BBS \ {n} : bbs'[q] = bbs[q],
         DOMAIN bbs'[n].msg = DOMAIN bbs[n].msg,
         \A i \in DOMAIN bbs[n].msg :
            /\ bbs'[n].msg[i].bid = bbs[n].msg[i].bid
            /\ bbs'[n].msg[i].fbbs \subseteq bbs[n].msg[i].fbbs
            /\ bbs[n].msg[i].fbbs \subseteq bbs'[n].msg[i].fbbs \cup bbs'[n].msg[i].forw
  PROVE  Relay!Settle(n)
<1> DEFINE s == bbs[n]
           t == bbs'[n]
           Due(u, c) == UNION {u.msg[m].fbbs : m \in LookupBID(u, c)}
           due == [q \in BBS |-> [c \in Bid |-> Due(bbs[q], c)]]
           at == [q \in BBS |-> Bids(bbs[q])]
<1>1. s \in State /\ t \in State /\ DOMAIN t.msg = DOMAIN s.msg
      /\ \A i \in DOMAIN s.msg : /\ t.msg[i].bid = s.msg[i].bid /\ t.msg[i].fbbs \subseteq s.msg[i].fbbs
                                 /\ s.msg[i].fbbs \subseteq t.msg[i].fbbs \cup t.msg[i].forw
  BY DEF BoxesGood
<1> HIDE DEF s, t
<1>2. \A c : LookupBID(t, c) = LookupBID(s, c)
  BY <1>1 DEF LookupBID
<1>3. \A c : Due(t, c) \subseteq Due(s, c)
  BY <1>1, <1>2 DEF LookupBID
<1>4. Bids(t) = Bids(s)
  BY <1>1 DEF Bids
<1>5. at' = at
  BY <1>4 DEF s, t
<1>6. ASSUME NEW c \in Bid, NEW p \in Due(s, c) \ Due(t, c)
      PROVE  c \in Bids(bbs[p]) /\ p \in BBS
  <2>1. PICK i \in LookupBID(s, c) : p \in s.msg[i].fbbs
    OBVIOUS
  <2>2. i \in DOMAIN s.msg /\ s.msg[i].bid = c
    BY <2>1 DEF LookupBID
  <2>3. p \notin t.msg[i].fbbs
    BY <1>2, <1>6, <2>1
  <2>4. p \in t.msg[i].forw
    BY <1>1, <2>1, <2>2, <2>3
  <2>5. c \in Bids(bbs'[p])
    BY <1>1, <2>2, <2>4 DEF SavedThere, t
  <2>6. p \in BBS
    <3>1. s.msg[i] \in Message
      BY <1>1, <2>2 DEF State
    <3> QED
      BY <2>1, <3>1 DEF Message
  <2> QED
    BY <1>4, <2>5, <2>6 DEF s, t
<1>7. \A q \in BBS : \A c : Due(bbs[q], c)' \in SUBSET BBS
  <2> SUFFICES ASSUME NEW q \in BBS, NEW c PROVE Due(bbs'[q], c) \in SUBSET BBS
    BY DEF LookupBID
  <2>1. \A i \in DOMAIN bbs'[q].msg : bbs'[q].msg[i].fbbs \in SUBSET BBS
    <3>1. bbs'[q] \in State
      BY DEF BoxesGood
    <3>2. \A i \in DOMAIN bbs'[q].msg : bbs'[q].msg[i] \in Message
      BY <3>1 DEF State
    <3> QED
      BY <3>2 DEF Message
  <2> QED
    BY <2>1 DEF LookupBID
<1>8. \A q \in BBS \ {n} : \A c : Due(bbs[q], c)' = Due(bbs[q], c)
  BY DEF LookupBID
<1>9. \A c : Due(bbs[n], c)' = Due(t, c) /\ Due(bbs[n], c) = Due(s, c)
  BY DEF LookupBID, s, t
<1> HIDE DEF Due
<1>10. due' \in [BBS -> [Bid -> SUBSET BBS]]
  BY <1>7
<1>11. \A q \in BBS \ {n} : due'[q] = due[q]
  BY <1>8
<1>12. \A c \in Bid : /\ due'[n][c] \subseteq due[n][c]
                      /\ \A p \in due[n][c] \ due'[n][c] : c \in at[p]
  BY <1>3, <1>6, <1>9
<1> HIDE DEF at, due
<1>13. Relay!Recounts(n)
  BY <1>5, <1>10, <1>11 DEF Relay!Recounts, Due, Bids, at, due
<1> QED
  BY <1>12, <1>13 DEF Relay!Settle, Due, Bids, at, due

\* A BBS that starts again has what its file has, and owes what that says.
LEMMA ForgetMaps ==
  ASSUME NEW n \in BBS, BoxesGood, BoxesGood', \A q \in BBS \ {n} : bbs'[q] = bbs[q],
         DOMAIN bbs'[n].msg = DOMAIN bbs[n].msg,
         \A i \in DOMAIN bbs[n].msg :
            /\ bbs'[n].msg[i].bid = bbs[n].msg[i].bid
            /\ bbs[n].msg[i].fbbs \subseteq bbs'[n].msg[i].fbbs
            /\ bbs'[n].msg[i].fbbs \subseteq Routes[bbs[n].msg[i].bid][n]
  PROVE  Relay!Forget(n)
<1> DEFINE s == bbs[n]
           t == bbs'[n]
           Due(u, c) == UNION {u.msg[m].fbbs : m \in LookupBID(u, c)}
           due == [q \in BBS |-> [c \in Bid |-> Due(bbs[q], c)]]
           at == [q \in BBS |-> Bids(bbs[q])]
<1>1. DOMAIN t.msg = DOMAIN s.msg
      /\ \A i \in DOMAIN s.msg : /\ t.msg[i].bid = s.msg[i].bid /\ s.msg[i].fbbs \subseteq t.msg[i].fbbs
                                 /\ t.msg[i].fbbs \subseteq Routes[s.msg[i].bid][n]
  OBVIOUS
<1> HIDE DEF s, t
<1>2. \A c : LookupBID(t, c) = LookupBID(s, c)
  BY <1>1 DEF LookupBID
<1>3. \A c : Due(s, c) \subseteq Due(t, c)
  BY <1>1, <1>2 DEF LookupBID
<1>4. \A c : Due(t, c) \subseteq IF c \in Bids(s) THEN Routes[c][n] ELSE {}
  BY <1>1, <1>2 DEF LookupBID, Bids
<1>5. at' = at
  <2>1. Bids(t) = Bids(s)
    BY <1>1 DEF Bids
  <2> QED
    BY <2>1 DEF s, t
<1>6. \A q \in BBS : \A c : Due(bbs[q], c)' \in SUBSET BBS
  <2> SUFFICES ASSUME NEW q \in BBS, NEW c PROVE Due(bbs'[q], c) \in SUBSET BBS
    BY DEF LookupBID
  <2>1. \A i \in DOMAIN bbs'[q].msg : bbs'[q].msg[i].fbbs \in SUBSET BBS
    <3>1. bbs'[q] \in State
      BY DEF BoxesGood
    <3>2. \A i \in DOMAIN bbs'[q].msg : bbs'[q].msg[i] \in Message
      BY <3>1 DEF State
    <3> QED
      BY <3>2 DEF Message
  <2> QED
    BY <2>1 DEF LookupBID
<1>7. \A q \in BBS \ {n} : \A c : Due(bbs[q], c)' = Due(bbs[q], c)
  BY DEF LookupBID
<1>8. \A c : Due(bbs[n], c)' = Due(t, c) /\ Due(bbs[n], c) = Due(s, c)
  BY DEF LookupBID, s, t
<1> HIDE DEF Due
<1>9. due' \in [BBS -> [Bid -> SUBSET BBS]]
  BY <1>6
<1>10. \A q \in BBS \ {n} : due'[q] = due[q]
  BY <1>7
<1>11. \A c \in Bid : /\ due[n][c] \subseteq due'[n][c]
                      /\ due'[n][c] \subseteq IF c \in at[n] THEN Routes[c][n] ELSE {}
  BY <1>3, <1>4, <1>8 DEF s
<1> HIDE DEF at, due
<1>12. Relay!Recounts(n)
  BY <1>5, <1>9, <1>10 DEF Relay!Recounts, Due, Bids, at, due
<1> QED
  BY <1>11, <1>12 DEF Relay!Forget, Due, Bids, at, due

\* A BBS waits for what its partner has, and sends its way.
Fetched(k, n) ==
    \A b \in ToSet(bbs[n].session[k].want) :
       b \in Bids(bbs[Other(k, n)]) /\ n \in Routes[b][Other(k, n)]

RelayInv ==
    /\ \A n \in BBS : Owed(bbs[n])
    /\ \A k \in Open : \A n \in End(k) : Addressed(bbs[n], k) /\ Fetched(k, n)

\* What a BBS waits for stays at its partner.
LEMMA FetchedKept ==
  ASSUME Inv, Inv', \A n \in BBS : Grown(bbs[n], bbs'[n]), NEW k \in Open, NEW n \in End(k),
         conn'[k] = conn[k], bbs'[n].session[k] = bbs[n].session[k], Fetched(k, n)
  PROVE  Fetched(k, n)'
<1> DEFINE m == Other(k, n)
<1>1. m \in BBS /\ Other(k, n)' = m
  BY OpenEnds DEF Other
<1>2. Bids(bbs[m]) \subseteq Bids(bbs'[m])
  BY <1>1, GrownBids DEF Inv, BoxesGood
<1> QED
  BY <1>1, <1>2 DEF Fetched

\* What the sessions other than c have offered and wait for stays in its place.
LEMMA RelayKept ==
  ASSUME Inv, RelayInv, Inv', \A n \in BBS : Owed(bbs'[n]),
         NEW c, Leaves(c),
         c \in Open' => \A n \in End(c)' : Addressed(bbs'[n], c) /\ Fetched(c, n)'
  PROVE  RelayInv'
<1>1. ASSUME NEW k \in Open', k # c, NEW n \in End(k)'
      PROVE  Addressed(bbs'[n], k) /\ Fetched(k, n)'
  <2>1. /\ k \in Open /\ conn'[k] = conn[k] /\ n \in End(k) /\ n \in BBS
        /\ bbs'[n].session[k] = bbs[n].session[k] /\ \A m \in BBS : Grown(bbs[m], bbs'[m])
    BY <1>1, OpenEnds DEF Leaves, Untouched, End
  <2>2. bbs[n] \in State /\ bbs'[n] \in State /\ bbs[n].me = n /\ bbs'[n].me = n
    BY <2>1 DEF Inv, BoxesGood
  <2>3. Addressed(bbs[n], k) /\ Fetched(k, n)
    BY <2>1 DEF RelayInv
  <2>4. Addressed(bbs'[n], k)
    BY <2>1, <2>2, <2>3, AddressedKept
  <2> QED
    BY <2>1, <2>3, <2>4, FetchedKept
<1>2. \A k \in Open' : \A n \in End(k)' : Addressed(bbs'[n], k) /\ Fetched(k, n)'
  BY <1>1
<1> QED
  BY <1>2 DEF RelayInv

\* Nothing is stored or settled, and a session that begins is with nothing.
LEMMA NothingRelayed ==
  ASSUME Inv, RelayInv, Inv', \A n \in BBS : bbs'[n].msg = bbs[n].msg,
         \A n \in BBS : bbs'[n].saved = bbs[n].saved,
         NEW c, Leaves(c),
         c \in Open' => \A n \in End(c)' : bbs'[n].session[c].hdr = << >> /\ bbs'[n].session[c].want = << >>
  PROVE  RelayInv' /\ UNCHANGED Relay!vars
<1>1. \A n \in BBS : Owed(bbs'[n])
  <2>1. \A n \in BBS : bbs[n].me = n /\ bbs'[n].me = n /\ Owed(bbs[n])
    BY DEF Inv, BoxesGood, RelayInv
  <2> QED
    BY <2>1 DEF Owed
<1>2. ToSet(<< >>) = {}
  BY DEF ToSet
<1>3. c \in Open' => \A n \in End(c)' : Addressed(bbs'[n], c) /\ Fetched(c, n)'
  BY <1>2 DEF Addressed, Proposed, Fetched
<1> QED
  BY <1>1, <1>3, RelayKept, SameMaps

-----------------------------------------------------------------------------
(* The steps.                                                              *)

\* A message that is posted is posted in the relay.
LEMMA PostRelays ==
  ASSUME Inv, OnceInv, RelayInv, Inv', NEW b \in Bid, Post(b)
  PROVE  RelayInv' /\ Relay!Post(b)
<1> DEFINE n == Origin[b]
           msg == New(b, n, Nobody, FALSE)
           s == bbs[n]
           t == CreateMessageFromBuffer(s, msg)
<1>1. /\ n \in BBS /\ msg \in Message /\ msg.bid = b /\ Good(s) /\ s.me = n
      /\ bbs'[n] = t /\ t.msg = Append(s.msg, msg)
      /\ (\A m \in BBS \ {n} : bbs'[m] = bbs[m])
      /\ b \notin posted /\ Leaves(0) /\ 0 \notin Open'
  BY PostLeaves
<1>2. msg.fbbs = Routes[b][n] \ {}
  <2>1. Nobody \notin Routes[b][n]
    BY <1>1, BlockAssumption, NobodyAssumption
  <2> QED
    BY <2>1 DEF New
<1>3. /\ \A i \in DOMAIN s.msg : t.msg[i] = s.msg[i]
      /\ Len(t.msg) = Len(s.msg) + 1 /\ t.msg[Len(t.msg)] = msg
  <2>1. s.msg \in Seq(Message)
    BY <1>1 DEF Good, State
  <2> HIDE DEF s, t, msg
  <2> QED
    BY <1>1, <2>1
<1> HIDE DEF n, msg
<1>4. Owed(t)
  BY <1>1, <1>2, StoreOwes DEF RelayInv
<1> HIDE DEF t
<1>5. Grown(bbs[n], bbs'[n])
  BY <1>1 DEF Leaves
<1>6. Relay!Store(n, b, {})
  BY <1>1, <1>2, <1>3, <1>5, StoreMaps DEF Inv
<1>7. RelayInv'
  <2>1. \A m \in BBS : Owed(bbs'[m])
    BY <1>1, <1>4 DEF RelayInv
  <2> QED
    BY <1>1, <2>1, RelayKept
<1>8. \A m \in BBS : b \notin Bids(bbs[m])
  BY <1>1 DEF OnceInv
<1> QED
  BY <1>6, <1>7, <1>8 DEF Relay!Post, Bids, n

\* A call, a connection, a break and a session's end are no steps of the relay's.
LEMMA CallRelays ==
  ASSUME Inv, RelayInv, Inv', NEW n \in BBS, NEW p \in BBS, Call(n, p)
  PROVE  RelayInv' /\ UNCHANGED Relay!vars
<1>1. /\ \A m \in BBS : bbs'[m].msg = bbs[m].msg /\ bbs'[m].saved = bbs[m].saved
      /\ \E k \in Conn : k \notin Open' /\ Leaves(k)
  BY CallLeaves
<1> QED
  BY <1>1, NothingRelayed

LEMMA ConnectOkRelays ==
  ASSUME Inv, RelayInv, Inv', NEW k \in Conn, ConnectOk(k)
  PROVE  RelayInv' /\ UNCHANGED Relay!vars
<1> DEFINE n == conn[k].to
           p == conn[k].from
<1>1. /\ conn'[k].from = p /\ conn'[k].to = n /\ Leaves(k)
      /\ bbs'[n].session[k] = Session(p, FALSE) /\ bbs'[p].session[k] = Session(n, TRUE)
      /\ \A m \in BBS : bbs'[m].msg = bbs[m].msg /\ bbs'[m].saved = bbs[m].saved
  BY ConnectOkLeaves
<1> HIDE DEF n, p
<1>2. \A q : /\ Session(q, TRUE).want = << >> /\ Session(q, TRUE).hdr = << >>
             /\ Session(q, FALSE).want = << >> /\ Session(q, FALSE).hdr = << >>
  BY DEF Session, NoSession
<1>3. \A m \in End(k)' : m \in {n, p}
  BY <1>1 DEF End
<1>4. \A m \in End(k)' : bbs'[m].session[k].hdr = << >> /\ bbs'[m].session[k].want = << >>
  BY <1>1, <1>2, <1>3
<1> QED
  BY <1>1, <1>4, NothingRelayed

LEMMA EndedRelays ==
  ASSUME Inv, RelayInv, Inv', NEW k \in Conn, ConnectFails(k) \/ Break(k)
  PROVE  RelayInv' /\ UNCHANGED Relay!vars
<1>1. bbs' = bbs /\ k \notin Open' /\ Leaves(k)
  BY EndedLeaves
<1> QED
  BY <1>1, NothingRelayed

LEMMA BBSDisconnectedRelays ==
  ASSUME Inv, RelayInv, Inv', NEW k \in Conn, NEW n \in BBS, BBSDisconnected(k, n)
  PROVE  RelayInv' /\ UNCHANGED Relay!vars
<1> DEFINE s == bbs[n]
           t == Disconnected(s, k)
<1>1. /\ bbs'[n] = t /\ (\A m \in BBS \ {n} : bbs'[m] = bbs[m])
      /\ k \notin Open' /\ Leaves(k) /\ \A m \in BBS : bbs'[m].msg = bbs[m].msg
  BY BBSDisconnectedLeaves
<1>2. Owed(t)
  <2>1. s \in State /\ Owed(s)
    BY DEF Inv, BoxesGood, RelayInv
  <2> QED
    BY <2>1, DisconnectedOwes
<1> HIDE DEF t
<1>3. \A m \in BBS : Owed(bbs'[m])
  BY <1>1, <1>2 DEF RelayInv
<1> QED
  BY <1>1, <1>3, RelayKept, SameMaps

\* A start from the file owes what the file says.
LEMMA CrashRelays ==
  ASSUME Inv, RelayInv, Inv', NEW n \in BBS, Crash(n)
  PROVE  RelayInv' /\ Relay!Forget(n)
<1> DEFINE s == bbs[n]
           t == Started(n, s.saved)
<1>1. /\ bbs'[n] = t /\ (\A m \in BBS \ {n} : bbs'[m] = bbs[m]) /\ 0 \notin Open' /\ Leaves(0)
  BY CrashLeaves
<1>2. /\ Owed(t) /\ DOMAIN t.msg = DOMAIN s.msg
      /\ \A i \in DOMAIN s.msg : /\ t.msg[i].bid = s.msg[i].bid /\ s.msg[i].fbbs \subseteq t.msg[i].fbbs
                                 /\ t.msg[i].fbbs \subseteq Routes[s.msg[i].bid][n]
  <2>1. Good(s) /\ s.me = n /\ Owed(s)
    BY DEF Inv, BoxesGood, RelayInv
  <2> HIDE DEF s
  <2> QED
    BY <2>1, StartedOwes
<1> HIDE DEF t
<1>3. \A m \in BBS : Owed(bbs'[m])
  BY <1>1, <1>2 DEF RelayInv
<1>4. RelayInv'
  BY <1>1, <1>3, RelayKept
<1>5. Relay!Forget(n)
  BY <1>1, <1>2, ForgetMaps DEF Inv
<1> QED
  BY <1>4, <1>5

\* What the line does to the messages of n.
LEMMA ReceiveTakes ==
  ASSUME Inv, RelayInv, NEW k \in Conn, NEW n \in BBS, Receive(k, n)
  PROVE  PaysOrTakes(bbs[n], ProcessFBBLine(bbs[n], k, Head(wire[k][n])), k)
<1> DEFINE m == Other(k, n)
           s == ProcessFBBLine(bbs[n], k, Head(wire[k][n]))
           x == bbs[m]
           y == bbs[n]
           wx == wire[k][m]
           wy == wire[k][n]
<1>1. ReceiveDoes(k, n, m, s)
  BY ReceiveStep
<1> HIDE DEF m, s
<1>2. /\ k \in Open /\ n \in End(k) /\ m \in BBS /\ m # n /\ Talk(k) /\ y.session[k].user = m
      /\ (conn[k].from = n /\ conn[k].to = m) \/ (conn[k].from = m /\ conn[k].to = n)
      /\ wy \in Seq(Lines) /\ wy # << >>
  BY <1>1 DEF ReceiveDoes, Open
<1>3. \/ Greeting(y.session[k], x.session[k], wy, wx)
      \/ Greeting(x.session[k], y.session[k], wx, wy)
      \/ Phase(k, x, y, wx, wy)
      \/ Phase(k, y, x, wy, wx)
  <2>1. CASE n = conn[k].from
    BY <1>2, <2>1 DEF Talk
  <2>2. CASE n = conn[k].to
    BY <1>2, <2>2 DEF Talk
  <2> QED
    BY <1>2, <2>1, <2>2 DEF End
<1>4. Good(x) /\ Good(y) /\ y.out[k] = << >> /\ y.session[k].user \in BBS
  BY <1>2 DEF Inv, BoxesGood, Fresh
<1>5. Owed(y) /\ Addressed(y, k)
  BY <1>2 DEF RelayInv
<1> HIDE DEF x, y, wx, wy
<1>6. PaysOrTakes(y, ProcessFBBLine(y, k, Head(wy)), k)
  BY <1>2, <1>3, <1>4, <1>5, LineTakes
<1> QED
  BY <1>6 DEF y, wy

\* A line copies a message from the partner, or counts what is there as passed on.
LEMMA ReceiveRelays ==
  ASSUME Inv, RelayInv, Inv', NEW k \in Conn, NEW n \in BBS, Receive(k, n)
  PROVE  RelayInv' /\ (Relay!Settle(n) \/ \E b \in Bid : \E m \in BBS : Relay!Copy(b, m, n))
<1> DEFINE m == Other(k, n)
           s == ProcessFBBLine(bbs[n], k, Head(wire[k][n]))
           x == bbs[m]
           y == bbs[n]
           t == bbs'[n]
<1>1. /\ ReceiveDoes(k, n, m, s) /\ Leaves(k) /\ (k \in s.shut => k \notin Open')
      /\ PaysOrTakes(y, s, k)
  BY ReceiveLeaves, ReceiveTakes
<1> HIDE DEF m, s
<1>2. /\ m \in BBS /\ m # n /\ End(k) = {n, m} /\ k \in Open /\ n \in End(k) /\ m \in End(k)
      /\ (conn[k].from = n /\ conn[k].to = m) \/ (conn[k].from = m /\ conn[k].to = n)
      /\ x.session[k].user = n /\ y.session[k].user = m
      /\ t.msg = s.msg /\ t.session = s.session /\ t.saved = s.saved
      /\ Grown(y, t) /\ \A q \in BBS \ {n} : bbs'[q] = bbs[q]
      /\ s.me = n /\ s \in State
  BY <1>1 DEF ReceiveDoes, Open, Moved, Inv, BoxesGood
<1>3. y \in State /\ t \in State /\ x \in State /\ x.me = m /\ y.me = n /\ t.me = n /\ bbs'[m] = x
      /\ Addressed(x, k) /\ Fetched(k, n) /\ Fetched(k, m) /\ Other(k, n) = m /\ Other(k, m) = n
  BY <1>2 DEF Inv, BoxesGood, RelayInv, Other
<1>4. Owed(s) /\ Addressed(s, k) /\ DOMAIN y.msg \subseteq DOMAIN s.msg
  BY <1>1 DEF PaysOrTakes, Pays, Takes, Holds
<1>5. Owed(t) /\ Addressed(t, k)
  BY <1>2, <1>3, <1>4 DEF Owed, Addressed, Proposed
<1>6. RelayInv'
  <2>1. \A q \in BBS : Owed(bbs'[q])
    BY <1>2, <1>5 DEF RelayInv
  <2>2. ASSUME k \in Open', NEW q \in End(k)'
        PROVE  Addressed(bbs'[q], k) /\ Fetched(k, q)'
    <3>1. /\ k \notin s.shut /\ conn' = conn /\ q \in {n, m} /\ Other(k, n)' = m
          /\ ToSet(s.session[k].want) \subseteq ToSet(y.session[k].want) \cup Proposed(x, x.session[k])
      <4>1. k \notin s.shut
        BY <1>1, <2>2
      <4>2. conn' = conn /\ q \in {n, m}
        BY <1>1, <1>2, <2>2, <4>1 DEF ReceiveDoes, End
      <4> QED
        BY <1>1, <1>3, <4>1, <4>2 DEF ReceiveDoes, Result, Passes, Other
    <3>2. CASE q = n
      <4>1. Proposed(x, x.session[k]) \subseteq Bids(x)
        BY DEF Proposed, Bids
      <4>2. \A b \in ToSet(s.session[k].want) : b \in Bids(x) /\ n \in Routes[b][m]
        BY <1>2, <1>3, <3>1, <4>1 DEF Fetched, Addressed
      <4> QED
        BY <1>2, <1>3, <1>5, <3>1, <3>2, <4>2 DEF Fetched
    <3>3. CASE q = m
      <4>1. \A r \in BBS : Grown(bbs[r], bbs'[r])
        BY <1>1 DEF Leaves
      <4> QED
        BY <1>2, <1>3, <3>1, <3>3, <4>1, FetchedKept
    <3> QED
      BY <3>1, <3>2, <3>3
  <2> QED
    BY <1>1, <2>1, <2>2, RelayKept
<1>7. CASE Len(s.msg) = Len(y.msg) /\ Pays(y, s, k)
  <2>1. DOMAIN t.msg = DOMAIN y.msg
    <3>1. DOMAIN s.msg = 1 .. Len(s.msg) /\ DOMAIN y.msg = 1 .. Len(y.msg)
      BY <1>2, <1>3 DEF State
    <3> QED
      BY <1>2, <1>7, <3>1
  <2>2. \A i \in DOMAIN y.msg : /\ t.msg[i].bid = y.msg[i].bid /\ t.msg[i].fbbs \subseteq y.msg[i].fbbs
                                /\ y.msg[i].fbbs \subseteq t.msg[i].fbbs \cup t.msg[i].forw
    BY <1>2, <1>7 DEF Pays, Grown
  <2>3. Relay!Settle(n)
    BY <1>2, <2>1, <2>2, SettleMaps DEF Inv
  <2> QED
    BY <1>6, <2>3
<1>8. CASE Takes(y, s, k)
  <2> DEFINE r == t.msg[Len(t.msg)]
  <2>1. /\ Len(t.msg) = Len(y.msg) + 1 /\ y.session[k].want # << >> /\ r.bid = Head(y.session[k].want)
        /\ r.fbbs = Routes[r.bid][n] \ {m} /\ \A i \in DOMAIN y.msg : t.msg[i].fbbs = y.msg[i].fbbs
    BY <1>2, <1>3, <1>8 DEF Takes, Holds
  <2>2. r.bid \in Bid /\ r.bid \in ToSet(y.session[k].want)
    <3>1. y.session[k].want \in Seq(Bid)
      BY <1>3 DEF State, Sessions
    <3> HIDE DEF y, r
    <3>2. Head(y.session[k].want) = y.session[k].want[1] /\ 1 \in DOMAIN y.session[k].want
          /\ Head(y.session[k].want) \in Bid
      BY <2>1, <3>1
    <3> QED
      BY <2>1, <3>2 DEF ToSet
  <2>3. PICK b \in Bid, p \in BBS : b = r.bid /\ p = m
    BY <1>2, <2>2
  <2>4. b \in Bids(bbs[p]) /\ n \in Routes[b][p]
    BY <1>3, <2>2, <2>3 DEF Fetched
  <2>5. Relay!Store(n, b, {p})
    <3>1. t.msg[Len(t.msg)].bid = b /\ t.msg[Len(t.msg)].fbbs = Routes[b][n] \ {p}
      BY <2>1, <2>3
    <3> QED
      BY <1>2, <2>1, <3>1, StoreMaps DEF Inv
  <2>6. Relay!Copy(b, p, n)
    BY <1>2, <2>4, <2>5 DEF Relay!Copy, Bids
  <2> QED
    BY <1>6, <2>6
<1> QED
  BY <1>1, <1>7, <1>8 DEF PaysOrTakes

\* Every step is one of the relay's, or none.
LEMMA RelayStep ==
  ASSUME Inv, OnceInv, RelayInv, Inv', [Next]_vars
  PROVE  RelayInv' /\ [Relay!Next]_(Relay!vars)
<1>1. ASSUME NEW b \in Bid, Post(b)
      PROVE  RelayInv' /\ Relay!Next
  BY <1>1, PostRelays DEF Relay!Next
<1>2. ASSUME NEW n \in BBS, NEW p \in BBS, Call(n, p)
      PROVE  RelayInv' /\ UNCHANGED Relay!vars
  BY <1>2, CallRelays
<1>3. ASSUME NEW k \in Conn, ConnectOk(k)
      PROVE  RelayInv' /\ UNCHANGED Relay!vars
  BY <1>3, ConnectOkRelays
<1>4. ASSUME NEW k \in Conn, NEW n \in BBS, Receive(k, n)
      PROVE  RelayInv' /\ Relay!Next
  BY <1>4, ReceiveRelays DEF Relay!Next
<1>5. ASSUME NEW k \in Conn, NEW n \in BBS, BBSDisconnected(k, n)
      PROVE  RelayInv' /\ UNCHANGED Relay!vars
  BY <1>5, BBSDisconnectedRelays
<1>6. ASSUME NEW k \in Conn, ConnectFails(k) \/ Break(k)
      PROVE  RelayInv' /\ UNCHANGED Relay!vars
  BY <1>6, EndedRelays
<1>7. ASSUME NEW n \in BBS, Crash(n)
      PROVE  RelayInv' /\ Relay!Next
  BY <1>7, CrashRelays DEF Relay!Next
<1>8. ASSUME UNCHANGED vars
      PROVE  RelayInv' /\ UNCHANGED Relay!vars
  <2>1. bbs' = bbs /\ conn' = conn
    BY <1>8 DEF vars
  <2>2. \A k, n : Other(k, n)' = Other(k, n) /\ End(k)' = End(k)
    BY <2>1 DEF Other, End
  <2>3. (\A k, n : Fetched(k, n)' = Fetched(k, n)) /\ Open' = Open
    BY <2>1, <2>2 DEF Fetched, Open
  <2>4. RelayInv'
    BY <2>1, <2>2, <2>3 DEF RelayInv
  <2> QED
    BY <2>1, <2>4, SameMaps
<1> QED
  BY <1>1, <1>2, <1>3, <1>4, <1>5, <1>6, <1>7, <1>8, Zenon DEF Next, Calling, Proceeds

\* At first there is nothing.
LEMMA RelayInit ==
  ASSUME Init
  PROVE  RelayInv /\ Relay!Init
<1>1. Open = {}
  BY DEF Init, Open, Unused
<1>2. \A n \in BBS : bbs[n].msg = << >>
  BY FreshGood DEF Init
<1>3. \A n \in BBS : Owed(bbs[n])
  BY <1>2 DEF Owed
<1>4. RelayInv
  BY <1>1, <1>3 DEF RelayInv
<1>5. \A n \in BBS : {bbs[n].msg[m].bid : m \in DOMAIN bbs[n].msg} = {}
  BY <1>2
<1>6. \A n \in BBS : \A b \in Bid : UNION {bbs[n].msg[m].fbbs : m \in LookupBID(bbs[n], b)} = {}
  BY <1>2 DEF LookupBID
<1> QED
  BY <1>4, <1>5, <1>6 DEF Relay!Init

\* What is owed, offered and waited for is as it should be.
LEMMA RelayInvariance == Spec => []RelayInv
<1>1. Init => RelayInv
  BY RelayInit
<1>2. Inv /\ OnceInv /\ RelayInv /\ Inv' /\ [Next]_vars => RelayInv'
  BY RelayStep
<1> QED
  BY <1>1, <1>2, Invariance, OnceInvariance, PTL DEF Spec

\* The BBSs are a mail relay: each message goes along its routes and nowhere else, and a
\* BBS that has it owes it to each of them until that one has it too.  No session that
\* breaks, restarts or crosses another, no private message that comes again and no
\* crash makes a BBS strike out what its partner has not stored (FlagSentMessages,
\* ProcessFS), or forget where a message is to go (CreateMessageFromBuffer, Started).
THEOREM MailIsRelayed == Spec => Relays
<1>1. Init => Relay!Init
  BY RelayInit
<1>2. Inv /\ OnceInv /\ RelayInv /\ Inv' /\ [Next]_vars => [Relay!Next]_(Relay!vars)
  BY RelayStep
<1> QED
  BY <1>1, <1>2, Invariance, OnceInvariance, RelayInvariance, PTL DEF Spec, Relays, Relay!Spec

\* What the relay does never loses a message nor lets one stray.
LEMMA RelayKeeps ==
  ASSUME BoxesGood, BoxesGood', Relay!NothingLost, Relay!NoStrays, [Relay!Next]_(Relay!vars)
  PROVE  Relay!NothingLost' /\ Relay!NoStrays'
<1> DEFINE at == [n \in BBS |-> {bbs[n].msg[m].bid : m \in DOMAIN bbs[n].msg}]
           due == [n \in BBS |-> [b \in Bid |-> UNION {bbs[n].msg[m].fbbs : m \in LookupBID(bbs[n], b)}]]
           Owes(at1, due1) ==
              \A n \in BBS : \A b \in at1[n] : \A p \in Routes[b][n] : p \in due1[n][b] \/ b \in at1[p]
           Stored(at1, due1, at2, due2, n, b, back) ==
              /\ \A q \in BBS : at2[q] = at1[q] \cup IF q = n THEN {b} ELSE {}
              /\ \A q \in BBS : \A c \in Bid :
                    due2[q][c] = IF q = n /\ c = b THEN due1[q][c] \cup (Routes[b][n] \ back) ELSE due1[q][c]
           Comes(at1) ==
              \A n \in BBS : \A b \in at1[n] : n = Origin[b] \/ \E m \in BBS : b \in at1[m] /\ n \in Routes[b][m]
<1>1. PICK a, d, v, w : a = at /\ d = due /\ v = at' /\ w = due'
  OBVIOUS
<1>2. /\ DOMAIN a = BBS /\ DOMAIN d = BBS /\ DOMAIN v = BBS /\ DOMAIN w = BBS
      /\ \A n \in BBS : DOMAIN d[n] = Bid
  BY <1>1
<1>3. Owes(a, d) /\ Comes(a)
  BY <1>1 DEF Relay!NothingLost, Relay!NoStrays
<1>4. SUFFICES Owes(v, w) /\ Comes(v)
  BY <1>1 DEF Relay!NothingLost, Relay!NoStrays
<1>5. \A q \in BBS : v[q] \subseteq Bid
  <2>1. \A q \in BBS : \A m \in DOMAIN bbs'[q].msg : bbs'[q].msg[m].bid \in Bid
    <3> SUFFICES ASSUME NEW q \in BBS, NEW m \in DOMAIN bbs'[q].msg PROVE bbs'[q].msg[m].bid \in Bid
      OBVIOUS
    <3>1. bbs'[q] \in State
      BY DEF BoxesGood
    <3>2. bbs'[q].msg[m] \in Message
      BY <3>1 DEF State
    <3> QED
      BY <3>2 DEF Message
  <2> QED
    BY <1>1, <2>1
<1>6. \A q \in BBS : \A c \in v[q] : c \in Bid /\ \A p \in Routes[c][q] : p \in BBS
  BY <1>5, BlockAssumption
<1> HIDE DEF at, due
<1>7. ASSUME NEW n \in BBS, NEW b \in Bid, NEW back,
             Stored(a, d, v, w, n, b, back),
             \A p \in back : p \in BBS /\ b \in a[p],
             n = Origin[b] \/ \E m \in BBS : b \in a[m] /\ n \in Routes[b][m]
      PROVE  Owes(v, w) /\ Comes(v)
  <2>1. /\ \A q \in BBS : v[q] = a[q] \cup IF q = n THEN {b} ELSE {}
        /\ \A q \in BBS : \A c \in Bid :
              w[q][c] = IF q = n /\ c = b THEN d[q][c] \cup (Routes[b][n] \ back) ELSE d[q][c]
    BY <1>7
  <2>2. ASSUME NEW q \in BBS, NEW c \in v[q], NEW p \in Routes[c][q]
        PROVE  p \in w[q][c] \/ c \in v[p]
    <3>1. CASE c \in a[q]
      BY <1>3, <1>6, <2>1, <2>2, <3>1
    <3>2. CASE q = n /\ c = b
      BY <1>6, <1>7, <2>1, <2>2, <3>2
    <3> QED
      BY <2>1, <2>2, <3>1, <3>2
  <2>3. ASSUME NEW q \in BBS, NEW c \in v[q]
        PROVE  q = Origin[c] \/ \E m \in BBS : c \in v[m] /\ q \in Routes[c][m]
    <3>1. CASE c \in a[q]
      BY <1>3, <2>1, <2>3, <3>1
    <3>2. CASE q = n /\ c = b
      BY <1>7, <2>1, <2>3, <3>2
    <3> QED
      BY <2>1, <2>3, <3>1, <3>2
  <2> QED
    BY <2>2, <2>3
<1>8. ASSUME v = a,
             \A q \in BBS : \A c \in Bid : \A p \in d[q][c] : p \in w[q][c] \/ c \in a[p]
      PROVE  Owes(v, w) /\ Comes(v)
  <2>1. Owes(v, w)
    BY <1>3, <1>6, <1>8
  <2> QED
    BY <1>3, <1>8, <2>1
<1>9. CASE \E b \in Bid : Relay!Post(b)
  <2>1. PICK b \in Bid : Relay!Post(b)
    BY <1>9
  <2>2. PICK n \in BBS : n = Origin[b]
    BY NetAssumption
  <2>3. Relay!Store(n, b, {})
    BY <2>1, <2>2 DEF Relay!Post
  <2>4. v = [a EXCEPT ![n] = @ \cup {b}] /\ w = [d EXCEPT ![n][b] = @ \cup (Routes[b][n] \ {})]
    BY <1>1, <2>3 DEF Relay!Store, at, due
  <2>5. Stored(a, d, v, w, n, b, {})
    BY <1>2, <2>4
  <2> HIDE DEF Owes, Comes, Stored
  <2> QED
    BY <1>7, <2>2, <2>5
<1>10. CASE \E b \in Bid : \E m, n \in BBS : Relay!Copy(b, m, n)
  <2>1. PICK b \in Bid, m \in BBS, n \in BBS : Relay!Copy(b, m, n)
    BY <1>10
  <2>2. b \in a[m] /\ n \in Routes[b][m]
    BY <1>1, <2>1 DEF Relay!Copy, at
  <2>3. v = [a EXCEPT ![n] = @ \cup {b}] /\ w = [d EXCEPT ![n][b] = @ \cup (Routes[b][n] \ {m})]
    BY <1>1, <2>1 DEF Relay!Copy, Relay!Store, at, due
  <2>4. Stored(a, d, v, w, n, b, {m})
    BY <1>2, <2>3
  <2> HIDE DEF Owes, Comes, Stored
  <2> QED
    BY <1>7, <2>2, <2>4
<1>11. CASE \E n \in BBS : Relay!Settle(n)
  <2>1. PICK n \in BBS : Relay!Settle(n)
    BY <1>11
  <2>2. /\ v = a /\ \A m \in BBS \ {n} : w[m] = d[m]
        /\ \A b \in Bid : \A p \in d[n][b] \ w[n][b] : b \in a[p]
    BY <1>1, <2>1 DEF Relay!Settle, Relay!Recounts, at, due
  <2>3. \A q \in BBS : \A c \in Bid : \A p \in d[q][c] : p \in w[q][c] \/ c \in a[p]
    BY <2>2
  <2> HIDE DEF Owes, Comes
  <2> QED
    BY <1>8, <2>2, <2>3
<1>12. CASE \E n \in BBS : Relay!Forget(n)
  <2>1. PICK n \in BBS : Relay!Forget(n)
    BY <1>12
  <2>2. v = a /\ (\A m \in BBS \ {n} : w[m] = d[m]) /\ \A b \in Bid : d[n][b] \subseteq w[n][b]
    BY <1>1, <2>1 DEF Relay!Forget, Relay!Recounts, at, due
  <2>3. \A q \in BBS : \A c \in Bid : \A p \in d[q][c] : p \in w[q][c] \/ c \in a[p]
    BY <2>2
  <2> HIDE DEF Owes, Comes
  <2> QED
    BY <1>8, <2>2, <2>3
<1>13. CASE UNCHANGED Relay!vars
  <2>1. v = a /\ w = d
    BY <1>1, <1>13 DEF Relay!vars, at, due
  <2>2. \A q \in BBS : \A c \in Bid : \A p \in d[q][c] : p \in w[q][c] \/ c \in a[p]
    BY <2>1
  <2> HIDE DEF Owes, Comes
  <2> QED
    BY <1>8, <2>1, <2>2
<1> QED
  BY <1>9, <1>10, <1>11, <1>12, <1>13 DEF Relay!Next

\* So in every state a message is at each BBS that its routes lead to or is still owed
\* to it, and came to each BBS along a route from one that has it.
THEOREM NothingIsLost == Spec => [](Relay!NothingLost /\ Relay!NoStrays)
<1>1. Relay!Init => Relay!NothingLost /\ Relay!NoStrays
  BY DEF Relay!Init, Relay!NothingLost, Relay!NoStrays
<1>2. /\ Inv /\ Inv' /\ [Relay!Next]_(Relay!vars) /\ Relay!NothingLost /\ Relay!NoStrays
      => Relay!NothingLost' /\ Relay!NoStrays'
  BY RelayKeeps DEF Inv
<1> QED
  BY <1>1, <1>2, Invariance, MailIsRelayed, PTL DEF Relays, Relay!Spec
=============================================================================
