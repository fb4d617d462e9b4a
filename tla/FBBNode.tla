------------------------------- MODULE FBBNode -------------------------------
(***************************************************************************)
(* What one BBS keeps of the messages it forwards, and what it does with   *)
(* a line of the FBB protocol (FBBRoutines.c): the messages, each with the *)
(* BBSs it is for (fbbs) and those that have it (forw), the BIDs being     *)
(* received, the data saved of a broken transfer, and the sessions with    *)
(* its partners.  Each handler is an operator from a BBS to a BBS.         *)
(*                                                                         *)
(* Partners are BPQ BBSs that use FA proposals and compressed blocks with  *)
(* restarts (B1).  A message is two parts of text, so that a session can   *)
(* break between them.  A message has its index as number; its BID record  *)
(* is made with it and saved with it.  Traffic messages, held messages,    *)
(* filters, size limits and housekeeping are left out.                     *)
(*                                                                         *)
(* What a handler sends and which sessions it closes are left in out and   *)
(* shut, for the network to take up.                                       *)
(***************************************************************************)
EXTENDS Integers, SequencesExt

CONSTANTS
    BBS, Nobody,
    Bid,
    Type,        \* [Bid -> {"P", "B"}]: private or bulletin
    Routes,      \* [Bid -> [BBS -> SUBSET BBS]]: where each BBS sends it on to
    MaxBlock,    \* proposals in a block: 5 in the code
    DeferCycles, \* how often a deferred message is passed over: 4
    MaxRestart,  \* how often one is restarted: 3
    MaxConn      \* how many sessions there may be

Conn == 1 .. MaxConn

ASSUME BlockAssumption ==
    /\ Type \in [Bid -> {"P", "B"}] /\ Routes \in [Bid -> [BBS -> SUBSET BBS]]
    /\ MaxBlock \in Nat \ {0} /\ DeferCycles \in Nat /\ MaxRestart \in Nat /\ MaxConn \in Nat
ASSUME NobodyAssumption == Nobody \notin BBS

Answer  == {"+", "-", "=", "!"}
Message == [bid : Bid, fbbs : SUBSET BBS, forw : SUBSET BBS, Defered : 0 .. DeferCycles,
            restarted : BOOLEAN, status : {"N", "Y", "H", "F", "$"}]

(* Of a session: the partner, who called, the messages proposed or sent    *)
(* (FBBHeaders, 0 for one that is zapped), those to come, the parts there  *)
(* are of the first of them, and whether its buffer is that of the         *)
(* restart record.                                                         *)
Sessions ==
    [Active : BOOLEAN, user : BBS \cup {Nobody}, outward : BOOLEAN,
     hdr : Seq(Nat), FBBMsgsSent : BOOLEAN, NextMessagetoForward : Nat \ {0},
     LastForwardType : {"", "P", "B"}, want : Seq(Bid), length : 0 .. 2, shared : BOOLEAN]
NoSession ==
    [Active |-> FALSE, user |-> Nobody, outward |-> FALSE,
     hdr |-> << >>, FBBMsgsSent |-> FALSE, NextMessagetoForward |-> 1, LastForwardType |-> "",
     want |-> << >>, length |-> 0, shared |-> FALSE]
Session(user, outward) ==
    [NoSession EXCEPT !.Active = TRUE, !.user = user, !.outward = outward]

\* The list of restart records never has more than one: SaveFBBBinary takes the
\* last that it has looked at when it finds none that fits.
NoRestart == [user |-> Nobody]
Restarts  == [user : BBS \cup {Nobody}, bid : Bid, Count : 0 .. MaxRestart, live : BOOLEAN]

Lines ==
    [kind : {"prompt", "SID", "FF", "FQ"}] \cup [kind : {"FA"}, bids : Seq(Bid)]
    \cup [kind : {"FS"}, answers : Seq(Answer)]
    \cup [kind : {"text"}, bid : Bid, from : 0 .. 1, upto : 1 .. 2]

State ==
    [me : BBS, msg : Seq(Message), temp : SUBSET [bid : Bid, conn : Conn],
     restart : {NoRestart} \cup Restarts, Forwarding : [BBS -> BOOLEAN],
     session : [Conn -> Sessions], out : [Conn -> Seq(Lines)], shut : SUBSET Conn,
     saved : Seq(Message)]

Fresh(me) ==
    [me |-> me, msg |-> << >>,
     temp |-> {},                               \* TempBIDs
     restart |-> NoRestart,
     Forwarding |-> [p \in BBS |-> FALSE],      \* a session with the partner
     session |-> [k \in Conn |-> NoSession],
     out |-> [k \in Conn |-> << >>],
     shut |-> {},
     saved |-> << >>]                           \* the messages on file

\* A BBS that starts with messages on file: none is deferred any more.
Started(me, file) ==
    [Fresh(me) EXCEPT !.msg = [m \in DOMAIN file |-> [file[m] EXCEPT !.Defered = 0]], !.saved = file]

Send(s, k, line) == [s EXCEPT !.out[k] = Append(@, line)]
Disconnect(s, k) == [s EXCEPT !.shut = @ \cup {k}]

Line(kind) == [kind |-> kind]
Text(b, from, upto) == [kind |-> "text", bid |-> b, from |-> from, upto |-> upto]

LookupBID(s, b) == {m \in DOMAIN s.msg : s.msg[m].bid = b}
LookupTempBID(s, b) == \E t \in s.temp : t.bid = b
AddTempBID(s, k, b) == [s EXCEPT !.temp = @ \cup {[bid |-> b, conn |-> k]}]
RemoveTempBIDS(s, k) == [s EXCEPT !.temp = {t \in @ : t.conn # k}]

-----------------------------------------------------------------------------
(* What there is to send.                                                  *)

For(s, p) == {m \in DOMAIN s.msg : p \in s.msg[m].fbbs}
SeeifMessagestoForward(s, p) == For(s, p) # {}

\* Up to MaxBlock messages of a type, and the deferred ones passed over.
Queued(s, k, type) ==
    {m \in For(s, s.session[k].user) : /\ m >= s.session[k].NextMessagetoForward
                                       /\ Type[s.msg[m].bid] = type}
Ready(s, k, type) ==
    LET all == {m \in Queued(s, k, type) : s.msg[m].Defered = 0}
    IN  {m \in all : Cardinality({j \in all : j < m}) < MaxBlock}

\* The numbers of a set in order.
Ascending(S) == CHOOSE q \in [1 .. Cardinality(S) -> S] :
                    \A i, j \in 1 .. Cardinality(S) : i < j => q[i] < q[j]

PassOver(msg) == [msg EXCEPT !.Defered = @ - 1]

FindMessagestoForwardLoop(s, k, type) ==
    LET e     == s.session[k]
        block == Ready(s, k, type)
        last  == IF Cardinality(block) = MaxBlock THEN Max(block) ELSE Len(s.msg)
        past  == {m \in Queued(s, k, type) : s.msg[m].Defered # 0 /\ m <= last}
    IN  [s EXCEPT
           !.msg = [m \in DOMAIN @ |-> IF m \in past THEN PassOver(@[m]) ELSE @[m]],
           !.session[k] = IF block = {} THEN [e EXCEPT !.hdr = << >>]
                          ELSE [e EXCEPT !.hdr = Ascending(block), !.LastForwardType = type,
                                         !.NextMessagetoForward = Max(block) + 1]]

\* Private messages first; then bulletins, from the start if there were any.
FindMessagestoForward(s, k) ==
    LET p == FindMessagestoForwardLoop(s, k, "P")
        r == [p EXCEPT !.session[k].NextMessagetoForward =
                          IF p.session[k].LastForwardType = "P" THEN 1 ELSE @]
        b == FindMessagestoForwardLoop(r, k, "B")
    IN  IF p.session[k].hdr # << >> THEN p
        ELSE IF b.session[k].hdr # << >> THEN b
        ELSE [b EXCEPT !.session[k].LastForwardType = ""]

\* A block of proposals or, when there are none, another line.
FBBDoForward(s, k, otherwise) ==
    LET f == FindMessagestoForward(s, k)
        h == f.session[k].hdr
    IN  IF h = << >> THEN Send(f, k, Line(otherwise))
        ELSE Send(f, k, [kind |-> "FA", bids |-> [i \in DOMAIN h |-> f.msg[h[i]].bid]])

\* A partner has a message: it need not be sent there.
Forwarded(msg, p) ==
    [msg EXCEPT !.fbbs = @ \ {p}, !.forw = @ \cup {p},
                !.status = IF msg.fbbs \subseteq {p} THEN "F" ELSE @]

FlagAll(s, k, H) ==
    [s EXCEPT !.msg = [m \in DOMAIN @ |-> IF m \in H THEN Forwarded(@[m], s.session[k].user) ELSE @[m]]]

\* A line has come after the messages were sent: the partner has them.
FlagSentMessages(s, k) ==
    IF ~s.session[k].FBBMsgsSent THEN s
    ELSE [FlagAll(s, k, ToSet(s.session[k].hdr) \ {0}) EXCEPT
             !.session[k].hdr = << >>, !.session[k].FBBMsgsSent = FALSE]

Defer(msg) == [msg EXCEPT !.Defered = DeferCycles]

\* A mutant: what has been sent counts as received.
ProcessFS_Flags(s, k, answers) ==
    LET h == s.session[k].hdr
        Answered(c) == {h[i] : i \in {j \in DOMAIN h : answers[j] \in c}}
        t == FlagAll(s, k, Answered({"-", "+", "!"}))
    IN  [t EXCEPT
           !.msg = [m \in DOMAIN @ |-> IF m \in Answered({"="}) THEN Defer(@[m]) ELSE @[m]],
           !.session[k].hdr = [i \in DOMAIN h |-> IF answers[i] \in {"+", "!"} THEN h[i] ELSE 0],
           !.session[k].FBBMsgsSent = @ \/ Answered({"+", "!"}) # {},
           !.out[k] = @ \o FlattenSeq([i \in DOMAIN h |->
                  CASE answers[i] = "+" -> << Text(s.msg[h[i]].bid, 0, 1), Text(s.msg[h[i]].bid, 1, 2) >>
                    [] answers[i] = "!" -> << Text(s.msg[h[i]].bid, 1, 2) >>
                    [] OTHER -> << >>])]

\* FS: what is not wanted counts as sent, what is deferred is left for a while,
\* and the others are sent, from the start or from where a transfer broke.
ProcessFS(s, k, answers) ==
    LET h == s.session[k].hdr
        Answered(c) == {h[i] : i \in {j \in DOMAIN h : answers[j] \in c}}
        t == FlagAll(s, k, Answered({"-"}))
    IN  [t EXCEPT
           !.msg = [m \in DOMAIN @ |-> IF m \in Answered({"="}) THEN Defer(@[m]) ELSE @[m]],
           !.session[k].hdr = [i \in DOMAIN h |-> IF answers[i] \in {"+", "!"} THEN h[i] ELSE 0],
           !.session[k].FBBMsgsSent = @ \/ Answered({"+", "!"}) # {},
           !.out[k] = @ \o FlattenSeq([i \in DOMAIN h |->
                  CASE answers[i] = "+" -> << Text(s.msg[h[i]].bid, 0, 1), Text(s.msg[h[i]].bid, 1, 2) >>
                    [] answers[i] = "!" -> << Text(s.msg[h[i]].bid, 1, 2) >>
                    [] OTHER -> << >>])]

-----------------------------------------------------------------------------
(* What there is to receive.                                               *)

Current(s, b) == \E m \in LookupBID(s, b) :
                    /\ \A j \in LookupBID(s, b) : m <= j
                    /\ s.msg[m].status \in {"N", "Y", "H"}

\* A bulletin is wanted once, a private message again when it has been sent on.
DoWeWantIt(s, b) == LookupBID(s, b) = {} \/ (Type[b] = "P" /\ ~Current(s, b))

HasRestart(s, k, b) == s.restart # NoRestart /\ s.restart.user = s.session[k].user /\ s.restart.bid = b

Proposal_KeepsHeader(s, k, b) ==     \* a mutant: what is deferred is waited for
    IF ~DoWeWantIt(s, b) THEN [s |-> s, answer |-> "-"]
    ELSE IF LookupTempBID(s, b)
    THEN [s |-> [s EXCEPT !.session[k].want = Append(@, b)], answer |-> "="]
    ELSE [s |-> [AddTempBID(s, k, b) EXCEPT !.session[k].want = Append(@, b)], answer |-> "+"]

Proposal_NoTemp(s, k, b) ==          \* a mutant: it is not noted that b is coming
    IF ~DoWeWantIt(s, b) THEN [s |-> s, answer |-> "-"]
    ELSE IF HasRestart(s, k, b) /\ s.restart.Count < MaxRestart
    THEN [s |-> [s EXCEPT !.restart.Count = @ + 1, !.session[k].want = Append(@, b)], answer |-> "!"]
    ELSE LET t == IF HasRestart(s, k, b) THEN [s EXCEPT !.restart = NoRestart] ELSE s
         IN  [s |-> [t EXCEPT !.session[k].want = Append(@, b)], answer |-> "+"]
\* How one proposal is answered: a restart is asked for MaxRestart times.
Proposal(s, k, b) ==
    IF ~DoWeWantIt(s, b) THEN [s |-> s, answer |-> "-"]
    ELSE IF HasRestart(s, k, b) /\ s.restart.Count < MaxRestart
    THEN [s |-> [s EXCEPT !.restart.Count = @ + 1, !.session[k].want = Append(@, b)], answer |-> "!"]
    ELSE LET t == IF HasRestart(s, k, b) THEN [s EXCEPT !.restart = NoRestart] ELSE s
         IN  IF LookupTempBID(s, b) THEN [s |-> t, answer |-> "="]
             ELSE [s |-> [AddTempBID(t, k, b) EXCEPT !.session[k].want = Append(@, b)], answer |-> "+"]

\* A message is about to come.  When it is no longer wanted, the session ends:
\* what the code makes of its text, with no header to put it to, is not followed.
CreateMessage(s, k) ==
    LET b == Head(s.session[k].want)
    IN  IF ~DoWeWantIt(s, b) THEN Disconnect([s EXCEPT !.session[k].want = << >>], k)
        ELSE [AddTempBID(s, k, b) EXCEPT !.session[k].length = 0, !.session[k].shared = FALSE]

SetupNextFBBMessage(s, k) ==
    IF s.session[k].want = << >> THEN FBBDoForward(s, k, "FF") ELSE CreateMessage(s, k)

\* The proposals of a block are answered in turn.  A mutant: there is no answer for
\* what is deferred.
Answers_SkipsDeferred(s, k, bids) ==
    LET r[i \in 0 .. Len(bids)] ==
            IF i = 0 THEN [s |-> s, answers |-> << >>]
            ELSE LET x == r[i - 1]
                     y == Proposal(x.s, k, bids[i])
                 IN  [s |-> y.s, answers |-> IF y.answer = "=" THEN x.answers
                                             ELSE Append(x.answers, y.answer)]
    IN  r[Len(bids)]
Answers(s, k, bids) ==
    LET r[i \in 0 .. Len(bids)] ==
            IF i = 0 THEN [s |-> s, answers |-> << >>]
            ELSE LET x == r[i - 1]
                     y == Proposal(x.s, k, bids[i])
                 IN  [s |-> y.s, answers |-> Append(x.answers, y.answer)]
    IN  r[Len(bids)]

\* A block of proposals, and its end.
ProcessBlock(s, k, bids) ==
    LET r == Answers(FlagSentMessages(s, k), k, bids)
    IN  SetupNextFBBMessage(Send(r.s, k, [kind |-> "FS", answers |-> r.answers]), k)

\* A message is complete: stored, with its BID, on file, and on its way to others.
New(b, me, from, restarted) ==
    [bid |-> b, fbbs |-> Routes[b][me] \ {from}, forw |-> {}, Defered |-> 0, restarted |-> restarted,
     status |-> IF Type[b] = "B" /\ Routes[b][me] \ {from} # {} THEN "$" ELSE "N"]

CreateMessageFromBuffer_NotOnFile(s, msg) ==    \* a mutant: the base is not saved
    [s EXCEPT !.msg = Append(@, msg)]
CreateMessageFromBuffer(s, msg) ==
    [s EXCEPT !.msg = Append(@, msg), !.saved = Append(s.msg, msg)]

\* With its last part a message is stored.  The buffer goes; a restart record that
\* shares it stays.  One whose buffer has gone gives a text with a wrong checksum.
Decode(s, k, restarted) ==
    LET b    == Head(s.session[k].want)
        from == s.session[k].user
        t    == [s EXCEPT !.session[k].want = Tail(@), !.session[k].length = 0,
                          !.session[k].shared = FALSE,
                          !.restart = IF s.session[k].shared /\ HasRestart(s, k, b)
                                      THEN [@ EXCEPT !.live = FALSE] ELSE @]
    IN  IF s.session[k].shared /\ HasRestart(s, k, b) /\ ~s.restart.live
        THEN Disconnect([s EXCEPT !.session[k].want = << >>], k)
        ELSE SetupNextFBBMessage(CreateMessageFromBuffer(t, New(b, s.me, from, restarted)), k)

\* A part.  The first may say that it goes on from where the record ends.
UnpackFBBBinary(s, k, l) ==
    LET first   == s.session[k].length = 0
        restart == l.from = 1 /\ first
        t       == [s EXCEPT !.session[k].length = l.upto,
                             !.session[k].shared = @ \/ restart]
    IN  IF s.session[k].want = << >> THEN s
        ELSE IF restart /\ ~HasRestart(s, k, Head(s.session[k].want)) THEN Disconnect(s, k)
        ELSE IF l.upto = 2 THEN Decode(t, k, restart) ELSE t

-----------------------------------------------------------------------------
(* A line from the partner.                                                *)

\* SID of the caller: refused while there is a session with it, or a call to it.
ProcessSID(s, k) ==
    IF s.Forwarding[s.session[k].user] THEN Disconnect(s, k)
    ELSE [s EXCEPT !.Forwarding[s.session[k].user] = TRUE]

ProcessFBBLine(s, k, l) ==
    CASE l.kind = "prompt" -> FBBDoForward(Send(s, k, Line("SID")), k, "FF")
      [] l.kind = "SID"  -> ProcessSID(s, k)
      [] l.kind = "FA"   -> ProcessBlock(s, k, l.bids)
      [] l.kind = "FS"   -> ProcessFS(s, k, l.answers)
      [] l.kind = "text" -> UnpackFBBBinary(s, k, l)
      [] l.kind = "FF"   -> FBBDoForward(FlagSentMessages(s, k), k, "FQ")
      [] l.kind = "FQ"   -> Disconnect(FlagSentMessages(s, k), k)

\* A part of a message that has come is kept for a restart.
SaveFBBBinary(s, k) ==
    LET e == s.session[k]
    IN  IF e.length = 0 \/ e.want = << >> THEN s
        ELSE [s EXCEPT !.restart =
                [user |-> e.user, bid |-> Head(e.want),
                 Count |-> IF s.restart = NoRestart THEN 0 ELSE s.restart.Count,
                 live |-> ~e.shared \/ s.restart.live]]

Disconnected_KeepsTemp(s, k) ==      \* a mutant: what was coming stays deferred
    IF ~s.session[k].Active THEN s
    ELSE [SaveFBBBinary(s, k) EXCEPT !.session[k] = NoSession, !.Forwarding[s.session[k].user] = FALSE]
Disconnected(s, k) ==
    IF ~s.session[k].Active THEN s
    ELSE [RemoveTempBIDS(SaveFBBBinary(s, k), k) EXCEPT
             !.session[k] = NoSession, !.Forwarding[s.session[k].user] = FALSE]
=============================================================================
