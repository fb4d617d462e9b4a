# A verification of the LinBPQ node core

LinBPQ is a packet-radio node: it keeps AX.25 connections over radio ports,
NET/ROM routes and circuits above them, and applications (mail, chat, hosts) on
top.  This directory holds TLA+ models of its protocols, the TLC runs that check
them on small instances, and TLAPS proofs of what matters most for every value
of the constants.

Five parts are modelled, from the link up: the AX.25 data link, the transport
circuits, the routing between nodes, the chat network and the forwarding of mail
between BBSs.  All five are proved about as well.

## The system

All protocol code of the node runs in one loop.  `TIMERINTERRUPT` (cMain.c) is
called every 100 ms under one semaphore and does, in this order: port timers,
`L2TimerProc`, `L3TimerProc` and `L4TimerProc` when due, every frame each port
has received (`L2Routine`), then for each link the frames on `RX_Q` to the layer
above and `SDETX`, then `L4BG` and `L3BG`.  Host interfaces and applications take
the same semaphore; the mail and chat applications run from one loop of their
own, one line of one session at a time.  So two steps of one program never
overlap; what interleaves is one node with another, and the loops with what
users do.

### Components

**Data link (L2Code.c, asmstrucs.h).**  State: `LINKTABLE`, one entry for each
pair of calls and port: `L2STATE`, the sequence numbers `LINKWS`, `LINKOWS`,
`LINKNS`, `LINKNR`, the slots `FRAMES` with `SDTSLOT`, `TX_Q` and `RX_Q`, four
timers, the flags `RNRSET`, `RNRSENT`, `POLLSENT`, `REJSENT`, `DISCPENDING`.
Operations: one handler for each frame in each state, one pass of timers,
`SDETX`, and what the session layer calls.  Hard: lost and late frames, timers
that expire while the answer is on its way, sequence numbers that wrap, a busy
peer, an entry used again by the next connection, a close that waits for data,
an end that restarts.  Correct when: data arrives in order, once and completely
unless the link is emptied; a link never falls silent while it waits; a session
and its link go together; every set-up and every close ends.

**Sessions and node commands (Cmd.c, L4Code.c).**  State: `L4TABLE` entries tied
in pairs by `L4CROSSLINK`, and to a link by `L4TARGET`/`CIRCUITPOINTER`.
Operations: CONNECT, the CTEXT sign-on, cancelling a connect by typing,
`CLOSECURRENTSESSION`, `L4BG`.  Correct when: no entry is left whose partner or
link is gone, and data is not dropped by a close.

**Transport circuits (L4Code.c).**  State: for each circuit `TXSEQNO`, `L4WS`,
`RXSEQNO`, `L4HOLD_Q` with the frames that are not acknowledged, `L4RESEQ_Q` with
those that came early, retries and timers; `NEXTID`.  Operations: connect request
and answer, data, acknowledgement with NAK and choke, disconnect request and
answer, time-outs.  Hard: the network loses, repeats and reorders; 8-bit
sequence arithmetic; a request of a circuit that is gone; a node that restarts
and gives out the same ids.  Correct when: in order and once on every circuit,
nothing from one circuit in another, what is held matches the window, no half
circuit left.

**Routing (L3Code.c, BPQINP3.c).**  State: `DESTS` with three NET/ROM and three
INP3 routes each and the frames that wait for them, `NEIGHBOURS`, and which link
belongs to which neighbour.  Operations: a NODES broadcast sent and received, the
obsolescence pass, a link that fails, the next route tried, frames passed on.
Hard: what nodes tell each other of each other goes round; counts at zero;
neighbours that go while routes, links and frames still name them.  Correct when:
routes are in order and name neighbours that exist, no route is better than a
path there is, the tables settle on what is there, no frame stays for ever.

**Chat (HanksRT.c).**  State: nodes and users heard of, counted per circuit;
links to configured partners.  Operations: calls, `*RTL` and `OK`, joins, leaves,
links, unlinks, topics, each passed on to the other links, drops.  Hard: partners
call each other at once; a link breaks while what came by it is being passed on;
records freed by count.  Correct when: the counts are the references, and at rest
every node knows the nodes and users it can reach and no others.

**BBS mail (FBBRoutines.c, BBSUtilities.c).**  State: messages, each with the
BBSs it is for and those that have it, BIDs, BIDs being received (TempBIDs), data
kept of a broken transfer, sessions.  Operations: proposals `FA`, answers `FS`,
compressed texts, `FF`, `FQ`, disconnects, the forwarding timer.  Hard: the same
bulletin from two partners; a session that breaks between two parts of a text and
goes on in another; calls that cross; a crash.  Correct when: a bulletin is
stored once, what counts as sent is there, texts belong to their headers, all
arrives.

**Buffers and queues (CommonCode.c).**  A free list and chained buffers.

**Ports (kiss.c, bpqaxip.c, bpqether.c, bpqhdlc.c).**  Framing and devices under
a port's receive and transmit queues.  To the link a port is a channel that
keeps order and may lose frames.

**Modem drivers (ARDOP.c, WINMOR.c, SCSPactor.c, UZ7HODrv.c and others).**  One
protocol for each device, behind the same port interface.

**Hosts and services (TelnetV6.c, HTTPcode.c, AGWAPI.c, TNCEmulators.c, MailTCP.c,
NNTPRoutines.c, IPCode.c, APRSCode.c, RigControl.c).**  Sockets, serial lines and
formats around the core.

**Configuration and support (config.c, Moncode.c, md5.c and others).**  Read
before the node runs, or without shared protocol state.

PROJECT.json lists all of them with their status, the hazards found in the code
line by line, and the definitions of the models with the lines they stand for.

## The modules

| module | what it is |
|---|---|
| L2Delivery | what a link, or a circuit, promises the sessions at its ends |
| L2Link, AX25Link | a `LINKTABLE` entry with its handlers; two stations |
| L4Entry, L4Circuit | an `L4TABLE` entry with its handlers; two nodes |
| L3Tables, L3Nodes | the tables of a node with their handlers; a network |
| ChatNode, ChatNet | a chat node with its handlers; a network of them |
| FBBNode, FBBNet | a BBS with its handlers; a network of them |
| MailRelay | what a network of BBSs promises those who post messages in it |
| MC... | the constants of the TLC runs |
| L4EntryProofs, L3TablesProofs, FBBNodeProofs | every handler keeps an entry, a node's tables or a BBS `Good` |
| AX25LinkProofs, L4CircuitProofs, L3NodesProofs, ChatNetProofs, FBBNetProofs | the theorems about `Spec`; those of the link and of chat have the handlers too |

Each part is two modules.  The first translates the handlers: the state is a
record, each C function an operator of the same name from a state to a state,
composed in the order of the calls in the code, its early returns the branches.
The second makes the system of them: `VARIABLES`, one action for each event, the
channel between the nodes, and what may go wrong.  The layers are composed by
abstraction: level 4 sees level 3 as a network that loses and delays, because
L3Nodes drops frames and changes routes; level 3 sees the link as what L2Link
tells it (set up, failed, closed, gone); chat and mail see connections that keep
order until they end, as L2Delivery says, and whose ends are told one by one.

### L2Link: the handlers

A station is a record: the entry of its one link, the port's two queues, and
`BUSY`.  Each C function is an operator of the same name from a station to a
station, and the operators are composed in the order of the calls in the code;
a handler's early returns are the branches of its operator.  `L2Routine` takes
any received frame, `L2TimerProc` one pass of the timers, `SDETX` the transmit
pass.

How the data is abstracted:

- A payload is a number, a frame a record of its control code, command bit, P/F
  bit, N(R), N(S) and payload.  Addresses and digipeaters are left out: the
  channel has two ends.
- A countdown timer is a boolean, running or not.  When it expires is chosen
  nondeterministically, within the limits `Early` puts on it.
- `L2RETRIES` keeps its 8 bits: L2TIMEOUT stores -2 in it, and a DISC is given up
  at 255.
- `BUSY` stands for the two tests of `RR_OR_RNR`: fewer than 20 free buffers,
  or more than ten frames queued on the session that takes the data.
- `LAST_F` stands for the comparison of `LAST_F_TIME` with the clock.
- `CUTTX` and `CUTRX` are history: the link was emptied since its session layer
  last gave, or took, a frame.

### AX25Link: two stations

A run of `TIMERINTERRUPT` is `RunPort` (no timer due) or `RunTimers` (one is),
then `ReceiveFrame` for each frame that came in, then `RunLinks`.  `running`
names the station whose run is in progress, so that nothing else happens
meanwhile, as under the semaphore.  Frames that arrive are moved to `PORTRX_Q`
when the run starts; how many is nondeterministic.  Between runs the session
layer acts (`Connect`, `Send`, `Close`, `CancelConnect`), and so do the
surroundings: `LoseFrame`, `BecomeBusy`, `BecomeFree`, `Restart`, and
`FTimePasses` for the 15 ticks after which an F is no longer recent.

`PORTTX_Q` of the sender holds what is queued at its port and what is in the air.
Both keep their order and the air loses frames: AX.25 over one hop neither
repeats nor reorders.

`Answer` gives what a caller may get: the node itself (with a CTEXT message for
the stations in `CTEXTMSG`), an application, a refusal for want of a session
entry, or a refusal at the port's limit.

### L2Delivery: the promise

`given` and `taken` record what each session layer gave to the link and took
from it.  L2Delivery says how they may grow: a frame taken is the one given
after the last one taken; or a later one, if the link was emptied in between at
either end, by a set-up, a reset, a disconnect or a failure.  Never an earlier
one, never the same again.  AX25Link is shown to implement it (`Delivery ==
INSTANCE L2Delivery WITH given <- given, taken <- taken`, and `Delivers` as a
property), and so is L4Circuit: a circuit makes the session layer the same
promise, with the frames that begin a circuit as the cuts (`Streams`).

### L4Entry and L4Circuit: circuits

An entry is the record of `_TRANSPORTENTRY`; a handler leaves what it sends in
`OUT` and what it passes on in `TAKEN`.  `USER` is the crosslinked partner, the
command handler of the node, or nobody.  The circuit number and the histories
`given` and `taken` are not in the code; the properties need them.  The copy on
`L4HOLD_Q` keeps the acknowledgement and flags it was first sent with, as in the
code, since a retry sends the copy: L4StaleAck turns on this.

`net[n]` holds the messages on their way to `n`, in any state of repetition the
retries give it.  `LoseMessage` takes any of them, `DelayMessage` lets one be
overtaken by all behind it.  `Buffers` is the choice whether `GetBuff` finds one,
where `SENDL4CONNECT` asks.  `Restart` empties a table and picks `NEXTID` from
`RestartIds`.

### L3Tables and L3Nodes: routing

A node has its destinations with three routes each, its neighbours, and its
links.  `LINKS[m]` is "untied" while the link is up and no neighbour record has
it as its `NEIGHBOUR_LINK`; that is so of a link the peer set up, until a frame
comes by it.  There is one port, so a neighbour is its call; a broadcast is one
fragment, and sending and hearing it is one step, in which some may miss it.
`due` lets every node broadcast once in a round, because `L3INTERVAL` is the same
everywhere; `quiet` is a history, the rounds that have ended since anything
happened that may disturb the tables.  What the model keeps of the code's slips:
`DEST_ROUTE = 7` (always taken), the look-up of `CLEARACTIVEROUTE` that never
finds (so nothing is cleared), and the counts of `DecayNETROMRoutes` modulo 256.

### ChatNode and ChatNet: chat

A circuit carries the references `hnode` to each node reached by it and `refcnt`,
the users on it.  `out` and `shut` are what a handler sends and which circuits it
closes.  A connection is called, open, or over with some ends still to be told
(`told`): the node tells each of its streams separately, so one end may act on a
connection the other already knows is gone.  What one handler sends comes as one
packet.  Nodes and users that are not known are refused as in `chkctl`.

### FBBNode and FBBNet: forwarding

A message has the two bit maps `fbbs` and `forw`.  Texts have two parts, so that a
session can break between them.  `temp` are the TempBIDs with their connection,
`restart` the record of a broken transfer: one, because `SaveFBBBinary` takes the
last record it looked at whenever it finds none that fits.  `live` is false when
`Decode` has freed the buffer the record still has.  `saved` is the message base
on file: it is written when a message is stored and not when it has been passed
on.  A call while the two BBSs still have a connection is trouble of its own
("cross"): each end answers the other's call with "Already Connected", both
timers start again together, and with equal intervals nothing but chance breaks the tie.

### MailRelay: the promise

`at` are the messages each BBS has, `due` the BBSs to which it still has to pass
each of them on.  A message is posted at its origin, copied from a BBS that has it
to one on its route there, and struck off the list of what is due only when it is at
the other end; a crash may put back what was struck off, and takes nothing away.
FBBNet is shown to implement it (`Relay == INSTANCE MailRelay WITH ...`, `Relays`):
`at` is what the messages in `msg` are, `due` what their bit maps `fbbs` say, all of
a message's copies together, since a private message may come twice.

## What TLC checks

`CHECK_DEADLOCK FALSE` is given because the bounds on connects, messages and
troubles can be used up, and a system that has nothing to do does stop.

| run | instance | properties |
|---|---|---|
| L2TwoWay | modulus 4, window 2, 5 frames one way, a CTEXT the other, 1 loss, 1 early timer | TypeOK, SlotsMatchWindow, NothingForgotten, NoSilentStall, Delivers |
| L2Sessions | the same window, 2 frames, 2 connects, all answers, closes, cancels, idle limit, 1 loss, 1 restart | InOrderOnce, AcksAreSettled, SessionsHaveLinks |
| L2Live | 2 frames, closes, 2 troubles of 2 losses and a busy spell, fair | AllTaken, ConnectEnds, CloseEnds, FrameRejectEnds |
| L4Sessions | modulus 8, window 2, 2 circuits of 2 frames, answers and refusals, closes, cancels, fair; 2 of loss, busy, no buffer, or 1 delay, restart or early timer | TypeOK, Delivers, AllTaken, ConnectEnds, CloseEnds |
| L4Window | 1 circuit, 4 frames, a CTEXT the other way, 1 trouble of any kind | NothingForgotten, CircuitsApart, HoldMatchesWindow, HoldBounded, Delivers |
| L3Nodes | 3 nodes that hear each other, one pair badly; a circuit request; 1 trouble of any kind, fair | TypeOK, RoutesInOrder, NeighboursListed, NoBetterThanPaths, Settles, FramesEnd |
| ChatLine | 3 nodes in a line, 2 users, 2 logins, a change of topic, 3 calls, 1 trouble of any kind | TypeOK, CountsMatch, FlagsMatch, KnowsReached, NoGhosts, KnowsTopics |
| FBBForward | 3 BBSs that all forward to each other, 2 bulletins, 1 trouble of any kind, fair | TypeOK, StoredOnce, SentIsThere, TextsMatchHeaders, Relays, AllForwarded |

What each one shows:

- **L2TwoWay.**  Data and acknowledgements both ways with a frame lost anywhere
  and a timer that expires while the answer is on its way, so that polls cross
  their answers.  Five frames with modulus 4 wrap every counter and use every slot
  of `FRAMES` again.  The slots hold exactly the frames from `LINKOWS` to before
  `SDTSLOT` (without the early timer), no acknowledgement releases a frame the peer
  did not take, a link that waits has a timer running in every state, and the link
  keeps the promise of L2Delivery.
- **L2Sessions.**  The entry is used by one connection after another, with
  refusals, closes with data still queued, cancelled connects, time-outs and a
  restart of either end.  No frame of an old connection reaches a new session,
  and a session layer that has a session has a link that points to it.
- **L2Live.**  Any two frames are lost, or one and a station is busy for a while:
  each frame, one that a busy station cannot take among them, is taken or the
  session that gave it is told the link is gone, a connect is answered or given up, a
  disconnect ends.  With a busy station and a lost frame two correct stations can
  reach frame reject: after a late REJ(F) the sender's `LINKNS` lies behind the
  window start, and an N(R) that is right looks wrong.  The reject ends in a new
  set-up or a disconnect although an F may stop the timer of state 3.
- **L4Sessions.**  The entry is used by two circuits one after the other.  No
  frame crosses from one to the other, whatever is repeated or late; every frame
  given is taken or its circuit ends; no circuit stays half open.
- **L4Window.**  More frames than the window, with a sign-on the other way.  The
  frames held are those from `L4WS` to before `TXSEQNO`, and no acknowledgement
  releases one the peer has not received.
- **L3Nodes.**  Three nodes start, tell each other, fail and come back while a
  frame is on its way over two possible routes.  Slots stay sorted and packed
  without two routes by one neighbour; whatever names a neighbour names one that
  is in the table; qualities never exceed the best path; five rounds after the
  last trouble the tables show the neighbours that are there, and nobody else.
- **ChatLine.**  Users log in, log out and change topic while the middle node and
  its partners call each other, also at the same time.  The counts by which
  records are freed are the references there are, and at rest the picture of the
  network is right at every node.
- **FBBForward.**  A bulletin of A comes to B and C by two ways, while C has one
  for B.  It is stored once, whoever offers it first; texts go to their headers
  over breaks and restarts; what counts as sent is at the partner and on its
  disk; the three keep the promise of MailRelay; and in the end everything has arrived and nothing is left deferred,
  marked as forwarding or half open.

### The bounds

*Link.*  Sequence numbers are modulo 8 in the code and the window is the port's
MAXFRAME, 4 on the loopback port (config.c:2406).  The runs keep to that ratio, 4
to 2: a repeat is never taken for a new frame.  A wrap needs more frames than the
modulus, and L2TwoWay has them.  `PORTN2 = 2` gives every retry path: a first
retry, and the limit.  `MaxQ = 3` keeps a timer from adding to a queue of three
frames; without it a sender that never gets an answer would fill its queue for
ever.  L2Live has two losses, so that the recovery from one can itself be hit.
SessionsHaveLinks is checked where the closing station receives no data: with
data a close that keeps a frame (below) makes a session on a link that is
disconnecting, and `RepeatDisc` then clears the entry and tells nobody.

*Circuits.*  The code has modulus 256 and window 4 or so; 8 and 2 keep the window
below half the modulus and let L4StaleAck wrap with 10 frames.  `L4N2 = 1` gives a
retry and the limit.  Delivers is a statement about one circuit after another, so
`MAXCIRCUITS = 1`, which also makes every later request use the same entry again.
A delay, a restart and an early timer come alone: with another trouble the
disagreements below are reached.

*Routing.*  `OBSINIT = 3` and `OBSMIN = 2` are the smallest with a count that is
kept, one that is not told and one that is dropped.  Qualities 192 and 120 give A
two routes to C of which the longer one is the better.  `MINQUAL = 110` ends the
reflection of routes; with 108 and less the two nodes that are left keep a dead
one alive by telling each other, as in real NET/ROM networks with a low MINQUAL.
Settles takes five rounds; four are not enough.

*Chat.*  A line, because a ring does not satisfy the properties (below).  Three
calls are enough for two links and a crossing call or a link that is made again
after its loss; two logins for a user at each end, who may also come back.

*Mail.*  Three BBSs are the fewest where a bulletin comes by two ways, two
connections the fewest where that happens at once.  Two messages with `MaxBlock =
2` make a block whose answers differ.  `MaxRestart = 2` gives a restart and its
limit with the one breakage there is.

The theorems below hold for every value of their bounds.

### Fairness

Link and circuits: each node's `TIMERINTERRUPT` runs again and again and comes to
its end, because it is called every 100 ms and has no loop that waits.  Frames
sent are received or lost: a port transmits its queue.  `L2TimerProc` passes over
every link every third run, so a hang is noticed and a busy report that is no
longer true is withdrawn; the same holds of `L4BG`, `L4TimerProc` and the timers
of a circuit.  A busy station, or partner, does not stay busy: sessions drain
their queues and buffers are freed.  Of the link timers `L2TIMER` and `L2SLOTIM`
fairness is strong, with all waiting frames received: a countdown that is stopped
and started again and again still expires some time when the channel is empty,
because it is longer than an answer takes.  The idle limit of a circuit is relied
on only while it is being set up or closed.

Routing: `L3BG` runs, frames arrive, and the data link ends each set-up and
notices a peer that is gone (ConnectEnds and AllTaken of the link).  Rounds of
broadcasts are not assumed: Settles counts them.

Mail: the timer comes round for every partner; what is sent arrives; an end that
is over is told.  `Proceeds` is fair for each connection, with its guard written
out (`Moving`).

Nothing is assumed of users, of losses and breakages, nor of restarts.

### Disagreements that a run shows

- **L2CloseLosesData, DiscAfterAllAcked.**  L2Code.c:50 says "SEND DISC WHEN ALL
  DATA ACK'ED".  `ACKMSG` (line 2268) looks at `LINKWS = LINKNS` and at `TX_Q`;
  but `SDETX` loads frames from `TX_Q` into `FRAMES` ahead of sending them, and a
  frame that is loaded and not sent counts in neither.  A user who sends a page
  and disconnects may lose its last frames.
- **L2AckOutsideWindow, AcksInsideWindow.**  L2Code.c:1751 says of an N(R) below
  the window start "ONLY OK IF WINDOW WRAPS".  `SDNRCHK` tests `NR <= LINKNS`
  and not the wrap.  After a REJ(F) older than the last acknowledgement has set
  `LINKNS` back, `ACKMSG` releases slots all round the sequence space.
- **L4StaleAck, NothingForgotten.**  L4Code.c:1879 says "IF NEGATIVE, THAN THIS
  MUST BE A DELAYED REPEAT OF AN ACK ALREADY PROCESSED".  `ACKFRAMES` adds 256 to a
  difference below -128, and takes nothing from one above 128.  A frame that is
  held while its sender receives nothing new keeps an old acknowledgement; when it
  is retried after the window start of the other end has wrapped, the difference
  is large and positive, and every frame held there is released as received.
- **L3ZeroCount, ZeroIsDeleted.**  L3Code.c:1233 says of a count "IF ALREADY ZERO -
  WILL BE DELETED BY NEXT NODES UPDATE".  `DecayNETROMRoutes` (BPQINP3.c:260, 271)
  takes one from the second and third route's count without looking: zero becomes
  255, which is locked, and the route to a dead neighbour stays for ever.

### Disagreements without a run

Met while modelling and confirmed by TLC with other constants or a stronger
property; each is a hazard in PROJECT.json.

- L2Code.c:1638, "IF DISC PENDING SET, IGNORE FRAME": `SDIFRM` calls `SDNRCHK`
  first, and when the I frame carries the last awaited acknowledgement `ACKMSG`
  has cleared `DISCPENDING` by the time `PROC_I_FRAME` tests it.
- L2Code.c:1503 and 1930: the window test of `SDETX` compares two variables that
  `ACKMSG` has made equal and never limits (`AcksSettled` proves it); only
  `POLLSENT` does, and a late F clears that.  With 5 frames one way, 2 the other,
  one early timer and window 2 of modulus 4, Delivers does not hold.
- L4Code.c:1856: `Prev` points at the local variable when the frame due is found in
  the middle of `L4RESEQ_Q`, and the frame behind it is passed on in its place.
  One lost and one overtaken message reach it.
- cMain.c:1298, "Set random start value": `rand()` is not seeded, so a node that is
  started again uses the ids of the last time, and messages of its old circuits
  reach the new ones.
- L4Code.c:719: two ends that close while each holds a frame ignore each other's
  data and never disconnect before the idle limit.  L4Code.c:1662: an answer to a
  connect that comes late turns state 4 back into 5.
- HanksRT.c:3220, "There is a window here that could cause a loop": in a ring of
  three chat nodes TypeOK, CountsMatch and KnowsReached fail without any trouble;
  a leave counts down the circuit it came by, not the one the user is on.
- FBBRoutines.c:446: a restart is answered before the TempBIDs are looked at and
  sets none ("Save BID in temp list in case we are offered it again before
  completion", line 458), so a bulletin whose transfer broke may be stored twice.
  StoredOnce excepts it; without the exception one broken session is enough.


## What is proved

Twenty-five theorems, for every value of the constants that the named assumptions allow.

| module | theorem | statement |
|---|---|---|
| AX25LinkProofs | Invariance | `Spec => []IInv` |
| AX25LinkProofs | TypeCorrect | `Spec => []TypeOK` |
| AX25LinkProofs | AcksSettled | `Spec => []AcksAreSettled` |
| AX25LinkProofs | AlwaysAsksAgain | `Spec => []NoSilentStall` |
| L4CircuitProofs | CircuitInvariance | `Spec => []IInv` |
| L4CircuitProofs | CircuitTypeCorrect | `Spec => []TypeOK` |
| L4CircuitProofs | HeldFramesBounded | `Spec => []HoldBounded` |
| L3NodesProofs | TablesInvariance | `Spec => []IInv` |
| L3NodesProofs | TablesTypeCorrect | `Spec => []TypeOK` |
| L3NodesProofs | RoutesStayInOrder | `Spec => []RoutesInOrder` |
| L3NodesProofs | NeighboursStayListed | `Spec => []NeighboursListed` |
| L3NodesProofs | NeverBetterThanPaths | `Spec => []NoBetterThanPaths` |
| ChatNetProofs | Invariance | `Spec => []IInv` |
| ChatNetProofs | FlagsStayMatched | `Spec => []FlagsMatch` |
| ChatNetProofs | TablesInStep | `ASSUME Forest PROVE Spec => [](IInv /\ NetInv)` |
| ChatNetProofs | CountsStayMatched | `ASSUME Forest PROVE Spec => []CountsMatch` |
| ChatNetProofs | TypesStayRight | `ASSUME Forest PROVE Spec => []TypeOK` |
| ChatNetProofs | NobodyStaysBehind | `ASSUME Forest PROVE Spec => []NoGhosts` |
| FBBNetProofs | Invariance | `Spec => []Inv` |
| FBBNetProofs | TypeCorrect | `Spec => []TypeOK` |
| FBBNetProofs | TextsMatch | `Spec => []TextsMatchHeaders` |
| FBBNetProofs | SentStays | `Spec => []SentIsThere` |
| FBBNetProofs | BulletinsOnce | `Spec => []StoredOnce` |
| FBBNetProofs | MailIsRelayed | `Spec => Relays` |
| FBBNetProofs | NothingIsLost | `Spec => [](Relay!NothingLost /\ Relay!NoStrays)` |

### The link

Assumptions: `Modulus >= 2`, `1 <= LINKWINDOW < Modulus`, `2 <= PORTN2 <= 253`,
two different stations, and bounds that are naturals, one function or set for
each.  No assumption ties the window to half the modulus.

The inductive invariant `IInv` is `TypeOK` and, of each station, `Good`: the
fields have their types, `LINKOWS = LINKWS`, and `Quiet` holds of a link that is
up.  `Quiet` says that a link whose validation timer `L2SLOTIM` (T3) was never
started has `LINKWS` and `LINKNS` at 0 and no poll outstanding.

It is needed because `NoSilentStall` is not inductive: `L2TIMER` is stopped by
any F, by an acknowledgement and by resets, so "waiting implies `L2TIMER`" breaks
in many places.  What saves the link is T3.  Once it is started by the first I
frame, poll or response it runs until it expires, and its expiry sends a poll
that starts it again; and before it is started, nothing was sent that could be
waited for.  That is `Quiet`.

The argument goes handler by handler.  AX25LinkProofs has a lemma for each
operator of L2Link, in the order of the module: from a `Good` entry it makes a
`Good` entry.  Where an operator works between two states that are not `Good`
(after an N(R) is taken and before `ACKMSG`) its lemma has what it needs as
hypothesis.  They end in `RoutineGood`, for any frame received, and
`TimerProcGood`, for any timer event.  Then there is a lemma for each
action of `Next`, and `NextGood` puts them together.  A station has 29 fields,
more than the provers take at once, so an update is shown to be a record with a
station's fields (`IsRecord`) whose values are typed (`FieldsOK`), and
`StationIntro` joins the two.

### The circuits

Assumptions: `Modulus` even and at least 4, `1 <= L4WINDOW < Modulus / 2`, `L4N2`
a byte below 255, at least one entry in a table and one id, and bounds that are
naturals.  Nothing is assumed of the network.

`HoldBounded` says that an entry never holds more frames than its numbers say are
outstanding, nor more than `L4WINDOW + 1`: the test at L4Code.c:537 lets one frame
more than the window go out, and the theorem shows it is never two.  This is not
plain from `SENDL4MESSAGE`, because the entry is also changed by every
acknowledgement, and L4StaleAck shows that these may release frames the peer has
not received and set `L4WS` anywhere in the sequence space.  What holds all the
same is that `ACKFRAMES` moves `L4WS` by one for each frame it releases, so the
difference of the numbers never falls behind what is held.

The inductive invariant `IInv` is `TypeOK` and, of each entry, `Good`: its fields
have their types and `Held`, the two bounds together.  L4EntryProofs has a lemma
for each operator of L4Entry, up to `FrameForUsGood` for any message received,
`BGGood` for the background pass and `TimerEventGood` for any timer.
L4CircuitProofs has a lemma for each action, and `NextGood` puts them together:
a step changes one entry, or empties a table, and adds to the network what the
entry sent, whose messages are typed because the entry was.

### The routing tables

Assumptions: `NoNode` is no node; `OBSINIT` is 1 to 127, `OBSMIN` below 128,
`MINQUAL` a byte and `L3LIVES` a byte above 0; `PORTQUALITY` gives bytes, 0 from a
node to itself, and 0 in both directions where two nodes do not hear each other;
bounds are naturals.  There may be any number of nodes, with any port qualities.

The inductive invariant `IInv` is `TypeOK` and, of each node, `Good`: the tables
have their types; each destination is `Sound`; and every link that belongs to a
neighbour record belongs to one in `NEIGHBOURS`.  `Sound` says that the routes are
packed, one for each neighbour and each by a neighbour in `NEIGHBOURS`, that the
qualities descend, and that a spare slot has quality 0.  The last part is what
makes the rest inductive: `SORTROUTES` compares qualities and does not look
whether a slot is in use, so a spare slot with something left in it would be
sorted before a route of quality 0, and the code takes the first empty slot for
the end of the list.

L3TablesProofs has a lemma for each operator of L3Tables.  Those worth reading:
sorting three routes permutes them (`SORTROUTES`); a route that is heard of
replaces the last one or is refused (`PROCROUTES`); dropping the dead moves the
rest up and clears what they leave (`DropDead`); `DecayNETROMRoutes` keeps its
counts in a byte only because they are taken modulo 256, which is the
disagreement L3ZeroCount shows; and the minute pass zeroes only neighbours that
`COUNTNODES` finds nothing to name (`TidyRoutes`).  L3NodesProofs has a lemma for
each action; most change one node, a broadcast and a link between two change two
or more.

`NeverBetterThanPaths` compares what the tables say with the network.  A path is a
sequence of nodes without one twice, and what it is worth to each of them is
scaled hop by hop (`Along`, a recursive function; `AlongFacts` shows that it has a
value, by induction over a set of numbers).  Its invariant, `AllReached`, says that
every quality in a table is 0 or no more than some path is worth.  On one side
L3TablesProofs shows that a handler only keeps qualities, drops them or takes the
one it was told (`Within`), in particular that `PROCROUTES` with quality 0, for a
route that was reflected, brings in none.  On the other side a broadcast is one
hop more (`ReachedByHop`): either the node that hears it is not on the path and
extends it, or it is on it already, and then it is nearer the destination, where
the path is worth no less (`AlongDescends`), because a hop never makes a quality
better.  That is why routes that go round between nodes cannot count up.  `Node` is
assumed to be finite.

### Chat

Assumptions: partners are mutual and no node is its own (`NetAssumption`), `Node` is
finite, and bounds are naturals.  Partners may form any graph, rings included, and
any number of calls, breaks and restarts may happen.

`FlagsStayMatched` says that a partner marked `p_linkini` or `p_linked` has a
circuit on the list that is set up or linked.  `makelinks` calls only partners that
are not marked, so a mark without a circuit would keep the partner from being
called for ever: nothing but the drop of a circuit clears a mark.  A mark belongs to a partner and not to a circuit: dropping a circuit clears the mark although another
circuit with that partner may be coming up (so the converse does not hold), and a
circuit that is given to another partner would leave a mark behind.

The property is not inductive.  A new connection could have the number of a
circuit that a node still lists for another partner, and when the node is called,
or calls, that circuit would be overwritten.  The inductive invariant `IInv` adds,
besides types, that this never happens: `EndsKnown`, a circuit in use belongs to a
connection of which the node is an end (the caller, until the call is answered),
and which is open, or over with this node yet to be told; and `ToldOK`, only a
connection that is over has ends to be told.  TLC found `IInv` true of the
instance of ChatLine before it was proved.

The first lemmas are about folds: `FoldExists` and `SubsetInduction` show that what
`FoldSet` and `FoldLeft` compute has a value and that what each step keeps the fold
keeps, by induction over a set of numbers (`NatInductionOnSet`) in place of one
over data.  Operators that leave the links alone are then told by `Keeps`, those
that drop some by `Loses`, and those that may make one, on the circuit they serve,
by `Gains`; `ReceivedLineGains` says so of every line and `ReceivedDataGains` of
every packet.  The counts are only integers here: in a ring they go wrong, and the
links stay right all the same.

The other theorems of chat are for partners that form no ring.  `Side(m, p)` is what
can be reached from m by its partner p, and `Forest` says that no other partner of m
is among it.  Without it CountsMatch and TypeOK fail (HanksRT.c:3220, above).  It is an
hypothesis of theirs and no assumption of ChatNet, which allows rings; MCChatNet
assumes it of the line, and TLC finds it true there.
Neither the number of nodes nor that of links, calls, breaks and restarts is bounded.

`CountsMatch` is about one node, but what a node counts is what its partners have told
it: a leave of a user it was never told of, or an unlink of a node that still has
users, would be counted wrong.  So the inductive invariant, `NetInv`, is about the
nodes and all that is on its way between them.

- `NodesSound`: in each node, what came by a link is on that link's side and is
  counted once there, and a linked partner is known (`Sound`).  A forest makes a node
  be on one side only (`SidesApart`), which is what a ring takes away.
- `WiresRight`: what an end has from the other is no more than the other has told it,
  once the lines on their way are taken one by one (`Told` for lines, `Carried` for
  packets), each of them about the sender's side of the network, and no node is
  unlinked while it has users (`Hears`).  An end that waits for `*RTL` gets it first.
- `ConnsRight`, `LinksRight` and `CallsRight`: connections are between partners, each
  end has the other as its link, and a caller keeps its circuit until it is answered.

A handler is shown to do three things: it leaves a `Sound` node, it says to every
link what has changed for it (`Says`), and it goes on with the links it does not
close (`Goes`); `Handled` has all three.  `ReceiverTakes` does the same for a packet,
whose lines are taken as the sender meant them.  `StepNet` makes of it that a step at
one node leaves the network right; `CallNet` and `CutNet` serve the steps that set
up and cut connections.  From `Sound` alone come `SoundCounts` and `SoundTypes`, of
which CountsMatch and TypeOK are made; `FoldExists` gives the sum over circuits a value.

`NoGhosts` follows from `NetInv` at rest: a user shown from a link is had by the
partner too, from elsewhere (`QuietLinks`), so the way to him leads by links into
smaller and smaller sides, and ends where he is logged in (`QuietUsers`).

### Mail forwarding

Assumptions: `Nobody` is no BBS, `MaxBlock` is at least 1 and `MaxRestart` a
natural, every message has an origin, and no BBS forwards to itself.  There may be
any number of BBSs, connections and messages, any routes, blocks of any length,
and any number of breaks, crossed calls and crashes.

The three invariants are about what two BBSs make of the lines between them, so
the inductive invariant `Inv` is about the dialogue.  Besides types (`BoxesGood`,
`ConnOK`) it says `Talks`: in every open connection the two sessions and all
lines on their way, together, are at one of four places.  The caller's prompt is
on its way (`Greeting`); one end has made its offer and the other has everything
that was sent before (`Turn`); the offer has been answered, one answer for each
message, and the answer is followed by an offer of the other when nothing was
wanted (`Answered`); or the texts of what was asked for are coming, in the order
of the headers, each from where it is to be continued (`Sending`).  So the line
that comes next is one the receiver's state fits, which is `TextsMatch`; and the
end of the texts is answered only when every one has been stored, which is what
makes a mark right (`SavedThere`, and from it `SentStays`, because a message is
on file once it is stored).

FBBNodeProofs has a lemma for each operator of FBBNode.  `LineResult` collects
them: a line at one place of the dialogue takes it to the next.  `Replied` relates
a block's answers to what is wanted by a count of the wanted ones; `Laid` relates
the lines of texts to their messages by the place where each ends.  Both are
functions, and what the loops over a block do is proved with them, by induction
over a set of numbers in place of a predicate (`NatInductionOnSet`).  FBBNetProofs
has a lemma for each action, over `TalkKept`: a session whose ends and lines a
step leaves alone stays where it is, though its ends store messages of others.

`BulletinsOnce` needs more: `OnceInv`.  What a BBS is being sent from its start is
in its TempBIDs with the session it comes by (`Fed`), so it comes by no other
(`Apart`); and what is the next to come is not there yet, because it was looked
up when it was asked for and `CreateMessage` asks again when its text begins.  The
exception, a copy by a restart, which is in no TempBID, is carried through all of
this (`HasCopy`).  `OnceKept` reduces the proof to what an action has to show:
that it stores at most one message at a BBS, and that a session it changes is `Fed`
and `Apart` afterwards.  Messages are entered by their author once.

`MailIsRelayed` is the refinement: every step is one of MailRelay's or none.  A line
of the dialogue is the only step that copies or settles.  What it may do to the
messages of the BBS that takes it is told in FBBNodeProofs by `Pays`, where nothing is
struck out but what is marked as passed on, and `Takes`, where a message comes that
goes on to the BBSs on its route but the one it came from; `LineTakes` says that
every line does one or the other.  That a mark stands for a message that is there is
`SavedThere`, from the first invariant; that a message was not there when it is
posted is `OnceInv`.  The third invariant, `RelayInv`, has the rest.  `Owed`: what is
to be sent on is to be sent on by the file too and is on its route, without which a
crash would lose a destination or invent one.  `Addressed`: what a session offers is
a message of the BBS, with the session's partner on its route.  `Fetched`: what a BBS
waits for is at its partner, with the BBS on its route there, so that storing it is a
copy along a route.  `Addressed` of the offering end is what makes `Fetched` of the
other when it answers (the last part of `Passes`).

`NothingIsLost` follows from the refinement alone, by invariants of MailRelay: at all
times each message is at every BBS its routes lead to or owed to it by one that has
it, and each BBS that has it is its origin or was sent it along a route.  That what
is owed arrives is AllForwarded, which stays with TLC.

### What is only model-checked

- The refinements of L2Delivery (`Delivers`, of the link and of the circuits),
  `InOrderOnce` and `NothingForgotten`.  They rest on bounds of the runs that are no assumption of
  the models: with a timer that expires early more than once the window of the
  link is not kept, and with a message older than half the sequence space that of
  a circuit is not (L2AckOutsideWindow and L4StaleAck), so there is no theorem for
  every value of the bounds.  The same holds of `HoldMatchesWindow`,
  `CircuitsApart` and `SessionsHaveLinks`, and of `SlotsMatchWindow`, which TLC
  finds violated with a window of 3 of 4, with a station that becomes busy, and with
  one that connects again right after it has closed.
- `Settles` of the routing, which counts rounds: how many are enough depends on the
  number of nodes and on the counts.
- KnowsReached and KnowsTopics of chat, which say that nothing is missing at
  rest.  `NetInv` bounds what an end has from above; for these it would have to be
  bounded from below as well, with the order of the nodes, users and topics in what
  is told.  TLC checks them on the line; random runs of ChatNet with four nodes, in a
  line and in a star, found nothing against them.
- Everything under fairness: liveness is out of the prover's reach.

## What is not modelled

*Data link.*  Links to AX.25 version 1 stations (`VER1FLAG`) and their REJ timer;
`GetBuff` returning nothing, where a handler gives up and leaves its timer;
digipeating, UI frames, alias calls and listening sessions; the entry of a link
between nodes (`LINKTYPE` 3), of which L3Nodes has what level 3 sees; frames with
IP PIDs and their fragments; `RXFRAMES`, the link's receive slots, which nothing
fills; several links on one port, which share only buffers and the port.

*Circuits.*  Frames cut in fragments (`L4MORE`, as `PACLEN` demands); the
negotiation of the window, of which the model has the result; sessions that join
something else than a circuit, a user and an application.

*Routing.*  Locked routes and neighbours, full tables (`FindDestination` and
`FindNeighbour` finding no slot), routes by INP3 (RTT and RIF frames,
BPQINP3.c's timers), neighbours reached by digipeaters, the record-route and
broadcast messages of level 3, `REFRESHROUTE`, entries of applications, and what
NODE and ROUTE commands set by hand.

*Chat.*  Texts, keep-alives, the database of users, log-ins from other programs,
and rings of nodes, for the reason given above.

*Mail.*  B2 and MBL forwarding and their partners, which share `FA`'s states but
not its blocks; routing of messages to BBSs by address; filters, housekeeping,
white pages, the user interface.

*The rest.*  Most of the source is not protocol logic of this kind: drivers of
some thirty modems and TNCs, web pages, maps, APRS formats, rig control commands,
configuration, SMTP, POP3 and NNTP front ends.  A driver's state is mostly that
of the device at the other end of a serial line or a socket, of which the source
has only the commands.  A model of it would be one of the manufacturer's manual.
The free list of buffers (CommonCode.c) is seen by the models as `BUSY` and
`Buffers`, the two answers it gives.  PROJECT.json says for each component what
was left out and why.

## What could follow

- `NothingForgotten` and `Delivers` of the link, with the strengthening above.
- A session joined to a link at one end and to a circuit at the other, for the
  close that passes from one to the other through `CLOSECURRENTSESSION`.
- ChatNet with a ring, once a leave is counted on the circuit its user is on.
