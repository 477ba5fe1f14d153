--------------------------- MODULE TcpServerProofs ---------------------------
(***************************************************************************)
(* Theorems on TcpServer: for any number of connections, application       *)
(* threads and I/O loops, and any callbacks within Careful, no object that *)
(* is gone is used, a connection goes up once and down at most once,       *)
(* agrees with its poller all the time, sends its FIN last, and is closed  *)
(* when it is destroyed.                                                   *)
(*                                                                         *)
(* The invariant follows a connection through its life.  It is new, up or  *)
(* down (Phase), which the operations of TcpConnection change only in this *)
(* order; one that has left connections_ is on its way to connectDestroyed *)
(* (Leaving); every functor finds its connection in the phase it was made  *)
(* for (Queued), every reported channel is that of an open connection      *)
(* (Reported), and the application knows established connections only      *)
(* (Known).  First come the operations on one channel, with what they show *)
(* of EPollPoller for any owner, then those on one connection's record,    *)
(* then the queues, then one lemma for each action.                        *)
(***************************************************************************)
EXTENDS TcpServer, SequenceTheorems, TLAPS

-----------------------------------------------------------------------------
(* One channel.                                                            *)

\* The asserts that a careful owner can still break.
Breakable == {"EpollPoller.cpp:72", "EpollPoller.cpp:97"}

ChannelRecord == [events : SUBSET Events, index : {-1, 1, 2},
                  addedToLoop : BOOLEAN, inMap : BOOLEAN,
                  epoll : (SUBSET Events) \cup {Absent}, edge : BOOLEAN,
                  failed : SUBSET Breakable]

\* One channel's record is consistent.  EpollAgrees alone is not inductive:
\* remove() is right only when the map entry is there exactly as long as
\* addedToLoop_ says.
Agrees(ch) ==
    /\ ch \in ChannelRecord
    /\ ch.addedToLoop = ch.inMap
    /\ isNoneEvent(ch) => ch.epoll = Absent /\ ch.index = -1
    /\ ~isNoneEvent(ch) =>
           ch.epoll = ch.events /\ ch.index \in {1, 2} /\ ch.inMap

\* What epoll watches for is never confused with a descriptor that is not
\* registered.
LEMMA AbsentIsNoInterest ==
    Events = {"read", "write"} /\ \A S \in SUBSET Events : S # Absent
  BY DEF Events, kReadEvent, kWriteEvent, Absent

\* The record an operation leaves, written out.
Rec(events, index, added, inMap, epoll, edge, broken) ==
    [events |-> events, index |-> index, addedToLoop |-> added,
     inMap |-> inMap, epoll |-> epoll, edge |-> edge, failed |-> broken]

\* The three shapes a consistent record has.
LEMMA Shapes ==
    ASSUME NEW ev \in SUBSET Events, NEW i \in {1, 2}, NEW m \in BOOLEAN,
           NEW e \in BOOLEAN, NEW f \in SUBSET Breakable
    PROVE  /\ ev # {} => Agrees(Rec(ev, i, TRUE, TRUE, ev, e, f))
           /\ Agrees(Rec({}, -1, m, m, Absent, e, f))
  BY DEF Agrees, ChannelRecord, Rec, isNoneEvent

\* Channel::update keeps a record consistent, for any events the owner asks
\* for that change something: some event, or none when there was one.
LEMMA SetEventsAgrees ==
    ASSUME NEW ch, Agrees(ch), NEW ev \in SUBSET Events,
           ev # {} \/ ~isNoneEvent(ch)
    PROVE  Agrees(setEvents(ch, ev))
<1> DEFINE c0 == [ch EXCEPT !.events = ev, !.addedToLoop = TRUE]
<1>1. CASE ch.index < 0
  <2> DEFINE c1 == [c0 EXCEPT !.inMap = TRUE,
                 !.failed = @ \cup Assert_(~c0.inMap, "EpollPoller.cpp:72")]
  <2>1. setEvents(ch, ev) = update("ADD", c1)
    BY <1>1 DEF setEvents, updateChannel, Agrees, ChannelRecord
  <2>2. ch.events = {} /\ ch.epoll = Absent /\ ev # {}
    BY <1>1 DEF Agrees, isNoneEvent
  <2>3. /\ c1.epoll = Absent /\ c1.events = ev
        /\ c1.failed \in SUBSET Breakable
    BY <2>2 DEF Assert_, Breakable, Agrees, ChannelRecord
  <2>4. update("ADD", c1) = Rec(ev, 1, TRUE, TRUE, ev, TRUE, c1.failed)
    BY <2>3 DEF update, Assert_, Rec, Agrees, ChannelRecord
  <2>5. QED
    BY <2>1, <2>2, <2>3, <2>4, Shapes
<1>2. CASE ~(ch.index < 0)
  <2>1. /\ ch.events # {} /\ ch.epoll = ch.events /\ ch.inMap
        /\ ch.epoll # Absent /\ ch \in ChannelRecord
    BY <1>2, AbsentIsNoInterest DEF Agrees, ChannelRecord, isNoneEvent
  <2> DEFINE op == IF isNoneEvent(c0) THEN "DEL" ELSE "MOD"
  <2> DEFINE c1 == [c0 EXCEPT !.failed =
                       @ \cup Assert_(c0.inMap, "EpollPoller.cpp:77")]
  <2>2. setEvents(ch, ev) = update(op, c1)
    BY <1>2 DEF setEvents, updateChannel, Agrees, ChannelRecord
  <2>3. /\ c1 \in ChannelRecord
        /\ c1.epoll = ch.epoll /\ c1.events = ev /\ c1.failed = ch.failed
        /\ c1.inMap /\ c1.addedToLoop
    BY <2>1 DEF Assert_, ChannelRecord
  <2>4. CASE ev = {}
    <3>1. update(op, c1) = Rec({}, -1, TRUE, TRUE, Absent, FALSE, ch.failed)
      BY <2>1, <2>3, <2>4 DEF update, Assert_, Rec, ChannelRecord, isNoneEvent
    <3>2. ch.failed \in SUBSET Breakable
      BY <2>1 DEF ChannelRecord
    <3>3. QED
      BY <2>2, <3>1, <3>2, Shapes
  <2>5. CASE ev # {}
    <3>1. update(op, c1) = Rec(ev, 2, TRUE, TRUE, ev, TRUE, ch.failed)
      BY <2>1, <2>3, <2>5 DEF update, Assert_, Rec, ChannelRecord, isNoneEvent
    <3>2. ch.failed \in SUBSET Breakable
      BY <2>1 DEF ChannelRecord
    <3>3. QED
      BY <2>2, <2>5, <3>1, <3>2, Shapes
  <2>6. QED
    BY <2>4, <2>5
<1>3. QED
  BY <1>1, <1>2

\* Channel::remove keeps it consistent once the events are disabled.
LEMMA RemoveAgrees ==
    ASSUME NEW ch, Agrees(ch), isNoneEvent(ch), ch.addedToLoop
    PROVE  Agrees(remove(ch))
<1>1. /\ ch.index = -1 /\ ch.events = {} /\ ch.epoll = Absent /\ ch.inMap
      /\ ch \in ChannelRecord
  BY DEF Agrees, ChannelRecord, isNoneEvent
<1> DEFINE f == ch.failed \cup {"EpollPoller.cpp:97"}
<1>2. f \in SUBSET Breakable /\ ch.edge \in BOOLEAN
  BY <1>1 DEF ChannelRecord, Breakable
<1> DEFINE c1 == [ch EXCEPT !.addedToLoop = FALSE,
                  !.failed = @ \cup Assert_(isNoneEvent(ch), "Channel.cpp:43")]
<1>3. /\ c1 \in ChannelRecord /\ c1.inMap
      /\ c1.events = {} /\ c1.index = -1 /\ c1.addedToLoop = FALSE
      /\ c1.epoll = Absent /\ c1.edge = ch.edge /\ c1.failed = ch.failed
  BY <1>1 DEF Assert_, isNoneEvent, ChannelRecord
<1> HIDE DEF c1
<1>4. removeChannel(c1) = Rec({}, -1, FALSE, FALSE, Absent, ch.edge, f)
  <2> DEFINE labels == c1.failed
                \cup Assert_(c1.inMap, "EpollPoller.cpp:93")
                \cup Assert_(isNoneEvent(c1), "EpollPoller.cpp:95")
                \cup Assert_(c1.index \in {1, 2}, "EpollPoller.cpp:97")
  <2>1. labels = f
    BY <1>3 DEF Assert_, isNoneEvent
  <2>2. removeChannel(c1) = [c1 EXCEPT !.inMap = FALSE,
                               !.failed = labels, !.index = -1]
    BY <1>3 DEF removeChannel, ChannelRecord
  <2> HIDE DEF labels
  <2>3. QED
    BY <1>3, <2>1, <2>2 DEF ChannelRecord, Rec
<1>5. QED
  BY <1>2, <1>4, Shapes DEF remove, c1

\* A report of a registered channel keeps it consistent.
LEMMA ReportAgrees ==
    ASSUME NEW ch, Agrees(ch), ch.epoll # Absent, NEW e \in BOOLEAN
    PROVE  /\ Agrees(reported(ch, e))
           /\ Agrees([ch EXCEPT !.edge = TRUE])
  BY DEF Agrees, ChannelRecord, isNoneEvent, reported, Assert_

\* What Agrees means, by fields.
LEMMA AgreesMeans ==
    ASSUME NEW ch
    PROVE  Agrees(ch) <=>
             /\ ch \in ChannelRecord
             /\ ch.addedToLoop = ch.inMap
             /\ ch.events = {} => ch.epoll = Absent /\ ch.index = -1
             /\ ch.events # {} => /\ ch.epoll = ch.events /\ ch.inMap
                                  /\ ch.index \in {1, 2}
  BY DEF Agrees, ChannelRecord, isNoneEvent

\* The type of a channel whose owner makes no redundant calls.
LEMMA RecordMeans ==
    ChannelRecord = [events : SUBSET Events, index : {-1, 1, 2},
                  addedToLoop : BOOLEAN, inMap : BOOLEAN,
                  epoll : (SUBSET Events) \cup {Absent}, edge : BOOLEAN,
                  failed : SUBSET {"EpollPoller.cpp:72", "EpollPoller.cpp:97"}]
  BY DEF ChannelRecord, Breakable

\* An owner asks for events.
LEMMA Interest ==
    ASSUME NEW ch, Agrees(ch), NEW ev \in SUBSET Events,
           ev # {} \/ ch.events # {}
    PROVE  /\ Agrees(setEvents(ch, ev))
           /\ setEvents(ch, ev).events = ev /\ setEvents(ch, ev).addedToLoop
<1>1. Agrees(setEvents(ch, ev))
  BY SetEventsAgrees DEF isNoneEvent
<1>2. setEvents(ch, ev).events = ev /\ setEvents(ch, ev).addedToLoop
  BY AgreesMeans, RecordMeans DEF setEvents, updateChannel, update, isNoneEvent
<1>3. QED
  BY <1>1, <1>2

\* An owner that has no event any more removes its channel.
LEMMA Removal ==
    ASSUME NEW ch, Agrees(ch), ch.events = {}, ch.addedToLoop
    PROVE  /\ Agrees(remove(ch))
           /\ remove(ch).events = {} /\ ~remove(ch).addedToLoop
<1>1. Agrees(remove(ch))
  BY RemoveAgrees DEF isNoneEvent
<1>2. remove(ch).events = {} /\ ~remove(ch).addedToLoop
  BY AgreesMeans, RecordMeans DEF remove, removeChannel, update, isNoneEvent
<1>3. QED
  BY <1>1, <1>2

\* epoll looks at the descriptor, and reports it.
LEMMA Watch ==
    ASSUME NEW ch, Agrees(ch)
    PROVE  /\ Agrees([ch EXCEPT !.edge = (ch.epoll # Absent)])
           /\ ch.epoll # Absent => \A e \in BOOLEAN : Agrees(reported(ch, e))
           /\ \A e : /\ reported(ch, e).events = ch.events
                     /\ reported(ch, e).addedToLoop = ch.addedToLoop
<1>1. ch.epoll # Absent => \A e \in BOOLEAN : Agrees(reported(ch, e))
  BY ReportAgrees
<1>2. Agrees([ch EXCEPT !.edge = (ch.epoll # Absent)])
  <2> DEFINE e == ch.epoll # Absent
  <2>1. e \in BOOLEAN
    OBVIOUS
  <2> HIDE DEF e
  <2>2. Agrees([ch EXCEPT !.edge = e])
    BY <2>1, AgreesMeans, RecordMeans
  <2>3. QED
    BY <2>2 DEF e
<1>3. \A e : /\ reported(ch, e).events = ch.events
             /\ reported(ch, e).addedToLoop = ch.addedToLoop
  BY AgreesMeans, RecordMeans DEF reported
<1>4. QED
  BY <1>1, <1>2, <1>3
-----------------------------------------------------------------------------
(* EPollPoller for any owner that makes no redundant call: Acceptor,       *)
(* EventLoop and TimerQueue own their channels so, and TcpConnection.      *)

\* The operations of module Channel are the ones EPollPoller is built from.
LEMMA SameChannel ==
    /\ \A ch : isNoneEvent(ch) = Poller!isNoneEvent(ch)
    /\ \A ch, ev : setEvents(ch, ev) = Poller!setEvents(ch, ev)
    /\ \A ch : remove(ch) = Poller!remove(ch)
    /\ \A ch, e : reported(ch, e) = Poller!reported(ch, e)
    /\ Events = Poller!Events /\ Absent = Poller!Absent
    /\ NewChannel = Poller!NewChannel
<1>1. \A ch : isNoneEvent(ch) = Poller!isNoneEvent(ch)
  BY DEF isNoneEvent, Poller!isNoneEvent
<1>2. \A ch, ev : setEvents(ch, ev) = Poller!setEvents(ch, ev)
  <2> TAKE ch, ev
  <2> QED
    BY Zenon DEF setEvents, Poller!setEvents, updateChannel,
       Poller!updateChannel, update, Poller!update, Assert_, Poller!Assert_,
       isNoneEvent, Poller!isNoneEvent, Absent, Poller!Absent
<1>3. \A ch : remove(ch) = Poller!remove(ch)
  BY Zenon DEF remove, Poller!remove, removeChannel, Poller!removeChannel,
     update, Poller!update, Assert_, Poller!Assert_, isNoneEvent,
     Poller!isNoneEvent, Absent, Poller!Absent
<1>4. \A ch, e : reported(ch, e) = Poller!reported(ch, e)
  BY Zenon DEF reported, Poller!reported, Assert_, Poller!Assert_
<1>5. Events = Poller!Events /\ Absent = Poller!Absent
  BY DEF Events, Poller!Events, kReadEvent, Poller!kReadEvent, kWriteEvent,
     Poller!kWriteEvent, Absent, Poller!Absent
<1>6. NewChannel = Poller!NewChannel
  BY Zenon DEF NewChannel, Poller!NewChannel, Absent, Poller!Absent
<1>7. QED
  BY <1>1, <1>2, <1>3, <1>4, <1>5, <1>6

Channels == [c \in Conns |-> conn[c].ch]
ChannelsAgree == \A c \in Conns : Agrees(Channels[c])

\* Every step of such owners changes one channel, by an operation above.
LEMMA OwnersAgree ==
    ASSUME ET \in BOOLEAN
    PROVE  /\ Poller!Init => ChannelsAgree
           /\ ChannelsAgree /\ [Poller!Next]_Channels => ChannelsAgree'
<1>1. Poller!Init => ChannelsAgree
  <2>1. NewChannel = Rec({}, -1, FALSE, FALSE, Absent, FALSE, {})
    BY DEF NewChannel, Rec
  <2>2. Agrees(NewChannel)
    BY <2>1, Shapes
  <2>3. Poller!Init => \A c \in Conns : Channels[c] = NewChannel
    BY SameChannel DEF Poller!Init, Channels
  <2>4. QED
    BY <2>2, <2>3 DEF ChannelsAgree
<1>2. ASSUME ChannelsAgree, NEW c \in Conns, NEW ch, Agrees(ch),
             Channels' = [Channels EXCEPT ![c] = ch]
      PROVE  ChannelsAgree'
  <2>1. \A d \in Conns : Channels'[d] = IF d = c THEN ch ELSE Channels[d]
    BY <1>2 DEF Channels
  <2>2. QED
    BY <1>2, <2>1 DEF ChannelsAgree
<1>3. ASSUME ChannelsAgree, NEW c \in Conns,
             \/ Poller!EnableReading(c) \/ Poller!EnableWriting(c)
             \/ Poller!DisableReading(c) \/ Poller!DisableWriting(c)
             \/ Poller!DisableAll(c)
      PROVE  ChannelsAgree'
  <2>1. Agrees(Channels[c]) /\ Channels[c].events \in SUBSET Events
    BY <1>3 DEF ChannelsAgree, Agrees, ChannelRecord
  <2>2. \E ev \in SUBSET Poller!Events :
            /\ ev # {} \/ ~Poller!isNoneEvent(Channels[c])
            /\ Channels' = [Channels EXCEPT ![c] = Poller!setEvents(Channels[c], ev)]
    <3>1. Channels[c].events \in SUBSET Poller!Events
      BY <2>1, SameChannel
    <3>2. QED
      BY <1>3, <3>1 DEF Channels, Poller!EnableReading, Poller!EnableWriting,
         Poller!DisableReading, Poller!DisableWriting, Poller!DisableAll,
         Poller!enableReading, Poller!enableWriting, Poller!disableReading,
         Poller!disableWriting, Poller!disableAll, Poller!isReading,
         Poller!isWriting, Poller!isNoneEvent, Poller!Events, Poller!set
  <2>3. PICK ev \in SUBSET Events :
            /\ ev # {} \/ ~isNoneEvent(Channels[c])
            /\ Channels' = [Channels EXCEPT ![c] = setEvents(Channels[c], ev)]
    BY <2>2, SameChannel
  <2>4. QED
    BY <1>2, <1>3, <2>1, <2>3, SetEventsAgrees
<1>4. ASSUME ChannelsAgree, NEW c \in Conns, Poller!Remove(c)
      PROVE  ChannelsAgree'
  <2>1. /\ Channels[c].addedToLoop /\ isNoneEvent(Channels[c])
        /\ Channels' = [Channels EXCEPT ![c] = remove(Channels[c])]
    BY <1>4, SameChannel DEF Poller!Remove, Poller!Fresh, Poller!set, Channels
  <2>2. QED
    BY <1>2, <1>4, <2>1, RemoveAgrees DEF ChannelsAgree
<1>5. ASSUME ChannelsAgree, NEW c \in Conns,
             Poller!StateChanges(c) \/ Poller!Report(c)
      PROVE  ChannelsAgree'
  <2>1. /\ Channels[c].epoll # Absent
        /\ \/ Channels' = [Channels EXCEPT ![c] = [Channels[c] EXCEPT !.edge = TRUE]]
           \/ Channels' = [Channels EXCEPT ![c] = reported(Channels[c], ET)]
    BY <1>5, SameChannel DEF Poller!StateChanges, Poller!Report, Poller!set,
       Channels
  <2>2. QED
    BY <1>2, <1>5, <2>1, ReportAgrees DEF ChannelsAgree
<1>6. ASSUME ChannelsAgree, UNCHANGED Channels PROVE ChannelsAgree'
  BY <1>6 DEF ChannelsAgree
<1>7. QED
  BY <1>1, <1>3, <1>4, <1>5, <1>6 DEF Poller!Next

\* Whoever owns the channels, without redundant calls a channel is registered
\* with epoll exactly when it has an event, and index_ and channels_ say so.
THEOREM PollerAgrees ==
    ASSUME ET \in BOOLEAN
    PROVE  Poller!Spec => []Poller!EpollAgrees
<1>1. ChannelsAgree => Poller!EpollAgrees
  BY SameChannel DEF ChannelsAgree, Agrees, Poller!EpollAgrees, Channels
<1>2. Poller!Spec => []ChannelsAgree
  BY OwnersAgree, PTL DEF Poller!Spec, Channels
<1>3. QED
  BY <1>1, <1>2, PTL

\* Whoever owns the channels, without redundant calls no assert but the ones
\* of EpollPoller.cpp:72 and :97 fails, and no ADD or MOD.
THEOREM PollerFailsTwoAsserts ==
    ASSUME ET \in BOOLEAN
    PROVE  Poller!Spec => []Poller!OnlyTwoAssertsFail
<1>1. ChannelsAgree => Poller!OnlyTwoAssertsFail
  BY DEF ChannelsAgree, Agrees, ChannelRecord, Breakable, Channels,
         Poller!OnlyTwoAssertsFail
<1>2. Poller!Spec => []ChannelsAgree
  BY OwnersAgree, PTL DEF Poller!Spec, Channels
<1>3. QED
  BY <1>1, <1>2, PTL

-----------------------------------------------------------------------------
(* One connection.                                                         *)

\* What a connection's operation may queue, and all functors.
Posted == {"forceClose", "writeComplete", "highWaterMark"}
Kinds == Posted \cup {"send", "established", "removeInLoop", "destroyed"}

States == {"kConnecting", "kConnected", "kDisconnecting", "kDisconnected"}

\* What a socket may hold, and what epoll may report of it.
Inbox == {"data", "rst", "fin", "err"}
Reportable == {"in", "out", "err", "hup"}

\* The type of a connection whose asserts have all held.
ConnRecord ==
    [state : States, reading : BOOLEAN, out : Nat, ch : ChannelRecord,
     timer : BOOLEAN, posts : Seq(Posted), closes : {0, 1}, ups : {0, 1},
     downs : {0, 1}, failed : {{}}, inbox : SUBSET Inbox,
     full : BOOLEAN, finSent : BOOLEAN]

\* A connection that is up: it reads, it writes while it has output, and it
\* has sent its FIN only after its output.
Up(k) ==
    /\ k \in ConnRecord
    /\ Open(k) /\ Agrees(k.ch) /\ isReading(k.ch) /\ k.reading
    /\ k.ups = 1 /\ k.downs = 0 /\ k.closes = 0
    /\ k.out > 0 => isWriting(k.ch)
    /\ k.finSent => k.out = 0 /\ ~isWriting(k.ch)

\* A connection that has gone down is deaf.
Down(k) ==
    /\ k \in ConnRecord
    /\ k.state = "kDisconnected" /\ Agrees(k.ch) /\ isNoneEvent(k.ch)
    /\ k.ups = 1 /\ k.downs = 1
    /\ k.finSent => k.out = 0

\* The operation took the connection down.
GoneDown(k) == Down(k) /\ k.closes = 1 /\ k.ch.addedToLoop

\* A write that mayEnd(k, w) lets end.
Ends(k, w) == k.finSent => w = "fault"

\* A connection is up or down, not both, and neither when it is new.
LEMMA UpOrDown ==
    ASSUME NEW k
    PROVE  /\ Up(k) => k.state # "kDisconnected" /\ k.state # "kConnecting"
           /\ Down(k) => ~Open(k) /\ k.state # "kConnecting"
           /\ NewConn.state = "kConnecting" /\ ~Open(NewConn)
           /\ Up(k) => k.ch.addedToLoop /\ k.ch.events # {} /\ k.ch.epoll # Absent
           /\ Down(k) => k.ch.epoll = Absent /\ ~isWriting(k.ch)
  BY AgreesMeans, RecordMeans, AbsentIsNoInterest
     DEF Up, Down, Open, NewConn, isReading, isWriting, isNoneEvent

\* A new connection's record.
LEMMA NewIsRecord ==
    /\ NewConn \in ConnRecord /\ Agrees(NewConn.ch)
    /\ NewConn.posts = <<>> /\ NewConn.closes = 0 /\ ~NewConn.timer
    /\ NewConn.ups = 0 /\ NewConn.downs = 0 /\ ~NewConn.finSent
<1>1. NewChannel \in ChannelRecord
  BY RecordMeans DEF NewChannel
<1>2. Agrees(NewChannel)
  BY <1>1, AgreesMeans DEF NewChannel
<1>3. <<>> \in Seq(Posted)
  BY EmptySeq
<1>4. QED
  BY <1>1, <1>2, <1>3 DEF NewConn, ConnRecord, States

\* connectEstablished brings a new connection up.
LEMMA EstablishedIsUp ==
    /\ Up(connectEstablished(NewConn))
    /\ connectEstablished(NewConn).posts = <<>>
    /\ ~connectEstablished(NewConn).finSent
    /\ connectEstablished(NewConn).ch.addedToLoop
<1> DEFINE ch1 == enableReading(NewConn.ch)
           k == connectEstablished(NewConn)
<1>1. Agrees(ch1) /\ ch1.events = {"read"} /\ ch1.addedToLoop
  <2>1. NewConn.ch.events = {}
    BY DEF NewConn, NewChannel
  <2>2. {"read"} \in SUBSET Events /\ {"read"} # {}
    BY AbsentIsNoInterest
  <2>3. ch1 = setEvents(NewConn.ch, {"read"})
    BY <2>1 DEF enableReading, kReadEvent
  <2>4. QED
    BY <2>2, <2>3, NewIsRecord, Interest
<1>2. ch1 \in ChannelRecord
  BY <1>1, AgreesMeans
<1> HIDE DEF ch1
<1>3. k = [NewConn EXCEPT !.failed = {}, !.state = "kConnected",
                          !.ch = ch1, !.ups = 1]
  BY DEF connectEstablished, NewConn, Assert_, ch1
<1>4. k \in ConnRecord
  BY <1>2, <1>3, NewIsRecord DEF ConnRecord, States
<1>5. /\ k.state = "kConnected" /\ k.ch = ch1 /\ k.reading /\ k.ups = 1
      /\ k.downs = 0 /\ k.closes = 0 /\ k.out = 0 /\ ~k.finSent
      /\ k.posts = <<>>
  BY <1>3, NewIsRecord DEF NewConn
<1> HIDE DEF k
<1>6. Up(k)
  BY <1>1, <1>4, <1>5 DEF Up, Open, isReading, kReadEvent
<1>7. QED
  BY <1>1, <1>5, <1>6 DEF k

\* Queueing a functor, and the outcome of a write, do not disturb it.
LEMMA PostIsUp ==
    ASSUME NEW k, Up(k), NEW p \in Posted, NEW w
    PROVE  /\ Up(post(k, p)) /\ Up(written(k, w))
           /\ post(k, p).finSent = k.finSent
           /\ written(k, w).finSent = k.finSent
           /\ written(k, w).ch = k.ch
<1>1. Append(k.posts, p) \in Seq(Posted)
  BY AppendProperties DEF Up, ConnRecord
<1> DEFINE q == Append(k.posts, p)
<1> HIDE DEF q
<1>2. Up([k EXCEPT !.posts = q]) /\ [k EXCEPT !.posts = q].finSent = k.finSent
  BY <1>1 DEF q, Up, ConnRecord, Open, isReading, isWriting
<1> DEFINE b == w \in {"part", "none"}
<1>3. b \in BOOLEAN
  OBVIOUS
<1> HIDE DEF b
<1>4. Up([k EXCEPT !.full = b]) /\ [k EXCEPT !.full = b].finSent = k.finSent
  BY <1>3 DEF Up, ConnRecord, Open, isReading, isWriting
<1> DEFINE j == [k EXCEPT !.full = b]
           S == j.inbox \ {e \in {"err"} : w = "fault"}
<1>5. written(k, w) = [j EXCEPT !.inbox = S]
  BY DEF written, b, Up, ConnRecord
<1>6. S \in SUBSET Inbox
  BY <1>4 DEF Up, ConnRecord
<1>7. Up(j) /\ j.finSent = k.finSent /\ j.ch = k.ch
  BY <1>4 DEF Up, ConnRecord
<1> HIDE DEF j, S
<1>8. /\ Up([j EXCEPT !.inbox = S])
      /\ [j EXCEPT !.inbox = S].finSent = j.finSent
      /\ [j EXCEPT !.inbox = S].ch = j.ch
  BY <1>6, <1>7 DEF Up, ConnRecord, Open, isReading, isWriting
<1>9. QED
  BY <1>2, <1>5, <1>7, <1>8 DEF post, q

\* The tail of sendInLoop keeps it up, and writing.
LEMMA BufferIsUp ==
    ASSUME NEW k, Up(k), ~k.finSent
    PROVE  Up(buffer(k)) /\ ~buffer(k).finSent
<1> DEFINE crossed == k.out + 1 >= HighWaterMark /\ k.out < HighWaterMark
           k1 == IF crossed THEN post(k, "highWaterMark") ELSE k
           k2 == [k1 EXCEPT !.out = k1.out + 1]
           k3 == [k2 EXCEPT !.ch = enableWriting(k2.ch)]
<1>1. Up(k1) /\ ~k1.finSent
  BY PostIsUp DEF Posted
<1>2. buffer(k) = IF isWriting(k.ch) THEN k2 ELSE k3
  BY DEF buffer
<1>3. k1.ch = k.ch
  BY DEF post, Up, ConnRecord
<1> HIDE DEF k1
<1>4. /\ k2 \in ConnRecord /\ Open(k2) /\ k2.ch = k.ch /\ k2.reading
      /\ k2.ups = 1 /\ k2.downs = 0 /\ k2.closes = 0 /\ ~k2.finSent
  <2>1. k1.out + 1 \in Nat
    BY <1>1 DEF Up, ConnRecord
  <2>2. k2 \in ConnRecord
    BY <1>1, <2>1 DEF Up, ConnRecord
  <2>3. /\ k2.state = k1.state /\ k2.ch = k1.ch /\ k2.reading = k1.reading
        /\ k2.ups = k1.ups /\ k2.downs = k1.downs /\ k2.closes = k1.closes
        /\ k2.finSent = k1.finSent
    BY <1>1 DEF Up, ConnRecord
  <2>4. QED
    BY <1>1, <1>3, <2>2, <2>3 DEF Up, Open
<1>5. Agrees(k.ch) /\ isReading(k.ch)
  BY DEF Up
<1> HIDE DEF k2
<1>6. CASE isWriting(k.ch)
  BY <1>2, <1>4, <1>5, <1>6 DEF Up
<1>7. CASE ~isWriting(k.ch)
  <2> DEFINE ch1 == enableWriting(k.ch)
  <2>1. k.ch.events \cup {"write"} \in SUBSET Events
    BY <1>5, AgreesMeans, RecordMeans, AbsentIsNoInterest
  <2>2. ch1 = setEvents(k.ch, k.ch.events \cup {"write"})
    BY DEF enableWriting, kWriteEvent
  <2>3. Agrees(ch1) /\ ch1.events = k.ch.events \cup {"write"}
    <3>1. k.ch.events \cup {"write"} # {}
      OBVIOUS
    <3>2. QED
      BY <2>1, <2>2, <3>1, <1>5, Interest
  <2>4. ch1 \in ChannelRecord
    BY <2>3, AgreesMeans
  <2> HIDE DEF ch1
  <2>5. isReading(ch1) /\ isWriting(ch1)
    BY <1>5, <2>3 DEF isReading, isWriting, kReadEvent, kWriteEvent
  <2>6. k3 = [k2 EXCEPT !.ch = ch1]
    BY <1>4 DEF ch1
  <2>7. Up(k3) /\ ~k3.finSent
    BY <1>4, <2>3, <2>4, <2>5, <2>6 DEF Up, ConnRecord, Open
  <2>8. QED
    BY <1>2, <1>7, <2>7
<1>8. QED
  BY <1>6, <1>7

\* sendInLoop keeps a connection up, and leaves one that is down alone.
LEMMA SendIsUp ==
    ASSUME NEW k, NEW w
    PROVE  /\ Up(k) /\ Ends(k, w) => Up(sendInLoop(k, w))
           /\ Down(k) => sendInLoop(k, w) = k
<1>1. Down(k) => sendInLoop(k, w) = k
  BY DEF sendInLoop, Down
<1>2. ASSUME Up(k), Ends(k, w) PROVE Up(sendInLoop(k, w))
  <2> DEFINE direct == ~isWriting(k.ch) /\ k.out = 0
  <2>1. k.state # "kDisconnected"
    BY <1>2, UpOrDown
  <2>2. CASE ~direct
    <3>1. ~k.finSent
      BY <1>2, <2>2 DEF Up
    <3>2. sendInLoop(k, w) = buffer(k)
      BY <2>1, <2>2 DEF sendInLoop
    <3>3. QED
      BY <1>2, <3>1, <3>2, BufferIsUp
  <2>3. CASE direct /\ w = "all"
    <3>1. sendInLoop(k, w) = post(written(k, w), "writeComplete")
      BY <2>1, <2>3 DEF sendInLoop
    <3>2. Up(written(k, w)) /\ "writeComplete" \in Posted
      BY <1>2, PostIsUp DEF Posted
    <3>3. QED
      BY <3>1, <3>2, PostIsUp
  <2>4. CASE direct /\ w = "fault"
    <3>1. sendInLoop(k, w) = written(k, w)
      BY <2>1, <2>4 DEF sendInLoop
    <3>2. QED
      BY <3>1, <1>2, PostIsUp DEF Posted
  <2>5. CASE direct /\ w # "all" /\ w # "fault"
    <3>1. sendInLoop(k, w) = buffer(written(k, w))
      BY <2>1, <2>5, Zenon DEF sendInLoop
    <3>2. Up(written(k, w)) /\ ~written(k, w).finSent
      BY <1>2, <2>5, PostIsUp DEF Ends, Posted
    <3>3. QED
      BY <3>1, <3>2, BufferIsUp
  <2>6. QED
    BY <2>2, <2>3, <2>4, <2>5
<1>3. QED
  BY <1>1, <1>2

\* shutdownInLoop keeps it up: the FIN is sent only when nothing is buffered.
LEMMA ShutdownIsUp ==
    ASSUME NEW k, Up(k)
    PROVE  Up(shutdownInLoop(k))
<1>1. CASE isWriting(k.ch)
  BY <1>1 DEF shutdownInLoop
<1>2. CASE ~isWriting(k.ch)
  <2> DEFINE k1 == [k EXCEPT !.finSent = TRUE]
  <2>1. k1 \in ConnRecord
    BY DEF Up, ConnRecord
  <2>2. /\ k1.state = k.state /\ k1.ch = k.ch /\ k1.reading = k.reading
        /\ k1.ups = k.ups /\ k1.downs = k.downs /\ k1.closes = k.closes
        /\ k1.out = k.out
    BY DEF Up, ConnRecord
  <2>3. k.out = 0
    BY <1>2 DEF Up, ConnRecord
  <2> HIDE DEF k1
  <2>4. Up(k1)
    BY <1>2, <2>1, <2>2, <2>3 DEF Up, Open
  <2>5. QED
    BY <1>2, <2>4 DEF shutdownInLoop, k1
<1>3. QED
  BY <1>1, <1>2

\* handleWrite keeps a connection up, and leaves one that is down alone.
LEMMA WriteIsUp ==
    ASSUME NEW k, NEW w
    PROVE  /\ Up(k) => Up(handleWrite(k, w))
           /\ Down(k) => handleWrite(k, w) = k
<1>1. Down(k) => handleWrite(k, w) = k
  BY UpOrDown DEF handleWrite
<1>2. ASSUME Up(k) PROVE Up(handleWrite(k, w))
  <2>1. CASE ~isWriting(k.ch)
    BY <1>2, <2>1 DEF handleWrite
  <2>2. CASE isWriting(k.ch) /\ w # "all"
    BY <1>2, <2>2, PostIsUp DEF handleWrite, Posted
  <2>3. CASE isWriting(k.ch) /\ w = "all"
    <3> DEFINE ch1 == disableWriting(k.ch)
               k1 == written(k, w)
               k2 == [k1 EXCEPT !.out = 0, !.ch = disableWriting(k1.ch)]
               done == post(k2, "writeComplete")
    <3>1. handleWrite(k, w) = IF k.state = "kDisconnecting"
                              THEN shutdownInLoop(done) ELSE done
      BY <2>3 DEF handleWrite
    <3>2. Up(k1) /\ k1.ch = k.ch
      BY <1>2, PostIsUp DEF Posted
    <3>3. Agrees(k.ch) /\ "read" \in k.ch.events
      BY <1>2 DEF Up, isReading, kReadEvent
    <3>4. Agrees(ch1) /\ ch1.events = k.ch.events \ {"write"}
      <4>1. k.ch.events \ {"write"} \in SUBSET Events
        BY <3>3, AgreesMeans, RecordMeans
      <4>2. k.ch.events \ {"write"} # {}
        BY <3>3
      <4>3. ch1 = setEvents(k.ch, k.ch.events \ {"write"})
        BY DEF disableWriting, kWriteEvent
      <4>4. QED
        BY <3>3, <4>1, <4>2, <4>3, Interest
    <3>5. ch1 \in ChannelRecord
      BY <3>4, AgreesMeans
    <3>6. k2 = [k1 EXCEPT !.out = 0, !.ch = ch1]
      BY <3>2
    <3>7. isReading(ch1)
      BY <3>3, <3>4 DEF isReading, kReadEvent
    <3> HIDE DEF ch1, k1, k2
    <3>8. Up(k2)
      <4>1. k2 \in ConnRecord
        BY <3>2, <3>5, <3>6 DEF Up, ConnRecord
      <4>2. /\ k2.state = k1.state /\ k2.ch = ch1 /\ k2.reading = k1.reading
            /\ k2.ups = k1.ups /\ k2.downs = k1.downs
            /\ k2.closes = k1.closes /\ k2.out = 0 /\ k2.finSent = k1.finSent
        BY <3>2, <3>6 DEF Up, ConnRecord
      <4>3. ~k1.finSent
        BY <2>3, <3>2 DEF Up
      <4>4. QED
        BY <3>2, <3>4, <3>7, <4>1, <4>2, <4>3 DEF Up, Open
    <3>9. Up(done)
      BY <3>8, PostIsUp DEF Posted
    <3>10. QED
      BY <3>1, <3>9, ShutdownIsUp
  <2>4. QED
    BY <2>1, <2>2, <2>3
<1>3. QED
  BY <1>1, <1>2

\* handleClose takes it down.
LEMMA CloseIsDown ==
    ASSUME NEW k, Up(k)
    PROVE  /\ GoneDown(handleClose(k))
           /\ GoneDown(forceCloseInLoop(k))
<1> DEFINE ch1 == disableAll(k.ch)
           k1 == [k EXCEPT !.failed = k.failed \cup
                               Assert_(Open(k), "TcpConnection.cpp:260"),
                           !.state = "kDisconnected", !.ch = ch1,
                           !.closes = k.closes + 1]
           k2 == [k1 EXCEPT !.downs = k1.downs + 1]
<1>1. Agrees(ch1) /\ ch1.events = {} /\ ch1.addedToLoop
  <2>1. k.ch.events # {} /\ Agrees(k.ch) /\ {} \in SUBSET Events
    BY UpOrDown DEF Up
  <2>2. QED
    BY <2>1, Interest DEF disableAll
<1>2. ch1 \in ChannelRecord
  BY <1>1, AgreesMeans
<1>3. handleClose(k) = k2 /\ forceCloseInLoop(k) = k2
  BY DEF handleClose, down, forceCloseInLoop, Up
<1> HIDE DEF ch1
<1>4. k1 = [k EXCEPT !.failed = {}, !.state = "kDisconnected", !.ch = ch1,
                     !.closes = 1]
  <2>1. k.failed \cup Assert_(Open(k), "TcpConnection.cpp:260") = {}
    BY DEF Up, ConnRecord, Assert_
  <2>2. k.closes + 1 = 1
    BY DEF Up
  <2>3. QED
    BY <2>1, <2>2
<1>5. k1 \in ConnRecord /\ k1.downs = 0
  <2> HIDE DEF k1
  <2>1. k \in ConnRecord /\ k.downs = 0 /\ "kDisconnected" \in States
    BY DEF Up, States
  <2>2. QED
    BY <1>2, <1>4, <2>1 DEF ConnRecord
<1>6. /\ k1.state = "kDisconnected" /\ k1.ch = ch1 /\ k1.closes = 1
      /\ k1.ups = 1 /\ k1.finSent = k.finSent /\ k1.out = k.out
  BY <1>4 DEF Up, ConnRecord
<1> HIDE DEF k1
<1>7. k2 = [k1 EXCEPT !.downs = 1]
  BY <1>5
<1>8. k2 \in ConnRecord
  BY <1>5, <1>7 DEF ConnRecord
<1>9. /\ k2.state = "kDisconnected" /\ k2.ch = ch1 /\ k2.closes = 1
      /\ k2.ups = 1 /\ k2.downs = 1 /\ k2.finSent = k.finSent /\ k2.out = k.out
  BY <1>5, <1>6, <1>7 DEF ConnRecord
<1> HIDE DEF k2
<1>10. GoneDown(k2)
  BY <1>1, <1>8, <1>9 DEF GoneDown, Down, isNoneEvent, Up
<1>11. QED
  BY <1>3, <1>10

\* forceCloseInLoop leaves a connection that is down alone.
LEMMA ClosedStaysDown ==
    ASSUME NEW k, Down(k)
    PROVE  forceCloseInLoop(k) = k
  BY UpOrDown DEF forceCloseInLoop

\* connectDestroyed takes a connection that is down from its poller.
LEMMA DestroyedIsDown ==
    ASSUME NEW k, Down(k), k.ch.addedToLoop
    PROVE  /\ Down(connectDestroyed(k))
           /\ ~connectDestroyed(k).ch.addedToLoop
           /\ connectDestroyed(k).posts = k.posts
           /\ connectDestroyed(k).closes = k.closes
<1> DEFINE ch1 == remove(k.ch)
           k1 == [k EXCEPT !.ch = ch1]
<1>1. Agrees(ch1) /\ ch1.events = {} /\ ~ch1.addedToLoop
  BY Removal DEF Down, isNoneEvent
<1>2. ch1 \in ChannelRecord
  BY <1>1, AgreesMeans
<1>3. connectDestroyed(k) = k1
  BY DEF connectDestroyed, Down
<1> HIDE DEF ch1
<1>4. k1 \in ConnRecord
  BY <1>2 DEF Down, ConnRecord
<1>5. /\ k1.state = k.state /\ k1.ch = ch1 /\ k1.closes = k.closes
      /\ k1.posts = k.posts /\ k1.ups = k.ups /\ k1.downs = k.downs
      /\ k1.finSent = k.finSent /\ k1.out = k.out
  BY DEF Down, ConnRecord
<1> HIDE DEF k1
<1>6. Down(k1)
  BY <1>1, <1>4, <1>5 DEF Down, isNoneEvent
<1>7. QED
  BY <1>1, <1>3, <1>5, <1>6

\* Where a call in the loop's thread stores kDisconnecting, and a timer.
LEMMA StoreIsUp ==
    ASSUME NEW k, Up(k), NEW op \in Ops
    PROVE  LET s == [k EXCEPT !.state = stored(op, k.state)]
           IN  /\ Up(s) /\ s.finSent = k.finSent
               /\ Up([s EXCEPT !.timer = TRUE])
<1> DEFINE st == stored(op, k.state)
           s == [k EXCEPT !.state = st]
           s1 == [s EXCEPT !.timer = TRUE]
<1>1. st \in {"kConnected", "kDisconnecting"}
  BY DEF stored, Up, Open
<1> HIDE DEF st
<1>2. s \in ConnRecord
  BY <1>1 DEF Up, ConnRecord, States
<1>3. /\ s.state = st /\ s.ch = k.ch /\ s.reading = k.reading
      /\ s.ups = k.ups /\ s.downs = k.downs /\ s.closes = k.closes
      /\ s.out = k.out /\ s.finSent = k.finSent
  BY DEF Up, ConnRecord
<1> HIDE DEF s
<1>4. Up(s)
  BY <1>1, <1>2, <1>3 DEF Up, Open
<1>5. s1 \in ConnRecord
  BY <1>2 DEF ConnRecord
<1>6. /\ s1.state = s.state /\ s1.ch = s.ch /\ s1.reading = s.reading
      /\ s1.ups = s.ups /\ s1.downs = s.downs /\ s1.closes = s.closes
      /\ s1.out = s.out /\ s1.finSent = s.finSent
  BY <1>2 DEF ConnRecord
<1> HIDE DEF s1
<1>7. Up(s1)
  BY <1>4, <1>5, <1>6 DEF Up, Open
<1>8. QED
  BY <1>3, <1>4, <1>7 DEF s, s1, st

\* A call in the loop's thread, stopRead() apart, keeps a connection up.  On
\* one that is down it does nothing, startRead() and stopRead() apart.
LEMMA CallIsUp ==
    ASSUME NEW k, NEW w, NEW op \in Ops
    PROVE  /\ Up(k) /\ Ends(k, w) /\ op # "stopRead" => Up(call(op, k, w))
           /\ Down(k) /\ op \notin {"startRead", "stopRead"}
                  => call(op, k, w) = k
<1>1. Down(k) /\ op \notin {"startRead", "stopRead"} => call(op, k, w) = k
  <2> SUFFICES ASSUME Down(k), op \notin {"startRead", "stopRead"}
               PROVE  call(op, k, w) = k
    OBVIOUS
  <2>1. op \in {"send", "shutdown", "forceClose", "forceCloseWithDelay"}
    BY DEF Ops
  <2>2. ~admits(op, k.state)
    BY <2>1 DEF admits, Down
  <2>3. QED
    BY <2>2 DEF call
<1>2. ASSUME Up(k), Ends(k, w), op # "stopRead" PROVE Up(call(op, k, w))
  <2> DEFINE s == [k EXCEPT !.state = stored(op, k.state)]
  <2>1. Up(s) /\ s.finSent = k.finSent /\ Up([s EXCEPT !.timer = TRUE])
    BY <1>2, StoreIsUp
  <2>2. Ends(s, w)
    BY <1>2, <2>1 DEF Ends
  <2>3. CASE ~admits(op, k.state)
    BY <1>2, <2>3 DEF call
  <2> DEFINE yes == admits(op, k.state)
  <2>4. call(op, k, w) = CASE ~yes -> k
                           [] yes /\ op = "forceClose" -> post(s, op)
                           [] yes /\ op = "forceCloseWithDelay" ->
                                  [s EXCEPT !.timer = TRUE]
                           [] OTHER -> inLoop(op, s, w)
    BY DEF call
  <2> HIDE DEF s, yes
  <2>5. CASE yes /\ op = "forceClose"
    <3>1. call(op, k, w) = post(s, op) /\ op \in Posted
      BY <2>4, <2>5 DEF Posted
    <3>2. QED
      BY <2>1, <3>1, PostIsUp
  <2>6. CASE yes /\ op = "forceCloseWithDelay"
    BY <2>1, <2>4, <2>6
  <2>7. CASE yes /\ op \in {"send", "shutdown", "startRead"}
    <3>1. call(op, k, w) = inLoop(op, s, w)
      <4>1. op # "forceClose" /\ op # "forceCloseWithDelay" /\ yes
        BY <2>7
      <4>2. QED
        BY <2>4, <4>1, Zenon
    <3>2. op = "send" => Up(inLoop(op, s, w))
      BY <2>1, <2>2, SendIsUp DEF inLoop
    <3>3. op = "shutdown" => Up(inLoop(op, s, w))
      BY <2>1, ShutdownIsUp DEF inLoop
    <3>4. op = "startRead" => Up(inLoop(op, s, w))
      BY <2>1 DEF inLoop, startReadInLoop, Up
    <3>5. QED
      BY <2>7, <3>1, <3>2, <3>3, <3>4
  <2>8. QED
    BY <1>2, <2>3, <2>5, <2>6, <2>7 DEF Ops, yes
<1>3. QED
  BY <1>1, <1>2

\* Two records that differ in what the socket holds, the timer and the
\* channel's edge only.
Alike(k, j) ==
    /\ j.state = k.state /\ j.reading = k.reading /\ j.out = k.out
    /\ j.posts = k.posts /\ j.closes = k.closes /\ j.ups = k.ups
    /\ j.downs = k.downs /\ j.finSent = k.finSent
    /\ j.ch.events = k.ch.events /\ j.ch.addedToLoop = k.ch.addedToLoop

\* Such records are in the same phase of life.
LEMMA AlikeKeeps ==
    ASSUME NEW k, NEW j \in ConnRecord, Alike(k, j), Agrees(j.ch)
    PROVE  /\ Up(k) => Up(j)
           /\ Down(k) => Down(j)
  BY DEF Alike, Up, Down, Open, isReading, isWriting, isNoneEvent

\* The socket's buffers change, or the timer goes.
LEMMA SocketAlike ==
    ASSUME NEW k \in ConnRecord, Agrees(k.ch),
           NEW S \in SUBSET Inbox
    PROVE  \A j \in {[k EXCEPT !.inbox = S], [k EXCEPT !.full = FALSE],
                     [k EXCEPT !.timer = FALSE]} :
               j \in ConnRecord /\ Alike(k, j) /\ Agrees(j.ch)
<1>1. ASSUME NEW j, j = [k EXCEPT !.inbox = S]
      PROVE  j \in ConnRecord /\ Alike(k, j) /\ Agrees(j.ch)
  BY <1>1 DEF ConnRecord, Alike
<1>2. ASSUME NEW j, j = [k EXCEPT !.full = FALSE]
      PROVE  j \in ConnRecord /\ Alike(k, j) /\ Agrees(j.ch)
  BY <1>2 DEF ConnRecord, Alike
<1>3. ASSUME NEW j, j = [k EXCEPT !.timer = FALSE]
      PROVE  j \in ConnRecord /\ Alike(k, j) /\ Agrees(j.ch)
  BY <1>3 DEF ConnRecord, Alike
<1>4. QED
  BY <1>1, <1>2, <1>3

\* epoll looks at the channel, or reports it.
LEMMA WatchAlike ==
    ASSUME NEW k \in ConnRecord, Agrees(k.ch)
    PROVE  /\ touch(k) \in ConnRecord /\ Alike(k, touch(k))
           /\ Agrees(touch(k).ch)
           /\ k.ch.epoll # Absent => \A e \in BOOLEAN :
                 LET j == [k EXCEPT !.ch = reported(k.ch, e)]
                 IN  j \in ConnRecord /\ Alike(k, j) /\ Agrees(j.ch)
<1>1. ASSUME NEW ch, Agrees(ch), ch.events = k.ch.events,
             ch.addedToLoop = k.ch.addedToLoop, NEW j, j = [k EXCEPT !.ch = ch]
      PROVE  j \in ConnRecord /\ Alike(k, j) /\ Agrees(j.ch)
  <2>1. ch \in ChannelRecord
    BY <1>1, AgreesMeans
  <2>2. j \in ConnRecord
    BY <1>1, <2>1 DEF ConnRecord
  <2>3. j.ch = ch
    BY <1>1 DEF ConnRecord
  <2>4. Alike(k, j)
    BY <1>1, <2>3 DEF ConnRecord, Alike
  <2>5. QED
    BY <1>1, <2>2, <2>3, <2>4
<1>2. touch(k) \in ConnRecord /\ Alike(k, touch(k)) /\ Agrees(touch(k).ch)
  <2> DEFINE ch == [k.ch EXCEPT !.edge = (k.ch.epoll # Absent)]
  <2>1. touch(k) = [k EXCEPT !.ch = ch]
    BY DEF touch
  <2>2. Agrees(ch)
    BY Watch
  <2>3. ch.events = k.ch.events /\ ch.addedToLoop = k.ch.addedToLoop
    BY AgreesMeans, RecordMeans
  <2> HIDE DEF ch
  <2>4. QED
    BY <1>1, <2>1, <2>2, <2>3
<1>3. ASSUME k.ch.epoll # Absent, NEW e \in BOOLEAN
      PROVE  LET j == [k EXCEPT !.ch = reported(k.ch, e)]
             IN  j \in ConnRecord /\ Alike(k, j) /\ Agrees(j.ch)
  <2>1. /\ Agrees(reported(k.ch, e))
        /\ reported(k.ch, e).events = k.ch.events
        /\ reported(k.ch, e).addedToLoop = k.ch.addedToLoop
    BY <1>3, Watch
  <2>2. QED
    BY <2>1, <1>1
<1>4. QED
  BY <1>2, <1>3

\* handleError changes nothing but what the socket holds.
LEMMA ErrorKeeps ==
    ASSUME NEW k, Up(k) \/ Down(k)
    PROVE  /\ Up(k) => Up(handleError(k))
           /\ GoneDown(k) => GoneDown(handleError(k))
           /\ \A w : Ends(k, w) => Ends(handleError(k), w)
<1> DEFINE j == handleError(k)
<1>1. /\ k \in ConnRecord /\ Agrees(k.ch)
      /\ k.inbox \ {"err"} \in SUBSET Inbox
  BY DEF Up, Down, ConnRecord
<1>2. j \in ConnRecord /\ Alike(k, j) /\ Agrees(j.ch)
  BY <1>1, SocketAlike DEF handleError
<1> HIDE DEF j
<1>3. (Up(k) => Up(j)) /\ (Down(k) => Down(j))
  BY <1>2, AlikeKeeps
<1>4. QED
  BY <1>2, <1>3 DEF j, Alike, GoneDown, Ends

\* handleRead leaves the connection up, or takes it down once.
LEMMA ReadIsUp ==
    ASSUME NEW k, Up(k), NEW w, Ends(k, w), NEW op, op # "stopRead"
    PROVE  Up(handleRead(k, op, w)) \/ GoneDown(handleRead(k, op, w))
<1>1. k \in ConnRecord /\ Agrees(k.ch) /\ k.inbox \in SUBSET Inbox
  BY DEF Up, ConnRecord
<1>2. CASE "data" \in k.inbox
  <2> DEFINE read == [k EXCEPT !.inbox = k.inbox \ {"data"}]
  <2>1. handleRead(k, op, w) = IF op \in Ops THEN call(op, read, w) ELSE read
    BY <1>2 DEF handleRead
  <2>2. read \in ConnRecord /\ Alike(k, read) /\ Agrees(read.ch)
    <3>1. k.inbox \ {"data"} \in SUBSET Inbox
      BY <1>1
    <3>2. QED
      BY <1>1, <3>1, SocketAlike
  <2> HIDE DEF read
  <2>3. Up(read) /\ Ends(read, w)
    BY <2>2, AlikeKeeps DEF Alike, Ends
  <2>4. QED
    BY <2>1, <2>3, CallIsUp
<1>3. CASE "data" \notin k.inbox /\ "err" \in k.inbox
  <2>1. k.inbox \notin {{"fin"}, {"rst"}}
    BY <1>3
  <2>2. handleRead(k, op, w) = handleError(k)
    BY <1>3, <2>1, Zenon DEF handleRead
  <2>3. QED
    BY <2>2, ErrorKeeps
<1>4. CASE k.inbox \in {{"fin"}, {"rst"}}
  <2>1. "err" \notin k.inbox /\ "data" \notin k.inbox
    BY <1>4
  <2>2. handleRead(k, op, w) = handleClose(k)
    BY <1>4, <2>1, Zenon DEF handleRead
  <2>3. QED
    BY <2>2, CloseIsDown
<1>5. CASE /\ "err" \notin k.inbox /\ "data" \notin k.inbox
           /\ k.inbox \notin {{"fin"}, {"rst"}}
  <2>1. handleRead(k, op, w) = k
    BY <1>5, Zenon DEF handleRead
  <2>2. QED
    BY <2>1
<1>6. QED
  BY <1>2, <1>3, <1>4, <1>5

\* So does the handling of an event.
LEMMA EventIsUp ==
    ASSUME NEW k, Up(k), NEW w, Ends(k, w), NEW op, op # "stopRead", NEW rev
    PROVE  Up(handleEvent(k, rev, op, w)) \/ GoneDown(handleEvent(k, rev, op, w))
<1> DEFINE k1 == IF "hup" \in rev /\ "in" \notin rev THEN handleClose(k) ELSE k
           k2 == IF "err" \in rev THEN handleError(k1) ELSE k1
           k3 == IF "in" \in rev THEN handleRead(k2, op, w) ELSE k2
<1>1. IF "in" \in rev THEN Up(k1) /\ Ends(k1, w) ELSE Up(k1) \/ GoneDown(k1)
  BY CloseIsDown
<1>2. handleEvent(k, rev, op, w) = IF "out" \in rev THEN handleWrite(k3, w)
                                                    ELSE k3
  BY DEF handleEvent
<1> HIDE DEF k1
<1>3. IF "in" \in rev THEN Up(k2) /\ Ends(k2, w) ELSE Up(k2) \/ GoneDown(k2)
  BY <1>1, ErrorKeeps DEF GoneDown
<1> HIDE DEF k2
<1>4. Up(k3) \/ GoneDown(k3)
  BY <1>3, ReadIsUp
<1> HIDE DEF k3
<1>5. QED
  BY <1>2, <1>4, WriteIsUp DEF GoneDown

-----------------------------------------------------------------------------
(* The queues of functors.                                                 *)

Functors == [kind : Kinds, c : Conns]

\* Functor f is in the queue more than once.
Twice(q, f) == \E i, j \in 1..Len(q) : i # j /\ q[i] = f /\ q[j] = f

\* A functor is queued.
LEMMA QueueAppend ==
    ASSUME NEW q \in Seq(Functors), NEW e \in Functors
    PROVE  /\ Append(q, e) \in Seq(Functors)
           /\ \A f : Contains(Append(q, e), f) <=> Contains(q, f) \/ f = e
           /\ \A f : Twice(Append(q, e), f) =>
                        Twice(q, f) \/ (Contains(q, f) /\ f = e)
<1> DEFINE p == Append(q, e)
<1>1. /\ p \in Seq(Functors) /\ Len(p) = Len(q) + 1 /\ Len(q) \in Nat
      /\ \A i \in 1..Len(q) : p[i] = q[i]
      /\ p[Len(q) + 1] = e
  BY AppendProperties, LenProperties
<1> HIDE DEF p
<1>2. \A f : Contains(p, f) <=> Contains(q, f) \/ f = e
  BY <1>1 DEF Contains
<1>3. \A f : Twice(p, f) => Twice(q, f) \/ (Contains(q, f) /\ f = e)
  BY <1>1 DEF Contains, Twice
<1>4. QED
  BY <1>1, <1>2, <1>3 DEF p

\* Functors that were not there are queued.
LEMMA QueueConcat ==
    ASSUME NEW q \in Seq(Functors), NEW r \in Seq(Functors)
    PROVE  /\ q \o r \in Seq(Functors)
           /\ \A f : Contains(q \o r, f) <=> Contains(q, f) \/ Contains(r, f)
           /\ \A f : ~Contains(r, f) /\ Twice(q \o r, f) => Twice(q, f)
<1> DEFINE p == q \o r
<1>1. /\ p \in Seq(Functors) /\ Len(p) = Len(q) + Len(r)
      /\ Len(q) \in Nat /\ Len(r) \in Nat
      /\ \A i \in 1..Len(p) : p[i] = IF i <= Len(q) THEN q[i]
                                                    ELSE r[i - Len(q)]
  BY ConcatProperties, LenProperties
<1> HIDE DEF p
<1>2. ASSUME NEW f, Contains(p, f) PROVE Contains(q, f) \/ Contains(r, f)
  <2>1. PICK i \in 1..Len(p) : p[i] = f
    BY <1>2 DEF Contains
  <2>2. CASE i <= Len(q)
    BY <1>1, <2>1, <2>2 DEF Contains
  <2>3. CASE i > Len(q)
    <3>1. i - Len(q) \in 1..Len(r) /\ r[i - Len(q)] = f
      BY <1>1, <2>1, <2>3
    <3>2. QED
      BY <3>1 DEF Contains
  <2>4. QED
    BY <1>1, <2>2, <2>3
<1>3. ASSUME NEW f, Contains(q, f) PROVE Contains(p, f)
  BY <1>1, <1>3 DEF Contains
<1>4. ASSUME NEW f, Contains(r, f) PROVE Contains(p, f)
  <2>1. PICK i \in 1..Len(r) : r[i] = f
    BY <1>4 DEF Contains
  <2>2. Len(q) + i \in 1..Len(p) /\ p[Len(q) + i] = f
    BY <1>1, <2>1
  <2>3. QED
    BY <2>2 DEF Contains
<1>5. ASSUME NEW f, ~Contains(r, f), Twice(p, f) PROVE Twice(q, f)
  <2>1. PICK i, j \in 1..Len(p) : i # j /\ p[i] = f /\ p[j] = f
    BY <1>5 DEF Twice
  <2>2. \A n \in 1..Len(p) : p[n] = f => n <= Len(q)
    <3> SUFFICES ASSUME NEW n \in 1..Len(p), p[n] = f, n > Len(q)
                 PROVE  FALSE
      BY <1>1
    <3>1. n - Len(q) \in 1..Len(r) /\ r[n - Len(q)] = f
      BY <1>1
    <3>2. QED
      BY <1>5, <3>1 DEF Contains
  <2>3. QED
    BY <1>1, <2>1, <2>2 DEF Twice
<1>6. QED
  BY <1>1, <1>2, <1>3, <1>4, <1>5 DEF p

\* The functor at the head is taken.
LEMMA QueueTail ==
    ASSUME NEW q \in Seq(Functors), q # <<>>
    PROVE  /\ Head(q) \in Functors /\ Contains(q, Head(q))
           /\ Tail(q) \in Seq(Functors)
           /\ \A f : Contains(Tail(q), f) => Contains(q, f)
           /\ \A f : Contains(q, f) => Contains(Tail(q), f) \/ f = Head(q)
           /\ \A f : Twice(Tail(q), f) => Twice(q, f)
           /\ Contains(Tail(q), Head(q)) => Twice(q, Head(q))
<1> DEFINE p == Tail(q)
           h == Head(q)
<1>1. /\ p \in Seq(Functors) /\ Len(q) \in Nat /\ Len(p) = Len(q) - 1
      /\ \A i \in 1..Len(p) : p[i] = q[i + 1]
      /\ h = q[1] /\ h \in Functors /\ Len(q) > 0
  BY HeadTailProperties, LenProperties, EmptySeq
<1> HIDE DEF p, h
<1>2. Contains(q, h)
  BY <1>1 DEF Contains
<1>3. ASSUME NEW f, Contains(p, f) PROVE Contains(q, f)
  <2>1. PICK i \in 1..Len(p) : p[i] = f
    BY <1>3 DEF Contains
  <2>2. i + 1 \in 1..Len(q) /\ q[i + 1] = f
    BY <1>1, <2>1
  <2>3. QED
    BY <2>2 DEF Contains
<1>4. ASSUME NEW f, Contains(q, f) PROVE Contains(p, f) \/ f = h
  <2>1. PICK i \in 1..Len(q) : q[i] = f
    BY <1>4 DEF Contains
  <2>2. CASE i = 1
    BY <1>1, <2>1, <2>2
  <2>3. CASE i # 1
    <3>1. i - 1 \in 1..Len(p) /\ p[i - 1] = q[(i - 1) + 1] /\ (i - 1) + 1 = i
      BY <1>1, <2>3
    <3>2. QED
      BY <2>1, <3>1 DEF Contains
  <2>4. QED
    BY <2>2, <2>3
<1>5. ASSUME NEW f, Twice(p, f) PROVE Twice(q, f)
  <2>1. PICK i, j \in 1..Len(p) : i # j /\ p[i] = f /\ p[j] = f
    BY <1>5 DEF Twice
  <2>2. /\ i + 1 \in 1..Len(q) /\ j + 1 \in 1..Len(q) /\ i + 1 # j + 1
        /\ q[i + 1] = f /\ q[j + 1] = f
    BY <1>1, <2>1
  <2>3. QED
    BY <2>2 DEF Twice
<1>6. ASSUME Contains(p, h) PROVE Twice(q, h)
  <2>1. PICK i \in 1..Len(p) : p[i] = h
    BY <1>6 DEF Contains
  <2>2. /\ i + 1 \in 1..Len(q) /\ 1 \in 1..Len(q) /\ i + 1 # 1
        /\ q[i + 1] = h /\ q[1] = h
    BY <1>1, <2>1
  <2>3. QED
    BY <2>2 DEF Twice
<1>7. QED
  BY <1>1, <1>2, <1>3, <1>4, <1>5, <1>6 DEF p, h

\* What an operation queues, as functors of its connection.
LEMMA PostedFunctors ==
    ASSUME NEW posts \in Seq(Posted), NEW c \in Conns
    PROVE  LET r == [i \in DOMAIN posts |-> Functor(posts[i], c)]
           IN  /\ r \in Seq(Functors)
               /\ \A f : Contains(r, f) =>
                            \E kind \in Posted : f = Functor(kind, c)
<1> DEFINE r == [i \in DOMAIN posts |-> Functor(posts[i], c)]
<1>1. /\ DOMAIN posts = 1..Len(posts) /\ Len(posts) \in Nat
      /\ \A i \in 1..Len(posts) : posts[i] \in Posted
  BY LenProperties, ElementOfSeq
<1>2. \A i \in 1..Len(posts) : Functor(posts[i], c) \in Functors
  BY <1>1 DEF Functor, Functors, Kinds
<1>3. r \in [1..Len(posts) -> Functors]
  BY <1>1, <1>2
<1>4. r \in Seq(Functors) /\ Len(r) = Len(posts)
  BY <1>1, <1>3
<1>5. \A f : Contains(r, f) => \E kind \in Posted : f = Functor(kind, c)
  BY <1>1, <1>4 DEF Contains
<1>6. QED
  BY <1>4, <1>5

\* The queues with one longer by several functors or one, or without its
\* head.
Grown(q, l, r) == [q EXCEPT ![l] = @ \o r]
Pushed(q, l, e) == [q EXCEPT ![l] = Append(@, e)]
Popped(q, l) == [q EXCEPT ![l] = Tail(@)]

\* Queues p are queues q, and those of r are in that of loop m.
Longer(p, q, m, r) ==
    /\ p \in [Loops -> Seq(Functors)]
    /\ \A l \in Loops : \A f :
          /\ Contains(p[l], f) <=> Contains(q[l], f) \/ (l = m /\ Contains(r, f))
          /\ Twice(p[l], f) => Twice(q[l], f) \/ (l = m /\ Contains(r, f))

\* Several functors are pushed.
LEMMA GrownQueues ==
    ASSUME NEW q, q \in [Loops -> Seq(Functors)], NEW m, m \in Loops,
           NEW r, r \in Seq(Functors)
    PROVE  Longer(Grown(q, m, r), q, m, r)
<1>1. /\ Grown(q, m, r) \in [Loops -> Seq(Functors)]
      /\ \A l \in Loops :
            Grown(q, m, r)[l] = IF l = m THEN q[l] \o r ELSE q[l]
  BY QueueConcat DEF Grown
<1>2. QED
  BY <1>1, QueueConcat DEF Longer

\* Queues p are queues q, and e is in that of loop m.
OneMore(p, q, m, e) ==
    /\ p \in [Loops -> Seq(Functors)]
    /\ \A l \in Loops : \A f :
          /\ Contains(p[l], f) <=> Contains(q[l], f) \/ (l = m /\ f = e)
          /\ Twice(p[l], f) => \/ Twice(q[l], f)
                               \/ l = m /\ f = e /\ Contains(q[l], f)

\* A functor is pushed.
LEMMA PushedQueues ==
    ASSUME NEW q, q \in [Loops -> Seq(Functors)], NEW m, m \in Loops,
           NEW e, e \in Functors
    PROVE  OneMore(Pushed(q, m, e), q, m, e)
<1>1. /\ Pushed(q, m, e) \in [Loops -> Seq(Functors)]
      /\ \A l \in Loops :
            Pushed(q, m, e)[l] = IF l = m THEN Append(q[l], e) ELSE q[l]
  BY QueueAppend DEF Pushed
<1>2. ASSUME NEW l \in Loops, NEW f
      PROVE  /\ Contains(Pushed(q, m, e)[l], f) <=>
                    Contains(q[l], f) \/ (l = m /\ f = e)
             /\ Twice(Pushed(q, m, e)[l], f) =>
                    \/ Twice(q[l], f)
                    \/ l = m /\ f = e /\ Contains(q[l], f)
  <2>1. CASE l = m
    <3>1. Pushed(q, m, e)[l] = Append(q[l], e) /\ q[l] \in Seq(Functors)
      BY <1>1, <2>1
    <3>2. QED
      BY <2>1, <3>1, QueueAppend
  <2>2. CASE l # m
    BY <1>1, <2>2
  <2>3. QED
    BY <2>1, <2>2
<1>3. QED
  BY <1>1, <1>2 DEF OneMore

\* A functor is taken from the head of a queue.
LEMMA PoppedQueues ==
    ASSUME NEW q \in [Loops -> Seq(Functors)], NEW m \in Loops, q[m] # <<>>
    PROVE  /\ Popped(q, m) \in [Loops -> Seq(Functors)]
           /\ Head(q[m]) \in Functors /\ Contains(q[m], Head(q[m]))
           /\ \A l \in Loops : \A f :
                 /\ Contains(Popped(q, m)[l], f) => Contains(q[l], f)
                 /\ Contains(q[l], f) => \/ Contains(Popped(q, m)[l], f)
                                         \/ l = m /\ f = Head(q[m])
                 /\ Twice(Popped(q, m)[l], f) => Twice(q[l], f)
           /\ Contains(Popped(q, m)[m], Head(q[m])) => Twice(q[m], Head(q[m]))
<1>1. /\ Popped(q, m) \in [Loops -> Seq(Functors)]
      /\ \A l \in Loops :
            Popped(q, m)[l] = IF l = m THEN Tail(q[l]) ELSE q[l]
  BY QueueTail DEF Popped
<1>2. QED
  BY <1>1, QueueTail
-----------------------------------------------------------------------------
(* The invariant.                                                          *)

\* The functors of which a connection has one at a time.
Once == {"established", "removeInLoop", "destroyed"}

\* What every variable holds.
Types ==
    /\ conn \in [Conns -> ConnRecord]
    /\ loop \in [Conns -> Loops]
    /\ connections_ \subseteq Conns
    /\ userRef \subseteq Conns
    /\ queue \in [Loops -> Seq(Functors)]
    /\ active \in [Loops -> SUBSET [c : Conns, revents : SUBSET Reportable]]
    /\ tpc \in [App -> {idle} \cup ({"send"} \X Conns)]

\* The pool of I/O loops gives out its loops in turn.
Turn ==
    /\ loops_ \in Seq(Loops) /\ next_ \in Nat \ {0}
    /\ loops_ = <<>> => next_ = 1
    /\ loops_ # <<>> => next_ <= Len(loops_)
    /\ ~listening_ => loops_ = <<>>

\* The server and its loops live, nothing that is gone was used, and what
\* exists is what a shared_ptr reaches.
Living ==
    /\ server = TRUE /\ stopped = {} /\ failed = {}
    /\ alive = {c \in Conns : Held(c)}

\* A connection is new; or up and in connections_; or down, in which case it
\* is in its poller as long as it is in connections_.
Phase(c) ==
    /\ conn[c].posts = <<>> /\ conn[c].closes = 0
    /\ \/ conn[c] = NewConn
       \/ Up(conn[c]) /\ c \in connections_
       \/ Down(conn[c]) /\ (c \in connections_ => conn[c].ch.addedToLoop)

\* One that was removed is in its poller until connectDestroyed has run.
Leaving(c) ==
    /\ conn[c].state = "kDisconnected"
    /\ c \notin connections_ /\ conn[c].ch.addedToLoop
    => Contains(queue[loop[c]], Functor("destroyed", c))

\* Functors wait in the connection's own loop, removals in the base loop, and
\* each finds the connection in the phase it is meant for.
Fits(l, kind, c) ==
    /\ kind # "removeInLoop" => l = loop[c]
    /\ kind = "removeInLoop" => /\ l = Base /\ c \in connections_
                                /\ conn[c].state = "kDisconnected"
    /\ kind = "established" => /\ conn[c].state = "kConnecting"
                               /\ c \in connections_
    /\ kind = "destroyed" => /\ conn[c].state = "kDisconnected"
                             /\ c \notin connections_
                             /\ conn[c].ch.addedToLoop
    /\ kind = "send" => c \in userRef
    /\ kind # "established" => conn[c].state # "kConnecting"

Queued(c) ==
    \A l \in Loops, kind \in Kinds :
        Contains(queue[l], Functor(kind, c)) =>
            /\ Fits(l, kind, c)
            /\ kind \in Once => ~Twice(queue[l], Functor(kind, c))

\* A channel that was reported and is still to be handled is open.
Reported(c) ==
    \A l \in Loops : \A a \in active[l] :
        a.c = c => /\ l = loop[c] /\ Open(conn[c])
                   /\ \A b \in active[l] : b.c = c => b = a

\* The application knows connections that were established, and keeps the
\* ones it calls; a client in the backlog has no connection yet.
Known(c) ==
    /\ c \in userRef => conn[c].state # "kConnecting"
    /\ \A t \in App : InCall(t, c) => c \in userRef
    /\ c \in backlog => conn[c].state = "kConnecting" /\ c \notin connections_

Sound(c) == Phase(c) /\ Leaving(c) /\ Queued(c) /\ Reported(c) /\ Known(c)

IInv == Types /\ Turn /\ Living /\ \A c \in Conns : Sound(c)

\* How the connections may be used: the application keeps a pointer until
\* what it asked for was done, its other threads only send, nobody stops
\* reading, and the server is not destroyed.
Careful ==
    /\ KeepsRef /\ ~Destroys
    /\ AppOps \subseteq {"send"}
    /\ "stopRead" \notin UserOps
    /\ UserOps \subseteq Ops /\ DownOps \subseteq Ops \ {"startRead", "stopRead"}

\* What a step leaves of a connection it is not about: its record but for
\* what the socket and epoll do, its functors and its pointers; reports may go.
Untouched(c) ==
    /\ \/ conn'[c] = conn[c]
       \/ /\ conn[c].state # "kConnecting" /\ conn'[c] \in ConnRecord
          /\ Alike(conn[c], conn'[c]) /\ Agrees(conn'[c].ch)
    /\ loop'[c] = loop[c]
    /\ c \in connections_' <=> c \in connections_

SameFunctors(c) ==
    \A l \in Loops, kind \in Kinds :
        /\ Contains(queue'[l], Functor(kind, c)) <=>
               Contains(queue[l], Functor(kind, c))
        /\ Twice(queue'[l], Functor(kind, c)) =>
               Twice(queue[l], Functor(kind, c))

SameReports(c) ==
    \A l \in Loops : \A a \in active'[l] : a.c = c => a \in active[l]

SameUsers(c) ==
    /\ c \in userRef' <=> c \in userRef
    /\ \A t \in App : InCall(t, c)' => InCall(t, c)
    /\ c \in backlog' => c \in backlog

\* A connection that is not touched stays in its phase ...
LEMMA FramePhase ==
    ASSUME NEW c \in Conns, Phase(c), Untouched(c)
    PROVE  /\ Phase(c)' /\ conn'[c].state = conn[c].state
           /\ conn'[c].ch.addedToLoop = conn[c].ch.addedToLoop
           /\ Open(conn'[c]) = Open(conn[c])
<1>1. CASE conn'[c] = conn[c]
  BY <1>1 DEF Untouched, Phase
<1>2. CASE conn'[c] # conn[c]
  <2>1. /\ conn[c].state # "kConnecting" /\ conn'[c] \in ConnRecord
        /\ Alike(conn[c], conn'[c]) /\ Agrees(conn'[c].ch)
    BY <1>2 DEF Untouched
  <2>2. conn[c] # NewConn
    BY <2>1, UpOrDown
  <2>3. /\ Up(conn[c]) => Up(conn'[c])
        /\ Down(conn[c]) => Down(conn'[c])
    BY <2>1, AlikeKeeps
  <2>4. QED
    BY <2>1, <2>2, <2>3 DEF Untouched, Phase, Alike, Open
<1>3. QED
  BY <1>1, <1>2

\* ... its functors still fit, ...
LEMMA FrameQueued ==
    ASSUME NEW c \in Conns, Phase(c), Leaving(c), Queued(c), Types,
           Untouched(c), SameFunctors(c), c \in userRef => c \in userRef'
    PROVE  Leaving(c)' /\ Queued(c)'
<1>1. /\ conn'[c].state = conn[c].state
      /\ conn'[c].ch.addedToLoop = conn[c].ch.addedToLoop
  BY FramePhase
<1>2. "destroyed" \in Kinds /\ loop[c] \in Loops
  BY DEF Kinds, Types
<1>3. Leaving(c)'
  BY <1>1, <1>2 DEF Leaving, SameFunctors, Untouched
<1>4. ASSUME NEW l \in Loops, NEW kind \in Kinds,
             Contains(queue'[l], Functor(kind, c))
      PROVE  /\ Fits(l, kind, c)'
             /\ kind \in Once => ~Twice(queue'[l], Functor(kind, c))
  <2>1. /\ Fits(l, kind, c)
        /\ kind \in Once => ~Twice(queue[l], Functor(kind, c))
    BY <1>4 DEF SameFunctors, Queued
  <2>2. Fits(l, kind, c)'
    BY <1>1, <2>1 DEF Fits, Untouched
  <2>3. QED
    BY <2>1, <2>2 DEF SameFunctors
<1>5. QED
  BY <1>3, <1>4 DEF Queued

\* ... its reports are still in order, ...
LEMMA FrameReported ==
    ASSUME NEW c \in Conns, Phase(c), Reported(c), Untouched(c), SameReports(c)
    PROVE  Reported(c)'
<1>1. Open(conn'[c]) = Open(conn[c]) /\ loop'[c] = loop[c]
  BY FramePhase DEF Untouched
<1>2. QED
  BY <1>1 DEF Reported, SameReports

\* ... and so are the pointers of the application.
LEMMA FrameKnown ==
    ASSUME NEW c \in Conns, Phase(c), Known(c), Untouched(c), SameUsers(c)
    PROVE  Known(c)'
<1>1. conn'[c].state = conn[c].state /\ (c \in connections_' <=> c \in connections_)
  BY FramePhase DEF Untouched
<1>2. QED
  BY <1>1 DEF Known, SameUsers

\* A connection object was made for the client.
Born(c) == c \in connections_ \/ conn[c].state # "kConnecting"

\* What every step has to keep.
Kept(c) == Sound(c)' /\ (Born(c) => Born(c)')

\* A step that does not touch a connection keeps what holds of it.
LEMMA Frame ==
    ASSUME NEW c \in Conns, Types, Sound(c), Untouched(c), SameFunctors(c),
           SameReports(c), SameUsers(c)
    PROVE  Kept(c)
<1>1. c \in userRef => c \in userRef'
  BY DEF SameUsers
<1>2. Sound(c)'
  BY <1>1, FramePhase, FrameQueued, FrameReported, FrameKnown DEF Sound
<1>3. Born(c) => Born(c)'
  BY FramePhase DEF Born, Untouched, Sound
<1>4. QED
  BY <1>2, <1>3 DEF Kept

-----------------------------------------------------------------------------
(* The steps of a connection's operations.                                 *)

\* The record that apply leaves.
LEMMA Cleaned ==
    ASSUME NEW k \in ConnRecord
    PROVE  LET j == [k EXCEPT !.posts = <<>>, !.closes = 0]
           IN  /\ j \in ConnRecord /\ j.posts = <<>> /\ j.closes = 0
               /\ j.state = k.state /\ j.ch = k.ch
               /\ Up(k) => Up(j)
               /\ Down(k) => Down(j)
<1> DEFINE j == [k EXCEPT !.posts = <<>>, !.closes = 0]
<1>1. <<>> \in Seq(Posted)
  BY EmptySeq
<1>2. j \in ConnRecord
  BY <1>1 DEF ConnRecord
<1>3. /\ j.posts = <<>> /\ j.closes = 0
      /\ j.state = k.state /\ j.ch = k.ch /\ j.reading = k.reading
      /\ j.ups = k.ups /\ j.downs = k.downs /\ j.out = k.out
      /\ j.finSent = k.finSent
  BY DEF ConnRecord
<1> HIDE DEF j
<1>4. /\ Up(k) => Up(j)
      /\ Down(k) => Down(j)
  BY <1>2, <1>3 DEF Up, Down, Open
<1>5. QED
  BY <1>2, <1>3, <1>4 DEF j

\* What apply adds to the queues: what was posted, to the connection's loop,
\* and for one that was closed its removal or its destruction.
Added(c, k, l, kind) ==
    \/ l = loop[c] /\ kind \in Posted
    \/ /\ k.closes = 1 /\ l = Base
       /\ kind = (IF loop[c] = Base THEN "destroyed" ELSE "removeInLoop")

\* The effect of apply.
LEMMA ApplyEffect ==
    ASSUME NEW c \in Conns, NEW k \in ConnRecord,
           NEW q \in [Loops -> Seq(Functors)], Types, Living,
           k.closes = 1 => c \in connections_, apply(c, k, q)
    PROVE  /\ conn' \in [Conns -> ConnRecord]
           /\ conn'[c] = [k EXCEPT !.posts = <<>>, !.closes = 0]
           /\ \A d \in Conns : d # c => conn'[d] = conn[d]
           /\ connections_' = IF k.closes = 1 /\ loop[c] = Base
                              THEN connections_ \ {c} ELSE connections_
           /\ failed' = {}
           /\ queue' \in [Loops -> Seq(Functors)]
           /\ \A l \in Loops, kind \in Kinds, d \in Conns :
                 LET f == Functor(kind, d)
                     added == d = c /\ Added(c, k, l, kind)
                 IN  /\ Contains(q[l], f) => Contains(queue'[l], f)
                     /\ Contains(queue'[l], f) => Contains(q[l], f) \/ added
                     /\ Twice(queue'[l], f) =>
                            \/ Twice(q[l], f)
                            \/ added /\ (kind \in Once => Contains(q[l], f))
           /\ k.closes = 1 /\ loop[c] = Base =>
                  Contains(queue'[Base], Functor("destroyed", c))
<1> DEFINE r == [i \in DOMAIN k.posts |-> Functor(k.posts[i], c)]
           q1 == Grown(q, loop[c], r)
           e == Functor(IF loop[c] = Base THEN "destroyed" ELSE "removeInLoop",
                        c)
           q2 == Pushed(q1, Base, e)
           j == [k EXCEPT !.posts = <<>>, !.closes = 0]
<1>1. /\ loop[c] \in Loops /\ Base \in Loops /\ e \in Functors
      /\ k.posts \in Seq(Posted) /\ k.closes \in {0, 1}
  BY DEF Types, Loops, Functors, Functor, Kinds, ConnRecord
<1>2. /\ r \in Seq(Functors)
      /\ \A f : Contains(r, f) => \E kind \in Posted : f = Functor(kind, c)
  BY <1>1, PostedFunctors
<1>3. conn' = [conn EXCEPT ![c] = j]
  BY DEF apply
<1>4. j \in ConnRecord
  BY Cleaned
<1> HIDE DEF j, r
<1>5. /\ conn' \in [Conns -> ConnRecord] /\ conn'[c] = j
      /\ \A d \in Conns : d # c => conn'[d] = conn[d]
  BY <1>3, <1>4 DEF Types
<1>6. /\ q1 \in [Loops -> Seq(Functors)]
      /\ \A l \in Loops : \A f :
            /\ Contains(q1[l], f) <=>
                   Contains(q[l], f) \/ (l = loop[c] /\ Contains(r, f))
            /\ Twice(q1[l], f) =>
                   Twice(q[l], f) \/ (l = loop[c] /\ Contains(r, f))
  <2>1. r \in Seq(Functors) /\ loop[c] \in Loops
    BY <1>1, <1>2
  <2>2. Longer(q1, q, loop[c], r)
    BY <2>1, GrownQueues
  <2> HIDE DEF q1
  <2>3. QED
    BY <2>2 DEF Longer
<1>7. /\ q2 \in [Loops -> Seq(Functors)]
      /\ \A l \in Loops : \A f :
            /\ Contains(q2[l], f) <=> Contains(q1[l], f) \/ (l = Base /\ f = e)
            /\ Twice(q2[l], f) => \/ Twice(q1[l], f)
                                  \/ l = Base /\ f = e /\ Contains(q1[l], f)
  <2> HIDE DEF q1, e
  <2>1. OneMore(q2, q1, Base, e)
    BY <1>1, <1>6, PushedQueues
  <2> HIDE DEF q2
  <2>2. QED
    BY <2>1 DEF OneMore
<1>8. \A kind1, kind2, d1, d2 :
          Functor(kind1, d1) = Functor(kind2, d2) => kind1 = kind2 /\ d1 = d2
  BY DEF Functor
<1>9. Posted \cap Once = {} /\ Posted \subseteq Kinds
  BY DEF Posted, Once, Kinds
<1>10. CASE k.closes = 0
  <2>1. queue' = q1 /\ connections_' = connections_ /\ failed' = failed
    <3>1. ~(k.closes > 0)
      BY <1>10
    <3>2. QED
      BY <1>10, <3>1, Zenon DEF apply, r, Grown
  <2> HIDE DEF q1, q2
  <2>2. ASSUME NEW l \in Loops, NEW kind \in Kinds, NEW d \in Conns,
               NEW f, f = Functor(kind, d)
        PROVE  LET added == d = c /\ Added(c, k, l, kind)
               IN  /\ Contains(q[l], f) => Contains(queue'[l], f)
                   /\ Contains(queue'[l], f) => Contains(q[l], f) \/ added
                   /\ Twice(queue'[l], f) =>
                          \/ Twice(q[l], f)
                          \/ added /\ (kind \in Once => Contains(q[l], f))
    <3>1. l = loop[c] /\ Contains(r, f) =>
              d = c /\ Added(c, k, l, kind) /\ kind \notin Once
      BY <1>2, <1>8, <1>9, <2>2 DEF Added
    <3>2. QED
      BY <1>6, <2>1, <3>1
  <2>3. QED
    BY <1>5, <1>6, <1>10, <2>1, <2>2 DEF Living, j
<1>11. CASE k.closes = 1
  <2>1. /\ queue' = q2 /\ failed' = failed
        /\ connections_' = IF loop[c] = Base THEN connections_ \ {c}
                                             ELSE connections_
    <3>1. k.closes # 0 /\ k.closes > 0 /\ c \in connections_
      BY <1>11
    <3>2. CASE loop[c] = Base
      <4>1. removeConnectionInLoop(c, q1)
        BY <3>1, <3>2, Zenon DEF apply, r, Grown
      <4>2. /\ connections_' = connections_ \ {c}
            /\ failed' = failed \cup Assert_(c \in connections_,
                                             "TcpServer.cpp:189")
            /\ queue' = [q1 EXCEPT ![destroyIn(c)] =
                             Append(@, Functor("destroyed", c))]
        BY <4>1, Zenon DEF removeConnectionInLoop, Living
      <4>3. failed' = failed
        BY <3>1, <4>2 DEF Assert_
      <4>4. queue' = q2
        BY <3>2, <4>2 DEF Pushed, destroyIn
      <4>5. QED
        BY <3>2, <4>2, <4>3, <4>4
    <3>3. CASE loop[c] # Base
      <4>1. /\ queue' = [q1 EXCEPT ![Base] =
                             Append(@, Functor("removeInLoop", c))]
            /\ connections_' = connections_ /\ failed' = failed
        BY <3>1, <3>3, Zenon DEF apply, r, Grown
      <4>2. QED
        BY <3>3, <4>1 DEF Pushed
    <3>4. QED
      BY <3>2, <3>3
  <2> DEFINE ek == IF loop[c] = Base THEN "destroyed" ELSE "removeInLoop"
  <2>2. e = Functor(ek, c) /\ ek \in Once /\ ek \notin Posted
    BY DEF Once, Posted
  <2> HIDE DEF q1, q2, e
  <2>3. ASSUME NEW l \in Loops, NEW kind \in Kinds, NEW d \in Conns,
               NEW f, f = Functor(kind, d)
        PROVE  LET added == d = c /\ Added(c, k, l, kind)
               IN  /\ Contains(q[l], f) => Contains(queue'[l], f)
                   /\ Contains(queue'[l], f) => Contains(q[l], f) \/ added
                   /\ Twice(queue'[l], f) =>
                          \/ Twice(q[l], f)
                          \/ added /\ (kind \in Once => Contains(q[l], f))
    <3>1. l = loop[c] /\ Contains(r, f) =>
              d = c /\ Added(c, k, l, kind) /\ kind \in Posted /\ kind \notin Once
      BY <1>2, <1>8, <1>9, <2>3 DEF Added
    <3>2. l = Base /\ f = e => d = c /\ Added(c, k, l, kind) /\ kind = ek
      BY <1>8, <1>11, <2>2, <2>3 DEF Added
    <3>3. QED
      BY <1>6, <1>7, <2>1, <2>2, <3>1, <3>2
  <2>4. loop[c] = Base => Contains(queue'[Base], Functor("destroyed", c))
    BY <1>1, <1>7, <2>1, <2>2
  <2>5. QED
    BY <1>5, <1>7, <1>11, <2>1, <2>3, <2>4 DEF Living, j
<1>12. QED
  BY <1>1, <1>10, <1>11

\* The queues that an operation of c starts from are those before the step,
\* possibly without the functor of c that is being run.
From(q, c) ==
    /\ q \in [Loops -> Seq(Functors)]
    /\ \A l \in Loops, kind \in Kinds, d \in Conns :
          /\ Contains(q[l], Functor(kind, d)) =>
                 Contains(queue[l], Functor(kind, d))
          /\ Twice(q[l], Functor(kind, d)) => Twice(queue[l], Functor(kind, d))
          /\ d # c /\ Contains(queue[l], Functor(kind, d)) =>
                 Contains(q[l], Functor(kind, d))

NoneLeft(q, kind, c) == \A l \in Loops : ~Contains(q[l], Functor(kind, c))

\* What an operation of c may do to its phase: it keeps the connection up, or
\* brings it up ...
StaysUp(c, k, q) ==
    /\ c \in connections_ /\ Up(k)
    /\ \/ Up(conn[c])
       \/ conn[c].state = "kConnecting" /\ NoneLeft(q, "established", c)

\* ... takes it down, ...
GoesDown(c, k) ==
    /\ Up(conn[c]) /\ GoneDown(k)
    /\ \A l \in Loops : \A a \in active'[l] : a.c # c

\* ... or leaves it down and takes it from its poller, or not.
StaysDown(c, k, q) ==
    /\ Down(conn[c]) /\ Down(k) /\ k.posts = <<>> /\ k.closes = 0
    /\ \/ /\ k.ch.addedToLoop = conn[c].ch.addedToLoop
          /\ \A l \in Loops : Contains(queue[l], Functor("destroyed", c)) =>
                                  Contains(q[l], Functor("destroyed", c))
       \/ /\ ~k.ch.addedToLoop /\ c \notin connections_
          /\ NoneLeft(q, "destroyed", c)

\* The rest of a step that applies an operation of c.
Around(c) ==
    /\ loop' = loop /\ tpc' = tpc /\ backlog' = backlog
    /\ userRef' = userRef \/ userRef' = userRef \cup {c}
    /\ \A l \in Loops : active'[l] \subseteq active[l]

\* A step that applies an operation of c keeps what holds of c and of every
\* other connection.
LEMMA ApplyKeeps ==
    ASSUME IInv, NEW c \in Conns, NEW k, NEW q, From(q, c), Around(c),
           StaysUp(c, k, q) \/ GoesDown(c, k) \/ StaysDown(c, k, q),
           apply(c, k, q)
    PROVE  /\ conn' \in [Conns -> ConnRecord]
           /\ queue' \in [Loops -> Seq(Functors)]
           /\ connections_' \subseteq Conns /\ failed' = {}
           /\ \A d \in Conns : Kept(d)
<1> DEFINE j == [k EXCEPT !.posts = <<>>, !.closes = 0]
<1>1. Types /\ Living /\ Sound(c) /\ q \in [Loops -> Seq(Functors)]
  BY DEF IInv, From
<1>2. /\ k \in ConnRecord
      /\ k.closes = 1 => GoesDown(c, k)
      /\ k.closes = 1 => c \in connections_
  <2>1. k \in ConnRecord
    BY DEF StaysUp, GoesDown, StaysDown, GoneDown, Up, Down
  <2>2. k.closes = 1 => GoesDown(c, k)
    BY DEF StaysUp, StaysDown, Up
  <2>3. Up(conn[c]) => c \in connections_
    BY <1>1, UpOrDown DEF Sound, Phase
  <2>4. QED
    BY <2>1, <2>2, <2>3 DEF GoesDown
<1>3. /\ conn' \in [Conns -> ConnRecord] /\ conn'[c] = j
      /\ \A d \in Conns : d # c => conn'[d] = conn[d]
      /\ connections_' = IF k.closes = 1 /\ loop[c] = Base
                         THEN connections_ \ {c} ELSE connections_
      /\ failed' = {} /\ queue' \in [Loops -> Seq(Functors)]
  BY <1>1, <1>2, ApplyEffect
<1>4. \A l \in Loops, kind \in Kinds, d \in Conns :
          LET f == Functor(kind, d)
              added == d = c /\ Added(c, k, l, kind)
          IN  /\ Contains(q[l], f) => Contains(queue'[l], f)
              /\ Contains(queue'[l], f) => Contains(q[l], f) \/ added
              /\ Twice(queue'[l], f) =>
                     \/ Twice(q[l], f)
                     \/ added /\ (kind \in Once => Contains(q[l], f))
  BY <1>1, <1>2, ApplyEffect
<1>5. k.closes = 1 /\ loop[c] = Base =>
          Contains(queue'[Base], Functor("destroyed", c))
  BY <1>1, <1>2, ApplyEffect
<1>6. ASSUME NEW d \in Conns, d # c PROVE Kept(d)
  <2>1. Untouched(d)
    BY <1>3, <1>6 DEF Untouched, Around
  <2>2. SameFunctors(d)
    BY <1>4, <1>6 DEF SameFunctors, From
  <2>3. SameReports(d) /\ SameUsers(d)
    BY <1>6 DEF SameReports, SameUsers, Around, InCall
  <2>4. QED
    BY <1>1, <2>1, <2>2, <2>3, Frame DEF IInv
<1>7. /\ j.posts = <<>> /\ j.closes = 0 /\ j.state = k.state /\ j.ch = k.ch
      /\ Up(k) => Up(j)
      /\ Down(k) => Down(j)
  BY <1>2, Cleaned
<1> HIDE DEF j
<1>8. /\ Open(k) = Open(j)
      /\ k.state # "kConnecting"
  BY <1>7, UpOrDown DEF Open, StaysUp, GoesDown, StaysDown, GoneDown
<1>9. Phase(c)'
  <2>1. CASE StaysUp(c, k, q)
    BY <1>3, <1>7, <2>1 DEF StaysUp, Phase, Up
  <2>2. CASE GoesDown(c, k)
    BY <1>3, <1>7, <2>2 DEF GoesDown, GoneDown, Phase
  <2>3. CASE StaysDown(c, k, q)
    <3>1. c \in connections_ => conn[c].ch.addedToLoop
      BY <1>1, <2>3, UpOrDown DEF StaysDown, Sound, Phase
    <3>2. c \in connections_' => k.ch.addedToLoop
      BY <1>3, <2>3, <3>1 DEF StaysDown
    <3>3. QED
      BY <1>3, <1>7, <2>3, <3>2 DEF StaysDown, Phase
  <2>4. QED
    BY <2>1, <2>2, <2>3
<1>10. Leaving(c)'
  <2> SUFFICES ASSUME k.state = "kDisconnected", c \notin connections_',
                      k.ch.addedToLoop
               PROVE  Contains(queue'[loop[c]], Functor("destroyed", c))
    BY <1>3, <1>7 DEF Leaving, Around
  <2>1. CASE StaysUp(c, k, q)
    BY <2>1, UpOrDown DEF StaysUp
  <2>2. CASE GoesDown(c, k)
    <3>1. c \in connections_ /\ k.closes = 1
      BY <1>2, <2>2 DEF GoesDown, GoneDown
    <3>2. QED
      BY <1>3, <1>5, <3>1
  <2>3. CASE StaysDown(c, k, q)
    <3>1. c \notin connections_ /\ conn[c].ch.addedToLoop
      <4>1. k.closes # 1
        BY <2>3 DEF StaysDown
      <4>2. k.ch.addedToLoop = conn[c].ch.addedToLoop
        BY <2>3, Zenon DEF StaysDown
      <4>3. QED
        BY <1>3, <4>1, <4>2, Zenon
    <3>2. Contains(queue[loop[c]], Functor("destroyed", c))
      BY <1>1, <2>3, <3>1 DEF StaysDown, Down, Sound, Leaving
    <3>3. Contains(q[loop[c]], Functor("destroyed", c))
      BY <1>1, <2>3, <3>2 DEF StaysDown, Types
    <3>4. "destroyed" \in Kinds /\ loop[c] \in Loops
      BY <1>1 DEF Kinds, Types
    <3>5. QED
      BY <1>4, <3>3, <3>4
  <2>4. QED
    BY <2>1, <2>2, <2>3
<1>11. Reported(c)'
  <2> SUFFICES ASSUME NEW l \in Loops, NEW a \in active'[l], a.c = c
               PROVE  /\ l = loop'[c] /\ Open(conn'[c])
                      /\ \A b \in active'[l] : b.c = c => b = a
    BY DEF Reported
  <2>1. a \in active[l] /\ active'[l] \subseteq active[l]
    BY DEF Around
  <2>2. /\ l = loop[c] /\ Open(conn[c])
        /\ \A b \in active[l] : b.c = c => b = a
    BY <1>1, <2>1 DEF Sound, Reported
  <2>3. Up(k)
    <3>1. ~GoesDown(c, k)
      BY DEF GoesDown
    <3>2. ~StaysDown(c, k, q)
      BY <2>2, UpOrDown DEF StaysDown
    <3>3. QED
      BY <3>1, <3>2 DEF StaysUp
  <2>4. QED
    BY <1>3, <1>8, <2>1, <2>2, <2>3 DEF Around, Up
<1>12. Known(c)'
  <2>1. \A t \in App : InCall(t, c)' => c \in userRef'
    BY <1>1 DEF Sound, Known, Around, InCall
  <2>2. conn'[c].state # "kConnecting"
    BY <1>3, <1>7, <1>8
  <2>3. c \notin backlog'
    <3>1. c \in connections_ \/ conn[c].state # "kConnecting"
      BY UpOrDown DEF StaysUp, GoesDown, StaysDown
    <3>2. QED
      BY <1>1, <3>1 DEF Sound, Known, Around
  <2>4. QED
    BY <2>1, <2>2, <2>3 DEF Known
<1>13. Queued(c)'
  <2> SUFFICES ASSUME NEW l \in Loops, NEW kind \in Kinds,
                      Contains(queue'[l], Functor(kind, c))
               PROVE  /\ Fits(l, kind, c)'
                      /\ kind \in Once => ~Twice(queue'[l], Functor(kind, c))
    BY DEF Queued
  <2>1. Contains(q[l], Functor(kind, c)) =>
           /\ Fits(l, kind, c)
           /\ kind \in Once => ~Twice(q[l], Functor(kind, c))
    BY <1>1 DEF From, Sound, Queued
  <2>2. loop'[c] = loop[c] /\ (c \in userRef => c \in userRef')
    BY DEF Around
  <2>3. CASE StaysUp(c, k, q)
    <3>1. k.closes = 0 /\ connections_' = connections_ /\ Up(k)
      BY <1>3, <2>3 DEF StaysUp, Up
    <3>2. Contains(q[l], Functor(kind, c)) => kind \in Posted \cup {"send"}
      <4>1. CASE Up(conn[c])
        <5>1. conn[c].state # "kDisconnected" /\ conn[c].state # "kConnecting"
          BY <4>1, UpOrDown
        <5>2. QED
          BY <2>1, <5>1 DEF Fits, Kinds
      <4>2. CASE conn[c].state = "kConnecting" /\ NoneLeft(q, "established", c)
        BY <2>1, <4>2 DEF Fits, NoneLeft
      <4>3. QED
        BY <2>3, <4>1, <4>2 DEF StaysUp
    <3>3. kind \in Posted \cup {"send"} /\ l = loop[c]
      BY <1>4, <2>1, <3>1, <3>2 DEF Added, Fits, Posted
    <3>4. kind = "send" => c \in userRef'
      BY <1>4, <2>1, <2>2, <3>1 DEF Added, Fits, Posted
    <3>5. Fits(l, kind, c)'
      BY <1>3, <1>7, <1>8, <2>2, <3>3, <3>4 DEF Fits, Posted
    <3>6. QED
      BY <3>3, <3>5 DEF Once, Posted
  <2>4. CASE GoesDown(c, k)
    <3>1. /\ k.closes = 1 /\ k.state = "kDisconnected" /\ k.ch.addedToLoop
          /\ c \in connections_
      BY <1>2, <2>4 DEF GoesDown, GoneDown, Down
    <3>2. Contains(q[l], Functor(kind, c)) =>
             kind \in Posted \cup {"send"} /\ kind \notin Once
      <4>1. conn[c].state # "kDisconnected" /\ conn[c].state # "kConnecting"
        BY <2>4, UpOrDown DEF GoesDown
      <4>2. QED
        BY <2>1, <4>1 DEF Fits, Kinds, Once, Posted
    <3>3. Fits(l, kind, c)'
      <4>1. CASE Contains(q[l], Functor(kind, c))
        BY <1>3, <1>7, <2>1, <2>2, <3>1, <3>2, <4>1 DEF Fits, Posted
      <4>2. CASE l = loop[c] /\ kind \in Posted
        BY <1>3, <1>7, <2>2, <3>1, <4>2 DEF Fits, Posted
      <4>3. CASE /\ l = Base
                 /\ kind = IF loop[c] = Base THEN "destroyed"
                                             ELSE "removeInLoop"
        BY <1>3, <1>7, <2>2, <3>1, <4>3 DEF Fits
      <4>4. QED
        BY <1>4, <4>1, <4>2, <4>3 DEF Added
    <3>4. kind \in Once => ~Twice(queue'[l], Functor(kind, c))
      <4>1. Twice(q[l], Functor(kind, c)) => Contains(q[l], Functor(kind, c))
        BY DEF Twice, Contains
      <4>2. QED
        BY <1>4, <3>2, <4>1
    <3>5. QED
      BY <3>3, <3>4
  <2>5. CASE StaysDown(c, k, q)
    <3>1. /\ k.closes = 0 /\ connections_' = connections_
          /\ k.state = "kDisconnected" /\ conn[c].state = "kDisconnected"
      BY <1>3, <2>5 DEF StaysDown, Down
    <3>2. CASE Contains(q[l], Functor(kind, c))
      <4>1. kind = "destroyed" => k.ch.addedToLoop
        <5>1. kind = "destroyed" => conn[c].ch.addedToLoop
          BY <2>1, <3>2 DEF Fits
        <5>2. kind = "destroyed" => ~NoneLeft(q, "destroyed", c)
          BY <3>2 DEF NoneLeft
        <5>3. kind = "destroyed" => k.ch.addedToLoop = conn[c].ch.addedToLoop
          BY <2>5, <5>2 DEF StaysDown
        <5>4. QED
          BY <5>1, <5>3
      <4>2. Fits(l, kind, c)'
        BY <1>3, <1>7, <2>1, <2>2, <3>1, <3>2, <4>1 DEF Fits
      <4>3. kind \in Once => ~Twice(queue'[l], Functor(kind, c))
        BY <1>4, <2>1, <3>1, <3>2 DEF Added, Once, Posted
      <4>4. QED
        BY <4>2, <4>3
    <3>3. CASE l = loop[c] /\ kind \in Posted
      BY <1>3, <1>7, <2>2, <3>1, <3>3 DEF Fits, Posted, Once
    <3>4. QED
      BY <1>4, <3>1, <3>2, <3>3 DEF Added
  <2>6. QED
    BY <2>3, <2>4, <2>5
<1>14. Kept(c)
  BY <1>3, <1>7, <1>8, <1>9, <1>10, <1>11, <1>12, <1>13 DEF Kept, Sound, Born
<1>15. QED
  BY <1>1, <1>3, <1>6, <1>14 DEF Types

\* What every step establishes.
Step == Types' /\ Turn' /\ Living' /\ \A c \in Conns : Kept(c)

\* What a shared_ptr reaches exists.
LEMMA HeldIsAlive ==
    ASSUME IInv, NEW c \in Conns
    PROVE  /\ c \in connections_ \/ c \in userRef => c \in alive
           /\ \A l \in Loops, kind \in Kinds \ {"send"} :
                 Contains(queue[l], Functor(kind, c)) => c \in alive
<1>1. alive = {d \in Conns : Held(d)} /\ queue \in [Loops -> Seq(Functors)]
  BY DEF IInv, Living, Types
<1>2. ASSUME NEW l \in Loops, NEW kind \in Kinds \ {"send"},
             Contains(queue[l], Functor(kind, c))
      PROVE  Held(c)
  <2>1. PICK i \in 1..Len(queue[l]) : queue[l][i] = Functor(kind, c)
    BY <1>2 DEF Contains
  <2>2. i \in DOMAIN queue[l]
    BY <1>1, LenProperties
  <2>3. queue[l][i].c = c /\ queue[l][i].kind \in Strong
    BY <1>2, <2>1 DEF Functor, Strong, Kinds, Posted
  <2>4. QED
    BY <2>2, <2>3 DEF Held
<1>3. QED
  BY <1>1, <1>2 DEF Held

\* Where a connection stands, by its state.
LEMMA PhaseByState ==
    ASSUME NEW c \in Conns, Sound(c)
    PROVE  /\ conn[c].state = "kConnecting" <=> conn[c] = NewConn
           /\ Open(conn[c]) <=> Up(conn[c])
           /\ conn[c].state # "kConnecting" => Up(conn[c]) \/ Down(conn[c])
           /\ conn[c].state = "kDisconnected" <=> Down(conn[c])
           /\ Up(conn[c]) => c \in connections_
           /\ Down(conn[c]) /\ c \in connections_ => conn[c].ch.addedToLoop
           /\ conn[c].posts = <<>> /\ conn[c].closes = 0
<1>1. Phase(c)
  BY DEF Sound
<1>2. CASE conn[c] = NewConn
  BY <1>1, <1>2, UpOrDown DEF Phase, Up, Down
<1>3. CASE Up(conn[c]) /\ c \in connections_
  BY <1>1, <1>3, UpOrDown DEF Phase, Up, Down
<1>4. CASE Down(conn[c]) /\ (c \in connections_ => conn[c].ch.addedToLoop)
  BY <1>1, <1>4, UpOrDown DEF Phase, Up, Down
<1>5. QED
  BY <1>1, <1>2, <1>3, <1>4 DEF Phase

\* The connection callback on the way down changes nothing.
LEMMA AfterDown ==
    ASSUME Careful, NEW c \in Conns, conn[c] \in ConnRecord,
           NEW k, Up(k) \/ Down(k), NEW op, NEW w
    PROVE  afterDown(c, k, op, w) = k
<1>1. CASE Up(k)
  <2>1. ~(k.downs > conn[c].downs)
    BY <1>1 DEF Up, ConnRecord
  <2>2. QED
    BY <2>1 DEF afterDown
<1>2. CASE Down(k)
  <2>1. op \in DownOps => op \in Ops /\ op \notin {"startRead", "stopRead"}
    BY DEF Careful
  <2>2. QED
    BY <1>2, <2>1, CallIsUp DEF afterDown
<1>3. QED
  BY <1>1, <1>2

\* A write that mayEnd lets end, and what callbacks call.
LEMMA Allowed ==
    ASSUME Careful, NEW k, NEW w \in WriteResults, NEW op
    PROVE  /\ mayEnd(k, w) => Ends(k, w)
           /\ inCallback(op) # "stopRead"
           /\ op \in UserOps => op # "stopRead"
           /\ inCallback(op) \in Ops => inCallback(op) = op
  BY DEF Careful, mayEnd, Ends, inCallback, Ops

\* The step of an operation, as a whole.
LEMMA ApplyStep ==
    ASSUME IInv, NEW c \in Conns, NEW k, NEW q, From(q, c), Around(c),
           StaysUp(c, k, q) \/ GoesDown(c, k) \/ StaysDown(c, k, q),
           apply(c, k, q), active' \in [Loops -> SUBSET [c : Conns,
                                     revents : SUBSET Reportable]],
           UNCHANGED <<pool, server, listening_, stopped>>, Reap
    PROVE  Step
<1>1. /\ conn' \in [Conns -> ConnRecord]
      /\ queue' \in [Loops -> Seq(Functors)]
      /\ connections_' \subseteq Conns /\ failed' = {}
      /\ \A d \in Conns : Kept(d)
  BY ApplyKeeps
<1>2. Types'
  BY <1>1 DEF Types, IInv, Around
<1>3. Turn'
  BY DEF Turn, IInv, pool
<1>4. Living'
  BY <1>1 DEF Living, IInv, Reap
<1>5. QED
  BY <1>1, <1>2, <1>3, <1>4 DEF Step

\* Nothing was taken from the queues.
LEMMA FromQueue ==
    ASSUME IInv, NEW c \in Conns
    PROVE  From(queue, c)
  BY DEF IInv, Types, From

\* Channel::handleEvent.
LEMMA HandleEventStep ==
    ASSUME IInv, Careful, NEW l \in Loops, NEW a \in active[l], NEW op,
           NEW w \in WriteResults, HandleEvent(l, a, op, w)
    PROVE  Step
<1> DEFINE c == a.c
           k0 == handleEvent(conn[c], a.revents, inCallback(op), w)
           k == afterDown(c, k0, op, w)
<1>1. c \in Conns /\ Sound(c) /\ Types /\ conn[c] \in ConnRecord
  BY DEF IInv, Types
<1>2. Up(conn[c]) /\ loop[c] = l /\ c \in connections_ /\ c \in alive
  <2>1. Open(conn[c]) /\ loop[c] = l
    BY <1>1 DEF Sound, Reported
  <2>2. Up(conn[c]) /\ c \in connections_
    BY <1>1, <2>1, PhaseByState
  <2>3. QED
    BY <1>1, <2>1, <2>2, HeldIsAlive
<1>3. mayEnd(conn[c], w) /\ apply(c, k, queue)
  BY <1>2 DEF HandleEvent
<1>4. Up(k0) \/ GoneDown(k0)
  BY <1>2, <1>3, Allowed, EventIsUp
<1>5. k = k0
  BY <1>1, <1>4, AfterDown DEF GoneDown
<1>6. /\ \A m \in Loops : active'[m] = IF m = l THEN active[m] \ {a}
                                                ELSE active[m]
      /\ active' \in [Loops -> SUBSET [c : Conns,
                                       revents : SUBSET Reportable]]
  BY <1>1 DEF HandleEvent, Types
<1>7. \A m \in Loops : \A b \in active'[m] : b.c # c
  BY <1>1, <1>2, <1>6 DEF Sound, Reported
<1>8. Around(c) /\ UNCHANGED <<pool, server, listening_, stopped>> /\ Reap
  BY <1>6 DEF HandleEvent, Around, accepting
<1>9. StaysUp(c, k, queue) \/ GoesDown(c, k)
  BY <1>2, <1>4, <1>5, <1>7 DEF StaysUp, GoesDown
<1> HIDE DEF c, k
<1>10. QED
  BY <1>1, <1>3, <1>6, <1>8, <1>9, FromQueue, ApplyStep

\* The timer of forceCloseWithDelay.
LEMMA TimerStep ==
    ASSUME IInv, Careful, NEW c \in Conns, NEW op, NEW w \in WriteResults,
           TimerFires(c, op, w)
    PROVE  Step
<1> DEFINE k1 == [conn[c] EXCEPT !.timer = FALSE]
           k0 == forceCloseInLoop(k1)
           k == afterDown(c, k0, op, w)
<1>1. Sound(c) /\ Types /\ conn[c] \in ConnRecord /\ loop[c] \in Loops
  BY DEF IInv, Types
<1>2. Up(conn[c]) \/ Down(conn[c])
  BY <1>1, PhaseByState, NewIsRecord DEF TimerFires
<1>3. k1 \in ConnRecord /\ Alike(conn[c], k1) /\ Agrees(k1.ch)
  BY <1>1, <1>2, SocketAlike DEF Up, Down
<1>4. /\ Up(conn[c]) => Up(k1)
      /\ Down(conn[c]) => Down(k1)
  BY <1>3, AlikeKeeps
<1> HIDE DEF k1
<1>5. /\ Up(conn[c]) => GoneDown(k0)
      /\ Down(conn[c]) => k0 = k1
  BY <1>4, CloseIsDown, ClosedStaysDown
<1>6. k = k0
  BY <1>1, <1>2, <1>4, <1>5, AfterDown DEF GoneDown
<1>7. active' = active /\ \A m \in Loops : \A a \in active[m] : a.c # c
  BY <1>1 DEF TimerFires, Idle, Sound, Reported
<1>8. /\ Around(c) /\ UNCHANGED <<pool, server, listening_, stopped>> /\ Reap
      /\ apply(c, k, queue)
      /\ active' \in [Loops -> SUBSET [c : Conns,
                                       revents : SUBSET Reportable]]
  BY <1>1, <1>7 DEF TimerFires, Around, accepting, k1, Types
<1>9. Up(conn[c]) => GoesDown(c, k)
  BY <1>5, <1>6, <1>7 DEF GoesDown
<1>10. Down(conn[c]) => StaysDown(c, k, queue)
  BY <1>1, <1>3, <1>4, <1>5, <1>6, PhaseByState DEF StaysDown, Alike
<1> HIDE DEF k
<1>11. QED
  BY <1>2, <1>8, <1>9, <1>10, FromQueue, ApplyStep

\* The application's own code in the loop's thread.
LEMMA LoopCallStep ==
    ASSUME IInv, Careful, NEW c \in Conns, NEW op, NEW w \in WriteResults,
           LoopCall(c, op, w)
    PROVE  Step
<1> DEFINE k == call(op, conn[c], w)
<1>1. Sound(c) /\ Types /\ conn[c] \in ConnRecord
  BY DEF IInv, Types
<1>2. Up(conn[c]) \/ Down(conn[c])
  BY <1>1, PhaseByState DEF LoopCall, Sound, Known
<1>3. op \in Ops /\ op # "stopRead" /\ Ends(conn[c], w)
  BY Allowed DEF LoopCall, Careful
<1>4. Up(conn[c]) => StaysUp(c, k, queue)
  BY <1>1, <1>3, CallIsUp, PhaseByState DEF StaysUp
<1>5. Down(conn[c]) => StaysDown(c, k, queue)
  <2> SUFFICES ASSUME Down(conn[c]) PROVE StaysDown(c, k, queue)
    OBVIOUS
  <2>1. op \in DownOps
    BY DEF LoopCall, Down
  <2>2. k = conn[c]
    BY <1>3, <2>1, CallIsUp DEF Careful
  <2>3. QED
    BY <1>1, <2>2, PhaseByState DEF StaysDown
<1>6. /\ Around(c) /\ UNCHANGED <<pool, server, listening_, stopped>> /\ Reap
      /\ apply(c, k, queue)
      /\ active' \in [Loops -> SUBSET [c : Conns,
                                       revents : SUBSET Reportable]]
  BY <1>1 DEF LoopCall, Around, accepting, Types
<1> HIDE DEF k
<1>7. QED
  BY <1>2, <1>4, <1>5, <1>6, FromQueue, ApplyStep

\* The functor at the head of a loop's queue, and the queues without it.
LEMMA HeadOfQueue ==
    ASSUME IInv, NEW l \in Loops, queue[l] # <<>>
    PROVE  LET f == Head(queue[l])
               q == Popped(queue, l)
           IN  /\ f \in Functors /\ f = Functor(f.kind, f.c)
               /\ f.c \in Conns /\ f.kind \in Kinds
               /\ Contains(queue[l], f) /\ Fits(l, f.kind, f.c)
               /\ From(q, f.c)
               /\ f.kind \in Once => ~Contains(q[l], f)
               /\ \A m \in Loops, kind \in Kinds :
                     /\ kind # f.kind
                     /\ Contains(queue[m], Functor(kind, f.c))
                     => Contains(q[m], Functor(kind, f.c))
<1> DEFINE f == Head(queue[l])
           q == Popped(queue, l)
<1>1. queue \in [Loops -> Seq(Functors)] /\ \A c \in Conns : Sound(c)
  BY DEF IInv, Types
<1>2. /\ q \in [Loops -> Seq(Functors)]
      /\ f \in Functors /\ Contains(queue[l], f)
      /\ Contains(q[l], f) => Twice(queue[l], f)
  BY <1>1, PoppedQueues
<1>3. \A m \in Loops : \A g :
          /\ Contains(q[m], g) => Contains(queue[m], g)
          /\ Contains(queue[m], g) => Contains(q[m], g) \/ (m = l /\ g = f)
          /\ Twice(q[m], g) => Twice(queue[m], g)
  BY <1>1, PoppedQueues
<1> HIDE DEF f, q
<1>4. f = Functor(f.kind, f.c) /\ f.c \in Conns /\ f.kind \in Kinds
  BY <1>2 DEF Functors, Functor
<1>5. \A kind1, kind2, d1, d2 :
          Functor(kind1, d1) = Functor(kind2, d2) => kind1 = kind2 /\ d1 = d2
  BY DEF Functor
<1>6. From(q, f.c)
  BY <1>2, <1>3, <1>4, <1>5 DEF From
<1>7. /\ Fits(l, f.kind, f.c)
      /\ f.kind \in Once => ~Twice(queue[l], f)
  <2>1. Contains(queue[l], Functor(f.kind, f.c))
    BY <1>2, <1>4
  <2>2. Queued(f.c)
    BY <1>1, <1>4 DEF Sound
  <2>3. /\ Fits(l, f.kind, f.c)
        /\ f.kind \in Once => ~Twice(queue[l], Functor(f.kind, f.c))
    BY <1>4, <2>1, <2>2 DEF Queued
  <2>4. QED
    BY <1>4, <2>3
<1>8. ASSUME NEW m \in Loops, NEW kind \in Kinds, kind # f.kind,
             Contains(queue[m], Functor(kind, f.c))
      PROVE  Contains(q[m], Functor(kind, f.c))
  BY <1>3, <1>4, <1>5, <1>8
<1>9. QED
  BY <1>2, <1>4, <1>6, <1>7, <1>8 DEF f, q

\* The arms of run.
LEMMA RunMeans ==
    ASSUME NEW k, NEW op, NEW w
    PROVE  /\ run("established", k, op, w) =
                  IF inCallback(op) \in Ops
                  THEN call(op, connectEstablished(k), w)
                  ELSE connectEstablished(k)
           /\ run("destroyed", k, op, w) = connectDestroyed(k)
           /\ run("writeComplete", k, op, w) = k
           /\ run("highWaterMark", k, op, w) = k
           /\ run("forceClose", k, op, w) = forceCloseInLoop(k)
           /\ run("send", k, op, w) = sendInLoop(k, w)
<1>1. /\ "established" \notin Ops /\ "destroyed" \notin Ops
      /\ "writeComplete" \notin Ops /\ "highWaterMark" \notin Ops
      /\ "forceClose" \in Ops /\ "send" \in Ops
  BY DEF Ops
<1>2. run("established", k, op, w) = IF inCallback(op) \in Ops
                                     THEN call(op, connectEstablished(k), w)
                                     ELSE connectEstablished(k)
  <2>1. /\ "established" # "destroyed"
        /\ "established" \notin {"writeComplete", "highWaterMark"}
    OBVIOUS
  <2>2. QED
    BY <1>1, <2>1, Zenon DEF run
<1>3. run("destroyed", k, op, w) = connectDestroyed(k)
  <2>1. /\ "destroyed" # "established"
        /\ "destroyed" \notin {"writeComplete", "highWaterMark"}
    OBVIOUS
  <2>2. QED
    BY <1>1, <2>1, Zenon DEF run
<1>4. run("writeComplete", k, op, w) = k
  <2>1. "writeComplete" # "established" /\ "writeComplete" # "destroyed"
    OBVIOUS
  <2>2. QED
    BY <1>1, <2>1, Zenon DEF run
<1>5. run("highWaterMark", k, op, w) = k
  <2>1. "highWaterMark" # "established" /\ "highWaterMark" # "destroyed"
    OBVIOUS
  <2>2. QED
    BY <1>1, <2>1, Zenon DEF run
<1>6. run("forceClose", k, op, w) = inLoop("forceClose", k, w)
  <2>1. /\ "forceClose" # "established" /\ "forceClose" # "destroyed"
        /\ "forceClose" \notin {"writeComplete", "highWaterMark"}
    OBVIOUS
  <2>2. QED
    BY <1>1, <2>1, Zenon DEF run
<1>7. run("send", k, op, w) = inLoop("send", k, w)
  <2>1. /\ "send" # "established" /\ "send" # "destroyed"
        /\ "send" \notin {"writeComplete", "highWaterMark"}
    OBVIOUS
  <2>2. QED
    BY <1>1, <2>1, Zenon DEF run
<1>8. /\ inLoop("forceClose", k, w) = forceCloseInLoop(k)
      /\ inLoop("send", k, w) = sendInLoop(k, w)
  BY DEF inLoop
<1>9. QED
  BY <1>2, <1>3, <1>4, <1>5, <1>6, <1>7, <1>8

\* A functor of a connection, other than its removal, is run.
LEMMA FunctorStep ==
    ASSUME IInv, Careful, NEW l \in Loops, NEW op, NEW w \in WriteResults,
           RunFunctor(l, op, w), Head(queue[l]).kind # "removeInLoop"
    PROVE  Step
<1> DEFINE f == Head(queue[l])
           c == f.c
           q == Popped(queue, l)
           k0 == run(f.kind, conn[c], op, w)
           k == afterDown(c, k0, op, w)
<1>1. queue[l] # <<>> /\ Idle(l)
  BY DEF RunFunctor
<1>2. /\ f \in Functors /\ f = Functor(f.kind, c) /\ c \in Conns
      /\ f.kind \in Kinds /\ Contains(queue[l], f) /\ Fits(l, f.kind, c)
      /\ From(q, c)
      /\ f.kind \in Once => ~Contains(q[l], f)
  BY <1>1, HeadOfQueue
<1>3. \A m \in Loops, kind \in Kinds :
         kind # f.kind /\ Contains(queue[m], Functor(kind, c))
         => Contains(q[m], Functor(kind, c))
  BY <1>1, HeadOfQueue
<1>4. Sound(c) /\ Types /\ conn[c] \in ConnRecord
  BY <1>2 DEF IInv, Types
<1>5. l = loop[c] /\ c \in alive
  <2>1. l = loop[c]
    BY <1>2 DEF Fits
  <2>2. CASE f.kind = "send"
    BY <1>2, <2>1, <2>2, HeldIsAlive DEF Fits
  <2>3. CASE f.kind # "send"
    BY <1>2, <2>1, <2>3, HeldIsAlive
  <2>4. QED
    BY <2>1, <2>2, <2>3
<1>6. /\ mayEnd(conn[c], w) /\ apply(c, k, q)
      /\ userRef' = userRef \/ userRef' = userRef \cup {c}
  <2>1. mayEnd(conn[c], w)
    BY DEF RunFunctor
  <2>2. userRef' = userRef \/ userRef' = userRef \cup {c}
    BY DEF RunFunctor
  <2>3. apply(c, k, q)
    BY <1>5, Zenon DEF RunFunctor, Popped
  <2>4. QED
    BY <2>1, <2>2, <2>3
<1>7. active' = active /\ \A m \in Loops : \A a \in active[m] : a.c # c
  BY <1>1, <1>4, <1>5 DEF RunFunctor, Idle, Sound, Reported
<1>8. /\ Around(c) /\ UNCHANGED <<pool, server, listening_, stopped>> /\ Reap
      /\ active' \in [Loops -> SUBSET [c : Conns,
                                       revents : SUBSET Reportable]]
  BY <1>4, <1>6, <1>7 DEF RunFunctor, Around, accepting, Types
<1> HIDE DEF f, c, q
<1>9. ASSUME Up(k0) \/ Down(k0) PROVE k = k0
  BY <1>2, <1>4, <1>9, AfterDown
<1>10. CASE f.kind = "established"
  <2>1. conn[c] = NewConn /\ c \in connections_
    BY <1>2, <1>4, <1>10, PhaseByState DEF Fits
  <2>2. Up(k0)
    <3> DEFINE k1 == connectEstablished(conn[c])
    <3>1. k0 = IF inCallback(op) \in Ops THEN call(op, k1, w) ELSE k1
      BY <1>10, RunMeans
    <3>2. Up(k1) /\ Ends(k1, w)
      BY <2>1, EstablishedIsUp DEF Ends
    <3> HIDE DEF k1
    <3>3. inCallback(op) \in Ops => op \in Ops /\ op # "stopRead"
      BY Allowed
    <3>4. QED
      BY <3>1, <3>2, <3>3, CallIsUp
  <2>3. NoneLeft(q, "established", c)
    <3> SUFFICES ASSUME NEW m \in Loops,
                        Contains(q[m], Functor("established", c))
                 PROVE  FALSE
      BY DEF NoneLeft
    <3>1. Contains(queue[m], Functor("established", c)) /\ "established" \in Kinds
      BY <1>2, <1>10 DEF From
    <3>2. m = loop[c]
      BY <1>4, <3>1 DEF Sound, Queued, Fits
    <3>3. QED
      BY <1>2, <1>5, <1>10, <3>2 DEF Once
  <2>4. StaysUp(c, k, q)
    BY <1>9, <2>1, <2>2, <2>3, UpOrDown DEF StaysUp
  <2> HIDE DEF k
  <2>5. QED
    BY <1>2, <1>6, <1>8, <2>4, ApplyStep
<1>11. CASE f.kind = "destroyed"
  <2>1. Down(conn[c]) /\ c \notin connections_ /\ conn[c].ch.addedToLoop
    BY <1>2, <1>4, <1>11, PhaseByState DEF Fits
  <2>2. k0 = connectDestroyed(conn[c])
    BY <1>11, RunMeans
  <2>3. /\ Down(k0) /\ ~k0.ch.addedToLoop /\ k0.posts = <<>>
        /\ k0.closes = 0
    BY <1>2, <1>4, <2>1, <2>2, DestroyedIsDown, PhaseByState
  <2>4. NoneLeft(q, "destroyed", c)
    <3> SUFFICES ASSUME NEW m \in Loops,
                        Contains(q[m], Functor("destroyed", c))
                 PROVE  FALSE
      BY DEF NoneLeft
    <3>1. Contains(queue[m], Functor("destroyed", c)) /\ "destroyed" \in Kinds
      BY <1>2, <1>11 DEF From
    <3>2. m = loop[c]
      BY <1>4, <3>1 DEF Sound, Queued, Fits
    <3>3. QED
      BY <1>2, <1>5, <1>11, <3>2 DEF Once
  <2>5. StaysDown(c, k, q)
    BY <1>9, <2>1, <2>3, <2>4 DEF StaysDown
  <2> HIDE DEF k
  <2>6. QED
    BY <1>2, <1>6, <1>8, <2>5, ApplyStep
<1>12. CASE f.kind \in Posted \cup {"send"}
  <2>1. Up(conn[c]) \/ Down(conn[c])
    BY <1>2, <1>4, <1>12, PhaseByState DEF Fits, Posted
  <2>2. Down(conn[c]) => k0 = conn[c]
    <3>1. CASE f.kind \in {"writeComplete", "highWaterMark"}
      BY <3>1, RunMeans
    <3>2. CASE f.kind = "forceClose"
      BY <3>2, ClosedStaysDown, RunMeans
    <3>3. CASE f.kind = "send"
      BY <3>3, SendIsUp, RunMeans
    <3>4. QED
      BY <1>12, <3>1, <3>2, <3>3 DEF Posted
  <2>3. Up(conn[c]) => Up(k0) \/ GoneDown(k0)
    <3>1. CASE f.kind \in {"writeComplete", "highWaterMark"}
      BY <3>1, RunMeans
    <3>2. CASE f.kind = "forceClose"
      BY <3>2, CloseIsDown, RunMeans
    <3>3. CASE f.kind = "send"
      BY <1>6, <3>3, SendIsUp, Allowed, RunMeans
    <3>4. QED
      BY <1>12, <3>1, <3>2, <3>3 DEF Posted
  <2>4. k = k0
    BY <1>9, <2>1, <2>2, <2>3 DEF GoneDown
  <2>5. Up(conn[c]) => StaysUp(c, k, q) \/ GoesDown(c, k)
    BY <1>2, <1>4, <1>7, <2>3, <2>4, PhaseByState DEF StaysUp, GoesDown
  <2>6. Down(conn[c]) => StaysDown(c, k, q)
    <3>1. f.kind # "destroyed" /\ "destroyed" \in Kinds
      BY <1>12 DEF Posted, Kinds
    <3>2. QED
      BY <1>2, <1>3, <1>4, <2>2, <2>4, <3>1, PhaseByState DEF StaysDown
  <2> HIDE DEF k
  <2>7. QED
    BY <1>2, <1>6, <1>8, <2>1, <2>5, <2>6, ApplyStep
<1>13. QED
  BY <1>2, <1>10, <1>11, <1>12 DEF Kinds, f

\* TcpServer::removeConnectionInLoop, as a functor of the base loop.
LEMMA RemoveStep ==
    ASSUME IInv, NEW l \in Loops, NEW op, NEW w, RunFunctor(l, op, w),
           Head(queue[l]).kind = "removeInLoop"
    PROVE  Step
<1> DEFINE q == Popped(queue, l)
<1>1. queue[l] # <<>>
  BY DEF RunFunctor
<1>2. PICK c \in Conns :
          /\ Head(queue[l]).c = c
          /\ Fits(l, "removeInLoop", c) /\ From(q, c)
          /\ ~Contains(q[l], Functor("removeInLoop", c))
  BY <1>1, HeadOfQueue DEF Once
<1> DEFINE e == Functor("destroyed", c)
<1>3. Sound(c) /\ Types /\ loop[c] \in Loops /\ e \in Functors
  BY <1>2 DEF IInv, Types, Functors, Functor, Kinds
<1>4. l = Base /\ c \in connections_ /\ Down(conn[c]) /\ conn[c].ch.addedToLoop
  BY <1>2, <1>3, PhaseByState DEF Fits
<1>5. /\ removeConnectionInLoop(c, q) /\ conn' = conn /\ userRef' = userRef
      /\ UNCHANGED <<loop, pool, server, accepting, active, stopped, tpc>>
      /\ Reap
  BY <1>2, Zenon DEF RunFunctor, Popped
<1>6. /\ connections_' = connections_ \ {c} /\ failed' = {}
      /\ queue' = Pushed(q, loop[c], e)
  <2>1. server /\ failed = {}
    BY DEF IInv, Living
  <2>2. /\ connections_' = connections_ \ {c}
        /\ failed' = failed \cup Assert_(c \in connections_,
                                         "TcpServer.cpp:189")
        /\ queue' = Pushed(q, loop[c], e)
    BY <1>5, <2>1, Zenon DEF removeConnectionInLoop, Pushed, destroyIn
  <2>3. QED
    BY <1>4, <2>1, <2>2 DEF Assert_
<1> HIDE DEF q, e
<1>7. /\ queue' \in [Loops -> Seq(Functors)]
      /\ \A m \in Loops : \A g :
            /\ Contains(queue'[m], g) <=> Contains(q[m], g) \/ (m = loop[c] /\ g = e)
            /\ Twice(queue'[m], g) => \/ Twice(q[m], g)
                                      \/ m = loop[c] /\ g = e /\ Contains(q[m], g)
  <2>1. q \in [Loops -> Seq(Functors)]
    BY <1>2 DEF From
  <2>2. loop[c] \in Loops /\ e \in Functors
    BY <1>3
  <2>3. OneMore(queue', q, loop[c], e)
    BY <1>6, <2>1, <2>2, PushedQueues
  <2>4. QED
    BY <2>3 DEF OneMore
<1>8. \A kind \in Kinds, d \in Conns :
          Functor(kind, d) = e => kind = "destroyed" /\ d = c
  BY DEF Functor, e
<1>9. ASSUME NEW d \in Conns, d # c PROVE Kept(d)
  <2>1. Untouched(d)
    BY <1>5, <1>6, <1>9 DEF Untouched
  <2>2. SameFunctors(d)
    BY <1>2, <1>7, <1>8, <1>9 DEF SameFunctors, From
  <2>3. SameReports(d) /\ SameUsers(d)
    BY <1>5 DEF SameReports, SameUsers, InCall, accepting
  <2>4. QED
    BY <1>3, <2>1, <2>2, <2>3, Frame DEF IInv
<1>10. Queued(c)'
  <2> SUFFICES ASSUME NEW m \in Loops, NEW kind \in Kinds,
                      Contains(queue'[m], Functor(kind, c))
               PROVE  /\ Fits(m, kind, c)'
                      /\ kind \in Once => ~Twice(queue'[m], Functor(kind, c))
    BY DEF Queued
  <2>1. Contains(q[m], Functor(kind, c)) =>
            Fits(m, kind, c) /\ kind \in Posted \cup {"send"}
    <3> SUFFICES ASSUME Contains(q[m], Functor(kind, c))
                 PROVE  Fits(m, kind, c) /\ kind \in Posted \cup {"send"}
      OBVIOUS
    <3>1. Fits(m, kind, c)
      BY <1>2, <1>3 DEF From, Sound, Queued
    <3>2. kind # "removeInLoop"
      BY <1>2, <1>4, <3>1 DEF Fits
    <3>3. kind # "established" /\ kind # "destroyed"
      BY <1>4, <3>1 DEF Fits, Down
    <3>4. QED
      BY <3>1, <3>2, <3>3 DEF Kinds
  <2>2. CASE Contains(q[m], Functor(kind, c))
    <3>1. kind \notin Once /\ kind # "destroyed"
      BY <2>1, <2>2 DEF Once, Posted
    <3>2. Fits(m, kind, c)'
      BY <1>5, <2>1, <2>2, <3>1 DEF Fits, Once
    <3>3. QED
      BY <3>1, <3>2
  <2>3. CASE m = loop[c] /\ Functor(kind, c) = e
    <3>1. kind = "destroyed"
      BY <1>2, <1>8, <2>3
    <3>2. Fits(m, kind, c)'
      BY <1>4, <1>5, <1>6, <2>3, <3>1 DEF Fits, Down
    <3>3. ~Contains(q[m], Functor(kind, c))
      BY <2>1, <3>1 DEF Posted
    <3>4. ~Twice(q[m], Functor(kind, c))
      BY <3>3 DEF Twice, Contains
    <3>5. QED
      BY <1>7, <3>2, <3>3, <3>4
  <2>4. QED
    BY <1>7, <2>2, <2>3
<1>11. Leaving(c)'
  BY <1>3, <1>5, <1>7 DEF Leaving, e
<1>12. Phase(c)'
  BY <1>3, <1>4, <1>5, <1>6, PhaseByState, <1>2 DEF Phase
<1>13. Reported(c)' /\ Known(c)'
  BY <1>3, <1>4, <1>5, <1>6 DEF Sound, Reported, Known, InCall, accepting
<1>14. Kept(c)
  BY <1>4, <1>5, <1>10, <1>11, <1>12, <1>13 DEF Kept, Sound, Born, Down
<1>15. Types'
  BY <1>3, <1>5, <1>6, <1>7 DEF Types
<1>16. Turn' /\ Living'
  BY <1>5, <1>6 DEF Turn, Living, IInv, pool, accepting, Reap
<1>17. QED
  BY <1>9, <1>14, <1>15, <1>16 DEF Step

\* Doing without the rest of a step: nothing but the application's pointers,
\* its calls and the backlog may change.
LEMMA Quiet ==
    ASSUME IInv, NEW c \in Conns,
           UNCHANGED <<conn, loop, connections_, queue, active>>
    PROVE  /\ Untouched(c) /\ SameFunctors(c) /\ SameReports(c)
           /\ SameUsers(c) => Kept(c)
<1>1. Untouched(c) /\ SameFunctors(c) /\ SameReports(c)
  BY DEF Untouched, SameFunctors, SameReports
<1>2. QED
  BY <1>1, Frame DEF IInv

-----------------------------------------------------------------------------
(* The other steps.                                                        *)

\* TcpServer::start.
LEMMA StartStep ==
    ASSUME IInv, Start
    PROVE  Step
<1>1. \A c \in Conns : Kept(c)
  BY Quiet DEF Start, SameUsers, InCall
<1>2. Types'
  BY DEF Start, IInv, Types
<1>3. Turn'
  <2>1. loops_' \in Seq(Loops)
    <3>1. PICK p \in Pools : loops_' = p
      BY DEF Start
    <3>2. p \in Seq(Range(p)) /\ Range(p) \subseteq Loops
      BY ServerAssumption DEF ServerAssumption, Loops
    <3>3. Len(p) \in Nat /\ DOMAIN p = 1..Len(p) /\ p \in [1..Len(p) -> Loops]
      BY <3>2, LenProperties
    <3>4. QED
      BY <3>1, <3>3
  <2>2. next_ = 1 /\ next_' = next_ /\ listening_' = TRUE
    BY DEF Start, IInv, Turn
  <2>3. loops_' # <<>> => Len(loops_') \in Nat \ {0}
    BY <2>1, EmptySeq
  <2>4. QED
    BY <2>1, <2>2, <2>3 DEF Turn
<1>4. Living'
  BY DEF Start, IInv, Living, Reap
<1>5. QED
  BY <1>1, <1>2, <1>3, <1>4 DEF Step

\* A client connects, or is turned away for want of descriptors.
LEMMA ConnectStep ==
    ASSUME IInv, NEW c \in Conns, Connect(c) \/ AcceptEmfile(c)
    PROVE  Step
<1>1. /\ UNCHANGED <<conn, loop, pool, connections_, server, listening_, queue,
                     active, stopped, tpc, userRef, failed, sends>>
      /\ Reap
  BY DEF Connect, AcceptEmfile
<1>2. ASSUME NEW d \in Conns PROVE Kept(d)
  <2>1. Untouched(d) /\ SameFunctors(d) /\ SameReports(d)
    BY <1>1, Quiet
  <2>2. CASE d \in backlog' => d \in backlog
    <3>1. SameUsers(d)
      BY <1>1, <2>2 DEF SameUsers, InCall
    <3>2. QED
      BY <1>1, <3>1, Quiet
  <2>3. CASE d \in backlog' /\ d \notin backlog
    <3>1. d = c /\ Connect(c)
      BY <2>3 DEF Connect, AcceptEmfile
    <3>2. conn[d].state = "kConnecting" /\ d \notin connections_
      BY <3>1, HeldIsAlive, UpOrDown DEF Connect
    <3>3. Known(d)'
      BY <1>1, <3>2 DEF IInv, Sound, Known, InCall
    <3>4. Types /\ Sound(d) /\ (d \in userRef => d \in userRef')
      BY <1>1 DEF IInv
    <3>5. Sound(d)'
      BY <2>1, <3>3, <3>4, FramePhase, FrameQueued, FrameReported DEF Sound
    <3>6. QED
      BY <1>1, <3>5 DEF Kept, Born
  <2>4. QED
    BY <2>2, <2>3
<1>3. Types' /\ Turn'
  BY <1>1 DEF IInv, Types, Turn, pool
<1>4. Living'
  BY <1>1 DEF IInv, Living, Reap
<1>5. QED
  BY <1>2, <1>3, <1>4 DEF Step

\* Another thread calls send().
LEMMA AppCallStep ==
    ASSUME IInv, Careful, NEW t \in App, NEW c \in Conns, NEW op,
           AppCall(t, c, op)
    PROVE  Step
<1>1. /\ UNCHANGED <<conn, loop, pool, connections_, server, accepting, queue,
                     active, stopped, userRef, failed>>
      /\ Reap /\ tpc' = [tpc EXCEPT ![t] = <<op, c>>] /\ op = "send"
      /\ c \in userRef
  BY DEF AppCall, Careful
<1>2. tpc \in [App -> {idle} \cup ({"send"} \X Conns)]
  BY DEF IInv, Types
<1>3. \A u \in App : tpc'[u] = IF u = t THEN <<"send", c>> ELSE tpc[u]
  BY <1>1, <1>2
<1>4. ASSUME NEW d \in Conns PROVE Kept(d)
  <2>1. Untouched(d) /\ SameFunctors(d) /\ SameReports(d)
    BY <1>1, Quiet
  <2>2. CASE d # c
    <3>1. \A u \in App : InCall(u, d)' => InCall(u, d)
      BY <1>3, <2>2 DEF InCall
    <3>2. SameUsers(d)
      BY <1>1, <3>1 DEF SameUsers, accepting
    <3>3. QED
      BY <1>1, <3>2, Quiet
  <2>3. CASE d = c
    <3>1. Known(d)'
      BY <1>1, <2>3 DEF IInv, Sound, Known, accepting
    <3>2. Types /\ Sound(d) /\ (d \in userRef => d \in userRef')
      BY <1>1 DEF IInv
    <3>3. Sound(d)'
      BY <2>1, <3>1, <3>2, FramePhase, FrameQueued, FrameReported DEF Sound
    <3>4. QED
      BY <1>1, <3>3 DEF Kept, Born
  <2>4. QED
    BY <2>2, <2>3
<1>5. tpc' \in [App -> {idle} \cup ({"send"} \X Conns)]
  BY <1>1, <1>2
<1>6. Types' /\ Turn'
  BY <1>1, <1>5 DEF IInv, Types, Turn, pool, accepting
<1>7. Living'
  BY <1>1 DEF IInv, Living, Reap
<1>8. QED
  BY <1>4, <1>6, <1>7 DEF Step

\* The application forgets a connection.
LEMMA DropStep ==
    ASSUME IInv, Careful, NEW c \in Conns, Drop(c)
    PROVE  Step
<1>1. /\ UNCHANGED <<conn, loop, pool, connections_, server, accepting, queue,
                     active, stopped, tpc, failed, sends>>
      /\ Reap /\ userRef' = userRef \ {c}
      /\ \A t \in App : ~InCall(t, c)
      /\ \A i \in DOMAIN queue[loop[c]] :
             queue[loop[c]][i].c = c => queue[loop[c]][i].kind \in Strong
  BY DEF Drop, Careful
<1>2. Types /\ Sound(c) /\ queue \in [Loops -> Seq(Functors)] /\ loop[c] \in Loops
  BY DEF IInv, Types
<1>3. ~Contains(queue[loop[c]], Functor("send", c))
  <2> SUFFICES ASSUME Contains(queue[loop[c]], Functor("send", c))
               PROVE  FALSE
    OBVIOUS
  <2>1. PICK i \in 1..Len(queue[loop[c]]) : queue[loop[c]][i] = Functor("send", c)
    BY DEF Contains
  <2>2. i \in DOMAIN queue[loop[c]]
    BY <1>2, LenProperties
  <2>3. queue[loop[c]][i].c = c /\ queue[loop[c]][i].kind = "send"
    BY <2>1 DEF Functor
  <2>4. "send" \notin Strong
    BY DEF Strong
  <2>5. QED
    BY <1>1, <2>2, <2>3, <2>4
<1>4. ASSUME NEW d \in Conns, d # c PROVE Kept(d)
  <2>1. SameUsers(d)
    BY <1>1, <1>4 DEF SameUsers, InCall, accepting
  <2>2. QED
    BY <1>1, <2>1, Quiet
<1>5. Kept(c)
  <2>1. Untouched(c) /\ SameReports(c)
    BY <1>1, Quiet
  <2>2. Phase(c)' /\ Reported(c)'
    BY <1>2, <2>1, FramePhase, FrameReported DEF Sound
  <2>3. Known(c)'
    BY <1>1, <1>2 DEF Sound, Known, InCall, accepting
  <2>4. Leaving(c)'
    BY <1>1, <1>2 DEF Sound, Leaving
  <2>5. ASSUME NEW l \in Loops, NEW kind \in Kinds,
               Contains(queue[l], Functor(kind, c))
        PROVE  Fits(l, kind, c)'
    <3>1. Fits(l, kind, c)
      BY <1>2, <2>5 DEF Sound, Queued
    <3>2. kind # "send"
      BY <1>3, <2>5, <3>1 DEF Fits
    <3>3. QED
      BY <1>1, <3>1, <3>2 DEF Fits
  <2>6. Queued(c)'
    BY <1>1, <1>2, <2>5 DEF Sound, Queued
  <2>7. QED
    BY <1>1, <2>2, <2>3, <2>4, <2>6 DEF Kept, Sound, Born
<1>6. Types' /\ Turn'
  BY <1>1 DEF IInv, Types, Turn, pool, accepting
<1>7. Living'
  BY <1>1 DEF IInv, Living, Reap
<1>8. QED
  BY <1>4, <1>5, <1>6, <1>7 DEF Step

\* send() of another thread hands the message to the connection's loop.
LEMMA AppCommitStep ==
    ASSUME IInv, NEW t \in App, AppCommit(t)
    PROVE  Step
<1>1. PICK c \in Conns : tpc[t] = <<"send", c>> /\ tpc[t] # idle
  <2>1. tpc[t] # idle
    BY DEF AppCommit
  <2>2. tpc[t] \in {idle} \cup ({"send"} \X Conns)
    BY DEF IInv, Types
  <2>3. QED
    BY <2>1, <2>2
<1> DEFINE e == Functor("send", c)
<1>2. /\ Types /\ Sound(c) /\ conn[c] \in ConnRecord /\ loop[c] \in Loops
      /\ e \in Functors
  BY DEF IInv, Types, Functors, Functor, Kinds
<1>3. InCall(t, c) /\ c \in userRef /\ conn[c].state # "kConnecting"
  <2>1. InCall(t, c)
    BY <1>1 DEF InCall
  <2>2. QED
    BY <1>2, <2>1 DEF Sound, Known
<1>4. /\ UNCHANGED <<loop, pool, connections_, server, accepting, active,
                     stopped, userRef, sends>>
      /\ Reap /\ tpc' = [tpc EXCEPT ![t] = idle]
  BY DEF AppCommit
<1>5. conn' = conn /\ failed' = {} /\ queue' = Pushed(queue, loop[c], e)
  <2>1. tpc[t][1] = "send" /\ tpc[t][2] = c
    BY <1>1
  <2>2. /\ conn' = [conn EXCEPT ![c] =
                       [conn[c] EXCEPT !.state = stored("send", conn[c].state)]]
        /\ queue' = [queue EXCEPT ![loop[c]] = Append(@, e)]
        /\ failed' = failed \cup Assert_(loop[c] \notin stopped,
                                         "use of a dead EventLoop")
    BY <2>1, Zenon DEF AppCommit
  <2>3. stored("send", conn[c].state) = conn[c].state
    BY DEF stored
  <2>4. [conn[c] EXCEPT !.state = conn[c].state] = conn[c]
    BY <1>2 DEF ConnRecord
  <2>5. conn' = conn
    BY <1>2, <2>2, <2>3, <2>4 DEF Types
  <2>6. failed' = {}
    BY <2>2 DEF IInv, Living, Assert_
  <2>7. QED
    BY <2>2, <2>5, <2>6 DEF Pushed
<1> HIDE DEF e
<1>6. /\ queue' \in [Loops -> Seq(Functors)]
      /\ \A m \in Loops : \A g :
            /\ Contains(queue'[m], g) <=>
                   Contains(queue[m], g) \/ (m = loop[c] /\ g = e)
            /\ Twice(queue'[m], g) =>
                   \/ Twice(queue[m], g)
                   \/ m = loop[c] /\ g = e /\ Contains(queue[m], g)
  <2>1. queue \in [Loops -> Seq(Functors)] /\ loop[c] \in Loops /\ e \in Functors
    BY <1>2 DEF Types
  <2>2. OneMore(queue', queue, loop[c], e)
    BY <1>5, <2>1, PushedQueues
  <2>3. QED
    BY <2>2 DEF OneMore
<1>7. \A kind \in Kinds, d \in Conns :
          Functor(kind, d) = e => kind = "send" /\ d = c
  BY DEF Functor, e
<1>8. \A u \in App, d \in Conns : InCall(u, d)' => InCall(u, d)
  <2>1. \A u \in App : tpc'[u] = IF u = t THEN idle ELSE tpc[u]
    BY <1>2, <1>4 DEF Types
  <2>2. QED
    BY <2>1 DEF InCall
<1>9. ASSUME NEW d \in Conns
      PROVE  Untouched(d) /\ SameReports(d) /\ SameUsers(d)
  BY <1>4, <1>5, <1>8 DEF Untouched, SameReports, SameUsers, accepting
<1>10. ASSUME NEW d \in Conns, d # c PROVE Kept(d)
  <2>1. SameFunctors(d)
    BY <1>6, <1>7, <1>10 DEF SameFunctors
  <2>2. QED
    BY <1>9, <2>1, Frame DEF IInv
<1>11. Queued(c)'
  <2> SUFFICES ASSUME NEW m \in Loops, NEW kind \in Kinds,
                      Contains(queue'[m], Functor(kind, c))
               PROVE  /\ Fits(m, kind, c)'
                      /\ kind \in Once => ~Twice(queue'[m], Functor(kind, c))
    BY DEF Queued
  <2>1. CASE Contains(queue[m], Functor(kind, c)) /\ kind # "send"
    <3>1. /\ Fits(m, kind, c)
          /\ kind \in Once => ~Twice(queue[m], Functor(kind, c))
      BY <1>2, <2>1 DEF Sound, Queued
    <3>2. Fits(m, kind, c)'
      BY <1>4, <1>5, <3>1 DEF Fits
    <3>3. QED
      BY <1>6, <1>7, <2>1, <3>1, <3>2
  <2>2. CASE kind = "send"
    <3>1. m = loop[c]
      BY <1>2, <1>6, <2>2 DEF Sound, Queued, Fits
    <3>2. QED
      BY <1>3, <1>4, <1>5, <2>2, <3>1 DEF Fits, Once
  <2>3. QED
    BY <1>6, <1>7, <2>1, <2>2
<1>12. Leaving(c)'
  BY <1>2, <1>4, <1>5, <1>6 DEF Sound, Leaving
<1>13. Phase(c)' /\ Reported(c)' /\ Known(c)'
  BY <1>2, <1>9, FramePhase, FrameReported, FrameKnown DEF Sound
<1>14. Kept(c)
  BY <1>4, <1>5, <1>11, <1>12, <1>13 DEF Kept, Sound, Born
<1>15. tpc' \in [App -> {idle} \cup ({"send"} \X Conns)]
  BY <1>2, <1>4 DEF Types
<1>16. Types' /\ Turn'
  BY <1>4, <1>5, <1>6, <1>15 DEF IInv, Types, Turn, pool, accepting
<1>17. Living'
  BY <1>4, <1>5 DEF IInv, Living, Reap
<1>18. QED
  BY <1>10, <1>14, <1>16, <1>17 DEF Step

\* What the peer does changes the socket's state, and epoll looks at it.
LEMMA PeerStep ==
    ASSUME IInv, NEW c \in Conns,
           PeerSends(c) \/ PeerCloses(c) \/ PeerResets(c) \/ PeerReads(c)
    PROVE  Step
<1>1. Types /\ Sound(c) /\ conn[c] \in ConnRecord
  BY DEF IInv, Types
<1>2. PICK k : /\ Peer(c, k)
               /\ \/ k \in {[conn[c] EXCEPT !.inbox = S] :
                                S \in SUBSET Inbox}
                  \/ k = [conn[c] EXCEPT !.full = FALSE]
  <2>1. conn[c].inbox \in SUBSET Inbox
    BY <1>1 DEF ConnRecord
  <2>2. QED
    BY <2>1 DEF PeerSends, PeerCloses, PeerResets, PeerReads, Inbox
<1>3. /\ UNCHANGED <<loop, pool, connections_, server, accepting, queue,
                     active, stopped, tpc, userRef, failed, sends>>
      /\ Reap /\ conn' = [conn EXCEPT ![c] = touch(k)]
      /\ conn[c].state # "kConnecting"
  BY <1>2 DEF Peer
<1>4. Agrees(conn[c].ch)
  BY <1>1, <1>3, PhaseByState DEF Up, Down
<1>5. k \in ConnRecord /\ Alike(conn[c], k) /\ Agrees(k.ch)
  <2>1. CASE k = [conn[c] EXCEPT !.full = FALSE]
    <3>1. {} \in SUBSET Inbox
      OBVIOUS
    <3>2. QED
      BY <1>1, <1>4, <2>1, <3>1, SocketAlike
  <2>2. CASE k \in {[conn[c] EXCEPT !.inbox = S] :
                        S \in SUBSET Inbox}
    <3>1. PICK S \in SUBSET Inbox :
                   k = [conn[c] EXCEPT !.inbox = S]
      BY <2>2
    <3>2. QED
      BY <1>1, <1>4, <3>1, SocketAlike
  <2>3. QED
    BY <1>2, <2>1, <2>2
<1>6. /\ touch(k) \in ConnRecord /\ Alike(k, touch(k)) /\ Agrees(touch(k).ch)
  BY <1>5, WatchAlike
<1>7. Alike(conn[c], touch(k))
  BY <1>5, <1>6 DEF Alike
<1>8. /\ conn' \in [Conns -> ConnRecord]
      /\ \A d \in Conns : conn'[d] = IF d = c THEN touch(k) ELSE conn[d]
  BY <1>1, <1>3, <1>6 DEF Types
<1>9. ASSUME NEW d \in Conns PROVE Kept(d)
  <2>1. Untouched(d)
    BY <1>3, <1>6, <1>7, <1>8 DEF Untouched
  <2>2. SameFunctors(d) /\ SameReports(d) /\ SameUsers(d)
    BY <1>3 DEF SameFunctors, SameReports, SameUsers, InCall, accepting
  <2>3. QED
    BY <2>1, <2>2, Frame DEF IInv
<1>10. Types' /\ Turn'
  BY <1>3, <1>8 DEF IInv, Types, Turn, pool, accepting
<1>11. Living'
  BY <1>3 DEF IInv, Living, Reap
<1>12. QED
  BY <1>9, <1>10, <1>11 DEF Step

\* epoll_wait reports channels of connections, which are up.
LEMMA PollStep ==
    ASSUME IInv, NEW l \in Loops, NEW S \in SUBSET Conns, Poll(l, S)
    PROVE  Step
<1> DEFINE Reports == [c : Conns, revents : SUBSET Reportable]
           rep(c) == [c |-> c, revents |-> revents(conn[c])]
           watched(c) == [conn[c] EXCEPT !.ch = reported(conn[c].ch, ET)]
<1>1. /\ Types /\ conn \in [Conns -> ConnRecord]
      /\ active \in [Loops -> SUBSET Reports]
  BY DEF IInv, Types
<1>2. /\ UNCHANGED <<loop, pool, connections_, server, accepting, queue,
                     stopped, tpc, userRef, failed, sends>>
      /\ Reap /\ active[l] = {}
      /\ active' = [active EXCEPT ![l] = {rep(c) : c \in S}]
      /\ conn' = [c \in Conns |-> IF c \in S THEN watched(c) ELSE conn[c]]
  BY Zenon DEF Poll, Idle
<1>3. \A c \in S : loop[c] = l /\ Up(conn[c])
  <2> SUFFICES ASSUME NEW c \in S PROVE loop[c] = l /\ Up(conn[c])
    OBVIOUS
  <2>1. loop[c] = l /\ conn[c].ch.epoll # Absent
    BY DEF Poll
  <2>2. c \in Conns /\ Sound(c)
    BY DEF IInv
  <2>3. conn[c] # NewConn
    BY <2>1 DEF NewConn, NewChannel
  <2>4. ~Down(conn[c])
    BY <2>1, UpOrDown
  <2>5. QED
    BY <2>1, <2>2, <2>3, <2>4, PhaseByState
<1>4. ASSUME NEW c \in S
      PROVE  /\ watched(c) \in ConnRecord /\ Alike(conn[c], watched(c))
             /\ Agrees(watched(c).ch)
  <2>1. /\ conn[c] \in ConnRecord /\ Agrees(conn[c].ch)
        /\ conn[c].ch.epoll # Absent
    BY <1>3, UpOrDown DEF Up
  <2>2. ET \in BOOLEAN
    BY ServerAssumption DEF ServerAssumption
  <2>3. QED
    BY <2>1, <2>2, WatchAlike
<1>5. \A c \in S : rep(c) \in Reports /\ rep(c).c = c
  <2>1. \A c \in S : revents(conn[c]) \in SUBSET Reportable
    BY DEF revents, Reportable
  <2>2. QED
    BY <2>1
<1> HIDE DEF watched, rep
<1>6. /\ conn' \in [Conns -> ConnRecord]
      /\ \A c \in Conns : conn'[c] = IF c \in S THEN watched(c) ELSE conn[c]
  BY <1>1, <1>2, <1>4
<1>7. /\ active' \in [Loops -> SUBSET Reports]
      /\ \A m \in Loops : active'[m] = IF m = l THEN {rep(c) : c \in S}
                                                ELSE active[m]
  BY <1>1, <1>2, <1>5
<1>8. ASSUME NEW c \in Conns PROVE Kept(c)
  <2>1. Sound(c)
    BY DEF IInv
  <2>2. c \in S => conn[c].state # "kConnecting"
    BY <1>3, UpOrDown
  <2>3. Untouched(c)
    BY <1>2, <1>4, <1>6, <2>2 DEF Untouched
  <2>4. SameFunctors(c) /\ SameUsers(c)
    BY <1>2 DEF SameFunctors, SameUsers, InCall, accepting
  <2>5. Phase(c)' /\ Leaving(c)' /\ Queued(c)' /\ Known(c)'
    BY <1>1, <2>1, <2>3, <2>4, FramePhase, FrameQueued, FrameKnown
       DEF Sound, SameUsers
  <2>6. Open(conn'[c]) = Open(conn[c]) /\ loop'[c] = loop[c]
    BY <2>1, <2>3, FramePhase DEF Sound, Untouched
  <2>7. ASSUME NEW m \in Loops, NEW a \in active'[m], a.c = c
        PROVE  /\ m = loop'[c] /\ Open(conn'[c])
               /\ \A b \in active'[m] : b.c = c => b = a
    <3>1. CASE m = l
      <4>1. c \in S /\ a = rep(c)
        BY <1>5, <1>7, <2>7, <3>1
      <4>2. \A b \in active'[m] : b.c = c => b = a
        BY <1>5, <1>7, <3>1, <4>1
      <4>3. Open(conn[c]) /\ loop[c] = l
        BY <1>3, <4>1 DEF Up
      <4>4. QED
        BY <2>6, <3>1, <4>2, <4>3
    <3>2. CASE m # l
      BY <1>7, <2>1, <2>6, <2>7, <3>2 DEF Sound, Reported
    <3>3. QED
      BY <3>1, <3>2
  <2>8. Reported(c)'
    BY <2>7 DEF Reported
  <2>9. Born(c) => Born(c)'
    BY <2>1, <2>3, FramePhase DEF Born, Untouched, Sound
  <2>10. QED
    BY <2>5, <2>8, <2>9 DEF Kept, Sound
<1>9. Types' /\ Turn'
  BY <1>2, <1>6, <1>7 DEF IInv, Types, Turn, pool, accepting
<1>10. Living'
  BY <1>2 DEF IInv, Living, Reap
<1>11. QED
  BY <1>8, <1>9, <1>10 DEF Step

\* A client in the backlog has no connection: nothing refers to it.
LEMMA Fresh ==
    ASSUME IInv, NEW c \in Conns, c \in backlog
    PROVE  /\ conn[c] = NewConn /\ c \notin connections_ /\ c \notin userRef
           /\ \A t \in App : ~InCall(t, c)
           /\ \A l \in Loops, kind \in Kinds :
                 /\ ~Contains(queue[l], Functor(kind, c))
                 /\ ~Twice(queue[l], Functor(kind, c))
           /\ \A l \in Loops : \A a \in active[l] : a.c # c
<1>1. Sound(c)
  BY DEF IInv
<1>2. conn[c].state = "kConnecting" /\ c \notin connections_
  BY <1>1 DEF Sound, Known
<1>3. conn[c] = NewConn /\ c \notin userRef /\ \A t \in App : ~InCall(t, c)
  BY <1>1, <1>2, PhaseByState DEF Sound, Known
<1>4. ASSUME NEW l \in Loops, NEW kind \in Kinds
      PROVE  /\ ~Contains(queue[l], Functor(kind, c))
             /\ ~Twice(queue[l], Functor(kind, c))
  <2>1. ~Contains(queue[l], Functor(kind, c))
    BY <1>1, <1>2 DEF Sound, Queued, Fits
  <2>2. QED
    BY <2>1 DEF Twice, Contains
<1>5. \A l \in Loops : \A a \in active[l] : a.c # c
  BY <1>1, <1>2 DEF Sound, Reported, Open
<1>6. QED
  BY <1>2, <1>3, <1>4, <1>5

\* EventLoopThreadPool::getNextLoop.
LEMMA NextLoop ==
    ASSUME Turn
    PROVE  /\ getNextLoop \in Loops
           /\ loops_ # <<>> => (next_ % Len(loops_)) + 1 \in 1..Len(loops_)
<1>1. CASE loops_ = <<>>
  BY <1>1 DEF getNextLoop, Loops
<1>2. CASE loops_ # <<>>
  <2>1. Len(loops_) \in Nat \ {0} /\ next_ \in 1..Len(loops_)
    BY <1>2, EmptySeq DEF Turn
  <2>2. loops_[next_] \in Loops
    BY <2>1, ElementOfSeq DEF Turn
  <2>3. (next_ % Len(loops_)) \in 0..(Len(loops_) - 1)
    BY <2>1
  <2>4. QED
    BY <1>2, <2>1, <2>2, <2>3 DEF getNextLoop
<1>3. QED
  BY <1>1, <1>2

\* Acceptor::handleRead and TcpServer::newConnection.
LEMMA NewConnectionStep ==
    ASSUME IInv, Careful, NEW c \in Conns, NEW op, NEW w \in WriteResults,
           NewConnection(c, op, w)
    PROVE  Step
<1>1. PICK n \in Loops : n = getNextLoop
  BY NextLoop DEF IInv
<1>2. /\ backlog' = backlog \ {c} /\ connections_' = connections_ \cup {c}
      /\ loop' = [loop EXCEPT ![c] = n]
      /\ next_' = IF loops_ = <<>> THEN 1 ELSE (next_ % Len(loops_)) + 1
      /\ UNCHANGED <<loops_, server, listening_, active, stopped, tpc, failed>>
      /\ Reap
  BY <1>1, Zenon DEF NewConnection
<1>3. Types /\ queue \in [Loops -> Seq(Functors)]
  BY DEF IInv, Types
<1>4. /\ conn[c] = NewConn /\ c \notin connections_ /\ c \notin userRef
      /\ \A t \in App : ~InCall(t, c)
      /\ \A l \in Loops, kind \in Kinds :
            /\ ~Contains(queue[l], Functor(kind, c))
            /\ ~Twice(queue[l], Functor(kind, c))
      /\ \A l \in Loops : \A a \in active[l] : a.c # c
  BY Fresh DEF NewConnection
<1>5. /\ loop' \in [Conns -> Loops]
      /\ \A d \in Conns : loop'[d] = IF d = c THEN n ELSE loop[d]
  BY <1>2, <1>3 DEF Types
<1>6. Turn'
  BY <1>2, NextLoop DEF IInv, Turn
<1>7. Living'
  BY <1>2 DEF IInv, Living, Reap
<1>8. Reported(c)'
  BY <1>2, <1>4 DEF Reported
<1>9. ASSUME NEW d \in Conns, d # c, conn'[d] = conn[d], SameFunctors(d),
             userRef' = userRef \/ userRef' = userRef \cup {c}
      PROVE  Kept(d)
  <2>1. Untouched(d)
    BY <1>2, <1>5, <1>9 DEF Untouched
  <2>2. SameReports(d) /\ SameUsers(d)
    BY <1>2, <1>9 DEF SameReports, SameUsers, InCall
  <2>3. QED
    BY <1>3, <1>9, <2>1, <2>2, Frame DEF IInv
<1>10. CASE n = Base
  <2> DEFINE k0 == connectEstablished(conn[c])
             k == IF inCallback(op) \in Ops THEN call(op, k0, w) ELSE k0
             r == [i \in DOMAIN k.posts |-> Functor(k.posts[i], c)]
             j == [k EXCEPT !.posts = <<>>]
  <2>1. /\ conn' = [conn EXCEPT ![c] = j]
        /\ queue' = Grown(queue, Base, r)
        /\ userRef' = userRef \cup {c}
    BY <1>1, <1>10, Zenon DEF NewConnection, Grown
  <2>2. Up(k)
    <3>1. Up(k0) /\ Ends(k0, w)
      BY <1>4, EstablishedIsUp DEF Ends
    <3> HIDE DEF k0
    <3>2. inCallback(op) \in Ops => op \in Ops /\ op # "stopRead"
      BY Allowed
    <3>3. QED
      BY <3>1, <3>2, CallIsUp
  <2> HIDE DEF k
  <2>3. Up(j) /\ j \in ConnRecord /\ j.posts = <<>> /\ j.closes = 0
    <3>1. k \in ConnRecord /\ k.closes = 0
      BY <2>2 DEF Up
    <3>2. j = [k EXCEPT !.posts = <<>>, !.closes = 0]
      BY <3>1 DEF ConnRecord
    <3>3. QED
      BY <2>2, <3>1, <3>2, Cleaned
  <2>4. /\ r \in Seq(Functors)
        /\ \A f : Contains(r, f) => \E kind \in Posted : f = Functor(kind, c)
    <3>1. k.posts \in Seq(Posted)
      BY <2>2 DEF Up, ConnRecord
    <3>2. QED
      BY <3>1, PostedFunctors
  <2> HIDE DEF r, j
  <2>5. /\ queue' \in [Loops -> Seq(Functors)]
        /\ \A l \in Loops : \A f :
              /\ Contains(queue'[l], f) <=>
                     Contains(queue[l], f) \/ (l = Base /\ Contains(r, f))
              /\ Twice(queue'[l], f) =>
                     Twice(queue[l], f) \/ (l = Base /\ Contains(r, f))
    <3>1. Base \in Loops
      BY <1>10
    <3>2. Longer(queue', queue, Base, r)
      BY <1>3, <2>1, <2>4, <3>1, GrownQueues
    <3>3. QED
      BY <3>2 DEF Longer
  <2>6. /\ conn' \in [Conns -> ConnRecord] /\ conn'[c] = j
        /\ \A d \in Conns : d # c => conn'[d] = conn[d]
    BY <1>3, <2>1, <2>3 DEF Types
  <2>7. \A kind \in Kinds, d \in Conns :
           Contains(r, Functor(kind, d)) => kind \in Posted /\ d = c
    BY <2>4 DEF Functor
  <2>8. ASSUME NEW d \in Conns, d # c PROVE Kept(d)
    <3>1. SameFunctors(d)
      BY <2>5, <2>7, <2>8 DEF SameFunctors
    <3>2. QED
      BY <1>9, <2>1, <2>6, <2>8, <3>1
  <2>9. j.state # "kConnecting" /\ j.state # "kDisconnected"
    BY <2>3, UpOrDown
  <2>10. Phase(c)' /\ Leaving(c)' /\ Known(c)' /\ Born(c)'
    BY <1>2, <1>4, <2>3, <2>6, <2>9 DEF Phase, Leaving, Known, Born, InCall
  <2>11. Queued(c)'
    <3> SUFFICES ASSUME NEW l \in Loops, NEW kind \in Kinds,
                        Contains(queue'[l], Functor(kind, c))
                 PROVE  /\ Fits(l, kind, c)'
                        /\ kind \in Once => ~Twice(queue'[l], Functor(kind, c))
      BY DEF Queued
    <3>1. l = Base /\ kind \in Posted
      BY <1>4, <2>5, <2>7
    <3>2. kind \notin Once \cup {"send"}
      BY <3>1 DEF Posted, Once
    <3>3. Fits(l, kind, c)'
      BY <1>5, <1>10, <2>6, <2>9, <3>1, <3>2 DEF Fits, Once
    <3>4. QED
      BY <3>2, <3>3
  <2>12. Kept(c)
    BY <1>8, <2>10, <2>11 DEF Kept, Sound
  <2>13. Types'
    BY <1>2, <1>3, <1>5, <2>1, <2>5, <2>6 DEF Types
  <2>14. QED
    BY <1>6, <1>7, <2>8, <2>12, <2>13 DEF Step
<1>11. CASE n # Base
  <2> DEFINE e == Functor("established", c)
  <2>1. conn' = conn /\ userRef' = userRef /\ queue' = Pushed(queue, n, e)
    BY <1>1, <1>11, Zenon DEF NewConnection, Pushed
  <2>2. e \in Functors
    BY DEF Functors, Functor, Kinds
  <2>3. \A kind \in Kinds, d \in Conns :
           Functor(kind, d) = e => kind = "established" /\ d = c
    BY DEF Functor
  <2> HIDE DEF e
  <2>4. /\ queue' \in [Loops -> Seq(Functors)]
        /\ \A l \in Loops : \A f :
              /\ Contains(queue'[l], f) <=>
                     Contains(queue[l], f) \/ (l = n /\ f = e)
              /\ Twice(queue'[l], f) =>
                     \/ Twice(queue[l], f)
                     \/ l = n /\ f = e /\ Contains(queue[l], f)
    <3>1. OneMore(queue', queue, n, e)
      BY <1>3, <2>1, <2>2, PushedQueues
    <3>2. QED
      BY <3>1 DEF OneMore
  <2>5. ASSUME NEW d \in Conns, d # c PROVE Kept(d)
    <3>1. SameFunctors(d)
      BY <2>3, <2>4, <2>5 DEF SameFunctors
    <3>2. QED
      BY <1>9, <2>1, <2>5, <3>1
  <2>6. Phase(c)' /\ Leaving(c)' /\ Known(c)' /\ Born(c)'
    BY <1>2, <1>4, <2>1, NewIsRecord, UpOrDown
       DEF Phase, Leaving, Known, Born, InCall
  <2>7. Queued(c)'
    <3> SUFFICES ASSUME NEW l \in Loops, NEW kind \in Kinds,
                        Contains(queue'[l], Functor(kind, c))
                 PROVE  /\ Fits(l, kind, c)'
                        /\ kind \in Once => ~Twice(queue'[l], Functor(kind, c))
      BY DEF Queued
    <3>1. l = n /\ kind = "established"
      BY <1>4, <2>3, <2>4
    <3>2. Fits(l, kind, c)'
      BY <1>2, <1>4, <1>5, <2>1, <3>1, UpOrDown DEF Fits
    <3>3. QED
      BY <1>4, <2>4, <3>2
  <2>8. Kept(c)
    BY <1>8, <2>6, <2>7 DEF Kept, Sound
  <2>9. Types'
    BY <1>2, <1>3, <1>5, <2>1, <2>4 DEF Types
  <2>10. QED
    BY <1>6, <1>7, <2>5, <2>8, <2>9 DEF Step
<1>12. QED
  BY <1>10, <1>11

-----------------------------------------------------------------------------
(* The theorems.                                                           *)

\* The invariant holds at the start.
LEMMA StartsSound ==
    ASSUME Init
    PROVE  IInv
<1>1. <<>> \in Seq(Functors) /\ <<>> \in Seq(Loops) /\ Len(<<>>) = 0
  BY EmptySeq
<1>2. Types
  <2>1. conn \in [Conns -> ConnRecord] /\ loop \in [Conns -> Loops]
    BY NewIsRecord DEF Init, Loops
  <2>2. queue \in [Loops -> Seq(Functors)]
    BY <1>1 DEF Init
  <2>3. /\ active \in [Loops -> SUBSET [c : Conns,
                                        revents : SUBSET Reportable]]
        /\ tpc \in [App -> {idle} \cup ({"send"} \X Conns)]
    BY DEF Init
  <2>4. QED
    BY <2>1, <2>2, <2>3 DEF Types, Init
<1>3. Turn
  BY <1>1 DEF Init, Turn
<1>4. \A l \in Loops : queue[l] = <<>> /\ active[l] = {}
  BY DEF Init
<1>5. \A l \in Loops : \A f : ~Contains(queue[l], f)
  BY <1>1, <1>4 DEF Contains
<1>6. \A c \in Conns : conn[c] = NewConn /\ \A t \in App : ~InCall(t, c)
  BY DEF Init, InCall
<1>7. Living
  <2>1. \A c \in Conns : ~Held(c)
    <3>1. \A l \in Loops : DOMAIN queue[l] = {}
      BY <1>4
    <3>2. QED
      BY <1>6, <3>1, NewIsRecord DEF Held, Init
  <2>2. QED
    BY <2>1 DEF Living, Init
<1>8. ASSUME NEW c \in Conns PROVE Sound(c)
  <2>1. Phase(c) /\ Leaving(c)
    BY <1>6, NewIsRecord, UpOrDown DEF Phase, Leaving
  <2>2. Queued(c)
    BY <1>5 DEF Queued
  <2>3. Reported(c) /\ Known(c)
    BY <1>4, <1>6 DEF Reported, Known, Init
  <2>4. QED
    BY <2>1, <2>2, <2>3 DEF Sound
<1>9. QED
  BY <1>2, <1>3, <1>7, <1>8 DEF IInv

\* Every step keeps the invariant.
LEMMA EveryStep ==
    ASSUME IInv, Careful, [Next]_vars
    PROVE  Step
<1>1. CASE UNCHANGED vars
  <2>1. UNCHANGED <<conn, loop, loops_, next_, connections_, server,
                    listening_, backlog, queue, active, stopped, tpc, userRef,
                    alive, failed>>
    BY <1>1 DEF vars, pool, accepting
  <2>2. ASSUME NEW c \in Conns PROVE Kept(c)
    <3>1. SameUsers(c)
      BY <2>1 DEF SameUsers, InCall
    <3>2. QED
      BY <2>1, <3>1, Quiet
  <2>3. Types' /\ Turn'
    BY <2>1 DEF IInv, Types, Turn
  <2>4. \A c \in Conns : Held(c)' <=> Held(c)
    BY <2>1 DEF Held, InCall
  <2>5. Living'
    BY <2>1, <2>4 DEF IInv, Living
  <2>6. QED
    BY <2>2, <2>3, <2>5 DEF Step
<1>2. CASE Start \/ DestroyServer
  BY <1>2, StartStep DEF DestroyServer, Careful
<1>3. CASE \E l \in Loops : \/ Handle(l) \/ Run(l) \/ StopLoop(l)
                            \/ \E S \in SUBSET Conns : Poll(l, S)
  <2>1. PICK l \in Loops : \/ Handle(l) \/ Run(l) \/ StopLoop(l)
                           \/ \E S \in SUBSET Conns : Poll(l, S)
    BY <1>3
  <2>2. CASE Handle(l)
    BY <2>2, HandleEventStep DEF Handle
  <2>3. CASE Run(l)
    <3>1. PICK op \in UserOps \cup DownOps \cup {"nothing"},
               w \in WriteResults : RunFunctor(l, op, w)
      BY <2>3 DEF Run
    <3>2. QED
      BY <3>1, FunctorStep, RemoveStep
  <2>4. CASE StopLoop(l)
    BY <2>4 DEF StopLoop, IInv, Living
  <2>5. CASE \E S \in SUBSET Conns : Poll(l, S)
    BY <2>5, PollStep
  <2>6. QED
    BY <2>1, <2>2, <2>3, <2>4, <2>5
<1>4. ASSUME NEW c \in Conns,
             \/ Connect(c) \/ AcceptEmfile(c) \/ Drop(c)
             \/ PeerSends(c) \/ PeerCloses(c) \/ PeerResets(c) \/ PeerReads(c)
             \/ \E op \in Calls, w \in WriteResults :
                   NewConnection(c, op, w) \/ LoopCall(c, op, w)
             \/ Timer(c)
             \/ \E t \in App, op \in AppOps : AppCall(t, c, op)
      PROVE  Step
  <2>1. CASE Connect(c) \/ AcceptEmfile(c) \/ Drop(c)
    BY <2>1, ConnectStep, DropStep
  <2>2. CASE PeerSends(c) \/ PeerCloses(c) \/ PeerResets(c) \/ PeerReads(c)
    BY <2>2, PeerStep
  <2>3. CASE \E op \in Calls, w \in WriteResults :
                NewConnection(c, op, w) \/ LoopCall(c, op, w)
    BY <2>3, NewConnectionStep, LoopCallStep
  <2>4. CASE Timer(c)
    BY <2>4, TimerStep DEF Timer
  <2>5. CASE \E t \in App, op \in AppOps : AppCall(t, c, op)
    BY <2>5, AppCallStep
  <2>6. QED
    BY <1>4, <2>1, <2>2, <2>3, <2>4, <2>5
<1>5. CASE \E t \in App : AppCommit(t)
  BY <1>5, AppCommitStep
<1>6. QED
  BY <1>1, <1>2, <1>3, <1>4, <1>5 DEF Next

\* The application is the same throughout.
LEMMA SameApplication == [Next]_vars => UNCHANGED profile
<1>1. ASSUME NEW l \in Loops,
             \/ Handle(l) \/ Run(l) \/ StopLoop(l)
             \/ \E S \in SUBSET Conns : Poll(l, S)
      PROVE  UNCHANGED profile
  BY <1>1, Zenon DEF Handle, HandleEvent, Run, RunFunctor, StopLoop, Poll, pool
<1>2. ASSUME NEW c \in Conns,
             \/ Connect(c) \/ AcceptEmfile(c) \/ Drop(c)
             \/ PeerSends(c) \/ PeerCloses(c) \/ PeerResets(c) \/ PeerReads(c)
             \/ \E op \in Calls, w \in WriteResults :
                   NewConnection(c, op, w) \/ LoopCall(c, op, w)
             \/ Timer(c)
             \/ \E t \in App, op \in AppOps : AppCall(t, c, op)
      PROVE  UNCHANGED profile
  BY <1>2, Zenon DEF Connect, AcceptEmfile, Drop, PeerSends, PeerCloses,
     PeerResets, PeerReads, Peer, NewConnection, LoopCall, Timer, TimerFires,
     AppCall, pool
<1>3. (\E t \in App : AppCommit(t)) => UNCHANGED profile
  BY Zenon DEF AppCommit, pool
<1>4. Start \/ DestroyServer => UNCHANGED profile
  BY Zenon DEF Start, DestroyServer, pool
<1>5. UNCHANGED vars => UNCHANGED profile
  BY DEF vars, pool
<1>6. QED
  BY <1>1, <1>2, <1>3, <1>4, <1>5 DEF Next

\* The invariant is one.
LEMMA AlwaysSound == Spec /\ Careful => [](Careful /\ IInv)
<1>1. IInv /\ Careful /\ [Next]_vars => IInv'
  BY EveryStep DEF Step, Kept, IInv
<1>2. Careful /\ [Next]_vars => Careful'
  BY SameApplication DEF Careful, KeepsRef, Destroys, AppOps, UserOps, DownOps
<1>3. QED
  BY <1>1, <1>2, StartsSound, PTL DEF Spec

\* A connection object that was made and is gone had been closed and taken
\* from its poller.
GoneIsClosed ==
    \A c \in Conns : Born(c) /\ c \notin alive =>
        conn[c].state = "kDisconnected" /\ ~conn[c].ch.addedToLoop

\* What no shared_ptr reaches is at the end of its life ...
LEMMA UnheldIsClosed ==
    ASSUME IInv
    PROVE  GoneIsClosed
<1> SUFFICES ASSUME NEW c \in Conns, Born(c), c \notin alive
             PROVE  /\ conn[c].state = "kDisconnected"
                    /\ ~conn[c].ch.addedToLoop
  BY DEF GoneIsClosed
<1>1. Sound(c) /\ loop[c] \in Loops
  BY DEF IInv, Types
<1>2. c \notin connections_
  BY HeldIsAlive
<1>3. Down(conn[c])
  BY <1>1, <1>2, PhaseByState DEF Born
<1>4. "destroyed" \in Kinds \ {"send"}
  BY DEF Kinds
<1>5. ~Contains(queue[loop[c]], Functor("destroyed", c))
  BY <1>1, <1>4, HeldIsAlive
<1>6. QED
  BY <1>1, <1>2, <1>3, <1>5 DEF Down, Sound, Leaving

\* ... and what one reaches was made.
LEMMA HeldIsBorn ==
    ASSUME IInv, NEW c \in alive
    PROVE  c \in Conns /\ Born(c)
<1>1. c \in Conns /\ Held(c) /\ Sound(c) /\ Types
  BY DEF IInv, Living
<1>2. CASE c \in connections_ \/ c \in userRef \/ \E t \in App : InCall(t, c)
  BY <1>1, <1>2 DEF Born, Sound, Known
<1>3. CASE conn[c].timer
  BY <1>1, <1>3, PhaseByState, NewIsRecord DEF Born
<1>4. ASSUME NEW l \in Loops, NEW i \in DOMAIN queue[l], queue[l][i].c = c
      PROVE  Born(c)
  <2>1. queue[l] \in Seq(Functors)
    BY <1>1 DEF Types
  <2>2. i \in 1..Len(queue[l]) /\ queue[l][i] \in Functors
    BY <1>4, <2>1, LenProperties, ElementOfSeq
  <2>3. PICK kind \in Kinds : queue[l][i] = Functor(kind, c)
    BY <1>4, <2>2 DEF Functors, Functor
  <2>4. Contains(queue[l], Functor(kind, c))
    BY <2>2, <2>3 DEF Contains
  <2>5. Fits(l, kind, c)
    BY <1>1, <2>4 DEF Sound, Queued
  <2>6. QED
    BY <2>5 DEF Fits, Born
<1>5. QED
  BY <1>1, <1>2, <1>3, <1>4 DEF Held

\* No functor, event or call uses a TcpConnection, Channel, TcpServer or
\* EventLoop that is gone, whatever the threads, the peers and the callbacks
\* do within Careful: tie_, the shared_ptrs that functors capture and the
\* application's own pointer keep what they use.
THEOREM NothingDeadIsUsed ==
    Spec /\ Careful => []NoUseAfterFree
<1>1. IInv => NoUseAfterFree
  BY DEF IInv, Living, NoUseAfterFree
<1>2. QED
  BY <1>1, AlwaysSound, PTL

\* The connection callback announces a connection once and its end at most
\* once, and TcpServer::removeConnectionInLoop finds it in connections_
\* (TcpServer.cpp:189).
THEOREM EndsAtMostOnce ==
    Spec /\ Careful => []DownOnce
<1>1. IInv => DownOnce
  <2> SUFFICES ASSUME IInv PROVE DownOnce
    OBVIOUS
  <2>1. "TcpServer.cpp:189" \notin failed
    BY DEF IInv, Living
  <2>2. ASSUME NEW c \in Conns
        PROVE  conn[c].downs <= conn[c].ups /\ conn[c].ups <= 1
    <3>1. Phase(c)
      BY DEF IInv, Sound
    <3>2. \/ conn[c].ups = 0 /\ conn[c].downs = 0
          \/ conn[c].ups = 1 /\ conn[c].downs \in {0, 1}
      BY <3>1, NewIsRecord DEF Phase, Up, Down
    <3>3. QED
      BY <3>2
  <2>3. QED
    BY <2>1, <2>2 DEF DownOnce
<1>2. QED
  BY <1>1, AlwaysSound, PTL

\* Whatever a connection's operations and callbacks do to its channel,
\* index_, events_, channels_ and the kernel's interest agree.
THEOREM ConnectionsAgreeWithEpoll ==
    Spec /\ Careful => []EpollAgrees
<1>1. IInv => EpollAgrees
  <2> SUFFICES ASSUME IInv, NEW c \in Conns
               PROVE  IF conn[c].ch.events = {}
                      THEN conn[c].ch.epoll = Absent /\ conn[c].ch.index = -1
                      ELSE /\ conn[c].ch.epoll = conn[c].ch.events
                           /\ conn[c].ch.index \in {1, 2} /\ conn[c].ch.inMap
    BY DEF EpollAgrees, Poller!EpollAgrees, Poller!isNoneEvent,
           Poller!Absent, Absent
  <2>1. Phase(c)
    BY DEF IInv, Sound
  <2>2. Agrees(conn[c].ch)
    BY <2>1, NewIsRecord DEF Phase, Up, Down
  <2>3. QED
    BY <2>2, AgreesMeans
<1>2. QED
  BY <1>1, AlwaysSound, PTL

\* Of the channels of connections no assert fails but the ones of
\* EpollPoller.cpp:72 and :97, and epoll_ctl never fails for them.
THEOREM ConnectionsFailTwoAsserts ==
    Spec /\ Careful => []OnlyTwoAssertsFail
<1>1. IInv => OnlyTwoAssertsFail
  <2> SUFFICES ASSUME IInv, NEW c \in Conns
               PROVE  conn[c].ch.failed \subseteq
                          {"EpollPoller.cpp:72", "EpollPoller.cpp:97"}
    BY DEF OnlyTwoAssertsFail, Poller!OnlyTwoAssertsFail
  <2>1. conn[c].ch \in ChannelRecord
    BY DEF IInv, Types, ConnRecord
  <2>2. QED
    BY <2>1, RecordMeans
<1>2. QED
  BY <1>1, AlwaysSound, PTL

\* The half-close waits for outputBuffer_, and nothing is buffered after it.
THEOREM FinComesLast ==
    Spec /\ Careful => []FinIsLast
<1>1. IInv => FinIsLast
  <2> SUFFICES ASSUME IInv, NEW c \in Conns, conn[c].finSent
               PROVE  conn[c].out = 0
    BY DEF FinIsLast
  <2>1. Phase(c)
    BY DEF IInv, Sound
  <2>2. QED
    BY <2>1, NewIsRecord DEF Phase, Up, Down
<1>2. QED
  BY <1>1, AlwaysSound, PTL

\* When the last shared_ptr of a connection goes away, the connection is
\* closed and its channel removed: the asserts of ~TcpConnection
\* (TcpConnection.cpp:48) and ~Channel (Channel.cpp:29) hold.
THEOREM FreedAfterClose ==
    Spec /\ Careful => FreedIsClosed
<1> DEFINE A == server' => \A c \in alive \ alive' :
                   conn'[c].state = "kDisconnected" /\ ~conn'[c].ch.addedToLoop
<1>1. IInv => GoneIsClosed
  BY UnheldIsClosed
<1>2. IInv /\ Careful /\ GoneIsClosed' /\ [Next]_vars => [A]_vars
  <2> SUFFICES ASSUME IInv, Careful, GoneIsClosed', [Next]_vars,
                      NEW c \in alive \ alive'
               PROVE  /\ conn'[c].state = "kDisconnected"
                      /\ ~conn'[c].ch.addedToLoop
    OBVIOUS
  <2>1. c \in Conns /\ Born(c)
    BY HeldIsBorn
  <2>2. Born(c)'
    BY <2>1, EveryStep DEF Step, Kept
  <2>3. QED
    BY <2>1, <2>2 DEF GoneIsClosed
<1>3. QED
  BY <1>1, <1>2, AlwaysSound, PTL DEF Spec, FreedIsClosed

=============================================================================
