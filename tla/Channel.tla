------------------------------- MODULE Channel -------------------------------
(***************************************************************************)
(* net/Channel.cpp, net/Channel.h and the part of net/EpollPoller.cpp that *)
(* keeps a channel's registration with epoll, as functions on the record   *)
(* of one channel.  A file descriptor belongs to one channel at a time, so *)
(* the poller's map entry and epoll's interest for it are fields of the    *)
(* same record:                                                            *)
(*   events       events_, the interest the owner asked for                *)
(*   index        index_: -1 new or deleted, 1 after ADD, 2 after MOD      *)
(*   addedToLoop  addedToLoop_                                             *)
(*   inMap        channels_[fd] is this channel                            *)
(*   epoll        the events epoll watches for, or Absent                  *)
(*   edge         epoll has looked at the descriptor's state since it last *)
(*                reported it: a change of state, an ADD or a MOD          *)
(*   failed       the asserts that did not hold, by file and line.  The    *)
(*                model goes on as a build with NDEBUG does.               *)
(***************************************************************************)
EXTENDS Integers

kReadEvent == "read"
kWriteEvent == "write"
Events == {kReadEvent, kWriteEvent}

\* The value of epoll for a descriptor that is not registered.
Absent == {"absent"}

\* The labels of an assert: none when it holds.
Assert_(condition, label) == IF condition THEN {} ELSE {label}

NewChannel == [events |-> {}, index |-> -1, addedToLoop |-> FALSE,
               inMap |-> FALSE, epoll |-> Absent, edge |-> FALSE,
               failed |-> {}]

isNoneEvent(ch) == ch.events = {}
isReading(ch) == kReadEvent \in ch.events
isWriting(ch) == kWriteEvent \in ch.events
-----------------------------------------------------------------------------
(* EPollPoller.                                                            *)

\* EPollPoller::update.  ADD of a registered descriptor and MOD of one that
\* is not are fatal; DEL of one that is not is only logged.
update(op, ch) ==
    LET registered == ch.epoll # Absent
        checked == [ch EXCEPT !.failed = @ \cup
                       Assert_(op = "ADD" => ~registered, "epoll_ctl ADD")
                       \cup Assert_(op = "MOD" => registered, "epoll_ctl MOD")]
    IN  CASE op = "ADD" -> [checked EXCEPT !.epoll = ch.events, !.index = 1,
                                           !.edge = TRUE]
          [] op = "MOD" -> [checked EXCEPT !.epoll = ch.events, !.index = 2,
                                           !.edge = TRUE]
          [] op = "DEL" -> [checked EXCEPT !.epoll = Absent, !.index = -1,
                                           !.edge = FALSE]

\* Mutant: a channel that loses its last event is modified, not deleted.
updateChannelKeepsNone(ch) ==
    IF ch.index < 0 THEN update("ADD", [ch EXCEPT !.inMap = TRUE])
                    ELSE update("MOD", ch)

\* EPollPoller::updateChannel.
updateChannel(ch) ==
    IF ch.index < 0
    THEN update("ADD", [ch EXCEPT !.inMap = TRUE,
              !.failed = @ \cup Assert_(~ch.inMap, "EpollPoller.cpp:72")])
    ELSE update(IF isNoneEvent(ch) THEN "DEL" ELSE "MOD",
              [ch EXCEPT !.failed =
                   @ \cup Assert_(ch.inMap, "EpollPoller.cpp:77")])

\* EPollPoller::removeChannel.
removeChannel(ch) ==
    LET erased == [ch EXCEPT !.inMap = FALSE,
                     !.failed = @
                       \cup Assert_(ch.inMap, "EpollPoller.cpp:93")
                       \cup Assert_(isNoneEvent(ch), "EpollPoller.cpp:95")
                       \cup Assert_(ch.index \in {1, 2}, "EpollPoller.cpp:97")]
    IN  IF ch.index = 2 THEN update("DEL", erased)
                        ELSE [erased EXCEPT !.index = -1]

\* EPollPoller::fillActiveChannels, for one reported channel: with ET the
\* descriptor is reported once for each look epoll takes at it.
reported(ch, et) ==
    [ch EXCEPT !.edge = ~et,
               !.failed = @ \cup Assert_(ch.inMap, "EpollPoller.cpp:58")]
-----------------------------------------------------------------------------
(* Channel.                                                                *)

setEvents(ch, events) ==
    updateChannel([ch EXCEPT !.events = events, !.addedToLoop = TRUE])

enableReading(ch) == setEvents(ch, ch.events \cup {kReadEvent})
disableReading(ch) == setEvents(ch, ch.events \ {kReadEvent})
enableWriting(ch) == setEvents(ch, ch.events \cup {kWriteEvent})
disableWriting(ch) == setEvents(ch, ch.events \ {kWriteEvent})
disableAll(ch) == setEvents(ch, {})

\* Channel::remove.
remove(ch) ==
    removeChannel([ch EXCEPT !.addedToLoop = FALSE,
        !.failed = @ \cup Assert_(isNoneEvent(ch), "Channel.cpp:43")])

=============================================================================
