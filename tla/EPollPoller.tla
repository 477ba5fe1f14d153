----------------------------- MODULE EPollPoller -----------------------------
(***************************************************************************)
(* The channels of one loop, their owners and EPollPoller.  An owner calls *)
(* Channel's operations in the loop's thread, in any order its own code    *)
(* can call them:                                                          *)
(*  - TcpConnection, Acceptor, EventLoop and TimerQueue call remove() once *)
(*    the last event was disabled;                                         *)
(*  - TcpConnection::stopRead and startRead take the last event away and   *)
(*    bring it back (Pauses);                                              *)
(*  - TcpConnection::stopRead after handleClose,                           *)
(*    CoroTcpConnection::handleClose followed by CoroChannel::remove, and  *)
(*    ~Acceptor when listen() was never called, disable events on a        *)
(*    channel that has none (Redundant).                                   *)
(***************************************************************************)
EXTENDS Channel

CONSTANTS Chans,      \* the channels of the loop
          Pauses,     \* owners enable events again after they disabled all
          Redundant,  \* owners disable events on a channel that has none
          ET          \* Channel::et_

VARIABLE chan   \* the record of each channel

Init == chan = [c \in Chans |-> NewChannel]

set(c, ch) == chan' = [chan EXCEPT ![c] = ch]

\* The channel was never handed to the loop, or was removed from it.
Fresh(c) == ~chan[c].addedToLoop

\* Whether the owner may ask for an event now.
MayEnable(c) == Pauses \/ Fresh(c) \/ ~isNoneEvent(chan[c])

EnableReading(c) ==
    /\ ~isReading(chan[c])
    /\ MayEnable(c)
    /\ set(c, enableReading(chan[c]))

EnableWriting(c) ==
    /\ ~isWriting(chan[c])
    /\ MayEnable(c)
    /\ set(c, enableWriting(chan[c]))

DisableReading(c) ==
    /\ ~Fresh(c)
    /\ Redundant \/ isReading(chan[c])
    /\ set(c, disableReading(chan[c]))

DisableWriting(c) ==
    /\ isWriting(chan[c])
    /\ set(c, disableWriting(chan[c]))

DisableAll(c) ==
    /\ Redundant \/ ~isNoneEvent(chan[c])
    /\ set(c, disableAll(chan[c]))

Remove(c) ==
    /\ ~Fresh(c)
    /\ isNoneEvent(chan[c])
    /\ set(c, remove(chan[c]))

\* The descriptor's state changes: epoll looks at it.
StateChanges(c) ==
    /\ chan[c].epoll # Absent
    /\ set(c, [chan[c] EXCEPT !.edge = TRUE])

\* epoll_wait reports the channel.  EPOLLERR and EPOLLHUP are reported
\* whatever events it is registered for.
Report(c) ==
    /\ chan[c].epoll # Absent
    /\ chan[c].edge
    /\ set(c, reported(chan[c], ET))

Next == \E c \in Chans :
            \/ EnableReading(c) \/ EnableWriting(c)
            \/ DisableReading(c) \/ DisableWriting(c) \/ DisableAll(c)
            \/ Remove(c) \/ StateChanges(c) \/ Report(c)

Spec == Init /\ [][Next]_chan
-----------------------------------------------------------------------------
(* Properties.                                                             *)

\* index_, events_, channels_ and the kernel agree: a channel is registered
\* exactly when it has an event, with the events its owner asked for, and
\* then index_ and the poller's map say so.
EpollAgrees ==
    \A c \in Chans :
        LET ch == chan[c] IN
        IF isNoneEvent(ch)
        THEN ch.epoll = Absent /\ ch.index = -1
        ELSE ch.epoll = ch.events /\ ch.index \in {1, 2} /\ ch.inMap

\* Two asserts of EpollPoller.cpp are false of correct owners: :72 (a paused
\* channel that is added again is still in the map) and :97 (disableAll() has
\* set index_ to -1 when remove() comes).  They are the only ones: no other
\* assert of EpollPoller.cpp and Channel.cpp, and no ADD or MOD, fails.
OnlyTwoAssertsFail ==
    \A c \in Chans :
        chan[c].failed \subseteq {"EpollPoller.cpp:72", "EpollPoller.cpp:97"}

=============================================================================
