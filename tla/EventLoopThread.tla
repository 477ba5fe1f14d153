--------------------------- MODULE EventLoopThread ---------------------------
(***************************************************************************)
(* The EventLoopThread of net/TcpServer.cpp (and its copy in               *)
(* io_uring/UringEventLoopThread.h) and base/Thread.cc over EventLoop: a   *)
(* thread that makes an EventLoop on its stack, hands it out and runs it,  *)
(* and the thread User that owns the object: startLoop() and the           *)
(* destructor.  EventLoop's owner is the thread of the object.             *)
(*   tth: "none", "init" (callback_), "enter" (loop_ is set), "loop",      *)
(*        "clear" (at loop_ = nullptr), "ended" (the EventLoop is gone)    *)
(*   upc: "new", "wait" (in cond_.wait), "use", then in the destructor     *)
(*        "quit", "wakeup", "join" and "done"                              *)
(***************************************************************************)
EXTENDS EventLoop

CONSTANT User   \* the one of Others that owns the EventLoopThread

ASSUME UserAssumption == User \in Others

VARIABLES tth, upc,
          loop_,    \* not a null pointer
          inTime    \* the destructor's quit() came after loop() had begun

own == <<tth, upc, loop_, inTime>>
threadVars == <<vars, own>>

ThreadInit ==
    /\ Init
    /\ tth = "none" /\ upc = "new"
    /\ loop_ = FALSE /\ inTime = FALSE
-----------------------------------------------------------------------------
(* The thread of the object: Thread::runInThread and threadFunc.           *)

\* callback_(&loop) may post to the loop it is given.
InitCallback ==
    /\ tth = "init"
    /\ OwnerQueueInLoop
    /\ UNCHANGED own

\* loop_ = &loop under the mutex, and cond_.notify_one().
Publish ==
    /\ tth = "init"
    /\ tth' = "enter" /\ loop_' = TRUE
    /\ UNCHANGED <<vars, upc, inTime>>

EnterLoop ==
    /\ tth = "enter"
    /\ Loop
    /\ tth' = "loop"
    /\ UNCHANGED <<upc, loop_, inTime>>

\* A step of loop() and of what it calls.
InLoop ==
    /\ tth = "loop" /\ Running
    /\ \/ OwnerStep
       \/ OwnerQueueInLoop \/ OwnerQuit \/ ScheduleResume
       \/ \E chs \in SUBSET Channels : PollReturn(chs)
    /\ UNCHANGED own

LeaveLoop ==
    /\ tth = "loop" /\ ~Running
    /\ tth' = "clear"
    /\ UNCHANGED <<vars, upc, loop_, inTime>>

\* loop_ = nullptr under the mutex, ~EventLoop, and the thread returns.
EndThread ==
    /\ tth = "clear"
    /\ tth' = "ended" /\ loop_' = FALSE
    /\ UNCHANGED <<vars, upc, inTime>>
-----------------------------------------------------------------------------
(* The threads that use the loop once it was handed out.                   *)

Post(t) ==
    /\ upc \notin {"new", "wait"} /\ tth # "ended"
    /\ t = User => upc = "use"
    /\ QueueInLoop(t) \/ (t # User /\ Quit(t))
    /\ UNCHANGED own

\* The wakeup() of queueInLoop or quit(), which may find the EventLoop gone.
WakeLoop(t) ==
    /\ t = User => upc = "use"
    /\ Wakeup(t)
    /\ UNCHANGED own
-----------------------------------------------------------------------------
(* The thread that owns the object.                                        *)

\* startLoop(): the thread is started ...
StartLoop ==
    /\ upc = "new"
    /\ upc' = "wait" /\ tth' = "init"
    /\ UNCHANGED <<vars, loop_, inTime>>

\* ... and startLoop() waits for loop_.
StartReturns ==
    /\ upc = "wait" /\ loop_
    /\ upc' = "use"
    /\ UNCHANGED <<vars, tth, loop_, inTime>>

\* ~EventLoopThread tests loop_ without the mutex.
Destroy ==
    /\ upc = "use" /\ tpc[User] = "idle"
    /\ upc' = IF loop_ THEN "quit" ELSE "done"
    /\ UNCHANGED <<vars, tth, loop_, inTime>>

\* Mutant: the destructor sets exiting_ only.
DestroyQuitsNot ==
    /\ upc = "quit"
    /\ upc' = "join"
    /\ inTime' = (tth # "enter")
    /\ UNCHANGED <<vars, tth, loop_>>

\* loop_->quit(): the store ...
DestroyQuits ==
    /\ upc = "quit"
    /\ Quit(User)
    /\ upc' = "wakeup"
    /\ inTime' = (tth # "enter")
    /\ UNCHANGED <<tth, loop_>>

\* ... and the wakeup.
DestroyWakes ==
    /\ upc = "wakeup"
    /\ Wakeup(User)
    /\ upc' = "join"
    /\ UNCHANGED <<tth, loop_, inTime>>

\* thread_.join().
Join ==
    /\ upc = "join" /\ tth = "ended"
    /\ upc' = "done"
    /\ UNCHANGED <<vars, tth, loop_, inTime>>
-----------------------------------------------------------------------------
ThreadStep == \/ Publish \/ EnterLoop \/ LeaveLoop \/ EndThread
              \/ tth = "loop" /\ OwnerStep /\ UNCHANGED own
UserStep == StartReturns \/ DestroyQuits \/ DestroyWakes \/ Join

ThreadNext ==
    \/ InitCallback \/ Publish \/ EnterLoop \/ InLoop \/ LeaveLoop \/ EndThread
    \/ \E t \in Others : Post(t) \/ WakeLoop(t)
    \/ StartLoop \/ Destroy \/ UserStep

ThreadSpec == ThreadInit /\ [][ThreadNext]_threadVars

\* Both threads keep running and callbacks return; epoll_wait returns when
\* the eventfd is ready, and need not time out.
ThreadFairSpec ==
    /\ ThreadSpec
    /\ WF_threadVars(ThreadStep)
    /\ WF_threadVars(tth = "loop" /\ PollReturn({"wakeup"}) /\ UNCHANGED own)
    /\ WF_threadVars(UserStep)
    /\ \A t \in Others : WF_threadVars(WakeLoop(t))
-----------------------------------------------------------------------------
(* Properties.                                                             *)

\* ~EventLoopThread returns: its quit() ends the loop whatever the loop is
\* doing and whoever else posts, so that the join ends, without the poll's
\* timeout.  The exception is a quit() that comes before loop() stores
\* quit_ = false (Eventloop.cpp:73): it is forgotten.
JoinReturns == ResumesSettle => ((upc = "join" /\ inTime) ~> (upc = "done"))

=============================================================================
