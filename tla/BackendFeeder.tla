--------------------------- MODULE BackendFeeder ---------------------------
(***************************************************************************)
(* The feeder thread of a BackendAPI object (pybuda/backend.py).           *)
(*                                                                         *)
(* The device's own thread (the "caller") schedules programs, waits for    *)
(* them with sync() and closes the device with shutdown().  In concurrent  *)
(* mode a feeder thread takes the scheduled commands from an unbounded     *)
(* FIFO queue and hands each one to the device with run_program().  After  *)
(* every command the caller also queues a "token", so that an empty queue  *)
(* means that the command before it was handed over, not merely taken.     *)
(*                                                                         *)
(* Programs are numbered in the order in which they are scheduled.  The    *)
(* device itself is external: it completes the programs it was given in    *)
(* order, and wait_for_idle() returns when none is outstanding.            *)
(***************************************************************************)
EXTENDS Integers, Sequences

CONSTANT MaxPrograms  \* bound on the programs the caller schedules

ASSUME MaxProgramsAssumption == MaxPrograms \in Nat

VARIABLES
    shared,     \* is shutdown_event given (TTDevice passes None)?
    queue,      \* feeder_thread_queue
    fpc,        \* feeder: "none" (no thread was asked for), "poll", "run",
                \* "ended" (by quit), "stopped" (by the event, after aborting
                \* the final barrier) or "failed" (by an exception)
    fcmd,       \* the command the feeder took, while fpc = "run"
    cpc,        \* caller: "idle", "token", "sync", "wait", "raised", "join", "closed"
    scheduled,  \* number of programs scheduled so far
    submitted,  \* number of programs handed to the device by run_program
    completed,  \* number of programs the device has finished
    shutdown_event  \* set by anybody

feeder_vars == <<shared, queue, fpc, fcmd, cpc, scheduled, submitted, completed, shutdown_event>>

\* The two queue items that are not programs.
Token == 0
Quit == -1

QueueItems == Int

FeederTypeOK ==
    /\ shared \in BOOLEAN
    /\ queue \in Seq(QueueItems)
    /\ fpc \in {"none", "poll", "run", "ended", "stopped", "failed"}
    /\ fcmd \in QueueItems
    /\ cpc \in {"idle", "token", "sync", "wait", "raised", "join", "closed"}
    /\ scheduled \in Nat /\ submitted \in Nat /\ completed \in Nat
    /\ shutdown_event \in BOOLEAN

FeederInit ==
    /\ shared \in BOOLEAN
    /\ queue = <<>>
    /\ fpc \in {"none", "poll"}
    /\ fcmd = Token
    /\ cpc = "idle"
    /\ scheduled = 0 /\ submitted = 0 /\ completed = 0
    /\ shutdown_event = FALSE

\* Is the shutdown event one this object can see?
SeesShutdown == shared /\ shutdown_event

-----------------------------------------------------------------------------
(* The caller: the thread that runs the device's commands.                 *)

\* _schedule_feeder_cmd, first put: the command itself.
ScheduleCmd ==
    /\ cpc = "idle"
    /\ fpc # "none"
    /\ scheduled < MaxPrograms
    /\ scheduled' = scheduled + 1
    /\ queue' = Append(queue, scheduled + 1)
    /\ cpc' = "token"
    /\ UNCHANGED <<shared, fpc, fcmd, submitted, completed, shutdown_event>>

\* A caller that never queued a token, as a mutant of ScheduleToken.
ScheduleNoToken ==
    /\ cpc = "token"
    /\ cpc' = "idle"
    /\ UNCHANGED <<shared, queue, fpc, fcmd, scheduled, submitted, completed, shutdown_event>>

\* _schedule_feeder_cmd, second put: the token.
ScheduleToken ==
    /\ cpc = "token"
    /\ queue' = Append(queue, Token)
    /\ cpc' = "idle"
    /\ UNCHANGED <<shared, fpc, fcmd, scheduled, submitted, completed, shutdown_event>>

\* Without a feeder thread schedule_run_* calls run_program itself; a failed
\* call escapes to Device._try_run, which sets the shutdown event.
ScheduleDirect ==
    /\ cpc = "idle"
    /\ fpc = "none"
    /\ scheduled < MaxPrograms
    /\ scheduled' = scheduled + 1
    /\ \/ submitted' = submitted + 1 /\ UNCHANGED <<cpc, shutdown_event>>
       \/ cpc' = "raised" /\ shutdown_event' = TRUE /\ UNCHANGED submitted
    /\ UNCHANGED <<shared, queue, fpc, fcmd, completed>>

\* sync(), entered from the SYNC command or from a parameter checkpoint.
SyncBegin ==
    /\ cpc = "idle"
    /\ cpc' = "sync"
    /\ UNCHANGED <<shared, queue, fpc, fcmd, scheduled, submitted, completed, shutdown_event>>

\* The polling loop found the queue empty.
SyncQueueEmpty ==
    /\ cpc = "sync"
    /\ queue = <<>>
    /\ cpc' = "wait"
    /\ UNCHANGED <<shared, queue, fpc, fcmd, scheduled, submitted, completed, shutdown_event>>

\* The polling loop found commands, slept, and then saw the shutdown event.
SyncAbandoned ==
    /\ cpc = "sync"
    /\ queue # <<>>
    /\ SeesShutdown
    /\ cpc' = "idle"
    /\ UNCHANGED <<shared, queue, fpc, fcmd, scheduled, submitted, completed, shutdown_event>>

\* wait_for_idle() returned Success: the device has nothing outstanding.
SyncDone ==
    /\ cpc = "wait"
    /\ completed = submitted
    /\ cpc' = "idle"
    /\ UNCHANGED <<shared, queue, fpc, fcmd, scheduled, submitted, completed, shutdown_event>>

\* wait_for_idle() failed: the assertion escapes to Device.run, which sets the
\* shutdown event before it shuts the device down.
SyncFails ==
    /\ cpc = "wait"
    /\ cpc' = "raised"
    /\ shutdown_event' = TRUE
    /\ UNCHANGED <<shared, queue, fpc, fcmd, scheduled, submitted, completed>>

\* A shutdown that only joins, as a mutant of ShutdownPut.
ShutdownWithoutQuit ==
    /\ cpc \in {"idle", "raised"}
    /\ fpc # "none"
    /\ cpc' = "join"
    /\ UNCHANGED <<shared, queue, fpc, fcmd, scheduled, submitted, completed, shutdown_event>>

\* shutdown(): poison pill for the feeder.
ShutdownPut ==
    /\ cpc \in {"idle", "raised"}
    /\ fpc # "none"
    /\ queue' = Append(queue, Quit)
    /\ cpc' = "join"
    /\ UNCHANGED <<shared, fpc, fcmd, scheduled, submitted, completed, shutdown_event>>

\* A shutdown that does not join the feeder, as a mutant of ShutdownJoin.
ShutdownNoJoin ==
    /\ cpc = "join"
    /\ cpc' = "closed"
    /\ UNCHANGED <<shared, queue, fpc, fcmd, scheduled, submitted, completed, shutdown_event>>

\* shutdown(): feeder_thread.join() returned, be_api.finish() is called.
ShutdownJoin ==
    /\ cpc = "join"
    /\ fpc \in {"ended", "stopped", "failed"}
    /\ cpc' = "closed"
    /\ UNCHANGED <<shared, queue, fpc, fcmd, scheduled, submitted, completed, shutdown_event>>

\* shutdown() without a feeder thread only finishes the backend.
ShutdownDirect ==
    /\ cpc \in {"idle", "raised"}
    /\ fpc = "none"
    /\ cpc' = "closed"
    /\ UNCHANGED <<shared, queue, fpc, fcmd, scheduled, submitted, completed, shutdown_event>>

-----------------------------------------------------------------------------
(* The feeder thread.                                                      *)

\* cmdqueue.get() returned; a token is skipped, quit ends the loop.
FeederGet ==
    /\ fpc = "poll"
    /\ queue # <<>>
    /\ queue' = Tail(queue)
    /\ \/ /\ Head(queue) = Token
          /\ UNCHANGED <<fpc, fcmd>>
       \/ /\ Head(queue) = Quit
          /\ fpc' = "ended"
          /\ UNCHANGED fcmd
       \/ /\ Head(queue) \notin {Token, Quit}
          /\ fpc' = "run"
          /\ fcmd' = Head(queue)
    /\ UNCHANGED <<shared, cpc, scheduled, submitted, completed, shutdown_event>>

\* cmdqueue.get() timed out and the shutdown event is set.
FeederSeesShutdown ==
    /\ fpc = "poll"
    /\ queue = <<>>
    /\ SeesShutdown
    /\ fpc' = "stopped"
    /\ UNCHANGED <<shared, queue, fcmd, cpc, scheduled, submitted, completed, shutdown_event>>

\* run_program() returned Success.
FeederRun ==
    /\ fpc = "run"
    /\ submitted' = submitted + 1
    /\ fpc' = "poll"
    /\ UNCHANGED <<shared, queue, fcmd, cpc, scheduled, completed, shutdown_event>>

\* run_program() failed: the assertion ends the thread, nobody is told.
FeederFails ==
    /\ fpc = "run"
    /\ fpc' = "failed"
    /\ UNCHANGED <<shared, queue, fcmd, cpc, scheduled, submitted, completed, shutdown_event>>

-----------------------------------------------------------------------------
(* The environment.                                                        *)

\* The device finishes the oldest program it was given.
DeviceCompletes ==
    /\ completed < submitted
    /\ completed' = completed + 1
    /\ UNCHANGED <<shared, queue, fpc, fcmd, cpc, scheduled, submitted, shutdown_event>>

\* Another process sets the shutdown event.
OthersShutdown ==
    /\ ~shutdown_event
    /\ shutdown_event' = TRUE
    /\ UNCHANGED <<shared, queue, fpc, fcmd, cpc, scheduled, submitted, completed>>

Caller ==
    \/ ScheduleCmd \/ ScheduleToken \/ ScheduleDirect
    \/ SyncBegin \/ SyncQueueEmpty \/ SyncAbandoned \/ SyncDone \/ SyncFails
    \/ ShutdownPut \/ ShutdownJoin \/ ShutdownDirect

Feeder == FeederGet \/ FeederSeesShutdown \/ FeederRun \/ FeederFails

FeederNext == Caller \/ Feeder \/ DeviceCompletes \/ OthersShutdown

\* Every thread that can run does run; the caller need not call anything more.
FeederFairness ==
    /\ WF_feeder_vars(Feeder)
    /\ WF_feeder_vars(DeviceCompletes)
    /\ WF_feeder_vars(ScheduleToken)
    /\ WF_feeder_vars(SyncQueueEmpty \/ SyncAbandoned \/ SyncDone \/ SyncFails)
    /\ WF_feeder_vars(ShutdownJoin)

FeederSpec == FeederInit /\ [][FeederNext]_feeder_vars /\ FeederFairness

-----------------------------------------------------------------------------
(* Properties.                                                             *)

\* sync() only returns by way of wait_for_idle when every program that was
\* scheduled before it has completed on the device, even if the feeder thread
\* died: its token then stays in the queue.
SyncIsComplete ==
    [][cpc = "wait" /\ cpc' = "idle" => completed = scheduled]_feeder_vars

\* The commands reach the device in the order in which they were scheduled:
\* the one the feeder holds is the next one.
FeederInOrder ==
    fpc = "run" => fcmd = submitted + 1

\* When the device is closed the feeder no longer runs programs, and unless a
\* program failed or the shutdown event ended the thread, all of them were
\* handed over.
CloseAfterLast ==
    cpc = "closed" =>
        /\ fpc \in {"none", "ended", "stopped", "failed"}
        /\ fpc = "ended" => submitted = scheduled

\* Number of items the caller has put into the queue so far: two per program
\* (one while its token is still to come), and the poison pill.
Puts ==
    IF cpc = "token" THEN 2 * scheduled - 1
    ELSE IF cpc \in {"join", "closed"} THEN 2 * scheduled + 1
    ELSE 2 * scheduled

\* Number of items the feeder has taken.
Gets == Puts - Len(queue)

\* The k-th queued item is the one that was put at place Gets + k: programs at
\* the odd places, tokens at the even ones, the poison pill at the very end.
Placed(k) ==
    \/ /\ queue[k] \in 1 .. scheduled
       /\ Gets + k = 2 * queue[k] - 1
    \/ /\ queue[k] = Token
       /\ \E p \in 1 .. scheduled : Gets + k = 2 * p
    \/ /\ queue[k] = Quit
       /\ cpc \in {"join", "closed"}
       /\ Gets + k = Puts

QueueLayout == \A k \in 1 .. Len(queue) : Placed(k)

\* How far the feeder has got agrees with what it has handed over.
FeederProgress ==
    /\ fpc \in {"poll", "stopped"} => Gets \in {2 * submitted - 1, 2 * submitted}
    /\ fpc \in {"run", "failed"} => Gets = 2 * submitted + 1 /\ fcmd = submitted + 1
    /\ fpc = "ended" => submitted = scheduled /\ cpc \in {"join", "closed"}

\* Without a feeder thread nothing is ever queued or outstanding.
DirectProgress ==
    fpc = "none" =>
        /\ queue = <<>>
        /\ cpc \notin {"token", "join"}
        /\ cpc \in {"idle", "sync", "wait"} => submitted = scheduled

\* The inductive invariant of the feeder.
FeederInv ==
    /\ FeederTypeOK
    /\ completed <= submitted
    /\ fpc # "none" => QueueLayout
    /\ FeederProgress
    /\ DirectProgress
    /\ cpc = "token" => scheduled > 0
    /\ cpc = "wait" => submitted = scheduled
    /\ cpc = "closed" => fpc \in {"none", "ended", "stopped", "failed"}

\* sync() returns (or raises) unless the feeder thread died of an exception: then the queue
\* never empties and the polling loop never ends.  shutdown() always returns, also when the
\* feeder is already gone.
BlockingCallsReturn ==
    /\ cpc \in {"sync", "wait"} ~> (cpc \notin {"sync", "wait"} \/ fpc = "failed")
    /\ cpc = "join" ~> cpc = "closed"
=============================================================================
