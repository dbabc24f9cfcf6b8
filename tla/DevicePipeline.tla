--------------------------- MODULE DevicePipeline ---------------------------
(***************************************************************************)
(* An initialized inference pipeline in concurrent mode: the main process  *)
(* (run/impl.py), the thread that issues the commands of _run_forward, one *)
(* process per device (device.py, cpudevice.py, ttdevice.py) and, in each  *)
(* device process, one transfer thread per direction.                      *)
(*                                                                         *)
(* The processes share the command queues, the data queues between the     *)
(* devices, one shutdown event and one final barrier.  An error anywhere   *)
(* sets the event; a clean end goes through QUIT commands and the barrier. *)
(*                                                                         *)
(* Data: the inputs are numbered, a device maps input i to its result for  *)
(* input i, so that only order, loss and duplication are visible.  The     *)
(* pusher threads of the connectors are folded into the queue they feed,   *)
(* and the feeder thread and the hardware of a TT device into one actor    *)
(* (BackendFeeder models the feeder thread itself).                        *)
(***************************************************************************)
EXTENDS Integers, Sequences, FiniteSets

CONSTANTS
    N,           \* number of devices in the pipeline
    TTDevices,   \* the ones that are TTDevices, the others are CPUDevices
    InputCount,  \* input_count of the run
    Patience,    \* when the user calls shutdown(), see MayShutdown
    Faults,      \* the faults that may happen
    MaxEscapes   \* how many processes an "escape" may take out of their loop

\* "interrupt" is a keyboard interrupt while a device process waits for a
\* command, "escape" one anywhere else in its loop.
AllFaults == {"compute", "timeout", "program", "interrupt", "escape"}

ASSUME NAssumption == N \in Nat \ {0}
\* Two adjacent TTDevices would be linked by a connector that copies on the
\* host; that connector is not modelled here.
ASSUME TTDevicesAssumption ==
    /\ TTDevices \subseteq 1 .. N
    /\ \A d \in TTDevices : d + 1 \notin TTDevices
ASSUME InputCountAssumption == InputCount \in Nat
ASSUME PatienceAssumption == Patience \in {"outputs", "issued", "pushed"}
ASSUME FaultsAssumption == Faults \subseteq AllFaults
ASSUME MaxEscapesAssumption == MaxEscapes \in Nat

Dev == 1 .. N
Main == 0
Party == 0 .. N    \* the parties of the final barrier: the devices and Main

\* Directions with a transfer thread, in the order in which a device process
\* creates the threads, which is the one in which _shutdown_threads joins them.
Dirs == {"forward_input", "forward"}
DirOrder == <<"forward_input", "forward">>

Commands == {"forward_input", "forward", "intermediates", "run_forward", "quit"}

\* The places data waits at: the user's input queue, the input queue of device
\* d (for the first device only if it is a TTDevice), the output queue on the
\* last device if it is a TTDevice, the user's output queue.
InputQ == 0
OutputQ == N + 2
Places == 0 .. N + 2
Src(d) == IF d = 1 /\ d \notin TTDevices THEN InputQ ELSE d
Dst(d) == IF d = N /\ d \notin TTDevices THEN OutputQ ELSE d + 1

VARIABLES
    event,    \* shutdown_event is set
    bstate,   \* final_barrier: "filling", "open" or "broken"
    waiting,  \* the parties that have arrived at the barrier
    cmdq,     \* command_queue of each device
    dpc,      \* what each device process is doing
    xq,       \* queue of each transfer thread
    xpc,      \* what each transfer thread is doing
    data,     \* contents of each place
    progs,    \* programs scheduled on a TT device and not yet executed
    hwdead,   \* the TT devices whose feeder thread died
    lpc,      \* the loop thread: "push", "check" or "done"
    lpos,     \* the loop thread: number of commands pushed so far
    mpc,      \* the main thread
    mq,       \* the main thread: devices that were sent QUIT
    pushed    \* number of inputs the user has pushed

vars == <<event, bstate, waiting, cmdq, dpc, xq, xpc, data, progs, hwdead,
          lpc, lpos, mpc, mq, pushed>>

syncVars == <<event, bstate, waiting>>
devVars == <<cmdq, dpc>>
threadVars == <<xq, xpc>>
dataVars == <<data, progs, hwdead>>
loopVars == <<lpc, lpos>>
mainVars == <<mpc, mq, pushed>>

DevicePC == {"next", "interrupted", "forward", "abort", "drain", "join",
             "joining", "arrive", "barrier", "closing", "exiting", "ended",
             "escaped", "lost", "killed"}
\* Device.run is running.
Running == DevicePC \ {"exiting", "ended", "escaped", "lost", "killed"}
ThreadPC == {"none", "poll", "busy", "ended", "dead"}
MainPC == {"user", "quit", "arrive", "barrier", "join_loop", "join", "raised",
           "reap", "done"}

TypeOK ==
    /\ event \in BOOLEAN
    /\ bstate \in {"filling", "open", "broken"}
    /\ waiting \subseteq Party
    /\ cmdq \in [Dev -> Seq(Commands)]
    /\ dpc \in [Dev -> DevicePC]
    /\ xq \in [Dev -> [Dirs -> Seq({"transfer", "quit"})]]
    /\ xpc \in [Dev -> [Dirs -> ThreadPC]]
    /\ data \in [Places -> Seq(1 .. InputCount)]
    /\ progs \in [Dev -> Nat]
    /\ hwdead \subseteq TTDevices
    /\ lpc \in {"push", "check", "done"}
    /\ lpos \in Nat
    /\ mpc \in MainPC
    /\ mq \in 0 .. N
    /\ pushed \in 0 .. InputCount

Init ==
    /\ event = FALSE
    /\ bstate = "filling"
    /\ waiting = {}
    /\ cmdq = [d \in Dev |-> <<>>]
    /\ dpc = [d \in Dev |-> "next"]
    /\ xq = [d \in Dev |-> [r \in Dirs |-> <<>>]]
    /\ xpc = [d \in Dev |-> [r \in Dirs |-> "none"]]
    /\ data = [p \in Places |-> <<>>]
    /\ progs = [d \in Dev |-> 0]
    /\ hwdead = {}
    /\ lpc = IF InputCount = 0 THEN "done" ELSE "push"
    /\ lpos = 0
    /\ mpc = "user"
    /\ mq = 0
    /\ pushed = 0

-----------------------------------------------------------------------------
(* Shared helpers.                                                         *)

Put(d, c) == cmdq' = [cmdq EXCEPT ![d] = Append(@, c)]
Goto(d, pc) == dpc' = [dpc EXCEPT ![d] = pc]
Gone(d) == dpc[d] \in {"ended", "lost", "killed"}
Alive(d) == ~Gone(d)

\* Move the oldest item of place p to place q.
Move(p, q) ==
    /\ data[p] # <<>>
    /\ data' = [x \in Places |-> IF x = p THEN Tail(data[p])
                                 ELSE IF x = q THEN Append(data[q], Head(data[p]))
                                 ELSE data[x]]

\* final_barrier.abort(): whoever waits or will wait gets BrokenBarrierError.
AbortBarrier == bstate' = "broken"

\* Arrival at the barrier; the last party opens it.
Arrive(p) ==
    /\ waiting' = waiting \cup {p}
    /\ bstate' = IF waiting' = Party THEN "open" ELSE bstate

ErrorRaised == event

-----------------------------------------------------------------------------
(* The loop thread: _run_forward.  For every input it sends each device a  *)
(* forward_input transfer and a forward run, then the last device a        *)
(* forward transfer and every device an intermediates transfer, and looks  *)
(* for an error after each command but the first kind.                     *)

PerInput == 3 * N + 1
LoopLength == InputCount * PerInput

\* The k-th command (k >= 0) for one input, and its device.
CommandAt(k) ==
    CASE k < 2 * N -> IF k % 2 = 0 THEN "forward_input" ELSE "run_forward"
      [] k = 2 * N -> "forward"
      [] OTHER -> "intermediates"
DeviceAt(k) ==
    CASE k < 2 * N -> k \div 2 + 1
      [] k = 2 * N -> N
      [] OTHER -> k - 2 * N

\* A put on a command queue does not fail.  (If it did, _error_shutdown would
\* abort the barrier before it sets the event; that is left out.)
LoopPush ==
    LET k == lpos % PerInput IN
    /\ lpc = "push"
    /\ Put(DeviceAt(k), CommandAt(k))
    /\ lpos' = lpos + 1
    /\ lpc' = IF CommandAt(k) = "forward_input" THEN "push" ELSE "check"
    /\ UNCHANGED <<syncVars, dpc, threadVars, dataVars, mainVars>>

LoopCheck ==
    /\ lpc = "check"
    /\ lpc' = IF ErrorRaised \/ lpos = LoopLength THEN "done" ELSE "push"
    /\ UNCHANGED <<syncVars, devVars, threadVars, dataVars, lpos, mainVars>>

Loop == LoopPush \/ LoopCheck

-----------------------------------------------------------------------------
(* A device process: Device.run, get_next_command, run_next_command.       *)

\* The only transfers that move data are the ones between the user's queues
\* and a TTDevice at that end of the pipeline; the others are no-ops.
RealTransfer(d, r) ==
    /\ d \in TTDevices
    /\ \/ r = "forward_input" /\ d = 1
       \/ r = "forward" /\ d = N
From(r) == IF r = "forward_input" THEN InputQ ELSE N + 1
To(r) == IF r = "forward_input" THEN 1 ELSE OutputQ

\* A dc_transfer command starts the direction's thread if there is none, and
\* queues the transfer on it.  A thread that has no data to move only waits for
\* its quit, and is left out.
StartTransfer(d, r) ==
    /\ \/ /\ RealTransfer(d, r)
          /\ xq' = [xq EXCEPT ![d][r] = Append(@, "transfer")]
          /\ xpc' = [xpc EXCEPT ![d][r] = IF @ = "none" THEN "poll" ELSE @]
       \/ /\ ~RealTransfer(d, r)
          /\ UNCHANGED threadVars
    /\ UNCHANGED <<dpc, progs>>

\* RUN_FORWARD: a TTDevice schedules the program and returns, a CPUDevice runs
\* forward_pt, which begins by reading its input.
StartForward(d) ==
    \/ /\ d \in TTDevices
       /\ progs' = [progs EXCEPT ![d] = @ + 1]
       /\ UNCHANGED <<dpc, threadVars>>
    \/ /\ d \notin TTDevices
       /\ Goto(d, "forward")
       /\ UNCHANGED <<progs, threadVars>>

NextCommand(d) ==
    /\ dpc[d] = "next"
    /\ cmdq[d] # <<>>
    /\ cmdq' = [cmdq EXCEPT ![d] = Tail(@)]
    /\ \/ /\ Head(cmdq[d]) \in {"forward_input", "forward", "intermediates"}
          /\ StartTransfer(d, Head(cmdq[d]))
       \/ Head(cmdq[d]) = "run_forward" /\ StartForward(d)
       \/ Head(cmdq[d]) = "quit" /\ Goto(d, "join") /\ UNCHANGED <<threadVars, progs>>
    /\ UNCHANGED <<syncVars, data, hwdead, loopVars, mainVars>>

\* get_next_command timed out and the event is set: abort the barrier (the
\* queue is empty, so there is nothing to drain) and leave Device.run.
SeeShutdown(d) ==
    /\ dpc[d] = "next"
    /\ cmdq[d] = <<>>
    /\ event
    /\ AbortBarrier
    /\ Goto(d, "exiting")
    /\ UNCHANGED <<event, waiting, cmdq, threadVars, dataVars, loopVars, mainVars>>

\* An interrupt handler that forgets the event, as a mutant of Interrupt.
InterruptNoEvent(d) ==
    /\ "interrupt" \in Faults
    /\ dpc[d] = "next"
    /\ Goto(d, "interrupted")
    /\ UNCHANGED <<syncVars, cmdq, threadVars, dataVars, loopVars, mainVars>>

\* A keyboard interrupt while waiting for a command: set the event ...
Interrupt(d) ==
    /\ "interrupt" \in Faults
    /\ dpc[d] = "next"
    /\ event' = TRUE
    /\ Goto(d, "interrupted")
    /\ UNCHANGED <<bstate, waiting, cmdq, threadVars, dataVars, loopVars, mainVars>>

\* ... then abort the barrier, drain the queue and leave.
InterruptAbort(d) ==
    /\ dpc[d] = "interrupted"
    /\ AbortBarrier
    /\ cmdq' = [cmdq EXCEPT ![d] = <<>>]
    /\ Goto(d, "exiting")
    /\ UNCHANGED <<event, waiting, threadVars, dataVars, loopVars, mainVars>>

\* forward_pt: input read, result pushed, input popped.
ForwardDone(d) ==
    /\ dpc[d] = "forward"
    /\ Move(Src(d), Dst(d))
    /\ Goto(d, "next")
    /\ UNCHANGED <<syncVars, cmdq, threadVars, progs, hwdead, loopVars, mainVars>>

\* forward_pt raises: its module fails, or the read gives up.  A read from a
\* queue gives up on the event and returns no tensors, on which the module
\* fails; a read from a TTDevice also gives up after ten timeouts.  The handler
\* sets the event and re-raises into _try_run.
ForwardRaises(d) ==
    /\ dpc[d] = "forward"
    /\ \/ "compute" \in Faults /\ data[Src(d)] # <<>>
       \/ data[Src(d)] = <<>> /\ event
       \/ "timeout" \in Faults /\ data[Src(d)] = <<>> /\ d - 1 \in TTDevices
    /\ event' = TRUE
    /\ Goto(d, "abort")
    /\ UNCHANGED <<bstate, waiting, cmdq, threadVars, dataVars, loopVars, mainVars>>

\* _try_run: abort the barrier, then drain the command queue.
TryRunAbort(d) ==
    /\ dpc[d] = "abort"
    /\ event' = TRUE
    /\ AbortBarrier
    /\ Goto(d, "drain")
    /\ UNCHANGED <<waiting, cmdq, threadVars, dataVars, loopVars, mainVars>>

DrainQueue(d) ==
    /\ dpc[d] = "drain"
    /\ IF cmdq[d] = <<>>
         THEN Goto(d, "next") /\ UNCHANGED cmdq
         ELSE cmdq' = [cmdq EXCEPT ![d] = Tail(@)] /\ UNCHANGED dpc
    /\ UNCHANGED <<syncVars, threadVars, dataVars, loopVars, mainVars>>

\* The next thread that _shutdown_threads has to end.
ThreadsLeft(d) == {i \in 1 .. 2 : xpc[d][DirOrder[i]] # "none"}
NextThread(d) ==
    DirOrder[CHOOSE i \in ThreadsLeft(d) : \A j \in ThreadsLeft(d) : i <= j]

\* QUIT: _shutdown_threads sends quit to each transfer thread and joins it.
JoinThread(d) ==
    /\ dpc[d] = "join"
    /\ IF ThreadsLeft(d) = {}
         THEN Goto(d, "arrive") /\ UNCHANGED xq
         ELSE /\ xq' = [xq EXCEPT ![d][NextThread(d)] = Append(@, "quit")]
              /\ Goto(d, "joining")
    /\ UNCHANGED <<syncVars, cmdq, xpc, dataVars, loopVars, mainVars>>

\* A join that does not wait for the thread, as a mutant of ThreadJoined.
ThreadNotJoined(d) ==
    /\ dpc[d] = "joining"
    /\ xpc' = [xpc EXCEPT ![d][NextThread(d)] = "none"]
    /\ xq' = [xq EXCEPT ![d][NextThread(d)] = <<>>]
    /\ Goto(d, "join")
    /\ UNCHANGED <<syncVars, cmdq, dataVars, loopVars, mainVars>>

ThreadJoined(d) ==
    /\ dpc[d] = "joining"
    /\ xpc[d][NextThread(d)] \in {"ended", "dead"}
    /\ xpc' = [xpc EXCEPT ![d][NextThread(d)] = "none"]
    /\ xq' = [xq EXCEPT ![d][NextThread(d)] = <<>>]
    /\ Goto(d, "join")
    /\ UNCHANGED <<syncVars, cmdq, dataVars, loopVars, mainVars>>

\* QUIT: final_barrier.wait().
ArriveAtBarrier(d) ==
    /\ dpc[d] = "arrive"
    /\ bstate # "broken"
    /\ Arrive(d)
    /\ Goto(d, "barrier")
    /\ UNCHANGED <<event, cmdq, threadVars, dataVars, loopVars, mainVars>>

\* A device that does not wait at the barrier, as a mutant of PassBarrier.
PassBarrierAlone(d) ==
    /\ dpc[d] = "barrier"
    /\ bstate # "broken"
    /\ Goto(d, "closing")
    /\ UNCHANGED <<syncVars, cmdq, threadVars, dataVars, loopVars, mainVars>>

PassBarrier(d) ==
    /\ dpc[d] = "barrier"
    /\ bstate = "open"
    /\ Goto(d, "closing")
    /\ UNCHANGED <<syncVars, cmdq, threadVars, dataVars, loopVars, mainVars>>

\* BrokenBarrierError reaches the handler of Device.run: event, abort,
\* shutdown_device.
BarrierBroken(d) ==
    /\ dpc[d] \in {"arrive", "barrier"}
    /\ bstate = "broken"
    /\ event' = TRUE
    /\ AbortBarrier
    /\ Goto(d, "closing")
    /\ UNCHANGED <<waiting, cmdq, threadVars, dataVars, loopVars, mainVars>>

\* shutdown_device(), and the end of the process.
CloseDevice(d) ==
    /\ dpc[d] = "closing"
    /\ Goto(d, "ended")
    /\ UNCHANGED <<syncVars, cmdq, threadVars, dataVars, loopVars, mainVars>>

\* An exit that waits for no thread, as a mutant of ThreadsEnded.
ThreadsAbandoned(d) == TRUE

\* The threads of the process that keep it alive: the transfer threads, which
\* see the event, and the feeder thread of a TTDevice, which is given no event.
\* Only the quit of shutdown_device ends it, or its own death.
ThreadsEnded(d) ==
    /\ \A r \in Dirs : xpc[d][r] \notin {"poll", "busy"}
    /\ d \in TTDevices => d \in hwdead

\* After Device.run has been left without QUIT the process lives on until its
\* threads have ended, then the atexit handler shuts the device down.
ExitProcess(d) ==
    /\ dpc[d] \in {"exiting", "escaped"}
    /\ ThreadsEnded(d)
    /\ Goto(d, IF dpc[d] = "exiting" THEN "ended" ELSE "lost")
    /\ UNCHANGED <<syncVars, cmdq, threadVars, dataVars, loopVars, mainVars>>

\* A keyboard interrupt anywhere else in Device.run.  Neither _try_run nor
\* Device.run catches it (they catch Exception): the loop is left, the event is
\* not set and the barrier not aborted.  A wait at the barrier is taken back.
\* An interrupt of shutdown_device may come before or after the feeder's quit.
Escape(d) ==
    /\ "escape" \in Faults
    /\ Cardinality({e \in Dev : dpc[e] \in {"escaped", "lost"}}) < MaxEscapes
    /\ dpc[d] \in Running
    /\ waiting' = IF bstate = "filling" THEN waiting \ {d} ELSE waiting
    /\ Goto(d, "escaped") \/ (dpc[d] = "closing" /\ Goto(d, "lost"))
    /\ UNCHANGED <<event, bstate, cmdq, threadVars, dataVars, loopVars, mainVars>>

Device(d) ==
    \/ NextCommand(d) \/ SeeShutdown(d) \/ InterruptAbort(d)
    \/ ForwardDone(d) \/ ForwardRaises(d) \/ TryRunAbort(d) \/ DrainQueue(d)
    \/ JoinThread(d) \/ ThreadJoined(d)
    \/ ArriveAtBarrier(d) \/ PassBarrier(d) \/ BarrierBroken(d)
    \/ CloseDevice(d) \/ ExitProcess(d)

-----------------------------------------------------------------------------
(* A transfer thread: dc_transfer_thread.                                  *)

ThreadGet(d, r) ==
    /\ Alive(d)
    /\ xpc[d][r] = "poll"
    /\ xq[d][r] # <<>>
    /\ xq' = [xq EXCEPT ![d][r] = Tail(@)]
    /\ xpc' = [xpc EXCEPT ![d][r] =
                  IF Head(xq[d][r]) = "quit" THEN "ended" ELSE "busy"]
    /\ UNCHANGED <<syncVars, devVars, dataVars, loopVars, mainVars>>

\* A thread that never looks at the event, as a mutant of ThreadSeesShutdown.
ThreadIgnoresShutdown(d, r) == FALSE

ThreadSeesShutdown(d, r) ==
    /\ Alive(d)
    /\ xpc[d][r] = "poll"
    /\ xq[d][r] = <<>>
    /\ event
    /\ xpc' = [xpc EXCEPT ![d][r] = "ended"]
    /\ UNCHANGED <<syncVars, devVars, xq, dataVars, loopVars, mainVars>>

\* transfer(): one item from the source to the destination.
Transfer(d, r) ==
    /\ Alive(d)
    /\ xpc[d][r] = "busy"
    /\ Move(From(r), To(r))
    /\ xpc' = [xpc EXCEPT ![d][r] = "poll"]
    /\ UNCHANGED <<syncVars, devVars, xq, progs, hwdead, loopVars, mainVars>>

\* The read of the transfer gives up.  From the user's queue it does so on the
\* event, and no data is passed on; from the device it does so on the event or
\* after ten timeouts, and then it sets the event and raises, which ends the
\* thread.
TransferGivesUp(d, r) ==
    /\ Alive(d)
    /\ xpc[d][r] = "busy"
    /\ data[From(r)] = <<>>
    /\ \/ /\ r = "forward_input"
          /\ event
          /\ xpc' = [xpc EXCEPT ![d][r] = "poll"]
          /\ UNCHANGED event
       \/ /\ r = "forward"
          /\ event \/ "timeout" \in Faults
          /\ xpc' = [xpc EXCEPT ![d][r] = "dead"]
          /\ event' = TRUE
    /\ UNCHANGED <<bstate, waiting, devVars, xq, dataVars, loopVars, mainVars>>

Thread(d, r) ==
    \/ ThreadGet(d, r) \/ ThreadSeesShutdown(d, r)
    \/ Transfer(d, r) \/ TransferGivesUp(d, r)

-----------------------------------------------------------------------------
(* A TT device (external): its feeder thread and the hardware.             *)

RunProgram(d) ==
    /\ Alive(d)
    /\ d \in TTDevices \ hwdead
    /\ progs[d] > 0
    /\ Move(Src(d), Dst(d))
    /\ progs' = [progs EXCEPT ![d] = @ - 1]
    /\ UNCHANGED <<syncVars, devVars, threadVars, hwdead, loopVars, mainVars>>

\* run_program fails: the feeder thread dies without telling anybody.
ProgramFails(d) ==
    /\ "program" \in Faults
    /\ Alive(d)
    /\ d \in TTDevices \ hwdead
    /\ progs[d] > 0
    /\ hwdead' = hwdead \cup {d}
    /\ UNCHANGED <<syncVars, devVars, threadVars, data, progs, loopVars, mainVars>>

-----------------------------------------------------------------------------
(* The main thread: the user, then _shutdown.                              *)

PushInput ==
    /\ mpc = "user"
    /\ pushed < InputCount
    /\ pushed' = pushed + 1
    /\ data' = [data EXCEPT ![InputQ] = Append(@, pushed + 1)]
    /\ UNCHANGED <<syncVars, devVars, threadVars, progs, hwdead, loopVars, mpc, mq>>

\* The user calls shutdown() when an error was raised, or once all outputs have
\* arrived ("outputs"), or once all inputs are in and all commands were issued
\* ("issued", what run_forward followed by shutdown does), or already when all
\* inputs are in ("pushed", what run_inference followed by shutdown does).
MayShutdown ==
    \/ ErrorRaised
    \/ /\ pushed = InputCount
       /\ Patience = "outputs" => Len(data[OutputQ]) = InputCount
       /\ Patience = "issued" => lpc = "done"

ShutdownCalled ==
    /\ mpc = "user"
    /\ MayShutdown
    /\ mpc' = IF ErrorRaised THEN "reap" ELSE "quit"
    /\ UNCHANGED <<syncVars, devVars, threadVars, dataVars, loopVars, mq, pushed>>

\* QUIT to every device, one after the other.
SendQuit ==
    /\ mpc = "quit"
    /\ IF mq = N
         THEN mpc' = "arrive" /\ UNCHANGED <<mq, cmdq>>
         ELSE mq' = mq + 1 /\ Put(mq + 1, "quit") /\ UNCHANGED mpc
    /\ UNCHANGED <<syncVars, dpc, threadVars, dataVars, loopVars, pushed>>

MainArrives ==
    /\ mpc = "arrive"
    /\ bstate # "broken"
    /\ Arrive(Main)
    /\ mpc' = "barrier"
    /\ UNCHANGED <<event, devVars, threadVars, dataVars, loopVars, mq, pushed>>

MainPasses ==
    /\ mpc = "barrier"
    /\ bstate = "open"
    /\ mpc' = "join_loop"
    /\ UNCHANGED <<syncVars, devVars, threadVars, dataVars, loopVars, mq, pushed>>

\* BrokenBarrierError leaves _shutdown; the exit handler calls it once more.
MainBroken ==
    /\ mpc \in {"arrive", "barrier"}
    /\ bstate = "broken"
    /\ mpc' = "raised"
    /\ UNCHANGED <<syncVars, devVars, threadVars, dataVars, loopVars, mq, pushed>>

ExitHandler ==
    /\ mpc = "raised"
    /\ mpc' = IF ErrorRaised THEN "reap" ELSE "quit"
    /\ UNCHANGED <<syncVars, devVars, threadVars, dataVars, loopVars, mq, pushed>>

\* loop_thread.join(), then the second look for an error.
LoopJoined ==
    /\ mpc = "join_loop"
    /\ lpc = "done"
    /\ mpc' = IF ErrorRaised THEN "reap" ELSE "join"
    /\ UNCHANGED <<syncVars, devVars, threadVars, dataVars, loopVars, mq, pushed>>

ProcessesJoined ==
    /\ mpc = "join"
    /\ \A d \in Dev : Gone(d)
    /\ mpc' = "done"
    /\ UNCHANGED <<syncVars, devVars, threadVars, dataVars, loopVars, mq, pushed>>

\* Wait up to two seconds for the processes to end, then terminate them.
Reap ==
    /\ mpc = "reap"
    /\ dpc' = [d \in Dev |-> IF Gone(d) THEN dpc[d] ELSE "killed"]
    /\ mpc' = "done"
    /\ UNCHANGED <<syncVars, cmdq, threadVars, dataVars, loopVars, mq, pushed>>

Shutdown ==
    \/ SendQuit \/ MainArrives \/ MainPasses \/ MainBroken \/ ExitHandler
    \/ LoopJoined \/ ProcessesJoined \/ Reap

-----------------------------------------------------------------------------
Next ==
    \/ Loop
    \/ \E d \in Dev : \/ Device(d) \/ Interrupt(d) \/ Escape(d)
                      \/ RunProgram(d) \/ ProgramFails(d)
                      \/ \E r \in Dirs : Thread(d, r)
    \/ PushInput \/ ShutdownCalled \/ Shutdown

\* Every process and thread that can take a step takes one: they are scheduled
\* by the operating system and poll their queues with short timeouts.  The user
\* pushes the inputs that were announced, but need not call shutdown().  A run
\* issues so many commands and no more, so that nobody steps for ever and a
\* fair Work is as good as a fair process each.
Work ==
    \/ Loop \/ PushInput \/ Shutdown
    \/ \E d \in Dev : Device(d) \/ RunProgram(d) \/ \E r \in Dirs : Thread(d, r)
Fairness == WF_vars(Work)

Spec == Init /\ [][Next]_vars /\ Fairness

-----------------------------------------------------------------------------
(* Properties.                                                             *)

\* The outputs are the results for inputs 1, 2, ... in that order: none is
\* lost, repeated or overtaken on the way through the devices' queues.
OutputsInOrder ==
    \A k \in 1 .. Len(data[OutputQ]) : data[OutputQ][k] = k

\* While no error was raised, a device is only closed (shutdown_device) when
\* every device has ended its transfer threads and has come to the final
\* barrier: no one can still be reading from a closed device.  (A process that
\* an interrupt took out of its loop closes its device by itself.)
NoEarlyClose ==
    ~event => \A d \in Dev : dpc[d] \in {"closing", "ended"} =>
        \A e \in Dev :
            /\ dpc[e] \in {"barrier", "closing", "ended", "escaped", "lost"}
            /\ \A r \in Dirs : xpc[e][r] = "none"

\* A shutdown() that meets no error loses nothing: when it returns every input
\* has its output in the output queue, although shutdown() was called as soon
\* as the commands had been issued.
CleanShutdownComplete ==
    mpc = "done" /\ ~event => Len(data[OutputQ]) = InputCount

\* Both: every input has its output, once and in order, when a clean shutdown()
\* returns.
OutputsDelivered == OutputsInOrder /\ CleanShutdownComplete

\* Nobody is left at a broken barrier without an error for the others to see:
\* the event is set before the barrier is aborted.
BrokenMeansEvent == bstate = "broken" => event

\* The inductive invariant behind NoEarlyClose and BrokenMeansEvent.  A party
\* counts as arrived until it has left; the barrier opens when all have; a
\* device reaches the barrier without live transfer threads; and the ways to
\* end other than through the open barrier or by an escape come after the event.
ArrivedOnlyAtBarrier ==
    \A d \in Dev \cap waiting :
        /\ dpc[d] \in {"barrier", "closing", "ended", "escaped", "lost", "killed"}
        /\ dpc[d] \in {"escaped", "lost"} => \A r \in Dirs : xpc[d][r] = "none"
OpenMeansAll ==
    /\ bstate = "open" => waiting = Party
    /\ bstate = "filling" => waiting # Party
ThreadsEndedFirst ==
    \A d \in Dev : dpc[d] \in {"arrive", "barrier", "closing"} =>
        \A r \in Dirs : xpc[d][r] = "none"
ClosedMeansAll ==
    \A d \in Dev : dpc[d] \in {"closing", "ended"} /\ ~event =>
        /\ waiting = Party
        /\ \A r \in Dirs : xpc[d][r] = "none"
ForcedEndsAfterEvent ==
    /\ \A d \in Dev : dpc[d] \in {"interrupted", "exiting", "killed"} => event
    /\ mpc = "reap" => event
PipelineInv ==
    /\ TypeOK
    /\ ArrivedOnlyAtBarrier
    /\ OpenMeansAll
    /\ ThreadsEndedFirst
    /\ ClosedMeansAll
    /\ ForcedEndsAfterEvent
    /\ BrokenMeansEvent

\* The process of a TTDevice that has left its loop without QUIT: only its
\* feeder thread is left, and that waits for a quit that nobody sends.
Lingers(d) ==
    /\ d \in TTDevices \ hwdead /\ dpc[d] \in {"exiting", "escaped"}
    /\ \A r \in Dirs : xpc[d][r] \notin {"poll", "busy"}

\* The loop thread has ended, and so has every process, but that a TTDevice's
\* may linger until shutdown() terminates it.
AtRest ==
    /\ lpc = "done"
    /\ mpc \in {"user", "done"}
    /\ \A d \in Dev : Gone(d) \/ (mpc = "user" /\ Lingers(d))

\* An interrupt took a process out of its loop, and the main process waits for
\* it at the final barrier or joins it.
LeftWaiting ==
    /\ mpc \in {"barrier", "join"}
    /\ \E d \in Dev : dpc[d] \in {"escaped", "lost"}

\* No order of QUIT commands, errors, timeouts and interrupts of a wait for a
\* command leaves the main process at the final barrier or in a join once
\* shutdown() is called, nor, once it is called or an error is raised, the loop
\* thread or a device process at work.  Only an interrupt elsewhere in a device
\* process can leave shutdown() waiting for ever.  (An event stays set and
\* shutdown() stays called: they lead to one or the other, and for good.)
ShutdownReturns ==
    <>[](event \/ mpc # "user" => AtRest \/ LeftWaiting)

\* What get_next_command says of the event: "got a signal to shutdown and end
\* the process".  The process of a TTDevice does not end by itself.
EventEndsProcesses == event ~> \A d \in Dev : Gone(d)
=============================================================================
