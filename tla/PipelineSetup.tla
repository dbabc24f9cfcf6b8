--------------------------- MODULE PipelineSetup ---------------------------
(***************************************************************************)
(* The commands a program sends to the device processes, and the pusher    *)
(* threads of the device connectors (run/impl.py, device.py,               *)
(* device_connector.py).  The calling thread compiles the devices one      *)
(* after the other, hands the descriptors of each device's queues to the   *)
(* connectors that need them, runs inputs, syncs and shuts down.  A        *)
(* command that has an answer is sent through the device's command queue   *)
(* and its answer read from the device's one response queue, which the     *)
(* thread of run_training reads too and can take the other's answer from.  *)
(*                                                                         *)
(* A tensor is its number, a descriptor the device and the queue it        *)
(* describes.  DevicePipeline has the processes, the barrier and the       *)
(* transfer threads in detail; here they are kept as far as they order     *)
(* the pushes.                                                             *)
(***************************************************************************)
EXTENDS Integers, Sequences, SequencesExt

CONSTANTS
    N,              \* the number of devices of the pipeline
    Pipelines,      \* the sets of devices that may be TTDevices
    Modes,          \* the values of training: a subset of BOOLEAN
    InputCount,     \* inputs pushed before the run
    PushDepth,      \* maxsize of a pusher thread's queue, 3 in the code
    Faults,         \* what may fail: a subset of {"compile", "command", "push"}
    Checkpointing   \* whether the training thread reads checkpoints meanwhile

Dev == 1 .. N

\* Two adjacent TTDevices need the pushing half of a connector in a process
\* that never gets its descriptors; the README says more.
ASSUME PipelinesAssumption ==
    /\ N \in Nat \ {0} /\ InputCount \in Nat /\ PushDepth \in Nat
    /\ Modes \subseteq BOOLEAN /\ Checkpointing \in BOOLEAN
    /\ \A T \in Pipelines : T \subseteq Dev /\ \A d \in T : d + 1 \notin T

VARIABLES
    tt,        \* the TTDevices; the others are CPUDevices
    training,
    at,        \* for each calling thread, the step of its script it is at
    waiting,   \* whether it waits for the answer to that step
    last,      \* the last answer it got
    phase,     \* where the main thread's shutdown is
    synced,    \* whether sync() has returned
    cmdq,      \* command_queue of each device
    resp,      \* _command_queue_resp of each device
    dpc,       \* where each device process is
    compiled,  \* the devices that are compiled
    conn,      \* the descriptors each process has given its connectors
    progs,     \* programs scheduled on each TTDevice and not yet run
    moves,     \* transfers queued on a device's transfer thread
    pq,        \* pusher_thread_queue of the connector a device pushes through
    ppc,       \* its pusher thread: polling, pushing, ended or dead
    held,      \* the tensor the pusher thread has in hand
    data,      \* tensors waiting at each device's input; N + 1 is the output
    buf,       \* _input_buffer of a first device that is a TTDevice
    out,       \* the output queue the user reads
    event      \* the shutdown event; whoever sets it aborts the barrier

clientVars == <<at, waiting, last, phase, synced>>
deviceVars == <<dpc, compiled, conn>>
flowVars == <<progs, moves, data, buf, out>>
pushVars == <<pq, ppc, held>>
vars == <<tt, training, clientVars, cmdq, resp, deviceVars, flowVars, pushVars, event>>

None == [dev |-> 0, queue |-> "none"]
Failure == [dev |-> 0, queue |-> "exception"]
Quit == -1       \* the pusher's "quit"
NoTensors == 0   \* the empty list a read returns when the event is set

\* The device that pushes through a DirectPusherDeviceConnector, the
\* direction its descriptors are set under, and the device it pushes to.
Pushers == {d \in Dev : IF d \in tt THEN d = 1 ELSE d + 1 \in tt}
PushDirection(d) == IF d \in tt THEN "forward_in_push" ELSE "forward_out"
Target(d) == IF d \in tt THEN d ELSE d + 1

-----------------------------------------------------------------------------
(* What the threads send: one step per _run_command.                       *)

Request(d, c, q) == <<[dev |-> d, cmd |-> c, name |-> q, reply |-> TRUE]>>
Order(d, c, q) == <<[dev |-> d, cmd |-> c, name |-> q, reply |-> FALSE]>>
If(b, s) == IF b THEN s ELSE <<>>
EachDevice(Op(_)) == FlattenSeq([d \in Dev |-> Op(d)])

CompileDevices == EachDevice(LAMBDA d : Request(d, "compile", "none"))

\* The set_queues does not wait for the answer.
PassUnawaited(from, queue, to, direction) ==
    Order(from, "get_queues", queue) \o Order(to, "set_queues", direction)

\* One get_queues on the device that owns the queues, and the set_queues that
\* takes the answer to the process whose connector uses them.
Pass(from, queue, to, direction) ==
    Request(from, "get_queues", queue) \o Order(to, "set_queues", direction)

PassDescriptors ==
    EachDevice(LAMBDA d :
        If(d + 1 \in tt, Pass(d + 1, "input", d, "forward_out"))
        \o If(d < N /\ d \in tt, Pass(d, "output", d + 1, "forward_in"))
        \o If(training /\ d < N /\ d \in tt, Pass(d, "bw_input", d + 1, "backward_out_push"))
        \o If(training /\ d + 1 \in tt, Pass(d + 1, "bw_output", d, "backward_in")))
    \o If(1 \in tt, Pass(1, "input", 1, "forward_in_push"))
    \o If(training /\ N \in tt, Pass(N, "target", N, "target_in_push"))
    \o If(training /\ 1 \in tt, Pass(1, "bw_output", 1, "backward_out"))
    \o If(N \in tt, Pass(N, "output", N, "forward_out_pop"))

\* One input of _run_forward, without the looping of microbatches.  The
\* training loop's commands are TrainingLoop's.
RunForward ==
    EachDevice(LAMBDA d : Order(d, "dc_transfer", "forward_input")
                          \o Order(d, "run_forward", "none"))
    \o Order(N, "dc_transfer", "forward")

Setup == CompileDevices \o PassDescriptors
Run == If(~training, FlattenSeq([i \in 1 .. InputCount |-> RunForward]))
Sync == EachDevice(LAMBDA d : Request(d, "sync", "none"))
Quits == EachDevice(LAMBDA d : Order(d, "quit", "none"))
Checkpoint == EachDevice(LAMBDA d : Request(d, "checkpoint", "none"))

Threads == {"main", "loop"}
Script(t) ==
    IF t = "main" THEN Setup \o Run \o Sync \o Quits
    ELSE If(Checkpointing /\ training, Checkpoint)
SyncAt == Len(Setup \o Run) + 1
QuitAt == SyncAt + N

-----------------------------------------------------------------------------
(* The calling threads.                                                    *)

Init ==
    /\ tt \in Pipelines /\ training \in Modes
    /\ at = [t \in Threads |-> 1]
    /\ waiting = [t \in Threads |-> FALSE]
    /\ last = [t \in Threads |-> None]
    /\ phase = "running" /\ synced = FALSE
    /\ cmdq = [d \in Dev |-> <<>>] /\ resp = [d \in Dev |-> <<>>]
    /\ dpc = [d \in Dev |-> "next"]
    /\ compiled = {}
    /\ conn = [d \in Dev |-> <<>>]
    /\ progs = [d \in Dev |-> 0] /\ moves = [d \in Dev |-> 0]
    /\ pq = [d \in Dev |-> <<>>]
    /\ ppc = [d \in Dev |-> IF d \in Pushers THEN "poll" ELSE "ended"]
    /\ held = [d \in Dev |-> NoTensors]
    /\ LET inputs == If(~training, [i \in 1 .. InputCount |-> i]) IN
       /\ data = [p \in 1 .. N + 1 |-> If(p = 1 /\ 1 \notin tt, inputs)]
       /\ buf = If(1 \in tt, inputs)
    /\ out = <<>> /\ event = FALSE

Step(t) == Script(t)[at[t]]
CanSend(t) ==
    /\ at[t] <= Len(Script(t)) /\ ~waiting[t]
    /\ IF t = "main" THEN phase = "running" ELSE at["main"] > Len(Setup)

\* _run_forward looks for an error after every command but the transfers of
\* inputs, and _shutdown before it sends its first quit.
GivesUp(t) ==
    /\ t = "main" /\ event
    /\ \/ at[t] = QuitAt
       \/ /\ at[t] \in Len(Setup) + 2 .. SyncAt - 1
          /\ Script(t)[at[t] - 1].name # "forward_input"

\* _run_command; set_queues carries what the last get_queues answered.
Send(t) ==
    /\ CanSend(t) /\ ~GivesUp(t)
    /\ cmdq' = [cmdq EXCEPT ![Step(t).dev] =
                    Append(@, [cmd |-> Step(t).cmd, name |-> Step(t).name, desc |-> last[t]])]
    /\ waiting' = [waiting EXCEPT ![t] = Step(t).reply]
    /\ at' = [at EXCEPT ![t] = IF Step(t).reply THEN @ ELSE @ + 1]
    /\ UNCHANGED <<tt, training, last, phase, synced, resp, deviceVars, flowVars, pushVars, event>>

\* The error shows: what is left of the run is skipped, or the shutdown goes
\* straight to killing the processes.
StopRun(t) ==
    /\ CanSend(t) /\ GivesUp(t)
    /\ IF at[t] = QuitAt
       THEN phase' = "reap" /\ at' = at
       ELSE at' = [at EXCEPT ![t] = SyncAt] /\ phase' = phase
    /\ UNCHANGED <<tt, training, waiting, last, synced, cmdq, resp, deviceVars, flowVars, pushVars, event>>

\* The user does without sync().
SkipSync ==
    /\ CanSend("main") /\ at["main"] = SyncAt
    /\ at' = [at EXCEPT !["main"] = QuitAt]
    /\ UNCHANGED <<tt, training, waiting, last, phase, synced, cmdq, resp, deviceVars, flowVars, pushVars, event>>

\* The answer of a step has been taken: an exception, or no answer to a step of
\* the setup, is raised to the user, who can only shut down (atexit does).
\* sync() ignores what it got; the training thread, given anything but a
\* checkpoint, calls _error_shutdown, which sets the event.
Answered(t, r) ==
    /\ waiting' = [waiting EXCEPT ![t] = FALSE]
    /\ last' = [last EXCEPT ![t] = r]
    /\ at' = [at EXCEPT ![t] =
                IF r \in {None, Failure} /\ Step(t).cmd \in {"compile", "get_queues"}
                THEN QuitAt ELSE @ + 1]
    /\ synced' = (synced \/ (t = "main" /\ at[t] = QuitAt - 1))
    /\ event' = (event \/ (t = "loop" /\ r.queue # "checkpoint"))

\* get_command_queue_response: whatever is first in the response queue.
GetResponse(t) ==
    /\ waiting[t] /\ resp[Step(t).dev] # <<>>
    /\ Answered(t, Head(resp[Step(t).dev]))
    /\ resp' = [resp EXCEPT ![Step(t).dev] = Tail(@)]
    /\ UNCHANGED <<tt, training, phase, cmdq, deviceVars, flowVars, pushVars>>

\* get_command_queue_response waits without looking at the event.
NoResponseIgnored(t) == FALSE

NoResponse(t) ==
    /\ waiting[t] /\ resp[Step(t).dev] = <<>> /\ event
    /\ Answered(t, None)
    /\ UNCHANGED <<tt, training, phase, cmdq, resp, deviceVars, flowVars, pushVars>>

\* The rest of _shutdown: the barrier, then joining or killing the processes.  A
\* process lives as long as its pusher thread, which is no daemon.
Gone(d) == dpc[d] = "closed" /\ ppc[d] \in {"ended", "dead"}

PassBarrier ==
    /\ phase = "running" /\ at["main"] > Len(Script("main"))
    /\ \A d \in Dev : dpc[d] = "barrier"
    /\ phase' = "passed"
    /\ UNCHANGED <<tt, training, at, waiting, last, synced, cmdq, resp, deviceVars, flowVars, pushVars, event>>

BarrierBroken ==
    /\ phase = "running" /\ at["main"] > Len(Script("main")) /\ event
    /\ phase' = "reap"
    /\ UNCHANGED <<tt, training, at, waiting, last, synced, cmdq, resp, deviceVars, flowVars, pushVars, event>>

\* The loop thread is joined, and only then is the error looked for.
LoopJoined ==
    /\ phase = "passed" /\ at["loop"] > Len(Script("loop"))
    /\ phase' = IF event THEN "reap" ELSE "join"
    /\ UNCHANGED <<tt, training, at, waiting, last, synced, cmdq, resp, deviceVars, flowVars, pushVars, event>>

Joined ==
    /\ phase = "join" /\ \A d \in Dev : Gone(d)
    /\ phase' = "done"
    /\ UNCHANGED <<tt, training, at, waiting, last, synced, cmdq, resp, deviceVars, flowVars, pushVars, event>>

Reap ==
    /\ phase = "reap"
    /\ phase' = "done"
    /\ dpc' = [d \in Dev |-> "closed"]
    /\ ppc' = [d \in Dev |-> "ended"]
    /\ UNCHANGED <<tt, training, at, waiting, last, synced, cmdq, resp, compiled, conn, flowVars, pq, held, event>>

-----------------------------------------------------------------------------
(* A device process: Device.run and run_next_command.                      *)

Goto(d, pc) == dpc' = [dpc EXCEPT ![d] = pc]
Reply(d, r) == resp' = [resp EXCEPT ![d] = Append(@, r)]

\* COMPILE answers with the outputs, or with the exception.
RunCompile(d) ==
    /\ \/ compiled' = compiled \cup {d} /\ Reply(d, [dev |-> d, queue |-> "outputs"])
       \/ "compile" \in Faults /\ Reply(d, Failure) /\ UNCHANGED compiled
    /\ UNCHANGED <<dpc, conn, progs, moves>>

\* GET_QUEUES asserts that the backend of the TTDevice is there, SET_QUEUES that the
\* descriptors have what the direction needs.
PushQueues == {"input", "target", "bw_input"}
PushDirections == {"forward_out", "forward_in_push", "backward_out_push", "target_in_push"}
Fits(c) == (c.name \in PushDirections) = (c.desc.queue \in PushQueues)

RunGetQueues(d, c) ==
    /\ d \in tt \cap compiled
    /\ Reply(d, [dev |-> d, queue |-> c.name])
    /\ UNCHANGED <<deviceVars, progs, moves>>

RunSetQueues(d, c) ==
    /\ Fits(c)
    /\ conn' = [conn EXCEPT ![d] = [r \in {c.name} \cup DOMAIN @ |->
                                       IF r = c.name THEN c.desc ELSE @[r]]]
    /\ UNCHANGED <<dpc, compiled, resp, progs, moves>>

\* The transfers that move data are the ones between the user and a TTDevice
\* at an end of the pipeline.
RunTransfer(d, c) ==
    /\ moves' = [moves EXCEPT ![d] =
           IF d \in tt /\ (IF c.name = "forward" THEN d = N ELSE d = 1)
           THEN @ + 1 ELSE @]
    /\ UNCHANGED <<deviceVars, resp, progs>>

RunRunForward(d) ==
    /\ IF d \in tt
       THEN progs' = [progs EXCEPT ![d] = @ + 1] /\ dpc' = dpc
       ELSE Goto(d, "forward") /\ progs' = progs
    /\ UNCHANGED <<compiled, conn, resp, moves>>

\* A TTDevice answers SYNC without waiting for its programs.
RunSyncAtOnce(d) ==
    /\ Reply(d, [dev |-> d, queue |-> "sync"])
    /\ UNCHANGED <<deviceVars, progs, moves>>

\* SYNC: a TTDevice waits until its programs have run.
RunSync(d) ==
    /\ d \in tt => progs[d] = 0
    /\ Reply(d, [dev |-> d, queue |-> "sync"])
    /\ UNCHANGED <<deviceVars, progs, moves>>

RunCheckpoint(d) ==
    /\ Reply(d, [dev |-> d, queue |-> "checkpoint"])
    /\ UNCHANGED <<deviceVars, progs, moves>>

NextCommand(d) ==
    /\ dpc[d] = "next" /\ cmdq[d] # <<>>
    /\ LET c == Head(cmdq[d]) IN
       \/ c.cmd = "compile" /\ RunCompile(d)
       \/ c.cmd = "get_queues" /\ RunGetQueues(d, c)
       \/ c.cmd = "set_queues" /\ RunSetQueues(d, c)
       \/ c.cmd = "dc_transfer" /\ RunTransfer(d, c)
       \/ c.cmd = "run_forward" /\ RunRunForward(d)
       \/ c.cmd = "sync" /\ RunSync(d)
       \/ c.cmd = "checkpoint" /\ RunCheckpoint(d)
       \/ /\ c.cmd = "quit" /\ Goto(d, "threads")
          /\ UNCHANGED <<resp, compiled, conn, progs, moves>>
    /\ cmdq' = [cmdq EXCEPT ![d] = Tail(@)]
    /\ UNCHANGED <<tt, training, clientVars, data, buf, out, pushVars, event>>

\* get_next_command timed out with the event set: the process leaves its loop.
SeeShutdown(d) ==
    /\ dpc[d] = "next" /\ cmdq[d] = <<>> /\ event
    /\ Goto(d, "closed")
    /\ UNCHANGED <<tt, training, clientVars, cmdq, resp, compiled, conn, flowVars, pushVars, event>>

\* A command outside _try_run raises, whether the command's own assertion fails
\* or anything else: Device.run sets the event and closes the device.
CommandRaises(d) ==
    /\ dpc[d] = "next" /\ cmdq[d] # <<>>
    /\ LET c == Head(cmdq[d]) IN
       /\ c.cmd \in {"get_queues", "set_queues", "sync", "checkpoint"}
       /\ \/ "command" \in Faults
          \/ c.cmd = "get_queues" /\ d \notin tt \cap compiled
          \/ c.cmd = "set_queues" /\ ~Fits(c)
    /\ cmdq' = [cmdq EXCEPT ![d] = Tail(@)]
    /\ Goto(d, "closed")
    /\ event' = TRUE
    /\ UNCHANGED <<tt, training, clientVars, resp, compiled, conn, flowVars, pushVars>>

\* CPUDevice.forward: read the input, compute, push the result on; the put on
\* the pusher's queue has no timeout.
Forward(d) ==
    /\ dpc[d] = "forward" /\ data[d] # <<>>
    /\ d \in Pushers => Len(pq[d]) < PushDepth
    /\ LET x == Head(data[d])
           rest == [data EXCEPT ![d] = Tail(@)] IN
       \/ d \in Pushers /\ pq' = [pq EXCEPT ![d] = Append(@, x)] /\ data' = rest /\ out' = out
       \/ d = N /\ out' = Append(out, x) /\ data' = rest /\ pq' = pq
       \/ /\ d < N /\ d \notin Pushers
          /\ data' = [rest EXCEPT ![d + 1] = Append(@, x)] /\ UNCHANGED <<pq, out>>
    /\ Goto(d, "next")
    /\ UNCHANGED <<tt, training, clientVars, cmdq, resp, compiled, conn, progs, moves, buf, ppc, held, event>>

\* The read gave up on the event; the forward raises and _try_run drains the
\* command queue.
ForwardAbandoned(d) ==
    /\ dpc[d] = "forward" /\ data[d] = <<>> /\ event
    /\ cmdq' = [cmdq EXCEPT ![d] = <<>>]
    /\ Goto(d, "next")
    /\ UNCHANGED <<tt, training, clientVars, resp, compiled, conn, flowVars, pushVars, event>>

\* QUIT does not join the transfer threads.
ThreadsNotJoined(d) ==
    /\ dpc[d] = "threads"
    /\ d \in Pushers => Len(pq[d]) < PushDepth
    /\ pq' = IF d \in Pushers THEN [pq EXCEPT ![d] = Append(@, Quit)] ELSE pq
    /\ Goto(d, "barrier")
    /\ UNCHANGED <<tt, training, clientVars, cmdq, resp, compiled, conn, flowVars, ppc, held, event>>

\* QUIT: _shutdown_threads joins the transfer threads, then puts quit on the
\* pusher's queue and does not join the pusher.
ThreadsShutDown(d) ==
    /\ dpc[d] = "threads" /\ moves[d] = 0
    /\ d \in Pushers => Len(pq[d]) < PushDepth
    /\ pq' = IF d \in Pushers THEN [pq EXCEPT ![d] = Append(@, Quit)] ELSE pq
    /\ Goto(d, "barrier")
    /\ UNCHANGED <<tt, training, clientVars, cmdq, resp, compiled, conn, flowVars, ppc, held, event>>

\* shutdown_device after the barrier; a TTDevice shuts its connectors down a
\* second time.
Close(d) ==
    /\ dpc[d] = "barrier" /\ (phase # "running" \/ event)
    /\ d \in Pushers \cap tt => Len(pq[d]) < PushDepth
    /\ pq' = IF d \in Pushers \cap tt THEN [pq EXCEPT ![d] = Append(@, Quit)] ELSE pq
    /\ Goto(d, "closed")
    /\ UNCHANGED <<tt, training, clientVars, cmdq, resp, compiled, conn, flowVars, ppc, held, event>>

-----------------------------------------------------------------------------
(* The threads beside a device's command loop, and the device.             *)

\* dc_transfer: an input to the pusher of the first device, or an output to the
\* user.  Abandoned on the event, the read returns an empty list, which is
\* passed on.
Transfer(d) ==
    /\ moves[d] > 0 /\ dpc[d] # "closed"
    /\ \/ /\ d = 1 /\ Len(pq[d]) < PushDepth
          /\ buf # <<>> \/ event
          /\ pq' = [pq EXCEPT ![d] = Append(@, IF buf = <<>> THEN NoTensors ELSE Head(buf))]
          /\ buf' = If(buf # <<>>, Tail(buf))
          /\ UNCHANGED <<data, out>>
       \/ /\ d = N
          /\ data[N + 1] # <<>> \/ event
          /\ out' = Append(out, IF data[N + 1] = <<>> THEN NoTensors ELSE Head(data[N + 1]))
          /\ data' = [data EXCEPT ![N + 1] = If(@ # <<>>, Tail(@))]
          /\ UNCHANGED <<pq, buf>>
    /\ moves' = [moves EXCEPT ![d] = @ - 1]
    /\ UNCHANGED <<tt, training, clientVars, cmdq, resp, deviceVars, progs, ppc, held, event>>

\* pusher_thread_main takes the next command.
PusherGet(d) ==
    /\ ppc[d] = "poll" /\ pq[d] # <<>>
    /\ ppc' = [ppc EXCEPT ![d] = IF Head(pq[d]) = Quit THEN "ended" ELSE "push"]
    /\ held' = [held EXCEPT ![d] = Head(pq[d])]
    /\ pq' = [pq EXCEPT ![d] = Tail(@)]
    /\ UNCHANGED <<tt, training, clientVars, cmdq, resp, deviceVars, flowVars, event>>

PusherSeesShutdown(d) ==
    /\ ppc[d] = "poll" /\ pq[d] = <<>> /\ event
    /\ ppc' = [ppc EXCEPT ![d] = "ended"]
    /\ UNCHANGED <<tt, training, clientVars, cmdq, resp, deviceVars, flowVars, pq, held, event>>

\* _internal_push, which asserts that the descriptors have been set and that
\* there is a tensor for each queue.
Ready(d) == PushDirection(d) \in DOMAIN conn[d] /\ held[d] # NoTensors

InternalPush(d) ==
    /\ ppc[d] = "push" /\ Ready(d)
    /\ data' = [data EXCEPT ![Target(d)] = Append(@, held[d])]
    /\ ppc' = [ppc EXCEPT ![d] = "poll"]
    /\ UNCHANGED <<tt, training, clientVars, cmdq, resp, deviceVars, progs, moves, buf, out, pq, held, event>>

\* An exception ends the pusher thread, and nobody is told.
PushRaises(d) ==
    /\ ppc[d] = "push" /\ ("push" \in Faults \/ ~Ready(d))
    /\ ppc' = [ppc EXCEPT ![d] = "dead"]
    /\ UNCHANGED <<tt, training, clientVars, cmdq, resp, deviceVars, flowVars, pq, held, event>>

\* The device runs a scheduled program once its input is there.
RunProgram(d) ==
    /\ progs[d] > 0 /\ data[d] # <<>>
    /\ progs' = [progs EXCEPT ![d] = @ - 1]
    /\ data' = [data EXCEPT ![d] = Tail(@), ![d + 1] = Append(@, Head(data[d]))]
    /\ UNCHANGED <<tt, training, clientVars, cmdq, resp, deviceVars, moves, buf, out, pushVars, event>>

-----------------------------------------------------------------------------

Client(t) == Send(t) \/ StopRun(t) \/ GetResponse(t) \/ NoResponse(t)
Main == Client("main") \/ SkipSync \/ PassBarrier \/ BarrierBroken \/ LoopJoined \/ Joined \/ Reap
Device(d) ==
    \/ NextCommand(d) \/ SeeShutdown(d) \/ CommandRaises(d)
    \/ Forward(d) \/ ForwardAbandoned(d) \/ ThreadsShutDown(d) \/ Close(d)
Pusher(d) == PusherGet(d) \/ PusherSeesShutdown(d) \/ InternalPush(d) \/ PushRaises(d)

Done == phase = "done" /\ UNCHANGED vars

Next ==
    \/ Main \/ Client("loop")
    \/ \E d \in Dev : Device(d) \/ Transfer(d) \/ Pusher(d) \/ RunProgram(d)
    \/ Done

\* Every thread, process and device goes on as long as it can.
Fairness ==
    /\ WF_vars(Main) /\ WF_vars(Client("loop"))
    /\ \A d \in Dev : WF_vars(Device(d)) /\ WF_vars(Transfer(d))
                      /\ WF_vars(Pusher(d)) /\ WF_vars(RunProgram(d))

Spec == Init /\ [][Next]_vars /\ Fairness

-----------------------------------------------------------------------------
(* Properties.                                                             *)

PusherDied == \E d \in Dev : ppc[d] = "dead"

\* The queues that the connector set under direction r in the process of
\* device d is there for: the input queues of the device it pushes to, the output
\* queues of the device it reads from.
Peer(d, r) ==
    CASE r = "forward_out" -> [dev |-> d + 1, queue |-> "input"]
      [] r = "forward_in" -> [dev |-> d - 1, queue |-> "output"]
      [] r = "forward_in_push" -> [dev |-> d, queue |-> "input"]
      [] r = "forward_out_pop" -> [dev |-> d, queue |-> "output"]
      [] r = "backward_out_push" -> [dev |-> d - 1, queue |-> "bw_input"]
      [] r = "backward_in" -> [dev |-> d + 1, queue |-> "bw_output"]
      [] r = "backward_out" -> [dev |-> d, queue |-> "bw_output"]
      [] r = "target_in_push" -> [dev |-> d, queue |-> "target"]

\* The descriptors a connector works with are those of the queues it is there
\* for, whatever answers arrived in between (_pass_dram_io_descriptors).
DescriptorsOfPeers ==
    \A d \in Dev : \A r \in DOMAIN conn[d] : conn[d][r] = Peer(d, r)

\* Nothing is pushed before its destination is known or after it was closed: in a
\* run without an error the descriptors are set when a pusher has a tensor in
\* hand, and though shutdown() does not join the pusher, the device it pushes
\* to is not closed under it (pusher_thread_main, _internal_push).
PushesHitOpenDevice ==
    \A d \in Dev : ppc[d] = "push" /\ ~event => Ready(d) /\ dpc[Target(d)] # "closed"

Idle ==
    \A d \in Dev :
        /\ progs[d] = 0 /\ dpc[d] # "forward" /\ ppc[d] # "push"
        /\ \A i \in DOMAIN cmdq[d] : cmdq[d][i].cmd = "quit"
        /\ ppc[d] # "dead" => \A i \in DOMAIN pq[d] : pq[d][i] = Quit

\* In inference, where one thread sends every command that has an answer, sync()
\* returns only when every device has gone idle: nothing sent before it is
\* still queued, pushed or running, the pushers included, which sync() knows
\* nothing of (_sync, Device.run_next_command).
SyncMeansIdle == synced /\ ~event /\ ~training => Idle

\* The loop thread waits for a device that has quit: its request came after the
\* quit, and _shutdown waits for the loop thread.
LoopStranded == waiting["loop"] /\ dpc[Step("loop").dev] \in {"threads", "barrier", "closed"}

\* The program ends: the setup, the run, sync() and shutdown() all return, through
\* whatever error, but for two ways to hang that nobody notices: a pusher
\* thread died, or the program shut down under its training thread.
ProgramEnds == <>(phase = "done" \/ PusherDied \/ LoopStranded)

=============================================================================
