---------------------------- MODULE TrainingLoop -----------------------------
(* run_training() in concurrent mode: the loop thread (_run_training_loop,   *)
(* run/impl.py) and the device processes it drives through their command     *)
(* queues.  It sends the commands of forward passes, backward passes and     *)
(* optimizer steps without waiting; only a checkpoint is a request with an   *)
(* answer.                                                                   *)
(*                                                                           *)
(* A CPU device runs a command when it takes it from its queue.  A TT device *)
(* hands it to its feeder thread (module BackendFeeder), which runs it in    *)
(* order; a checkpoint waits until the feeder is done.  Activations travel   *)
(* from device to device, gradients back; the transfer threads of module     *)
(* DevicePipeline are folded into these queues, and the user keeps the       *)
(* inputs and targets coming.  A microbatch is its number.                   *)
EXTENDS Integers, Sequences

CONSTANTS
  N,               \* devices are 1 .. N, the last one has the loss module
  TTDevices,       \* the TT devices among them
  EpochCounts, StepCounts, AccumulationCounts, MicrobatchCounts, Intervals,
  MaxMicrobatches, \* bound on the microbatches of a run
  Schedulers,      \* may TT devices have a learning rate scheduler?
  MayFail          \* may a command raise, or a TT device be too slow?

Dev == 1 .. N

ASSUME TrainingAssumption ==
  /\ N \in Nat \ {0}
  /\ TTDevices \subseteq Dev \ {N}
  /\ EpochCounts \cup StepCounts \cup AccumulationCounts \cup MicrobatchCounts
       \subseteq Nat \ {0}
  /\ Intervals \subseteq Nat /\ MaxMicrobatches \in Nat
  /\ Schedulers \subseteq BOOLEAN /\ MayFail \in BOOLEAN

VARIABLES
  run,           \* the arguments of run_training
  lpc, at,       \* where the loop thread is: its phase and loop indices
  look,          \* is the loop thread about to look for an error?
  steps,         \* optimizer_step_count
  checkpointed,
  asked,         \* is the loop thread waiting for an answer?
  parts,         \* the checkpoint being collected
  checkpoints,   \* the checkpoint queue
  cmdq, resp,    \* command and response queue of each device
  jobs,          \* feeder queue of each TT device
  acts, grads,   \* activations and gradients on their way to a device
  saved,         \* microbatches saved by the forward pass of a device
  fwd,           \* forward passes of a device so far
  grad,          \* what a device's gradient is the sum of
  version,       \* optimizer steps a device has taken
  alive,         \* device processes that have not ended
  dead,          \* TT devices whose feeder thread has died
  event          \* the shutdown event

loop == <<run, lpc, at, look, steps, checkpointed, asked, parts, checkpoints>>
data == <<acts, grads, saved, fwd, grad, version>>
vars == <<loop, cmdq, resp, jobs, data, alive, dead, event>>

PerStep == run.accumulation * run.microbatches

Total == run.epochs * run.steps

Compute == {"forward", "backward", "optimizer"}

Missing == -1

Command(op) == [op |-> op, count |-> 1, zero_grad |-> FALSE]

Backward(k, zero) == [op |-> "backward", count |-> k, zero_grad |-> zero]

Start == [epoch |-> 0, batch |-> 0, mini |-> 0, micro |-> 1, dev |-> 1]

Init ==
  /\ run \in [epochs : EpochCounts, steps : StepCounts,
              accumulation : AccumulationCounts, microbatches : MicrobatchCounts,
              interval : Intervals, scheduler : Schedulers]
  /\ run.scheduler => TTDevices # {}
  /\ Total * PerStep <= MaxMicrobatches
  /\ lpc = "forward" /\ at = Start /\ look = TRUE
  /\ steps = 0 /\ checkpointed = FALSE /\ asked = FALSE
  /\ parts = <<>> /\ checkpoints = <<>>
  /\ cmdq = [d \in Dev |-> <<>>] /\ resp = [d \in Dev |-> <<>>]
  /\ jobs = [d \in Dev |-> <<>>]
  /\ acts = [d \in Dev |-> <<>>] /\ grads = [d \in Dev |-> <<>>]
  /\ saved = [d \in Dev |-> <<>>] /\ fwd = [d \in Dev |-> 0]
  /\ grad = [d \in Dev |-> <<>>] /\ version = [d \in Dev |-> 0]
  /\ alive = Dev /\ dead = {} /\ event = FALSE

------------------------------------------------------------------------------
(* The loop thread.  Before every command of a pass or a step it looks for   *)
(* an error; the error may come between the look and the command.            *)
Look ==
  /\ look /\ lpc # "done"
  /\ look' = FALSE
  /\ lpc' = IF event THEN "done" ELSE lpc
  /\ UNCHANGED <<run, at, steps, checkpointed, asked, parts, checkpoints, cmdq,
                 resp, jobs, data, alive, dead, event>>

Send(d, c) == cmdq' = [cmdq EXCEPT ![d] = Append(@, c)]

Goto(phase, indices) == lpc' = phase /\ at' = indices

PushForward ==
  /\ lpc = "forward" /\ ~look /\ look' = TRUE
  /\ Send(at.dev, Command("forward"))
  /\ \/ /\ at.dev < N
        /\ Goto("forward", [at EXCEPT !.dev = @ + 1])
     \/ /\ at.dev = N /\ at.micro < run.microbatches
        /\ Goto("forward", [at EXCEPT !.dev = 1, !.micro = @ + 1])
     \/ /\ at.dev = N /\ at.micro = run.microbatches
        /\ Goto("backward", [at EXCEPT !.micro = 1])
  /\ UNCHANGED <<run, steps, checkpointed, asked, parts, checkpoints, resp,
                 jobs, data, alive, dead, event>>

(* Plausible bug: gradients are cleared by every mini-batch.                 *)
ZeroGradAlways == TRUE

zero_grad == at.mini = 0

MiniBatchesLeft == at.mini + 1 < run.accumulation

PushBackward ==
  /\ lpc = "backward" /\ ~look /\ look' = TRUE
  /\ Send(at.dev, Backward(run.microbatches, zero_grad))
  /\ \/ /\ at.dev > 1
        /\ Goto("backward", [at EXCEPT !.dev = @ - 1])
     \/ /\ at.dev = 1 /\ MiniBatchesLeft
        /\ Goto("forward", [at EXCEPT !.mini = @ + 1])
     \/ /\ at.dev = 1 /\ ~MiniBatchesLeft
        /\ Goto("optimizer", [at EXCEPT !.mini = 0])
  /\ UNCHANGED <<run, steps, checkpointed, asked, parts, checkpoints, resp,
                 jobs, data, alive, dead, event>>

NextBatch ==
  IF at.batch + 1 < run.steps
  THEN Goto("forward", [at EXCEPT !.dev = 1, !.batch = @ + 1])
  ELSE Goto("epoch", [at EXCEPT !.dev = 1, !.batch = 0])

PushOptimizer ==
  /\ lpc = "optimizer" /\ ~look /\ look' = TRUE
  /\ Send(at.dev, Command("optimizer"))
  /\ IF at.dev < N
     THEN Goto("optimizer", [at EXCEPT !.dev = @ + 1]) /\ UNCHANGED steps
     ELSE /\ steps' = steps + 1
          /\ IF run.interval > 0 /\ steps' % run.interval = 0
             THEN Goto("checkpoint", [at EXCEPT !.dev = 1])
             ELSE NextBatch
  /\ UNCHANGED <<run, checkpointed, asked, parts, checkpoints, resp, jobs,
                 data, alive, dead, event>>

(* Between epochs the schedulers are stepped on the devices of the loop      *)
(* thread's own process.  A CPU device there has no part in the training,    *)
(* and a TT device no backend.                                               *)
EndEpoch ==
  /\ lpc = "epoch" /\ ~look /\ look' = TRUE
  /\ ~run.scheduler
  /\ \/ /\ at.epoch + 1 < run.epochs
        /\ Goto("forward", [at EXCEPT !.epoch = @ + 1])
        /\ checkpointed' = FALSE
     \/ /\ at.epoch + 1 = run.epochs
        /\ Goto(IF checkpointed THEN "done" ELSE "final", at)
        /\ UNCHANGED checkpointed
  /\ UNCHANGED <<run, steps, asked, parts, checkpoints, cmdq, resp, jobs, data,
                 alive, dead, event>>

(* _error_shutdown sets the event and terminates the device processes.       *)
ErrorShutdown ==
  /\ event' = TRUE /\ alive' = {}
  /\ jobs' = [d \in Dev |-> <<>>]
  /\ UNCHANGED dead

SchedulerRaises ==
  /\ lpc = "epoch" /\ ~look /\ run.scheduler
  /\ lpc' = "done"
  /\ ErrorShutdown
  /\ UNCHANGED <<run, at, look, steps, checkpointed, asked, parts, checkpoints,
                 cmdq, resp, data>>

(* A checkpoint is collected device by device.                               *)
RequestCheckpoint ==
  /\ lpc \in {"checkpoint", "final"} /\ ~look /\ ~asked
  /\ Send(at.dev, Command("checkpoint"))
  /\ asked' = TRUE
  /\ UNCHANGED <<run, lpc, at, look, steps, checkpointed, parts, checkpoints,
                 resp, jobs, data, alive, dead, event>>

Collect(part) ==
  /\ asked' = FALSE
  /\ IF at.dev < N
     THEN /\ parts' = Append(parts, part)
          /\ Goto(lpc, [at EXCEPT !.dev = @ + 1])
          /\ UNCHANGED <<checkpoints, checkpointed>>
     ELSE /\ parts' = <<>>
          /\ checkpoints' = Append(checkpoints, Append(parts, part))
          /\ checkpointed' = (checkpointed \/ lpc = "checkpoint")
          /\ IF lpc = "checkpoint" THEN NextBatch ELSE Goto("done", at)
  /\ look' = (lpc' = "forward")

GetCheckpoint ==
  /\ asked /\ resp[at.dev] # <<>>
  /\ Collect(Head(resp[at.dev]))
  /\ resp' = [resp EXCEPT ![at.dev] = Tail(@)]
  /\ UNCHANGED <<run, steps, cmdq, jobs, data, alive, dead, event>>

(* Plausible bug: the wait for an answer does not look at the event.         *)
WaitsForever == FALSE

(* get_command_queue_response gives up on the event; the part is empty.      *)
LoseCheckpoint ==
  /\ asked /\ resp[at.dev] = <<>> /\ event
  /\ Collect(Missing)
  /\ ErrorShutdown
  /\ UNCHANGED <<run, steps, cmdq, resp, data>>

------------------------------------------------------------------------------
(* A device.                                                                 *)
Work(d) == IF d \in TTDevices THEN jobs[d] ELSE cmdq[d]

(* A feeder thread goes on when the command loop of its process has ended.   *)
Doing(d, op) ==
  /\ d \in (alive \cup TTDevices) \ dead
  /\ Work(d) # <<>> /\ Head(Work(d)).op = op

WorkLeft(d, q) ==
  IF d \in TTDevices
  THEN jobs' = [jobs EXCEPT ![d] = q] /\ UNCHANGED cmdq
  ELSE cmdq' = [cmdq EXCEPT ![d] = q] /\ UNCHANGED jobs

ToFeeder(d) ==
  /\ d \in TTDevices \cap alive
  /\ cmdq[d] # <<>> /\ Head(cmdq[d]).op \in Compute
  /\ jobs' = [jobs EXCEPT ![d] = Append(@, Head(cmdq[d]))]
  /\ cmdq' = [cmdq EXCEPT ![d] = Tail(@)]
  /\ UNCHANGED <<loop, resp, data, alive, dead, event>>

Forward(d) ==
  /\ Doing(d, "forward")
  /\ d = 1 \/ acts[d] # <<>>
  /\ LET m == IF d = 1 THEN fwd[d] + 1 ELSE Head(acts[d])
     IN  /\ acts' = [e \in Dev |-> CASE e = d /\ d > 1 -> Tail(acts[e])
                                     [] e = d + 1 -> Append(acts[e], m)
                                     [] OTHER -> acts[e]]
         /\ saved' = [saved EXCEPT ![d] = Append(@, m)]
  /\ fwd' = [fwd EXCEPT ![d] = @ + 1]
  /\ WorkLeft(d, Tail(Work(d)))
  /\ UNCHANGED <<loop, resp, grads, grad, version, alive, dead, event>>

(* One microbatch of a backward command.  The last device starts from the    *)
(* loss, the others from the gradient of their successor.                    *)
HasGradient(d) == saved[d] # <<>> /\ (d = N \/ grads[d] # <<>>)

RunBackward(d) ==
  /\ Doing(d, "backward") /\ HasGradient(d)
  /\ LET job == Head(Work(d))
         m   == Head(saved[d])
         g   == IF d = N THEN m ELSE Head(grads[d])
     IN  /\ grad' = [grad EXCEPT ![d] =
                       Append(IF job.zero_grad THEN <<>> ELSE @, <<m, g>>)]
         /\ grads' = [e \in Dev |-> CASE e = d /\ d < N -> Tail(grads[e])
                                      [] e = d - 1 -> Append(grads[e], g)
                                      [] OTHER -> grads[e]]
         /\ WorkLeft(d, (IF job.count = 1 THEN <<>>
                         ELSE <<[job EXCEPT !.count = @ - 1, !.zero_grad = FALSE]>>)
                        \o Tail(Work(d)))
  /\ saved' = [saved EXCEPT ![d] = Tail(@)]
  /\ UNCHANGED <<loop, resp, acts, fwd, version, alive, dead, event>>

Optimizer(d) ==
  /\ Doing(d, "optimizer")
  /\ version' = [version EXCEPT ![d] = @ + 1]
  /\ WorkLeft(d, Tail(Work(d)))
  /\ UNCHANGED <<loop, resp, acts, grads, saved, fwd, grad, alive, dead, event>>

(* Plausible bug: the checkpoint does not wait for the feeder.               *)
NotSynced(d) == TRUE

Synced(d) == jobs[d] = <<>>

AnswerCheckpoint(d) ==
  /\ d \in alive /\ cmdq[d] # <<>> /\ Head(cmdq[d]).op = "checkpoint"
  /\ Synced(d)
  /\ resp' = [resp EXCEPT ![d] = Append(@, version[d])]
  /\ cmdq' = [cmdq EXCEPT ![d] = Tail(@)]
  /\ UNCHANGED <<loop, jobs, data, alive, dead, event>>

(* A program that the backend does not run ends the feeder thread: there is  *)
(* no handler and the TT device's backend has no event to set.  The command  *)
(* is never taken off the feeder's books (its token stays in the queue), so  *)
(* that a checkpoint waits for ever.                                         *)
FeederDies(d) ==
  /\ MayFail /\ d \in TTDevices \ dead /\ jobs[d] # <<>>
  /\ dead' = dead \cup {d}
  /\ UNCHANGED <<loop, cmdq, resp, jobs, data, alive, event>>

(* A pass on a CPU device raises when its module fails, when it gives up     *)
(* waiting for data, or when a backward pass finds that no forward pass ever *)
(* ran.  A backward pass that finds no saved forward pass otherwise waits    *)
(* for ever.  _try_run sets the event and drains the command queue; the data *)
(* the pass has read is lost.  It waits for the data of a CPU device until   *)
(* the event, for that of a TT device also until the tenth timeout.          *)
GivesUp(d) ==
  LET from(e) == event \/ (MayFail /\ e \in TTDevices)
  IN  \/ Doing(d, "forward") /\ d > 1 /\ acts[d] = <<>> /\ from(d - 1)
      \/ /\ Doing(d, "backward") /\ d < N
         /\ saved[d] # <<>> /\ grads[d] = <<>> /\ from(d + 1)

NeverRan(d) == Doing(d, "backward") /\ fwd[d] = 0

Rest(q) == {q} \cup {Tail(p) : p \in {q} \ {<<>>}}

PassRaises(d) ==
  /\ d \in alive \ TTDevices
  /\ cmdq[d] # <<>> /\ Head(cmdq[d]).op \in Compute
  /\ event' = TRUE
  /\ cmdq' = [cmdq EXCEPT ![d] = <<>>]
  /\ IF Doing(d, "forward")
     THEN \E q \in Rest(acts[d]) : acts' = [acts EXCEPT ![d] = q]
     ELSE UNCHANGED acts
  /\ IF Doing(d, "backward")
     THEN \E q \in Rest(saved[d]) : saved' = [saved EXCEPT ![d] = q]
     ELSE UNCHANGED saved
  /\ UNCHANGED <<loop, resp, jobs, grads, fwd, grad, version, alive, dead>>

PassFails(d) == MayFail /\ PassRaises(d)

PassHasNoData(d) == (GivesUp(d) \/ NeverRan(d)) /\ PassRaises(d)

(* With the event set a command loop ends when its queue is empty.           *)
DeviceEnds(d) ==
  /\ event /\ d \in alive /\ cmdq[d] = <<>>
  /\ alive' = alive \ {d}
  /\ UNCHANGED <<loop, cmdq, resp, jobs, data, dead, event>>

Loop ==
  \/ PushForward \/ PushBackward \/ PushOptimizer
  \/ Look \/ EndEpoch \/ SchedulerRaises
  \/ RequestCheckpoint \/ GetCheckpoint \/ LoseCheckpoint

Device(d) ==
  \/ ToFeeder(d) \/ AnswerCheckpoint(d) \/ DeviceEnds(d)
  \/ Forward(d) \/ RunBackward(d) \/ Optimizer(d) \/ PassHasNoData(d)

Next == Loop \/ \E d \in Dev : Device(d) \/ PassFails(d) \/ FeederDies(d)

(* The loop thread, each command loop and each feeder thread keep running;   *)
(* nothing has to fail.                                                      *)
Spec ==
  /\ Init /\ [][Next]_vars
  /\ WF_vars(Loop)
  /\ \A d \in Dev :
       /\ WF_vars(ToFeeder(d) \/ AnswerCheckpoint(d) \/ DeviceEnds(d))
       /\ WF_vars(Forward(d) \/ RunBackward(d) \/ Optimizer(d) \/ PassHasNoData(d))

------------------------------------------------------------------------------
(* Until something fails, what a device computes belongs to one batch,       *)
(* however far the loop thread and the other devices are ahead: a forward    *)
(* pass uses the weights after exactly the optimizer steps of the batches    *)
(* before, and a step applies the gradient of exactly the microbatches of    *)
(* its batch, each once and each paired with its own forward pass.           *)
BatchGradient(k) ==
  [i \in 1 .. PerStep |-> <<k * PerStep + i, k * PerStep + i>>]

BatchesKeptApart ==
  [][\A d \in Dev : ~event =>
       /\ fwd'[d] # fwd[d] => version[d] = fwd[d] \div PerStep
       /\ version'[d] # version[d] => grad[d] = BatchGradient(version[d])]_vars

(* A checkpoint that is put in the queue before anything fails is of one     *)
(* moment: the weights of all devices after the optimizer steps that the     *)
(* loop thread has counted.                                                  *)
NoTornCheckpoint ==
  [][~event /\ checkpoints' # checkpoints
       => checkpoints' = Append(checkpoints, [d \in Dev |-> steps])]_vars

(* The loop thread asked a TT device whose feeder is dead for its part of a  *)
(* checkpoint, and nobody has set the event.                                 *)
Stranded == asked /\ at.dev \in dead /\ ~event

(* The loop thread ends, whatever fails on a CPU device; a dead feeder can   *)
(* hold it up only at that device's part of a checkpoint, for which it then  *)
(* waits for ever.  Unless something fails every device takes all its        *)
(* optimizer steps: nobody waits for a gradient, an activation or a part of  *)
(* a checkpoint that does not come.                                          *)
TrainingEnds ==
  /\ <>(lpc = "done") \/ <>[]Stranded
  /\ <>(event \/ dead # {} \/ \A d \in Dev : version[d] = Total)

(* get_command_queue_response returns the response, "or None in case of      *)
(* failures" (device.py): a request for a checkpoint is answered or given    *)
(* up.  The dead feeder of a TT device refutes it.                           *)
CheckpointAnswered == asked ~> ~asked

(* When training has ended, the checkpoint queue ends with the final         *)
(* weights.                                                                  *)
FinalWeightsSaved ==
  lpc = "done" /\ ~event =>
    /\ checkpoints # <<>>
    /\ checkpoints[Len(checkpoints)] = [d \in Dev |-> Total]
==============================================================================
