------------------------ MODULE DevicePipelineProofs ------------------------
(***************************************************************************)
(* Proofs about the device pipeline, for every number and kind of devices, *)
(* every number of inputs, every user and every set of faults; and about   *)
(* the feeder thread of a device's backend, for every number of programs.  *)
(***************************************************************************)
EXTENDS DevicePipeline, BackendFeeder, FiniteSetTheorems, TLAPS

\* TypeOK without the shutdown event.
RestTypeOK ==
    /\ bstate \in {"filling", "open", "broken"}
    /\ waiting \subseteq Party
    /\ cmdq \in [Dev -> Seq(Commands)]
    /\ dpc \in [Dev -> DevicePC]
    /\ xq \in [Dev -> [Dirs -> Seq({"transfer", "quit"})]]
    /\ xpc \in [Dev -> [Dirs -> ThreadPC]]
    /\ data \in [Places -> Seq(1 .. InputCount)]
    /\ progs \in [Dev -> Nat]
    /\ hwdead \subseteq TTDevices
    /\ lpc \in {"push", "check", "done"}
    /\ lpos \in Nat
    /\ mpc \in MainPC
    /\ mq \in 0 .. N
    /\ pushed \in 0 .. InputCount

LEMMA PlacesOfDevice ==
    ASSUME NEW d \in Dev
    PROVE  Src(d) \in Places /\ Dst(d) \in Places
  BY NAssumption DEF Dev, Src, Dst, Places, InputQ, OutputQ

\* The loop thread addresses existing devices with proper commands.
LEMMA LoopTarget ==
    ASSUME NEW k \in Nat, k < PerInput
    PROVE  DeviceAt(k) \in Dev /\ CommandAt(k) \in Commands
<1> USE NAssumption DEF PerInput, DeviceAt, CommandAt, Dev, Commands
<1>1. CASE k < 2 * N
  BY <1>1
<1>2. CASE k = 2 * N
  BY <1>2
<1>3. CASE k > 2 * N
  BY <1>3
<1> QED BY <1>1, <1>2, <1>3

LEMMA LoopIndex ==
    ASSUME NEW i \in Nat
    PROVE  i % PerInput \in Nat /\ i % PerInput < PerInput
  BY NAssumption DEF PerInput

\* Queue operations keep the type of a queue.
LEMMA SeqFacts ==
    ASSUME NEW S, NEW s \in Seq(S)
    PROVE  /\ \A e \in S : Append(s, e) \in Seq(S)
           /\ s # <<>> => Head(s) \in S /\ Tail(s) \in Seq(S)
           /\ <<>> \in Seq(S)
  OBVIOUS

LEMMA MoveType ==
    ASSUME data \in [Places -> Seq(1 .. InputCount)],
           NEW p \in Places, NEW q \in Places, Move(p, q)
    PROVE  data' \in [Places -> Seq(1 .. InputCount)]
<1> DEFINE S == 1 .. InputCount
<1> HIDE DEF S
<1>1. data \in [Places -> Seq(S)]
  BY DEF S
<1>2. Head(data[p]) \in S /\ Tail(data[p]) \in Seq(S)
  <2>1. data[p] \in Seq(S) /\ data[p] # <<>>
    BY <1>1 DEF Move
  <2> QED BY <2>1, SeqFacts
<1>3. Append(data[q], Head(data[p])) \in Seq(S)
  <2>1. data[q] \in Seq(S)
    BY <1>1
  <2> QED BY <1>2, <2>1, SeqFacts
<1>4. data' \in [Places -> Seq(S)]
  BY <1>1, <1>2, <1>3 DEF Move
<1> QED BY <1>4 DEF S

LEMMA PutType ==
    ASSUME cmdq \in [Dev -> Seq(Commands)],
           NEW d \in Dev, NEW c \in Commands, Put(d, c)
    PROVE  cmdq' \in [Dev -> Seq(Commands)]
<1>1. cmdq[d] \in Seq(Commands)
  OBVIOUS
<1>2. Append(cmdq[d], c) \in Seq(Commands)
  BY <1>1, SeqFacts
<1> QED BY <1>2 DEF Put

LEMMA TakeType ==
    ASSUME cmdq \in [Dev -> Seq(Commands)], NEW d \in Dev, cmdq[d] # <<>>
    PROVE  /\ Head(cmdq[d]) \in Commands
           /\ [cmdq EXCEPT ![d] = Tail(@)] \in [Dev -> Seq(Commands)]
<1>1. cmdq[d] \in Seq(Commands)
  OBVIOUS
<1>2. Head(cmdq[d]) \in Commands /\ Tail(cmdq[d]) \in Seq(Commands)
  BY <1>1, SeqFacts
<1> QED BY <1>2

\* A change to the queue of one transfer thread.
ThreadItems == {"transfer", "quit"}
LEMMA ThreadQueueType ==
    ASSUME xq \in [Dev -> [Dirs -> Seq({"transfer", "quit"})]],
           NEW d \in Dev, NEW r \in Dirs
    PROVE  /\ \A c \in {"transfer", "quit"} :
                  [xq EXCEPT ![d][r] = Append(@, c)] \in [Dev -> [Dirs -> Seq(ThreadItems)]]
           /\ xq[d][r] # <<>> =>
                  [xq EXCEPT ![d][r] = Tail(@)] \in [Dev -> [Dirs -> Seq(ThreadItems)]]
           /\ [xq EXCEPT ![d][r] = <<>>] \in [Dev -> [Dirs -> Seq(ThreadItems)]]
<1>1. xq \in [Dev -> [Dirs -> Seq(ThreadItems)]] /\ xq[d][r] \in Seq(ThreadItems)
  BY DEF ThreadItems
<1>2. /\ \A c \in ThreadItems : Append(xq[d][r], c) \in Seq(ThreadItems)
      /\ xq[d][r] # <<>> => Tail(xq[d][r]) \in Seq(ThreadItems)
      /\ <<>> \in Seq(ThreadItems)
  BY <1>1, SeqFacts
<1>3. ASSUME NEW s \in Seq(ThreadItems)
      PROVE  [xq EXCEPT ![d][r] = s] \in [Dev -> [Dirs -> Seq(ThreadItems)]]
  BY <1>1
<1> QED BY <1>2, <1>3 DEF ThreadItems

\* The thread that _shutdown_threads ends next is one of the device's.
LEMMA NextThreadType ==
    ASSUME NEW d \in Dev, ThreadsLeft(d) # {}
    PROVE  NextThread(d) \in Dirs
<1>1. \E i \in ThreadsLeft(d) : \A j \in ThreadsLeft(d) : i <= j
  BY DEF ThreadsLeft
<1> DEFINE n == CHOOSE i \in ThreadsLeft(d) : \A j \in ThreadsLeft(d) : i <= j
<1>2. n \in ThreadsLeft(d)
  BY <1>1
<1>3. NextThread(d) = DirOrder[n]
  BY DEF NextThread
<1> HIDE DEF n
<1>4. n = 1 \/ n = 2
  BY <1>2 DEF ThreadsLeft
<1>5. DirOrder[1] \in Dirs /\ DirOrder[2] \in Dirs
  BY DEF DirOrder, Dirs
<1> QED BY <1>3, <1>4, <1>5

\* Every step keeps the types of everything but the event.
LEMMA RestTypeStep == RestTypeOK /\ [Next]_vars => RestTypeOK'
<1> SUFFICES ASSUME RestTypeOK, [Next]_vars
             PROVE  RestTypeOK'
  OBVIOUS
<1> USE DEF RestTypeOK, syncVars, devVars, threadVars, dataVars, loopVars, mainVars
<1>1. CASE LoopPush
  <2> DEFINE k == lpos % PerInput
  <2>1. DeviceAt(k) \in Dev /\ CommandAt(k) \in Commands
    BY LoopIndex, LoopTarget
  <2>2. Put(DeviceAt(k), CommandAt(k))
    BY <1>1 DEF LoopPush
  <2>3. cmdq' \in [Dev -> Seq(Commands)]
    BY <2>1, <2>2, PutType
  <2> QED BY <1>1, <2>3 DEF LoopPush
<1>2. CASE LoopCheck
  BY <1>2 DEF LoopCheck
<1>3. ASSUME NEW d \in Dev, NextCommand(d)
      PROVE  RestTypeOK'
  <2>1. Head(cmdq[d]) \in Commands /\ cmdq' \in [Dev -> Seq(Commands)]
    BY <1>3, TakeType DEF NextCommand
  <2>2. CASE /\ Head(cmdq[d]) \in {"forward_input", "forward", "intermediates"}
             /\ StartTransfer(d, Head(cmdq[d]))
    <3> DEFINE r == Head(cmdq[d])
    <3>1. CASE RealTransfer(d, r)
      <4>1. /\ r \in Dirs
            /\ xq' = [xq EXCEPT ![d][r] = Append(@, "transfer")]
            /\ xpc' = [xpc EXCEPT ![d][r] = IF @ = "none" THEN "poll" ELSE @]
        BY <2>2, <3>1 DEF StartTransfer, RealTransfer, Dirs
      <4> HIDE DEF r
      <4>2. xq' \in [Dev -> [Dirs -> Seq({"transfer", "quit"})]]
        BY <4>1, ThreadQueueType DEF ThreadItems
      <4>3. xpc' \in [Dev -> [Dirs -> ThreadPC]]
        BY <4>1 DEF ThreadPC
      <4> QED BY <1>3, <2>1, <2>2, <4>2, <4>3 DEF NextCommand, StartTransfer
    <3>2. CASE ~RealTransfer(d, r)
      BY <1>3, <2>1, <2>2, <3>2 DEF NextCommand, StartTransfer
    <3> QED BY <3>1, <3>2
  <2>3. CASE Head(cmdq[d]) = "run_forward" /\ StartForward(d)
    <3>1. dpc' \in [Dev -> DevicePC] /\ progs' \in [Dev -> Nat] /\ UNCHANGED threadVars
      <4>1. CASE d \in TTDevices
        BY <2>3, <4>1 DEF StartForward
      <4>2. CASE d \notin TTDevices
        BY <2>3, <4>2 DEF StartForward, Goto, DevicePC
      <4> QED BY <4>1, <4>2
    <3> QED BY <1>3, <2>1, <3>1 DEF NextCommand
  <2>4. CASE Head(cmdq[d]) = "quit" /\ Goto(d, "join") /\ UNCHANGED <<threadVars, progs>>
    BY <1>3, <2>1, <2>4 DEF NextCommand, Goto, DevicePC
  <2> QED BY <1>3, <2>2, <2>3, <2>4 DEF NextCommand
<1>4. ASSUME NEW d \in Dev, SeeShutdown(d)
        PROVE  RestTypeOK'
  BY <1>4 DEF SeeShutdown, AbortBarrier, Goto, DevicePC
<1>5. ASSUME NEW d \in Dev, Interrupt(d)
        PROVE  RestTypeOK'
  BY <1>5 DEF Interrupt, Goto, DevicePC
<1>35. ASSUME NEW d \in Dev, Escape(d)
        PROVE  RestTypeOK'
  <2>1. dpc' = [dpc EXCEPT ![d] = "escaped"] \/ dpc' = [dpc EXCEPT ![d] = "lost"]
    BY <1>35 DEF Escape, Goto
  <2>2. dpc' \in [Dev -> DevicePC]
    BY <2>1 DEF DevicePC
  <2>3. waiting' \subseteq Party
    BY <1>35 DEF Escape
  <2> QED BY <1>35, <2>2, <2>3 DEF Escape
<1>34. ASSUME NEW d \in Dev, InterruptAbort(d)
        PROVE  RestTypeOK'
  BY <1>34 DEF InterruptAbort, AbortBarrier, Goto, DevicePC
<1>6. ASSUME NEW d \in Dev, ForwardDone(d)
      PROVE  RestTypeOK'
  <2>1. data' \in [Places -> Seq(1 .. InputCount)]
    BY <1>6, PlacesOfDevice, MoveType DEF ForwardDone
  <2> QED BY <1>6, <2>1 DEF ForwardDone, Goto, DevicePC
<1>7. ASSUME NEW d \in Dev, ForwardRaises(d)
        PROVE  RestTypeOK'
  BY <1>7 DEF ForwardRaises, Goto, DevicePC
<1>8. ASSUME NEW d \in Dev, TryRunAbort(d)
        PROVE  RestTypeOK'
  BY <1>8 DEF TryRunAbort, AbortBarrier, Goto, DevicePC
<1>9. ASSUME NEW d \in Dev, DrainQueue(d)
      PROVE  RestTypeOK'
  <2>1. cmdq' \in [Dev -> Seq(Commands)]
    BY <1>9, TakeType DEF DrainQueue
  <2> QED BY <1>9, <2>1 DEF DrainQueue, Goto, DevicePC
<1>10. ASSUME NEW d \in Dev, JoinThread(d)
      PROVE  RestTypeOK'
  <2>1. xq' \in [Dev -> [Dirs -> Seq({"transfer", "quit"})]]
    <3>1. CASE ThreadsLeft(d) = {}
      BY <1>10, <3>1 DEF JoinThread
    <3>2. CASE ThreadsLeft(d) # {}
      <4>1. NextThread(d) \in Dirs
        BY <3>2, NextThreadType
      <4>2. xq' = [xq EXCEPT ![d][NextThread(d)] = Append(@, "quit")]
        BY <1>10, <3>2 DEF JoinThread
      <4> QED BY <4>1, <4>2, ThreadQueueType DEF ThreadItems
    <3> QED BY <3>1, <3>2
  <2> QED BY <1>10, <2>1 DEF JoinThread, Goto, DevicePC
<1>11. ASSUME NEW d \in Dev, ThreadJoined(d)
      PROVE  RestTypeOK'
  <2> DEFINE t == NextThread(d)
  <2> HIDE DEF t
  <2>1. /\ xpc' = [xpc EXCEPT ![d][t] = "none"]
        /\ xq' = [xq EXCEPT ![d][t] = <<>>]
    BY <1>11 DEF ThreadJoined, t
  <2>2. xq' \in [Dev -> [Dirs -> Seq({"transfer", "quit"})]]
    <3>1. CASE t \in Dirs
      BY <2>1, <3>1, ThreadQueueType DEF ThreadItems
    <3>2. CASE t \notin Dirs
      BY <2>1, <3>2
    <3> QED BY <3>1, <3>2
  <2>3. xpc' \in [Dev -> [Dirs -> ThreadPC]]
    BY <2>1 DEF ThreadPC
  <2> QED BY <1>11, <2>2, <2>3 DEF ThreadJoined, Goto, DevicePC
<1>12. ASSUME NEW d \in Dev, ArriveAtBarrier(d)
        PROVE  RestTypeOK'
  BY <1>12 DEF ArriveAtBarrier, Arrive, Goto, DevicePC, Party, Dev
<1>13. ASSUME NEW d \in Dev, PassBarrier(d)
        PROVE  RestTypeOK'
  BY <1>13 DEF PassBarrier, Goto, DevicePC
<1>14. ASSUME NEW d \in Dev, BarrierBroken(d)
        PROVE  RestTypeOK'
  BY <1>14 DEF BarrierBroken, AbortBarrier, Goto, DevicePC
<1>15. ASSUME NEW d \in Dev, CloseDevice(d)
        PROVE  RestTypeOK'
  BY <1>15 DEF CloseDevice, Goto, DevicePC
<1>16. ASSUME NEW d \in Dev, ExitProcess(d)
        PROVE  RestTypeOK'
  <2>1. dpc' = [dpc EXCEPT ![d] = "ended"] \/ dpc' = [dpc EXCEPT ![d] = "lost"]
    BY <1>16 DEF ExitProcess, Goto
  <2>2. dpc' \in [Dev -> DevicePC]
    BY <2>1 DEF DevicePC
  <2> QED BY <1>16, <2>2 DEF ExitProcess
<1>17. ASSUME NEW d \in Dev, NEW r \in Dirs, ThreadGet(d, r)
      PROVE  RestTypeOK'
  <2>1. xq' \in [Dev -> [Dirs -> Seq({"transfer", "quit"})]]
    BY <1>17, ThreadQueueType DEF ThreadGet, ThreadItems
  <2> QED BY <1>17, <2>1 DEF ThreadGet, ThreadPC
<1>18. ASSUME NEW d \in Dev, NEW r \in Dirs, ThreadSeesShutdown(d, r)
        PROVE  RestTypeOK'
  BY <1>18 DEF ThreadSeesShutdown, ThreadPC
<1>19. ASSUME NEW d \in Dev, NEW r \in Dirs, Transfer(d, r)
      PROVE  RestTypeOK'
  <2>1. From(r) \in Places /\ To(r) \in Places
    BY NAssumption DEF From, To, Places, InputQ, OutputQ
  <2>2. data' \in [Places -> Seq(1 .. InputCount)]
    BY <1>19, <2>1, MoveType DEF Transfer
  <2> QED BY <1>19, <2>2 DEF Transfer, ThreadPC
<1>20. ASSUME NEW d \in Dev, NEW r \in Dirs, TransferGivesUp(d, r)
        PROVE  RestTypeOK'
  <2>1. \/ xpc' = [xpc EXCEPT ![d][r] = "poll"]
        \/ xpc' = [xpc EXCEPT ![d][r] = "dead"]
    BY <1>20 DEF TransferGivesUp
  <2>2. xpc' \in [Dev -> [Dirs -> ThreadPC]]
    <3>1. CASE xpc' = [xpc EXCEPT ![d][r] = "poll"]
      BY <3>1 DEF ThreadPC
    <3>2. CASE xpc' = [xpc EXCEPT ![d][r] = "dead"]
      BY <3>2 DEF ThreadPC
    <3> QED BY <2>1, <3>1, <3>2
  <2> QED BY <1>20, <2>2 DEF TransferGivesUp
<1>21. ASSUME NEW d \in Dev, RunProgram(d)
      PROVE  RestTypeOK'
  <2>1. data' \in [Places -> Seq(1 .. InputCount)]
    BY <1>21, PlacesOfDevice, MoveType DEF RunProgram
  <2> QED BY <1>21, <2>1 DEF RunProgram
<1>22. ASSUME NEW d \in Dev, ProgramFails(d)
        PROVE  RestTypeOK'
  BY <1>22 DEF ProgramFails
<1>23. CASE PushInput
  <2> DEFINE S == 1 .. InputCount
  <2> HIDE DEF S
  <2>1. InputQ \in Places /\ pushed + 1 \in S
    BY <1>23, NAssumption, InputCountAssumption DEF PushInput, InputQ, Places, S
  <2>2. data[InputQ] \in Seq(S) /\ data \in [Places -> Seq(S)]
    BY <2>1 DEF S
  <2>3. Append(data[InputQ], pushed + 1) \in Seq(S)
    BY <2>1, <2>2, SeqFacts
  <2>4. data' \in [Places -> Seq(S)]
    BY <1>23, <2>2, <2>3 DEF PushInput
  <2> QED BY <1>23, <2>1, <2>4, InputCountAssumption DEF PushInput, S
<1>24. CASE ShutdownCalled
  BY <1>24 DEF ShutdownCalled, MainPC
<1>25. CASE SendQuit
  <2>1. cmdq' \in [Dev -> Seq(Commands)]
    <3>1. CASE mq = N
      BY <1>25, <3>1 DEF SendQuit
    <3>2. CASE mq # N
      <4>1. mq + 1 \in Dev /\ "quit" \in Commands /\ Put(mq + 1, "quit")
        BY <1>25, <3>2, NAssumption DEF SendQuit, Dev, Commands
      <4> QED BY <4>1, PutType
    <3> QED BY <3>1, <3>2
  <2> QED BY <1>25, <2>1, NAssumption DEF SendQuit, MainPC
<1>26. CASE MainArrives
  BY <1>26, NAssumption DEF MainArrives, MainPC, Arrive, Party, Main
<1>27. CASE MainPasses
  BY <1>27 DEF MainPasses, MainPC
<1>28. CASE MainBroken
  BY <1>28 DEF MainBroken, MainPC
<1>29. CASE ExitHandler
  BY <1>29 DEF ExitHandler, MainPC
<1>30. CASE LoopJoined
  BY <1>30 DEF LoopJoined, MainPC
<1>31. CASE ProcessesJoined
  BY <1>31 DEF ProcessesJoined, MainPC
<1>32. CASE Reap
  BY <1>32 DEF Reap, MainPC, DevicePC
<1>33. CASE UNCHANGED vars
  BY <1>33 DEF vars
<1> QED
  BY <1>1, <1>2, <1>3, <1>4, <1>5, <1>6, <1>7, <1>8, <1>9, <1>10, <1>11, <1>12,
     <1>13, <1>14, <1>15, <1>16, <1>17, <1>18, <1>19, <1>20, <1>21, <1>22,
     <1>23, <1>24, <1>25, <1>26, <1>27, <1>28, <1>29, <1>30, <1>31, <1>32,
     <1>33, <1>34, <1>35
  DEF Next, Loop, Device, Thread, Shutdown


\* The conjuncts of PipelineInv that are not types.
BarrierInv ==
    /\ ArrivedOnlyAtBarrier
    /\ OpenMeansAll
    /\ ThreadsEndedFirst
    /\ ClosedMeansAll
    /\ ForcedEndsAfterEvent
    /\ BrokenMeansEvent

LEMMA NoThreadsLeft ==
    ASSUME NEW d \in Dev, ThreadsLeft(d) = {}
    PROVE  \A r \in Dirs : xpc[d][r] = "none"
<1>1. DirOrder[1] = "forward_input" /\ DirOrder[2] = "forward"
  BY DEF DirOrder
<1>2. xpc[d][DirOrder[1]] = "none" /\ xpc[d][DirOrder[2]] = "none"
  BY DEF ThreadsLeft
<1> QED BY <1>1, <1>2 DEF Dirs

LEMMA BarrierFrame ==
    BarrierInv /\ UNCHANGED <<event, bstate, waiting, dpc, xpc, mpc>> => BarrierInv'
  BY DEF BarrierInv, ArrivedOnlyAtBarrier, OpenMeansAll, ThreadsEndedFirst,
         ClosedMeansAll, ForcedEndsAfterEvent, BrokenMeansEvent

\* Every step keeps the barrier invariant.
LEMMA BarrierStep == RestTypeOK /\ BarrierInv /\ [Next]_vars => BarrierInv'
<1> SUFFICES ASSUME RestTypeOK, BarrierInv, [Next]_vars
             PROVE  BarrierInv'
  OBVIOUS
<1> USE DEF syncVars, devVars, threadVars, dataVars, loopVars, mainVars
<1>0. dpc \in [Dev -> DevicePC] /\ xpc \in [Dev -> [Dirs -> ThreadPC]] /\ waiting \subseteq Party
  BY DEF RestTypeOK
<1>1. CASE LoopPush
  BY <1>1, BarrierFrame DEF LoopPush
<1>2. CASE LoopCheck
  BY <1>2, BarrierFrame DEF LoopCheck
<1>3. ASSUME NEW d \in Dev, NextCommand(d)
      PROVE  BarrierInv'
  <2>1. /\ dpc[d] = "next"
        /\ \/ dpc' = dpc \/ dpc' = [dpc EXCEPT ![d] = "forward"]
           \/ dpc' = [dpc EXCEPT ![d] = "join"]
        /\ \A e \in Dev : e # d => xpc'[e] = xpc[e]
        /\ UNCHANGED <<event, bstate, waiting, mpc>>
    BY <1>3, <1>0 DEF NextCommand, StartTransfer, StartForward, Goto
  <2>2. /\ \A e \in Dev : e # d => dpc'[e] = dpc[e]
        /\ dpc'[d] \in {"next", "forward", "join"}
    BY <1>0, <2>1
  <2>3. ArrivedOnlyAtBarrier'
    BY <2>1, <2>2 DEF BarrierInv, ArrivedOnlyAtBarrier
  <2>4. ThreadsEndedFirst'
    BY <2>1, <2>2 DEF BarrierInv, ThreadsEndedFirst
  <2>5. ClosedMeansAll'
    BY <2>1, <2>2 DEF BarrierInv, ClosedMeansAll
  <2>6. ForcedEndsAfterEvent'
    BY <2>1, <2>2 DEF BarrierInv, ForcedEndsAfterEvent
  <2> QED BY <2>1, <2>3, <2>4, <2>5, <2>6 DEF BarrierInv, OpenMeansAll, BrokenMeansEvent
<1>4. ASSUME NEW d \in Dev, SeeShutdown(d)
      PROVE  BarrierInv'
  BY <1>4, <1>0 DEF BarrierInv, ArrivedOnlyAtBarrier, OpenMeansAll, ThreadsEndedFirst,
         ClosedMeansAll, ForcedEndsAfterEvent, BrokenMeansEvent, SeeShutdown, AbortBarrier, Goto
<1>5. ASSUME NEW d \in Dev, Interrupt(d)
      PROVE  BarrierInv'
  BY <1>5, <1>0 DEF BarrierInv, ArrivedOnlyAtBarrier, OpenMeansAll, ThreadsEndedFirst,
         ClosedMeansAll, ForcedEndsAfterEvent, BrokenMeansEvent, Interrupt, Goto
<1>35. ASSUME NEW d \in Dev, Escape(d)
      PROVE  BarrierInv'
  <2>1. /\ \A e \in Dev : e # d => dpc'[e] = dpc[e]
        /\ dpc'[d] \in {"escaped", "lost"} /\ dpc[d] \in Running
        /\ UNCHANGED <<event, bstate, xpc, mpc>>
    BY <1>35, <1>0 DEF Escape, Goto
  <2>2. /\ waiting' \subseteq waiting
        /\ bstate = "filling" => d \notin waiting'
        /\ bstate # "filling" => waiting' = waiting
    BY <1>35 DEF Escape
  <2>3. ArrivedOnlyAtBarrier'
    <3> SUFFICES ASSUME NEW e \in Dev, e \in waiting'
                 PROVE  /\ dpc'[e] \in {"barrier", "closing", "ended", "escaped", "lost", "killed"}
                        /\ dpc'[e] \in {"escaped", "lost"} => \A r \in Dirs : xpc[e][r] = "none"
      BY <2>1 DEF ArrivedOnlyAtBarrier
    <3>1. e \in waiting
      BY <2>2
    <3>2. CASE e = d
      <4>1. dpc[d] \in {"barrier", "closing"}
        BY <2>1, <3>1, <3>2 DEF BarrierInv, ArrivedOnlyAtBarrier, Running
      <4> QED BY <2>1, <3>2, <4>1 DEF BarrierInv, ThreadsEndedFirst
    <3>3. CASE e # d
      BY <2>1, <3>1, <3>3 DEF BarrierInv, ArrivedOnlyAtBarrier
    <3> QED BY <3>2, <3>3
  <2>4. OpenMeansAll'
    <3>1. d \in Party
      BY NAssumption DEF Party, Dev
    <3> QED BY <2>1, <2>2, <3>1 DEF BarrierInv, OpenMeansAll
  <2>5. ThreadsEndedFirst'
    BY <2>1 DEF BarrierInv, ThreadsEndedFirst
  <2>6. ClosedMeansAll'
    <3> SUFFICES ASSUME NEW e \in Dev, dpc'[e] \in {"closing", "ended"}, ~event
                 PROVE  waiting' = Party /\ \A r \in Dirs : xpc[e][r] = "none"
      BY <2>1 DEF ClosedMeansAll
    <3>1. e # d /\ dpc[e] \in {"closing", "ended"}
      BY <2>1
    <3>2. waiting = Party /\ \A r \in Dirs : xpc[e][r] = "none"
      BY <3>1 DEF BarrierInv, ClosedMeansAll
    <3>3. bstate = "open"
      BY <1>0, <3>2 DEF BarrierInv, OpenMeansAll, BrokenMeansEvent, RestTypeOK
    <3> QED BY <2>2, <3>2, <3>3
  <2>7. ForcedEndsAfterEvent'
    BY <2>1 DEF BarrierInv, ForcedEndsAfterEvent
  <2> QED BY <2>1, <2>3, <2>4, <2>5, <2>6, <2>7 DEF BarrierInv, BrokenMeansEvent
<1>34. ASSUME NEW d \in Dev, InterruptAbort(d)
      PROVE  BarrierInv'
  BY <1>34, <1>0 DEF BarrierInv, ArrivedOnlyAtBarrier, OpenMeansAll, ThreadsEndedFirst,
         ClosedMeansAll, ForcedEndsAfterEvent, BrokenMeansEvent, InterruptAbort, AbortBarrier, Goto
<1>6. ASSUME NEW d \in Dev, ForwardDone(d)
      PROVE  BarrierInv'
  BY <1>6, <1>0 DEF BarrierInv, ArrivedOnlyAtBarrier, OpenMeansAll, ThreadsEndedFirst,
         ClosedMeansAll, ForcedEndsAfterEvent, BrokenMeansEvent, ForwardDone, Goto
<1>7. ASSUME NEW d \in Dev, ForwardRaises(d)
      PROVE  BarrierInv'
  BY <1>7, <1>0 DEF BarrierInv, ArrivedOnlyAtBarrier, OpenMeansAll, ThreadsEndedFirst,
         ClosedMeansAll, ForcedEndsAfterEvent, BrokenMeansEvent, ForwardRaises, Goto
<1>8. ASSUME NEW d \in Dev, TryRunAbort(d)
      PROVE  BarrierInv'
  BY <1>8, <1>0 DEF BarrierInv, ArrivedOnlyAtBarrier, OpenMeansAll, ThreadsEndedFirst,
         ClosedMeansAll, ForcedEndsAfterEvent, BrokenMeansEvent, TryRunAbort, AbortBarrier, Goto
<1>9. ASSUME NEW d \in Dev, DrainQueue(d)
      PROVE  BarrierInv'
  BY <1>9, <1>0 DEF BarrierInv, ArrivedOnlyAtBarrier, OpenMeansAll, ThreadsEndedFirst,
         ClosedMeansAll, ForcedEndsAfterEvent, BrokenMeansEvent, DrainQueue, Goto
<1>10. ASSUME NEW d \in Dev, JoinThread(d)
      PROVE  BarrierInv'
  <2>1. CASE ThreadsLeft(d) = {}
    <3>1. \A r \in Dirs : xpc[d][r] = "none"
      BY <2>1, NoThreadsLeft
    <3> QED BY <1>10, <1>0, <2>1, <3>1 DEF JoinThread, Goto, BarrierInv, ArrivedOnlyAtBarrier, OpenMeansAll,
         ThreadsEndedFirst, ClosedMeansAll, ForcedEndsAfterEvent, BrokenMeansEvent
  <2>2. CASE ThreadsLeft(d) # {}
    BY <1>10, <1>0, <2>2 DEF JoinThread, Goto, BarrierInv, ArrivedOnlyAtBarrier, OpenMeansAll,
         ThreadsEndedFirst, ClosedMeansAll, ForcedEndsAfterEvent, BrokenMeansEvent
  <2> QED BY <2>1, <2>2
<1>11. ASSUME NEW d \in Dev, ThreadJoined(d)
      PROVE  BarrierInv'
  BY <1>11, <1>0 DEF BarrierInv, ArrivedOnlyAtBarrier, OpenMeansAll, ThreadsEndedFirst,
         ClosedMeansAll, ForcedEndsAfterEvent, BrokenMeansEvent, ThreadJoined, Goto
<1>12. ASSUME NEW d \in Dev, ArriveAtBarrier(d)
      PROVE  BarrierInv'
  <2>1. waiting' = waiting \cup {d} /\ (waiting = Party => waiting' = Party)
    BY <1>12, NAssumption DEF ArriveAtBarrier, Arrive, Party, Dev
  <2>2. /\ bstate' = "open" => waiting' = Party
        /\ bstate' = "filling" => waiting' # Party
        /\ bstate' # "broken"
    BY <1>12, <2>1 DEF ArriveAtBarrier, Arrive, BarrierInv, OpenMeansAll
  <2>3. dpc[d] = "arrive" /\ dpc' = [dpc EXCEPT ![d] = "barrier"]
        /\ UNCHANGED <<event, xpc, mpc>>
    BY <1>12 DEF ArriveAtBarrier, Goto
  <2> QED BY <1>0, <2>1, <2>2, <2>3 DEF BarrierInv, ArrivedOnlyAtBarrier, OpenMeansAll,
         ThreadsEndedFirst, ClosedMeansAll, ForcedEndsAfterEvent, BrokenMeansEvent
<1>13. ASSUME NEW d \in Dev, PassBarrier(d)
      PROVE  BarrierInv'
  BY <1>13, <1>0 DEF BarrierInv, ArrivedOnlyAtBarrier, OpenMeansAll, ThreadsEndedFirst,
         ClosedMeansAll, ForcedEndsAfterEvent, BrokenMeansEvent, PassBarrier, Goto
<1>14. ASSUME NEW d \in Dev, BarrierBroken(d)
      PROVE  BarrierInv'
  BY <1>14, <1>0 DEF BarrierInv, ArrivedOnlyAtBarrier, OpenMeansAll, ThreadsEndedFirst,
         ClosedMeansAll, ForcedEndsAfterEvent, BrokenMeansEvent, BarrierBroken, AbortBarrier, Goto
<1>15. ASSUME NEW d \in Dev, CloseDevice(d)
      PROVE  BarrierInv'
  BY <1>15, <1>0 DEF BarrierInv, ArrivedOnlyAtBarrier, OpenMeansAll, ThreadsEndedFirst,
         ClosedMeansAll, ForcedEndsAfterEvent, BrokenMeansEvent, CloseDevice, Goto
<1>16. ASSUME NEW d \in Dev, ExitProcess(d)
      PROVE  BarrierInv'
  BY <1>16, <1>0 DEF BarrierInv, ArrivedOnlyAtBarrier, OpenMeansAll, ThreadsEndedFirst,
         ClosedMeansAll, ForcedEndsAfterEvent, BrokenMeansEvent, ExitProcess, Goto
<1>17. ASSUME NEW d \in Dev, NEW r \in Dirs, ThreadGet(d, r)
      PROVE  BarrierInv'
  BY <1>17, <1>0 DEF BarrierInv, ArrivedOnlyAtBarrier, OpenMeansAll, ThreadsEndedFirst,
         ClosedMeansAll, ForcedEndsAfterEvent, BrokenMeansEvent, ThreadGet
<1>18. ASSUME NEW d \in Dev, NEW r \in Dirs, ThreadSeesShutdown(d, r)
      PROVE  BarrierInv'
  BY <1>18, <1>0 DEF BarrierInv, ArrivedOnlyAtBarrier, OpenMeansAll, ThreadsEndedFirst,
         ClosedMeansAll, ForcedEndsAfterEvent, BrokenMeansEvent, ThreadSeesShutdown
<1>19. ASSUME NEW d \in Dev, NEW r \in Dirs, Transfer(d, r)
      PROVE  BarrierInv'
  BY <1>19, <1>0 DEF BarrierInv, ArrivedOnlyAtBarrier, OpenMeansAll, ThreadsEndedFirst,
         ClosedMeansAll, ForcedEndsAfterEvent, BrokenMeansEvent, Transfer
<1>20. ASSUME NEW d \in Dev, NEW r \in Dirs, TransferGivesUp(d, r)
      PROVE  BarrierInv'
  <2>1. /\ xpc[d][r] = "busy" /\ (event => event')
        /\ \E pc \in ThreadPC : xpc' = [xpc EXCEPT ![d][r] = pc]
        /\ UNCHANGED <<bstate, waiting, dpc, mpc>>
    BY <1>20 DEF TransferGivesUp, ThreadPC
  <2>2. \A e \in Dev, s \in Dirs : xpc[e][s] = "none" => xpc'[e][s] = "none"
    BY <1>0, <2>1
  <2>3. ArrivedOnlyAtBarrier' /\ ThreadsEndedFirst'
    BY <2>1, <2>2 DEF BarrierInv, ArrivedOnlyAtBarrier, ThreadsEndedFirst
  <2>4. ClosedMeansAll' /\ ForcedEndsAfterEvent'
    BY <2>1, <2>2 DEF BarrierInv, ClosedMeansAll, ForcedEndsAfterEvent
  <2> QED BY <2>1, <2>3, <2>4 DEF BarrierInv, OpenMeansAll, BrokenMeansEvent
<1>21. ASSUME NEW d \in Dev, RunProgram(d)
      PROVE  BarrierInv'
  BY <1>21, BarrierFrame DEF RunProgram
<1>22. ASSUME NEW d \in Dev, ProgramFails(d)
      PROVE  BarrierInv'
  BY <1>22, BarrierFrame DEF ProgramFails
<1>23. CASE PushInput
  BY <1>23, BarrierFrame DEF PushInput
<1>24. CASE ShutdownCalled
  BY <1>24, <1>0 DEF BarrierInv, ArrivedOnlyAtBarrier, OpenMeansAll, ThreadsEndedFirst,
         ClosedMeansAll, ForcedEndsAfterEvent, BrokenMeansEvent, ShutdownCalled, ErrorRaised
<1>25. CASE SendQuit
  BY <1>25, <1>0 DEF BarrierInv, ArrivedOnlyAtBarrier, OpenMeansAll, ThreadsEndedFirst,
         ClosedMeansAll, ForcedEndsAfterEvent, BrokenMeansEvent, SendQuit
<1>26. CASE MainArrives
  <2>1. waiting' = waiting \cup {Main} /\ (waiting = Party => waiting' = Party)
    BY <1>26, NAssumption DEF MainArrives, Arrive, Party, Main
  <2>2. /\ bstate' = "open" => waiting' = Party
        /\ bstate' = "filling" => waiting' # Party
        /\ bstate' # "broken"
    BY <1>26, <2>1 DEF MainArrives, Arrive, BarrierInv, OpenMeansAll
  <2>3. mpc' = "barrier" /\ UNCHANGED <<event, xpc, dpc>> /\ Main \notin Dev
    BY <1>26 DEF MainArrives, Main, Dev
  <2> QED BY <1>0, <2>1, <2>2, <2>3 DEF BarrierInv, ArrivedOnlyAtBarrier, OpenMeansAll,
         ThreadsEndedFirst, ClosedMeansAll, ForcedEndsAfterEvent, BrokenMeansEvent
<1>27. CASE MainPasses
  BY <1>27, <1>0 DEF BarrierInv, ArrivedOnlyAtBarrier, OpenMeansAll, ThreadsEndedFirst,
         ClosedMeansAll, ForcedEndsAfterEvent, BrokenMeansEvent, MainPasses
<1>28. CASE MainBroken
  BY <1>28, <1>0 DEF BarrierInv, ArrivedOnlyAtBarrier, OpenMeansAll, ThreadsEndedFirst,
         ClosedMeansAll, ForcedEndsAfterEvent, BrokenMeansEvent, MainBroken
<1>29. CASE ExitHandler
  BY <1>29, <1>0 DEF BarrierInv, ArrivedOnlyAtBarrier, OpenMeansAll, ThreadsEndedFirst,
         ClosedMeansAll, ForcedEndsAfterEvent, BrokenMeansEvent, ExitHandler, ErrorRaised
<1>30. CASE LoopJoined
  BY <1>30, <1>0 DEF BarrierInv, ArrivedOnlyAtBarrier, OpenMeansAll, ThreadsEndedFirst,
         ClosedMeansAll, ForcedEndsAfterEvent, BrokenMeansEvent, LoopJoined, ErrorRaised
<1>31. CASE ProcessesJoined
  BY <1>31, <1>0 DEF BarrierInv, ArrivedOnlyAtBarrier, OpenMeansAll, ThreadsEndedFirst,
         ClosedMeansAll, ForcedEndsAfterEvent, BrokenMeansEvent, ProcessesJoined
<1>32. CASE Reap
  BY <1>32, <1>0 DEF BarrierInv, ArrivedOnlyAtBarrier, OpenMeansAll, ThreadsEndedFirst,
         ClosedMeansAll, ForcedEndsAfterEvent, BrokenMeansEvent, Reap
<1>33. CASE UNCHANGED vars
  BY <1>33, BarrierFrame DEF vars
<1> QED
  BY <1>1, <1>2, <1>3, <1>4, <1>5, <1>6, <1>7, <1>8, <1>9, <1>10, <1>11, <1>12,
     <1>13, <1>14, <1>15, <1>16, <1>17, <1>18, <1>19, <1>20, <1>21, <1>22,
     <1>23, <1>24, <1>25, <1>26, <1>27, <1>28, <1>29, <1>30, <1>31, <1>32,
     <1>33, <1>34, <1>35
  DEF Next, Loop, Device, Thread, Shutdown

\* The shutdown event stays a Boolean.
LEMMA EventStep == event \in BOOLEAN /\ [Next]_vars => event' \in BOOLEAN
<1> SUFFICES ASSUME event \in BOOLEAN, [Next]_vars
             PROVE  event' \in BOOLEAN
  OBVIOUS
<1> USE DEF syncVars
<1>1. CASE LoopPush \/ LoopCheck
  BY <1>1, Zenon DEF LoopPush, LoopCheck
<1>2. ASSUME NEW d \in Dev, Device(d)
      PROVE  event' \in BOOLEAN
  BY <1>2, Zenon DEF Device, NextCommand, SeeShutdown, InterruptAbort, ForwardDone, ForwardRaises,
         TryRunAbort, DrainQueue, JoinThread, ThreadJoined, ArriveAtBarrier,
         PassBarrier, BarrierBroken, CloseDevice, ExitProcess
<1>3. ASSUME NEW d \in Dev, Interrupt(d) \/ Escape(d) \/ RunProgram(d) \/ ProgramFails(d)
      PROVE  event' \in BOOLEAN
  BY <1>3, Zenon DEF Interrupt, Escape, RunProgram, ProgramFails
<1>4. ASSUME NEW d \in Dev, NEW r \in Dirs, Thread(d, r)
      PROVE  event' \in BOOLEAN
  BY <1>4, Zenon DEF Thread, ThreadGet, ThreadSeesShutdown, Transfer, TransferGivesUp
<1>5. CASE PushInput \/ ShutdownCalled
  BY <1>5, Zenon DEF PushInput, ShutdownCalled
<1>6. CASE Shutdown
  BY <1>6, Zenon DEF Shutdown, SendQuit, MainArrives, MainPasses, MainBroken,
         ExitHandler, LoopJoined, ProcessesJoined, Reap
<1>7. CASE UNCHANGED vars
  BY <1>7, Zenon DEF vars
<1> QED BY <1>1, <1>2, <1>3, <1>4, <1>5, <1>6, <1>7, Zenon DEF Next, Loop

LEMMA InitInv == Init => event \in BOOLEAN /\ RestTypeOK /\ BarrierInv
<1> SUFFICES ASSUME Init
             PROVE  event \in BOOLEAN /\ RestTypeOK /\ BarrierInv
  OBVIOUS
<1>1. event \in BOOLEAN
  BY DEF Init
<1>2. RestTypeOK
  <2> DEFINE S == 1 .. InputCount
  <2> HIDE DEF S
  <2>1. data \in [Places -> Seq(S)]
    BY DEF Init
  <2>2. bstate \in {"filling", "open", "broken"} /\ waiting \subseteq Party
    BY DEF Init
  <2>3. cmdq \in [Dev -> Seq(Commands)] /\ dpc \in [Dev -> DevicePC]
    BY DEF Init, DevicePC
  <2>4. /\ xq \in [Dev -> [Dirs -> Seq({"transfer", "quit"})]]
        /\ xpc \in [Dev -> [Dirs -> ThreadPC]]
    BY DEF Init, ThreadPC
  <2>5. progs \in [Dev -> Nat] /\ hwdead \subseteq TTDevices
    BY DEF Init
  <2>6. lpc \in {"push", "check", "done"} /\ lpos \in Nat /\ mpc \in MainPC
    BY DEF Init, MainPC
  <2>7. mq \in 0 .. N /\ pushed \in 0 .. InputCount
    BY NAssumption, InputCountAssumption DEF Init
  <2> QED BY <2>1, <2>2, <2>3, <2>4, <2>5, <2>6, <2>7 DEF RestTypeOK, S
<1>3. BarrierInv
  <2>1. 0 \in Party
    BY NAssumption DEF Party
  <2> QED BY <2>1 DEF Init, BarrierInv, ArrivedOnlyAtBarrier, OpenMeansAll, ThreadsEndedFirst,
         ClosedMeansAll, ForcedEndsAfterEvent, BrokenMeansEvent
<1> QED BY <1>1, <1>2, <1>3

LEMMA PipelineInvSplit == PipelineInv <=> event \in BOOLEAN /\ RestTypeOK /\ BarrierInv
  BY Zenon DEF PipelineInv, TypeOK, RestTypeOK, BarrierInv

\* The inductive invariant holds in every reachable state: types, and how the
\* final barrier of _shutdown and QUIT, the transfer threads and the shutdown
\* event are related.
THEOREM PipelineInvariant == Spec => []PipelineInv
<1>1. Init => PipelineInv
  BY InitInv, PipelineInvSplit, Zenon
<1>2. PipelineInv /\ [Next]_vars => PipelineInv'
  <2> SUFFICES ASSUME PipelineInv, [Next]_vars
               PROVE  PipelineInv'
    OBVIOUS
  <2>1. event \in BOOLEAN /\ RestTypeOK /\ BarrierInv
    BY PipelineInvSplit, Zenon
  <2>2. event' \in BOOLEAN
    BY <2>1, EventStep, Zenon
  <2>3. RestTypeOK'
    BY <2>1, RestTypeStep, Zenon
  <2>4. BarrierInv'
    BY <2>1, BarrierStep, Zenon
  <2> QED BY <2>2, <2>3, <2>4, Zenon DEF PipelineInv, TypeOK, RestTypeOK, BarrierInv
<1> QED BY <1>1, <1>2, PTL DEF Spec

\* A device is closed only when no device can still be read from by another
\* one (QUIT in run_next_command: join the threads, wait at the barrier, then
\* shutdown_device), for any number and kind of devices.
THEOREM NoDeviceClosedEarly == Spec => []NoEarlyClose
<1>1. PipelineInv => NoEarlyClose
  <2> SUFFICES ASSUME PipelineInv, ~event,
                      NEW d \in Dev, dpc[d] \in {"closing", "ended"},
                      NEW e \in Dev
               PROVE  /\ dpc[e] \in {"barrier", "closing", "ended", "escaped", "lost"}
                      /\ \A r \in Dirs : xpc[e][r] = "none"
    BY DEF NoEarlyClose
  <2>1. e \in waiting
    BY NAssumption DEF PipelineInv, ClosedMeansAll, Party, Dev
  <2>2. dpc[e] \in {"barrier", "closing", "ended", "escaped", "lost"}
    BY <2>1 DEF PipelineInv, ArrivedOnlyAtBarrier, ForcedEndsAfterEvent
  <2>3. \A r \in Dirs : xpc[e][r] = "none"
    BY <2>1, <2>2 DEF PipelineInv, ArrivedOnlyAtBarrier, ThreadsEndedFirst, ClosedMeansAll
  <2> QED BY <2>2, <2>3
<1> QED BY <1>1, PipelineInvariant, PTL

\* Every place that aborts the final barrier (get_next_command, _try_run,
\* Device.run) has the shutdown event set by then, so that the others, who get
\* a BrokenBarrierError or nothing at all, find the error.
THEOREM NoSilentAbort == Spec => []BrokenMeansEvent
<1>1. PipelineInv => BrokenMeansEvent
  BY DEF PipelineInv
<1> QED BY <1>1, PipelineInvariant, PTL

-----------------------------------------------------------------------------
(* Order on the way. Every item that is at a place p or further on has     *)
(* left the places before it: b[p] items have come as far as p, and place  *)
(* p holds the ones that have not come as far as p + 1, in their order.    *)

\* The inputs m + 1, ..., n in that order.
Items(m, n) == [k \in 1 .. n - m |-> m + k]

Flow(b) ==
    /\ b[0] = pushed /\ b[N + 3] = 0
    /\ \A p \in Places : /\ b[p + 1] <= b[p] /\ b[p] <= pushed
                         /\ data[p] = Items(b[p + 1], b[p])
    /\ 1 \notin TTDevices => b[1] = b[2]
    /\ N \notin TTDevices => b[N + 1] = b[N + 2]
DataInOrder == \E b \in [0 .. N + 3 -> Nat] : Flow(b)
ThreadsAtTheEnds ==
    \A d \in Dev, r \in Dirs : xpc[d][r] # "none" => RealTransfer(d, r)
OnlyCPUsForward == \A d \in Dev : dpc[d] = "forward" => d \notin TTDevices
FlowInv == DataInOrder /\ ThreadsAtTheEnds /\ OnlyCPUsForward

\* A step of an item from place p to place q is along the pipeline: it passes
\* only over places that this pipeline does not have, and over both or none of
\* the places that are merged where there is no TTDevice at that end.
Hop(p, q) ==
    /\ p \in Places /\ q \in Places /\ p < q
    /\ \A x \in p + 1 .. q - 1 : \/ x = 1 /\ 1 \notin TTDevices
                                 \/ x = N + 1 /\ N \notin TTDevices
    /\ 1 \notin TTDevices => (p < 1 <=> (p < 2 /\ 2 <= q))
    /\ N \notin TTDevices => ((p < N + 1 /\ N + 1 <= q) <=> (p < N + 2 /\ N + 2 <= q))

LEMMA DeviceHops == ASSUME NEW d \in Dev PROVE Hop(Src(d), Dst(d))
<1> USE NAssumption DEF Hop, Src, Dst, Dev, Places, InputQ, OutputQ
<1>1. CASE d = 1 /\ d \notin TTDevices
  <2>1. CASE d = N
    BY <1>1, <2>1
  <2>2. CASE d # N
    BY <1>1, <2>2
  <2> QED BY <2>1, <2>2
<1>2. CASE ~(d = 1 /\ d \notin TTDevices)
  <2>1. CASE d = N
    BY <1>2, <2>1
  <2>2. CASE d # N
    BY <1>2, <2>2
  <2> QED BY <2>1, <2>2
<1> QED BY <1>1, <1>2

LEMMA TransferHops ==
    ASSUME NEW d \in Dev, NEW r \in Dirs, RealTransfer(d, r)
    PROVE  Hop(From(r), To(r))
  BY NAssumption DEF Hop, From, To, RealTransfer, Dirs, Places, InputQ, OutputQ

LEMMA HopLength ==
    ASSUME NEW p, NEW q, Hop(p, q)
    PROVE  q <= p + 3 /\ q > p /\ p \in Int /\ q \in Int
<1>1. q > p /\ p \in Int /\ q \in Int
  BY NAssumption DEF Hop, Places
<1>2. ASSUME q > p + 3
      PROVE  FALSE
  <2>1. p + 1 \in p + 1 .. q - 1 /\ p + 2 \in p + 1 .. q - 1 /\ p + 3 \in p + 1 .. q - 1
    BY <1>1, <1>2
  <2>2. \A x \in p + 1 .. q - 1 : x = 1 \/ x = N + 1
    BY DEF Hop
  <2> HIDE DEF Hop
  <2> QED BY <1>1, <2>1, <2>2, NAssumption
<1> QED BY <1>1, <1>2

LEMMA FlowAt ==
    ASSUME NEW b \in [0 .. N + 3 -> Nat], Flow(b), NEW x \in Places
    PROVE  /\ x \in 0 .. N + 3 /\ x + 1 \in 0 .. N + 3
           /\ b[x] \in Nat /\ b[x + 1] \in Nat
           /\ b[x + 1] <= b[x] /\ b[x] <= pushed
           /\ data[x] = Items(b[x + 1], b[x])
<1>1. x \in 0 .. N + 3 /\ x + 1 \in 0 .. N + 3
  BY NAssumption DEF Places
<1> QED BY <1>1 DEF Flow

LEMMA FlowSkips ==
    ASSUME NEW p, NEW q, Hop(p, q), NEW b \in [0 .. N + 3 -> Nat], Flow(b),
           NEW x \in p + 1 .. q - 1
    PROVE  b[x] = b[x + 1]
<1>1. \/ x = 1 /\ 1 \notin TTDevices
      \/ x = N + 1 /\ N \notin TTDevices
  BY DEF Hop
<1>2. CASE x = 1 /\ 1 \notin TTDevices
  BY <1>2 DEF Flow
<1>3. CASE x = N + 1 /\ N \notin TTDevices
  <2>1. b[N + 1] = b[N + 2] /\ x + 1 = N + 2
    BY <1>3, NAssumption DEF Flow
  <2> QED BY <1>3, <2>1
<1> QED BY <1>1, <1>2, <1>3

\* Places passed over are empty: the bound does not change across them.
LEMMA HopBounds ==
    ASSUME NEW p, NEW q, Hop(p, q), NEW b \in [0 .. N + 3 -> Nat], Flow(b)
    PROVE  b[p + 1] = b[q]
<1>1. ASSUME NEW x \in p + 1 .. q - 1
      PROVE  b[x] = b[x + 1]
  BY FlowSkips
<1>2. q <= p + 3 /\ q > p /\ p \in Int /\ q \in Int
  BY HopLength
<1>3. q = p + 1 \/ q = p + 2 \/ q = p + 3
  BY <1>2
<1> QED BY <1>1, <1>3, <1>2

\* The items of a place in order, taken from and appended to.
LEMMA RunOfItems ==
    ASSUME NEW m \in Nat, NEW n \in Nat, m <= n
    PROVE  /\ Items(m, n) \in Seq(Nat) /\ Len(Items(m, n)) = n - m
           /\ Items(m, n) # <<>> <=> m < n
           /\ \A k \in 1 .. n - m : Items(m, n)[k] = m + k
           /\ m < n => Head(Items(m, n)) = m + 1 /\ Tail(Items(m, n)) = Items(m + 1, n)
           /\ Append(Items(m, n), n + 1) = Items(m, n + 1)
<1> DEFINE s == Items(m, n)
<1>1. s \in Seq(Nat) /\ Len(s) = n - m
  BY DEF Items
<1>2. s # <<>> <=> m < n
  BY <1>1
<1>3. m < n => Head(s) = m + 1 /\ Tail(s) = Items(m + 1, n)
  BY <1>1 DEF Items
<1>4. Append(s, n + 1) = Items(m, n + 1)
  BY <1>1 DEF Items
<1>5. \A k \in 1 .. n - m : s[k] = m + k
  BY DEF Items
<1> QED BY <1>1, <1>2, <1>3, <1>4, <1>5

LEMMA MoveKeepsOrder ==
    ASSUME RestTypeOK, DataInOrder, NEW p, NEW q, Hop(p, q), Move(p, q), UNCHANGED pushed
    PROVE  DataInOrder'
<1>1. PICK b \in [0 .. N + 3 -> Nat] : Flow(b)
  BY DEF DataInOrder
<1> DEFINE c == [x \in 0 .. N + 3 |-> IF p < x /\ x <= q THEN b[x] + 1 ELSE b[x]]
<1>2. p \in Places /\ q \in Places /\ p < q /\ p \in Nat /\ q \in Nat /\ q <= N + 2
  BY NAssumption DEF Hop, Places
<1>a. c \in [0 .. N + 3 -> Nat]
  BY <1>2
<1>b. \A x \in 0 .. N + 3 : /\ p < x /\ x <= q => c[x] = b[x] + 1
                            /\ ~(p < x /\ x <= q) => c[x] = b[x]
  OBVIOUS
<1> HIDE DEF c
<1>3. b[p + 1] = b[q] /\ b[p + 1] \in Nat /\ b[p] \in Nat /\ b[p] <= pushed /\ pushed \in Nat
  <2>1. pushed \in Nat
    BY InputCountAssumption DEF RestTypeOK
  <2> QED BY <1>1, <1>2, <2>1, HopBounds, FlowAt
<1>4. b[p] > b[p + 1] /\ Head(data[p]) = b[p + 1] + 1 /\ Tail(data[p]) = Items(b[p + 1] + 1, b[p])
  <2>1. /\ b[p] \in Nat /\ b[p + 1] \in Nat /\ b[p + 1] <= b[p]
        /\ data[p] = Items(b[p + 1], b[p])
    BY <1>1, <1>2, FlowAt
  <2>2. data[p] # <<>>
    BY DEF Move
  <2>3. b[p + 1] < b[p]
    BY <2>1, <2>2, RunOfItems, Zenon
  <2> DEFINE m == b[p + 1]
             n == b[p]
  <2>4. m \in Nat /\ n \in Nat /\ m <= n /\ m < n /\ data[p] = Items(m, n)
    BY <2>1, <2>3
  <2> HIDE DEF m, n
  <2>5. Head(Items(m, n)) = m + 1 /\ Tail(Items(m, n)) = Items(m + 1, n)
    BY <2>4, RunOfItems
  <2>6. Head(data[p]) = m + 1 /\ Tail(data[p]) = Items(m + 1, n)
    BY <2>4, <2>5
  <2> QED BY <2>4, <2>6 DEF m, n
<1>6. ASSUME NEW x \in Places
      PROVE  /\ c[x + 1] <= c[x] /\ c[x] <= pushed
             /\ data'[x] = Items(c[x + 1], c[x])
  <2>0. /\ b[x] \in Nat /\ b[x + 1] \in Nat
        /\ b[x + 1] <= b[x] /\ b[x] <= pushed
        /\ data[x] = Items(b[x + 1], b[x])
        /\ x \in 0 .. N + 3 /\ x + 1 \in 0 .. N + 3 /\ x \in Nat
    <3>1. x \in Nat
      BY NAssumption DEF Places
    <3> QED BY <1>1, <3>1, FlowAt, Zenon
  <2>1. CASE x = p
    <3>1. c[x] = b[x] /\ c[x + 1] = b[x + 1] + 1
      BY <1>b, <2>0, <2>1, <1>2
    <3>2. data'[x] = Tail(data[p])
      BY <2>1, <1>2 DEF Move
    <3> QED BY <3>1, <3>2, <2>0, <2>1, <1>4
  <2>2. CASE x = q
    <3>1. c[x] = b[x] + 1 /\ c[x + 1] = b[x + 1]
      BY <1>b, <2>0, <2>2, <1>2
    <3>2. data'[x] = Append(data[x], b[x] + 1)
      BY <2>2, <1>2, <1>3, <1>4 DEF Move
    <3>3. b[x] < pushed
      BY <1>3, <1>4, <2>2
    <3>4. Append(Items(b[x + 1], b[x]), b[x] + 1) = Items(b[x + 1], b[x] + 1)
      BY <2>0, RunOfItems, Zenon
    <3> QED BY <3>1, <3>2, <3>3, <3>4, <2>0, <1>3
  <2>3. CASE x # p /\ x # q
    <3>1. data'[x] = data[x]
      BY <2>3 DEF Move
    <3>2. CASE p < x /\ x < q
      <4>1. c[x] = b[x] + 1 /\ c[x + 1] = b[x + 1] + 1
        BY <1>b, <2>0, <1>2, <3>2
      <4>2. b[x] = b[x + 1] /\ b[x] < pushed
        <5>1. x \in p + 1 .. q - 1
          BY <3>2, <1>2, <2>0
        <5>2. b[x] = b[x + 1]
          BY <5>1, <1>1, FlowSkips
        <5>3. b[x] <= b[p + 1]
          <6>1. x <= p + 2 /\ x >= p + 1
            BY <5>1, <1>2, HopLength
          <6>2. CASE x = p + 1
            BY <6>2, <2>0
          <6>3. CASE x = p + 2
            <7>1. p + 1 \in Places
              BY <6>3, <3>2, <1>2, NAssumption DEF Places
            <7>2. b[(p + 1) + 1] <= b[p + 1]
              BY <7>1, <1>1, FlowAt
            <7>3. (p + 1) + 1 = x
              BY <6>3, <1>2
            <7> QED BY <7>2, <7>3
          <6> QED BY <6>1, <6>2, <6>3, <1>2, <2>0
        <5> QED BY <5>2, <5>3, <2>0, <1>3, <1>4
      <4>3. data[x] = Items(b[x + 1] + 1, b[x] + 1)
        <5>1. b[x] - b[x + 1] = 0 /\ (b[x] + 1) - (b[x + 1] + 1) = 0
          BY <4>2, <2>0
        <5> QED BY <5>1, <2>0 DEF Items
      <4> QED BY <4>1, <4>2, <4>3, <3>1, <2>0, <1>3
    <3>3. CASE ~(p < x /\ x < q)
      <4>1. c[x] = b[x] /\ c[x + 1] = b[x + 1]
        BY <1>b, <2>0, <1>2, <3>3, <2>3
      <4> QED BY <4>1, <3>1, <2>0
    <3> QED BY <3>2, <3>3
  <2> QED BY <2>1, <2>2, <2>3
<1>7. c[0] = pushed /\ c[N + 3] = 0
  <2>1. 0 \in 0 .. N + 3 /\ N + 3 \in 0 .. N + 3 /\ ~(N + 3 <= q)
    BY <1>2, NAssumption
  <2>2. b[0] = pushed /\ b[N + 3] = 0
    BY <1>1 DEF Flow
  <2> QED BY <1>b, <1>2, <2>1, <2>2
<1>8. 1 \notin TTDevices => c[1] = c[2]
  <2>1. 1 \in 0 .. N + 3 /\ 2 \in 0 .. N + 3
    BY NAssumption
  <2>2. 1 \notin TTDevices => b[1] = b[2] /\ (p < 1 <=> (p < 2 /\ 2 <= q))
    BY <1>1 DEF Flow, Hop
  <2> QED BY <1>b, <1>2, <2>1, <2>2
<1>9. N \notin TTDevices => c[N + 1] = c[N + 2]
  <2>1. N + 1 \in 0 .. N + 3 /\ N + 2 \in 0 .. N + 3
    BY NAssumption
  <2>2. N \notin TTDevices => /\ b[N + 1] = b[N + 2]
                              /\ (p < N + 1 /\ N + 1 <= q) <=> (p < N + 2 /\ N + 2 <= q)
    BY <1>1 DEF Flow, Hop
  <2> QED BY <1>b, <1>2, <2>1, <2>2
<1>10. Flow(c)'
  BY <1>6, <1>7, <1>8, <1>9 DEF Flow
<1> QED BY <1>a, <1>10 DEF DataInOrder

LEMMA DataFrame == DataInOrder /\ UNCHANGED <<data, pushed>> => DataInOrder'
<1> SUFFICES ASSUME DataInOrder, UNCHANGED <<data, pushed>>
             PROVE  DataInOrder'
  OBVIOUS
<1>1. PICK b \in [0 .. N + 3 -> Nat] : Flow(b)
  BY DEF DataInOrder
<1>2. Flow(b)'
  BY <1>1 DEF Flow
<1> QED BY <1>2 DEF DataInOrder

\* A new input joins the user's queue behind the ones pushed before it.
LEMMA PushKeepsOrder == RestTypeOK /\ DataInOrder /\ PushInput => DataInOrder'
<1> SUFFICES ASSUME RestTypeOK, DataInOrder, PushInput
             PROVE  DataInOrder'
  OBVIOUS
<1>1. PICK b \in [0 .. N + 3 -> Nat] : Flow(b)
  BY DEF DataInOrder
<1>2. pushed \in Nat /\ pushed' = pushed + 1 /\ 0 \in 0 .. N + 3 /\ InputQ = 0 /\ 0 \in Places
  BY NAssumption, InputCountAssumption DEF RestTypeOK, PushInput, InputQ, Places
<1>3. data' = [data EXCEPT ![0] = Append(@, pushed + 1)] /\ data \in [Places -> Seq(1 .. InputCount)]
  BY <1>2 DEF PushInput, RestTypeOK
<1>4. PICK c \in [0 .. N + 3 -> Nat] :
          c[0] = pushed + 1 /\ \A x \in 0 .. N + 3 : x # 0 => c[x] = b[x]
  <2>1. [b EXCEPT ![0] = pushed + 1] \in [0 .. N + 3 -> Nat]
    BY <1>2
  <2> QED BY <2>1, <1>2
<1>5. b[0] = pushed /\ b[N + 3] = 0
  BY <1>1 DEF Flow
<1>6. ASSUME NEW x \in Places
      PROVE  /\ c[x + 1] <= c[x] /\ c[x] <= pushed'
             /\ data'[x] = Items(c[x + 1], c[x])
  <2>1. x \in Nat
    BY NAssumption DEF Places
  <2>2. /\ b[x] \in Nat /\ b[x + 1] \in Nat
        /\ b[x + 1] <= b[x] /\ b[x] <= pushed
        /\ data[x] = Items(b[x + 1], b[x])
        /\ x \in 0 .. N + 3 /\ x + 1 \in 0 .. N + 3
    BY <1>1, FlowAt, Zenon
  <2>3. c[x + 1] = b[x + 1]
    BY <1>4, <2>1, <2>2
  <2>4. CASE x = 0
    <3>1. Append(Items(b[x + 1], b[x]), b[x] + 1) = Items(b[x + 1], b[x] + 1)
      BY <2>2, RunOfItems, Zenon
    <3>2. data'[x] = Append(data[x], b[x] + 1)
      BY <1>3, <1>5, <2>4
    <3> QED BY <1>2, <1>4, <1>5, <2>2, <2>3, <2>4, <3>1, <3>2
  <2>5. CASE x # 0
    <3>1. data'[x] = data[x]
      BY <1>3, <2>5
    <3> QED BY <1>2, <1>4, <2>2, <2>3, <2>5, <3>1
  <2> QED BY <2>4, <2>5
<1>7. c[0] = pushed' /\ c[N + 3] = 0
  BY <1>2, <1>4, <1>5, NAssumption
<1>8. 1 \notin TTDevices => c[1] = c[2]
  <2>1. 1 \in 0 .. N + 3 /\ 2 \in 0 .. N + 3
    BY NAssumption
  <2> QED BY <1>1, <1>4, <2>1 DEF Flow
<1>9. N \notin TTDevices => c[N + 1] = c[N + 2]
  <2>1. N + 1 \in 0 .. N + 3 /\ N + 2 \in 0 .. N + 3 /\ N + 1 # 0 /\ N + 2 # 0
    BY NAssumption
  <2> QED BY <1>1, <1>4, <2>1 DEF Flow
<1>10. Flow(c)'
  BY <1>6, <1>7, <1>8, <1>9 DEF Flow
<1> QED BY <1>4, <1>10 DEF DataInOrder

LEMMA FlowInit == Init => FlowInv
<1> SUFFICES ASSUME Init
             PROVE  FlowInv
  OBVIOUS
<1> DEFINE b == [x \in 0 .. N + 3 |-> 0]
<1>1. Flow(b)
  <2>1. ASSUME NEW p \in Places
        PROVE  b[p] = 0 /\ b[p + 1] = 0 /\ data[p] = Items(b[p + 1], b[p])
    <3>1. p \in 0 .. N + 3 /\ p + 1 \in 0 .. N + 3
      BY NAssumption DEF Places
    <3>2. data[p] = <<>>
      BY DEF Init
    <3>3. Items(0, 0) = <<>>
      BY DEF Items
    <3> QED BY <3>1, <3>2, <3>3
  <2>2. pushed = 0
    BY DEF Init
  <2>3. b[0] = 0 /\ b[N + 3] = 0 /\ b[1] = 0 /\ b[2] = 0 /\ b[N + 1] = 0 /\ b[N + 2] = 0
    BY NAssumption
  <2> HIDE DEF b
  <2> QED BY <2>1, <2>2, <2>3 DEF Flow
<1>2. b \in [0 .. N + 3 -> Nat]
  OBVIOUS
<1>3. DataInOrder
  BY <1>1, <1>2 DEF DataInOrder
<1> QED BY <1>3 DEF FlowInv, Init, ThreadsAtTheEnds, OnlyCPUsForward

\* Every step keeps the data in order.
LEMMA FlowStep == RestTypeOK /\ FlowInv /\ [Next]_vars => FlowInv'
<1> SUFFICES ASSUME RestTypeOK, FlowInv, [Next]_vars
             PROVE  FlowInv'
  OBVIOUS
<1> USE DEF syncVars, devVars, threadVars, dataVars, loopVars, mainVars
<1>0. dpc \in [Dev -> DevicePC] /\ xpc \in [Dev -> [Dirs -> ThreadPC]]
  BY DEF RestTypeOK
<1>a. DataInOrder /\ ThreadsAtTheEnds /\ OnlyCPUsForward
  BY DEF FlowInv
<1>b. ASSUME UNCHANGED <<data, pushed>>
      PROVE  DataInOrder'
  BY <1>a, <1>b, DataFrame
\* Steps that move no data and start no thread and no forward run.
<1>c. ASSUME UNCHANGED <<data, pushed>>,
             \A d \in Dev, r \in Dirs : xpc'[d][r] # "none" => xpc[d][r] # "none",
             \A d \in Dev : dpc'[d] = "forward" => dpc[d] = "forward"
      PROVE  FlowInv'
  BY <1>a, <1>b, <1>c DEF FlowInv, ThreadsAtTheEnds, OnlyCPUsForward
<1>1. CASE LoopPush
  BY <1>1, <1>c DEF LoopPush
<1>2. CASE LoopCheck
  BY <1>2, <1>c DEF LoopCheck
<1>3. ASSUME NEW d \in Dev, NextCommand(d)
      PROVE  FlowInv'
  <2>1. DataInOrder'
    BY <1>3, <1>b DEF NextCommand
  <2>2. ThreadsAtTheEnds'
    <3>1. CASE Head(cmdq[d]) \in {"forward_input", "forward", "intermediates"}
               /\ StartTransfer(d, Head(cmdq[d]))
      BY <1>0, <1>a, <3>1 DEF StartTransfer, ThreadsAtTheEnds, RealTransfer
    <3>2. CASE UNCHANGED xpc
      BY <1>a, <3>2 DEF ThreadsAtTheEnds, RealTransfer
    <3> QED BY <1>3, <3>1, <3>2 DEF NextCommand, StartForward
  <2>3. OnlyCPUsForward'
    BY <1>0, <1>a, <1>3 DEF NextCommand, StartTransfer, StartForward, Goto, OnlyCPUsForward
  <2> QED BY <2>1, <2>2, <2>3 DEF FlowInv
<1>4. ASSUME NEW d \in Dev, SeeShutdown(d)
      PROVE  FlowInv'
  BY <1>0, <1>4, <1>c DEF SeeShutdown, Goto
<1>5. ASSUME NEW d \in Dev, Interrupt(d)
      PROVE  FlowInv'
  BY <1>0, <1>5, <1>c DEF Interrupt, Goto
<1>35. ASSUME NEW d \in Dev, Escape(d)
      PROVE  FlowInv'
  BY <1>0, <1>35, <1>c DEF Escape, Goto
<1>34. ASSUME NEW d \in Dev, InterruptAbort(d)
      PROVE  FlowInv'
  BY <1>0, <1>34, <1>c DEF InterruptAbort, Goto
<1>6. ASSUME NEW d \in Dev, ForwardDone(d)
      PROVE  FlowInv'
  <2>1. DataInOrder'
    BY <1>6, <1>a, DeviceHops, MoveKeepsOrder DEF ForwardDone
  <2> QED BY <1>0, <1>a, <1>6, <2>1 DEF ForwardDone, Goto, FlowInv, ThreadsAtTheEnds, OnlyCPUsForward, RealTransfer
<1>7. ASSUME NEW d \in Dev, ForwardRaises(d)
      PROVE  FlowInv'
  BY <1>0, <1>7, <1>c DEF ForwardRaises, Goto
<1>8. ASSUME NEW d \in Dev, TryRunAbort(d)
      PROVE  FlowInv'
  BY <1>0, <1>8, <1>c DEF TryRunAbort, Goto
<1>9. ASSUME NEW d \in Dev, DrainQueue(d)
      PROVE  FlowInv'
  BY <1>0, <1>9, <1>c DEF DrainQueue, Goto
<1>10. ASSUME NEW d \in Dev, JoinThread(d)
      PROVE  FlowInv'
  BY <1>0, <1>10, <1>c DEF JoinThread, Goto
<1>11. ASSUME NEW d \in Dev, ThreadJoined(d)
      PROVE  FlowInv'
  <2> DEFINE t == NextThread(d)
  <2> HIDE DEF t
  <2>1. xpc' = [xpc EXCEPT ![d][t] = "none"] /\ dpc' = [dpc EXCEPT ![d] = "join"]
        /\ UNCHANGED <<data, pushed>>
    BY <1>11 DEF ThreadJoined, Goto, t
  <2> QED BY <1>0, <2>1, <1>c
<1>12. ASSUME NEW d \in Dev, ArriveAtBarrier(d)
      PROVE  FlowInv'
  BY <1>0, <1>12, <1>c DEF ArriveAtBarrier, Goto
<1>13. ASSUME NEW d \in Dev, PassBarrier(d)
      PROVE  FlowInv'
  BY <1>0, <1>13, <1>c DEF PassBarrier, Goto
<1>14. ASSUME NEW d \in Dev, BarrierBroken(d)
      PROVE  FlowInv'
  BY <1>0, <1>14, <1>c DEF BarrierBroken, Goto
<1>15. ASSUME NEW d \in Dev, CloseDevice(d)
      PROVE  FlowInv'
  BY <1>0, <1>15, <1>c DEF CloseDevice, Goto
<1>16. ASSUME NEW d \in Dev, ExitProcess(d)
      PROVE  FlowInv'
  BY <1>0, <1>16, <1>c DEF ExitProcess, Goto
<1>17. ASSUME NEW d \in Dev, NEW r \in Dirs, ThreadGet(d, r)
      PROVE  FlowInv'
  BY <1>0, <1>17, <1>c DEF ThreadGet
<1>18. ASSUME NEW d \in Dev, NEW r \in Dirs, ThreadSeesShutdown(d, r)
      PROVE  FlowInv'
  BY <1>0, <1>18, <1>c DEF ThreadSeesShutdown
<1>19. ASSUME NEW d \in Dev, NEW r \in Dirs, Transfer(d, r)
      PROVE  FlowInv'
  <2>1. RealTransfer(d, r)
    BY <1>19, <1>a DEF Transfer, ThreadsAtTheEnds
  <2>2. DataInOrder'
    BY <1>19, <1>a, <2>1, TransferHops, MoveKeepsOrder DEF Transfer
  <2>3. xpc' = [xpc EXCEPT ![d][r] = "poll"] /\ xpc[d][r] = "busy" /\ UNCHANGED dpc
    BY <1>19 DEF Transfer
  <2>4. ThreadsAtTheEnds'
    BY <1>0, <1>a, <2>1, <2>3 DEF ThreadsAtTheEnds, RealTransfer
  <2> QED BY <1>a, <2>2, <2>3, <2>4 DEF FlowInv, OnlyCPUsForward
<1>20. ASSUME NEW d \in Dev, NEW r \in Dirs, TransferGivesUp(d, r)
      PROVE  FlowInv'
  <2>1. /\ xpc[d][r] = "busy" /\ UNCHANGED <<data, pushed, dpc>>
        /\ \/ xpc' = [xpc EXCEPT ![d][r] = "poll"]
           \/ xpc' = [xpc EXCEPT ![d][r] = "dead"]
    BY <1>20 DEF TransferGivesUp
  <2> QED BY <1>0, <2>1, <1>c
<1>21. ASSUME NEW d \in Dev, RunProgram(d)
      PROVE  FlowInv'
  <2>1. DataInOrder'
    BY <1>21, <1>a, DeviceHops, MoveKeepsOrder DEF RunProgram
  <2> QED BY <1>a, <1>21, <2>1 DEF RunProgram, FlowInv, ThreadsAtTheEnds, OnlyCPUsForward, RealTransfer
<1>22. ASSUME NEW d \in Dev, ProgramFails(d)
      PROVE  FlowInv'
  BY <1>22, <1>c DEF ProgramFails
<1>23. CASE PushInput
  <2>1. DataInOrder'
    BY <1>23, <1>a, PushKeepsOrder
  <2> QED BY <1>a, <1>23, <2>1 DEF PushInput, FlowInv, ThreadsAtTheEnds, OnlyCPUsForward, RealTransfer
<1>24. CASE ShutdownCalled
  BY <1>24, <1>c DEF ShutdownCalled
<1>25. CASE SendQuit
  BY <1>25, <1>c DEF SendQuit
<1>26. CASE MainArrives
  BY <1>26, <1>c DEF MainArrives
<1>27. CASE MainPasses
  BY <1>27, <1>c DEF MainPasses
<1>28. CASE MainBroken
  BY <1>28, <1>c DEF MainBroken
<1>29. CASE ExitHandler
  BY <1>29, <1>c DEF ExitHandler
<1>30. CASE LoopJoined
  BY <1>30, <1>c DEF LoopJoined
<1>31. CASE ProcessesJoined
  BY <1>31, <1>c DEF ProcessesJoined
<1>32. CASE Reap
  BY <1>0, <1>32, <1>c DEF Reap
<1>33. CASE UNCHANGED vars
  BY <1>33, <1>c DEF vars
<1> QED
  BY <1>1, <1>2, <1>3, <1>4, <1>5, <1>6, <1>7, <1>8, <1>9, <1>10, <1>11, <1>12,
     <1>13, <1>14, <1>15, <1>16, <1>17, <1>18, <1>19, <1>20, <1>21, <1>22,
     <1>23, <1>24, <1>25, <1>26, <1>27, <1>28, <1>29, <1>30, <1>31, <1>32,
     <1>33, <1>34, <1>35
  DEF Next, Loop, Device, Thread, Shutdown

\* The user's output queue holds the results for the first inputs, in order.
LEMMA OutputQueue ==
    RestTypeOK /\ DataInOrder =>
        OutputsInOrder /\ Len(data[OutputQ]) \in Nat /\ Len(data[OutputQ]) <= pushed
<1> SUFFICES ASSUME RestTypeOK, DataInOrder
             PROVE  OutputsInOrder /\ Len(data[OutputQ]) \in Nat /\ Len(data[OutputQ]) <= pushed
  OBVIOUS
<1>1. PICK b \in [0 .. N + 3 -> Nat] : Flow(b)
  BY DEF DataInOrder
<1>2. OutputQ \in Places /\ OutputQ + 1 = N + 3
  BY NAssumption DEF OutputQ, Places
<1> DEFINE n == b[OutputQ]
<1>3. n \in Nat /\ n <= pushed /\ data[OutputQ] = Items(0, n)
  <2>1. b[OutputQ + 1] = 0
    BY <1>1, <1>2 DEF Flow
  <2>2. /\ b[OutputQ] \in Nat /\ b[OutputQ] <= pushed
        /\ data[OutputQ] = Items(b[OutputQ + 1], b[OutputQ])
    BY <1>1, <1>2, FlowAt, Zenon
  <2> QED BY <2>1, <2>2
<1> HIDE DEF n
<1>4. Len(Items(0, n)) = n - 0 /\ \A k \in 1 .. n - 0 : Items(0, n)[k] = 0 + k
  <2>1. 0 \in Nat /\ 0 <= n
    BY <1>3
  <2> QED BY <1>3, <2>1, RunOfItems, Zenon
<1>5. Len(Items(0, n)) = n /\ \A k \in 1 .. n : Items(0, n)[k] = k
  <2>1. n - 0 = n
    BY <1>3
  <2> QED BY <1>3, <1>4, <2>1
<1>6. Len(data[OutputQ]) = n /\ \A k \in 1 .. n : data[OutputQ][k] = k
  BY <1>3, <1>5, Zenon
<1> QED BY <1>3, <1>6 DEF OutputsInOrder

\* The outputs reach the user's queue in the order of the inputs: none is lost,
\* repeated or overtaken on the way, whatever fails and whoever shuts down.
THEOREM OutputsStayInOrder == Spec => []OutputsInOrder
<1> DEFINE I == event \in BOOLEAN /\ RestTypeOK /\ BarrierInv /\ FlowInv
<1>1. Init => I
  BY InitInv, FlowInit, Zenon
<1>2. I /\ [Next]_vars => I'
  BY EventStep, RestTypeStep, BarrierStep, FlowStep, Zenon
<1>3. I => OutputsInOrder
  BY OutputQueue, Zenon DEF FlowInv
<1> QED BY <1>1, <1>2, <1>3, PTL DEF Spec

-----------------------------------------------------------------------------
(* Counting. How often a command waits in a queue, and division of the     *)
(* number of commands by the commands per input.                           *)

\* How often c waits in queue q, and how appending and taking change it.
Count(q, c) == Cardinality({i \in DOMAIN q : q[i] = c})

LEMMA CountFinite ==
    ASSUME NEW S, NEW q \in Seq(S), NEW c
    PROVE  IsFiniteSet({i \in DOMAIN q : q[i] = c}) /\ Count(q, c) \in Nat
<1>1. DOMAIN q = 1 .. Len(q) /\ Len(q) \in Nat
  OBVIOUS
<1>2. IsFiniteSet(1 .. Len(q))
  BY <1>1, FS_Interval
<1>3. {i \in DOMAIN q : q[i] = c} \subseteq 1 .. Len(q)
  BY <1>1
<1>4. IsFiniteSet({i \in DOMAIN q : q[i] = c})
  BY <1>2, <1>3, FS_Subset
<1> QED BY <1>4, FS_CardinalityType DEF Count

LEMMA CountEmpty == ASSUME NEW c PROVE Count(<<>>, c) = 0
<1>1. {i \in DOMAIN <<>> : <<>>[i] = c} = {}
  OBVIOUS
<1> QED BY <1>1, FS_EmptySet DEF Count

LEMMA CountAppend ==
    ASSUME NEW S, NEW q \in Seq(S), NEW e \in S, NEW c
    PROVE  Count(Append(q, e), c) = Count(q, c) + IF e = c THEN 1 ELSE 0
<1> DEFINE W(s) == {i \in DOMAIN s : s[i] = c}
           a == Append(q, e)
<1>1. IsFiniteSet(W(q)) /\ Count(q, c) \in Nat
  BY CountFinite
<1>2. /\ DOMAIN q = 1 .. Len(q) /\ Len(q) \in Nat
      /\ DOMAIN a = 1 .. Len(q) + 1 /\ a[Len(q) + 1] = e
      /\ \A i \in 1 .. Len(q) : a[i] = q[i]
  OBVIOUS
<1>3. Len(q) + 1 \notin W(q)
  BY <1>2
<1>c. Count(q, c) = Cardinality(W(q)) /\ Count(a, c) = Cardinality(W(a))
  BY DEF Count
<1> HIDE DEF W
<1>4. CASE e = c
  <2>1. W(a) = W(q) \cup {Len(q) + 1}
    BY <1>2, <1>4 DEF W
  <2>2. Cardinality(W(q) \cup {Len(q) + 1}) = Cardinality(W(q)) + 1
    BY <1>1, <1>3, FS_AddElement
  <2> QED BY <1>c, <1>4, <2>1, <2>2
<1>5. CASE e # c
  <2>1. W(a) = W(q)
    BY <1>2, <1>5 DEF W
  <2> QED BY <1>c, <1>1, <1>5, <2>1
<1> QED BY <1>4, <1>5

LEMMA CountTail ==
    ASSUME NEW S, NEW q \in Seq(S), q # <<>>, NEW c
    PROVE  Count(q, c) = Count(Tail(q), c) + IF Head(q) = c THEN 1 ELSE 0
<1> DEFINE W(s) == {i \in DOMAIN s : s[i] = c}
           t == Tail(q)
           f == [i \in W(t) |-> i + 1]
<1>1. /\ DOMAIN q = 1 .. Len(q) /\ Len(q) \in Nat /\ Len(q) > 0
      /\ DOMAIN t = 1 .. Len(q) - 1 /\ Head(q) = q[1] /\ t \in Seq(S)
      /\ \A i \in 1 .. Len(q) - 1 : t[i] = q[i + 1]
  OBVIOUS
<1>2. IsFiniteSet(W(q)) /\ Count(q, c) \in Nat
  BY CountFinite
<1>3. IsFiniteSet(W(t)) /\ Count(t, c) \in Nat
  BY <1>1, CountFinite
<1>4. f \in Bijection(W(t), W(q) \ {1})
  <2> HIDE DEF t
  <2>1. \A i \in W(t) : f[i] \in W(q) \ {1}
    BY <1>1
  <2>2. \A i, j \in W(t) : f[i] = f[j] => i = j
    BY <1>1
  <2>3. \A i \in W(q) \ {1} : i - 1 \in W(t) /\ f[i - 1] = i
    BY <1>1
  <2> HIDE DEF f
  <2>5. f \in [W(t) -> W(q) \ {1}]
    BY <2>1 DEF f
  <2> QED BY <2>2, <2>3, <2>5 DEF Bijection, Injection, Surjection, IsInjective
<1>5. Cardinality(W(q) \ {1}) = Cardinality(W(t))
  BY <1>3, <1>4, FS_Bijection, Zenon DEF ExistsBijection
<1>c. Count(q, c) = Cardinality(W(q)) /\ Count(t, c) = Cardinality(W(t))
  BY DEF Count
<1> HIDE DEF f, t, W
<1>6. CASE Head(q) = c
  <2>1. 1 \in W(q)
    BY <1>1, <1>6 DEF W
  <2>2. Cardinality(W(q) \ {1}) = Cardinality(W(q)) - 1
    BY <1>2, <2>1, FS_RemoveElement
  <2> QED BY <1>c, <1>2, <1>3, <1>5, <1>6, <2>2 DEF t
<1>7. CASE Head(q) # c
  <2>1. W(q) \ {1} = W(q)
    BY <1>1, <1>7 DEF W
  <2>2. Count(q, c) = Count(t, c) /\ Count(t, c) \in Nat
    BY <1>c, <1>3, <1>5, <2>1, Zenon
  <2> QED BY <1>7, <2>2 DEF t
<1> QED BY <1>6, <1>7

\* The quotient and the remainder of a division are unique.
LEMMA DivisionUnique ==
    ASSUME NEW n \in Nat \ {0}, NEW i \in Nat, NEW j \in Nat,
           NEW k \in 0 .. n - 1, NEW l \in 0 .. n - 1,
           i * n + k = j * n + l
    PROVE  i = j /\ k = l
<1>1. ASSUME NEW x \in Nat, NEW y \in Nat, NEW u \in 0 .. n - 1, NEW v \in 0 .. n - 1,
             x * n + u = y * n + v
      PROVE  x <= y
  <2> SUFFICES ASSUME x > y
               PROVE  FALSE
    OBVIOUS
  <2> DEFINE z == x - y - 1
  <2>1. z \in Nat /\ x = y + 1 + z
    OBVIOUS
  <2> HIDE DEF z
  <2>2. z * n >= 0 /\ z * n \in Nat /\ y * n \in Nat
    BY <2>1
  <2>3. x * n = y * n + n + z * n
    BY <2>1
  <2> QED BY <1>1, <2>2, <2>3
<1>2. i <= j
  BY <1>1
<1>3. j <= i
  BY <1>1
<1>4. i = j
  BY <1>2, <1>3
<1>5. i * n = j * n /\ i * n \in Nat
  BY <1>4
<1> QED BY <1>4, <1>5

LEMMA RemainderIs ==
    ASSUME NEW n \in Nat \ {0}, NEW i \in Nat, NEW k \in 0 .. n - 1
    PROVE  (i * n + k) % n = k
<1> DEFINE m == i * n + k
           q == m \div n
           r == m % n
<1>1. m \in Nat
  <2>1. i * n \in Nat
    OBVIOUS
  <2> QED BY <2>1
<1> HIDE DEF m
<1>2. r \in 0 .. n - 1 /\ q \in Nat /\ m = n * q + r
  BY <1>1
<1> HIDE DEF q, r
<1>3. i * n + k = q * n + r
  BY <1>2 DEF m
<1>4. k = r
  BY <1>2, <1>3, DivisionUnique
<1> QED BY <1>4 DEF m, r

-----------------------------------------------------------------------------
(* A shutdown without errors. As long as the event is not set, QUIT        *)
(* follows all other commands of a device, a transfer thread ends after    *)
(* all its transfers, and the outputs that were ordered are in the output  *)
(* queue or still on their way through the last device.                    *)

QuitLast(q) == \A i \in DOMAIN q : q[i] = "quit" => i = Len(q)
NoQuit(q) == \A i \in DOMAIN q : q[i] # "quit"

LEMMA QuitFacts ==
    ASSUME NEW S, NEW q \in Seq(S)
    PROVE  /\ NoQuit(q) => QuitLast(q)
           /\ NoQuit(q) => \A e \in S : QuitLast(Append(q, e))
           /\ NoQuit(q) => \A e \in S : e # "quit" => NoQuit(Append(q, e))
           /\ q # <<>> /\ NoQuit(q) => NoQuit(Tail(q)) /\ Head(q) # "quit"
           /\ q # <<>> /\ QuitLast(q) => QuitLast(Tail(q))
           /\ q # <<>> /\ QuitLast(q) /\ Head(q) = "quit" => Tail(q) = <<>>
           /\ NoQuit(<<>>)
<1> USE DEF QuitLast, NoQuit
<1>1. NoQuit(q) => QuitLast(q)
  OBVIOUS
<1>2. NoQuit(q) => \A e \in S : QuitLast(Append(q, e))
  OBVIOUS
<1>3. NoQuit(q) => \A e \in S : e # "quit" => NoQuit(Append(q, e))
  OBVIOUS
<1>4. q # <<>> /\ NoQuit(q) => NoQuit(Tail(q)) /\ Head(q) # "quit"
  OBVIOUS
<1>5. q # <<>> /\ QuitLast(q) => QuitLast(Tail(q))
  OBVIOUS
<1>6. q # <<>> /\ QuitLast(q) /\ Head(q) = "quit" => Tail(q) = <<>>
  OBVIOUS
<1>7. NoQuit(<<>>)
  OBVIOUS
<1> QED BY <1>1, <1>2, <1>3, <1>4, <1>5, <1>6, <1>7

Working == {"next", "forward"}
Quitting == {"join", "joining", "arrive", "barrier", "closing", "ended", "escaped", "lost"}

\* Before an error: a thread that has ended has nothing left to do, quit is the
\* last thing it is sent, and before that it has not ended.
ThreadQueues ==
    \A d \in Dev, r \in Dirs :
       /\ xpc[d][r] # "dead"
       /\ xpc[d][r] \in {"none", "ended"} => xq[d][r] = <<>>
       /\ QuitLast(xq[d][r])
       /\ dpc[d] \in Working \cup {"join"} => NoQuit(xq[d][r]) /\ xpc[d][r] # "ended"
       /\ dpc[d] = "joining" =>
             /\ ThreadsLeft(d) # {}
             /\ r # NextThread(d) => NoQuit(xq[d][r]) /\ xpc[d][r] # "ended"
\* ... QUIT is the last command of a device.
CommandQueues ==
    \A d \in Dev :
       /\ dpc[d] \in Working \cup Quitting
       /\ QuitLast(cmdq[d])
       /\ d > mq => dpc[d] \in Working /\ NoQuit(cmdq[d])
       /\ dpc[d] \in Quitting => cmdq[d] = <<>>
\* ... shutdown() sends QUIT when all commands were issued.
MainOrder ==
    /\ mpc \notin {"raised", "reap"}
    /\ mpc = "user" => mq = 0
    /\ mpc # "user" => pushed = InputCount /\ lpc = "done"
    /\ lpc = "done" => lpos = LoopLength
    /\ mpc = "done" => \A d \in Dev : dpc[d] \in {"ended", "lost"}

LastCommand == IF N \in TTDevices THEN "forward" ELSE "run_forward"
LastIndex == IF N \in TTDevices THEN 2 * N ELSE 2 * N - 1
Pending ==
    Count(cmdq[N], LastCommand)
    + IF N \in TTDevices
      THEN Count(xq[N]["forward"], "transfer") + IF xpc[N]["forward"] = "busy" THEN 1 ELSE 0
      ELSE IF dpc[N] = "forward" THEN 1 ELSE 0
\* ... and every output that was ordered is in the output queue or its order is
\* still on its way through the last device.
Accounted == \E i \in Nat, k \in 0 .. PerInput - 1 :
    /\ lpos = i * PerInput + k
    /\ Pending + Len(data[OutputQ]) = i + IF k > LastIndex THEN 1 ELSE 0

QuietInv == ThreadQueues /\ CommandQueues /\ MainOrder /\ Accounted

\* The shutdown event is never cleared.
LEMMA EventStays == event /\ [Next]_vars => event'
<1> SUFFICES ASSUME event, [Next]_vars
             PROVE  event'
  OBVIOUS
<1> USE DEF syncVars
<1>1. CASE LoopPush \/ LoopCheck
  BY <1>1, Zenon DEF LoopPush, LoopCheck
<1>2. ASSUME NEW d \in Dev, Device(d)
      PROVE  event'
  BY <1>2, Zenon DEF Device, NextCommand, SeeShutdown, InterruptAbort, ForwardDone, ForwardRaises,
         TryRunAbort, DrainQueue, JoinThread, ThreadJoined, ArriveAtBarrier,
         PassBarrier, BarrierBroken, CloseDevice, ExitProcess
<1>3. ASSUME NEW d \in Dev, Interrupt(d) \/ Escape(d) \/ RunProgram(d) \/ ProgramFails(d)
      PROVE  event'
  BY <1>3, Zenon DEF Interrupt, Escape, RunProgram, ProgramFails
<1>4. ASSUME NEW d \in Dev, NEW r \in Dirs, Thread(d, r)
      PROVE  event'
  BY <1>4, Zenon DEF Thread, ThreadGet, ThreadSeesShutdown, Transfer, TransferGivesUp
<1>5. CASE PushInput \/ ShutdownCalled
  BY <1>5, Zenon DEF PushInput, ShutdownCalled
<1>6. CASE Shutdown
  BY <1>6, Zenon DEF Shutdown, SendQuit, MainArrives, MainPasses, MainBroken,
         ExitHandler, LoopJoined, ProcessesJoined, Reap
<1>7. CASE UNCHANGED vars
  BY <1>7, Zenon DEF vars
<1> QED BY <1>1, <1>2, <1>3, <1>4, <1>5, <1>6, <1>7, Zenon DEF Next, Loop

\* No process escaped from its loop before it had come to the barrier.
NoStrays == \A d \in Dev : dpc[d] \in {"escaped", "lost"} => d \in waiting

\* The steps that an error-free run consists of, in which a process may escape
\* once the barrier has opened.
Leaves(d) ==
    /\ dpc[d] \in {"barrier", "closing", "escaped"}
    /\ Goto(d, "escaped") \/ Goto(d, "lost")
    /\ UNCHANGED <<event, bstate, waiting, cmdq, threadVars, dataVars, loopVars, mainVars>>
QuietDevice(d) ==
    \/ NextCommand(d) \/ ForwardDone(d) \/ JoinThread(d) \/ ThreadJoined(d)
    \/ ArriveAtBarrier(d) \/ PassBarrier(d) \/ CloseDevice(d) \/ Leaves(d)
QuietMain ==
    \/ SendQuit \/ MainArrives \/ MainPasses \/ LoopJoined \/ ProcessesJoined
QuietNext ==
    \/ LoopPush \/ LoopCheck
    \/ \E d \in Dev : \/ QuietDevice(d) \/ RunProgram(d) \/ ProgramFails(d)
                      \/ \E r \in Dirs : ThreadGet(d, r) \/ Transfer(d, r)
    \/ PushInput \/ ShutdownCalled \/ QuietMain
    \/ UNCHANGED vars

LEMMA QuietSteps ==
    ASSUME event \in BOOLEAN, event' \in BOOLEAN, BarrierInv,
           CommandQueues, MainOrder, NoStrays, NoStrays', [Next]_vars, ~event',
           RestTypeOK
    PROVE  ~event /\ bstate # "broken" /\ QuietNext
<1>1. ~event
  BY EventStays
<1>2. bstate # "broken"
  BY <1>1 DEF BarrierInv, BrokenMeansEvent
<1>3. ASSUME NEW d \in Dev, Device(d)
      PROVE  QuietDevice(d)
  <2>1. dpc[d] \notin {"interrupted", "abort", "drain", "exiting"}
    BY DEF CommandQueues, Working, Quitting
  <2>2. ~SeeShutdown(d) /\ ~ForwardRaises(d) /\ ~BarrierBroken(d)
    BY <1>1, <1>2 DEF SeeShutdown, ForwardRaises, BarrierBroken
  <2>3. ~InterruptAbort(d) /\ ~TryRunAbort(d) /\ ~DrainQueue(d)
    BY <2>1 DEF InterruptAbort, TryRunAbort, DrainQueue
  <2>4. ExitProcess(d) => Leaves(d)
    BY <2>1 DEF ExitProcess, Leaves, syncVars
  <2> QED BY <1>3, <2>2, <2>3, <2>4, Zenon DEF Device, QuietDevice
<1>8. ASSUME NEW d \in Dev, Escape(d)
      PROVE  QuietDevice(d)
  <2>1. dpc'[d] \in {"escaped", "lost"} /\ dpc[d] \in Running
    BY <1>8 DEF Escape, Goto, RestTypeOK
  <2>2. d \in waiting' /\ waiting' = waiting
    BY <1>8, <2>1 DEF NoStrays, Escape
  <2>3. dpc[d] \in {"barrier", "closing"}
    BY <2>1, <2>2 DEF BarrierInv, ArrivedOnlyAtBarrier, Running
  <2> QED BY <1>8, <2>2, <2>3 DEF Escape, Leaves, QuietDevice
<1>4. ASSUME NEW d \in Dev
      PROVE  ~Interrupt(d)
  BY <1>1 DEF Interrupt
<1>5. ASSUME NEW d \in Dev, NEW r \in Dirs, Thread(d, r)
      PROVE  ThreadGet(d, r) \/ Transfer(d, r)
  BY <1>1, <1>5, Zenon DEF Thread, ThreadSeesShutdown, TransferGivesUp
<1>6. ASSUME Shutdown
      PROVE  QuietMain
  <2>1. ~MainBroken /\ ~ExitHandler /\ ~Reap
    BY <1>2 DEF MainOrder, MainBroken, ExitHandler, Reap
  <2> QED BY <1>6, <2>1, Zenon DEF Shutdown, QuietMain
<1>7. QuietNext
  BY <1>3, <1>4, <1>5, <1>6, <1>8, Zenon DEF Next, Loop, QuietNext
<1> QED BY <1>1, <1>2, <1>7

\* The device queues while the commands are issued and taken.
LEMMA CommandQueuesStep ==
    ASSUME RestTypeOK, CommandQueues, ThreadQueues, MainOrder, OnlyCPUsForward, QuietNext
    PROVE  CommandQueues'
<1> USE DEF syncVars, devVars, threadVars, dataVars, loopVars, mainVars
<1>0. /\ dpc \in [Dev -> DevicePC] /\ cmdq \in [Dev -> Seq(Commands)]
      /\ mq \in 0 .. N
      /\ \A d \in Dev : cmdq[d] \in Seq(Commands) /\ d \in Nat
  BY NAssumption DEF RestTypeOK, Dev
\* Steps that change neither the queues nor mq, and keep a device on its side.
<1>a. ASSUME UNCHANGED <<cmdq, mq>>,
             \A d \in Dev : \/ dpc'[d] = dpc[d]
                            \/ dpc[d] \in Working /\ dpc'[d] \in Working
                            \/ dpc[d] \in Quitting /\ dpc'[d] \in Quitting
      PROVE  CommandQueues'
  BY <1>a DEF CommandQueues, Working, Quitting
<1>1. CASE LoopPush
  <2> DEFINE k == lpos % PerInput
             d == DeviceAt(k)
             c == CommandAt(k)
  <2>1. d \in Dev /\ c \in Commands /\ c # "quit"
    <3>1. k \in Nat /\ k < PerInput
      BY LoopIndex DEF RestTypeOK
    <3>2. d \in Dev /\ c \in Commands
      BY <3>1, LoopTarget
    <3>3. c # "quit"
      BY DEF CommandAt
    <3> QED BY <3>2, <3>3
  <2>2. mq = 0 /\ cmdq' = [cmdq EXCEPT ![d] = Append(@, c)] /\ UNCHANGED <<dpc, mq>>
    BY <1>1 DEF LoopPush, Put, MainOrder
  <2> HIDE DEF d, c
  <2>3. dpc[d] \in Working /\ NoQuit(cmdq[d])
    BY <2>1, <2>2, <1>0 DEF CommandQueues, Dev
  <2>4. QuitLast(cmdq'[d]) /\ NoQuit(cmdq'[d]) /\ \A e \in Dev : e # d => cmdq'[e] = cmdq[e]
    <3>1. cmdq'[d] = Append(cmdq[d], c)
      BY <1>0, <2>1, <2>2
    <3>2. NoQuit(Append(cmdq[d], c)) /\ QuitLast(Append(cmdq[d], c))
      BY <1>0, <2>1, <2>3, QuitFacts
    <3> QED BY <1>0, <2>2, <3>1, <3>2
  <2> QED BY <2>2, <2>3, <2>4 DEF CommandQueues, Working, Quitting
<1>2. CASE LoopCheck
  BY <1>2, <1>a DEF LoopCheck
<1>3. ASSUME NEW d \in Dev, NextCommand(d)
      PROVE  CommandQueues'
  <2>1. /\ dpc[d] = "next" /\ cmdq[d] # <<>> /\ mq' = mq
        /\ cmdq' = [cmdq EXCEPT ![d] = Tail(@)]
        /\ \A e \in Dev : e # d => dpc'[e] = dpc[e]
        /\ \/ Head(cmdq[d]) # "quit" /\ dpc'[d] \in Working
           \/ Head(cmdq[d]) = "quit" /\ dpc'[d] = "join"
    BY <1>0, <1>3 DEF NextCommand, StartTransfer, StartForward, Goto, Working
  <2>2. cmdq'[d] = Tail(cmdq[d]) /\ \A e \in Dev : e # d => cmdq'[e] = cmdq[e]
    BY <1>0, <2>1
  <2>3. /\ QuitLast(Tail(cmdq[d]))
        /\ Head(cmdq[d]) = "quit" => Tail(cmdq[d]) = <<>> /\ ~(d > mq)
        /\ d > mq => NoQuit(Tail(cmdq[d]))
    BY <1>0, <2>1, QuitFacts DEF CommandQueues
  <2> QED BY <2>1, <2>2, <2>3 DEF CommandQueues, Working, Quitting
<1>4. ASSUME NEW d \in Dev, ForwardDone(d)
      PROVE  CommandQueues'
  BY <1>0, <1>4, <1>a DEF ForwardDone, Goto, Working
<1>5. ASSUME NEW d \in Dev, JoinThread(d)
      PROVE  CommandQueues'
  <2>1. /\ UNCHANGED <<cmdq, mq>>
        /\ dpc[d] = "join"
        /\ \/ dpc' = [dpc EXCEPT ![d] = "arrive"]
           \/ dpc' = [dpc EXCEPT ![d] = "joining"]
    BY <1>5 DEF JoinThread, Goto
  <2> QED BY <1>0, <2>1, <1>a DEF Quitting
<1>6. ASSUME NEW d \in Dev, ThreadJoined(d)
      PROVE  CommandQueues'
  BY <1>0, <1>6, <1>a DEF ThreadJoined, Goto, Quitting
<1>7. ASSUME NEW d \in Dev, ArriveAtBarrier(d)
      PROVE  CommandQueues'
  BY <1>0, <1>7, <1>a DEF ArriveAtBarrier, Goto, Quitting
<1>8. ASSUME NEW d \in Dev, PassBarrier(d)
      PROVE  CommandQueues'
  BY <1>0, <1>8, <1>a DEF PassBarrier, Goto, Quitting
<1>9. ASSUME NEW d \in Dev, CloseDevice(d)
      PROVE  CommandQueues'
  BY <1>0, <1>9, <1>a DEF CloseDevice, Goto, Quitting
<1>16. ASSUME NEW d \in Dev, Leaves(d)
      PROVE  CommandQueues'
  <2>1. /\ UNCHANGED <<cmdq, mq>>
        /\ dpc[d] \in {"barrier", "closing", "escaped"}
        /\ \/ dpc' = [dpc EXCEPT ![d] = "escaped"]
           \/ dpc' = [dpc EXCEPT ![d] = "lost"]
    BY <1>16 DEF Leaves, Goto
  <2> QED BY <1>0, <2>1, <1>a DEF Quitting
<1>10. ASSUME NEW d \in Dev, RunProgram(d) \/ ProgramFails(d)
      PROVE  CommandQueues'
  BY <1>10, <1>a DEF RunProgram, ProgramFails
<1>11. ASSUME NEW d \in Dev, NEW r \in Dirs, ThreadGet(d, r) \/ Transfer(d, r)
      PROVE  CommandQueues'
  BY <1>11, <1>a DEF ThreadGet, Transfer
<1>12. CASE PushInput \/ ShutdownCalled
  BY <1>12, <1>a DEF PushInput, ShutdownCalled
<1>13. CASE SendQuit
  <2>1. CASE mq = N
    BY <1>13, <1>a, <2>1 DEF SendQuit
  <2>2. CASE mq # N
    <3> DEFINE d == mq + 1
    <3>1. d \in Dev /\ cmdq' = [cmdq EXCEPT ![d] = Append(@, "quit")] /\ mq' = d /\ UNCHANGED dpc
      BY <1>0, <1>13, <2>2, NAssumption DEF SendQuit, Put, Dev
    <3>2. dpc[d] \in Working /\ NoQuit(cmdq[d])
      BY <1>0, <3>1 DEF CommandQueues
    <3>3. QuitLast(Append(cmdq[d], "quit"))
      <4>1. "quit" \in Commands
        BY DEF Commands
      <4> QED BY <1>0, <3>1, <3>2, <4>1, QuitFacts
    <3>4. cmdq'[d] = Append(cmdq[d], "quit") /\ \A e \in Dev : e # d => cmdq'[e] = cmdq[e]
      BY <1>0, <3>1
    <3>5. \A e \in Dev : e > mq' => e > mq /\ e # d
      BY <1>0, <3>1
    <3> HIDE DEF d
    <3> QED BY <3>1, <3>2, <3>3, <3>4, <3>5 DEF CommandQueues, Working, Quitting
  <2> QED BY <2>1, <2>2
<1>14. CASE MainArrives \/ MainPasses \/ LoopJoined \/ ProcessesJoined
  BY <1>14, <1>a DEF MainArrives, MainPasses, LoopJoined, ProcessesJoined
<1>15. CASE UNCHANGED vars
  BY <1>15, <1>a DEF vars
<1> QED BY <1>1, <1>2, <1>3, <1>4, <1>5, <1>6, <1>7, <1>8, <1>9, <1>10, <1>11, <1>12,
           <1>13, <1>14, <1>15, <1>16, Zenon DEF QuietNext, QuietDevice, QuietMain

LEMMA MainOrderStep ==
    ASSUME RestTypeOK, CommandQueues, MainOrder, QuietNext, ~event, bstate # "broken",
           Patience = "issued"
    PROVE  MainOrder'
<1> USE DEF syncVars, devVars, threadVars, dataVars, loopVars, mainVars
<1>0. dpc \in [Dev -> DevicePC]
  BY DEF RestTypeOK
<1>1. CASE LoopPush
  <2>1. lpc = "push" /\ lpc' # "done" /\ UNCHANGED <<mpc, mq, pushed, dpc>>
    BY <1>1 DEF LoopPush
  <2> QED BY <2>1 DEF MainOrder
<1>2. CASE LoopCheck
  BY <1>2 DEF LoopCheck, ErrorRaised, MainOrder, LoopLength
\* A device that has ended does nothing.
<1>3. ASSUME UNCHANGED <<lpc, lpos, mpc, mq, pushed>>,
             \A d \in Dev : dpc[d] \in {"ended", "lost"} => dpc'[d] = dpc[d]
      PROVE  MainOrder'
  BY <1>3 DEF MainOrder, LoopLength
<1>4. ASSUME NEW d \in Dev, QuietDevice(d)
      PROVE  MainOrder'
  <2>1. UNCHANGED <<lpc, lpos, mpc, mq, pushed>>
    BY <1>4 DEF QuietDevice, NextCommand, ForwardDone, JoinThread, ThreadJoined,
           ArriveAtBarrier, PassBarrier, CloseDevice, Leaves
  <2>2. CASE NextCommand(d)
    BY <1>0, <1>3, <2>1, <2>2 DEF NextCommand, StartTransfer, StartForward, Goto
  <2>3. CASE JoinThread(d)
    <3>1. /\ dpc[d] = "join"
          /\ \/ dpc' = [dpc EXCEPT ![d] = "arrive"]
             \/ dpc' = [dpc EXCEPT ![d] = "joining"]
      BY <2>3 DEF JoinThread, Goto
    <3> QED BY <1>0, <1>3, <2>1, <3>1
  <2>4. CASE ForwardDone(d) \/ ThreadJoined(d) \/ ArriveAtBarrier(d) \/ PassBarrier(d) \/ CloseDevice(d)
    BY <1>0, <1>3, <2>1, <2>4 DEF ForwardDone, ThreadJoined, ArriveAtBarrier, PassBarrier,
           CloseDevice, Goto
  <2>5. CASE Leaves(d)
    <3>1. /\ dpc[d] \in {"barrier", "closing", "escaped"}
          /\ \/ dpc' = [dpc EXCEPT ![d] = "escaped"]
             \/ dpc' = [dpc EXCEPT ![d] = "lost"]
      BY <2>5 DEF Leaves, Goto
    <3> QED BY <1>0, <1>3, <2>1, <3>1
  <2> QED BY <1>4, <2>2, <2>3, <2>4, <2>5, Zenon DEF QuietDevice
<1>5. ASSUME NEW d \in Dev, RunProgram(d) \/ ProgramFails(d)
      PROVE  MainOrder'
  BY <1>5, <1>3 DEF RunProgram, ProgramFails
<1>6. ASSUME NEW d \in Dev, NEW r \in Dirs, ThreadGet(d, r) \/ Transfer(d, r)
      PROVE  MainOrder'
  BY <1>6, <1>3 DEF ThreadGet, Transfer
<1>7. CASE PushInput
  BY <1>7 DEF PushInput, MainOrder, LoopLength
<1>8. CASE ShutdownCalled
  BY <1>8 DEF ShutdownCalled, MayShutdown, ErrorRaised, MainOrder, LoopLength
<1>9. CASE QuietMain
  <2>1. CASE ProcessesJoined
    <3>1. \A d \in Dev : dpc[d] \in {"ended", "lost"}
      BY <2>1 DEF ProcessesJoined, Gone, CommandQueues, Working, Quitting
    <3> QED BY <2>1, <3>1 DEF ProcessesJoined, MainOrder, LoopLength
  <2>2. CASE SendQuit \/ MainArrives \/ MainPasses \/ LoopJoined
    BY <2>2 DEF SendQuit, MainArrives, MainPasses, LoopJoined, ErrorRaised, MainOrder, LoopLength
  <2> QED BY <1>9, <2>1, <2>2 DEF QuietMain
<1>10. CASE UNCHANGED vars
  BY <1>10, <1>3 DEF vars
<1> QED BY <1>1, <1>2, <1>4, <1>5, <1>6, <1>7, <1>8, <1>9, <1>10, Zenon DEF QuietNext

\* NextThread as a function of the threads that are left.
FirstOf(S) == CHOOSE i \in S : \A j \in S : i <= j

LEMMA NextThreadKept ==
    ASSUME NEW d \in Dev, \A r \in Dirs : xpc'[d][r] = "none" <=> xpc[d][r] = "none"
    PROVE  ThreadsLeft(d)' = ThreadsLeft(d) /\ NextThread(d)' = NextThread(d)
<1>1. \A i \in 1 .. 2 : DirOrder[i] \in Dirs
  BY DEF DirOrder, Dirs
<1>2. ThreadsLeft(d)' = ThreadsLeft(d)
  BY <1>1 DEF ThreadsLeft
<1>3. NextThread(d)' = DirOrder[FirstOf(ThreadsLeft(d)')] /\ NextThread(d) = DirOrder[FirstOf(ThreadsLeft(d))]
  BY DEF NextThread, FirstOf
<1> QED BY <1>2, <1>3

LEMMA NextThreadIsLeft ==
    ASSUME NEW d \in Dev, ThreadsLeft(d) # {}
    PROVE  NextThread(d) \in Dirs /\ xpc[d][NextThread(d)] # "none"
<1>1. \E i \in ThreadsLeft(d) : \A j \in ThreadsLeft(d) : i <= j
  BY DEF ThreadsLeft
<1>2. NextThread(d) = DirOrder[FirstOf(ThreadsLeft(d))]
  BY DEF NextThread, FirstOf
<1>3. FirstOf(ThreadsLeft(d)) \in ThreadsLeft(d)
  BY <1>1 DEF FirstOf
<1>4. xpc[d][DirOrder[FirstOf(ThreadsLeft(d))]] # "none"
  BY <1>3 DEF ThreadsLeft
<1> QED BY <1>2, <1>4, NextThreadType

\* What ThreadQueues says of one thread.
ThreadOk(d, r) ==
    /\ xpc[d][r] # "dead"
    /\ xpc[d][r] \in {"none", "ended"} => xq[d][r] = <<>>
    /\ QuitLast(xq[d][r])
    /\ dpc[d] \in Working \cup {"join"} => NoQuit(xq[d][r]) /\ xpc[d][r] # "ended"
    /\ dpc[d] = "joining" =>
          /\ ThreadsLeft(d) # {}
          /\ r # NextThread(d) => NoQuit(xq[d][r]) /\ xpc[d][r] # "ended"

\* The queues of the transfer threads, until each has been sent its quit.
LEMMA ThreadQueuesStep ==
    ASSUME RestTypeOK, CommandQueues, ThreadQueues, MainOrder, QuietNext
    PROVE  ThreadQueues'
<1> USE DEF syncVars, devVars, threadVars, dataVars, loopVars, mainVars
<1>0. /\ dpc \in [Dev -> DevicePC]
      /\ xpc \in [Dev -> [Dirs -> ThreadPC]]
      /\ xq \in [Dev -> [Dirs -> Seq(ThreadItems)]]
      /\ \A d \in Dev, r \in Dirs : xq[d][r] \in Seq(ThreadItems)
  BY DEF RestTypeOK, ThreadItems
<1>z. \A d \in Dev, r \in Dirs : ThreadOk(d, r)
  BY Zenon DEF ThreadQueues, ThreadOk
<1>y. (\A d \in Dev, r \in Dirs : ThreadOk(d, r)') => ThreadQueues'
  BY Zenon DEF ThreadQueues, ThreadOk
\* The threads of a device of which nothing changes.
<1>x. ASSUME NEW e \in Dev, dpc'[e] = dpc[e], xpc'[e] = xpc[e], xq'[e] = xq[e], NEW s \in Dirs
      PROVE  ThreadOk(e, s)'
  <2>1. ThreadsLeft(e)' = ThreadsLeft(e) /\ NextThread(e)' = NextThread(e)
    BY <1>x, NextThreadKept
  <2> QED BY <1>x, <1>z, <2>1 DEF ThreadOk
\* Steps that leave the threads alone, and bring no device to a join.
<1>a. ASSUME UNCHANGED threadVars,
             \A d \in Dev : \/ dpc'[d] = dpc[d]
                            \/ dpc[d] \in Working /\ dpc'[d] \in Working \cup {"join"}
                            \/ dpc'[d] \in {"arrive", "barrier", "closing", "ended", "escaped", "lost"}
      PROVE  ThreadQueues'
  <2> SUFFICES ASSUME NEW d \in Dev, NEW r \in Dirs
               PROVE  ThreadOk(d, r)'
    BY <1>y
  <2>1. ThreadsLeft(d)' = ThreadsLeft(d) /\ NextThread(d)' = NextThread(d)
    BY <1>a, NextThreadKept
  <2> QED BY <1>a, <1>z, <2>1 DEF ThreadOk, Working
<1>1. CASE LoopPush \/ LoopCheck
  BY <1>1, <1>a DEF LoopPush, LoopCheck, Put
<1>3. ASSUME NEW d \in Dev, NextCommand(d)
      PROVE  ThreadQueues'
  <2> DEFINE c == Head(cmdq[d])
  <2>1. CASE c \in {"forward_input", "forward", "intermediates"} /\ StartTransfer(d, c) /\ RealTransfer(d, c)
    <3>1. /\ c \in Dirs /\ dpc[d] = "next" /\ UNCHANGED dpc
          /\ xq' = [xq EXCEPT ![d][c] = Append(@, "transfer")]
          /\ xpc' = [xpc EXCEPT ![d][c] = IF @ = "none" THEN "poll" ELSE @]
      BY <1>3, <2>1 DEF NextCommand, StartTransfer, RealTransfer, Dirs
    <3> HIDE DEF c
    <3>2. NoQuit(xq[d][c]) /\ xpc[d][c] # "ended" /\ xpc[d][c] # "dead" /\ QuitLast(xq[d][c])
      BY <3>1, <1>z DEF ThreadOk, Working
    <3>3. NoQuit(Append(xq[d][c], "transfer")) /\ QuitLast(Append(xq[d][c], "transfer"))
      <4>1. "transfer" \in ThreadItems /\ xq[d][c] \in Seq(ThreadItems) /\ "transfer" # "quit"
        BY <1>0, <3>1 DEF ThreadItems
      <4> QED BY <3>2, <4>1, QuitFacts
    <3>4. xq'[d][c] = Append(xq[d][c], "transfer") /\ xpc'[d][c] \notin {"none", "ended", "dead"}
      BY <1>0, <3>1, <3>2
    <3>5. \A s \in Dirs : s # c => xq'[d][s] = xq[d][s] /\ xpc'[d][s] = xpc[d][s]
      BY <1>0, <3>1
    <3>6. \A e \in Dev : e # d => xq'[e] = xq[e] /\ xpc'[e] = xpc[e]
      BY <1>0, <3>1
    <3> SUFFICES ASSUME NEW e \in Dev, NEW s \in Dirs
                 PROVE  ThreadOk(e, s)'
      BY <1>y
    <3>7. CASE e # d
      BY <3>1, <3>6, <3>7, <1>x
    <3>8. CASE e = d /\ s = c
      BY <3>1, <3>3, <3>4, <3>8 DEF ThreadOk
    <3>9. CASE e = d /\ s # c
      BY <3>1, <3>5, <3>9, <1>z DEF ThreadOk, Working
    <3> QED BY <3>7, <3>8, <3>9
  <2>2. CASE /\ UNCHANGED threadVars
             /\ dpc' = dpc \/ dpc' = [dpc EXCEPT ![d] = "forward"] \/ dpc' = [dpc EXCEPT ![d] = "join"]
    <3>1. dpc[d] = "next"
      BY <1>3 DEF NextCommand
    <3> QED BY <1>0, <1>a, <2>2, <3>1 DEF Working
  <2> QED BY <1>3, <2>1, <2>2 DEF NextCommand, StartTransfer, StartForward, Goto
<1>4. ASSUME NEW d \in Dev, ForwardDone(d)
      PROVE  ThreadQueues'
  BY <1>0, <1>4, <1>a DEF ForwardDone, Goto, Working
<1>5. ASSUME NEW d \in Dev, JoinThread(d)
      PROVE  ThreadQueues'
  <2>1. CASE ThreadsLeft(d) = {}
    BY <1>0, <1>5, <1>a, <2>1 DEF JoinThread, Goto
  <2>2. CASE ThreadsLeft(d) # {}
    <3> DEFINE t == NextThread(d)
    <3>1. /\ dpc[d] = "join" /\ dpc' = [dpc EXCEPT ![d] = "joining"] /\ UNCHANGED xpc
          /\ xq' = [xq EXCEPT ![d][t] = Append(@, "quit")]
      BY <1>5, <2>2 DEF JoinThread, Goto
    <3>2. t \in Dirs /\ xpc[d][t] # "none"
      BY <2>2, NextThreadIsLeft
    <3>3. ThreadsLeft(d)' = ThreadsLeft(d) /\ NextThread(d)' = t
      BY <3>1, NextThreadKept
    <3> HIDE DEF t
    <3>4. NoQuit(xq[d][t]) /\ xpc[d][t] # "ended" /\ xpc[d][t] # "dead"
      BY <3>1, <3>2, <1>z DEF ThreadOk
    <3>5. QuitLast(Append(xq[d][t], "quit"))
      <4>1. "quit" \in ThreadItems /\ xq[d][t] \in Seq(ThreadItems)
        BY <1>0, <3>2 DEF ThreadItems
      <4> QED BY <3>4, <4>1, QuitFacts
    <3>6. xq'[d][t] = Append(xq[d][t], "quit") /\ \A s \in Dirs : s # t => xq'[d][s] = xq[d][s]
      BY <1>0, <3>1, <3>2
    <3>7. \A e \in Dev : e # d => xq'[e] = xq[e] /\ dpc'[e] = dpc[e]
      BY <1>0, <3>1
    <3>8. dpc'[d] = "joining"
      BY <1>0, <3>1
    <3> SUFFICES ASSUME NEW e \in Dev, NEW s \in Dirs
                 PROVE  ThreadOk(e, s)'
      BY <1>y
    <3>9. CASE e # d
      BY <3>1, <3>7, <3>9, <1>x
    <3>10. CASE e = d /\ s = t
      BY <2>2, <3>1, <3>2, <3>3, <3>4, <3>5, <3>6, <3>8, <3>10 DEF ThreadOk, Working
    <3>11. CASE e = d /\ s # t
      BY <2>2, <3>1, <3>3, <3>6, <3>8, <3>11, <1>z DEF ThreadOk, Working
    <3> QED BY <3>9, <3>10, <3>11
  <2> QED BY <2>1, <2>2
<1>6. ASSUME NEW d \in Dev, ThreadJoined(d)
      PROVE  ThreadQueues'
  <2> DEFINE t == NextThread(d)
  <2>1. /\ dpc[d] = "joining" /\ dpc' = [dpc EXCEPT ![d] = "join"]
        /\ xq' = [xq EXCEPT ![d][t] = <<>>] /\ xpc' = [xpc EXCEPT ![d][t] = "none"]
    BY <1>6 DEF ThreadJoined, Goto
  <2>2. t \in Dirs
    <3>1. "forward" \in Dirs
      BY DEF Dirs
    <3>2. ThreadsLeft(d) # {}
      BY <2>1, <3>1, <1>z DEF ThreadOk
    <3> QED BY <3>2, NextThreadType
  <2>3. \A s \in Dirs : s # t => NoQuit(xq[d][s]) /\ xpc[d][s] # "ended"
    BY <2>1, <1>z DEF ThreadOk
  <2> HIDE DEF t
  <2>4. /\ xq'[d][t] = <<>> /\ xpc'[d][t] = "none" /\ dpc'[d] = "join"
        /\ \A s \in Dirs : s # t => xq'[d][s] = xq[d][s] /\ xpc'[d][s] = xpc[d][s]
    BY <1>0, <2>1, <2>2
  <2>5. \A e \in Dev : e # d => xq'[e] = xq[e] /\ dpc'[e] = dpc[e] /\ xpc'[e] = xpc[e]
    BY <1>0, <2>1
  <2>6. NoQuit(<<>>) /\ QuitLast(<<>>)
    BY DEF NoQuit, QuitLast
  <2> SUFFICES ASSUME NEW e \in Dev, NEW s \in Dirs
               PROVE  ThreadOk(e, s)'
    BY <1>y
  <2>7. CASE e # d
    BY <2>5, <2>7, <1>x
  <2>8. CASE e = d /\ s = t
    BY <2>4, <2>6, <2>8 DEF ThreadOk
  <2>9. CASE e = d /\ s # t
    BY <2>3, <2>4, <2>9, <1>z DEF ThreadOk
  <2> QED BY <2>7, <2>8, <2>9
<1>7. ASSUME NEW d \in Dev, ArriveAtBarrier(d) \/ PassBarrier(d) \/ CloseDevice(d)
      PROVE  ThreadQueues'
  BY <1>0, <1>7, <1>a DEF ArriveAtBarrier, PassBarrier, CloseDevice, Goto
<1>10. ASSUME NEW d \in Dev, RunProgram(d) \/ ProgramFails(d)
      PROVE  ThreadQueues'
  BY <1>10, <1>a DEF RunProgram, ProgramFails
<1>11. ASSUME NEW d \in Dev, NEW r \in Dirs, ThreadGet(d, r)
       PROVE  ThreadQueues'
  <2> DEFINE pc == IF Head(xq[d][r]) = "quit" THEN "ended" ELSE "busy"
  <2>1. /\ xpc[d][r] = "poll" /\ xq[d][r] # <<>> /\ UNCHANGED dpc
        /\ xq' = [xq EXCEPT ![d][r] = Tail(@)] /\ xpc' = [xpc EXCEPT ![d][r] = pc]
    BY <1>11 DEF ThreadGet
  <2>2. /\ pc = "ended" \/ pc = "busy"
        /\ pc = "ended" <=> Head(xq[d][r]) = "quit"
    OBVIOUS
  <2> HIDE DEF pc
  <2>3. /\ QuitLast(xq[d][r]) => QuitLast(Tail(xq[d][r]))
        /\ NoQuit(xq[d][r]) => NoQuit(Tail(xq[d][r])) /\ pc # "ended"
        /\ QuitLast(xq[d][r]) /\ pc = "ended" => Tail(xq[d][r]) = <<>>
    BY <1>0, <2>1, <2>2, QuitFacts
  <2>4. /\ xq'[d][r] = Tail(xq[d][r]) /\ xpc'[d][r] = pc
        /\ \A s \in Dirs : s # r => xq'[d][s] = xq[d][s] /\ xpc'[d][s] = xpc[d][s]
    BY <1>0, <2>1
  <2>5. \A e \in Dev : e # d => xq'[e] = xq[e] /\ xpc'[e] = xpc[e]
    BY <1>0, <2>1
  <2>6. ThreadsLeft(d)' = ThreadsLeft(d) /\ NextThread(d)' = NextThread(d)
    BY <2>1, <2>2, <2>4, NextThreadKept
  <2> SUFFICES ASSUME NEW e \in Dev, NEW s \in Dirs
               PROVE  ThreadOk(e, s)'
    BY <1>y
  <2>7. CASE e # d
    BY <2>1, <2>5, <2>7, <1>x
  <2>8. CASE e = d /\ s = r
    BY <2>1, <2>2, <2>3, <2>4, <2>6, <2>8, <1>z DEF ThreadOk
  <2>9. CASE e = d /\ s # r
    BY <2>1, <2>4, <2>6, <2>9, <1>z DEF ThreadOk
  <2> QED BY <2>7, <2>8, <2>9
<1>12. ASSUME NEW d \in Dev, NEW r \in Dirs, Transfer(d, r)
       PROVE  ThreadQueues'
  <2>1. xpc[d][r] = "busy" /\ UNCHANGED <<dpc, xq>> /\ xpc' = [xpc EXCEPT ![d][r] = "poll"]
    BY <1>12 DEF Transfer
  <2>4. /\ xpc'[d][r] = "poll"
        /\ \A s \in Dirs : s # r => xpc'[d][s] = xpc[d][s]
    BY <1>0, <2>1
  <2>5. \A e \in Dev : e # d => xpc'[e] = xpc[e]
    BY <1>0, <2>1
  <2>6. ThreadsLeft(d)' = ThreadsLeft(d) /\ NextThread(d)' = NextThread(d)
    BY <2>1, <2>4, NextThreadKept
  <2> SUFFICES ASSUME NEW e \in Dev, NEW s \in Dirs
               PROVE  ThreadOk(e, s)'
    BY <1>y
  <2>7. CASE e # d
    BY <2>1, <2>5, <2>7, <1>x
  <2>8. CASE e = d
    BY <2>1, <2>4, <2>6, <2>8, <1>z DEF ThreadOk
  <2> QED BY <2>7, <2>8
<1>16. ASSUME NEW d \in Dev, Leaves(d)
      PROVE  ThreadQueues'
  <2>1. /\ UNCHANGED threadVars
        /\ \/ dpc' = [dpc EXCEPT ![d] = "escaped"]
           \/ dpc' = [dpc EXCEPT ![d] = "lost"]
    BY <1>16 DEF Leaves, Goto
  <2> QED BY <1>0, <2>1, <1>a
<1>13. CASE PushInput \/ ShutdownCalled \/ QuietMain
  <2>1. UNCHANGED <<dpc, threadVars>>
    BY <1>13, Zenon DEF PushInput, ShutdownCalled, QuietMain, SendQuit, MainArrives, MainPasses,
           LoopJoined, ProcessesJoined
  <2> QED BY <2>1, <1>a
<1>15. CASE UNCHANGED vars
  BY <1>15, <1>a DEF vars
<1> QED BY <1>1, <1>3, <1>4, <1>5, <1>6, <1>7, <1>10, <1>11, <1>12,
           <1>13, <1>15, <1>16, Zenon DEF QuietNext, QuietDevice

\* The command that orders the output of input i is the one at LastIndex.
LEMMA LastCommandAt ==
    ASSUME NEW k \in 0 .. PerInput - 1
    PROVE  DeviceAt(k) = N /\ CommandAt(k) = LastCommand <=> k = LastIndex
<1> USE NAssumption DEF PerInput, DeviceAt, CommandAt, LastCommand, LastIndex
<1>1. CASE k < 2 * N
  <2>1. CASE k % 2 = 0
    BY <1>1, <2>1
  <2>2. CASE k % 2 # 0
    BY <1>1, <2>2
  <2> QED BY <2>1, <2>2
<1>2. CASE k = 2 * N
  BY <1>2
<1>3. CASE k > 2 * N
  BY <1>3
<1> QED BY <1>1, <1>2, <1>3

\* Only a move to the output queue changes the number of outputs.
LEMMA MoveOutput ==
    ASSUME RestTypeOK, NEW p, NEW q, Hop(p, q), Move(p, q)
    PROVE  /\ Len(data[OutputQ]) \in Nat
           /\ Len(data'[OutputQ]) = Len(data[OutputQ]) + IF q = OutputQ THEN 1 ELSE 0
<1> DEFINE S == 1 .. InputCount
<1> HIDE DEF S
<1>1. p \in Places /\ q \in Places /\ OutputQ \in Places /\ p # OutputQ
  BY NAssumption DEF Hop, Places, OutputQ
<1>2. data \in [Places -> Seq(S)]
  BY DEF RestTypeOK, S
<1>3. data[OutputQ] \in Seq(S) /\ data[p] \in Seq(S) /\ data[p] # <<>>
  BY <1>1, <1>2 DEF Move
<1>4. Head(data[p]) \in S
  BY <1>3, SeqFacts
<1>5. CASE q = OutputQ
  <2>1. data'[OutputQ] = Append(data[OutputQ], Head(data[p]))
    BY <1>1, <1>5 DEF Move
  <2> QED BY <1>3, <1>4, <1>5, <2>1
<1>6. CASE q # OutputQ
  <2>1. data'[OutputQ] = data[OutputQ]
    BY <1>1, <1>6 DEF Move
  <2> QED BY <1>3, <1>6, <2>1
<1> QED BY <1>5, <1>6

\* Which moves reach the output queue.
LEMMA ReachesOutput ==
    /\ \A d \in Dev : Dst(d) = OutputQ <=> d = N /\ N \notin TTDevices
    /\ \A d \in Dev, r \in Dirs : RealTransfer(d, r) => (To(r) = OutputQ <=> r = "forward")
<1>1. ASSUME NEW d \in Dev
      PROVE  Dst(d) = OutputQ <=> d = N /\ N \notin TTDevices
  BY NAssumption DEF Dst, OutputQ, Dev
<1>2. ASSUME NEW d \in Dev, NEW r \in Dirs
      PROVE  To(r) = OutputQ <=> r = "forward"
  BY NAssumption DEF To, OutputQ, Dirs
<1> QED BY <1>1, <1>2

\* The orders that wait for the last device, and the output it is working on.
Ordered == Count(cmdq[N], LastCommand)
Queued == IF N \in TTDevices THEN Count(xq[N]["forward"], "transfer") ELSE 0
InWork == IF IF N \in TTDevices THEN xpc[N]["forward"] = "busy" ELSE dpc[N] = "forward"
          THEN 1 ELSE 0
Outputs == Len(data[OutputQ])

LEMMA CountTypes ==
    ASSUME NEW cq \in [Dev -> Seq(Commands)],
           NEW tq \in [Dev -> [Dirs -> Seq(ThreadItems)]],
           NEW da \in [Places -> Seq(1 .. InputCount)]
    PROVE  /\ N \in Dev /\ "forward" \in Dirs /\ OutputQ \in Places
           /\ cq[N] \in Seq(Commands) /\ tq[N]["forward"] \in Seq(ThreadItems)
           /\ Count(cq[N], LastCommand) \in Nat
           /\ Count(tq[N]["forward"], "transfer") \in Nat
           /\ Len(da[OutputQ]) \in Nat
<1>1. N \in Dev /\ "forward" \in Dirs /\ OutputQ \in Places
  BY NAssumption DEF Dev, Dirs, OutputQ, Places
<1>2. cq[N] \in Seq(Commands) /\ tq[N]["forward"] \in Seq(ThreadItems)
  BY <1>1
<1>3. Count(cq[N], LastCommand) \in Nat /\ Count(tq[N]["forward"], "transfer") \in Nat
  BY <1>2, CountFinite
<1>4. Len(da[OutputQ]) \in Nat
  <2> DEFINE S == 1 .. InputCount
  <2>1. da[OutputQ] \in Seq(S)
    BY <1>1
  <2> HIDE DEF S
  <2> QED BY <2>1
<1> QED BY <1>1, <1>2, <1>3, <1>4

LEMMA AccountTypes ==
    ASSUME RestTypeOK
    PROVE  /\ Ordered \in Nat /\ Queued \in Nat /\ InWork \in Nat /\ Outputs \in Nat
           /\ Pending = Ordered + Queued + InWork
           /\ N \in Dev /\ "forward" \in Dirs /\ OutputQ \in Places
           /\ cmdq[N] \in Seq(Commands) /\ xq[N]["forward"] \in Seq(ThreadItems)
<1>1. /\ N \in Dev /\ "forward" \in Dirs /\ OutputQ \in Places
      /\ cmdq[N] \in Seq(Commands) /\ xq[N]["forward"] \in Seq(ThreadItems)
      /\ Count(cmdq[N], LastCommand) \in Nat
      /\ Count(xq[N]["forward"], "transfer") \in Nat
      /\ Len(data[OutputQ]) \in Nat
  BY CountTypes DEF RestTypeOK, ThreadItems
<1> QED BY <1>1 DEF Ordered, Queued, InWork, Outputs, Pending

\* The same after a step.
LEMMA AccountTypesNext ==
    ASSUME RestTypeOK'
    PROVE  /\ Ordered' \in Nat /\ Queued' \in Nat /\ InWork' \in Nat /\ Outputs' \in Nat
           /\ Pending' = Ordered' + Queued' + InWork'
<1>1. /\ Count(cmdq'[N], LastCommand) \in Nat
      /\ Count(xq'[N]["forward"], "transfer") \in Nat
      /\ Len(data'[OutputQ]) \in Nat
  <2>1. /\ cmdq' \in [Dev -> Seq(Commands)]
        /\ xq' \in [Dev -> [Dirs -> Seq(ThreadItems)]]
        /\ data' \in [Places -> Seq(1 .. InputCount)]
    BY DEF RestTypeOK, ThreadItems
  <2> QED BY <2>1, CountTypes
<1> QED BY <1>1 DEF Ordered, Queued, InWork, Outputs, Pending, LastCommand

\* What the last device takes from its command queue it passes on.
LEMMA LastTakes ==
    ASSUME RestTypeOK, NEW d \in Dev, NextCommand(d)
    PROVE  Ordered' + Queued' + InWork' = Ordered + Queued + InWork
<1> USE DEF syncVars, devVars, threadVars, dataVars, loopVars, mainVars
<1>0. /\ dpc \in [Dev -> DevicePC] /\ cmdq \in [Dev -> Seq(Commands)]
      /\ xpc \in [Dev -> [Dirs -> ThreadPC]] /\ xq \in [Dev -> [Dirs -> Seq(ThreadItems)]]
  BY DEF RestTypeOK, ThreadItems
<1>t. /\ Ordered \in Nat /\ Queued \in Nat /\ InWork \in Nat
      /\ N \in Dev /\ "forward" \in Dirs
      /\ cmdq[N] \in Seq(Commands) /\ xq[N]["forward"] \in Seq(ThreadItems)
  BY AccountTypes
<1>1. CASE d # N
  <2>1. cmdq'[N] = cmdq[N] /\ dpc'[N] = dpc[N] /\ xq'[N] = xq[N] /\ xpc'[N] = xpc[N]
    BY <1>0, <1>t, <1>1 DEF NextCommand, StartTransfer, StartForward, Goto
  <2> QED BY <2>1 DEF Ordered, Queued, InWork
<1>2. CASE d = N
  <2> DEFINE c == Head(cmdq[N])
  <2>1. cmdq'[N] = Tail(cmdq[N]) /\ cmdq[N] # <<>> /\ dpc[N] = "next"
    BY <1>0, <1>t, <1>2 DEF NextCommand
  <2>2. Ordered = Ordered' + (IF c = LastCommand THEN 1 ELSE 0) /\ Ordered' \in Nat
    <3>1. Count(cmdq[N], LastCommand) = Count(Tail(cmdq[N]), LastCommand) + IF c = LastCommand THEN 1 ELSE 0
      BY <1>t, <2>1, CountTail
    <3>2. Tail(cmdq[N]) \in Seq(Commands)
      BY <1>t, <2>1, SeqFacts
    <3>3. Count(Tail(cmdq[N]), LastCommand) \in Nat
      BY <3>2, CountFinite
    <3>4. Ordered' = Count(Tail(cmdq[N]), LastCommand)
      BY <2>1 DEF Ordered, LastCommand
    <3> QED BY <3>1, <3>3, <3>4 DEF Ordered
  <2>3. CASE c \in {"forward_input", "forward", "intermediates"} /\ StartTransfer(N, c) /\ RealTransfer(N, c)
    <3>1. /\ c \in Dirs /\ N \in TTDevices
          /\ xq' = [xq EXCEPT ![N][c] = Append(@, "transfer")]
          /\ xpc' = [xpc EXCEPT ![N][c] = IF @ = "none" THEN "poll" ELSE @]
      BY <2>3 DEF StartTransfer, RealTransfer, Dirs
    <3>2. InWork' = InWork
      BY <1>0, <1>t, <3>1 DEF InWork
    <3>3. CASE c = "forward"
      <4>1. xq'[N]["forward"] = Append(xq[N]["forward"], "transfer")
        BY <1>0, <1>t, <3>1, <3>3
      <4>2. "transfer" \in ThreadItems
        BY DEF ThreadItems
      <4>3. Count(Append(xq[N]["forward"], "transfer"), "transfer") = Count(xq[N]["forward"], "transfer") + 1
        BY <1>t, <4>2, CountAppend
      <4>4. Queued' = Queued + 1
        BY <3>1, <4>1, <4>3 DEF Queued
      <4> QED BY <1>t, <2>2, <3>1, <3>2, <3>3, <4>4 DEF LastCommand
    <3>4. CASE c # "forward"
      <4>1. xq'[N]["forward"] = xq[N]["forward"]
        BY <1>0, <1>t, <3>1, <3>4
      <4>2. Queued' = Queued
        BY <4>1 DEF Queued
      <4> QED BY <1>t, <2>2, <3>1, <3>2, <3>4, <4>2 DEF LastCommand
    <3> QED BY <3>3, <3>4
  <2>4. CASE c \in {"forward_input", "forward", "intermediates"} /\ StartTransfer(N, c) /\ ~RealTransfer(N, c)
    <3>1. UNCHANGED <<threadVars, dpc>> /\ c # LastCommand
      BY <2>4 DEF StartTransfer, RealTransfer, LastCommand
    <3>2. InWork' = InWork /\ Queued' = Queued
      BY <3>1 DEF InWork, Queued
    <3> QED BY <1>t, <2>2, <3>1, <3>2
  <2>5. CASE c = "run_forward" /\ StartForward(N)
    <3>1. CASE N \in TTDevices
      <4>1. UNCHANGED threadVars /\ c # LastCommand
        BY <2>5, <3>1 DEF StartForward, LastCommand
      <4>2. InWork' = InWork /\ Queued' = Queued
        BY <3>1, <4>1 DEF InWork, Queued
      <4> QED BY <1>t, <2>2, <4>1, <4>2
    <3>2. CASE N \notin TTDevices
      <4>1. dpc'[N] = "forward" /\ c = LastCommand
        BY <1>0, <1>t, <2>5, <3>2 DEF StartForward, LastCommand, Goto
      <4>2. InWork = 0 /\ InWork' = 1 /\ Queued' = Queued
        BY <2>1, <3>2, <4>1 DEF InWork, Queued
      <4> QED BY <1>t, <2>2, <4>1, <4>2
    <3> QED BY <3>1, <3>2
  <2>6. CASE c = "quit" /\ Goto(N, "join") /\ UNCHANGED threadVars
    <3>1. dpc'[N] = "join" /\ c # LastCommand
      BY <1>0, <1>t, <2>6 DEF LastCommand, Goto
    <3>2. InWork' = InWork /\ Queued' = Queued
      BY <2>1, <2>6, <3>1 DEF InWork, Queued
    <3> QED BY <1>t, <2>2, <3>1, <3>2
  <2> QED BY <1>2, <2>3, <2>4, <2>5, <2>6 DEF NextCommand
<1> QED BY <1>1, <1>2

\* Every step but the issue of a command leaves the balance as it is.
LEMMA AccountedFrame ==
    ASSUME RestTypeOK, RestTypeOK', Accounted, lpos' = lpos,
           Ordered' + Queued' + InWork' + Outputs' = Ordered + Queued + InWork + Outputs
    PROVE  Accounted'
<1>1. PICK i \in Nat, k \in 0 .. PerInput - 1 :
         /\ lpos = i * PerInput + k
         /\ Pending + Len(data[OutputQ]) = i + IF k > LastIndex THEN 1 ELSE 0
  BY DEF Accounted
<1>2. Pending + Len(data[OutputQ]) = Ordered + Queued + InWork + Outputs
  BY AccountTypes DEF Outputs
<1>3. (Pending + Len(data[OutputQ]))' = (Ordered + Queued + InWork + Outputs)'
  <2>1. /\ Ordered' \in Nat /\ Queued' \in Nat /\ InWork' \in Nat /\ Outputs' \in Nat
        /\ Pending' = Ordered' + Queued' + InWork'
    BY AccountTypesNext
  <2> QED BY <2>1 DEF Outputs
<1>4. /\ lpos' = i * PerInput + k
      /\ (Pending + Len(data[OutputQ]))' = i + IF k > LastIndex THEN 1 ELSE 0
  BY <1>1, <1>2, <1>3
<1> QED BY <1>4 DEF Accounted, PerInput, LastIndex

\* Issuing the order for the output of an input makes it pending.
LEMMA LoopAccounts ==
    ASSUME RestTypeOK, RestTypeOK', Accounted, LoopPush
    PROVE  Accounted'
<1> USE DEF syncVars, devVars, threadVars, dataVars, loopVars, mainVars
<1>1. PICK i \in Nat, k \in 0 .. PerInput - 1 :
         /\ lpos = i * PerInput + k
         /\ Pending + Len(data[OutputQ]) = i + IF k > LastIndex THEN 1 ELSE 0
  BY DEF Accounted
<1>2. PerInput \in Nat \ {0} /\ PerInput - 1 > LastIndex /\ LastIndex \in Nat
  BY NAssumption DEF PerInput, LastIndex
<1>3. lpos % PerInput = k
  BY <1>1, <1>2, RemainderIs
<1> DEFINE d == DeviceAt(k)
           c == CommandAt(k)
<1>4. d \in Dev /\ c \in Commands
  BY <1>2, LoopTarget
<1>5. d = N /\ c = LastCommand <=> k = LastIndex
  BY LastCommandAt
<1>6. cmdq' = [cmdq EXCEPT ![d] = Append(@, c)] /\ lpos' = lpos + 1 /\ UNCHANGED <<dpc, xq, xpc, data>>
  BY <1>3 DEF LoopPush, Put
<1> HIDE DEF c, d
<1>t. /\ Ordered \in Nat /\ Queued \in Nat /\ InWork \in Nat /\ Outputs \in Nat
      /\ Pending = Ordered + Queued + InWork
      /\ N \in Dev /\ cmdq[N] \in Seq(Commands)
  BY AccountTypes
<1>u. Pending' = Ordered' + Queued' + InWork' /\ Ordered' \in Nat
  BY AccountTypesNext
<1>7. Ordered' = Ordered + IF k = LastIndex THEN 1 ELSE 0
  <2>1. CASE d = N
    <3>1. cmdq'[N] = Append(cmdq[N], c)
      BY <1>6, <1>t, <2>1 DEF RestTypeOK
    <3>2. Count(Append(cmdq[N], c), LastCommand) = Count(cmdq[N], LastCommand) + IF c = LastCommand THEN 1 ELSE 0
      BY <1>4, <1>t, CountAppend
    <3>3. Ordered' = Ordered + IF c = LastCommand THEN 1 ELSE 0
      BY <3>1, <3>2 DEF Ordered, LastCommand
    <3> QED BY <1>5, <2>1, <3>3
  <2>2. CASE d # N
    <3>1. cmdq'[N] = cmdq[N]
      BY <1>6, <2>2 DEF RestTypeOK
    <3> QED BY <1>5, <1>t, <2>2, <3>1 DEF Ordered, LastCommand
  <2> QED BY <2>1, <2>2
<1>8. Queued' = Queued /\ InWork' = InWork /\ data' = data
  BY <1>6 DEF Queued, InWork
<1>9. Pending' + Outputs' = i + (IF k > LastIndex THEN 1 ELSE 0) + (IF k = LastIndex THEN 1 ELSE 0)
  <2>1. Outputs' = Outputs /\ Pending + Outputs = i + IF k > LastIndex THEN 1 ELSE 0
    BY <1>1, <1>8 DEF Outputs
  <2> QED BY <1>7, <1>8, <1>t, <1>u, <2>1
<1>10. CASE k < PerInput - 1
  <2>1. k + 1 \in 0 .. PerInput - 1 /\ lpos' = i * PerInput + (k + 1)
    <3>1. i * PerInput \in Nat
      BY <1>2
    <3> QED BY <1>1, <1>2, <1>6, <1>10, <3>1
  <2>2. Pending' + Outputs' = i + IF k + 1 > LastIndex THEN 1 ELSE 0
    BY <1>2, <1>9
  <2> QED BY <2>1, <2>2 DEF Accounted, PerInput, LastIndex, Outputs
<1>11. CASE k = PerInput - 1
  <2>1. lpos' = (i + 1) * PerInput + 0
    <3>1. i * PerInput \in Nat /\ (i + 1) * PerInput = i * PerInput + PerInput
      BY <1>2
    <3> QED BY <1>1, <1>2, <1>6, <1>11, <3>1
  <2>2. Pending' + Outputs' = (i + 1) + IF 0 > LastIndex THEN 1 ELSE 0
    BY <1>2, <1>9, <1>11
  <2>3. i + 1 \in Nat /\ 0 \in 0 .. PerInput - 1
    BY <1>2
  <2> QED BY <2>1, <2>2, <2>3 DEF Accounted, PerInput, LastIndex, Outputs
<1> QED BY <1>2, <1>10, <1>11

\* Every step keeps the balance of orders and outputs.
LEMMA AccountedStep ==
    ASSUME RestTypeOK, RestTypeOK', FlowInv, ThreadQueues, Accounted, QuietNext
    PROVE  Accounted'
<1> USE DEF syncVars, devVars, threadVars, dataVars, loopVars, mainVars
<1>0. /\ dpc \in [Dev -> DevicePC] /\ cmdq \in [Dev -> Seq(Commands)]
      /\ xpc \in [Dev -> [Dirs -> ThreadPC]] /\ xq \in [Dev -> [Dirs -> Seq(ThreadItems)]]
  BY DEF RestTypeOK, ThreadItems
<1>t. /\ Ordered \in Nat /\ Queued \in Nat /\ InWork \in Nat /\ Outputs \in Nat
      /\ N \in Dev /\ "forward" \in Dirs
      /\ cmdq[N] \in Seq(Commands) /\ xq[N]["forward"] \in Seq(ThreadItems)
  BY AccountTypes
<1>f. ThreadsAtTheEnds /\ OnlyCPUsForward
  BY DEF FlowInv
<1>a. ASSUME UNCHANGED <<cmdq, xq, xpc, data, lpos>>,
             dpc'[N] = "forward" <=> dpc[N] = "forward"
      PROVE  Accounted'
  BY <1>a, AccountedFrame DEF Ordered, Queued, InWork, Outputs
<1>1. CASE LoopPush
  BY <1>1, LoopAccounts
<1>2. CASE LoopCheck
  BY <1>2, <1>a DEF LoopCheck
<1>3. ASSUME NEW d \in Dev, NextCommand(d)
      PROVE  Accounted'
  <2>1. data' = data /\ lpos' = lpos
    BY <1>3 DEF NextCommand
  <2>2. Ordered' + Queued' + InWork' = Ordered + Queued + InWork
    BY <1>3, LastTakes
  <2>3. Outputs' = Outputs
    BY <2>1 DEF Outputs
  <2> QED BY <2>1, <2>2, <2>3, AccountedFrame
<1>4. ASSUME NEW d \in Dev, ForwardDone(d)
      PROVE  Accounted'
  <2>1. /\ d \notin TTDevices /\ dpc[d] = "forward" /\ dpc' = [dpc EXCEPT ![d] = "next"]
        /\ UNCHANGED <<cmdq, xq, xpc, lpos>>
    BY <1>4, <1>f DEF ForwardDone, Goto, OnlyCPUsForward
  <2>2. Outputs' = Outputs + IF d = N THEN 1 ELSE 0
    <3>1. Hop(Src(d), Dst(d)) /\ Move(Src(d), Dst(d))
      BY <1>4, DeviceHops DEF ForwardDone
    <3>2. Outputs' = Outputs + IF Dst(d) = OutputQ THEN 1 ELSE 0
      BY <3>1, MoveOutput DEF Outputs
    <3> QED BY <2>1, <3>2, ReachesOutput
  <2>3. Ordered' = Ordered /\ Queued' = Queued
    BY <2>1 DEF Ordered, Queued
  <2>4. CASE d = N
    <3>1. InWork = 1 /\ InWork' = 0
      BY <1>0, <1>t, <2>1, <2>4 DEF InWork
    <3> QED BY <1>t, <2>1, <2>2, <2>3, <2>4, <3>1, AccountedFrame
  <2>5. CASE d # N
    <3>1. InWork' = InWork
      BY <1>0, <2>1, <2>5 DEF InWork
    <3> QED BY <1>t, <2>1, <2>2, <2>3, <2>5, <3>1, AccountedFrame
  <2> QED BY <2>4, <2>5
<1>5. ASSUME NEW d \in Dev, JoinThread(d)
      PROVE  Accounted'
  <2>1. dpc'[N] = "forward" <=> dpc[N] = "forward"
    <3>1. /\ dpc[d] = "join"
          /\ \/ dpc' = [dpc EXCEPT ![d] = "arrive"]
             \/ dpc' = [dpc EXCEPT ![d] = "joining"]
      BY <1>5 DEF JoinThread, Goto
    <3> QED BY <1>0, <1>t, <3>1
  <2>2. UNCHANGED <<cmdq, xpc, data, lpos>>
    BY <1>5 DEF JoinThread
  <2>3. Ordered' = Ordered /\ InWork' = InWork /\ Outputs' = Outputs
    BY <2>1, <2>2 DEF Ordered, InWork, Outputs
  <2>4. Queued' = Queued
    <3>1. CASE xq' = xq
      BY <3>1 DEF Queued
    <3>2. CASE ThreadsLeft(d) # {} /\ d = N /\ NextThread(d) = "forward"
      <4>1. xq' = [xq EXCEPT ![N]["forward"] = Append(@, "quit")]
        BY <1>5, <3>2 DEF JoinThread
      <4>2. xq'[N]["forward"] = Append(xq[N]["forward"], "quit")
        BY <1>0, <1>t, <4>1
      <4>3. "quit" \in ThreadItems /\ "quit" # "transfer"
        BY DEF ThreadItems
      <4>4. Count(Append(xq[N]["forward"], "quit"), "transfer") = Count(xq[N]["forward"], "transfer") + 0
        BY <1>t, <4>3, CountAppend
      <4>5. Count(xq[N]["forward"], "transfer") \in Nat
        BY <1>t, CountFinite
      <4> QED BY <4>2, <4>4, <4>5 DEF Queued
    <3>3. CASE ThreadsLeft(d) # {} /\ ~(d = N /\ NextThread(d) = "forward")
      <4> DEFINE t == NextThread(d)
      <4> HIDE DEF t
      <4>1. xq' = [xq EXCEPT ![d][t] = Append(@, "quit")] /\ ~(d = N /\ t = "forward")
        BY <1>5, <3>3 DEF JoinThread, t
      <4>2. xq'[N]["forward"] = xq[N]["forward"]
        BY <1>0, <1>t, <4>1
      <4> QED BY <4>2 DEF Queued
    <3> QED BY <1>5, <3>1, <3>2, <3>3 DEF JoinThread
  <2> QED BY <2>2, <2>3, <2>4, AccountedFrame
<1>6. ASSUME NEW d \in Dev, ThreadJoined(d)
      PROVE  Accounted'
  <2> DEFINE t == NextThread(d)
  <2> HIDE DEF t
  <2>1. /\ dpc[d] = "joining" /\ dpc' = [dpc EXCEPT ![d] = "join"]
        /\ xpc[d][t] \in {"ended", "dead"}
        /\ xpc' = [xpc EXCEPT ![d][t] = "none"] /\ xq' = [xq EXCEPT ![d][t] = <<>>]
        /\ UNCHANGED <<cmdq, data, lpos>>
    BY <1>6 DEF ThreadJoined, Goto, t
  <2>2. dpc'[N] = "forward" <=> dpc[N] = "forward"
    BY <1>0, <2>1
  <2>3. xpc'[N]["forward"] = "busy" <=> xpc[N]["forward"] = "busy"
    BY <1>0, <1>t, <2>1
  <2>4. xq'[N]["forward"] = xq[N]["forward"]
    <3>1. CASE d = N /\ t = "forward"
      <4>1. xpc[N]["forward"] = "ended" /\ xq[N]["forward"] = <<>>
        BY <1>t, <2>1, <3>1 DEF ThreadQueues
      <4>2. xq'[N]["forward"] = <<>>
        BY <1>0, <1>t, <2>1, <3>1
      <4> QED BY <4>1, <4>2
    <3>2. CASE ~(d = N /\ t = "forward")
      BY <1>0, <1>t, <2>1, <3>2
    <3> QED BY <3>1, <3>2
  <2>5. Ordered' = Ordered /\ InWork' = InWork /\ Outputs' = Outputs /\ Queued' = Queued
    BY <2>1, <2>2, <2>3, <2>4 DEF Ordered, InWork, Outputs, Queued
  <2> QED BY <2>1, <2>5, AccountedFrame
<1>7. ASSUME NEW d \in Dev, ArriveAtBarrier(d) \/ PassBarrier(d) \/ CloseDevice(d)
      PROVE  Accounted'
  <2>1. dpc'[N] = "forward" <=> dpc[N] = "forward"
    BY <1>0, <1>7, <1>t DEF ArriveAtBarrier, PassBarrier, CloseDevice, Goto
  <2> QED BY <1>7, <1>a, <2>1 DEF ArriveAtBarrier, PassBarrier, CloseDevice
<1>16. ASSUME NEW d \in Dev, Leaves(d)
      PROVE  Accounted'
  <2>1. dpc'[N] = "forward" <=> dpc[N] = "forward"
    <3>1. /\ dpc[d] \in {"barrier", "closing", "escaped"}
          /\ \/ dpc' = [dpc EXCEPT ![d] = "escaped"]
             \/ dpc' = [dpc EXCEPT ![d] = "lost"]
      BY <1>16 DEF Leaves, Goto
    <3> QED BY <1>0, <1>t, <3>1
  <2> QED BY <1>16, <1>a, <2>1 DEF Leaves
<1>8. ASSUME NEW d \in Dev, RunProgram(d)
      PROVE  Accounted'
  <2>1. d \in TTDevices /\ Move(Src(d), Dst(d)) /\ UNCHANGED <<cmdq, dpc, xq, xpc, lpos>>
    BY <1>8 DEF RunProgram
  <2>2. Outputs' = Outputs
    <3>1. Outputs' = Outputs + IF Dst(d) = OutputQ THEN 1 ELSE 0
      BY <2>1, DeviceHops, MoveOutput DEF Outputs
    <3> QED BY <1>t, <2>1, <3>1, ReachesOutput
  <2>3. Ordered' = Ordered /\ InWork' = InWork /\ Queued' = Queued
    BY <2>1 DEF Ordered, InWork, Queued
  <2> QED BY <2>1, <2>2, <2>3, AccountedFrame
<1>9. ASSUME NEW d \in Dev, ProgramFails(d)
      PROVE  Accounted'
  BY <1>9, <1>a DEF ProgramFails
<1>10. ASSUME NEW d \in Dev, NEW r \in Dirs, ThreadGet(d, r)
       PROVE  Accounted'
  <2> DEFINE pc == IF Head(xq[d][r]) = "quit" THEN "ended" ELSE "busy"
  <2>1. /\ xpc[d][r] = "poll" /\ xq[d][r] # <<>>
        /\ xq' = [xq EXCEPT ![d][r] = Tail(@)] /\ xpc' = [xpc EXCEPT ![d][r] = pc]
        /\ UNCHANGED <<cmdq, dpc, data, lpos>>
    BY <1>10 DEF ThreadGet
  <2>2. pc = IF Head(xq[d][r]) = "quit" THEN "ended" ELSE "busy"
    OBVIOUS
  <2> HIDE DEF pc
  <2>3. Ordered' = Ordered /\ Outputs' = Outputs
    BY <2>1 DEF Ordered, Outputs
  <2>4. CASE d = N /\ r = "forward" /\ N \in TTDevices
    <3>1. xq'[N]["forward"] = Tail(xq[N]["forward"]) /\ xpc'[N]["forward"] = pc
      BY <1>0, <1>t, <2>1, <2>4
    <3>2. Count(xq[N]["forward"], "transfer")
            = Count(Tail(xq[N]["forward"]), "transfer") + IF Head(xq[N]["forward"]) = "transfer" THEN 1 ELSE 0
      BY <1>t, <2>1, <2>4, CountTail
    <3>3. Head(xq[N]["forward"]) \in ThreadItems /\ Tail(xq[N]["forward"]) \in Seq(ThreadItems)
      BY <1>t, <2>1, <2>4, SeqFacts
    <3>4. Count(Tail(xq[N]["forward"]), "transfer") \in Nat
      BY <3>3, CountFinite
    <3>5. Queued = Queued' + (IF Head(xq[N]["forward"]) = "transfer" THEN 1 ELSE 0) /\ Queued' \in Nat
      BY <2>4, <3>1, <3>2, <3>4 DEF Queued
    <3>6. InWork = 0 /\ InWork' = IF Head(xq[N]["forward"]) = "quit" THEN 0 ELSE 1
      BY <2>1, <2>2, <2>4, <3>1 DEF InWork
    <3>7. Queued' + InWork' = Queued + InWork
      BY <3>3, <3>5, <3>6 DEF ThreadItems
    <3>8. Ordered' + Queued' + InWork' + Outputs' = Ordered + Queued + InWork + Outputs
      BY <1>t, <2>3, <3>5, <3>6, <3>7
    <3> QED BY <2>1, <3>8, AccountedFrame
  <2>5. CASE N \notin TTDevices
    <3>1. Queued' = Queued /\ InWork' = InWork
      BY <2>1, <2>5 DEF Queued, InWork
    <3> QED BY <2>1, <2>3, <3>1, AccountedFrame
  <2>6. CASE ~(d = N /\ r = "forward")
    <3>1. xq'[N]["forward"] = xq[N]["forward"] /\ xpc'[N]["forward"] = xpc[N]["forward"]
      BY <1>0, <1>t, <2>1, <2>6
    <3>2. Queued' = Queued /\ InWork' = InWork
      BY <2>1, <3>1 DEF Queued, InWork
    <3> QED BY <2>1, <2>3, <3>2, AccountedFrame
  <2> QED BY <2>4, <2>5, <2>6
<1>11. ASSUME NEW d \in Dev, NEW r \in Dirs, Transfer(d, r)
       PROVE  Accounted'
  <2>1. /\ xpc[d][r] = "busy" /\ Move(From(r), To(r)) /\ xpc' = [xpc EXCEPT ![d][r] = "poll"]
        /\ UNCHANGED <<cmdq, dpc, xq, lpos>>
    BY <1>11 DEF Transfer
  <2>2. RealTransfer(d, r)
    BY <1>f, <2>1 DEF ThreadsAtTheEnds
  <2>3. Outputs' = Outputs + IF r = "forward" THEN 1 ELSE 0
    <3>1. Outputs' = Outputs + IF To(r) = OutputQ THEN 1 ELSE 0
      BY <2>1, <2>2, TransferHops, MoveOutput DEF Outputs
    <3> QED BY <2>2, <3>1, ReachesOutput
  <2>4. Ordered' = Ordered /\ Queued' = Queued
    BY <2>1 DEF Ordered, Queued
  <2>5. CASE r = "forward"
    <3>1. d = N /\ N \in TTDevices
      BY <2>2, <2>5 DEF RealTransfer
    <3>2. InWork = 1 /\ InWork' = 0
      BY <1>0, <1>t, <2>1, <2>5, <3>1 DEF InWork
    <3> QED BY <1>t, <2>1, <2>3, <2>4, <2>5, <3>2, AccountedFrame
  <2>6. CASE r # "forward"
    <3>1. xpc'[N]["forward"] = xpc[N]["forward"]
      BY <1>0, <1>t, <2>1, <2>6
    <3>2. InWork' = InWork
      BY <2>1, <3>1 DEF InWork
    <3> QED BY <1>t, <2>1, <2>3, <2>4, <2>6, <3>2, AccountedFrame
  <2> QED BY <2>5, <2>6
<1>12. CASE PushInput
  <2>1. UNCHANGED <<cmdq, dpc, xq, xpc, lpos>> /\ data' = [data EXCEPT ![InputQ] = Append(@, pushed + 1)]
    BY <1>12 DEF PushInput
  <2>2. data'[OutputQ] = data[OutputQ]
    BY <2>1, NAssumption DEF RestTypeOK, InputQ, OutputQ, Places
  <2>3. Ordered' = Ordered /\ Queued' = Queued /\ InWork' = InWork /\ Outputs' = Outputs
    BY <2>1, <2>2 DEF Ordered, Queued, InWork, Outputs
  <2> QED BY <2>1, <2>3, AccountedFrame
<1>13. CASE SendQuit
  <2>1. UNCHANGED <<dpc, xq, xpc, data, lpos>>
    BY <1>13 DEF SendQuit
  <2>2. Queued' = Queued /\ InWork' = InWork /\ Outputs' = Outputs
    BY <2>1 DEF Queued, InWork, Outputs
  <2>3. Ordered' = Ordered
    <3>1. CASE cmdq' = cmdq
      BY <3>1 DEF Ordered, LastCommand
    <3>2. CASE Put(mq + 1, "quit") /\ mq + 1 = N
      <4>1. cmdq'[N] = Append(cmdq[N], "quit")
        BY <1>0, <1>t, <3>2 DEF Put
      <4>2. "quit" \in Commands /\ "quit" # LastCommand
        BY DEF Commands, LastCommand
      <4>3. Count(Append(cmdq[N], "quit"), LastCommand) = Count(cmdq[N], LastCommand) + 0
        BY <1>t, <4>2, CountAppend
      <4>4. Count(cmdq[N], LastCommand) \in Nat
        BY <1>t, CountFinite
      <4> QED BY <4>1, <4>3, <4>4 DEF Ordered, LastCommand
    <3>3. CASE Put(mq + 1, "quit") /\ mq + 1 # N
      <4>1. cmdq'[N] = cmdq[N]
        BY <1>0, <1>t, <3>3 DEF Put
      <4> QED BY <4>1 DEF Ordered, LastCommand
    <3> QED BY <1>13, <3>1, <3>2, <3>3 DEF SendQuit
  <2> QED BY <2>1, <2>2, <2>3, AccountedFrame
<1>14. CASE ShutdownCalled \/ MainArrives \/ MainPasses \/ LoopJoined \/ ProcessesJoined
  BY <1>14, <1>a DEF ShutdownCalled, MainArrives, MainPasses, LoopJoined, ProcessesJoined
<1>15. CASE UNCHANGED vars
  BY <1>15, <1>a DEF vars
<1> QED BY <1>1, <1>2, <1>3, <1>4, <1>5, <1>6, <1>7, <1>8, <1>9, <1>10, <1>11, <1>12,
           <1>13, <1>14, <1>15, <1>16, Zenon DEF QuietNext, QuietDevice, QuietMain

LEMMA QuietInit == Init => QuietInv
<1> SUFFICES ASSUME Init
             PROVE  QuietInv
  OBVIOUS
<1>0. N \in Dev /\ "forward" \in Dirs /\ OutputQ \in Places
  BY NAssumption DEF Dev, Dirs, OutputQ, Places
<1>1. ThreadQueues
  BY DEF Init, ThreadQueues, QuitLast, NoQuit, Working
<1>2. CommandQueues
  BY DEF Init, CommandQueues, QuitLast, NoQuit, Working, Quitting
<1>3. MainOrder
  <2>1. InputCount = 0 => LoopLength = 0
    BY NAssumption DEF LoopLength, PerInput
  <2> QED BY <2>1 DEF Init, MainOrder
<1>4. Accounted
  <2>1. cmdq[N] = <<>> /\ xq[N]["forward"] = <<>> /\ data[OutputQ] = <<>>
        /\ xpc[N]["forward"] # "busy" /\ dpc[N] # "forward"
    BY <1>0 DEF Init
  <2>2. Pending = 0 /\ Len(data[OutputQ]) = 0
    BY <2>1, CountEmpty DEF Pending
  <2>3. PerInput \in Nat /\ 0 \in 0 .. PerInput - 1 /\ ~(0 > LastIndex) /\ 0 * PerInput + 0 = 0
    BY NAssumption DEF PerInput, LastIndex
  <2>4. lpos = 0 * PerInput + 0
    BY <2>3 DEF Init
  <2>5. Pending + Len(data[OutputQ]) = 0 + IF 0 > LastIndex THEN 1 ELSE 0
    BY <2>2, <2>3
  <2> QED BY <2>3, <2>4, <2>5 DEF Accounted
<1> QED BY <1>1, <1>2, <1>3, <1>4 DEF QuietInv

\* When shutdown() is only called once all commands were issued, no error was
\* raised and no process escaped before it had come to the barrier.
IssuedInv == Patience = "issued" /\ ~event /\ NoStrays => QuietInv
\* Once the main process has passed the barrier, all parties have come to it.
JoinedInv == mpc \in {"join_loop", "join", "done"} /\ ~event => waiting = Party
\* When it is only called once all outputs are there.
OutputsInv ==
    Patience = "outputs" /\ ~event /\ mpc # "user" => Len(data[OutputQ]) = InputCount

PipeInv == event \in BOOLEAN /\ RestTypeOK /\ BarrierInv /\ FlowInv

LEMMA PipeInvStep == PipeInv /\ [Next]_vars => PipeInv'
  BY EventStep, RestTypeStep, BarrierStep, FlowStep, Zenon DEF PipeInv

\* A process that escaped before it had come to the barrier never comes to it.
LEMMA StraysStay ==
    ASSUME PipeInv, [Next]_vars, ~event', NoStrays'
    PROVE  NoStrays
<1> USE DEF syncVars, devVars, threadVars, dataVars, loopVars, mainVars
<1> SUFFICES ASSUME NEW d \in Dev, dpc[d] \in {"escaped", "lost"}, d \notin waiting
             PROVE  dpc'[d] \in {"escaped", "lost"} /\ d \notin waiting'
  BY DEF NoStrays
<1>0. dpc \in [Dev -> DevicePC] /\ mpc # "reap" /\ d # Main
  <2>1. ~event
    BY EventStays
  <2> QED BY <2>1, NAssumption DEF PipeInv, RestTypeOK, BarrierInv, ForcedEndsAfterEvent, Dev, Main
<1>1. ASSUME NEW e \in Dev, Device(e) \/ Escape(e) \/ Interrupt(e)
      PROVE  dpc'[d] \in {"escaped", "lost"} /\ d \notin waiting'
  <2>1. CASE e # d
    <3>1. waiting' \subseteq waiting \cup {e} /\ dpc'[d] = dpc[d]
      <4>1. CASE NextCommand(e) \/ DrainQueue(e) \/ JoinThread(e) \/ ExitProcess(e) \/ Escape(e)
        BY <1>0, <2>1, <4>1 DEF NextCommand, StartTransfer, StartForward, DrainQueue, JoinThread,
             ExitProcess, Escape, Goto
      <4>2. CASE ArriveAtBarrier(e)
        BY <1>0, <2>1, <4>2 DEF ArriveAtBarrier, Arrive, Goto
      <4>3. CASE \/ SeeShutdown(e) \/ Interrupt(e) \/ InterruptAbort(e) \/ ForwardDone(e) \/ ForwardRaises(e)
                 \/ TryRunAbort(e) \/ ThreadJoined(e) \/ PassBarrier(e) \/ BarrierBroken(e) \/ CloseDevice(e)
        BY <1>0, <2>1, <4>3 DEF SeeShutdown, Interrupt, InterruptAbort, ForwardDone, ForwardRaises,
             TryRunAbort, ThreadJoined, PassBarrier, BarrierBroken, CloseDevice, Goto
      <4> QED BY <1>1, <4>1, <4>2, <4>3, Zenon DEF Device
    <3> QED BY <2>1, <3>1
  <2>2. CASE e = d
    <3>1. ExitProcess(d)
      BY <1>1, <2>2 DEF Device, NextCommand, SeeShutdown, InterruptAbort, ForwardDone, ForwardRaises,
         TryRunAbort, DrainQueue, JoinThread, ThreadJoined, ArriveAtBarrier,
         PassBarrier, BarrierBroken, CloseDevice, Escape, Interrupt, Running
    <3> QED BY <1>0, <3>1 DEF ExitProcess, Goto
  <2> QED BY <2>1, <2>2
<1>2. ASSUME NEW e \in Dev, RunProgram(e) \/ ProgramFails(e)
      PROVE  UNCHANGED <<dpc, waiting>>
  BY <1>2 DEF RunProgram, ProgramFails
<1>3. ASSUME NEW e \in Dev, NEW r \in Dirs, Thread(e, r)
      PROVE  UNCHANGED <<dpc, waiting>>
  BY <1>3 DEF Thread, ThreadGet, ThreadSeesShutdown, Transfer, TransferGivesUp
<1>4. CASE LoopPush \/ LoopCheck \/ PushInput \/ ShutdownCalled \/ UNCHANGED vars
  BY <1>4 DEF LoopPush, LoopCheck, PushInput, ShutdownCalled, vars
<1>5. CASE Shutdown
  BY <1>0, <1>5 DEF Shutdown, SendQuit, MainArrives, MainPasses, MainBroken,
         ExitHandler, LoopJoined, ProcessesJoined, Reap, Arrive
<1> QED BY <1>1, <1>2, <1>3, <1>4, <1>5 DEF Next, Loop

LEMMA JoinedStep == PipeInv /\ JoinedInv /\ [Next]_vars => JoinedInv'
<1> SUFFICES ASSUME PipeInv, JoinedInv, [Next]_vars, ~event',
                    mpc' \in {"join_loop", "join", "done"}
             PROVE  waiting' = Party
  BY DEF JoinedInv
<1> USE DEF syncVars, devVars, threadVars, dataVars, loopVars, mainVars
<1>0. /\ ~event /\ mpc # "reap" /\ Main \in Party /\ Dev \subseteq Party
      /\ bstate = "open" => waiting = Party
      /\ bstate = "filling" => waiting # Party
  <2>1. ~event
    BY EventStays
  <2> QED BY <2>1, NAssumption DEF PipeInv, BarrierInv, ForcedEndsAfterEvent,
           OpenMeansAll, Dev, Main, Party
<1>1. waiting = Party
  <2>1. CASE mpc \in {"join_loop", "join", "done"}
    BY <1>0, <2>1 DEF JoinedInv
  <2>2. CASE mpc \notin {"join_loop", "join", "done"}
    <3>1. MainPasses
      <4>1. ASSUME NEW d \in Dev, \/ Device(d) \/ Interrupt(d) \/ Escape(d)
                                  \/ RunProgram(d) \/ ProgramFails(d)
            PROVE  mpc' = mpc
        BY <4>1, Zenon DEF Device, NextCommand, SeeShutdown, InterruptAbort, ForwardDone, ForwardRaises,
           TryRunAbort, DrainQueue, JoinThread, ThreadJoined, ArriveAtBarrier, PassBarrier,
           BarrierBroken, CloseDevice, ExitProcess, Interrupt, Escape, RunProgram, ProgramFails
      <4>2. ASSUME NEW d \in Dev, NEW r \in Dirs, Thread(d, r)
            PROVE  mpc' = mpc
        BY <4>2, Zenon DEF Thread, ThreadGet, ThreadSeesShutdown, Transfer, TransferGivesUp
      <4>3. ~(LoopPush \/ LoopCheck \/ PushInput \/ ShutdownCalled \/ UNCHANGED vars)
        BY <2>2 DEF LoopPush, LoopCheck, PushInput, ShutdownCalled, vars
      <4>4. Shutdown
        BY <2>2, <4>1, <4>2, <4>3 DEF Next, Loop
      <4> QED BY <1>0, <2>2, <4>4 DEF Shutdown, SendQuit, MainArrives, MainBroken,
           ExitHandler, LoopJoined, ProcessesJoined, Reap
    <3> QED BY <1>0, <3>1 DEF MainPasses
  <2> QED BY <2>1, <2>2
<1>2. ASSUME NEW d \in Dev, \/ Device(d) \/ Interrupt(d) \/ Escape(d)
                            \/ RunProgram(d) \/ ProgramFails(d)
      PROVE  waiting' = Party
  <2>1. CASE ArriveAtBarrier(d)
    BY <1>0, <1>1, <2>1 DEF ArriveAtBarrier, Arrive
  <2>2. CASE Escape(d)
    BY <1>0, <1>1, <2>2 DEF Escape
  <2>3. CASE ~ArriveAtBarrier(d) /\ ~Escape(d)
    <3>1. waiting' = waiting
      BY <1>2, <2>3, Zenon DEF Device, NextCommand, SeeShutdown, InterruptAbort, ForwardDone, ForwardRaises,
         TryRunAbort, DrainQueue, JoinThread, ThreadJoined, PassBarrier,
         BarrierBroken, CloseDevice, ExitProcess, Interrupt, RunProgram, ProgramFails
    <3> QED BY <1>1, <3>1
  <2> QED BY <2>1, <2>2, <2>3
<1>3. ASSUME NEW d \in Dev, NEW r \in Dirs, Thread(d, r)
      PROVE  waiting' = waiting
  BY <1>3, Zenon DEF Thread, ThreadGet, ThreadSeesShutdown, Transfer, TransferGivesUp
<1>4. CASE LoopPush \/ LoopCheck \/ PushInput \/ ShutdownCalled \/ UNCHANGED vars
  BY <1>1, <1>4 DEF LoopPush, LoopCheck, PushInput, ShutdownCalled, vars
<1>5. CASE Shutdown
  BY <1>0, <1>1, <1>5 DEF Shutdown, SendQuit, MainArrives, MainPasses, MainBroken,
         ExitHandler, LoopJoined, ProcessesJoined, Reap, Arrive
<1> QED BY <1>1, <1>2, <1>3, <1>4, <1>5 DEF Next, Loop

LEMMA IssuedStep == PipeInv /\ IssuedInv /\ [Next]_vars => IssuedInv'
<1> SUFFICES ASSUME PipeInv, IssuedInv, [Next]_vars, Patience = "issued", ~event', NoStrays'
             PROVE  QuietInv'
  BY DEF IssuedInv
<1>1. event \in BOOLEAN /\ RestTypeOK /\ BarrierInv /\ FlowInv /\ RestTypeOK' /\ event' \in BOOLEAN
  BY PipeInvStep DEF PipeInv
<1>2. ~event
  BY EventStays
<1>3. NoStrays /\ ThreadQueues /\ CommandQueues /\ MainOrder /\ Accounted
  BY <1>2, StraysStay DEF IssuedInv, QuietInv
<1>4. QuietNext /\ bstate # "broken"
  BY <1>1, <1>3, QuietSteps
<1>5. CommandQueues'
  BY <1>1, <1>3, <1>4, CommandQueuesStep DEF FlowInv
<1>6. MainOrder'
  BY <1>1, <1>2, <1>3, <1>4, MainOrderStep
<1>7. ThreadQueues'
  BY <1>1, <1>3, <1>4, ThreadQueuesStep
<1>8. Accounted'
  BY <1>1, <1>3, <1>4, AccountedStep
<1> QED BY <1>5, <1>6, <1>7, <1>8 DEF QuietInv

\* The outputs never leave the output queue.
LEMMA OutputsGrow ==
    ASSUME RestTypeOK, FlowInv, [Next]_vars
    PROVE  Len(data'[OutputQ]) \in {Len(data[OutputQ]), Len(data[OutputQ]) + 1}
<1> USE DEF syncVars, devVars, threadVars, dataVars, loopVars, mainVars
<1>1. ASSUME NEW p, NEW q, Hop(p, q), Move(p, q)
      PROVE  Len(data'[OutputQ]) \in {Len(data[OutputQ]), Len(data[OutputQ]) + 1}
  <2>1. /\ Len(data[OutputQ]) \in Nat
        /\ Len(data'[OutputQ]) = Len(data[OutputQ]) + IF q = OutputQ THEN 1 ELSE 0
    BY <1>1, MoveOutput
  <2>2. CASE q = OutputQ
    BY <2>1, <2>2
  <2>3. CASE q # OutputQ
    BY <2>1, <2>3
  <2> QED BY <2>2, <2>3
<1>2. CASE data' = data
  BY <1>2
<1>3. CASE PushInput
  <2>1. data' = [data EXCEPT ![InputQ] = Append(@, pushed + 1)]
    BY <1>3 DEF PushInput
  <2>2. data'[OutputQ] = data[OutputQ]
    BY <2>1, NAssumption DEF RestTypeOK, InputQ, OutputQ, Places
  <2> QED BY <2>2
<1>4. ASSUME NEW d \in Dev, ForwardDone(d) \/ RunProgram(d)
      PROVE  Len(data'[OutputQ]) \in {Len(data[OutputQ]), Len(data[OutputQ]) + 1}
  <2>1. Move(Src(d), Dst(d)) /\ Hop(Src(d), Dst(d))
    BY <1>4, DeviceHops DEF ForwardDone, RunProgram
  <2> QED BY <1>1, <2>1
<1>5. ASSUME NEW d \in Dev, NEW r \in Dirs, Transfer(d, r)
      PROVE  Len(data'[OutputQ]) \in {Len(data[OutputQ]), Len(data[OutputQ]) + 1}
  <2>1. RealTransfer(d, r) /\ Move(From(r), To(r))
    BY <1>5 DEF Transfer, FlowInv, ThreadsAtTheEnds
  <2> QED BY <1>1, <2>1, TransferHops
<1>6. ASSUME NEW d \in Dev, Device(d), ~ForwardDone(d)
      PROVE  data' = data
  BY <1>6, Zenon DEF Device, NextCommand, SeeShutdown, InterruptAbort, ForwardRaises,
         TryRunAbort, DrainQueue, JoinThread, ThreadJoined, ArriveAtBarrier,
         PassBarrier, BarrierBroken, CloseDevice, ExitProcess
<1>7. ASSUME NEW d \in Dev, Interrupt(d) \/ Escape(d) \/ ProgramFails(d)
      PROVE  data' = data
  BY <1>7, Zenon DEF Interrupt, Escape, ProgramFails
<1>8. ASSUME NEW d \in Dev, NEW r \in Dirs, Thread(d, r), ~Transfer(d, r)
      PROVE  data' = data
  BY <1>8, Zenon DEF Thread, ThreadGet, ThreadSeesShutdown, TransferGivesUp
<1>9. CASE LoopPush \/ LoopCheck \/ ShutdownCalled \/ UNCHANGED vars
  BY <1>2, <1>9, Zenon DEF LoopPush, LoopCheck, ShutdownCalled, vars
<1>10. ASSUME Shutdown
       PROVE  data' = data
  BY <1>10, Zenon DEF Shutdown, SendQuit, MainArrives, MainPasses, MainBroken,
         ExitHandler, LoopJoined, ProcessesJoined, Reap
<1> QED BY <1>2, <1>3, <1>4, <1>5, <1>6, <1>7, <1>8, <1>9, <1>10, Zenon DEF Next, Loop

LEMMA OutputsStep == PipeInv /\ OutputsInv /\ [Next]_vars => OutputsInv'
<1> SUFFICES ASSUME PipeInv, OutputsInv, [Next]_vars,
                    Patience = "outputs", ~event', mpc' # "user"
             PROVE  Len(data'[OutputQ]) = InputCount
  BY DEF OutputsInv
<1>1. RestTypeOK /\ FlowInv /\ RestTypeOK' /\ DataInOrder'
  BY PipeInvStep DEF PipeInv, FlowInv
<1>2. ~event
  BY EventStays
<1>3. Len(data'[OutputQ]) \in Nat /\ Len(data'[OutputQ]) <= InputCount
  <2>1. Len(data'[OutputQ]) \in Nat /\ Len(data'[OutputQ]) <= pushed' /\ pushed' \in 0 .. InputCount
    <3>1. (RestTypeOK /\ DataInOrder => Len(data[OutputQ]) \in Nat /\ Len(data[OutputQ]) <= pushed)'
      BY OutputQueue, PTL
    <3> QED BY <1>1, <3>1 DEF RestTypeOK
  <2> QED BY <2>1, InputCountAssumption
<1>4. Len(data[OutputQ]) = InputCount
  <2>1. CASE mpc # "user"
    BY <1>2, <2>1 DEF OutputsInv
  <2>2. CASE mpc = "user"
    <3>1. ShutdownCalled
      <4> USE DEF mainVars
      <4>1. ASSUME NEW d \in Dev, Device(d) \/ Interrupt(d) \/ Escape(d) \/ RunProgram(d) \/ ProgramFails(d)
            PROVE  mpc' = mpc
        BY <4>1, Zenon DEF Device, NextCommand, SeeShutdown, InterruptAbort, ForwardDone, ForwardRaises,
           TryRunAbort, DrainQueue, JoinThread, ThreadJoined, ArriveAtBarrier,
           PassBarrier, BarrierBroken, CloseDevice, ExitProcess, Interrupt, Escape, RunProgram, ProgramFails
      <4>2. ASSUME NEW d \in Dev, NEW r \in Dirs, Thread(d, r)
            PROVE  mpc' = mpc
        BY <4>2, Zenon DEF Thread, ThreadGet, ThreadSeesShutdown, Transfer, TransferGivesUp
      <4>3. CASE LoopPush \/ LoopCheck \/ PushInput \/ UNCHANGED vars
        BY <4>3, <2>2, Zenon DEF LoopPush, LoopCheck, PushInput, vars
      <4>4. ~Shutdown
        BY <2>2 DEF Shutdown, SendQuit, MainArrives, MainPasses, MainBroken,
           ExitHandler, LoopJoined, ProcessesJoined, Reap
      <4> QED BY <2>2, <4>1, <4>2, <4>3, <4>4, Zenon DEF Next, Loop
    <3> QED BY <1>2, <3>1 DEF ShutdownCalled, MayShutdown, ErrorRaised
  <2> QED BY <2>1, <2>2
<1>5. Len(data'[OutputQ]) \in {InputCount, InputCount + 1}
  BY <1>1, <1>4, OutputsGrow
<1> QED BY <1>3, <1>5, InputCountAssumption

\* All commands were carried out: the balance leaves only outputs.
LEMMA AllAccounted ==
    ASSUME PipeInv, QuietInv, NoStrays, ~event, mpc = "done"
    PROVE  Len(data[OutputQ]) = InputCount
<1>0. RestTypeOK /\ BarrierInv
  BY DEF PipeInv
<1>1. lpos = LoopLength /\ \A d \in Dev : dpc[d] \in {"ended", "lost"}
  BY DEF QuietInv, MainOrder
<1>2. N \in Dev /\ "forward" \in Dirs
  BY NAssumption DEF Dev, Dirs
<1>3. cmdq[N] = <<>>
  BY <1>1, <1>2 DEF QuietInv, CommandQueues, Quitting
<1>4. xpc[N]["forward"] = "none"
  BY <1>0, <1>1, <1>2 DEF BarrierInv, ClosedMeansAll, ArrivedOnlyAtBarrier, NoStrays
<1>5. xq[N]["forward"] = <<>>
  BY <1>2, <1>4 DEF QuietInv, ThreadQueues
<1>6. Pending = 0
  BY <1>1, <1>2, <1>3, <1>4, <1>5, CountEmpty DEF Pending
<1>7. PICK i \in Nat, k \in 0 .. PerInput - 1 :
         /\ lpos = i * PerInput + k
         /\ Pending + Len(data[OutputQ]) = i + IF k > LastIndex THEN 1 ELSE 0
  BY DEF QuietInv, Accounted
<1>8. PerInput \in Nat \ {0} /\ LastIndex \in Nat
  BY NAssumption DEF PerInput, LastIndex
<1>9. i = InputCount /\ k = 0
  <2>1. i * PerInput + k = InputCount * PerInput + 0
    <3>1. InputCount * PerInput \in Nat
      BY <1>8, InputCountAssumption
    <3> QED BY <1>1, <1>7, <3>1 DEF LoopLength
  <2>2. 0 \in 0 .. PerInput - 1
    BY <1>8
  <2> QED BY <1>8, <2>1, <2>2, InputCountAssumption, DivisionUnique
<1>10. Len(data[OutputQ]) \in Nat
  BY <1>0, AccountTypes DEF Outputs
<1> QED BY <1>6, <1>7, <1>8, <1>9, <1>10

\* A shutdown() called once all commands were issued, or all outputs are there,
\* and that meets no error, returns with the output of every input in the
\* output queue, once and in order: QUIT is taken after all the other commands
\* of a device, and the transfer threads finish their queues before they are
\* joined.
THEOREM CleanShutdownDelivers ==
    ASSUME Patience # "pushed"
    PROVE  Spec => []OutputsDelivered
<1> DEFINE I == PipeInv /\ IssuedInv /\ JoinedInv /\ OutputsInv
<1>1. Init => I
  <2>1. Init => PipeInv
    BY InitInv, FlowInit, Zenon DEF PipeInv
  <2>2. Init => IssuedInv /\ JoinedInv /\ OutputsInv
    BY QuietInit DEF IssuedInv, JoinedInv, OutputsInv, Init
  <2> QED BY <2>1, <2>2
<1>2. I /\ [Next]_vars => I'
  BY PipeInvStep, IssuedStep, JoinedStep, OutputsStep, Zenon
<1>3. I => OutputsDelivered
  <2> SUFFICES ASSUME I
               PROVE  OutputsDelivered
    OBVIOUS
  <2>1. OutputsInOrder
    BY OutputQueue DEF PipeInv, FlowInv
  <2>2. ASSUME mpc = "done", ~event
        PROVE  Len(data[OutputQ]) = InputCount
    <3>1. CASE Patience = "issued"
      <4>1. NoStrays
        BY <2>2, NAssumption DEF JoinedInv, NoStrays, Party, Dev
      <4> QED BY <2>2, <3>1, <4>1, AllAccounted DEF IssuedInv
    <3>2. CASE Patience = "outputs"
      BY <2>2, <3>2 DEF OutputsInv
    <3> QED BY <3>1, <3>2, PatienceAssumption
  <2> QED BY <2>1, <2>2 DEF OutputsDelivered, CleanShutdownComplete
<1> QED BY <1>1, <1>2, <1>3, PTL DEF Spec

-----------------------------------------------------------------------------
(***************************************************************************)
(* The feeder thread of a device's backend, for every number of programs.  *)
(***************************************************************************)
\* What the caller's and the feeder's queue operations do to a sequence of
\* integers.
LEMMA FeederQueueFacts ==
    ASSUME NEW q \in Seq(Int)
    PROVE  /\ Len(q) \in Nat
           /\ \A k \in 1 .. Len(q) : q[k] \in Int
           /\ \A e \in Int :
                /\ Append(q, e) \in Seq(Int)
                /\ Len(Append(q, e)) = Len(q) + 1
                /\ Append(q, e)[Len(q) + 1] = e
                /\ \A k \in 1 .. Len(q) : Append(q, e)[k] = q[k]
           /\ q # <<>> =>
                /\ Len(q) > 0
                /\ Head(q) = q[1]
                /\ Tail(q) \in Seq(Int)
                /\ Len(Tail(q)) = Len(q) - 1
                /\ \A k \in 1 .. Len(q) - 1 : Tail(q)[k] = q[k + 1]
           /\ q = <<>> => Len(q) = 0
  OBVIOUS

\* The conjuncts of FeederTypeOK that are not about the two flags, and the rest of
\* the inductive invariant.
FeederNumTypeOK ==
    /\ queue \in Seq(QueueItems)
    /\ fpc \in {"none", "poll", "run", "ended", "stopped", "failed"}
    /\ fcmd \in QueueItems
    /\ cpc \in {"idle", "token", "sync", "wait", "raised", "join", "closed"}
    /\ scheduled \in Nat /\ submitted \in Nat /\ completed \in Nat

FeederCore ==
    /\ FeederNumTypeOK
    /\ completed <= submitted
    /\ fpc # "none" => QueueLayout
    /\ FeederProgress
    /\ DirectProgress
    /\ cpc = "token" => scheduled > 0
    /\ cpc = "wait" => submitted = scheduled
    /\ cpc = "closed" => fpc \in {"none", "ended", "stopped", "failed"}

LEMMA FeederStarts == FeederInit => FeederInv
<1> SUFFICES ASSUME FeederInit PROVE FeederInv
  OBVIOUS
<1>1. queue \in Seq(Int) /\ Len(queue) = 0
  BY DEF FeederInit
<1>2. shutdown_event \in BOOLEAN /\ shared \in BOOLEAN
  BY DEF FeederInit
<1>3. FeederNumTypeOK
  BY <1>1 DEF FeederInit, FeederNumTypeOK, QueueItems, Token
<1>4. FeederTypeOK
  BY <1>2, <1>3 DEF FeederTypeOK, FeederNumTypeOK
<1>5. QueueLayout
  BY <1>1 DEF QueueLayout, Placed
<1>6. FeederProgress /\ DirectProgress
  BY <1>1 DEF FeederInit, FeederProgress, DirectProgress, Puts, Gets
<1> QED BY <1>4, <1>5, <1>6 DEF FeederInit, FeederInv

LEMMA FeederFlagsStep ==
    shutdown_event \in BOOLEAN /\ shared \in BOOLEAN /\ [FeederNext]_feeder_vars
        => shutdown_event' \in BOOLEAN /\ shared' \in BOOLEAN
  BY DEF FeederNext, Caller, Feeder, ScheduleCmd, ScheduleToken, ScheduleDirect,
         SyncBegin, SyncQueueEmpty, SyncAbandoned, SyncDone, SyncFails,
         ShutdownPut, ShutdownJoin, ShutdownDirect, FeederGet,
         FeederSeesShutdown, FeederRun, FeederFails, DeviceCompletes,
         OthersShutdown, feeder_vars

\* Every step of the caller, the feeder, the device and the other processes
\* keeps the inductive invariant.
LEMMA FeederCoreStep == FeederCore /\ [FeederNext]_feeder_vars => FeederCore'
<1> SUFFICES ASSUME FeederCore, [FeederNext]_feeder_vars
             PROVE  FeederCore'
  OBVIOUS
<1> USE DEF FeederCore, FeederNumTypeOK, FeederProgress, DirectProgress, QueueItems
<1>0. Len(queue) \in Nat /\ Puts \in Int /\ Gets \in Int
  BY FeederQueueFacts DEF Puts, Gets
<1>1. CASE ScheduleCmd
  <2>1. /\ Len(queue') = Len(queue) + 1 /\ queue' \in Seq(Int)
        /\ queue'[Len(queue) + 1] = scheduled + 1
        /\ \A k \in 1 .. Len(queue) : queue'[k] = queue[k]
    <3>1. queue \in Seq(Int) /\ scheduled + 1 \in Int /\ queue' = Append(queue, scheduled + 1)
      BY <1>1 DEF ScheduleCmd
    <3> QED BY <3>1, FeederQueueFacts
  <2>2. Puts' = Puts + 1 /\ Puts' = 2 * scheduled' - 1 /\ Gets' = Gets
    BY <1>1, <1>0, <2>1 DEF ScheduleCmd, Puts, Gets
  <2>3. Gets + Len(queue') = Puts'
    BY <1>0, <2>1, <2>2 DEF Gets
  <2>4. QueueLayout'
    <3>1. QueueLayout
      BY <1>1 DEF ScheduleCmd
    <3> SUFFICES ASSUME NEW k \in 1 .. Len(queue')
                 PROVE  Placed(k)'
      BY DEF QueueLayout
    <3>2. CASE k \in 1 .. Len(queue)
      <4>1. Placed(k) /\ queue'[k] = queue[k] /\ k \in Int
        BY <1>0, <2>1, <3>1, <3>2 DEF QueueLayout
      <4>2. 1 .. scheduled \subseteq 1 .. scheduled' /\ cpc = "idle"
        BY <1>1 DEF ScheduleCmd
      <4> QED BY <1>0, <2>2, <4>1, <4>2 DEF Placed
    <3>3. CASE k = Len(queue) + 1
      BY <1>1, <1>0, <2>1, <2>2, <2>3, <3>3 DEF ScheduleCmd, Placed
    <3> QED BY <1>0, <2>1, <3>2, <3>3
  <2> QED BY <1>1, <1>0, <2>1, <2>2, <2>4 DEF ScheduleCmd
<1>2. CASE ScheduleToken
  <2>1. /\ Len(queue') = Len(queue) + 1 /\ queue' \in Seq(Int)
        /\ queue'[Len(queue) + 1] = Token
        /\ \A k \in 1 .. Len(queue) : queue'[k] = queue[k]
    <3>1. queue \in Seq(Int) /\ Token \in Int /\ queue' = Append(queue, Token)
      BY <1>2 DEF ScheduleToken, Token
    <3> QED BY <3>1, FeederQueueFacts
  <2>2. Puts' = Puts + 1 /\ Puts' = 2 * scheduled' /\ Gets' = Gets
    BY <1>2, <1>0, <2>1 DEF ScheduleToken, Puts, Gets
  <2>3. Gets + Len(queue') = Puts'
    BY <1>0, <2>1, <2>2 DEF Gets
  <2>4. QueueLayout'
    <3>1. QueueLayout
      BY <1>2 DEF ScheduleToken
    <3> SUFFICES ASSUME NEW k \in 1 .. Len(queue')
                 PROVE  Placed(k)'
      BY DEF QueueLayout
    <3>2. CASE k \in 1 .. Len(queue)
      <4>1. Placed(k) /\ queue'[k] = queue[k] /\ k \in Int
        BY <1>0, <2>1, <3>1, <3>2 DEF QueueLayout
      <4> QED BY <1>2, <1>0, <2>2, <4>1 DEF ScheduleToken, Placed
    <3>3. CASE k = Len(queue) + 1
      BY <1>2, <1>0, <2>1, <2>2, <2>3, <3>3 DEF ScheduleToken, Placed, Token
    <3> QED BY <1>0, <2>1, <3>2, <3>3
  <2> QED BY <1>2, <1>0, <2>1, <2>2, <2>4 DEF ScheduleToken
<1>3. CASE ScheduleDirect
  BY <1>3 DEF ScheduleDirect
<1>4. CASE SyncBegin
  <2>1. Gets' = Gets /\ Puts' = Puts
    BY <1>4 DEF SyncBegin, Puts, Gets
  <2>2. QueueLayout => QueueLayout'
    BY <1>4, <2>1 DEF SyncBegin, QueueLayout, Placed
  <2> QED BY <1>4, <1>0, <2>1, <2>2 DEF SyncBegin, Puts, Gets
<1>5. CASE SyncQueueEmpty
  <2>1. Gets' = Gets /\ Puts' = Puts
    BY <1>5 DEF SyncQueueEmpty, Puts, Gets
  <2>2. QueueLayout => QueueLayout'
    BY <1>5, <2>1 DEF SyncQueueEmpty, QueueLayout, Placed
  <2> QED BY <1>5, <1>0, <2>1, <2>2 DEF SyncQueueEmpty, Puts, Gets
<1>6. CASE SyncAbandoned
  <2>1. Gets' = Gets /\ Puts' = Puts
    BY <1>6 DEF SyncAbandoned, Puts, Gets
  <2>2. QueueLayout => QueueLayout'
    BY <1>6, <2>1 DEF SyncAbandoned, QueueLayout, Placed
  <2> QED BY <1>6, <1>0, <2>1, <2>2 DEF SyncAbandoned, Puts, Gets
<1>7. CASE SyncDone
  <2>1. Gets' = Gets /\ Puts' = Puts
    BY <1>7 DEF SyncDone, Puts, Gets
  <2>2. QueueLayout => QueueLayout'
    BY <1>7, <2>1 DEF SyncDone, QueueLayout, Placed
  <2> QED BY <1>7, <1>0, <2>1, <2>2 DEF SyncDone, Puts, Gets
<1>8. CASE SyncFails
  <2>1. Gets' = Gets /\ Puts' = Puts
    BY <1>8 DEF SyncFails, Puts, Gets
  <2>2. QueueLayout => QueueLayout'
    BY <1>8, <2>1 DEF SyncFails, QueueLayout, Placed
  <2> QED BY <1>8, <1>0, <2>1, <2>2 DEF SyncFails, Puts, Gets
<1>9. CASE ShutdownPut
  <2>1. /\ Len(queue') = Len(queue) + 1 /\ queue' \in Seq(Int)
        /\ queue'[Len(queue) + 1] = Quit
        /\ \A k \in 1 .. Len(queue) : queue'[k] = queue[k]
    <3>1. queue \in Seq(Int) /\ Quit \in Int /\ queue' = Append(queue, Quit)
      BY <1>9 DEF ShutdownPut, Quit
    <3> QED BY <3>1, FeederQueueFacts
  <2>2. Puts' = Puts + 1 /\ Puts' = 2 * scheduled' + 1 /\ Gets' = Gets
    BY <1>9, <1>0, <2>1 DEF ShutdownPut, Puts, Gets
  <2>3. Gets + Len(queue') = Puts'
    BY <1>0, <2>1, <2>2 DEF Gets
  <2>4. QueueLayout'
    <3>1. QueueLayout
      BY <1>9 DEF ShutdownPut
    <3> SUFFICES ASSUME NEW k \in 1 .. Len(queue')
                 PROVE  Placed(k)'
      BY DEF QueueLayout
    <3>2. CASE k \in 1 .. Len(queue)
      <4>1. Placed(k) /\ queue'[k] = queue[k] /\ k \in Int
        BY <1>0, <2>1, <3>1, <3>2 DEF QueueLayout
      <4> QED BY <1>9, <1>0, <2>2, <4>1 DEF ShutdownPut, Placed
    <3>3. CASE k = Len(queue) + 1
      BY <1>9, <1>0, <2>1, <2>2, <2>3, <3>3 DEF ShutdownPut, Placed, Quit
    <3> QED BY <1>0, <2>1, <3>2, <3>3
  <2> QED BY <1>9, <1>0, <2>1, <2>2, <2>4 DEF ShutdownPut
<1>10. CASE ShutdownJoin
  <2>1. Gets' = Gets /\ Puts' = Puts
    BY <1>10 DEF ShutdownJoin, Puts, Gets
  <2>2. QueueLayout => QueueLayout'
    BY <1>10, <2>1 DEF ShutdownJoin, QueueLayout, Placed
  <2> QED BY <1>10, <1>0, <2>1, <2>2 DEF ShutdownJoin, Puts, Gets
<1>11. CASE ShutdownDirect
  BY <1>11 DEF ShutdownDirect
<1>12. CASE FeederGet
  <2>1. /\ Len(queue') = Len(queue) - 1 /\ Len(queue) > 0 /\ queue' \in Seq(Int)
        /\ Head(queue) = queue[1] /\ Head(queue) \in Int
        /\ \A k \in 1 .. Len(queue) - 1 : queue'[k] = queue[k + 1]
    BY <1>12, FeederQueueFacts DEF FeederGet
  <2>2. Puts' = Puts /\ Gets' = Gets + 1
    BY <1>12, <1>0, <2>1 DEF FeederGet, Puts, Gets
  <2>3. QueueLayout /\ Placed(1)
    BY <1>12, <1>0, <2>1 DEF FeederGet, QueueLayout
  <2>4. QueueLayout'
    <3> SUFFICES ASSUME NEW k \in 1 .. Len(queue')
                 PROVE  Placed(k)'
      BY DEF QueueLayout
    <3>1. k \in Int /\ Placed(k + 1) /\ queue'[k] = queue[k + 1]
      BY <1>0, <2>1, <2>3 DEF QueueLayout
    <3> QED BY <1>12, <1>0, <2>2, <3>1 DEF FeederGet, Placed
  <2>5. FeederProgress'
    <3>1. CASE Head(queue) = Token
      BY <1>12, <1>0, <2>1, <2>2, <2>3, <3>1 DEF FeederGet, Placed, Token, Quit
    <3>2. CASE Head(queue) = Quit
      BY <1>12, <1>0, <2>1, <2>2, <2>3, <3>2 DEF FeederGet, Placed, Puts, Token, Quit
    <3>3. CASE Head(queue) \notin {Token, Quit}
      <4>1. queue[1] \in Int /\ Gets + 1 = 2 * queue[1] - 1
        BY <2>1, <2>3, <3>3 DEF Placed
      <4>2. Gets = 2 * submitted - 1 \/ Gets = 2 * submitted
        BY <1>12 DEF FeederGet
      <4>3. queue[1] = submitted + 1 /\ Gets = 2 * submitted
        BY <1>0, <4>1, <4>2
      <4>4. fpc' = "run" /\ fcmd' = queue[1] /\ submitted' = submitted
        BY <1>12, <2>1, <3>3 DEF FeederGet
      <4> QED BY <2>2, <4>3, <4>4
    <3> QED BY <3>1, <3>2, <3>3
  <2> QED BY <1>12, <2>1, <2>4, <2>5 DEF FeederGet
<1>13. CASE FeederSeesShutdown
  <2>1. Gets' = Gets /\ Puts' = Puts
    BY <1>13 DEF FeederSeesShutdown, Puts, Gets
  <2>2. QueueLayout => QueueLayout'
    BY <1>13, <2>1 DEF FeederSeesShutdown, QueueLayout, Placed
  <2> QED BY <1>13, <1>0, <2>1, <2>2 DEF FeederSeesShutdown, Puts, Gets
<1>14. CASE FeederRun
  <2>1. Gets' = Gets /\ Puts' = Puts
    BY <1>14 DEF FeederRun, Puts, Gets
  <2>2. QueueLayout => QueueLayout'
    BY <1>14, <2>1 DEF FeederRun, QueueLayout, Placed
  <2> QED BY <1>14, <1>0, <2>1, <2>2 DEF FeederRun, Puts, Gets
<1>15. CASE FeederFails
  <2>1. Gets' = Gets /\ Puts' = Puts
    BY <1>15 DEF FeederFails, Puts, Gets
  <2>2. QueueLayout => QueueLayout'
    BY <1>15, <2>1 DEF FeederFails, QueueLayout, Placed
  <2> QED BY <1>15, <1>0, <2>1, <2>2 DEF FeederFails, Puts, Gets
<1>16. CASE DeviceCompletes
  <2>1. Gets' = Gets /\ Puts' = Puts
    BY <1>16 DEF DeviceCompletes, Puts, Gets
  <2>2. QueueLayout => QueueLayout'
    BY <1>16, <2>1 DEF DeviceCompletes, QueueLayout, Placed
  <2> QED BY <1>16, <1>0, <2>1, <2>2 DEF DeviceCompletes, Puts, Gets
<1>17. CASE OthersShutdown
  <2>1. Gets' = Gets /\ Puts' = Puts
    BY <1>17 DEF OthersShutdown, Puts, Gets
  <2>2. QueueLayout => QueueLayout'
    BY <1>17, <2>1 DEF OthersShutdown, QueueLayout, Placed
  <2> QED BY <1>17, <1>0, <2>1, <2>2 DEF OthersShutdown, Puts, Gets
<1>18. CASE UNCHANGED feeder_vars
  <2>1. Gets' = Gets /\ Puts' = Puts
    BY <1>18 DEF feeder_vars, Puts, Gets
  <2>2. QueueLayout => QueueLayout'
    BY <1>18, <2>1 DEF feeder_vars, QueueLayout, Placed
  <2> QED BY <1>18, <1>0, <2>1, <2>2 DEF feeder_vars, Puts, Gets
<1> QED
  BY <1>1, <1>2, <1>3, <1>4, <1>5, <1>6, <1>7, <1>8, <1>9, <1>10, <1>11, <1>12,
     <1>13, <1>14, <1>15, <1>16, <1>17, <1>18 DEF FeederNext, Caller, Feeder

LEMMA FeederStep == FeederInv /\ [FeederNext]_feeder_vars => FeederInv'
<1>1. FeederInv <=> FeederCore /\ shutdown_event \in BOOLEAN /\ shared \in BOOLEAN
  BY DEF FeederInv, FeederTypeOK, FeederCore, FeederNumTypeOK
<1>2. FeederInv' <=> FeederCore' /\ shutdown_event' \in BOOLEAN /\ shared' \in BOOLEAN
  BY DEF FeederInv, FeederTypeOK, FeederCore, FeederNumTypeOK
<1> QED BY <1>1, <1>2, FeederCoreStep, FeederFlagsStep

\* The feeder's inductive invariant holds in every reachable state of
\* BackendAPI, whatever the number of programs and whichever calls fail.
THEOREM FeederInvariant == FeederSpec => []FeederInv
  BY FeederStarts, FeederStep, PTL DEF FeederSpec

\* The programs are handed to the device in the order of the schedule_run_*
\* calls.
THEOREM FeederOrder == FeederSpec => []FeederInOrder
<1>1. FeederInv => FeederInOrder
  BY DEF FeederInv, FeederProgress, FeederInOrder
<1> QED BY <1>1, FeederInvariant, PTL

\* BackendAPI.shutdown() never finishes the backend under a running feeder, and
\* drops no scheduled program unless one failed or the shutdown event was seen.
THEOREM FeederClose == FeederSpec => []CloseAfterLast
<1>1. FeederInv => CloseAfterLast
  BY DEF FeederInv, FeederProgress, CloseAfterLast
<1> QED BY <1>1, FeederInvariant, PTL

\* BackendAPI.sync() returns through wait_for_idle only when all scheduled
\* programs have completed: the token in the queue closes the window in which
\* the feeder has taken a command and not yet handed it over.
THEOREM SyncCompleteness == FeederSpec => SyncIsComplete
<1>1. FeederInv /\ [FeederNext]_feeder_vars =>
        [cpc = "wait" /\ cpc' = "idle" => completed = scheduled]_feeder_vars
  <2> SUFFICES ASSUME FeederInv, FeederNext, cpc = "wait", cpc' = "idle"
               PROVE  completed = scheduled
    BY DEF feeder_vars
  <2>1. SyncDone
    BY DEF FeederNext, Caller, Feeder, ScheduleCmd, ScheduleToken, ScheduleDirect,
           SyncBegin, SyncQueueEmpty, SyncAbandoned, SyncFails, ShutdownPut,
           ShutdownJoin, ShutdownDirect, FeederGet, FeederSeesShutdown,
           FeederRun, FeederFails, DeviceCompletes, OthersShutdown
  <2> QED BY <2>1 DEF SyncDone, FeederInv
<1> QED BY <1>1, FeederInvariant, PTL DEF FeederSpec, SyncIsComplete
=============================================================================
