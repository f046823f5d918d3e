-------------------------- MODULE ProcessesProofs ---------------------------
(***************************************************************************)
(* Theorems of Processes, for any number of chains and samples and any     *)
(* number of unparsable results: wherever a signal or an exception catches *)
(* the threads of the server and of its worker.                            *)
(***************************************************************************)
EXTENDS Processes, TLAPS

-----------------------------------------------------------------------------
(* The invariant, in three parts *)

\* The processes: main and the context it terminates go together, and so a thread
\* that finds the context terminating knows that nobody waits for it any more.
ControlType ==
    /\ main \in [Process ->
            {"waiting", "stopping", "deleting", "joining", "done", "crashed"}]
    /\ interrupted \in [Process -> BOOLEAN] /\ running \in [Process -> BOOLEAN]
    /\ context \in [Process -> [state : {"open", "terminating", "deleted"},
                                sockets : SUBSET AllSockets]]

MainAndContext ==
    \A p \in Process :
        /\ main[p] \in {"waiting", "stopping"} => IsOpen(p)
        /\ main[p] = "deleting" => IsTerminating(p)
        /\ main[p] \in {"joining", "done"} => IsDeleted(p)

Control == ControlType /\ MainAndContext

\* The threads: where each one is.
Phases ==
    /\ sampler \in {"starting", "initialising", "stepping", "flushing", "ended"}
    /\ finished \in BOOLEAN
    /\ delegator \in {"starting", "polling", "handling", "joining", "ended"}
    /\ heartbeat \in {"none", "starting", "polling", "ended"}
    /\ client \in {"starting", "binding", "polling", "joining", "failing", "ended"}
    /\ clientHB \in {"none", "starting", "polling", "ended"}
    /\ minion \in {"elsewhere", "starting", "waiting", "computing", "ended"}
    /\ connected \in BOOLEAN /\ hello \in {"unsent", "onTheWay", "received"}

\* The evaluations the server has in hand: none of them is forgotten when a worker goes.
InFlight == queued + wip + replies

\* Those that the worker has, or that are on the way to it or from it.  The first message
\* in the pipes between the minion and the client is the HELLO, which is none.
Results ==
    IF hello = "unsent" /\ unsent + arrived > 0 THEN unsent + arrived - 1 ELSE unsent + arrived

Pipeline ==
    toWorker + toMinion + (IF minion = "computing" THEN 1 ELSE 0) + Results + fromWorker

\* The worker has no more than workInProgress says, and after it was disconnected no more
\* than was queued again.
Pipes ==
    /\ queued \in Nat /\ wip \in Nat /\ replies \in Nat
    /\ toWorker \in Nat /\ toMinion \in Nat /\ unsent \in Nat /\ arrived \in Nat
    /\ fromWorker \in Nat
    /\ minion \in {"starting", "elsewhere"} => unsent + arrived = 0 /\ hello = "unsent"
    /\ connected => hello = "received"
    /\ ~connected => wip = 0
    /\ hello # "received" => Pipeline = 0
    /\ Pipeline <= IF connected THEN wip ELSE queued

\* What the sampler knows of the evaluations in hand bounds their number from above: one
\* whose send has failed is lost, and a result that cannot be parsed is never counted off.
Counts ==
    /\ initial \in 0..NChains /\ samples \in 0..NSamples /\ errors \in 0..MaxErrors
    /\ numOutstanding \in 0..NChains
    /\ InFlight <= NChains
    /\ sampler \in {"starting", "initialising"} => initial > 0
    /\ sampler = "starting" => InFlight = 0
    /\ sampler = "initialising" => InFlight <= 1
    /\ sampler = "stepping" => numOutstanding = NChains
    /\ sampler = "flushing" => InFlight + errors <= numOutstanding
    /\ sampler \notin {"flushing", "ended"} => errors = 0
    /\ finished => sampler = "ended" /\ InFlight = 0 /\ errors = 0

Inv == Control /\ Phases /\ Pipes /\ Counts /\ NoWaitForDeadSampler

\* The sampler's own members are what TypeOK says of them, and so is all else.
LEMMA InvImpliesTypeOK == Inv => TypeOK
<1> SUFFICES ASSUME Inv PROVE TypeOK
  OBVIOUS
<1>1. NChains \in Nat /\ InFlight \in Nat /\ InFlight <= NChains /\ Pipes
  BY ServerAssumption DEF Inv, Counts, Pipes, InFlight
<1>2. queued <= InFlight /\ wip <= InFlight /\ replies <= InFlight
  BY <1>1 DEF Pipes, InFlight
<1>3. Pipeline \in Nat /\ Pipeline <= NChains
  <2>1. Pipeline \in Nat
    BY DEF Inv, Pipes, Pipeline, Results
  <2>2. Pipeline <= wip \/ Pipeline <= queued
    BY DEF Inv, Pipes
  <2> HIDE DEF Pipeline, InFlight
  <2> QED
    BY <1>1, <1>2, <2>1, <2>2 DEF Pipes
<1>4. /\ toWorker <= Pipeline /\ toMinion <= Pipeline /\ fromWorker <= Pipeline
      /\ unsent <= Pipeline + 1 /\ arrived <= Pipeline + 1
  BY DEF Inv, Pipes, Pipeline, Results
<1> HIDE DEF InFlight, Pipeline
<1>5. /\ {queued, wip, replies, toWorker, fromWorker, toMinion} \subseteq 0..NChains
      /\ {unsent, arrived} \subseteq 0..(NChains + 1)
  BY <1>1, <1>2, <1>3, <1>4 DEF Pipes
<1> QED
  BY <1>5 DEF Inv, Control, ControlType, Phases, Counts, TypeOK

\* What the counts say when runSampler has reached its end.
LEMMA InvImpliesNothingLeft == Inv => NothingLeftBehind
<1> SUFFICES ASSUME Inv, finished PROVE NothingLeftBehind
  BY DEF NothingLeftBehind
<1>1. InFlight = 0 /\ errors = 0 /\ Pipes
  BY DEF Inv, Counts
<1>2. queued = 0 /\ wip = 0 /\ replies = 0
  BY <1>1 DEF Pipes, InFlight
<1>3. Pipeline <= 0
  BY <1>1, <1>2 DEF Pipes
<1>4. toWorker = 0 /\ toMinion = 0 /\ fromWorker = 0 /\ minion # "computing"
  BY <1>1, <1>3 DEF Pipes, Pipeline, Results
<1> QED
  BY <1>1, <1>2, <1>4 DEF NothingLeftBehind

-----------------------------------------------------------------------------
(* What the steps have in common *)

LEMMA InFlightIsNatural == Pipes => InFlight \in Nat
BY DEF Pipes, InFlight

LEMMA InFlightStaysNatural == Pipes' => (InFlight \in Nat)'
BY InFlightIsNatural, PTL

\* The sampler's members rest and no evaluation is added.
LEMMA CountsRest ==
    ASSUME Counts, Pipes, Pipes', UNCHANGED samplerVars, InFlight' <= InFlight
    PROVE  Counts'
<1>1. PICK k \in Nat, l \in Nat : k = InFlight /\ l = InFlight'
  BY InFlightIsNatural, InFlightStaysNatural
<1>2. l <= k
  BY <1>1
<1>3. errors \in Nat /\ numOutstanding \in Nat /\ NChains \in Nat
  BY ServerAssumption DEF Counts
<1>4. k <= NChains /\ (sampler = "flushing" => k + errors <= numOutstanding)
  BY <1>1 DEF Counts
<1>5. l <= NChains /\ (k = 0 => l = 0) /\ (k <= 1 => l <= 1)
  BY <1>2, <1>3, <1>4
<1>6. sampler = "flushing" => l + errors <= numOutstanding
  BY <1>2, <1>3, <1>4
<1> QED
  BY <1>1, <1>5, <1>6 DEF Counts, samplerVars

\* Threads open and close sockets; the state of the context is main's affair.
LEMMA ContextRests ==
    ASSUME ControlType, NEW p \in Process, NEW S \in SUBSET AllSockets,
           Open(p, S) \/ Close(p, S) \/ UNCHANGED context
    PROVE  /\ context' \in [Process -> [state : {"open", "terminating", "deleted"},
                                        sockets : SUBSET AllSockets]]
           /\ \A q \in Process : context'[q].state = context[q].state
BY DEF ControlType, Open, Close

\* A thread that neither stops its process nor breaks it.
LEMMA ControlRests ==
    ASSUME Control, UNCHANGED <<main>>,
           running' \in [Process -> BOOLEAN], interrupted' \in [Process -> BOOLEAN],
           context' \in [Process -> [state : {"open", "terminating", "deleted"},
                                     sockets : SUBSET AllSockets]],
           \A q \in Process : context'[q].state = context[q].state
    PROVE  Control'
BY DEF Control, ControlType, MainAndContext, IsOpen, IsTerminating,
       IsDeleted, Process

\* A process that breaks.
LEMMA ControlBreaks ==
    ASSUME Control, UNCHANGED <<running, context>>, interrupted' \in [Process -> BOOLEAN],
           NEW p \in Process, main' = [main EXCEPT ![p] = "crashed"]
    PROVE  Control' /\ \A q \in Process \ {p} : main'[q] = main[q]
BY DEF Control, ControlType, MainAndContext, IsOpen, IsTerminating, IsDeleted

\* main and stop().
LEMMA MainKeepsControl ==
    ASSUME Control, NEW p \in Process, NEW delivered, NEW ended, Main(p, delivered, ended)
    PROVE  /\ Control' /\ UNCHANGED <<interrupted, wireVars>>
           /\ main'[p] # "waiting"
           /\ \A q \in Process : q # p => main'[q] = main[q] /\ running'[q] = running[q]
<1> USE DEF Process
<1>1. ControlType'
  <2>1. main' \in [Process ->
            {"waiting", "stopping", "deleting", "joining", "done", "crashed"}]
    BY DEF Main, Stop, DeleteContext, ContextDeleted, Join, MainGoes, Control, ControlType
  <2>2. running' \in [Process -> BOOLEAN] /\ interrupted' \in [Process -> BOOLEAN]
    BY DEF Main, Stop, DeleteContext, ContextDeleted, Join, Control, ControlType
  <2>3. context' \in [Process -> [state : {"open", "terminating", "deleted"},
                                  sockets : SUBSET AllSockets]]
    BY DEF Main, Stop, DeleteContext, ContextDeleted, Join, Control, ControlType
  <2> QED
    BY <2>1, <2>2, <2>3 DEF ControlType
<1>2. CASE Stop(p)
  BY <1>1, <1>2 DEF Main, Stop, MainGoes, Control, ControlType, MainAndContext,
            IsOpen, IsTerminating, IsDeleted
<1>3. CASE DeleteContext(p)
  BY <1>1, <1>3 DEF Main, DeleteContext, MainGoes, Control, ControlType, MainAndContext,
            IsOpen, IsTerminating, IsDeleted
<1>4. CASE ContextDeleted(p, delivered)
  BY <1>1, <1>4 DEF Main, ContextDeleted, MainGoes, Control, ControlType, MainAndContext,
            IsOpen, IsTerminating, IsDeleted
<1>5. CASE Join(p, ended)
  BY <1>1, <1>5 DEF Main, Join, MainGoes, Control, ControlType, MainAndContext,
            IsOpen, IsTerminating, IsDeleted
<1> QED
  BY <1>2, <1>3, <1>4, <1>5 DEF Main
-----------------------------------------------------------------------------
(* The worker process *)

\* No step of a worker adds an evaluation to those it has.
LEMMA ClientKeepsPipes ==
    ASSUME Phases, Pipes, ClientThread, UNCHANGED serverVars
    PROVE  Phases' /\ Pipes'
<1> USE DEF ClientThread, Phases, Pipes, Pipeline, Results, serverVars, samplerVars, wireVars
<1>1. CASE ClientStarts
  BY <1>1 DEF ClientStarts
<1>2. CASE ClientBinds
  BY <1>2 DEF ClientBinds
<1>3. CASE ClientStopsBinding
  BY <1>3 DEF ClientStopsBinding, ConstructorFails
<1>4. CASE ClientTakesJob
  BY <1>4 DEF ClientTakesJob, Handled
<1>5. CASE ClientForwards
  BY <1>5 DEF ClientForwards, Handled
<1>6. CASE ClientWakes
  BY <1>6 DEF ClientWakes, Handled
<1>7. CASE ClientTerminated
  BY <1>7 DEF ClientTerminated, ClientThrows
<1>8. CASE ClientEnds
  BY <1>8 DEF ClientEnds
<1>9. CASE ClientFails
  BY <1>9 DEF ClientFails
<1> QED
  BY <1>1, <1>2, <1>3, <1>4, <1>5, <1>6, <1>7, <1>8, <1>9

LEMMA MinionKeepsPipes ==
    ASSUME Phases, Pipes, MinionThread, UNCHANGED serverVars
    PROVE  Phases' /\ Pipes'
<1> USE DEF MinionThread, Phases, Pipes, Pipeline, Results, serverVars, samplerVars, wireVars
<1>1. CASE MinionStarts
  BY <1>1 DEF MinionStarts
<1>2. CASE NextJob
  BY <1>2 DEF NextJob
<1>3. CASE Submit
  BY <1>3 DEF Submit, MinionEnds
<1>4. CASE MinionTerminated
  BY <1>4 DEF MinionTerminated, MinionThrows, MinionEnds
<1> QED
  BY <1>1, <1>2, <1>3, <1>4

\* What the heartbeat, a script's GOODBYE or a signal may do to the threads, or nothing.
ThreadsMove ==
    /\ client' \in {"starting", "binding", "polling", "joining", "failing", "ended"}
    /\ clientHB' \in {"none", "starting", "polling", "ended"}
    /\ minion' = minion \/ (minion \in {"waiting", "computing"} /\ minion' = "ended")
    /\ UNCHANGED <<unsent, arrived, toMinion, toWorker, fromWorker, hello>>

LEMMA ThreadsKeepPipes ==
    ASSUME Phases, Pipes, ThreadsMove, UNCHANGED serverVars
    PROVE  Phases' /\ Pipes'
BY DEF ThreadsMove, Phases, Pipes, Pipeline, Results, serverVars, samplerVars

LEMMA DeliverKeepsPipes ==
    ASSUME Phases, Pipes, Deliver, UNCHANGED serverVars
    PROVE  Phases' /\ Pipes'
BY DEF Deliver, Phases, Pipes, Pipeline, Results, serverVars, samplerVars, wireVars

\* The worker's threads open and close sockets, or break the process.
SocketsMove ==
    \/ /\ \E S \in SUBSET AllSockets :
              Open("worker", S) \/ Close("worker", S) \/ UNCHANGED context
       /\ UNCHANGED main
    \/ UNCHANGED context /\ main' = [main EXCEPT !.worker = "crashed"]

LEMMA SocketsKeepControl ==
    ASSUME Control, SocketsMove, UNCHANGED running, interrupted' \in [Process -> BOOLEAN]
    PROVE  Control' /\ main'["server"] = main["server"]
<1> USE DEF Process
<1>1. running' \in [Process -> BOOLEAN]
  BY DEF Control, ControlType
<1>2. CASE /\ \E S \in SUBSET AllSockets :
                Open("worker", S) \/ Close("worker", S) \/ UNCHANGED context
           /\ UNCHANGED main
  <2>1. PICK S \in SUBSET AllSockets :
            Open("worker", S) \/ Close("worker", S) \/ UNCHANGED context
    BY <1>2
  <2>2. /\ context' \in [Process -> [state : {"open", "terminating", "deleted"},
                                     sockets : SUBSET AllSockets]]
        /\ \A q \in Process : context'[q].state = context[q].state
    BY <2>1, ContextRests DEF Control
  <2> QED
    BY <1>1, <1>2, <2>2, ControlRests
<1>3. CASE UNCHANGED context /\ main' = [main EXCEPT !["worker"] = "crashed"]
  <2>1. Control' /\ \A q \in Process \ {"worker"} : main'[q] = main[q]
    BY <1>3, ControlBreaks
  <2> QED
    BY <2>1
<1> QED
  BY <1>2, <1>3 DEF SocketsMove

LEMMA WorkersSockets ==
    /\ ClientSockets \in SUBSET AllSockets /\ {"toClient"} \in SUBSET AllSockets
    /\ {"toWorker"} \in SUBSET AllSockets
BY DEF AllSockets

LEMMA WorkersSocketsMove ==
    ClientThread \/ ClientHBThread \/ MinionThread \/ Deliver \/ ScriptGoodbye \/ WorkerSignal
        => SocketsMove
<1> USE WorkersSockets DEF SocketsMove
<1>1. ClientThread => SocketsMove
  BY DEF ClientThread, ClientStarts, ClientBinds, ClientStopsBinding, ConstructorFails,
     StartsTooLate, ClientTakesJob, ClientForwards, ClientWakes, ClientTerminated, ClientEnds,
     ClientFails
<1>2. ClientHBThread => SocketsMove
  BY DEF ClientHBThread, ClientHBEnds
<1>3. MinionThread => SocketsMove
  BY DEF MinionThread, MinionStarts, StartsTooLate, NextJob, Submit, MinionTerminated,
     MinionThrows, MinionEnds
<1>4. Deliver \/ ScriptGoodbye => SocketsMove
  BY DEF Deliver, ScriptGoodbye
<1>5. WorkerSignal => SocketsMove
  BY DEF WorkerSignal, ConstructorFails, ClientThrows, ClientHBEnds, MinionThrows, MinionEnds
<1> QED
  BY <1>1, <1>2, <1>3, <1>4, <1>5

\* What is left when control, threads and pipes are settled.
LEMMA WorkerKeepsTheRest ==
    ASSUME Inv, UNCHANGED serverVars, Control', Phases', Pipes',
           main'["server"] = main["server"], running'["server"] = running["server"],
           interrupted'["server"] = interrupted["server"]
    PROVE  Inv'
<1>1. InFlight' = InFlight /\ InFlight \in Nat
  BY InFlightIsNatural DEF Inv, InFlight, serverVars
<1>2. Counts'
  BY <1>1, CountsRest DEF Inv, serverVars
<1>3. NoWaitForDeadSampler'
  BY DEF Inv, NoWaitForDeadSampler, serverVars, samplerVars
<1> QED
  BY <1>2, <1>3 DEF Inv

LEMMA WorkerKeepsInv ==
    ASSUME Inv, WorkerNext, UNCHANGED serverVars
    PROVE  Inv'
<1>1. CASE /\ ClientThread \/ ClientHBThread \/ MinionThread \/ Deliver \/ ScriptGoodbye
           /\ UNCHANGED <<interrupted, running>>
  <2>1. Control' /\ main'["server"] = main["server"]
    BY <1>1, WorkersSocketsMove, SocketsKeepControl DEF Inv, Control, ControlType
  <2>2. Phases' /\ Pipes'
    <3>1. CASE ClientThread
      BY <3>1, ClientKeepsPipes DEF Inv
    <3>2. CASE ClientHBThread
      <4>1. ThreadsMove
        BY <3>2 DEF Inv, Phases, ThreadsMove, ClientHBThread, ClientHBEnds, wireVars
      <4> QED
        BY <4>1, ThreadsKeepPipes DEF Inv
    <3>3. CASE MinionThread
      BY <3>3, MinionKeepsPipes DEF Inv
    <3>4. CASE Deliver
      BY <3>4, DeliverKeepsPipes DEF Inv
    <3>5. CASE ScriptGoodbye
      <4>1. ThreadsMove
        BY <3>5 DEF Inv, Phases, ThreadsMove, ScriptGoodbye, wireVars
      <4> QED
        BY <4>1, ThreadsKeepPipes DEF Inv
    <3> QED
      BY <1>1, <3>1, <3>2, <3>3, <3>4, <3>5
  <2> QED
    BY <1>1, <2>1, <2>2, WorkerKeepsTheRest
<1>2. CASE WorkerSignal
  <2>1. interrupted' \in [Process -> BOOLEAN] /\ interrupted'["server"] = interrupted["server"]
    BY <1>2 DEF Inv, Control, ControlType, Process, WorkerSignal, Interrupt
  <2>2. UNCHANGED running
    BY <1>2 DEF WorkerSignal
  <2>3. Control' /\ main'["server"] = main["server"]
    BY <1>2, <2>1, <2>2, WorkersSocketsMove, SocketsKeepControl DEF Inv
  <2>4. ThreadsMove
    BY <1>2 DEF Inv, Phases, ThreadsMove, WorkerSignal, ConstructorFails, ClientThrows,
       ClientHBEnds, MinionThrows, MinionEnds, wireVars
  <2>5. Phases' /\ Pipes'
    BY <2>4, ThreadsKeepPipes DEF Inv
  <2> QED
    BY <2>1, <2>2, <2>3, <2>5, WorkerKeepsTheRest
<1>3. CASE WorkerMain
  <2>1. PICK d, e : Main("worker", d, e)
    BY <1>3 DEF WorkerMain
  <2>2. /\ Control' /\ UNCHANGED <<interrupted, wireVars>>
        /\ main'["server"] = main["server"] /\ running'["server"] = running["server"]
    BY <2>1, MainKeepsControl DEF Inv, Process
  <2>3. ThreadsMove
    BY <1>3, <2>2 DEF Inv, Phases, ThreadsMove, workerVars, wireVars, WorkerMain
  <2>4. Phases' /\ Pipes'
    BY <2>3, ThreadsKeepPipes DEF Inv
  <2> QED
    BY <2>2, <2>4, WorkerKeepsTheRest
<1> QED
  BY <1>1, <1>2, <1>3 DEF WorkerNext

-----------------------------------------------------------------------------
(* The sampler's thread *)

\* A retrieved result is no longer in flight, and queued and replies stay natural.
LEMMA SamplerKeepsCounts ==
    ASSUME Phases, Pipes, Counts, UNCHANGED workerVars,
           UNCHANGED <<wip, connected, delegator, heartbeat, wireVars>>,
           SamplerThread \/ UnparsableResult
    PROVE  Phases' /\ Pipes' /\ Counts'
<1>1. Phases'
  <2>1. /\ sampler' \in {"starting", "initialising", "stepping", "flushing", "ended"}
        /\ finished' \in BOOLEAN
    BY DEF Phases, SamplerThread, OpenRequester, InitialResult, Step, LeaveLoop, FlushOne,
       FlushEnds, Returns, SamplerTerminated, SamplerThrows, UnparsableResult
  <2> QED
    BY <2>1 DEF Phases, workerVars, wireVars
<1>2. queued' \in Nat /\ replies' \in Nat
  BY ServerAssumption DEF Pipes, SamplerThread, OpenRequester, InitialResult, Step,
     LeaveLoop, FlushOne, FlushEnds, Returns, SamplerTerminated, SamplerThrows,
     UnparsableResult, Retrieves
<1>3. queued' >= queued
  BY ServerAssumption DEF Pipes, SamplerThread, OpenRequester, InitialResult, Step, LeaveLoop,
     FlushOne, FlushEnds, Returns, SamplerTerminated, SamplerThrows, UnparsableResult
<1>4. Pipes'
  <2>1. Pipeline' = Pipeline /\ Pipeline \in Nat
    BY DEF Pipes, Pipeline, Results, workerVars, wireVars
  <2> HIDE DEF Pipeline
  <2>2. Pipeline' <= (IF connected THEN wip ELSE queued)'
    BY <1>2, <1>3, <2>1 DEF Pipes
  <2> QED
    BY <1>2, <2>1, <2>2 DEF Pipes, workerVars, wireVars
<1>5. NChains \in Nat \ {0} /\ NSamples \in Nat /\ MaxErrors \in Nat
  BY ServerAssumption
<1>6. queued \in Nat /\ wip \in Nat /\ replies \in Nat
  BY DEF Pipes
<1>7. PICK k \in Nat, l \in Nat : /\ k = InFlight /\ k = queued + wip + replies
                                 /\ l = InFlight' /\ l = queued' + wip + replies'
  <2>1. PICK a \in Nat, b \in Nat : a = queued' /\ b = replies'
    BY <1>2
  <2>2. queued + wip + replies \in Nat /\ a + wip + b \in Nat
    BY <1>6
  <2>3. InFlight = queued + wip + replies /\ InFlight' = a + wip + b
    BY <2>1 DEF InFlight
  <2> QED
    BY <2>1, <2>2, <2>3
<1>8. Counts'
  <2> USE <1>2, <1>5, <1>6, <1>7 DEF Counts
  <2>1. CASE OpenRequester /\ UNCHANGED errors
    BY <2>1 DEF OpenRequester
  <2>2. CASE InitialResult /\ UNCHANGED errors
    <3>1. CASE initial > 1
      BY <2>2, <3>1 DEF InitialResult, Retrieves
    <3>2. CASE ~(initial > 1)
      BY <2>2, <3>2 DEF InitialResult, Retrieves
    <3> QED
      BY <3>1, <3>2
  <2>3. CASE Step /\ UNCHANGED errors
    BY <2>3 DEF Step, Retrieves
  <2>4. CASE LeaveLoop /\ UNCHANGED errors
    BY <2>4 DEF LeaveLoop, LoopEnds
  <2>5. CASE FlushOne /\ UNCHANGED errors
    BY <2>5 DEF FlushOne, Retrieves
  <2>6. CASE FlushEnds /\ UNCHANGED errors
    <3>1. k + errors <= 0
      BY <2>6 DEF FlushEnds
    <3>2. k = 0 /\ errors = 0
      BY <3>1
    <3>3. l = 0
      BY <2>6, <3>2 DEF FlushEnds, Returns
    <3> QED
      BY <2>6, <3>2, <3>3 DEF FlushEnds, Returns
  <2>7. CASE SamplerTerminated /\ UNCHANGED errors
    BY <2>7 DEF SamplerTerminated, SamplerThrows
  <2>8. CASE UnparsableResult
    BY <2>8 DEF UnparsableResult, SamplerThrows, Retrieves
  <2> QED
    BY <2>1, <2>2, <2>3, <2>4, <2>5, <2>6, <2>7, <2>8 DEF SamplerThread
<1> QED
  BY <1>1, <1>4, <1>8

\* The sampler opens and closes its socket, and clears running_ when it returns.
LEMMA SamplerKeepsControl ==
    ASSUME Control, UNCHANGED <<main, interrupted>>, SamplerThread \/ UnparsableResult
    PROVE  Control'
<1>1. {"toDelegator"} \in SUBSET AllSockets
  BY DEF AllSockets, ServerSockets
<1>2. \/ Open("server", {"toDelegator"}) \/ Close("server", {"toDelegator"})
      \/ UNCHANGED context
  BY DEF SamplerThread, OpenRequester, InitialResult, Step, LeaveLoop, FlushOne, FlushEnds,
     Returns, SamplerTerminated, SamplerThrows, UnparsableResult
<1>3. running' \in [Process -> BOOLEAN] /\ interrupted' \in [Process -> BOOLEAN]
  BY DEF Control, ControlType, Process, SamplerThread, OpenRequester, InitialResult, Step,
     LeaveLoop, FlushOne, FlushEnds, Returns, SamplerTerminated, SamplerThrows,
     UnparsableResult
<1>4. "server" \in Process
  BY DEF Process
<1>5. /\ context' \in [Process -> [state : {"open", "terminating", "deleted"},
                                   sockets : SUBSET AllSockets]]
      /\ \A q \in Process : context'[q].state = context[q].state
  BY <1>1, <1>2, <1>4, ContextRests DEF Control
<1> QED
  BY <1>3, <1>5, ControlRests

\* The sampler ends where it has cleared running_, or a result was unparsable, or the
\* context terminates, which main does when it no longer waits.
LEMMA SamplerIsMissed ==
    ASSUME Inv, UNCHANGED <<main, interrupted>>, SamplerThread \/ UnparsableResult
    PROVE  NoWaitForDeadSampler'
<1> USE DEF NoWaitForDeadSampler
<1>1. CASE FlushEnds
  <2>1. ~running'.server
    BY <1>1 DEF FlushEnds, Returns, Inv, Control, ControlType, Process
  <2> QED
    BY <2>1
<1>2. CASE SamplerTerminated
  <2>1. main.server # "waiting"
    BY <1>2 DEF SamplerTerminated, Inv, Control, MainAndContext, Process, IsOpen, IsTerminating
  <2> QED
    BY <2>1
<1>3. CASE UnparsableResult
  <2>1. errors' # 0
    BY <1>3, ServerAssumption DEF UnparsableResult, Inv, Counts
  <2> QED
    BY <2>1
<1>4. CASE OpenRequester \/ InitialResult \/ Step \/ LeaveLoop \/ FlushOne
  <2>1. sampler' # "ended"
    BY <1>4 DEF OpenRequester, InitialResult, Step, LeaveLoop, FlushOne
  <2> QED
    BY <2>1
<1> QED
  BY <1>1, <1>2, <1>3, <1>4 DEF SamplerThread

-----------------------------------------------------------------------------
(* The Delegator's thread, the heartbeat's, and main *)

\* disconnectWorker queues what the worker had, and what is lost is a job that was queued.
LEMMA FailureKeepsPipes ==
    ASSUME Phases, Pipes, SendFails, UNCHANGED <<replies, wireVars, workerVars>>
    PROVE  Pipes' /\ InFlight' <= InFlight /\ connected' \in BOOLEAN
<1>1. Pipeline' = Pipeline /\ Pipeline \in Nat /\ UNCHANGED <<replies, hello>>
  BY DEF Pipes, Pipeline, Results, workerVars, wireVars
<1> HIDE DEF Pipeline
<1>2. /\ connected /\ hello = "received"
      /\ \/ UNCHANGED <<connected, queued, wip>>
         \/ connected' = FALSE /\ wip' = 0 /\ queued' = queued + wip
         \/ connected' = FALSE /\ wip' = 0 /\ queued > 0 /\ queued' = queued - 1 + wip
  BY DEF SendFails, Assigns, UsesErasedWorker, DisconnectWorker, Pipes
<1>3. queued' \in Nat /\ wip' \in Nat /\ connected' \in BOOLEAN
  <2>1. CASE UNCHANGED <<connected, queued, wip>>
    BY <2>1 DEF Pipes, Phases
  <2>2. CASE connected' = FALSE /\ wip' = 0 /\ queued' = queued + wip
    <3>1. queued' \in Nat
      BY <2>2 DEF Pipes
    <3> QED
      BY <2>2, <3>1
  <2>3. CASE connected' = FALSE /\ wip' = 0 /\ queued > 0 /\ queued' = queued - 1 + wip
    <3>1. queued - 1 \in Nat /\ wip \in Nat
      BY <2>3 DEF Pipes
    <3>2. queued' \in Nat
      BY <2>3, <3>1
    <3> QED
      BY <2>3, <3>2
  <2> QED
    BY <1>2, <2>1, <2>2, <2>3
<1>4. Pipeline' <= (IF connected THEN wip ELSE queued)'
  <2>1. CASE UNCHANGED <<connected, queued, wip>>
    BY <1>1, <2>1 DEF Pipes
  <2>2. CASE connected' = FALSE /\ queued' = queued + wip
    BY <1>1, <1>2, <2>2 DEF Pipes
  <2>3. CASE connected' = FALSE /\ queued > 0 /\ queued' = queued - 1 + wip
    BY <1>1, <1>2, <2>3 DEF Pipes
  <2> QED
    BY <1>2, <2>1, <2>2, <2>3
<1>5. Pipes'
  BY <1>1, <1>2, <1>3, <1>4 DEF Pipes, workerVars, wireVars
<1>6. InFlight' <= InFlight
  <2>1. CASE UNCHANGED <<connected, queued, wip>>
    BY <1>1, <2>1 DEF Pipes, InFlight
  <2>2. CASE wip' = 0 /\ queued' = queued + wip
    BY <1>1, <2>2 DEF Pipes, InFlight
  <2>3. CASE wip' = 0 /\ queued > 0 /\ queued' = queued - 1 + wip
    BY <1>1, <2>3 DEF Pipes, InFlight
  <2> QED
    BY <1>2, <2>1, <2>2, <2>3
<1> QED
  BY <1>3, <1>5, <1>6

\* A process that goes on, or breaks and so waits no more.
LEMMA ServerGoesOnOrBreaks ==
    ASSUME Inv, UNCHANGED <<running, context>>, interrupted' \in [Process -> BOOLEAN],
           UNCHANGED main \/ main' = [main EXCEPT !["server"] = "crashed"]
    PROVE  Control' /\ (main'["server"] = main["server"] \/ main'["server"] # "waiting")
<1> USE DEF Process
<1>1. CASE UNCHANGED main
  BY <1>1 DEF Inv, Control, ControlType, MainAndContext, IsOpen, IsTerminating, IsDeleted
<1>2. CASE main' = [main EXCEPT !["server"] = "crashed"]
  <2>1. Control'
    BY <1>2, ControlBreaks DEF Inv
  <2>2. main'["server"] = "crashed"
    BY <1>2 DEF Inv, Control, ControlType
  <2> QED
    BY <2>1, <2>2
<1> QED
  BY <1>1, <1>2

LEMMA DelegatorKeepsInv ==
    ASSUME Inv, DelegatorThread, UNCHANGED workerVars
    PROVE  Inv'
<1>1. UNCHANGED <<interrupted, running, context, samplerVars>>
  BY DEF DelegatorThread
<1>2. Phases' /\ Pipes' /\ InFlight' <= InFlight
  <2>1. CASE /\ DelegatorStarts \/ Poll \/ LeavePoll \/ DelegatorEnds \/ EndPass
             /\ UNCHANGED <<main, queued, wip, replies, connected, wireVars>>
    <3>1. /\ delegator' \in {"starting", "polling", "handling", "joining", "ended"}
          /\ heartbeat' \in {"none", "starting", "polling", "ended"}
      BY <2>1 DEF Inv, Phases, DelegatorStarts, Poll, LeavePoll, DelegatorThrows,
         DelegatorEnds, EndPass
    <3>2. Phases'
      BY <1>1, <2>1, <3>1 DEF Inv, Phases, workerVars, wireVars, samplerVars
    <3>3. Pipes' /\ InFlight' = InFlight /\ InFlight \in Nat
      BY <2>1 DEF Inv, Pipes, Pipeline, Results, InFlight, workerVars, wireVars
    <3> QED
      BY <3>2, <3>3
  <2>2. CASE Assign /\ UNCHANGED <<delegator, heartbeat>>
    <3> USE <1>1, <2>2 DEF Assign, Assigns, Inv, workerVars, wireVars, samplerVars
    <3>1. Phases'
      BY DEF Phases
    <3>2. Pipes'
      BY DEF Pipes, Pipeline, Results
    <3>3. InFlight' <= InFlight
      BY DEF Pipes, InFlight
    <3> QED
      BY <3>1, <3>2, <3>3
  <2>3. CASE FailedSend /\ UNCHANGED <<delegator, heartbeat>>
    <3>1. Pipes' /\ InFlight' <= InFlight /\ connected' \in BOOLEAN
      BY <2>3, FailureKeepsPipes DEF Inv, FailedSend
    <3>2. Phases'
      BY <1>1, <2>3, <3>1 DEF Inv, Phases, FailedSend, workerVars, wireVars, samplerVars
    <3> QED
      BY <3>1, <3>2
  <2>4. CASE NewWorker /\ UNCHANGED <<delegator, heartbeat>>
    <3> USE <1>1, <2>4 DEF NewWorker, Inv, workerVars, wireVars, samplerVars
    <3>1. Phases'
      BY DEF Phases
    <3>2. Pipes'
      BY DEF Pipes, Pipeline, Results
    <3>3. InFlight' <= InFlight
      BY DEF Pipes, InFlight
    <3> QED
      BY <3>1, <3>2, <3>3
  <2>5. CASE Relay /\ UNCHANGED <<delegator, heartbeat>>
    <3> USE <1>1, <2>5 DEF Relay, Inv, workerVars, wireVars, samplerVars
    <3>1. Phases'
      BY DEF Phases
    <3>2. connected => wip > 0
      BY DEF Pipes, Pipeline, Results
    <3>3. Pipes'
      BY <3>2 DEF Pipes, Pipeline, Results
    <3>4. InFlight' <= InFlight
      BY DEF Pipes, InFlight
    <3> QED
      BY <3>1, <3>3, <3>4
  <2> QED
    BY <2>1, <2>2, <2>3, <2>4, <2>5 DEF DelegatorThread
<1>3. Counts'
  BY <1>1, <1>2, CountsRest DEF Inv
<1>4. UNCHANGED main \/ main' = [main EXCEPT !["server"] = "crashed"]
  BY DEF DelegatorThread, Assign, FailedSend, SendFails, UsesErasedWorker, DisconnectWorker,
     NewWorker, Relay
<1>5. Control' /\ (main'["server"] = main["server"] \/ main'["server"] # "waiting")
  BY <1>1, <1>4, ServerGoesOnOrBreaks DEF Inv, Control, ControlType
<1>6. NoWaitForDeadSampler'
  BY <1>1, <1>5 DEF Inv, NoWaitForDeadSampler, samplerVars
<1> QED
  BY <1>2, <1>3, <1>5, <1>6 DEF Inv

LEMMA HeartbeatKeepsInv ==
    ASSUME Inv, HeartbeatThread, UNCHANGED wireVars, UNCHANGED workerVars
    PROVE  Inv'
<1>1. UNCHANGED <<main, interrupted, running, samplerVars, queued, wip, replies, connected,
                  delegator>>
  BY DEF HeartbeatThread
<1>2. Control'
  <2>1. {"toServer"} \in SUBSET AllSockets /\ "server" \in Process
    BY DEF AllSockets, ServerSockets, Process
  <2>2. Open("server", {"toServer"}) \/ Close("server", {"toServer"}) \/ UNCHANGED context
    BY DEF HeartbeatThread, HeartbeatStarts, HeartbeatLeaves, HeartbeatEnds
  <2>3. /\ context' \in [Process -> [state : {"open", "terminating", "deleted"},
                                     sockets : SUBSET AllSockets]]
        /\ \A q \in Process : context'[q].state = context[q].state
    BY <2>1, <2>2, ContextRests DEF Inv, Control
  <2>4. running' \in [Process -> BOOLEAN] /\ interrupted' \in [Process -> BOOLEAN]
    BY <1>1 DEF Inv, Control, ControlType
  <2> QED
    BY <1>1, <2>3, <2>4, ControlRests DEF Inv
<1>3. Phases' /\ Pipes' /\ InFlight' = InFlight
  BY <1>1 DEF Inv, Phases, Pipes, Pipeline, InFlight, Results, workerVars, wireVars,
     samplerVars, HeartbeatThread, HeartbeatStarts, HeartbeatLeaves, HeartbeatEnds
<1>4. Counts'
  BY <1>1, <1>3, CountsRest, InFlightIsNatural DEF Inv
<1>5. NoWaitForDeadSampler'
  BY <1>1 DEF Inv, NoWaitForDeadSampler, samplerVars
<1> QED
  BY <1>2, <1>3, <1>4, <1>5 DEF Inv

\* A signal interrupts whatever call a thread is in.
LEMMA SignalKeepsInv ==
    ASSUME Inv, ServerSignal, UNCHANGED workerVars
    PROVE  Inv'
<1>1. /\ UNCHANGED <<running, replies, wireVars>>
      /\ interrupted' \in [Process -> BOOLEAN] /\ interrupted'.server
  BY DEF Inv, Control, ControlType, Process, ServerSignal, Interrupt
<1>2. NoWaitForDeadSampler'
  BY <1>1 DEF NoWaitForDeadSampler
<1>3. CASE SendFails /\ UNCHANGED <<context, samplerVars, delegator, heartbeat>>
  <2>1. Pipes' /\ InFlight' <= InFlight /\ connected' \in BOOLEAN
    BY <1>1, <1>3, FailureKeepsPipes DEF Inv
  <2>2. Phases'
    BY <1>1, <1>3, <2>1 DEF Inv, Phases, workerVars, wireVars, samplerVars
  <2>3. Counts'
    BY <1>3, <2>1, CountsRest DEF Inv
  <2>4. UNCHANGED main \/ main' = [main EXCEPT !["server"] = "crashed"]
    BY <1>3 DEF SendFails, UsesErasedWorker, DisconnectWorker
  <2>5. Control'
    BY <1>1, <1>3, <2>4, ServerGoesOnOrBreaks
  <2> QED
    BY <1>2, <2>1, <2>2, <2>3, <2>5 DEF Inv
<1>4. CASE /\ \/ UNCHANGED <<context, samplerVars, delegator, heartbeat>>
              \/ /\ sampler # "starting" /\ SamplerThrows
                 /\ UNCHANGED <<errors, delegator, heartbeat>>
              \/ DelegatorThrows /\ UNCHANGED <<context, samplerVars, heartbeat>>
              \/ /\ heartbeat = "polling" /\ HeartbeatEnds
                 /\ UNCHANGED <<samplerVars, delegator>>
           /\ UNCHANGED <<main, queued, wip, connected>>
  <2>1. Control'
    <3>1. /\ {"toServer"} \in SUBSET AllSockets /\ {"toDelegator"} \in SUBSET AllSockets
          /\ "server" \in Process
      BY DEF AllSockets, ServerSockets, Process
    <3>2. \/ Close("server", {"toDelegator"}) \/ Close("server", {"toServer"})
          \/ UNCHANGED context
      BY <1>4 DEF SamplerThrows, HeartbeatEnds
    <3>3. /\ context' \in [Process -> [state : {"open", "terminating", "deleted"},
                                       sockets : SUBSET AllSockets]]
          /\ \A q \in Process : context'[q].state = context[q].state
      BY <3>1, <3>2, ContextRests DEF Inv, Control
    <3>4. running' \in [Process -> BOOLEAN]
      BY <1>1 DEF Inv, Control, ControlType
    <3> QED
      BY <1>1, <1>4, <3>3, <3>4, ControlRests DEF Inv
  <2>2. Phases' /\ UNCHANGED <<initial, samples, numOutstanding, errors, finished>>
    BY <1>1, <1>4 DEF Inv, Phases, workerVars, wireVars, samplerVars, SamplerThrows,
       DelegatorThrows, HeartbeatEnds
  <2>3. Pipes' /\ InFlight' = InFlight
    BY <1>1, <1>4 DEF Inv, Pipes, Pipeline, InFlight, Results, workerVars, wireVars
  <2>4. Counts'
    <3>1. CASE UNCHANGED sampler
      BY <2>2, <2>3, <3>1 DEF Inv, Counts
    <3>2. CASE sampler # "starting" /\ SamplerThrows
      BY <2>2, <2>3, <3>2, InFlightIsNatural, ServerAssumption DEF Inv, Counts, Phases,
         SamplerThrows
    <3> QED
      BY <1>4, <3>1, <3>2 DEF samplerVars
  <2> QED
    BY <1>2, <2>1, <2>2, <2>3, <2>4 DEF Inv
<1> QED
  BY <1>3, <1>4 DEF ServerSignal

LEMMA MainKeepsInv ==
    ASSUME Inv, ServerMain, UNCHANGED workerVars
    PROVE  Inv'
<1>1. PICK d, e : Main("server", d, e)
  BY DEF ServerMain
<1>2. Control' /\ UNCHANGED <<interrupted, wireVars>> /\ main'["server"] # "waiting"
  BY <1>1, MainKeepsControl DEF Inv, Process
<1>3. Phases' /\ Pipes' /\ InFlight' = InFlight
  BY <1>2 DEF Inv, Phases, Pipes, Pipeline, InFlight, Results, serverVars, workerVars,
     wireVars, samplerVars, ServerMain
<1>4. Counts'
  BY <1>3, CountsRest, InFlightIsNatural DEF Inv, serverVars, ServerMain
<1> QED
  BY <1>2, <1>3, <1>4 DEF Inv, NoWaitForDeadSampler

LEMMA ServerKeepsInv ==
    ASSUME Inv, ServerNext, UNCHANGED workerVars
    PROVE  Inv'
<1>1. CASE /\ SamplerThread \/ UnparsableResult
           /\ UNCHANGED <<main, interrupted, wip, connected, delegator, heartbeat, wireVars>>
  <2>1. Phases' /\ Pipes' /\ Counts'
    BY <1>1, SamplerKeepsCounts DEF Inv
  <2>2. Control'
    BY <1>1, SamplerKeepsControl DEF Inv
  <2>3. NoWaitForDeadSampler'
    BY <1>1, SamplerIsMissed
  <2> QED
    BY <2>1, <2>2, <2>3 DEF Inv
<1> QED
  BY <1>1, DelegatorKeepsInv, HeartbeatKeepsInv, SignalKeepsInv, MainKeepsInv DEF ServerNext

-----------------------------------------------------------------------------
(* The theorems *)

LEMMA InitImpliesInv == Init => Inv
<1> SUFFICES ASSUME Init PROVE Inv
  OBVIOUS
<1> USE DEF Init, ProcessInit, ServerInit, WorkerInit
<1>1. Control
  BY DEF Control, ControlType, MainAndContext, IsOpen, IsTerminating,
     IsDeleted, AllSockets, ServerSockets, DelegatorSockets, Process
<1>2. Phases
  BY DEF Phases
<1>3. Pipeline = 0 /\ InFlight = 0
  BY DEF Pipeline, Results, InFlight
<1>4. Pipes
  BY <1>3 DEF Pipes
<1>5. Counts
  BY <1>3, ServerAssumption DEF Counts
<1> QED
  BY <1>1, <1>2, <1>4, <1>5 DEF Inv, NoWaitForDeadSampler

LEMMA StutterKeepsInv == Inv /\ UNCHANGED vars => Inv'
<1> SUFFICES ASSUME Inv, UNCHANGED vars PROVE Inv'
  OBVIOUS
<1>1. UNCHANGED <<main, interrupted, running, context, samplerVars>>
  BY DEF vars, serverVars
<1>2. Control'
  BY <1>1 DEF Inv, Control, ControlType, MainAndContext, IsOpen,
     IsTerminating, IsDeleted
<1>3. Phases' /\ Pipes' /\ InFlight' = InFlight
  BY DEF Inv, Phases, Pipes, Pipeline, InFlight, Results, vars, serverVars, workerVars,
     wireVars, samplerVars
<1>4. Counts'
  BY <1>1, <1>3, CountsRest, InFlightIsNatural DEF Inv
<1> QED
  BY <1>1, <1>2, <1>3, <1>4 DEF Inv, NoWaitForDeadSampler, samplerVars

LEMMA InvIsKept == Spec => []Inv
<1>1. Init => Inv
  BY InitImpliesInv
<1>2. Inv /\ [Next]_vars => Inv'
  BY ServerKeepsInv, WorkerKeepsInv, StutterKeepsInv DEF Next
<1> QED
  BY <1>1, <1>2, PTL DEF Spec

\* Every variable of the server and of the worker process has its type, and the pipes
\* between them never hold more evaluations than there are chains (one message more
\* where the HELLO of the minion goes).
THEOREM TypeIsKept == Spec => []TypeOK
BY InvIsKept, InvImpliesTypeOK, PTL

\* When runSampler has reached its last line, no evaluation is left anywhere between the
\* sampler and the likelihood function and no result was unparsable: the flush counts
\* every request of every chain (serverwrapper.cpp:132-137, sampler.cpp:216-235).
THEOREM RunEndsClean == Spec => []NothingLeftBehind
BY InvIsKept, InvImpliesNothingLeft, PTL

\* The main of the server does not wait for a sampler that has ended, whichever way it
\* took out of runSampler, unless a result was unparsable (bin/stateline.cpp:78-81 looks
\* at running_ and the signal only).
THEOREM MainKnowsSamplerEnded == Spec => []NoWaitForDeadSampler
BY InvIsKept, PTL DEF Inv
=============================================================================
