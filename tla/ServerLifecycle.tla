-------------------------- MODULE ServerLifecycle --------------------------
(***************************************************************************)
(* The threads of the server, from start to stop: main (src/bin/           *)
(* stateline.cpp with ServerWrapper), the sampler's thread (runSampler),   *)
(* the Delegator's and the one of its heartbeats.  They share the flag     *)
(* running_, a ZeroMQ context, and, through sockets, the jobs.  What the   *)
(* messages say is the matter of Delegator and Sampler; here a job is a    *)
(* unit in a count, and what matters is which thread ends when.            *)
(*                                                                         *)
(* A stack has one temperature, so that every step is a sample.  A signal  *)
(* may interrupt the ZeroMQ call of any thread (EINTR).  A result may be   *)
(* one that std::stod rejects.                                             *)
(***************************************************************************)
EXTENDS ZmqProcess

CONSTANTS NChains,   \* nstacks * ntemps
          NSamples,  \* settings_.nsamples
          MaxErrors  \* bound: results that cannot be parsed

ASSUME ServerAssumption ==
    NChains \in Nat \ {0} /\ NSamples \in Nat /\ MaxErrors \in Nat

VARIABLES
    sampler,        \* "starting", "initialising", "stepping", "flushing", "ended"
    initial,        \* chains that still wait for their initial energy
    samples,        \* nsamples
    numOutstanding, \* numOutstandingJobs_ of the Sampler
    errors,         \* results that could not be parsed
    finished,       \* runSampler has reached its last line
    queued,         \* REQUESTs sent and jobs in jobQueue_
    wip,            \* number of jobs in workInProgress of the worker
    replies,        \* RESULTs on the way to the Requester
    connected,      \* the worker is in workers_
    delegator,      \* "starting", "polling", "handling", "joining", "ended"
    heartbeat       \* "none", "starting", "polling", "ended"

samplerVars == <<sampler, initial, samples, numOutstanding, errors, finished>>
serverVars == <<samplerVars, queued, wip, replies, connected, delegator, heartbeat>>

DelegatorSockets == {"toRequester", "toHBRouter", "toNetwork"}
ServerSockets == DelegatorSockets \cup {"toDelegator", "toServer"}

\* The constructor of ServerWrapper has built the Delegator and its sockets
\* (DelegatorSockets), and start() has started the threads.
ServerInit ==
    /\ sampler = "starting" /\ initial = NChains /\ samples = 0
    /\ numOutstanding = 0 /\ errors = 0 /\ finished = FALSE
    /\ queued = 0 /\ wip = 0 /\ replies = 0 /\ connected = FALSE
    /\ delegator = "starting" /\ heartbeat = "none"

-----------------------------------------------------------------------------
(* The sampler's thread: runSampler *)

\* The Requester connects and the first initial sample is submitted.
OpenRequester ==
    /\ sampler = "starting" /\ IsOpen("server")
    /\ Open("server", {"toDelegator"})
    /\ sampler' = "initialising"
    /\ queued' = queued + 1
    /\ UNCHANGED <<running, initial, samples, numOutstanding, finished, replies>>

\* Mutant of Retrieves: it does not wait.
RetrievesAnyway == replies' = replies - 1

\* Requester::retrieve
Retrieves == replies > 0 /\ replies' = replies - 1

\* The energy of an initial sample is back.  With the last one the Sampler is
\* constructed and proposes for every chain.
InitialResult ==
    /\ sampler = "initialising"
    /\ Retrieves
    /\ initial' = initial - 1
    /\ IF initial > 1
       THEN queued' = queued + 1 /\ UNCHANGED <<sampler, numOutstanding>>
       ELSE /\ queued' = queued + NChains
            /\ numOutstanding' = NChains
            /\ sampler' = "stepping"
    /\ UNCHANGED <<running, context, samples, finished>>

\* Sampler::step
Step ==
    /\ sampler = "stepping" /\ running.server /\ samples < NSamples
    /\ Retrieves
    /\ samples' = samples + 1
    /\ queued' = queued + 1
    /\ UNCHANGED <<running, context, sampler, initial, numOutstanding, finished>>

LoopEnds == sampler = "stepping" /\ (~running.server \/ samples >= NSamples)

Returns ==
    /\ running' = [running EXCEPT !.server = FALSE] /\ finished' = TRUE /\ sampler' = "ended"
    /\ Close("server", {"toDelegator"})
    /\ UNCHANGED <<initial, samples, numOutstanding, queued, replies>>

\* Mutant of LeaveLoop: runSampler returns without a flush.
LeaveWithoutFlush == LoopEnds /\ Returns

\* The loop of runSampler ends and the flush begins.
LeaveLoop ==
    /\ LoopEnds
    /\ sampler' = "flushing"
    /\ UNCHANGED <<running, context, initial, samples, numOutstanding, finished,
                   queued, replies>>

FlushOne ==
    /\ sampler = "flushing" /\ numOutstanding > 0
    /\ Retrieves
    /\ numOutstanding' = numOutstanding - 1
    /\ UNCHANGED <<running, context, sampler, initial, samples, finished, queued>>

\* An exception in step() is caught and leads to the flush; anywhere else it ends
\* the thread, whose future keeps it.
SamplerThrows ==
    /\ sampler # "ended"
    /\ IF sampler = "stepping"
       THEN sampler' = "flushing" /\ UNCHANGED context
       ELSE /\ sampler' = "ended"
            /\ Close("server", {"toDelegator"})
    /\ UNCHANGED <<initial, samples, numOutstanding, finished>>

\* Mutant of FlushEnds: the flag is left alone.
FlushEndsAsByException ==
    /\ sampler = "flushing" /\ numOutstanding = 0
    /\ SamplerThrows
    /\ UNCHANGED <<running, queued, replies>>

\* The flush has retrieved everything and runSampler returns.
FlushEnds == sampler = "flushing" /\ numOutstanding = 0 /\ Returns

\* Requester::retrieve takes a message and throws: the step that called it has
\* not yet counted it off.
UnparsableResult ==
    /\ sampler \in {"initialising", "stepping", "flushing"}
    /\ errors < MaxErrors
    /\ errors' = errors + 1
    /\ Retrieves
    /\ SamplerThrows
    /\ UNCHANGED <<running, queued>>

SamplerTerminated ==
    /\ IsTerminating("server")
    /\ SamplerThrows
    /\ UNCHANGED <<running, queued, replies>>

SamplerThread ==
    /\ \/ OpenRequester \/ InitialResult \/ Step \/ LeaveLoop \/ FlushOne \/ FlushEnds
       \/ SamplerTerminated
    /\ UNCHANGED errors

-----------------------------------------------------------------------------
(* The Delegator's thread *)

\* Delegator::start
DelegatorStarts ==
    /\ delegator = "starting"
    /\ delegator' = "polling"
    /\ heartbeat' = "starting"

\* zmq::poll returns.
Poll ==
    /\ delegator = "polling" /\ running.server /\ IsOpen("server")
    /\ delegator' = "handling" /\ UNCHANGED heartbeat

\* An exception leaves start(), which then waits for the heartbeat thread in the
\* destructor of its future.
DelegatorThrows == delegator \in {"polling", "handling"} /\ delegator' = "joining"

\* The loop ends, and start() waits for the heartbeat thread.
LeavePoll ==
    /\ \/ delegator = "polling" /\ ~running.server /\ delegator' = "joining"
       \/ IsTerminating("server") /\ DelegatorThrows
    /\ UNCHANGED heartbeat

\* The thread ends; the sockets of the Delegator, a member of ServerWrapper, stay.
DelegatorEnds ==
    /\ delegator = "joining" /\ heartbeat = "ended"
    /\ delegator' = "ended" /\ UNCHANGED heartbeat

\* A pass handles the messages that are there and assigns all the jobs it can.
EndPass ==
    /\ delegator = "handling" /\ fromWorker = 0 /\ hello # "onTheWay"
    /\ queued = 0 \/ ~connected
    /\ delegator' = "polling" /\ UNCHANGED heartbeat

\* onPoll has a job for the worker.
Assigns == delegator = "handling" /\ queued > 0 /\ connected

Assign ==
    /\ Assigns
    /\ queued' = queued - 1 /\ wip' = wip + 1
    /\ toWorker' = toWorker + 1
    /\ UNCHANGED <<main, replies, fromWorker, hello, connected>>

\* disconnectWorker: its jobs are queued again, and the results it may still send are
\* not taken.
DisconnectWorker ==
    /\ connected' = FALSE
    /\ queued' = queued + wip /\ wip' = 0
    /\ UNCHANGED main

\* sendFailed has erased the worker that onPoll goes on to use, which may bring the
\* process down or not; the job that could not be sent leaves the queue all the same.
UsesErasedWorker ==
    \/ main' = [main EXCEPT !.server = "crashed"] /\ UNCHANGED <<connected, queued, wip>>
    \/ /\ connected' = FALSE
       /\ queued' = queued - 1 + wip /\ wip' = 0
       /\ UNCHANGED main

\* A send to the worker fails, of a JOB or of a heartbeat, and sendFailed disconnects it.
SendFails ==
    \/ Assigns /\ UsesErasedWorker
    \/ delegator = "handling" /\ connected /\ DisconnectWorker

FailedSend ==
    /\ IsTerminating("server") /\ SendFails
    /\ UNCHANGED <<replies, wireVars>>

\* connectWorker
NewWorker ==
    /\ delegator = "handling" /\ hello = "onTheWay"
    /\ hello' = "received"
    /\ connected' = TRUE
    /\ UNCHANGED <<main, queued, wip, replies, toWorker, fromWorker>>

\* receiveResult
Relay ==
    /\ delegator = "handling" /\ fromWorker > 0
    /\ fromWorker' = fromWorker - 1
    /\ IF connected
       THEN wip' = wip - 1 /\ replies' = replies + 1
       ELSE UNCHANGED <<wip, replies>>
    /\ UNCHANGED <<main, queued, toWorker, hello, connected>>

DelegatorThread ==
    /\ \/ /\ DelegatorStarts \/ Poll \/ LeavePoll \/ DelegatorEnds \/ EndPass
          /\ UNCHANGED <<main, queued, wip, replies, connected, wireVars>>
       \/ /\ Assign \/ FailedSend \/ NewWorker \/ Relay
          /\ UNCHANGED <<delegator, heartbeat>>
    /\ UNCHANGED <<interrupted, running, context, samplerVars>>

-----------------------------------------------------------------------------
(* The heartbeat's thread *)

HeartbeatStarts ==
    /\ heartbeat = "starting" /\ IsOpen("server")
    /\ heartbeat' = "polling"
    /\ Open("server", {"toServer"})

HeartbeatEnds ==
    /\ heartbeat' = "ended"
    /\ Close("server", {"toServer"})

\* Its poll times out now and then, or fails.
HeartbeatLeaves ==
    /\ \/ heartbeat = "polling" /\ ~running.server
       \/ heartbeat \in {"starting", "polling"} /\ IsTerminating("server")
    /\ HeartbeatEnds

HeartbeatThread ==
    /\ HeartbeatStarts \/ HeartbeatLeaves
    /\ UNCHANGED <<main, interrupted, running, samplerVars, queued, wip, replies,
                   connected, delegator>>

-----------------------------------------------------------------------------
(* main *)

\* handleSignal.  The signal may interrupt the call some thread is in: one that ends the
\* thread, or the Delegator's send to the worker.
ServerSignal ==
    /\ Interrupt("server")
    /\ \/ /\ \/ UNCHANGED <<context, samplerVars, delegator, heartbeat>>
             \/ /\ sampler # "starting" /\ SamplerThrows
                /\ UNCHANGED <<errors, delegator, heartbeat>>
             \/ DelegatorThrows /\ UNCHANGED <<context, samplerVars, heartbeat>>
             \/ /\ heartbeat = "polling" /\ HeartbeatEnds
                /\ UNCHANGED <<samplerVars, delegator>>
          /\ UNCHANGED <<main, queued, wip, connected>>
       \/ SendFails /\ UNCHANGED <<context, samplerVars, delegator, heartbeat>>
    /\ UNCHANGED <<running, replies, wireVars>>

ServerMain ==
    /\ Main("server", TRUE, delegator = "ended" /\ sampler = "ended")
    /\ UNCHANGED serverVars

-----------------------------------------------------------------------------
ServerNext ==
    /\ GoesOn("server")
    /\ \/ DelegatorThread
       \/ /\ SamplerThread \/ UnparsableResult
          /\ UNCHANGED <<main, interrupted, wip, connected, delegator, heartbeat, wireVars>>
       \/ HeartbeatThread /\ UNCHANGED wireVars
       \/ ServerSignal
       \/ ServerMain
=============================================================================
