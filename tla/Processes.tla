----------------------------- MODULE Processes -----------------------------
(***************************************************************************)
(* The server and one worker process that serves it, each of which starts, *)
(* runs, and is stopped by a signal at any moment or, the server, when the *)
(* sampling is done.                                                       *)
(***************************************************************************)
EXTENDS ServerLifecycle, WorkerLifecycle

vars == <<main, interrupted, running, context, wireVars, serverVars, workerVars>>

Init ==
    /\ ProcessInit([p \in Process |-> IF p = "server" THEN DelegatorSockets ELSE {}])
    /\ ServerInit
    /\ WorkerInit

Next ==
    \/ ServerNext /\ UNCHANGED workerVars
    \/ WorkerNext /\ UNCHANGED serverVars

Spec == Init /\ [][Next]_vars

\* Every thread goes on when it can, the network delivers, the likelihood function
\* returns.  Nothing makes a signal arrive or a result unparsable.  The threads other
\* than the Delegator's take finitely many steps here, and none disables another's but
\* by a crash, so that the fairness of each follows from that of all of them together.
Fairness ==
    /\ WF_vars(UNCHANGED workerVars /\ GoesOn("server") /\ DelegatorThread)
    /\ WF_vars(\/ /\ UNCHANGED workerVars /\ GoesOn("server")
                  /\ \/ /\ SamplerThread
                        /\ UNCHANGED <<main, interrupted, wip, connected, delegator,
                                       heartbeat, wireVars>>
                     \/ HeartbeatThread /\ UNCHANGED wireVars
                     \/ ServerMain
               \/ /\ UNCHANGED serverVars /\ GoesOn("worker")
                  /\ \/ /\ ClientThread \/ ClientHBThread \/ MinionThread \/ Deliver
                        /\ UNCHANGED <<interrupted, running>>
                     \/ WorkerMain)

FairSpec == Spec /\ Fairness

-----------------------------------------------------------------------------
(* Properties *)

AllSockets == ServerSockets \cup ClientSockets \cup {"toClient", "toWorker"}

\* Every variable has the type of what it stands for.
TypeOK ==
    /\ main \in [Process ->
            {"waiting", "stopping", "deleting", "joining", "done", "crashed"}]
    /\ interrupted \in [Process -> BOOLEAN] /\ running \in [Process -> BOOLEAN]
    /\ context \in [Process -> [state : {"open", "terminating", "deleted"},
                                sockets : SUBSET AllSockets]]
    /\ sampler \in {"starting", "initialising", "stepping", "flushing", "ended"}
    /\ initial \in 0..NChains /\ samples \in 0..NSamples /\ errors \in 0..MaxErrors
    /\ numOutstanding \in 0..NChains /\ finished \in BOOLEAN
    /\ {queued, wip, replies, toWorker, fromWorker, toMinion} \subseteq 0..NChains
    /\ {unsent, arrived} \subseteq 0..(NChains + 1)
    /\ delegator \in {"starting", "polling", "handling", "joining", "ended"}
    /\ heartbeat \in {"none", "starting", "polling", "ended"}
    /\ client \in {"starting", "binding", "polling", "joining", "failing", "ended"}
    /\ clientHB \in {"none", "starting", "polling", "ended"}
    /\ minion \in {"elsewhere", "starting", "waiting", "computing", "ended"}
    /\ connected \in BOOLEAN /\ hello \in {"unsent", "onTheWay", "received"}

\* A sampling that ends by itself leaves no evaluation behind anywhere between the
\* sampler and the likelihood function, and has missed no result: the flush is
\* over before anything is told to stop (serverwrapper.cpp:132-137).
NothingLeftBehind ==
    finished =>
        /\ {queued, wip, toWorker, toMinion, fromWorker, replies} = {0}
        /\ minion # "computing"
        /\ errors = 0

\* The server never sits waiting for a sampler that is gone: whatever way
\* runSampler takes before a shutdown, it ends by clearing running_, unless a
\* result could not be parsed.
NoWaitForDeadSampler ==
    main.server = "waiting" /\ running.server /\ ~interrupted.server /\ errors = 0
        => sampler # "ended"

\* In the three properties that follow, what is said to hold again and again is what
\* stays once it holds, or else comes to an end for good: []<>P => []<>Q says that P
\* leads to Q, and lets TLC do without a tableau.

\* A signal ends every thread of the server, also a sampler that waits for a result
\* that will never come: because no worker is there, because its worker has gone,
\* or because an unparsable result makes the flush wait for one too many.
ServerThreadsEnd ==
    []<>interrupted.server =>
        []<>(\/ main.server = "crashed"
             \/ sampler = "ended" /\ delegator = "ended" /\ heartbeat = "ended")

\* With a worker that stays, and results that can be parsed, the server comes to
\* the end of the sampling and begins to shut down by itself.
RunEnds ==
    []<>(minion # "elsewhere" /\ errors = 0 /\ ~interrupted.worker)
        => []<>(main.server \in {"deleting", "crashed"})

\* The minion has closed its socket, or will, with a message in its pipe that no
\* client will ever take.
Undeliverable == unsent > 0 /\ client = "ended"

\* stop() of a worker process returns or the process breaks, however the threads are
\* caught, except when the minion's socket lingers with a message for a client that is
\* gone: no thread waits for one that waits for it.
WorkerStopReturns ==
    []<>(main.worker # "waiting")
        => []<>(main.worker \in {"done", "crashed"} \/ Undeliverable)

\* stop() of the server returns: serverwrapper.cpp:166 goes on to "Wait for futures
\* to finish", and delegator.hpp:50 has the Delegator's destructor, which runs
\* after it, as the one that "Safely stops all polling threads and cleans up".
ServerStopReturns == main.server = "stopping" ~> main.server \in {"done", "crashed"}
=============================================================================
