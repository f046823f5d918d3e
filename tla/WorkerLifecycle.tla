-------------------------- MODULE WorkerLifecycle --------------------------
(***************************************************************************)
(* The threads of a worker process, from start to stop: main               *)
(* (src/bin/demo-worker.cpp with WorkerWrapper, or stateline-client.cpp    *)
(* where the minion is a process of its own and is left out), the          *)
(* client's poll loop (worker.cpp), its heartbeat and the minion.  Their   *)
(* objects, and so their sockets, live in the threads.  How the client     *)
(* hands jobs to the minion is the matter of module Worker.                *)
(***************************************************************************)
EXTENDS ZmqProcess

VARIABLES
    client,      \* "starting", "binding", "polling", "joining", "failing", "ended"
    clientHB,    \* "none", "starting", "polling", "ended"
    minion,      \* "elsewhere", "starting", "waiting", "computing", "ended"
    unsent,      \* messages in the pipe of the minion's socket, the HELLO first
    arrived,     \* messages in the pipe of the client's
    toMinion     \* JOBs for the minion

workerVars == <<client, clientHB, minion, unsent, arrived, toMinion>>

ClientSockets == {"toMinion", "toHBRouter", "toNetwork"}

WorkerInit ==
    /\ client = "starting" /\ clientHB = "none"
    /\ minion \in {"starting", "elsewhere"}
    /\ unsent = 0 /\ arrived = 0 /\ toMinion = 0

\* A thread that starts with a deleted context gets an error or brings the
\* process down.
StartsTooLate ==
    /\ IsDeleted("worker")
    /\ \/ UNCHANGED main
       \/ main' = [main EXCEPT !.worker = "crashed"]
    /\ UNCHANGED context

-----------------------------------------------------------------------------
(* The client: Worker::Worker, Worker::start *)

\* The sockets are made.
ClientStarts ==
    /\ client = "starting"
    /\ \/ /\ IsOpen("worker")
          /\ Open("worker", ClientSockets)
          /\ client' = "binding" /\ UNCHANGED <<main, clientHB>>
       \/ /\ IsTerminating("worker") /\ UNCHANGED <<main, context>>
          /\ client' = "ended" /\ clientHB' = "ended"
       \/ StartsTooLate /\ client' = "ended" /\ clientHB' = "ended"
    /\ UNCHANGED <<arrived, toMinion, wireVars>>

\* They bind and connect, and start() runs the heartbeat thread and the loop.
ClientBinds ==
    /\ client = "binding"
    /\ client' = "polling" /\ clientHB' = "starting"
    /\ UNCHANGED <<main, context, arrived, toMinion, wireVars>>

\* Another call of the constructor that fails ends the thread, but a bind that fails,
\* for whatever reason, brings the process down.
ConstructorFails ==
    /\ client = "binding"
    /\ \/ /\ main' = [main EXCEPT !.worker = "crashed"]
          /\ UNCHANGED <<context, client, clientHB>>
       \/ /\ client' = "ended" /\ clientHB' = "ended"
          /\ Close("worker", ClientSockets)
          /\ UNCHANGED main

ClientStopsBinding ==
    /\ IsTerminating("worker") /\ ConstructorFails
    /\ UNCHANGED <<arrived, toMinion, wireVars>>

\* After every message the loop looks at running_.
Handled == client' = IF running.worker THEN "polling" ELSE "joining"

\* onJobFromNetwork
ClientTakesJob ==
    /\ client = "polling" /\ toWorker > 0
    /\ toWorker' = toWorker - 1 /\ toMinion' = toMinion + 1
    /\ Handled
    /\ UNCHANGED <<main, context, clientHB, arrived, fromWorker, hello>>

\* forwardToNetwork and onResultFromMinion; the first message is the HELLO.
ClientForwards ==
    /\ client = "polling" /\ arrived > 0
    /\ arrived' = arrived - 1
    /\ IF hello = "unsent"
       THEN hello' = "onTheWay" /\ UNCHANGED fromWorker
       ELSE fromWorker' = fromWorker + 1 /\ UNCHANGED hello
    /\ Handled
    /\ UNCHANGED <<main, context, clientHB, toMinion, toWorker>>

\* A heartbeat for the server wakes a loop whose poll has no time-out.
ClientWakes ==
    /\ client = "polling" /\ clientHB = "polling" /\ ~running.worker
    /\ Handled
    /\ UNCHANGED <<main, context, clientHB, arrived, toMinion, wireVars>>

\* A ZeroMQ exception leaves start(), which waits for the heartbeat thread in the
\* destructor of its future.
ClientThrows == client = "polling" /\ client' = "joining"

ClientTerminated ==
    /\ IsTerminating("worker") /\ ClientThrows
    /\ UNCHANGED <<main, context, clientHB, arrived, toMinion, wireVars>>

\* Mutant of ClientEnds: the sockets are closed only when the process ends.
ClientEndsOpen ==
    /\ client = "joining" /\ clientHB = "ended"
    /\ client' = "ended"
    /\ UNCHANGED <<main, context, clientHB, arrived, toMinion, wireVars>>

\* start() has waited for the heartbeat thread; the sockets close and what has
\* arrived on them is dropped.
ClientEnds ==
    /\ client = "joining" /\ clientHB = "ended"
    /\ client' = "ended" /\ arrived' = 0
    /\ Close("worker", ClientSockets)
    /\ UNCHANGED <<main, clientHB, toMinion, wireVars>>

\* The same for an exception that is not ZeroMQ's, which the thread then makes fatal.
ClientFails ==
    /\ client = "failing" /\ clientHB = "ended"
    /\ main' = [main EXCEPT !.worker = "crashed"]
    /\ UNCHANGED <<context, client, clientHB, arrived, toMinion, wireVars>>

ClientThread ==
    /\ \/ ClientStarts \/ ClientBinds \/ ClientStopsBinding \/ ClientTakesJob
       \/ ClientForwards \/ ClientWakes \/ ClientTerminated \/ ClientEnds \/ ClientFails
    /\ UNCHANGED <<minion, unsent>>

\* A script's GOODBYE: the router has no callback for it and calls an empty function.
ScriptGoodbye ==
    /\ minion = "elsewhere" /\ client = "polling"
    /\ client' = "failing"
    /\ UNCHANGED <<main, context, clientHB, minion, unsent, arrived, toMinion, wireVars>>

-----------------------------------------------------------------------------
(* Its heartbeat *)

ClientHBEnds == clientHB' = "ended" /\ Close("worker", {"toClient"})

ClientHBThread ==
    /\ \/ /\ clientHB = "starting" /\ IsOpen("worker")
          /\ clientHB' = "polling" /\ Open("worker", {"toClient"})
       \/ /\ \/ clientHB = "polling" /\ ~running.worker
             \/ clientHB \in {"starting", "polling"} /\ IsTerminating("worker")
          /\ ClientHBEnds
    /\ UNCHANGED <<main, client, minion, unsent, arrived, toMinion, wireVars>>

-----------------------------------------------------------------------------
(* The minion: runMinion *)

\* The constructor connects and sends the HELLO.
MinionStarts ==
    /\ minion = "starting"
    /\ \/ /\ IsOpen("worker")
          /\ Open("worker", {"toWorker"})
          /\ minion' = "waiting" /\ unsent' = unsent + 1
          /\ UNCHANGED main
       \/ /\ IsTerminating("worker")
          /\ minion' = "ended" /\ UNCHANGED <<main, context, unsent>>
       \/ StartsTooLate /\ minion' = "ended" /\ UNCHANGED unsent
    /\ UNCHANGED toMinion

NextJob ==
    /\ minion = "waiting" /\ toMinion > 0
    /\ toMinion' = toMinion - 1
    /\ minion' = "computing"
    /\ UNCHANGED <<main, context, unsent>>

MinionEnds == minion' = "ended" /\ Close("worker", {"toWorker"})

\* submitResult, and the test of running at the head of the loop.
Submit ==
    /\ minion = "computing"
    /\ unsent' = unsent + 1
    /\ \/ running.worker /\ minion' = "waiting" /\ UNCHANGED context
       \/ ~running.worker /\ MinionEnds
    /\ UNCHANGED <<main, toMinion>>

\* receive or send throws, and runMinion's future keeps the exception.
MinionThrows == minion \in {"waiting", "computing"} /\ MinionEnds

MinionTerminated ==
    /\ IsTerminating("worker") /\ MinionThrows
    /\ UNCHANGED <<main, unsent, toMinion>>

MinionThread ==
    /\ MinionStarts \/ NextJob \/ Submit \/ MinionTerminated
    /\ UNCHANGED <<client, clientHB, arrived, wireVars>>

-----------------------------------------------------------------------------
(* ZeroMQ, the signal and main *)

ClientIsOpen == ClientSockets \subseteq context.worker.sockets

\* A message gets from the minion's socket to the client's.
Deliver ==
    /\ unsent > 0 /\ ClientIsOpen
    /\ unsent' = unsent - 1 /\ arrived' = arrived + 1
    /\ UNCHANGED <<main, context, client, clientHB, minion, toMinion, wireVars>>

\* The signal may interrupt the call some thread is in.
WorkerSignal ==
    /\ Interrupt("worker")
    /\ \/ UNCHANGED <<main, context, client, clientHB, minion>>
       \/ ConstructorFails /\ UNCHANGED minion
       \/ ClientThrows /\ UNCHANGED <<main, context, clientHB, minion>>
       \/ clientHB = "polling" /\ ClientHBEnds /\ UNCHANGED <<main, client, minion>>
       \/ MinionThrows /\ UNCHANGED <<main, client, clientHB>>
    /\ UNCHANGED <<running, unsent, arrived, toMinion, wireVars>>

\* The minion's socket lingers for ever (the default of Socket); the others are
\* in routers, which set their linger to zero.
WorkerMain ==
    /\ Main("worker", unsent = 0, client = "ended" /\ minion \in {"elsewhere", "ended"})
    /\ UNCHANGED workerVars

WorkerNext ==
    /\ GoesOn("worker")
    /\ \/ /\ ClientThread \/ ClientHBThread \/ MinionThread \/ Deliver
             \/ ScriptGoodbye
          /\ UNCHANGED <<interrupted, running>>
       \/ WorkerSignal
       \/ WorkerMain
=============================================================================
