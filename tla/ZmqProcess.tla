----------------------------- MODULE ZmqProcess -----------------------------
(***************************************************************************)
(* What the server and the worker process have in common: a main that      *)
(* waits for a signal and then stops the process, a flag running that the  *)
(* threads look at, and a ZeroMQ context they share; and the connection    *)
(* between the two.                                                        *)
(*                                                                         *)
(* ZeroMQ is not part of the repository; this is how it behaves toward the *)
(* code that uses it: while a context is being terminated every call on it *)
(* may fail with ETERM, a blocking one does; a signal may make the call it *)
(* interrupts fail with EINTR; and zmq_ctx_term, which the destructor of   *)
(* context_t calls, returns when all sockets are closed and what was sent  *)
(* on those that linger has been delivered.                                *)
(***************************************************************************)
EXTENDS Naturals, FiniteSets

Process == {"server", "worker"}

VARIABLES
    main,         \* main[p]: "waiting", "stopping", "deleting", "joining", "done", "crashed"
    interrupted,  \* interruptedBySignal
    running,      \* running_ of ServerWrapper and WorkerWrapper
    context,      \* *context_: "open", "terminating" or "deleted", and its sockets
    toWorker,     \* number of JOBs on the way to the worker
    fromWorker,   \* number of RESULTs on the way to the server
    hello         \* the worker's HELLO: "unsent", "onTheWay", "received"

wireVars == <<toWorker, fromWorker, hello>>

ProcessInit(sockets) ==
    /\ main = [p \in Process |-> "waiting"]
    /\ interrupted = [p \in Process |-> FALSE]
    /\ running = [p \in Process |-> TRUE]
    /\ context = [p \in Process |-> [state |-> "open", sockets |-> sockets[p]]]
    /\ toWorker = 0 /\ fromWorker = 0 /\ hello = "unsent"

-----------------------------------------------------------------------------
IsOpen(p) == context[p].state = "open"
IsTerminating(p) == context[p].state = "terminating"
IsDeleted(p) == context[p].state = "deleted"

Open(p, sockets) == context' = [context EXCEPT ![p].sockets = @ \cup sockets]
Close(p, sockets) == context' = [context EXCEPT ![p].sockets = @ \ sockets]
GoesOn(p) == main[p] # "crashed"

-----------------------------------------------------------------------------
(* main and stop() *)

MainGoes(p, from, to) == main[p] = from /\ main' = [main EXCEPT ![p] = to]

Interrupt(p) == ~interrupted[p] /\ interrupted' = [interrupted EXCEPT ![p] = TRUE]

\* Mutant of Stop: main only looks for a signal.
StopOnSignal(p) ==
    /\ interrupted[p]
    /\ MainGoes(p, "waiting", "stopping")
    /\ running' = [running EXCEPT ![p] = FALSE]
    /\ UNCHANGED context

\* main sees the signal, or the server's that nothing is running any more, and calls
\* stop().
Stop(p) ==
    /\ interrupted[p] \/ (p = "server" /\ ~running[p])
    /\ MainGoes(p, "waiting", "stopping")
    /\ running' = [running EXCEPT ![p] = FALSE]
    /\ UNCHANGED context

\* Mutant of DeleteContext: stop() waits for the threads first.
DeleteContextLast(p) ==
    /\ context[p].sockets = {}
    /\ MainGoes(p, "stopping", "deleting")
    /\ context' = [context EXCEPT ![p].state = "terminating"]
    /\ UNCHANGED running

DeleteContext(p) ==
    /\ MainGoes(p, "stopping", "deleting")
    /\ context' = [context EXCEPT ![p].state = "terminating"]
    /\ UNCHANGED running

\* delete context_ returns.
ContextDeleted(p, delivered) ==
    /\ context[p].sockets = {} /\ delivered
    /\ MainGoes(p, "deleting", "joining")
    /\ context' = [context EXCEPT ![p].state = "deleted"]
    /\ UNCHANGED running

\* The futures of the threads that stop() waits for are ready.
Join(p, ended) == ended /\ MainGoes(p, "joining", "done") /\ UNCHANGED <<context, running>>

Main(p, delivered, ended) ==
    /\ \/ Stop(p) \/ DeleteContext(p) \/ ContextDeleted(p, delivered) \/ Join(p, ended)
    /\ UNCHANGED <<interrupted, wireVars>>
=============================================================================
