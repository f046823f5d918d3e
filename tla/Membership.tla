----------------------------- MODULE Membership -----------------------------
(***************************************************************************)
(* Who is a worker?  Two threads of the server have an opinion: the        *)
(* Delegator's workers_ (delegator.cpp:72-104) and the clients_ of the     *)
(* heartbeat thread, and they agree by messages alone.  This module        *)
(* composes the heartbeat thread with the part of the Delegator that       *)
(* connects and disconnects workers, and with workers that say HELLO, send *)
(* heartbeats on their own (clientheartbeat.cpp does so from the start,    *)
(* HELLO or not), pause, leave and die.                                    *)
(***************************************************************************)
EXTENDS ServerHeartbeat

CONSTANTS Leavers,     \* the workers that say GOODBYE
          MaxHellos,   \* bound: MaxHellos[w] HELLOs from w
          MaxInFlight  \* bound: messages of a worker that the other end has not read

ASSUME MembershipAssumption ==
    Leavers \subseteq Worker /\ MaxHellos \in [Worker -> Nat] /\ MaxInFlight \in Nat

VARIABLES
    connected,   \* the keys of the Delegator's workers_
    net,         \* net[w]: what w has sent and the Delegator has not received
    hellos,      \* hellos[w]: HELLOs w has sent (bound)
    alive        \* the workers that run

netVars == <<connected, net, hellos, alive>>
vars    == <<hbVars, netVars>>

-----------------------------------------------------------------------------
Init ==
    /\ HBInit
    /\ connected = {}
    /\ net = [w \in Worker |-> <<>>]
    /\ hellos = [w \in Worker |-> 0]
    /\ alive = Worker

-----------------------------------------------------------------------------
(* The workers *)

Sends(w, subject) ==
    /\ w \in alive
    /\ Len(net[w]) + Len(toHB) < MaxInFlight
    /\ net' = [net EXCEPT ![w] = Append(@, subject)]
    /\ UNCHANGED <<connected, hbVars>>

SayHello(w) ==
    /\ hellos[w] < MaxHellos[w]
    /\ Sends(w, "HELLO")
    /\ hellos' = [hellos EXCEPT ![w] = @ + 1]
    /\ UNCHANGED alive

SendHeartbeat(w) == Sends(w, "HEARTBEAT") /\ UNCHANGED <<hellos, alive>>

SayGoodbye(w) ==
    /\ w \in Leavers /\ hellos[w] > 0
    /\ Sends(w, "GOODBYE")
    /\ UNCHANGED <<hellos, alive>>

\* What w has sent still arrives.
Die(w) ==
    /\ w \in alive
    /\ alive' = alive \ {w}
    /\ UNCHANGED <<connected, net, hellos, hbVars>>

-----------------------------------------------------------------------------
(* The Delegator *)

\* The message of w at the Delegator's network socket; all the kinds modelled
\* here are forwarded to the heartbeat thread.
Forwards(w, subject) ==
    /\ net[w] # <<>> /\ Head(net[w]) = subject
    /\ net' = [net EXCEPT ![w] = Tail(@)]
    /\ toHB' = Append(toHB, Message(subject, w))
    /\ UNCHANGED <<hellos, alive, clients, silence, sinceSend, polling, hbCrashed, fromHB>>

\* fNewWorker; a worker that is connected already stays so.
HelloArrives(w) == Forwards(w, "HELLO") /\ connected' = connected \cup {w}

\* fForwardToHB
HeartbeatArrives(w) == Forwards(w, "HEARTBEAT") /\ UNCHANGED connected

\* fForwardToHBAndDisconnect
GoodbyeArrives(w) == Forwards(w, "GOODBYE") /\ connected' = connected \ {w}

FromNetwork(w) == HelloArrives(w) \/ HeartbeatArrives(w) \/ GoodbyeArrives(w)

\* The heartbeat socket: a GOODBYE disconnects, a HEARTBEAT is sent on to the
\* worker, which only logs it.
FromHeartbeat ==
    /\ fromHB # <<>>
    /\ connected' = IF Head(fromHB).subject = "GOODBYE"
                    THEN connected \ {Head(fromHB).worker} ELSE connected
    /\ fromHB' = Tail(fromHB)
    /\ UNCHANGED <<net, hellos, alive, clients, silence, sinceSend, polling, hbCrashed, toHB>>

-----------------------------------------------------------------------------
WorkerStep(w) == SayHello(w) \/ SendHeartbeat(w) \/ SayGoodbye(w) \/ Die(w)

Next ==
    \/ \E w \in Worker : WorkerStep(w) \/ FromNetwork(w)
    \/ FromHeartbeat
    \/ HBPass /\ UNCHANGED netVars
    \/ Tick /\ UNCHANGED netVars

Spec == Init /\ [][Next]_vars

\* Both poll loops keep running, the ROUTER socket takes turns among the workers
\* it has messages from, and time passes.
Fairness ==
    /\ WF_vars(HBPass /\ UNCHANGED netVars)
    /\ WF_vars(Tick /\ UNCHANGED netVars)
    /\ WF_vars(FromHeartbeat)
    /\ \A w \in Worker : WF_vars(FromNetwork(w))

FairSpec == Spec /\ Fairness

-----------------------------------------------------------------------------
(* Properties *)

Subject == {"HELLO", "HEARTBEAT", "GOODBYE"}

\* Every variable has the type of the member it stands for; and a client always has
\* an entry, so lastHeartbeats[addr] in monitorTimeouts never makes one up that
\* dates from the epoch (serverheartbeat.cpp:127).
TypeOK ==
    /\ clients \subseteq Worker /\ \A w \in clients : silence[w] # NoEntry
    /\ silence \in [Worker -> 0..(Timeout + 1) \cup {NoEntry}]
    /\ sinceSend \in 0..Rate
    /\ polling \in BOOLEAN /\ hbCrashed \in BOOLEAN
    /\ toHB \in Seq([subject : Subject, worker : Worker])
    /\ fromHB \in Seq([subject : Subject, worker : Worker])
    /\ connected \subseteq Worker
    /\ net \in [Worker -> Seq(Subject)]
    /\ \A w \in Worker : hellos[w] \in 0..MaxHellos[w]
    /\ alive \subseteq Worker

On(channel, subject, w) == {i \in DOMAIN channel : channel[i] = Message(subject, w)}

\* What the messages on their way to the heartbeat thread will make of w: the
\* last HELLO or GOODBYE among them decides.
WillBeClient(w) ==
    LET said == On(toHB, "HELLO", w) \cup On(toHB, "GOODBYE", w) IN
    IF said = {} THEN w \in clients
    ELSE \E i \in On(toHB, "HELLO", w) : \A j \in said : j <= i

\* A connected worker is monitored: the heartbeat thread has it as a client, or
\* will when it has read its messages, or has given it up and its GOODBYE is on
\* the way.  Otherwise the jobs of w, should it die, would be lost for good.
ConnectedIsMonitored ==
    \A w \in connected : WillBeClient(w) \/ On(fromHB, "GOODBYE", w) # {}

\* deleteClient is only ever asked to delete a client (serverheartbeat.cpp:110).
HeartbeatNeverCrashes == ~hbCrashed

\* A worker that has died is disconnected for good, whatever of its messages
\* still arrives: its jobs go to others.
DeadAreDisconnected ==
    \A w \in Worker : <>[](w \in alive \/ w \notin connected \/ hbCrashed)
=============================================================================
