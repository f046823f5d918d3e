-------------------------- MODULE ServerHeartbeat ---------------------------
(***************************************************************************)
(* The server's heartbeat thread (src/comms/serverheartbeat.cpp).  It      *)
(* shares nothing with the Delegator: a PAIR socket carries HELLO,         *)
(* HEARTBEAT and GOODBYE messages to it and GOODBYE and HEARTBEAT messages *)
(* back, in order and without a limit (its high-water marks, of a thousand *)
(* messages at either end, are left out).  A pass of its poll loop handles *)
(* at most one message and then looks for clients that have been silent    *)
(* for too long.                                                           *)
(*                                                                         *)
(* Time stamps are kept as ages: silence[w] is the time since the entry of *)
(* w in lastHeartbeats_ was set, and Tick lets time pass.                  *)
(***************************************************************************)
EXTENDS Naturals, FiniteSets, SequencesExt

CONSTANTS Worker,      \* the network identities of the workers
          Timeout,     \* msTimeout, in ticks
          Rate,        \* msRate, in ticks
          MaxBacklog,  \* bound: messages the Delegator has not read when time passes
          NoEntry

ASSUME HeartbeatAssumption ==
    /\ IsFiniteSet(Worker)
    /\ Timeout \in Nat /\ Rate \in Nat /\ MaxBacklog \in Nat
    /\ NoEntry \notin Nat

VARIABLES
    clients,     \* clients_
    silence,     \* the ages of the entries of lastHeartbeats_
    sinceSend,   \* the age of lastSendTime_
    polling,     \* FALSE: about to look for a message; TRUE: about to run onPoll
    hbCrashed,   \* the thread has run into undefined behaviour
    toHB,        \* messages from the Delegator
    fromHB       \* messages to the Delegator

hbVars == <<clients, silence, sinceSend, polling, hbCrashed, toHB, fromHB>>

Message(subject, w) == [subject |-> subject, worker |-> w]

Messages(subject, q) == [i \in DOMAIN q |-> Message(subject, q[i])]

\* Ages past these limits cannot be told from the limits.
Older(age, limit) == IF age < limit THEN age + 1 ELSE limit

-----------------------------------------------------------------------------
HBInit ==
    /\ clients = {}
    /\ silence = [w \in Worker |-> NoEntry]
    /\ sinceSend = 0
    /\ polling = FALSE
    /\ hbCrashed = FALSE
    /\ toHB = <<>>
    /\ fromHB = <<>>

\* The pass takes the next message, which has the given subject and sender.
Takes(subject, w) ==
    /\ ~hbCrashed /\ ~polling
    /\ toHB # <<>> /\ Head(toHB) = Message(subject, w)
    /\ toHB' = Tail(toHB)
    /\ polling' = TRUE
    /\ UNCHANGED <<sinceSend, fromHB>>

\* Mutant of InsertClient: the first heartbeat is not set.
InsertWithoutEntry(w) ==
    /\ Takes("HELLO", w)
    /\ clients' = clients \cup {w}
    /\ UNCHANGED <<silence, hbCrashed>>

\* insertClient: an entry that is already there stays as it is.
InsertClient(w) ==
    /\ Takes("HELLO", w)
    /\ clients' = clients \cup {w}
    /\ silence' = [silence EXCEPT ![w] = IF @ = NoEntry THEN 0 ELSE @]
    /\ UNCHANGED hbCrashed

\* deleteClient erases what find returned, which is end() for a stranger.
DeleteClient(w) ==
    /\ Takes("GOODBYE", w)
    /\ \/ /\ w \in clients
          /\ clients' = clients \ {w}
          /\ silence' = [silence EXCEPT ![w] = NoEntry]
          /\ UNCHANGED hbCrashed
       \/ /\ w \notin clients
          /\ hbCrashed' = TRUE
          /\ UNCHANGED <<clients, silence>>

\* receiveHeartbeat: sets the entry of w, client or not.
ReceiveHeartbeat(w) ==
    /\ Takes("HEARTBEAT", w)
    /\ silence' = [silence EXCEPT ![w] = 0]
    /\ UNCHANGED <<clients, hbCrashed>>

HBNoMessage ==
    /\ ~hbCrashed /\ ~polling
    /\ toHB = <<>>
    /\ polling' = TRUE
    /\ UNCHANGED <<clients, silence, sinceSend, hbCrashed, toHB, fromHB>>

\* A client without an entry would get one that dates from the epoch.
Expired == {w \in clients : silence[w] = NoEntry \/ silence[w] > Timeout}

\* Mutant of OnPoll: the clients that have expired are dropped without a GOODBYE.
DropSilently ==
    LET kept == clients \ Expired
        due  == sinceSend >= Rate /\ kept # {}
    IN  /\ ~hbCrashed /\ polling
        /\ \E beats \in SetToSeqs(IF due THEN kept ELSE {}) :
              fromHB' = fromHB \o Messages("HEARTBEAT", beats)
        /\ clients' = kept
        /\ silence' = [w \in Worker |-> IF w \in Expired THEN NoEntry ELSE silence[w]]
        /\ sinceSend' = IF due THEN 0 ELSE sinceSend
        /\ polling' = FALSE
        /\ UNCHANGED <<hbCrashed, toHB>>

\* onPoll: monitorTimeouts says GOODBYE for the clients that have expired, then
\* sendHeartbeats, when it is time, a HEARTBEAT to each of the others.
OnPoll ==
    LET kept == clients \ Expired
        due  == sinceSend >= Rate /\ kept # {}
    IN  /\ ~hbCrashed /\ polling
        /\ \E gone \in SetToSeqs(Expired), beats \in SetToSeqs(IF due THEN kept ELSE {}) :
              fromHB' = fromHB \o Messages("GOODBYE", gone) \o Messages("HEARTBEAT", beats)
        /\ clients' = kept
        /\ silence' = [w \in Worker |-> IF w \in Expired THEN NoEntry ELSE silence[w]]
        /\ sinceSend' = IF due THEN 0 ELSE sinceSend
        /\ polling' = FALSE
        /\ UNCHANGED <<hbCrashed, toHB>>

\* The bound is on how far the Delegator falls behind, not on the socket.
Tick ==
    /\ Len(fromHB) < MaxBacklog
    /\ silence' = [w \in Worker |->
                      IF silence[w] = NoEntry THEN NoEntry
                                              ELSE Older(silence[w], Timeout + 1)]
    /\ sinceSend' = Older(sinceSend, Rate)
    /\ UNCHANGED <<clients, polling, hbCrashed, toHB, fromHB>>

HBPass ==
    \/ \E w \in Worker : InsertClient(w) \/ DeleteClient(w) \/ ReceiveHeartbeat(w)
    \/ HBNoMessage
    \/ OnPoll
=============================================================================
