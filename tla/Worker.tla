------------------------------- MODULE Worker -------------------------------
(***************************************************************************)
(* A stateline-client (src/comms/worker.cpp) with the minion it serves     *)
(* (src/comms/minion.cpp, or the script of another language that the       *)
(* README describes) on one side and the server on the other.  The client  *)
(* passes jobs to the minion one at a time and queues the rest; its poll   *)
(* loop also forwards the heartbeats of the thread in clientheartbeat.cpp, *)
(* so the server sees them stop exactly when that loop stops.              *)
(*                                                                         *)
(* The minion may die at any moment and be started again.  The minion      *)
(* socket of the client is a bound DEALER: with no minion connected to it  *)
(* a send waits, and the poll loop with it.                                *)
(***************************************************************************)
EXTENDS Naturals, SequencesExt

CONSTANTS MaxJobs,     \* bound: jobs the server sends, numbered in that order
          MaxScripts   \* bound: minions that are started, one after another

ASSUME WorkerAssumption == MaxJobs \in Nat /\ MaxScripts \in Nat

VARIABLES
    queue,          \* queue_
    minionWaiting,  \* minionWaiting_
    sending,        \* the job of a minion_.send that has not gone through yet
    stopped,        \* the poll loop is gone
    toMinion,       \* JOBs on the way to the minion
    fromMinion,     \* messages of the minion to the client
    script,         \* "none", "ready" for the next job or "computing"
    currentJob,     \* currentJob_ of the minion, while it computes
    started,        \* minions started so far (bound)
    fromServer,     \* JOBs on the way to the client
    toServer,       \* messages of the client to the server
    announced,      \* the server has had a HELLO
    given,          \* number of JOBs the server has sent
    results,        \* the jobs whose RESULT the server has accepted, in order
    lost,           \* the server has given the client up and re-queued its jobs
    orphaned        \* the jobs that were lost with a minion

clientVars == <<queue, minionWaiting, sending, stopped>>
scriptVars == <<script, currentJob, started, orphaned>>
serverVars == <<announced, given, results, lost>>
minionNet  == <<toMinion, fromMinion>>
serverNet  == <<fromServer, toServer>>
vars == <<clientVars, scriptVars, serverVars, minionNet, serverNet>>

NoJob == 0
Msg(subject, job) == [subject |-> subject, job |-> job]
JobsOf(messages) == [i \in DOMAIN messages |-> messages[i].job]

-----------------------------------------------------------------------------
Init ==
    /\ queue = <<>> /\ minionWaiting = TRUE /\ sending = NoJob /\ stopped = FALSE
    /\ toMinion = <<>> /\ fromMinion = <<>>
    /\ script = "none" /\ currentJob = NoJob /\ started = 0 /\ orphaned = {}
    /\ fromServer = <<>> /\ toServer = <<>>
    /\ announced = FALSE /\ given = 0 /\ results = <<>> /\ lost = FALSE

-----------------------------------------------------------------------------
(* The client *)

\* The poll loop is at the top of a pass, not waiting in a send.
Polling == ~stopped /\ sending = NoJob

\* Mutant of JobFromNetwork: a job is passed on even if the minion is busy.
JobToBusyMinion ==
    /\ Polling
    /\ fromServer # <<>>
    /\ fromServer' = Tail(fromServer)
    /\ sending' = Head(fromServer)
    /\ minionWaiting' = FALSE
    /\ UNCHANGED <<queue, stopped, scriptVars, serverVars, minionNet, toServer>>

\* onJobFromNetwork
JobFromNetwork ==
    /\ Polling
    /\ fromServer # <<>>
    /\ fromServer' = Tail(fromServer)
    /\ \/ /\ minionWaiting
          /\ sending' = Head(fromServer)
          /\ minionWaiting' = FALSE
          /\ UNCHANGED queue
       \/ /\ ~minionWaiting
          /\ queue' = Append(queue, Head(fromServer))
          /\ UNCHANGED <<sending, minionWaiting>>
    /\ UNCHANGED <<stopped, scriptVars, serverVars, minionNet, toServer>>

\* minion_.send goes through as soon as a minion is connected.
SendToMinion ==
    /\ ~stopped /\ sending # NoJob
    /\ script # "none"
    /\ toMinion' = Append(toMinion, sending)
    /\ sending' = NoJob
    /\ UNCHANGED <<queue, minionWaiting, stopped, scriptVars, serverVars,
                   fromMinion, serverNet>>

FromMinion(subject) ==
    /\ Polling
    /\ fromMinion # <<>> /\ Head(fromMinion).subject = subject
    /\ fromMinion' = Tail(fromMinion)
    /\ UNCHANGED <<toMinion, fromServer, scriptVars, serverVars>>

\* Mutant of ResultFromMinion: the next job is sent without leaving the queue.
ResultWithoutPop ==
    /\ FromMinion("RESULT")
    /\ toServer' = Append(toServer, Head(fromMinion))
    /\ \/ /\ queue # <<>>
          /\ sending' = Head(queue)
          /\ UNCHANGED <<minionWaiting, queue>>
       \/ /\ queue = <<>>
          /\ minionWaiting' = TRUE
          /\ UNCHANGED <<queue, sending>>
    /\ UNCHANGED stopped

\* Mutant of ResultFromMinion: the minion is never marked as waiting again.
ResultStaysBusy ==
    /\ FromMinion("RESULT")
    /\ toServer' = Append(toServer, Head(fromMinion))
    /\ \/ /\ queue # <<>>
          /\ sending' = Head(queue)
          /\ queue' = Tail(queue)
       \/ /\ queue = <<>>
          /\ UNCHANGED <<queue, sending>>
    /\ UNCHANGED <<minionWaiting, stopped>>

\* onResultFromMinion
ResultFromMinion ==
    /\ FromMinion("RESULT")
    /\ toServer' = Append(toServer, Head(fromMinion))
    /\ \/ /\ queue # <<>>
          /\ sending' = Head(queue)
          /\ queue' = Tail(queue)
          /\ UNCHANGED minionWaiting
       \/ /\ queue = <<>>
          /\ minionWaiting' = TRUE
          /\ UNCHANGED <<queue, sending>>
    /\ UNCHANGED stopped

\* forwardToNetwork
HelloFromMinion ==
    /\ FromMinion("HELLO")
    /\ toServer' = Append(toServer, Head(fromMinion))
    /\ UNCHANGED clientVars

\* No callback is bound to a GOODBYE of the minion.  The call of the empty
\* std::function throws, and the thread then waits for the heartbeat thread in
\* the destructor of its future.
GoodbyeFromMinion ==
    /\ FromMinion("GOODBYE")
    /\ stopped' = TRUE
    /\ UNCHANGED <<queue, minionWaiting, sending, toServer>>

Client == JobFromNetwork \/ SendToMinion \/ ResultFromMinion \/ HelloFromMinion
          \/ GoodbyeFromMinion

-----------------------------------------------------------------------------
(* The minion *)

\* The constructor connects and says HELLO.
StartScript ==
    /\ script = "none"
    /\ started < MaxScripts
    /\ script' = "ready"
    /\ started' = started + 1
    /\ fromMinion' = Append(fromMinion, Msg("HELLO", NoJob))
    /\ UNCHANGED <<clientVars, currentJob, orphaned, serverVars, toMinion, serverNet>>

\* nextJob
NextJob ==
    /\ script = "ready"
    /\ toMinion # <<>>
    /\ script' = "computing"
    /\ currentJob' = Head(toMinion)
    /\ toMinion' = Tail(toMinion)
    /\ UNCHANGED <<clientVars, started, orphaned, serverVars, fromMinion, serverNet>>

\* Mutant of SubmitResult: the job is forgotten before its result is sent.
SubmitAfterReset ==
    /\ script = "computing"
    /\ script' = "ready"
    /\ currentJob' = NoJob
    /\ fromMinion' = Append(fromMinion, Msg("RESULT", currentJob'))
    /\ UNCHANGED <<clientVars, started, orphaned, serverVars, toMinion, serverNet>>

\* submitResult
SubmitResult ==
    /\ script = "computing"
    /\ script' = "ready"
    /\ currentJob' = NoJob
    /\ fromMinion' = Append(fromMinion, Msg("RESULT", currentJob))
    /\ UNCHANGED <<clientVars, started, orphaned, serverVars, toMinion, serverNet>>

\* The minion goes and takes along what it has not sent and what it has not
\* received; sent is what the client still gets from it.
Ends(sent) ==
    /\ script' = "none"
    /\ currentJob' = NoJob
    /\ toMinion' = <<>>
    /\ fromMinion' = sent
    /\ LET had == {currentJob} \cup ToSet(toMinion) \cup ToSet(JobsOf(fromMinion))
       IN  orphaned' = orphaned \cup (had \ (ToSet(JobsOf(sent)) \cup {NoJob}))
    /\ UNCHANGED <<clientVars, started, serverVars, serverNet>>

\* It dies, or its likelihood function throws (runMinion's future keeps the
\* exception).  The last of its messages may be lost.
Die == script # "none" /\ \E n \in 0..Len(fromMinion) : Ends(SubSeq(fromMinion, 1, n))

\* It ends its loop and says GOODBYE, as README.md:651 has it.
Leave == script = "ready" /\ Ends(Append(fromMinion, Msg("GOODBYE", NoJob)))

Minion == StartScript \/ NextJob \/ SubmitResult \/ Die \/ Leave

-----------------------------------------------------------------------------
(* The server, as far as this client is concerned *)

GiveJob ==
    /\ announced /\ ~lost
    /\ given < MaxJobs
    /\ given' = given + 1
    /\ fromServer' = Append(fromServer, given + 1)
    /\ UNCHANGED <<clientVars, scriptVars, announced, results, lost, minionNet, toServer>>

\* A HELLO of a client it knows is nothing new to the server, and it drops the
\* results of a client it has given up.
ServerReceives ==
    /\ toServer # <<>>
    /\ toServer' = Tail(toServer)
    /\ LET m == Head(toServer) IN
       /\ announced' = (announced \/ m.subject = "HELLO")
       /\ results' = IF m.subject = "RESULT" /\ ~lost THEN Append(results, m.job) ELSE results
    /\ UNCHANGED <<clientVars, scriptVars, given, lost, minionNet, fromServer>>

\* The heartbeats have stopped for as long as the time-out is.
ServerTimesOut ==
    /\ announced /\ ~lost
    /\ ~Polling
    /\ lost' = TRUE
    /\ UNCHANGED <<clientVars, scriptVars, announced, given, results, minionNet, serverNet>>

Server == GiveJob \/ ServerReceives \/ ServerTimesOut

-----------------------------------------------------------------------------
Next == Client \/ Minion \/ Server

Spec == Init /\ [][Next]_vars

\* The client polls, a minion that lives computes, the network delivers, and the
\* server notices a silence that lasts.  Nobody has to die, leave, come back or
\* send another job.
Fairness ==
    /\ WF_vars(JobFromNetwork) /\ WF_vars(SendToMinion)
    /\ WF_vars(ResultFromMinion) /\ WF_vars(HelloFromMinion) /\ WF_vars(GoodbyeFromMinion)
    /\ WF_vars(NextJob) /\ WF_vars(SubmitResult)
    /\ WF_vars(ServerReceives) /\ WF_vars(ServerTimesOut)

FairSpec == Spec /\ Fairness

-----------------------------------------------------------------------------
(* Properties *)

JobId == 1..MaxJobs
Messages == [subject : {"HELLO", "GOODBYE"}, job : {NoJob}]
            \cup [subject : {"RESULT"}, job : JobId]

\* Every variable has the type of the member it stands for.
TypeOK ==
    /\ queue \in Seq(JobId)
    /\ minionWaiting \in BOOLEAN /\ stopped \in BOOLEAN
    /\ sending \in JobId \cup {NoJob}
    /\ toMinion \in Seq(JobId) /\ fromMinion \in Seq(Messages)
    /\ script \in {"none", "ready", "computing"}
    /\ currentJob \in JobId \cup {NoJob}
    /\ started \in 0..MaxScripts
    /\ fromServer \in Seq(JobId) /\ toServer \in Seq(Messages)
    /\ announced \in BOOLEAN /\ lost \in BOOLEAN
    /\ given \in 0..MaxJobs
    /\ results \in Seq(JobId)
    /\ orphaned \subseteq JobId

\* The jobs between the client and its minion, sent to it and not answered, with
\* NoJob where there is none.
WithMinion == JobsOf(fromMinion) \o <<currentJob>> \o toMinion \o <<sending>>

\* minionWaiting_ is TRUE exactly when the minion has nothing to answer; the
\* client never hands a second job out before it has the answer to the first,
\* whatever minions have come and gone (worker.cpp:42-66).
MinionWaitsIffIdle ==
    /\ \A i, j \in DOMAIN WithMinion :
           WithMinion[i] # NoJob /\ WithMinion[j] # NoJob => i = j
    /\ minionWaiting <=> (ToSet(WithMinion) = {NoJob} /\ orphaned = {})
    /\ queue # <<>> => ~minionWaiting

\* The jobs that did not die with a minion, on their way from the server and back:
\* answered first, still to be received last.
OnTheWay == results \o JobsOf(toServer) \o WithMinion \o queue \o fromServer

\* They are in the order they were sent: results arrive in order, none twice, and
\* no job is forgotten.  This is what Delegator assumes of held.
JobsKeepTheirOrder ==
    ~lost =>
        /\ \A i, j \in DOMAIN OnTheWay :
               i < j /\ OnTheWay[i] # NoJob /\ OnTheWay[j] # NoJob
                   => OnTheWay[i] < OnTheWay[j]
        /\ ToSet(OnTheWay) \ {NoJob} = (1..given) \ orphaned

Settled(job) == job \in ToSet(results) \/ lost

\* Every job is answered or its client given up, so that the server can send it
\* to another, unless a minion has died with a job in its hands.
SettledUnlessOrphaned ==
    \A job \in JobId : given >= job ~> Settled(job) \/ orphaned # {}

\* Every job is answered or its client given up: README.md:694 says that a worker
\* need not say GOODBYE because "the server will detect the loss eventually and
\* re-assign in-progress jobs to another worker".
EveryJobSettled == \A job \in JobId : given >= job ~> Settled(job)
=============================================================================
