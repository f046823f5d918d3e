# Stateline in TLA+

Stateline is a server that samples a distribution by Markov chain Monte Carlo and farms
the evaluations of the likelihood out to workers over ZeroMQ. This directory holds TLA+
models of its distributed half (`src/src/comms`), of the control of its sampler and the
computations around it (`src/src/infer`), and of how its processes start and stop
(`src/src/app`, `src/src/bin`), the TLC runs that check them, and TLAPS proofs of the
safety properties of all of these. `README.md:n` below and in comments is the
repository's README; other `file:line` references are relative to `src/src/comms` or
`src/src/infer` unless they say more.

## 1. The system

    runSampler ── Sampler ── Requester ══ Delegator ══ Worker ══ Minion / script
        │            │                       ║ PAIR      ║ PAIR
        └────── ChainArray ── files    ServerHeartbeat  ClientHeartbeat

`══` are ZeroMQ sockets (asynchronous FIFO channels), `──` are calls. Every box
left and right of a socket is a thread or a process of its own; the threads of the
server share no memory that the protocol depends on but `running_` and the ZeroMQ
context, which matter when it stops.

| Component (source) | State | Operations | What makes it correct |
|---|---|---|---|
| **Delegator** (`delegator.cpp`) | pending requests with the results they have so far, job queue, connected workers with their jobs in progress, id counter | REQUEST, RESULT, HELLO, GOODBYE (from a worker or the heartbeat thread), assignment of jobs in `onPoll` | each job in one place; live jobs = open slots of pending requests; a reply exactly when the last slot is filled; no job left idle, none overtaken; no lookup of a job that is not there; every request answered unless a worker sits on its job |
| **SocketRouter** (`router.cpp`) | callback table | one message of each socket per pass, then `onPoll` | the order of handlers within a pass |
| **ServerHeartbeat** (`serverheartbeat.cpp`) | clients, time of each one's last heartbeat, time of its own last send | HELLO, HEARTBEAT, GOODBYE, time-outs, sending heartbeats | agrees with the Delegator on who is there, in the direction that matters: a connected worker is monitored |
| **Worker** = `stateline-client` (`worker.cpp`) | queue of jobs, `minionWaiting_` | JOB, RESULT, HELLO, forwarding of heartbeats | one job at a time to the minion, results in order, nothing stuck |
| **ClientHeartbeat** (`clientheartbeat.cpp`) | time of its last send | sending a heartbeat | the server hears from a client that lives |
| **Minion** or a script (`minion.cpp`, `app/workerwrapper.cpp`, `bin/demo-worker.py`) | current job | HELLO, receive a job, submit the result | one result per job |
| **Requester** (`requester.cpp`) | none | submit, retrieve | at most one request of a key at a time |
| **Sampler** (`sampler.cpp`) | lock per chain, number of outstanding jobs, the last proposal of each chain | `step`, `propose`, `unlock`, `flush` | one proposal per chain; swaps only between chains with nothing in flight; no stack stalls; the flush retrieves what is in flight and no more |
| **ChainArray** and CSV writer (`chainarray.cpp`, `db/db.cpp`) | states in memory, lengths on disk, current sigma and beta, files | initialise, append, swap, flush, destructor | file followed by memory = history of the cold chain; a closed store has all of it in its files |
| **ServerWrapper**, `stateline` main (`app/serverwrapper.cpp`, `bin/stateline.cpp`) | `running_`, ZeroMQ context, futures | start, the initial samples, the sampling loop, stop | a run that ends leaves nothing behind; every thread ends; `stop` returns |
| **WorkerWrapper** (`app/workerwrapper.cpp`) | the same for a worker | start, stop | the same |
| **Signal handling** (`app/signal.cpp`) | `interruptedBySignal` | the handler | a signal stops the process, whatever its threads wait for |
| **Socket, messages, settings, thread** (`socket.cpp`, `messages.cpp`, `settings.hpp`, `thread.hpp`) | — | a message to frames and back; a failed send calls a fallback | who gets an answer is who asked |
| **CircularBuffer, string helpers** (`common/`) | a ring of times | push; split, join | the ring has the last times; a list split is the list joined |
| **RegressionAdapter** (`adaptive.cpp`) | window of outcomes, regression, last ladder | update, `computeBetaStack`, `predict` | rates are those of the window; ladders rise, and chains keep to a recent one |
| **EPSR** (`diagnostics.cpp`) | running means and squares | update, `rHat`, `hasConverged` | equal to what two passes would give; no claim without data |
| **TableLogger** (`logging.cpp`) | counters | update | equal to the log's counts |
| **GaussianProposal, bouncyBounds** (`sampler.cpp`) | covariance | draw, reflect into bounds | inside the bounds, at the mirror image |
| **Proposal shape** (`adaptive.cpp`) | Cholesky factor | rank-one update | numerical |
| **API resources, log output, command line, JSON settings, serialisation** | — | I/O | no protocol state |

Where it is hard: results arrive in any order and from workers that were given
up meanwhile; HELLO, GOODBYE and time-outs cross between two threads that each
keep a list of the workers; jobs wander between the queue and the workers; a
minion may die with a job while its client's heartbeats go on; chains of a stack
wait for one another while results come back in any order; flushes fall between
an append and the swap that still edits the appended state; the loop that drains
the outstanding jobs counts an unsigned number down past zero; `stop` deletes the
ZeroMQ context under threads that wait, compute or have not started; addresses are
stacks that both the code and ZeroMQ push and pop, reversed on the wire; the ladder of
temperatures changes while cascades that hand out the last one are under way. Every
such place is listed with its line under `hazards` in `PROJECT.json`, with the properties
that guard it or the reason why none does.

## 2. The modules

| Module | Models | State ↔ code |
|---|---|---|
| `RequestReply` | what the server promises a requester: asked, answered once with the results of its own types on its own data, taken | abstract |
| `Delegator` | the Delegator's thread: every handler and `onPoll` | `pending`, `request` ↔ `requests_`; `jobQueue`, `nextJobId` ↔ members of that name; `connected`, `range`, `wip` ↔ `workers_`, `jobTypesRange`, `workInProgress`; `phase`, `cursor` ↔ position in the pass and in `onPoll`'s walk; `held`, `reply` ↔ messages outside the thread |
| `MCDelegator` | the instances TLC checks | |
| `DelegatorProofs` | theorems about `Delegator`, and that it implements `RequestReply` | |
| `ServerHeartbeat` | the heartbeat thread: its handlers and `onPoll` | `clients`, `silence`, `sinceSend` ↔ `clients_`, age of `lastHeartbeats_`, age of `lastSendTime_`; `toHB`, `fromHB` ↔ the PAIR socket |
| `Membership` | `ServerHeartbeat` composed with the connecting half of the Delegator and with workers that come back, leave and die | `connected` ↔ keys of `workers_`; `net` ↔ messages on their way; `toHB`, `fromHB` ↔ the PAIR socket, which takes any number of messages |
| `MCMembership` | its instances | |
| `MembershipProofs` | theorems about `Membership` | |
| `Worker` | a `stateline-client`, the minions it serves one after another and its view of the server | `queue`, `minionWaiting` ↔ `queue_`, `minionWaiting_`; `sending` ↔ a `minion_.send` that waits for a peer |
| `WorkerProofs` | theorems about `Worker` | |
| `Sampler` | `step`, `unlock`, `flush` and the loop of `runSampler` | `outstanding`, `numOutstandingJobs`, `locked`, `mode` ↔ requests in flight, `numOutstandingJobs_`, `locked_`, `haveFlushed_` |
| `SamplerProofs` | theorems about `Sampler` | |
| `ChainArray` | the chain store and its files | `cache`, `lengthOnDisk`, `file`, `scale` ↔ `cache_`, `lengthOnDisk_`, CSV lines, `sigma_` and `beta_` |
| `ChainArrayProofs` | theorems about `ChainArray` | |
| `ZmqProcess` | what both processes have: `stop`, the signal, the context, and the wire between them | `hello`, `toWorker`, `fromWorker` ↔ the wire; `main`, `interrupted`, `running`, `context` ↔ where main is, `interruptedBySignal`, `running_`, `*context_` with its open sockets |
| `ServerLifecycle` | the server's threads from start to stop | `sampler`, `delegator`, `heartbeat` ↔ where each thread is; `queued`, `wip`, `replies` ↔ requests and jobs, work in progress and results, as counts; `connected` ↔ whether the worker is in `workers_`; `numOutstanding`, `samples` ↔ `numOutstandingJobs_`, `nsamples` |
| `WorkerLifecycle` | a worker process with its minion, or a `stateline-client` | `client`, `clientHB`, `minion` ↔ where each thread is; `unsent`, `arrived` ↔ messages in the pipes of the socket between minion and client |
| `Processes` | the two processes together | |
| `ProcessesProofs` | theorems about `Processes` | |
| `Messages` | texts, messages and frames: pure operators | |
| `Routing` | every message's way between requesters, server and clients, as frames | `wire` ↔ messages on their way; `pending` ↔ what the users of a Requester wait for; `workers`, `requests`, `jobQueue`, `wip` ↔ members of the Delegator |
| `Scheduling` | measured times, estimates, `bestWorker` | `times` ↔ `times` of each worker; `inProgress` ↔ `workInProgress` |
| `Proposals` | initial samples, proposals and `bouncyBounds` in one dimension | `bounds`, `sample` ↔ `bounds_`, sample of the last state |
| `Adaptation` | the ladder of temperatures and its way to the chains | `values` ↔ `values_` of the adapter of beta, `heat` ↔ beta of each chain, `locked` ↔ `locked_` |
| `Totals` | the sum of a sequence of numbers | |
| `Statistics` | TableLogger, the window of acceptance rates, EPSR | members of the three classes, under their names |
| `Algorithms` | `Routing`, `Scheduling`, `Proposals`, `Adaptation`, `Statistics`, `ChainArray`, one of them in each behaviour | `running`: which one |
| `MCAlgorithms` | its instance | |
| `AlgorithmsProofs` | theorems about the parts of `Algorithms`, and the induction they need | |
| `RoutingProofs` | the theorem about `Routing`, and what it needs of `Messages` | |

`PROJECT.json` maps every definition to its lines. Operators whose comment
begins with "Mutant of" are not part of a model: each is a handler with a
plausible bug, and putting it in the handler's place makes the property it is
listed with fail (`mutants` in `PROJECT.json`). They show that a property
depends on the code it is about.

How they fit together. `Delegator` takes two things for granted of its
neighbours, and each is a checked property of the neighbour's module: a key is
not used again before its answer is retrieved (`Sampler!OneOutstandingPerChain`),
and a worker answers its jobs in the order it got them
(`Worker!JobsKeepTheirOrder`). In turn `Sampler` takes for granted that every request
is answered. `Delegator!EveryRequestAnswered` says when: some worker that serves every
type stays, and no worker keeps a job for ever. The second condition is not always met.
A worker that *dies* is reported gone and loses its jobs
(`Membership!DeadAreDisconnected`), but one whose client lives and never answers keeps
them: `Worker!EveryJobSettled` is violated (finding 3), and `Worker!SettledUnlessOrphaned`
says what is left of it. A JOB that a lost TCP connection takes with it does the same.

`Delegator` gives a job to any eligible worker and has no addresses: `Scheduling`
says which worker it is and `Routing` where messages go, without the order, queues
and losses that `Delegator`, `Membership` and `Worker` have. `Processes` is the same
system seen from start to stop: the jobs are counts there, and the question is which
thread ends when. `Algorithms` is no composition: its six parts share no variables,
and a behaviour of it is one of a single part, so that each is explored by itself.

### What is abstracted, and why that is sound

* *Which* eligible worker `bestWorker` returns depends on measured times; the model lets
  it be any of them.
* The order in which `disconnectWorker` re-queues jobs is that of their ids as strings;
  the model takes any order.
* Jobs are handed out one action at a time although `onPoll` is one call. Only
  `Retrieve`, which the thread does not see, can fall in between.
* No `ROUTER_MANDATORY` is set, so a send to a peer that is gone is dropped in silence,
  and a send fails only when the context is shut down or a signal interrupts it:
  `sendFailed` is not part of `Delegator` but of `ServerLifecycle`.
* A HELLO or REQUEST whose numbers `std::stoi` rejects is left out: the exception ends
  the Delegator's thread, and its future keeps it. No part of the repository sends one.
* The sends on the PAIR sockets never wait: they hold a thousand messages on either
  side, which two threads that poll every pass do not let stand.
* A lookup with `operator[]` that makes up an element is modelled by what it makes up
  (`EmptyRequest`) or, where the made-up element leads to undefined behaviour or an
  exception, by `crashed`.
* Times are ages in ticks, cut off where they can no longer be told apart.
* In `Sampler` a state is not represented; `stale` records whether a proposal in flight
  is one from the chain's last state. In `ChainArray` a sample with its energy is a
  `Point`, and sigma and beta together a `Scale`.
* In `Processes` jobs are counts, since all are alike to a shutdown, and a stack has one
  temperature, which makes every step a sample. A signal may interrupt a ZeroMQ call of
  any one thread (EINTR, which zmq turns into an exception): a poll, a receive, a bind,
  or a send, after which the Delegator disconnects the worker (`SendFails`). A second
  signal is not modelled. What the use of a deleted context or an erased worker does,
  which is undefined, is either nothing or the end of the process (`StartsTooLate`,
  `UsesErasedWorker`). The race on the plain `bool running_` is read as an atomic read
  of a value that becomes visible some time, which is what the calls between two reads
  make the compiler do. The API thread is left out.
* A text is the sequence of its characters, a number in it being one character. Doubles
  are multiples of a tenth of the sixth decimal (`Resolution` 10), so that rounding
  shows.
* A temperature is -log(beta), which makes the products of `computeBetaStack` sums; the
  estimates of the regression are any numbers, clamped as `predict` does.
* In `Statistics` only samples occur whose running means are whole numbers
  (`MeanIsWhole`), as those of any log of rational samples are once all of it is scaled
  by one number; the square root and division of `rHat` are multiplied out.

## 3. The runs

| Run | Instance | Shows |
|---|---|---|
| `delegator` | 2 requester keys, 2 payloads, 2 job types, a worker for all types and one for type 1, which connect once and may leave any time, `MaxJobs` 2, 3 requests | type invariant and job limit, `OnePlacePerJob`, `JobsMatchOpenSlots`, `DoneCountsFilledSlots`, `NeverCrashes`, `WorkConserving`, `AssignedInOrder`, `EveryRequestAnswered`, and that `Delegator` implements `RequestReply` |
| `delegator_rehello` | 1 key, 2 requests, worker identities used twice | **violation** of `NeverCrashes` |
| `membership` | a worker with two HELLOs, `Timeout` and `Rate` 1 tick | type invariant, `ConnectedIsMonitored`, `DeadAreDisconnected` |
| `membership_goodbye` | two workers, one HELLO each | **violation** of `HeartbeatNeverCrashes` |
| `worker` | 3 jobs, 2 minions one after another | `MinionWaitsIffIdle`, `JobsKeepTheirOrder`, `SettledUnlessOrphaned` |
| `worker_loss` | 2 jobs, 2 minions | **violation** of `EveryJobSettled` |
| `sampler` | 2 stacks of 3 temperatures, swap interval 2 | `OneOutstandingPerChain`, `WaitsIffColderLocked`, `NoStaleProposal`, `CountsOutstanding`, `FlushEnds`, `EveryPairSwaps` |
| `processes` | 2 chains, 1 sample, 1 unparsable result, a worker process with its minion or a `stateline-client` | `NothingLeftBehind`, `NoWaitForDeadSampler`, `ServerThreadsEnd`, `RunEnds`, `WorkerStopReturns` |
| `server_stop` | 1 chain, 1 sample | **violation** of `ServerStopReturns` |
| `algorithms` | see the bounds below | `AnswersReachAsker`, `QuickestEligible`, `ReflectedIntoBounds`, `TemperaturesLag`, `StatisticsMatchLog`, `LengthCountsAllStates`, `FileThenCacheIsHistory` |
| `ladder` | 3 chains, ladders that all rise strictly | **violation** of `StrictLadder` |
| `chain_array_closed` | as `algorithms` | **violation** of `AllSamplesRecorded` |

### Bounds, and why they are enough

* *Delegator.* Two workers let a job move from one to the other; two keys let the jobs
  of two requests mix in the queue; two types make a request with an empty and a filled
  slot; with `MaxJobs` 2 instead of 10 the limit is reached with two requests, and a
  queue forms behind it; the third request re-uses a key. With one worker for all types
  and one for type 1 a job of type 0 waits behind one that can go, and a job that w2
  takes and loses goes back to w1. The proofs of section 5 hold for every value of
  these.
* *Membership.* Time-out and rate of one tick keep every order of a heartbeat, a
  time-out and a message. The channels have no bound of their own; a worker sends no
  more while 4 messages are unread (`MaxInFlight`), enough for HELLO, heartbeat, GOODBYE
  and HELLO in a row, and time stands still while 3 of the heartbeat thread's are
  (`MaxBacklog`), enough for a heartbeat, a GOODBYE and the next heartbeat: neither
  bound makes a thread of the server wait. One worker is enough for the agreement of the
  threads, which is about each worker separately; it takes two HELLOs to come back after
  a time-out.
* *Worker.* Three jobs put one with the minion, one in the queue and one on the network;
  the second minion finds what the first has left.
* *Sampler.* Three temperatures are the least with a chain that is neither hottest nor
  coldest; two stacks show that their cascades do not mix. `Wrap` is the modulus of the
  unsigned counter, one more than the most jobs there can be, so that counting below
  zero shows. Lengths count modulo `LengthWrap` 2, the swap interval.
* *ChainArray.* Two stacks of two chains. The cold chain of the first takes its initial
  state and two appends, so that its file may have two lines, and the other three one
  state each (`MCMaxLength`); flushes and swaps fall between them in any number. With
  two points a swap shows what it exchanges; one scale is enough, as scales only travel
  with the state (the proofs have any number of all of these).
* *Processes.* Two chains let a result be with the sampler while a job is with the
  worker; one sample is a step between two phases that have none; one unparsable result
  is enough to make the flush wait for one too many. The other loops have no counters to
  bound.
* *Routing.* Two requesters with the same id and different types; one client takes all
  types, the other only type 2, so that the jobs of a request spread over both; types 10
  and 2 tell numerical from textual order; the data round up, up and down. A third
  submission uses the id of the first again, once that is answered. Job ids stay among
  the numbers that can be printed (`Numbers`, in the guard of `receiveRequest`); the
  jobs of these submissions need four.
* *Scheduling.* Two workers of overlapping types; a ring of 2 and 3 measurements, so
  that one is dropped; a `uint` of 8 values and times of 2 and 7, so that sums wrap.
* *Proposals.* Widths 1, 2, 3 and 7, on all sides of zero, and overshoots of up to 20:
  any parity of the number of widths. Proved for all values, like the properties of the
  next three parts (section 5).
* *Adaptation.* Four chains, the least where a chain's temperature can be of the last
  but two ladders; estimates below and above the caps. The model is finite without a
  bound. `ladder` has three chains and gaps of 1 and 3, so that no ladder has equal
  rungs.
* *Statistics.* Two stacks of two chains, of which one each is diagnosed and swaps; a
  window of 3 and 4 log entries, so that it slides.

No run uses symmetry. Deadlock is checked except where the system really may stop:
after a crash of the thread (`delegator_rehello`), the last minion gone (`worker`,
`worker_loss`) or the process at its end or stuck in `stop` (`processes`,
`server_stop`), and in the three runs of `MCAlgorithms`, whose inputs are finite and
whose store ends when it is closed.

### Fairness

* `Delegator`: the poll loop never stops (WF of `Pass`), and nothing else. What the
  workers do is not under its control and is a condition in `EveryRequestAnswered`
  instead: again and again each worker has no job of a given request. That a worker
  which is *gone* loses its jobs is what `Membership` checks; that one which is there
  answers them is `Worker!SettledUnlessOrphaned`, with the exception of finding 3.
* `Membership`: both threads keep polling, time passes, and the network is read, in
  turns among the workers (WF each).
* `Worker`: the client polls, a minion that lives computes, the network delivers,
  the server notices a silence that lasts. Nothing makes a minion die or start.
* `Sampler`: every request is answered and the thread keeps retrieving. Nothing
  makes it stop stepping, and `FlushEnds` speaks of what follows if it does.
* `Processes`: each thread goes on when it can (WF), messages between minion and
  client arrive, a likelihood is computed in the end. Nothing makes a signal arrive
  or a result unparsable.
  `[]<>P => []<>Q` in its properties means that P leads to Q, since each P and Q stays
  once it holds, or else leaves for good; TLC then needs no tableau.
  It is one WF for the Delegator, which polls for ever, and one for all other
  threads, whose steps are finitely many and disable none of another thread: if one
  could go on and never did, the others would come to a stop and it would be its turn.

## 4. What was found

1. **A late result can bring the server down** (`delegator_rehello`,
   `delegator.cpp:182`). A worker that was timed out and says HELLO again under its
   identity may deliver the result of a job it got before. `receiveResult` looks it up
   with `operator[]`, gets a made-up job and writes into an empty vector. Results of
   workers that are *not* connected are guarded against.
2. **GOODBYE of a worker that has been given up** (`membership_goodbye`,
   `serverheartbeat.cpp:110`). The Delegator forwards every GOODBYE, and `deleteClient`
   erases what `find` returned without a test. Only a worker that speaks the protocol
   without `stateline-client` sends one.
3. **A minion that dies with a job** (`worker_loss`, `worker.cpp:64`). `minionWaiting_`
   stays false for ever and the heartbeats of the client go on, so its jobs are never
   handed to another worker, and a minion that is started anew gets none, although
   README.md:694 says the loss is detected. `worker` shows that this is the only way: if
   no minion takes a job with it, every job is settled. A minion that dies *idle* makes
   the next `minion_.send` wait, heartbeats and all, and the server gives the client up.
   A script that says GOODBYE as README.md:651 tells it to has the same effect: the
   client has no callback for it and its loop ends in an exception (see below).
4. **The server's `stop` does not return** (`server_stop`, `serverwrapper.cpp:163`). It
   deletes the ZeroMQ context first, whose destructor waits until every socket is
   closed, but three sockets belong to the Delegator, a member of the ServerWrapper that
   is still being stopped. `ServerThreadsEnd` shows that all threads do end, a sampler
   that waits for a result included: the exception the context's termination raises in
   them is what gets them out.
5. **The last sample is not recorded** (`chain_array_closed`, `chainarray.cpp:138`). A
   flush keeps one state in memory for the next swap, and the destructor uses the same
   flush: the last state of each cold chain is in no file, where README.md:529 has all
   samples recorded and the test `canRecoverChain` (`test/chainarray.cpp:149`) recovers
   both states of a store with two. `FileThenCacheIsHistory` shows that nothing else is
   ever missing.
6. **Temperatures are no strict ladder** (`ladder`, `sampler.cpp:186`). A cascade hands
   the hotter chains their rungs of the last ladder before it reaches the coldest one,
   which computes a new one: with 0, 1, 2 and then 0, 3, 4 the three chains of a stack
   stand at 0, 3, 2 for a while, where README.md:461 has beta "adapted as a strictly
   decreasing ladder". Equal rungs are possible too, by the clamp of `predict` at zero
   (`adaptive.cpp:104`, `app/serverwrapper.cpp:53`). `TemperaturesLag` says what does
   hold: ladders never fall, and a chain's rung is at most as many ladders old as the
   chain is rungs up.

Besides these six, the models record behaviour worth knowing, which follows from
the definitions or is granted by the wording of the property named:

* A rejected proposal repeats the last state with the sigma and beta that it had
  (`chainarray.cpp:103`), not those of the moment (`datatypes.hpp:51`, `:54`).
* A result that `std::stod` rejects has been received and not been counted: the flush
  then waits for one result too many (`sampler.cpp:146`), until a signal.
* A send that fails, at shutdown or because a signal interrupts it with the context
  still open, calls `sendFailed`, which erases the worker that `onPoll` goes on to use
  (`delegator.cpp:240`). If that does no harm the worker is merely disconnected, and
  never told. `UsesErasedWorker`.
* A thread of a worker process that starts after `stop` has deleted the context uses it
  all the same (`app/workerwrapper.cpp:77`), and one that binds its sockets while it
  is being deleted, or while a signal arrives, takes the failure for an address in use and
  brings the process down (`socket.cpp:76`). `StartsTooLate`, `ConstructorFails`.
* A script's GOODBYE makes the client's loop call an empty function (`router.cpp:71`).
  Its thread then waits for that of its heartbeats, which goes on until the process is
  stopped, and only then is the exception fatal (`thread.hpp:26`). `ScriptGoodbye`,
  `ClientFails`.
* `stop` of a worker process waits for ever if its minion's last message can no longer
  be delivered to the client, since its socket lingers. `WorkerStopReturns`.
* A window of `n_window_` outcomes holds one less than that when it is full, so the
  acceptance rate stays below 1 (`adaptive.cpp:85`). `StatisticsMatchLog`.
* `rHat` divides the squares of all stacks by the length of the shortest. Stacks that
  do not move, all at one place, count as converged.
* A new worker has a ring of zeros for its times and so looks quick for its first ten
  jobs; the guess for a worker without times is never used, as `size()` is the
  capacity (`delegator.cpp:29`). `QuickestEligible`.

## 5. What is proved

`DelegatorProofs` proves, for every set of keys, workers and payloads, every finite set
of job types and every value of the bounds that `DelegatorAssumption` allows:

| Theorem | Statement |
|---|---|
| `TypeCorrect` | `Spec => []TypeOK`, which includes the limit of `MaxJobs` jobs per worker and that every job is in its worker's range |
| `EachJobInOnePlace` | `Spec => []OnePlacePerJob` |
| `JobsAlwaysMatchSlots` | `Spec => []JobsMatchOpenSlots` |
| `DoneAlwaysCounts` | `Spec => []DoneCountsFilledSlots` |
| `NoIdleWorker` | `Spec => []WorkConserving` |
| `NoOvertaking` | `Spec => AssignedInOrder`, an action property |
| `NoCrashWhenConnectedOnce` | `Spec => []NeverCrashes`, if `MaxHellos <= 1` |
| `AnswersAreRight` | `Spec => ImplementsRequestReply`, the refinement |

`TypeOK` is inductive: its clauses on `wip` support each other, for a worker that
is not connected has no jobs, so a new HELLO may set its range freely. The other
three hold together in one inductive invariant,

    JobInv == TypeOK /\ OnePlacePerJob /\ JobsMatchOpenSlots /\ DoneCountsFilledSlots

because none is inductive alone. A result is filled in for the job found in the
work in progress; that its slot is open, hence that counting it is right, is
`JobsMatchOpenSlots`; that taking the job away closes this slot and no other needs
that no second live job is for the slot, and that the job is nowhere else is
`OnePlacePerJob`, whose first clause, ids below `nextJobId`, makes new jobs new.
That a request whose `nDone` is full has no live job left, so that dropping it
leaves no job behind, is `DoneCountsFilledSlots`. Most actions only move jobs:
`SameJobs`, `AssignKeepsJobs` and `DisconnectKeepsJobs` show that assignment and
re-queueing keep the set of live jobs and their distinctness, and only
`ReceiveRequest` and `AcceptResult` touch requests. The lemmas at the head of the
module are about the sequence operators the actions use.

*The walk of `onPoll`.* `PollInv` says that no worker is eligible for a job the
iterator has passed. It is inductive because nothing but the walk happens while
`phase` is "onPoll", an assignment makes a worker busier and never another one
eligible, and taking a job out moves the later ones up to the place the iterator
keeps. With the cursor past the end it is `WorkConserving`; with
`OnePlacePerJob` it gives `AssignedInOrder`, since a job that stays behind the
iterator had no eligible worker, so neither has a later one of its type.

*The lookups of `receiveResult`.* `HeldInProgress` says that the messages a
connected worker holds are about different jobs, all in its `workInProgress`, and
that a worker holds nothing before its first HELLO. With `JobsMatchOpenSlots` both
lookups then succeed. It is inductive only if a worker that is gone stays gone:
`MaxHellos <= 1` is the weakest bound, since `delegator_rehello` shows the crash
with 2.

*The refinement.* `Call` reads a requester's state off `pending`, `request` and
`reply`. `AnswerInv` adds to `JobInv` what the answer's content needs: a message
that a worker holds agrees in type and data with the live job of its id, if there
is one (`MessagesFit`: it survives re-queueing, when the same job is sent out
twice with one id, and re-use of a key, whose jobs have new ids); so what is
filled in is what its slot is for (`ResultsAreRight`); and a key with an answer on
its way has no pending request (`ReplyEndsRequest`). That the slots are all filled
when the answer is made comes from `JobsMatchOpenSlots` of the state after the
step, in which the key is no longer pending and so has no live job. Then
`ReceiveRequest` is an `Ask`, the result that fills the last slot an `Answer`,
`Retrieve` a `Take`, and every other step leaves `Call` as it is.

The other theorems hold of `Spec` with any number of HELLOs, so also of the
behaviours of finding 1, up to the crash. `DelegatorAssumption` asks no more of the
constants than that markers (`NoData`, `NoResult`, `NoReply`) are not values and that
numbers are numbers.

### The client of the Delegator, and the threads around it

| Theorem | Statement | For all values of |
|---|---|---|
| `SamplerProofs!TypeIsKept` | `Spec => []TypeOK` | stacks, temperatures, swap interval, width of the counters |
| `SamplerProofs!OneRequestPerChain` | `Spec => []OneOutstandingPerChain` | |
| `SamplerProofs!RestsOnlyForCascade` | `Spec => [](WaitsIffColderLocked /\ HottestNeverLocked)` | |
| `SamplerProofs!ProposalsAreFresh` | `Spec => []NoStaleProposal` | |
| `SamplerProofs!FlushCountsRequests` | `Spec => []CountsOutstanding` | |
| `ChainArrayProofs!TypeIsKept` | `Spec => []StoreTypeOK` | stacks, temperatures, points, scales, limits of the lengths |
| `ChainArrayProofs!LengthIsExact` | `Spec => []LengthCountsAllStates` | |
| `ChainArrayProofs!NoStateLost` | `Spec => []FileThenCacheIsHistory` | |
| `MembershipProofs!TypeIsKept` | `Spec => []TypeOK` | workers, time-out, rate, numbers of messages |
| `MembershipProofs!ConnectedAreWatched` | `Spec => []ConnectedIsMonitored` | |
| `WorkerProofs!TypeIsKept` | `Spec => []TypeOK` | numbers of jobs and of minions |
| `WorkerProofs!OneJobAtATime` | `Spec => []MinionWaitsIffIdle` | |
| `WorkerProofs!ResultsInOrder` | `Spec => []JobsKeepTheirOrder` | |
| `ProcessesProofs!TypeIsKept` | `Spec => []TypeOK` | chains, samples, unparsable results |
| `ProcessesProofs!RunEndsClean` | `Spec => []NothingLeftBehind` | |
| `ProcessesProofs!MainKnowsSamplerEnded` | `Spec => []NoWaitForDeadSampler` | |

`OneOutstandingPerChain` and `JobsKeepTheirOrder` are the two things `Delegator` takes
for granted of its neighbours.

*Sampler.* The invariant is the conjunction of the five theorems. A result may be
retrieved for a chain that the cascade has locked, and `unlock` then submits for the
chain above: that nothing is in flight for that one is `WaitsIffColderLocked`, whose
proof in turn needs to know which chain a cascade stands at, hence
`HottestNeverLocked`. `CountsOutstanding` says how many requests the counter stands for
modulo its width, and that there are never as many as the width (`OutFits`) makes it the
number itself; it is counted by `Cardinality`, one request more or less at a time.
`StackNeighbours` does the arithmetic of chain numbers: the chain above and below a
chain, and who is hottest, whatever the number of temperatures.

*ChainArray.* The `Spec` is that of `Algorithms`, whose other parts leave the store alone.
The invariant is the type and the two properties. A state is appended and a
flush may follow at once, before the swap that edits the last state in memory;
what file and memory are together is kept by a flush of *any* caches that fit their
histories (`Fits`, `FlushAllKeeps`), so appending and flushing are two lemmas rather
than one case each. The swap changes only last states, which a flush never writes:
a flush leaves one state in memory (`WithLastOfEnd`).

*Membership.* The invariant is the conjunction of the properties, with the number of
HELLOs sent as a number. `ConnectedIsMonitored` compares the two threads' opinions of a
worker *as soon as all messages on the PAIR socket are read*: the last of them about the
worker decides. So the proof is about places in sequences, `OnAppend`, `OnTail` and
`OnConcat`: what is appended decides, what is taken from the head decides nothing that is
not already known, unless it was the last.

*Worker.* `Inv` adds three parts to the type. `OneWithMinion`: of a job on the way to the
minion, the one it works on, and the one on the way back there is at most one in all.
`ClientKnows`: `minionWaiting_` is true exactly if there is none and no minion has died
with one; after such a death no job leaves the client any more, which is what
keeps a second from dying. `PlacesInOrder`, while nothing is lost: each of the five
places a job can be at is in order and before the next one (`Before`), and together they
hold all jobs given out but the orphans. `JobsKeepTheirOrder` is about the five in a row;
place by place the steps are easier, since each touches two neighbours.

*Processes.* `NoWaitForDeadSampler` needs `Control`: main and the context that it
terminates go together, so that a thread that finds the context terminating knows that
main waits for nobody but sockets. `NothingLeftBehind` needs the jobs counted twice.
`Counts` is the server's side: the evaluations it has in hand (`InFlight`: queued, in
progress or answered) are at most what the sampler knows of, less the unparsable results
it will never count off; a send that fails may lose one. `Pipes` is the worker's: what
is on the way to it, with its minion, or on the way back (`Pipeline`) is no more than
its work in progress while it is connected, and no more than the queue once it was
disconnected, whose jobs were queued again without its knowing. So when the flush has
counted down to zero, nothing is in hand and nothing is in the pipeline, whether the
worker was disconnected or not. That each thread's step leaves the others' parts of the
invariant alone is a lemma per thread.

### The algorithms

`AlgorithmsProofs` proves theorems of the `Spec` of `Algorithms`, for all values of the
constants that the assumptions of its parts allow:

| Theorem | Statement | For all |
|---|---|---|
| `AlwaysReflected` | `Spec => []ReflectedIntoBounds` | bounds with `min < max`, steps of any length |
| `HeatNeverFarBehind` | `Spec => []TemperaturesLag` | stacks of any height, estimates, caps |
| `QuickestWorkerGetsJob` | `Spec => []QuickestEligible` | workers and their types, ring capacity, width of `uint`, times |
| `StatisticsAreThoseOfLog` | `Spec => []StatisticsMatchLog` | numbers of stacks and chains, windows, samples, logs of any length |

Each has an invariant of its own part, which the steps of other parts leave alone.

*Induction.* The loops of `bestWorker`, `computeBetaStack` and `std::accumulate` are
functions defined by recursion. A theorem of the library that takes a predicate as
a parameter cannot be used with these provers, but one about sets can:
`LeastNumber`, a nonempty set of numbers has a least one, is drawn from the
well-foundedness of strict inclusion between finite sets (`FiniteSetTheorems`), and gives
induction in the form "a set with 0 that is closed under steps is an interval"
(`Induction`), and that a recursive function exists (`Recursion`) and is the only one
(`SumsAreUnique`).

*Proposals.* `BouncesInside` and `BouncesLikeMirrors` are the two halves, for a single call
of `bouncyBounds`: what is left of an overshoot is less than the width (`Remainder`), and
the number of whole widths is even or odd (`Halves`), so that the result differs from
the value, or from its mirror image, by whole periods (`WholePeriods`). The invariant
is the property with the types of the variables.

*Adaptation.* That chain `c` has its rung of one of the last `c` ladders is not inductive:
each cascade computes a new ladder when it reaches the coldest pair, and the rungs of
all chains that it has passed age. `OldEnough(c)` counts what is to come: the age of the
rung of `c` *plus the number of cascades below `c`* is at most `c`. A cascade that passes
`c` gives it a rung of age 1, with at most `c - 1` of them below.

*Scheduling.* The invariant says that a ring holds the last times measured, after zeros
(`RingHasLast`); `RingTotal` then makes their totals the same, and
`EstimateIsExact` the estimate the true one as long as `unsigned` sums do not wrap.
`BestIsBest` is the loop of `bestWorker`: after `i` workers the best so far is the least
of them (`BestAmong`).

*Statistics.* `TableInv` counts the log by `Cardinality`, which grows by one or not when a
state is appended. `WindowInv` says which outcome stands at each place of the window, so
that dropping the oldest keeps it (`WindowSlides`), and that the sum is that of the window.
`DiagnosticInv` says what Welford's recurrences compute: `T = n M` and `S = Q - n M^2` for
the totals `T` of the samples and `Q` of their squares (`Moments`, `WelfordStep`). Two parts
are there for `hasConverged` only: `S >= 0`, so that a sum of zero means that every `S` is,
and that a stack with `S = 0` has never left its first sample. Then no variance
between the stacks means equal means (`EqualMeans`), so equal samples.

### The way of a request

| Theorem | Statement | For all |
|---|---|---|
| `RoutingProofs!AnswersAlwaysReachAsker` | `Spec => []AnswersReachAsker` | submissions, clients, ranges of job types, numbers that are printed |

It is a theorem of the `Spec` of `Algorithms` too. What it assumes: no two numbers are
printed as the same text, and none as the delimiter (`MessagesAssumption`); a submission
asks for at least one type, and its id, its types and its data, rounded to six decimals,
are numbers that can be printed (`RoutingAssumption`). Job ids are such numbers by the
guard of `receiveRequest`.

*Texts and frames.* `JoinSplit`: a list joined by `joinStr` is the list that `splitStr`
gives back, if its elements are characters other than the delimiter, as printed numbers
are. Both loops are functions defined by recursion, and the proof says what they have
after `i` steps (`JoinedText`, `SplitUpTo`). `FramesReceived`: `Socket::receive` gives
back what `Socket::send` was given, for an address without empty frames.
`PlainArrives`, `DealtArrives` and `RoutedArrives` say what a hop does to the address: a
ROUTER pushes one element when it receives and pops one when it sends.
`AscendingIsSeq`: a finite set of numbers has an order, so that the results are at the
places where `Expected` wants them.

*The invariant* `RoutingInv` says what can be where:

* `MailInv`: of each socket, the messages that can be on the way to it. A JOB or a RESULT
  speaks of a job that was given out, and what it says of its type, sample or result is
  right *if that job is still in progress* (`JobMail`, `ResultMail`, and `Computes` of a
  minion). With that condition nothing has to be known of how often a job travels.
* `OneUnderWay`: a pending request is in one place, as a REQUEST or a RESULT on the wire
  or in `requests_`. So a REQUEST never finds its key in the map, where `insert` would
  keep the old entry, and an answer on its way is the only one of its id.
* `RequestsInv`: each entry of `requests_` is that of a submission; the slots that hold
  their results are those without an unfinished job, and `nDone` is how many they are.
* `JobsInv`: no two jobs have one id or one slot, each has its request, and none is in
  the queue and in progress at once.
* `ClientsInv`, `AnswersInv`: workers are known by the identities of clients, and what
  was retrieved is right.

The proof has a lemma per handler. Most handlers only pass a message on (`QuietSteps`,
`WireKept`). `SendJobStep` makes `JobMail` true of the job that is sent; a result fills
the slot of its own job (`ResultFits`), and with the last one the request leaves the map
as its answer enters the wire (`LastResult`). That two requests share a key only if
they share requester and id is `KeysDiffer`; in the model, as in the code, the
id and the identity stand in the key on two sides of a delimiter.

### Not proved

* *Liveness*, everywhere (`EveryRequestAnswered`, `DeadAreDisconnected`,
  `SettledUnlessOrphaned`, `FlushEnds`, `EveryPairSwaps`, `ServerThreadsEnd`, `RunEnds`,
  `WorkerStopReturns`): the prover does not deal with fairness and ENABLED. TLC checks them.

Every other property of a passing run is a theorem.

## 6. Not modelled

* *Floating-point algebra and chance*: the regression of the adapter, the proposal
  shape, the random step of the Gaussian proposal. What the regression says and how
  far a step goes is any value; acceptance and swaps are free choices.
* *I/O without protocol state*: API resources and their thread, command line, JSON
  settings, serialisation, log output and the table that is printed.
* *Reconnection of ZeroMQ*: a JOB or RESULT lost with a TCP connection that comes back.
  The code has no retry; the request waits.
* *High-water marks*, except where a send waits without a peer, the client's to a minion
  that is gone (`Worker`). In particular the two threads of the server could wait for each
  other if both sides of their PAIR sockets were full, a thousand messages each way.
* *Malformed HELLOs and REQUESTs*, whose numbers `std::stoi` rejects.
* *The random IPC address* of a worker, the default settings, a second signal.

## 7. Plan

Done, in this order:

1. `RequestReply`, `Delegator` with its runs: the core of the system.
2. `DelegatorProofs`: types, the conservation of jobs, the order of assignment, the
   lookups of `receiveResult`, the answers.
3. `Sampler`, the user of the Delegator's promise.
4. `ServerHeartbeat` and `Membership`, which composes it with the Delegator.
5. `ChainArray`, what the sampler leaves behind.
6. `Worker`, the other end of the Delegator's sockets.
7. `ServerLifecycle`, `WorkerLifecycle` and `Processes`: start and stop.
8. `Messages` and `Routing`; `Scheduling`; `Proposals`; `Adaptation`; `Statistics`.
9. `SamplerProofs`, `ChainArrayProofs`, `MembershipProofs`, `WorkerProofs`,
   `ProcessesProofs`, `AlgorithmsProofs`: every safety property of these modules.

10. `RoutingProofs`: texts and frames, then who gets the answer. With it every safety
    property of a passing run is proved.

Left:

11. `JobSystem`: `Delegator` composed with `Worker`s in the place of `held`, to show
    the assumption on their order as a refinement.
