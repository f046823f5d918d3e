----------------------------- MODULE Scheduling -----------------------------
(***************************************************************************)
(* How the Delegator chooses among eligible workers: the times it has      *)
(* measured (receiveResult), the ring that keeps the last of them          *)
(* (src/common/circularbuffer.hpp), the estimates made of them and the     *)
(* choice (timeForJob, usTillDone and bestWorker of src/comms/             *)
(* delegator.cpp).  All of it is unsigned arithmetic.                      *)
(***************************************************************************)
EXTENDS Integers, SequencesExt, FiniteSetsExt, Totals

CONSTANTS Workers,     \* the connected workers in the order of workers_, by identity
          TypesOf,     \* TypesOf[w]: the types in jobTypesRange of w
          MaxJobs,     \* maxJobs of onPoll
          Capacity,    \* size of a ring of times
          Unsigned,    \* number of values of a uint
          Elapsed,     \* the times that may be measured, in microseconds
          MaxMeasured  \* bound: measurements per worker and type

NoWorker == "none"

ASSUME SchedulingAssumption ==
    /\ Capacity \in Nat \ {0} /\ Unsigned \in Nat \ {0}
    /\ Elapsed \subseteq 0..(Unsigned - 1)
    /\ MaxJobs \in Nat /\ MaxMeasured \in Nat
    /\ Workers \in Seq(ToSet(Workers)) /\ NoWorker \notin ToSet(Workers)

VARIABLES
    inProgress,  \* inProgress[w]: the types of the jobs in workInProgress of w
    times,       \* times[w][t]: the CircularBuffer of w for type t
    measured     \* all that was ever measured, for the property only

schedulingVars == <<inProgress, times, measured>>

Worker == ToSet(Workers)
\* A new ring is full, of zeros.
CircularBuffer == [i \in 1..Capacity |-> 0]

\* Mutant of PushBack: the ring grows instead of dropping its oldest entry.
PushBackOnly(ring, val) == Append(ring, val)

PushBack(ring, val) ==
    LET longer == Append(ring, val)
    IN  IF Len(longer) > Capacity THEN Tail(longer) ELSE longer

\* size() is the capacity, so the guess for a worker without times is never made.
timeForJob(w, type) == (Total(times[w][type]) % Unsigned) \div Capacity

usTillDone(w, type) ==
    (Total([i \in DOMAIN inProgress[w] |-> timeForJob(w, inProgress[w][i])])
        + timeForJob(w, type)) % Unsigned

Candidates(type) == {w \in Worker : type \in TypesOf[w] /\ Len(inProgress[w]) < MaxJobs}

\* Mutant of bestWorker: the best time so far is not kept.
BestAgainstMax(type) ==
    LET best[i \in 0..Len(Workers)] ==
            IF i = 0 THEN [worker |-> NoWorker, time |-> Unsigned - 1]
            ELSE IF Workers[i] \in Candidates(type)
                        /\ usTillDone(Workers[i], type) < best[i - 1].time
            THEN [best[i - 1] EXCEPT !.worker = Workers[i]]
            ELSE best[i - 1]
    IN  best[Len(Workers)].worker

\* best[i]: the choice among the first i workers.
bestWorker(type) ==
    LET best[i \in 0..Len(Workers)] ==
            IF i = 0 THEN [worker |-> NoWorker, time |-> Unsigned - 1]
            ELSE IF Workers[i] \in Candidates(type)
                        /\ usTillDone(Workers[i], type) < best[i - 1].time
            THEN [worker |-> Workers[i], time |-> usTillDone(Workers[i], type)]
            ELSE best[i - 1]
    IN  best[Len(Workers)].worker

-----------------------------------------------------------------------------
SchedulingIdle ==
    /\ inProgress = [w \in Worker |-> <<>>]
    /\ times = [w \in Worker |-> [t \in TypesOf[w] |-> CircularBuffer]]
    /\ measured = [w \in Worker |-> [t \in TypesOf[w] |-> <<>>]]

\* onPoll gives a job to the best worker, if there is one.
AssignToBest(type) ==
    /\ bestWorker(type) # NoWorker
    /\ inProgress' = [inProgress EXCEPT ![bestWorker(type)] = Append(@, type)]
    /\ UNCHANGED <<times, measured>>

\* receiveResult: the time since the i-th job in progress of w, or its last result.
Measure(w, i, usecs) ==
    LET type == inProgress[w][i] IN
    /\ Len(measured[w][type]) < MaxMeasured
    /\ inProgress' = [inProgress EXCEPT ![w] = RemoveAt(@, i)]
    /\ times' = [times EXCEPT ![w][type] = PushBack(@, usecs)]
    /\ measured' = [measured EXCEPT ![w][type] = Append(@, usecs)]

SchedulingNext ==
    \/ \E type \in UNION {TypesOf[w] : w \in Worker} : AssignToBest(type)
    \/ \E w \in Worker, usecs \in Elapsed :
          \E i \in DOMAIN inProgress[w] : Measure(w, i, usecs)

-----------------------------------------------------------------------------
(* Property *)

\* The mean of the last Capacity times of w for type, those still missing as zeros.
LastTimes(w, type) ==
    LET all == measured[w][type]
    IN  Total(SubSeq(all, Max({1, Len(all) - Capacity + 1}), Len(all)))
MeanTime(w, type) == LastTimes(w, type) \div Capacity
TimeTillDone(w, type) ==
    Total([i \in DOMAIN inProgress[w] |-> MeanTime(w, inProgress[w][i])]) + MeanTime(w, type)

\* No estimate for w wraps around: true of the code while the last ten jobs of a type
\* took less than 71 minutes together, and the jobs in progress will as well.
NoOverflow(w, type) ==
    /\ \A t \in TypesOf[w] : LastTimes(w, t) < Unsigned
    /\ TimeTillDone(w, type) < Unsigned - 1

\* The job goes to a worker with room that, by the means of its last measurements,
\* will be done first; one that has answered less often than the ring is long
\* counts as quicker than it is.  It is left in the queue only if nobody has
\* room, or all estimates are the largest uint (delegator.cpp:204-224).
QuickestEligible ==
    \A type \in UNION {TypesOf[w] : w \in Worker} :
        LET best == bestWorker(type) IN
        /\ best = NoWorker =>
              \A w \in Candidates(type) : usTillDone(w, type) = Unsigned - 1
        /\ best # NoWorker => best \in Candidates(type)
        /\ (\A w \in Candidates(type) : NoOverflow(w, type)) /\ Candidates(type) # {} =>
              \A w \in Candidates(type) : TimeTillDone(best, type) <= TimeTillDone(w, type)
=============================================================================
