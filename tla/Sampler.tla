------------------------------ MODULE Sampler -------------------------------
(***************************************************************************)
(* The Sampler (src/infer/sampler.cpp): one thread that keeps one proposal *)
(* of each chain out for evaluation and advances whichever chain's result  *)
(* comes back first.  The chains of a stack are ordered by temperature,    *)
(* coldest first; every SwapInterval states the hottest starts a cascade   *)
(* of swaps that runs down to the coldest, each chain waiting until the    *)
(* one below it has returned.                                              *)
(*                                                                         *)
(* What a chain's states are does not steer the sampler, so a chain is its *)
(* length, and stale[c] records what the correctness of the method turns   *)
(* on: whether the proposal in flight still is one made from c's last      *)
(* state.  Results come back in any order.                                 *)
(***************************************************************************)
EXTENDS Integers, FiniteSets

CONSTANTS NStacks,      \* nstacks_
          NTemps,       \* nchains_: temperatures, that is chains, per stack
          SwapInterval, \* swapInterval_
          Wrap,         \* bound: numOutstandingJobs_ is a uint modulo Wrap
          LengthWrap    \* bound: a length is a uint modulo LengthWrap

ASSUME SamplerAssumption ==
    /\ NStacks \in Nat \ {0} /\ NTemps \in Nat \ {0}
    /\ SwapInterval \in Nat \ {0}
    /\ Wrap \in Nat /\ Wrap > NStacks * NTemps
    /\ LengthWrap \in Nat /\ LengthWrap > 1

Chain == 0..(NStacks * NTemps - 1)

VARIABLES
    outstanding, \* outstanding[c]: requests submitted for chain c, not retrieved
    numOutstandingJobs,
    locked,      \* locked_[c]: the chain above c waits for c
    length,      \* length of chain c
    stale,       \* stale[c]: c's proposal in flight was made from an earlier state
    mode         \* "stepping", then "flushing", then "flushed" (haveFlushed_)

vars == <<outstanding, numOutstandingJobs, locked, length, stale, mode>>

isHottestInStack(c) == c % NTemps = NTemps - 1
isColdestInStack(c) == c % NTemps = 0

-----------------------------------------------------------------------------
\* The constructor has proposed a state for every chain.
Init ==
    /\ outstanding = [c \in Chain |-> 1]
    /\ numOutstandingJobs = NStacks * NTemps
    /\ locked = [c \in Chain |-> FALSE]
    /\ length = [c \in Chain |-> 1]
    /\ stale = [c \in Chain |-> FALSE]
    /\ mode = "stepping"

\* chains_.append: the result of chain c extends it by one state.
Append(c) == length' = [length EXCEPT ![c] = (@ + 1) % LengthWrap]

\* Mutant of Resubmit: the retrieved result is not taken off the counter.
ResubmitUncounted(c, changed, proposed) ==
    LET left == [outstanding EXCEPT ![c] = @ - 1] IN
    /\ outstanding' = [d \in Chain |-> IF d \in proposed THEN left[d] + 1 ELSE left[d]]
    /\ numOutstandingJobs' = (numOutstandingJobs + Cardinality(proposed)) % Wrap
    /\ stale' = [d \in Chain |-> IF d \in proposed \cup changed THEN left[d] > 0
                                                               ELSE stale[d]]

\* What a step leaves in flight: it retrieves the result of chain c, replaces
\* the last states of the chains in changed, and proposes for those in proposed,
\* whose propStates_ it overwrites.
Resubmit(c, changed, proposed) ==
    LET left == [outstanding EXCEPT ![c] = @ - 1] IN
    /\ outstanding' = [d \in Chain |-> IF d \in proposed THEN left[d] + 1 ELSE left[d]]
    /\ numOutstandingJobs' = (numOutstandingJobs - 1 + Cardinality(proposed)) % Wrap
    /\ stale' = [d \in Chain |->
                    IF d \in proposed \cup changed THEN left[d] > 0 ELSE stale[d]]

-----------------------------------------------------------------------------
(* Sampler::step *)

Returns(c) == mode = "stepping" /\ outstanding[c] > 0 /\ Append(c) /\ UNCHANGED mode

\* unlock(c): the chain above goes on, and c now waits for the chain below; the
\* coldest chain has none to wait for and goes on as well.
ProposedByUnlock(c) == {c + 1} \cup (IF isColdestInStack(c) THEN {c} ELSE {})

Unlocked(c) ==
    [d \in Chain |-> CASE d = c -> FALSE
                       [] d = c - 1 /\ ~isColdestInStack(c) -> TRUE
                       [] OTHER -> locked[d]]

\* Mutant of SwapAndUnlock: the cascade ends with its first swap.
SwapEndingCascade(c) ==
    /\ Returns(c)
    /\ locked[c]
    /\ \E swapped \in BOOLEAN :
          Resubmit(c, IF swapped THEN {c, c + 1} ELSE {c}, {c, c + 1})
    /\ locked' = [locked EXCEPT ![c] = FALSE]

\* The chain above c waits: swap with it (or not), then unlock(c).
SwapAndUnlock(c) ==
    /\ Returns(c)
    /\ locked[c]
    /\ \E swapped \in BOOLEAN :
          Resubmit(c, IF swapped THEN {c, c + 1} ELSE {c}, ProposedByUnlock(c))
    /\ locked' = Unlocked(c)

\* The hottest chain is due to swap: it waits for the one below.
CascadeDue(c) ==
    isHottestInStack(c) /\ length'[c] % SwapInterval = 0 /\ NTemps > 1

\* Mutant of StartCascade: the hottest chain goes on while it waits.
StartCascadeAndGoOn(c) ==
    /\ Returns(c)
    /\ ~locked[c] /\ CascadeDue(c)
    /\ Resubmit(c, {c}, {c})
    /\ locked' = [locked EXCEPT ![c - 1] = TRUE]

StartCascade(c) ==
    /\ Returns(c)
    /\ ~locked[c] /\ CascadeDue(c)
    /\ Resubmit(c, {c}, {})
    /\ locked' = [locked EXCEPT ![c - 1] = TRUE]

Continue(c) ==
    /\ Returns(c)
    /\ ~locked[c] /\ ~CascadeDue(c)
    /\ Resubmit(c, {c}, {c})
    /\ UNCHANGED locked

Step(c) == SwapAndUnlock(c) \/ StartCascade(c) \/ Continue(c)

-----------------------------------------------------------------------------
(* Sampler::flush, called by runSampler when it is done sampling *)

StartFlush ==
    /\ mode = "stepping"
    /\ mode' = "flushing"
    /\ UNCHANGED <<outstanding, numOutstandingJobs, locked, length, stale>>

\* One turn of while (numOutstandingJobs_--).
FlushOne(c) ==
    /\ mode = "flushing"
    /\ numOutstandingJobs # 0
    /\ outstanding[c] > 0
    /\ Append(c)
    /\ Resubmit(c, {c}, {})
    /\ UNCHANGED <<locked, mode>>

\* Mutant of EndFlush: the counter is a signed number.
EndFlushSigned ==
    /\ mode = "flushing"
    /\ numOutstandingJobs = 0
    /\ numOutstandingJobs' = numOutstandingJobs - 1
    /\ mode' = "flushed"
    /\ UNCHANGED <<outstanding, locked, length, stale>>

\* The last test of the loop takes the counter below zero.
EndFlush ==
    /\ mode = "flushing"
    /\ numOutstandingJobs = 0
    /\ numOutstandingJobs' = (numOutstandingJobs - 1) % Wrap
    /\ mode' = "flushed"
    /\ UNCHANGED <<outstanding, locked, length, stale>>

\* runSampler returns.
Finished == mode = "flushed" /\ UNCHANGED vars

Next ==
    \/ \E c \in Chain : Step(c) \/ FlushOne(c)
    \/ StartFlush \/ EndFlush \/ Finished

Spec == Init /\ [][Next]_vars

\* Every request is answered sooner or later (Delegator!EveryRequestAnswered) and
\* the thread keeps retrieving.
Fairness ==
    /\ \A c \in Chain : WF_vars(Step(c)) /\ WF_vars(FlushOne(c))
    /\ WF_vars(EndFlush)

FairSpec == Spec /\ Fairness

-----------------------------------------------------------------------------
(* Properties *)

\* Every variable has the type of the member it stands for.
TypeOK ==
    /\ outstanding \in [Chain -> Nat]
    /\ numOutstandingJobs \in 0..(Wrap - 1)
    /\ locked \in [Chain -> BOOLEAN]
    /\ length \in [Chain -> 0..(LengthWrap - 1)]
    /\ stale \in [Chain -> BOOLEAN]
    /\ mode \in {"stepping", "flushing", "flushed"}

\* No chain has two requests outstanding: propStates_[id] is the state its result
\* is for, and the Delegator never sees a key twice (delegator.cpp:161).
OneOutstandingPerChain == \A c \in Chain : outstanding[c] <= 1

\* While stepping, a chain has nothing in flight exactly if the chain below is
\* locked for it: no chain is forgotten, none runs ahead while it should wait.
\* The coldest chains never wait, so no stack comes to a halt.
WaitsIffColderLocked ==
    mode = "stepping" =>
        \A c \in Chain :
            outstanding[c] = 0 <=> ~isColdestInStack(c) /\ locked[c - 1]

\* A lock is only ever put on a chain that has a hotter one in its stack.
HottestNeverLocked == \A c \in Chain : locked[c] => ~isHottestInStack(c)

\* A result is judged against the state its proposal was made from: no swap
\* replaces the last state of a chain while its proposal is being evaluated.
NoStaleProposal == \A c \in Chain : outstanding[c] > 0 => ~stale[c]

\* The counter the flush loop counts down is the number of requests in flight, so
\* the loop neither leaves a result behind nor waits for one that never comes.
CountsOutstanding ==
    mode # "flushed" =>
        numOutstandingJobs = Cardinality({c \in Chain : outstanding[c] > 0})

\* Once the flush has begun it ends.
FlushEnds == mode = "flushing" ~> mode = "flushed"

\* As long as the sampler steps, every two neighbouring chains of a stack get to
\* swap again and again: no cascade gets stuck, no chain starves.
EveryPairSwaps ==
    [](mode = "stepping") =>
        \A c \in Chain : ~isHottestInStack(c) => []<><<SwapAndUnlock(c)>>_vars
=============================================================================
