----------------------------- MODULE Statistics -----------------------------
(***************************************************************************)
(* What the server says of its progress: the counters of the TableLogger   *)
(* (src/infer/logging.cpp), the acceptance rates over a window of the      *)
(* RegressionAdapter (src/infer/adaptive.cpp) and the convergence test of  *)
(* the EPSRDiagnostic (src/infer/diagnostics.cpp), all kept incrementally. *)
(*                                                                         *)
(* Samples are such that the running means are integers: those of any log  *)
(* of rationals are, when all samples are scaled by the same number.  The  *)
(* square root and the division of rHat < threshold_ are multiplied out.   *)
(***************************************************************************)
EXTENDS Integers, SequencesExt, FiniteSetsExt, Totals

CONSTANTS NStacks, NChains,  \* nChains_: chains per stack
          Window,            \* n_window_, 1000 in the code
          Infinity,          \* the energy that none exceeds
          Samples,           \* bound: the samples
          Energy,            \* Energy[x]: the energy of sample x
          MaxLog             \* bound: number of states logged

ASSUME StatisticsAssumption ==
    /\ NStacks \in Nat \ {0} /\ NChains \in Nat \ {0}
    /\ Window \in Nat \ {0} /\ MaxLog \in Nat
    /\ Samples \subseteq Int /\ Energy \in [Samples -> Int]
    /\ \A x \in Samples : Energy[x] < Infinity
    /\ Infinity \in Int

Chain == 0..(NStacks * NChains - 1)
Stack == 0..(NStacks - 1)

VARIABLES
    lengths, minEnergies, nAccepts, nSwaps, nSwapAttempts,  \* of the TableLogger, by chain
    M_, S_, numSamples,  \* of the EPSRDiagnostic, by stack: running mean and sum of squares
    window,            \* window_ of the adapter of sigma, by chain
    windowSum,         \* window_sum_
    rates,             \* rates_, as a pair: numerator and denominator
    history            \* the states logged for each chain, for the property only

tableVars == <<lengths, minEnergies, nAccepts, nSwaps, nSwapAttempts>>
diagnosticVars == <<M_, S_, numSamples>>
windowVars == <<window, windowSum, rates>>
statisticsVars == <<tableVars, diagnosticVars, windowVars, history>>

One(condition) == IF condition THEN 1 ELSE 0
Every(value) == [c \in Chain |-> value]

StatisticsIdle ==
    /\ lengths = Every(1) /\ minEnergies = Every(Infinity)
    /\ nAccepts = Every(1) /\ nSwaps = Every(0) /\ nSwapAttempts = Every(1)
    /\ M_ = [k \in Stack |-> 0] /\ S_ = [k \in Stack |-> 0]
    /\ numSamples = [k \in Stack |-> 0]
    /\ window = Every(<<>>) /\ windowSum = Every(0) /\ rates = Every(<<0, 1>>)
    /\ history = Every(<<>>)

-----------------------------------------------------------------------------
\* Mutant of TableLoggerUpdate: only accepted swaps are attempts.
AcceptedSwapsOnly(id, s) ==
    /\ lengths' = [lengths EXCEPT ![id] = @ + 1]
    /\ minEnergies' = [minEnergies EXCEPT ![id] = Min({@, Energy[s.sample]})]
    /\ nAccepts' = [nAccepts EXCEPT ![id] = @ + One(s.accepted)]
    /\ nSwaps' = [nSwaps EXCEPT ![id] = @ + One(s.swapType = "Accept")]
    /\ nSwapAttempts' = [nSwapAttempts EXCEPT ![id] = @ + One(s.swapType = "Accept")]

TableLoggerUpdate(id, s) ==
    /\ lengths' = [lengths EXCEPT ![id] = @ + 1]
    /\ minEnergies' = [minEnergies EXCEPT ![id] = Min({@, Energy[s.sample]})]
    /\ nAccepts' = [nAccepts EXCEPT ![id] = @ + One(s.accepted)]
    /\ nSwaps' = [nSwaps EXCEPT ![id] = @ + One(s.swapType = "Accept")]
    /\ nSwapAttempts' = [nSwapAttempts EXCEPT ![id] = @ + One(s.swapType # "NoAttempt")]

\* Only the coldest chain of a stack is diagnosed.
DiagnosticUpdate(id, x) ==
    IF id % NChains # 0 THEN UNCHANGED diagnosticVars
    ELSE LET k    == id \div NChains
             n    == numSamples[k] + 1
             newM == M_[k] + (x - M_[k]) \div n
         IN  /\ S_' = [S_ EXCEPT ![k] = @ + (x - M_[k]) * (x - newM)]
             /\ M_' = [M_ EXCEPT ![k] = newM]
             /\ numSamples' = [numSamples EXCEPT ![k] = n]

\* A full window drops its oldest outcome at once, but still counts it in the rate.
WindowUpdate(id, accepted) ==
    LET longer == Append(window[id], One(accepted))
        n      == Len(longer)
        oldest == IF n >= Window THEN Head(longer) ELSE 0
        sum    == windowSum[id] + One(accepted) - oldest
    IN  /\ window' = [window EXCEPT ![id] = IF n >= Window THEN Tail(longer) ELSE longer]
        /\ windowSum' = [windowSum EXCEPT ![id] = sum]
        /\ rates' = [rates EXCEPT ![id] = <<sum, n>>]

\* One pass of the server's main loop, whatever the chain has done.
Log(id, s) ==
    /\ s.swapType # "NoAttempt" => id % NChains # NChains - 1
    /\ WindowUpdate(id, s.accepted)
    /\ TableLoggerUpdate(id, s)
    /\ DiagnosticUpdate(id, s.sample)
    /\ history' = [history EXCEPT ![id] = Append(@, s)]

State == [sample : Samples, accepted : BOOLEAN, swapType : {"NoAttempt", "Accept", "Reject"}]

Logged == MapThenSumSet(LAMBDA c : Len(history[c]), Chain)

\* A bound on the samples: the coldest chain's mean stays an integer.
MeanIsWhole(id, x) ==
    LET k == id \div NChains
    IN  id % NChains = 0 => (x - M_[k]) % (numSamples[k] + 1) = 0

StatisticsNext ==
    /\ Logged < MaxLog
    /\ \E id \in Chain, s \in State : MeanIsWhole(id, s.sample) /\ Log(id, s)

\* rHat() < threshold_, which is 1.1.  Divisions by zero make it NaN, and not less.
OfStacks(f(_)) == Total([i \in 1..NStacks |-> f(i - 1)])

hasConverged ==
    LET n       == Min({numSamples[k] : k \in Stack})
        m       == NStacks
        sumM    == OfStacks(LAMBDA k : M_[k])
        between == OfStacks(LAMBDA k : (m * M_[k] - sumM) * (m * M_[k] - sumM))
        within  == OfStacks(LAMBDA k : S_[k])
    IN  /\ m > 1 /\ n > 1
        /\ IF within = 0 THEN between = 0
           ELSE 100 * (m * (m - 1) * (n - 1) * within + n * (n - 1) * between)
                    < 121 * n * m * (m - 1) * within

-----------------------------------------------------------------------------
(* Property *)

Count(c, Test(_)) == Cardinality({i \in DOMAIN history[c] : Test(history[c][i])})
SumOver(q, f(_)) == Total([i \in DOMAIN q |-> f(q[i])])
LastOf(q, n) == SubSeq(q, Len(q) - Min({n, Len(q)}) + 1, Len(q))

\* The counters of a chain, the first state included as an accepted one and a swap
\* attempt that failed (logging.cpp:42-47).
TableMatches(c) ==
    /\ lengths[c] = 1 + Len(history[c])
    /\ minEnergies[c] = Min({Infinity} \cup {Energy[s.sample] : s \in ToSet(history[c])})
    /\ nAccepts[c] = 1 + Count(c, LAMBDA s : s.accepted)
    /\ nSwaps[c] = Count(c, LAMBDA s : s.swapType = "Accept")
    /\ nSwapAttempts[c] = 1 + Count(c, LAMBDA s : s.swapType \in {"Accept", "Reject"})

\* A window of N holds the last N - 1 outcomes, and the rate is their sum by N.
WindowMatches(c) ==
    LET last == LastOf(history[c], Window - 1)
    IN  history[c] # <<>> =>
            /\ rates[c] = << SumOver(last, LAMBDA s : One(s.accepted)),
                             Min({Window, Len(history[c])}) >>
            /\ window[c] = [i \in DOMAIN last |-> One(last[i].accepted)]

\* The running mean and squares are those of the coldest chain, computed in two passes.
DiagnosticMatches(k) ==
    LET q   == history[k * NChains]
        sum == SumOver(q, LAMBDA s : s.sample)
    IN  /\ numSamples[k] = Len(q)
        /\ Len(q) * M_[k] = sum
        /\ Len(q) * S_[k] = Len(q) * SumOver(q, LAMBDA s : s.sample * s.sample) - sum * sum

\* What is kept incrementally is what the log says: the counters of each chain, the
\* rate of its last outcomes, which is never 1 once the window is full, and the
\* variance in each coldest chain; and no convergence is claimed of a single stack, of
\* a stack with a single sample, or of stacks that do not move but differ
\* (adaptive.cpp:81-90, logging.cpp:42-48, diagnostics.cpp:36-75).
StatisticsMatchLog ==
    /\ \A c \in Chain : TableMatches(c) /\ WindowMatches(c)
    /\ \A k \in Stack : DiagnosticMatches(k)
    /\ hasConverged =>
          /\ NStacks > 1
          /\ \A k \in Stack : Len(history[k * NChains]) > 1
          /\ \/ \A k, l \in Stack : history[k * NChains][1].sample
                                        = history[l * NChains][1].sample
             \/ \E k \in Stack : S_[k] > 0
=============================================================================
