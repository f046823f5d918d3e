----------------------------- MODULE Adaptation -----------------------------
(***************************************************************************)
(* The temperatures of the chains of one stack: the ladder that the        *)
(* RegressionAdapter computes (src/infer/adaptive.cpp) and the swap        *)
(* cascades of Sampler::step (src/infer/sampler.cpp) that hand its rungs   *)
(* to the chains, one rung of one cascade at a time.                       *)
(*                                                                         *)
(* A temperature is written as -log(beta): it is 0 for the coldest chain   *)
(* and adds up along the ladder.  What the regression says of a rung may   *)
(* be any number; predict clamps it.                                       *)
(***************************************************************************)
EXTENDS Integers, SequencesExt, FiniteSetsExt

CONSTANTS NTemps,    \* number of chains in a stack
          MaxCap,    \* max_cap_ of the adapter of beta; min_cap_ is 0
          Estimates  \* bound: what the linear model may say of the gap to the next rung

ASSUME AdaptationAssumption ==
    /\ NTemps \in Nat \ {0, 1} /\ MaxCap \in Nat
    /\ Estimates \subseteq Int

VARIABLES
    values,   \* values_ of the adapter: the last ladder
    heat,     \* heat[c]: the beta of chain c
    locked,   \* the chains c with locked_[c]: c+1 waits for c
    earlier   \* the ladders before the last one, newest first, for the property only

adaptationVars == <<values, heat, locked, earlier>>

Hottest == NTemps - 1

predict(estimate) == Min({Max({estimate, 0}), MaxCap})

\* The ladder made of one estimate for each gap.
computeBetaStack(estimates) ==
    LET logbeta[c \in 0..Hottest] ==
            IF c = 0 THEN 0 ELSE logbeta[c - 1] + predict(estimates[c])
    IN  logbeta

-----------------------------------------------------------------------------
\* All chains start on the same ladder.
AdaptationIdle ==
    /\ \E estimates \in [1..Hottest -> Estimates] : values = computeBetaStack(estimates)
    /\ heat = values
    /\ locked = {}
    /\ earlier = <<>>

\* The hottest chain, which does not wait for its neighbour, starts a cascade.
StartCascade ==
    /\ Hottest - 1 \notin locked
    /\ locked' = locked \cup {Hottest - 1}
    /\ UNCHANGED <<values, heat, earlier>>

Recompute ==
    /\ \E estimates \in [1..Hottest -> Estimates] : values' = computeBetaStack(estimates)
    /\ earlier' = SubSeq(<<values>> \o earlier, 1, Min({Len(earlier) + 1, NTemps - 2}))

\* Mutant of Swap: the hotter chain gets its temperature before the ladder is computed.
SwapBeforeLadder(c) ==
    /\ IF c = 0 THEN Recompute ELSE UNCHANGED <<values, earlier>>
    /\ heat' = [heat EXCEPT ![c + 1] = values[c + 1]]

\* After a swap of c and c+1: the coldest chain computes a new ladder first.
Swap(c) ==
    /\ IF c = 0 THEN Recompute ELSE UNCHANGED <<values, earlier>>
    /\ heat' = [heat EXCEPT ![c + 1] = values'[c + 1]]

\* A result for a locked chain, which has a job only if it waits for no colder one.
CascadeStep(c) ==
    /\ c \in locked /\ c - 1 \notin locked
    /\ locked' = (locked \ {c}) \cup ({c - 1} \cap (0..Hottest))
    /\ Swap(c)

AdaptationNext == StartCascade \/ \E c \in 0..(Hottest - 1) : CascadeStep(c)

-----------------------------------------------------------------------------
(* Properties *)

Ladders == <<values>> \o earlier

\* Every ladder rises by at most MaxCap per rung, and each chain has its rung of one of
\* the last ladders: chain 1 of the very last one, and a hotter chain, whose temperature
\* is set before the cascade reaches the coldest one, of one that is at most one ladder
\* older per rung, however many cascades are on their way (sampler.cpp:169-186).
TemperaturesLag ==
    /\ \A k \in DOMAIN Ladders :
          /\ Ladders[k][0] = 0
          /\ \A c \in 1..Hottest : Ladders[k][c] - Ladders[k][c - 1] \in 0..MaxCap
    /\ heat[0] = 0
    /\ \A c \in 1..Hottest :
          \E k \in (1..c) \cap DOMAIN Ladders : heat[c] = Ladders[k][c]

\* What README.md:461 says of beta, that it "is adapted as a strictly decreasing
\* ladder": every chain is hotter than its colder neighbour.
StrictLadder == \A c \in 1..Hottest : heat[c] > heat[c - 1]
=============================================================================
