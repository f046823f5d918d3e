----------------------------- MODULE Proposals ------------------------------
(***************************************************************************)
(* How a chain's sample stays inside the hard bounds: the initial sample   *)
(* (generateInitialSample of src/app/serverwrapper.cpp), the steps of the  *)
(* GaussianProposal and bouncyBounds, which folds what they overshoot back *)
(* between the bounds (src/infer/sampler.cpp).                             *)
(*                                                                         *)
(* bouncyBounds treats every dimension by itself, so a sample is a number, *)
(* here a multiple of some small unit.  How far an overshoot is must fit   *)
(* an int when counted in widths of the interval.                          *)
(***************************************************************************)
EXTENDS Integers

CONSTANTS Bounds,  \* the pairs <<min, max>> of ProposalBounds
          Reach,   \* bound: how far a step or a given initial sample goes
          NoSample

ASSUME ProposalsAssumption ==
    /\ Bounds \subseteq Int \X Int
    /\ \A b \in Bounds : b[1] < b[2]
    /\ Reach \in Nat
    /\ NoSample \notin Int

VARIABLES
    bounds,   \* bounds_
    sample,   \* the sample of the chain's last state
    reached   \* the proposal before it was folded back, for the property only

proposalVars == <<bounds, sample, reached>>

\* Mutant of Fold: an odd number of widths is treated like an even one.
FoldFromTheSameEnd(min, max, overstep, near, far, inward) ==
    near + inward * (overstep % (max - min))

\* overstep is how far the value lies beyond the bound near; nSteps whole widths of it
\* are walked to and fro, and what is left is counted from the end reached then.
Fold(min, max, overstep, near, far, inward) ==
    LET delta     == max - min
        nSteps    == overstep \div delta
        stillToGo == overstep - nSteps * delta
    IN  IF nSteps % 2 = 0 THEN near + inward * stillToGo
                          ELSE far - inward * stillToGo

bouncyBounds(val, min, max) ==
    IF val > max THEN Fold(min, max, val - max, max, min, -1)
    ELSE IF val < min THEN Fold(min, max, min - val, min, max, 1)
    ELSE val

-----------------------------------------------------------------------------
ProposalsIdle == bounds \in Bounds /\ sample = NoSample /\ reached = NoSample

\* generateInitialSample: a given sample or a random one.
generateInitialSample(val) ==
    /\ sample = NoSample
    /\ reached' = val
    /\ sample' = bouncyBounds(val, bounds[1], bounds[2])
    /\ UNCHANGED bounds

\* boundedPropose, whose result the chain may accept or not.
boundedPropose(step) ==
    /\ sample # NoSample
    /\ \/ /\ reached' = sample + step
          /\ sample' = bouncyBounds(sample + step, bounds[1], bounds[2])
       \/ UNCHANGED <<sample, reached>>
    /\ UNCHANGED bounds

ProposalsNext ==
    \E step \in -Reach..Reach : generateInitialSample(step) \/ boundedPropose(step)

-----------------------------------------------------------------------------
(* Property *)

\* x and y are images of each other in mirrors that stand at min and at max.
Mirrored(x, y, min, max) ==
    LET period == 2 * (max - min)
    IN  (x - y) % period = 0 \/ (x + y - 2 * min) % period = 0

\* Whatever the steps of the proposal are, and however often the interval fits into
\* an overshoot, the sample of a chain lies between the bounds, where a walk that
\* bounces off both of them would have ended (sampler.cpp:30-53).
ReflectedIntoBounds ==
    sample # NoSample =>
        /\ bounds[1] <= sample /\ sample <= bounds[2]
        /\ Mirrored(reached, sample, bounds[1], bounds[2])
=============================================================================
