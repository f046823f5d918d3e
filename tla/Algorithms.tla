----------------------------- MODULE Algorithms -----------------------------
(***************************************************************************)
(* The six parts of the system that share no state with each other, and    *)
(* whose results the other modules take as given: one of them runs in each *)
(* behaviour.                                                              *)
(***************************************************************************)
EXTENDS Routing, Scheduling, Proposals, Adaptation, Statistics, ChainArray

VARIABLE running  \* the part that runs

Parts == {"Routing", "Scheduling", "Proposals", "Adaptation", "Statistics", "ChainArray"}

\* The parts that do not run are idle, in one of their initial states.
Init ==
    /\ running \in Parts
    /\ RoutingIdle /\ SchedulingIdle /\ StatisticsIdle
    /\ ProposalsIdle /\ AdaptationIdle /\ StoreIdle
    /\ running # "Proposals" => bounds = CHOOSE b \in Bounds : TRUE
    /\ running # "Adaptation" =>
          values = computeBetaStack(CHOOSE e \in [1..Hottest -> Estimates] : TRUE)
    /\ running # "ChainArray" => scale = [c \in ChainId |-> CHOOSE x \in Scale : TRUE]

RoutingRuns ==
    /\ running = "Routing" /\ RoutingNext
    /\ UNCHANGED <<running, schedulingVars, proposalVars, adaptationVars, statisticsVars,
                   storeVars>>

SchedulingRuns ==
    /\ running = "Scheduling" /\ SchedulingNext
    /\ UNCHANGED <<running, routingVars, proposalVars, adaptationVars, statisticsVars,
                   storeVars>>

ProposalsRun ==
    /\ running = "Proposals" /\ ProposalsNext
    /\ UNCHANGED <<running, routingVars, schedulingVars, adaptationVars, statisticsVars,
                   storeVars>>

AdaptationRuns ==
    /\ running = "Adaptation" /\ AdaptationNext
    /\ UNCHANGED <<running, routingVars, schedulingVars, proposalVars, statisticsVars,
                   storeVars>>

StatisticsRun ==
    /\ running = "Statistics" /\ StatisticsNext
    /\ UNCHANGED <<running, routingVars, schedulingVars, proposalVars, adaptationVars,
                   storeVars>>

ChainArrayRuns ==
    /\ running = "ChainArray" /\ StoreNext
    /\ UNCHANGED <<running, routingVars, schedulingVars, proposalVars, adaptationVars,
                   statisticsVars>>

Next ==
    \/ RoutingRuns \/ SchedulingRuns \/ ProposalsRun \/ AdaptationRuns \/ StatisticsRun
    \/ ChainArrayRuns

Spec == Init /\ [][Next]_<<running, routingVars, schedulingVars, proposalVars,
                           adaptationVars, statisticsVars, storeVars>>
=============================================================================
