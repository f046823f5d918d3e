---------------------------- MODULE RequestReply ----------------------------
(***************************************************************************)
(* What the server promises its requesters, with no workers in sight: a    *)
(* request names a set of job types and some data, and is answered once,   *)
(* with the result of every one of those types on that data.  A requester  *)
(* key is one "batch id : socket identity" (delegator.cpp, receiveRequest) *)
(* and has at most one request outstanding.                                *)
(***************************************************************************)
CONSTANTS Key,          \* the requester keys
          JobType,      \* the job types a request may name
          Data,         \* the request payloads
          Idle          \* the state of a key with no request outstanding

VARIABLE call           \* call[k]: where the request of key k stands

Asked(types, data) == [stage |-> "asked", types |-> types, data |-> data]

\* The result a worker computes for a job: it depends on its type and data only.
Compute(type, data) == <<type, data>>

Answered(answer) == [stage |-> "answered", answer |-> answer]

Init == call = [k \in Key |-> Idle]

Ask(k) ==
    /\ call[k] = Idle
    /\ \E types \in (SUBSET JobType) \ {{}}, data \in Data :
          call' = [call EXCEPT ![k] = Asked(types, data)]

Answer(k) ==
    /\ call[k] # Idle
    /\ call[k].stage = "asked"
    /\ call' = [call EXCEPT ![k] =
                  Answered([t \in call[k].types |-> Compute(t, call[k].data)])]

Take(k) ==
    /\ call[k] # Idle
    /\ call[k].stage = "answered"
    /\ call' = [call EXCEPT ![k] = Idle]

Next == \E k \in Key : Ask(k) \/ Answer(k) \/ Take(k)

Spec == Init /\ [][Next]_call
=============================================================================
