------------------------------ MODULE Rollout ------------------------------
(***************************************************************************)
(* What the McuDeployment controller promises, without its phases, its     *)
(* cache, its queue or its patches: a deployment claims one free node,     *)
(* waits for the device to run its image validated, and is then deployed;  *)
(* while it is, the device of that node keeps running that image.          *)
(***************************************************************************)
CONSTANTS Deployment, Node, NoDeployment, NoNode

VARIABLES stage,  \* where each deployment stands
          place,  \* the node it claimed
          runs    \* the validated image of each node's device, by deployment

rolloutVars == <<stage, place, runs>>

Stage == {"pending", "claimed", "confirming", "deployed", "failed", "gone"}

RolloutInit ==
    /\ stage = [d \in Deployment |-> "pending"]
    /\ place = [d \in Deployment |-> NoNode]
    /\ runs = [n \in Node |-> NoDeployment]

Holds(d, n) == place[d] = n /\ stage[d] \notin {"failed", "gone"}

Moves(d, from, to) ==
    /\ stage[d] \in from
    /\ stage' = [stage EXCEPT ![d] = to]

\* A node is free when no deployment holds it, a deployed one included:
\* docs/core/controllers.md:120 says otherwise, checkNotBusy does not.
Claim(d, n) ==
    /\ \A e \in Deployment : ~Holds(e, n)
    /\ Moves(d, {"pending"}, "claimed")
    /\ place' = [place EXCEPT ![d] = n]
    /\ UNCHANGED runs

Await(d)  == Moves(d, {"claimed"}, "confirming") /\ UNCHANGED <<place, runs>>

Deploy(d) ==
    /\ place[d] \in Node /\ runs[place[d]] = d
    /\ Moves(d, {"confirming"}, "deployed")
    /\ UNCHANGED <<place, runs>>

Fail(d)   == Moves(d, Stage \ {"failed", "gone"}, "failed") /\ UNCHANGED <<place, runs>>

Delete(d) ==
    /\ Moves(d, Stage \ {"gone"}, "gone")
    /\ place' = [place EXCEPT ![d] = NoNode]
    /\ UNCHANGED runs

\* The device validates another image, starts one on trial, or falls back.
Run(n, d) ==
    /\ \A e \in Deployment : place[e] = n => stage[e] # "deployed"
    /\ runs' = [runs EXCEPT ![n] = d]
    /\ UNCHANGED <<stage, place>>

RolloutNext ==
    \/ \E d \in Deployment, n \in Node : Claim(d, n)
    \/ \E d \in Deployment : Await(d) \/ Deploy(d) \/ Fail(d) \/ Delete(d)
    \/ \E n \in Node, d \in Deployment \cup {NoDeployment} : Run(n, d)

RolloutSpec == RolloutInit /\ [][RolloutNext]_rolloutVars
=============================================================================
